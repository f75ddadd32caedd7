--------------------------- MODULE MCDedupWorkers ---------------------------
(***************************************************************************)
(* Small file sets for DedupWorkers.  Records hold two bytes unless said   *)
(* otherwise, a run has at most two chunks (MaxRunBytes = 4).              *)
(***************************************************************************)
EXTENDS DedupWorkers, TLC

CONSTANTS a, b, c, x,     \* values
          w1, w2,         \* tasks
          zeroHash,
          MaxChunks       \* longest file of SmallInputs

\* A chunk with the hash that its bytes have, and one with a hash of its own.
Chunk(val, len) ==
    [val |-> val, len |-> len, hash |-> IF val = ZeroVal THEN zeroHash ELSE <<val, len>>]
Full(val) == Chunk(val, 2)
Part(val) == Chunk(val, 1)
Collides(chunk, other) == [chunk EXCEPT !.hash = other.hash]

F(blksz, chunks) == [blksz |-> blksz, chunks |-> chunks]

Bytes(chunks, blksz) ==
    IF chunks = <<>> THEN 0 ELSE (Len(chunks) - 1) * blksz + chunks[Len(chunks)].len

\* Inode f is file number f.
Layout(fs) ==
    [files |-> [i \in DOMAIN fs |-> [ino |-> i, blksz |-> fs[i].blksz,
                                     size |-> Bytes(fs[i].chunks, fs[i].blksz)]],
     cache |-> [f \in DOMAIN fs |-> [n \in DOMAIN fs[f].chunks |-> fs[f].chunks[n].hash]],
     disk  |-> [f \in DOMAIN fs |->
                  [n \in DOMAIN fs[f].chunks |->
                      [val |-> fs[f].chunks[n].val, len |-> fs[f].chunks[n].len,
                       id |-> <<f, n>>]]]]

\* The file had grown by one chunk between stat and read: stat's size is short.
GrownWhileHashed(layout, f) == [layout EXCEPT !.files[f].size = @ - 2]
\* Nothing was hashed for f: pruned, or the cache was deleted.
Unhashed(layout, f) ==
    [layout EXCEPT !.cache = [g \in DOMAIN @ \ {f} |-> @[g]]]

Copies      == Layout(<<F(2, <<Full(a), Full(b), Part(a)>>), F(2, <<Full(a), Full(b), Part(a)>>)>>)
ThreeCopies == Layout(<<F(2, <<Full(a), Part(b)>>), F(2, <<Full(a), Part(b)>>), F(2, <<Full(a), Part(b)>>)>>)
Crossed     == Layout(<<F(2, <<Full(a), Full(b)>>), F(2, <<Full(c), Full(a)>>), F(2, <<Full(b), Full(c)>>)>>)
WithinFile  == Layout(<<F(2, <<Full(a), Full(b), Full(a), Full(b)>>), F(2, <<Full(b), Full(ZeroVal)>>)>>)
Records     == Layout(<<F(2, <<Full(a)>>), F(3, <<Chunk(a, 2)>>), F(2, <<Full(a)>>), F(3, <<Chunk(a, 2)>>)>>)
Collision   == Layout(<<F(2, <<Full(a), Full(b)>>), F(2, <<Full(a), Collides(Full(c), Full(b))>>),
                        F(2, <<Collides(Full(c), Full(b))>>)>>)
LongRun     == Layout(<<F(2, <<Full(a), Full(b), Full(c)>>), F(2, <<Full(a), Full(b), Full(c)>>)>>)

\* Two clones into one file, the second of which extends it when it has been cut.
TwoSources  == Layout(<<F(1, <<Part(a)>>), F(1, <<Part(c), Part(b)>>), F(1, <<Part(a), Part(b)>>)>>)

\* Every pair of small files, and triples.  Hashes are free, so that a full chunk
\* and a tail may well have the same one; the size that stat reported covers the
\* hashes exactly, ends inside the last chunk, or ends a chunk early.  Hashes can
\* be renamed, so the first file need not start with b, nor in a triple with c.
HashLists == UNION { [1 .. n -> {a, b, ZeroHash}] : n \in 0 .. MaxChunks }
Sizes(n, blksz) == { s \in {n * blksz, n * blksz - 1, (n - 1) * blksz - 1} : s >= 0 }

OneFile(blksz) ==
    UNION { { [blksz |-> blksz, size |-> s, hashes |-> hs] : s \in Sizes(Len(hs), blksz) } :
            hs \in HashLists }
Exact(n, blksz, hashes) ==
    { [blksz |-> blksz, size |-> n * blksz, hashes |-> hs] : hs \in [1 .. n -> hashes] }
NotFirst(fs, hashes) == { f \in fs : f.hashes = <<>> \/ f.hashes[1] \notin hashes }

ValOf(hash) == IF hash = ZeroHash THEN ZeroVal ELSE hash
TailOf(f)   == IF f.size = Len(f.hashes) * f.blksz - 1 THEN f.blksz - 1 ELSE f.blksz

Input(fs) ==
    [files |-> [i \in DOMAIN fs |-> [ino |-> i, size |-> fs[i].size, blksz |-> fs[i].blksz]],
     cache |-> [i \in DOMAIN fs |-> fs[i].hashes],
     disk  |-> [i \in DOMAIN fs |->
                  [n \in DOMAIN fs[i].hashes |->
                      [val |-> ValOf(fs[i].hashes[n]), id |-> <<i, n>>,
                       len |-> IF n = Len(fs[i].hashes) THEN TailOf(fs[i]) ELSE fs[i].blksz]]]]

SmallInputs ==
    { Input(<<f, g>>) : f \in NotFirst(OneFile(2), {b}),
                        g \in OneFile(2) \cup Exact(2, 3, {a, b}) }
    \cup { Input(<<f, g, h>>) : f \in NotFirst(Exact(3, 2, {a, b, c}), {b, c}),
                               g \in Exact(1, 2, {a, b, c}), h \in Exact(3, 2, {a, b, c}) }

QuietLayouts == SmallInputs \cup {Copies, ThreeCopies, Crossed, WithinFile, Records, Collision, LongRun,
                 GrownWhileHashed(LongRun, 1), GrownWhileHashed(LongRun, 2),
                 Unhashed(ThreeCopies, 1)}
LiveLayouts  == {Copies, Crossed, Collision}
ForcedLayouts == LiveLayouts \cup {TwoSources}
Pair         == {Layout(<<F(2, <<Full(a), Part(b)>>), F(2, <<Full(a), Part(b)>>)>>)}

TwoTasks == {w1, w2}
OneTask  == {w1}

\* Tasks differ in nothing but their name.
TaskSymmetry == Permutations(TwoTasks)

DryRun   == [dry_run |-> TRUE,  fideduperange |-> FALSE]
InKernel == [dry_run |-> FALSE, fideduperange |-> TRUE]
Forced   == [dry_run |-> FALSE, fideduperange |-> FALSE]
AllModes  == {DryRun, InKernel, Forced}
InKernelOnly == {InKernel}
Unforced     == {InKernel, DryRun}
ForcedOnly   == {Forced}
=============================================================================
