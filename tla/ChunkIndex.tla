----------------------------- MODULE ChunkIndex -----------------------------
(***************************************************************************)
(* build_index of src/dedup.rs with the Bloom filter of src/bloom.rs: two  *)
(* passes over the chunk stream that each_chunk reads from the cache.  The *)
(* first collects in dup the truncated keys that a Bloom filter has        *)
(* (probably) seen before, the second records the locations of the chunks  *)
(* whose truncated key is in dup, and retain drops the groups that turn    *)
(* out to have one member.                                                 *)
(*                                                                         *)
(* Nothing is assumed of dup_key: truncated keys may collide, and so may   *)
(* the positions of different keys in the filter.                          *)
(***************************************************************************)
EXTENDS Chunks, Bloom, SequencesExt

CONSTANTS dup_key(_, _),    \* block size, hash -> truncated key
          Inputs            \* the [files, cache, unreadable] to start from

IsList(s) == Len(s) \in Nat /\ DOMAIN s = 1 .. Len(s)
Snapshot(fl, ch) == GoodSnapshot(fl, ch) /\ IsList(fl) /\ \A f \in DOMAIN ch : IsList(ch[f])

ASSUME IndexAssumption == \A i \in Inputs : Snapshot(i.files, i.cache)

VARIABLES files,    \* Paths<Hashed>
          cache,    \* inode -> chunk hashes
          unreadable, \* the inodes whose cache entry redb fails to deliver
          pass,     \* "scan", "collect", "retain", "done" or "failed"
          fi, ci,   \* the cursor of each_chunk: file and chunk to visit next
          bits,     \* the bits set in the Bloom filter
          dup,      \* truncated keys seen at least twice (or so it seems)
          idx       \* (blksz, hash) -> locations in the order of the visit

indexVars == <<files, cache, unreadable, pass, fi, ci, bits, dup, idx>>

-----------------------------------------------------------------------------
(* src/bloom.rs: the filter is made for as many chunks as the sizes tell;  *)
(* and a faulty insert that misses its first probe.                        *)

n_chunks(fl) == FoldSeq(LAMBDA h, n : n + h.size \div Max({h.blksz, 1}) + 1, 0, fl)
size == BitsFor(n_chunks(files))

\* next_power_of_two does not overflow, and a truncated key is a u64.
ASSUME FilterAssumption ==
    \A i \in Inputs :
        /\ \E p \in Powers : p >= n_chunks(i.files) * PerKey
        /\ \A l \in each_chunk(i.files, i.cache) :
              dup_key(KeyAt(i.files, i.cache, l)[1], KeyAt(i.files, i.cache, l)[2]) \in 0 .. Half * Half - 1

contains(k) == Positions(size, k) \subseteq bits

inserted_short(k) == bits \cup { pos(size, k, i) : i \in 1 .. K - 1 }
inserted(k) == bits \cup Positions(size, k)

-----------------------------------------------------------------------------
(* The callbacks of the two passes.                                        *)

Here     == [file |-> fi, chunk |-> ci]
HereKey  == KeyAt(files, cache, Here)
TruncKey == dup_key(HereKey[1], HereKey[2])

\* seen.check_insert: answers from the bits before it sets its own.
Scan ==
    /\ dup' = IF contains(TruncKey) THEN dup \cup {TruncKey} ELSE dup
    /\ bits' = inserted(TruncKey)
    /\ UNCHANGED idx

\* idx.entry(..).or_default().push; and two faulty variants: one pushes in front,
\* one numbers the chunks from 1.
PushedFromOne(k, loc) ==
    LET late == [loc EXCEPT !.chunk = @ + 1] IN
    [j \in DOMAIN idx \cup {k} |->
        IF j # k THEN idx[j] ELSE IF k \in DOMAIN idx THEN Append(idx[k], late) ELSE <<late>>]

PushedInFront(k, loc) ==
    [j \in DOMAIN idx \cup {k} |->
        IF j # k THEN idx[j] ELSE IF k \in DOMAIN idx THEN <<loc>> \o idx[k] ELSE <<loc>>]

Pushed(k, loc) ==
    [j \in DOMAIN idx \cup {k} |->
        IF j # k THEN idx[j] ELSE IF k \in DOMAIN idx THEN Append(idx[k], loc) ELSE <<loc>>]

Collect ==
    /\ idx' = IF TruncKey \in dup THEN Pushed(HereKey, Here) ELSE idx
    /\ UNCHANGED <<bits, dup>>

-----------------------------------------------------------------------------
(* each_chunk.                                                             *)

Streaming == pass \in {"scan", "collect"}

\* One chunk; the callback is not called for zeros.
Visit ==
    /\ Streaming
    /\ fi \in DOMAIN files
    /\ files[fi].ino \notin unreadable
    /\ ci < Len(Hashes(files, cache, fi))
    /\ IF Hashes(files, cache, fi)[ci + 1] = ZeroHash THEN UNCHANGED <<bits, dup, idx>>
       ELSE IF pass = "scan" THEN Scan ELSE Collect
    /\ ci' = ci + 1
    /\ UNCHANGED <<files, cache, unreadable, pass, fi>>

\* Behind the last chunk, or at once for a file that the cache does not know.
NextFile ==
    /\ Streaming
    /\ fi \in DOMAIN files
    /\ files[fi].ino \notin unreadable
    /\ ci >= Len(Hashes(files, cache, fi))
    /\ fi' = fi + 1
    /\ ci' = 0
    /\ UNCHANGED <<files, cache, unreadable, pass, bits, dup, idx>>

\* cache.get fails (redb, or an entry that does not decode), and build_index
\* with it.
BadEntry ==
    /\ Streaming
    /\ fi \in DOMAIN files
    /\ files[fi].ino \in unreadable
    /\ pass' = "failed"
    /\ UNCHANGED <<files, cache, unreadable, fi, ci, bits, dup, idx>>

\* drop(seen) and the second pass, then retain.
EndOfPass ==
    /\ Streaming
    /\ fi \notin DOMAIN files
    /\ IF pass = "scan"
       THEN pass' = "collect" /\ fi' = 1 /\ ci' = 0 /\ bits' = {}
       ELSE pass' = "retain" /\ UNCHANGED <<fi, ci, bits>>
    /\ UNCHANGED <<files, cache, unreadable, dup, idx>>

\* The groups that retain keeps; and a faulty variant that keeps them all.
KeptAll == DOMAIN idx
Kept == { k \in DOMAIN idx : Len(idx[k]) > 1 }

Retain ==
    /\ pass = "retain"
    /\ pass' = "done"
    /\ idx' = [k \in Kept |-> idx[k]]
    /\ UNCHANGED <<files, cache, unreadable, fi, ci, bits, dup>>

Init ==
    /\ \E i \in Inputs : files = i.files /\ cache = i.cache /\ unreadable = i.unreadable
    /\ pass = "scan"
    /\ fi = 1 /\ ci = 0
    /\ bits = {} /\ dup = {}
    /\ idx = <<>>

Next == Visit \/ NextFile \/ BadEntry \/ EndOfPass \/ Retain

Spec == Init /\ [][Next]_indexVars

-----------------------------------------------------------------------------
(* Properties.                                                             *)

Visited(l) == l.file < fi \/ (l.file = fi /\ l.chunk < ci)
AllLocs == each_chunk(files, cache)
TruncOf(l) == dup_key(KeyAt(files, cache, l)[1], KeyAt(files, cache, l)[2])

\* The types of the state: the cursor is inside the list of files, and dup and
\* idx name chunks of the stream and nothing else.
TypeOK ==
    /\ pass \in {"scan", "collect", "retain", "done", "failed"}
    /\ fi \in 1 .. Len(files) + 1
    /\ ci \in Nat
    /\ dup \subseteq { TruncOf(l) : l \in AllLocs }
    /\ DOMAIN idx \subseteq { KeyAt(files, cache, l) : l \in AllLocs }
    /\ idx \in [DOMAIN idx -> Seq(AllLocs)]

\* The pre-filter never loses a duplicate: of two chunks visited by the first
\* pass, equal or merely colliding, the truncated key is in dup, whatever other
\* keys the filter has mixed up ("a false positive ..., never the reverse").
NoFalseNegative ==
    \A l, m \in AllLocs :
        /\ l # m
        /\ TruncOf(l) = TruncOf(m)
        /\ pass # "scan" \/ (Visited(l) /\ Visited(m))
        => pass = "failed" \/ TruncOf(l) \in dup

\* Keys of the filter are probed at K different bits, which is what K was chosen
\* for, however few chunks the filter is made for and wherever the sums wrap.
ProbesDistinct == \A l \in AllLocs : Cardinality(Positions(size, TruncOf(l))) = K

\* The streaming passes deliver exactly the index that the definition in Chunks
\* describes: all chunks of every repeated hash, no singletons, and the first
\* location of each group first, which makes it the source of the group.
IndexExact ==
    pass = "done" =>
        /\ DOMAIN idx = DOMAIN build_index(files, cache)
        /\ \A k \in DOMAIN idx :
              /\ { idx[k][n] : n \in DOMAIN idx[k] } = build_index(files, cache)[k]
              /\ idx[k][1] = First(build_index(files, cache)[k])

\* Each location is recorded once and in the order of (file, chunk), although
\* two passes, two kinds of collision and holes lie between visit and push.
GroupsInOrder ==
    \A k \in DOMAIN idx :
        \A m, n \in DOMAIN idx[k] : m < n => LocBefore(idx[k][m], idx[k][n])
=============================================================================
