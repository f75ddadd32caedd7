---------------------------- MODULE MCChunkIndex ----------------------------
(***************************************************************************)
(* ChunkIndex on up to three small files over four hashes.  dup_key maps   *)
(* a and b to one truncated key, and the positions of d are covered by     *)
(* those of a and c: a singleton d behind them is a false positive.  The   *)
(* other block size turns the step of d even.  Filters have 8 to 32 bits.  *)
(***************************************************************************)
EXTENDS ChunkIndex

CONSTANTS a, b, c, d, zero

PowersOfTwo == { 2 ^ e : e \in 0 .. 5 }

TruncatedKey(blksz, hash) ==
    (CASE hash \in {a, b} -> 0
       [] hash = c        -> 3
       [] OTHER           -> 2) + (blksz - 2) * 4 * Half

Lists(n, hashes) == UNION { [1 .. m -> hashes] : m \in 0 .. n }

Input(lists, blkszs, known, bad) ==
    [files   |-> [i \in DOMAIN lists |->
                    [ino |-> i, size |-> Len(lists[i]) * blkszs[i], blksz |-> blkszs[i]]],
     cache   |-> [f \in known \cap DOMAIN lists |-> lists[f]],
     unreadable |-> bad]

SmallInputs ==
    { Input(<<f, g>>, <<2, bs>>, {1, 2}, {}) :
        f \in Lists(3, {a, b, c, zero}), g \in Lists(2, {a, b, c, d}), bs \in {2, 3} }
    \cup { Input(<<f, g, h>>, <<2, 2, 2>>, known, bad) :
        f \in Lists(2, {a, c}), g \in Lists(1, {a, b}), h \in Lists(2, {a, b, d}),
        known \in {{1, 2, 3}, {1, 3}}, bad \in {{}, {3}} }

Stopped == pass \in {"done", "failed"} /\ UNCHANGED indexVars
MCSpec == Init /\ [][Next \/ Stopped]_indexVars
=============================================================================
