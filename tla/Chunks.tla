------------------------------- MODULE Chunks -------------------------------
(***************************************************************************)
(* The vocabulary of src/dedup.rs: chunk locations, chunk lengths, the     *)
(* index of repeated chunks and the chunk pairs that it leads to.          *)
(*                                                                         *)
(* A file of the plan is what the code calls Hashed: an inode and the size *)
(* and block size that stat reported.  A chunk location (Loc) is a file    *)
(* number and a chunk number; files are numbered from 1, chunks from 0 as  *)
(* in the code.  cache maps an inode to the list of its chunk hashes.      *)
(*                                                                         *)
(* Everything here is a pure function of files and cache.  A group of the  *)
(* index is a set of locations: of its order the code uses only which      *)
(* location comes first.                                                   *)
(***************************************************************************)
EXTENDS Integers, Sequences

CONSTANTS ZeroHash,       \* the hash recorded for an all-zero chunk
          MaxRunBytes     \* cap on the bytes of one coalesced run

ASSUME CapAssumption == MaxRunBytes \in Nat

LowerOf(a, b) == IF a <= b THEN a ELSE b
SatSub(a, b)  == IF a > b THEN a - b ELSE 0

-----------------------------------------------------------------------------
(* Lengths.                                                                *)

\* Bytes of `chunks` chunks from `first` on, clipped by the size stat saw; and a
\* faulty variant that forgets to clip.
run_len_unclipped(h, first, chunks, blksz) == chunks * blksz
run_len(h, first, chunks, blksz) ==
    LowerOf(SatSub(h.size, first * blksz), chunks * blksz)

chunk_len(h, chunk, blksz) == LowerOf(SatSub(h.size, chunk * blksz), blksz)

-----------------------------------------------------------------------------
(* The index.                                                              *)

\* The order in which each_chunk emits locations.
LocBefore(k, l) ==
    \/ k.file < l.file
    \/ k.file = l.file /\ k.chunk < l.chunk

\* What hashing hands over: sizes and block sizes of numbered files, and the
\* chunk lists of inodes.
GoodSnapshot(files, cache) ==
    /\ DOMAIN files \subseteq Nat
    /\ \A i \in DOMAIN files : files[i].size \in Nat /\ files[i].blksz \in Nat \ {0}
    /\ \A f \in DOMAIN cache : DOMAIN cache[f] \subseteq Nat \ {0}

First(S) == CHOOSE l \in S : \A m \in S : m = l \/ LocBefore(l, m)

Hashes(files, cache, i) ==
    IF files[i].ino \in DOMAIN cache THEN cache[files[i].ino] ELSE <<>>

\* Every non-zero chunk of every file whose hashes the cache still holds.
each_chunk(files, cache) ==
    UNION { { [file |-> i, chunk |-> c - 1] :
                c \in { c \in DOMAIN Hashes(files, cache, i) :
                          Hashes(files, cache, i)[c] # ZeroHash } } :
            i \in DOMAIN files }

KeyAt(files, cache, loc) ==
    <<files[loc.file].blksz, Hashes(files, cache, loc.file)[loc.chunk + 1]>>

\* What the two passes of build_index deliver: the chunks of every hash that
\* occurs at least twice at one block size.
build_index(files, cache) ==
    LET locs     == each_chunk(files, cache)
        Group(k) == { l \in locs : KeyAt(files, cache, l) = k }
        keys     == { KeyAt(files, cache, l) : l \in locs }
    IN  [k \in { k \in keys : \E l, m \in Group(k) : l # m } |-> Group(k)]

-----------------------------------------------------------------------------
(* The pairs.                                                              *)

LenOf(files, loc, blksz) == chunk_len(files[loc.file], loc.chunk, blksz)

\* Faulty variants of ChunkPairs, for the mutants: each chunk is cloned from its
\* predecessor; lengths are not compared.
ChunkPairsChained(idx, files) ==
    UNION { { p \in [blksz : {k[1]}, src : idx[k], dst : idx[k]] :
                /\ LocBefore(p.src, p.dst)
                /\ ~\E l \in idx[k] : LocBefore(p.src, l) /\ LocBefore(l, p.dst)
                /\ LenOf(files, p.src, k[1]) # 0
                /\ LenOf(files, p.src, k[1]) = LenOf(files, p.dst, k[1]) } :
            k \in DOMAIN idx }

ChunkPairsAnyLength(idx, files) ==
    UNION { { [blksz |-> k[1], src |-> First(idx[k]), dst |-> l] :
                l \in idx[k] \ {First(idx[k])} } :
            k \in DOMAIN idx }

\* The first chunk of a group is the source of all the others that have its
\* length; a group whose source lies past the end of its file is dropped.
ChunkPairs(idx, files) ==
    UNION { { [blksz |-> k[1], src |-> First(idx[k]), dst |-> l] :
                l \in { l \in idx[k] \ {First(idx[k])} :
                          /\ LenOf(files, First(idx[k]), k[1]) # 0
                          /\ LenOf(files, l, k[1])
                               = LenOf(files, First(idx[k]), k[1]) } } :
            k \in DOMAIN idx }

PairKey(p) == <<p.blksz, p.src.file, p.dst.file>>
=============================================================================
