----------------------------- MODULE RunPlanner -----------------------------
(***************************************************************************)
(* build_runs and coalesce of src/dedup.rs: the chunk pairs of the index   *)
(* are sorted by (block size, source file, destination file) and, within   *)
(* one such key, merged in the order of their destination chunks into the  *)
(* runs that one ioctl each will handle.                                   *)
(*                                                                         *)
(* One step of Coalesce is one iteration of coalesce's loop.  The keys are *)
(* the entries of a HashMap and the loop over them is unordered.           *)
(***************************************************************************)
EXTENDS Chunks

CONSTANT Inputs     \* the [files, cache] that planning may start from

ASSUME InputsAssumption == \A i \in Inputs : GoodSnapshot(i.files, i.cache)

VARIABLES files,    \* Paths<Hashed>: <<[ino, size, blksz], ...>>
          cache,    \* inode -> chunk hashes
          phase,    \* "index", "plan", "clone"
          pairs,    \* the chunk pairs not yet merged into a run
          plan      \* pair key -> sequence of runs

planVars == <<files, cache, phase, pairs, plan>>

AllPairs == ChunkPairs(build_index(files, cache), files)

-----------------------------------------------------------------------------
(* Faulty variants of the definitions below, for the mutants.              *)

ContinuesSrcOnly(last, p) ==
    /\ p.src.chunk = last.src.chunk + last.chunks
    /\ (last.chunks + 1) * p.blksz <= MaxRunBytes

NextInAnyOrder(p) == p \in pairs

MergeOffByOne(runs, p) ==
    IF runs # <<>> /\ p.src.chunk = runs[Len(runs)].src.chunk + runs[Len(runs)].chunks
    THEN [runs EXCEPT ![Len(runs)].chunks = @ + 1]
    ELSE Append(runs, [src |-> p.src, dst |-> p.dst, chunks |-> 0])

-----------------------------------------------------------------------------
(* The algorithm.                                                          *)

\* The last run grows by the pair p when p continues it on both sides.
Continues(last, p) ==
    /\ p.src.chunk = last.src.chunk + last.chunks
    /\ p.dst.chunk = last.dst.chunk + last.chunks
    /\ (last.chunks + 1) * p.blksz <= MaxRunBytes

Merge(runs, p) ==
    IF runs # <<>> /\ Continues(runs[Len(runs)], p)
    THEN [runs EXCEPT ![Len(runs)].chunks = @ + 1]
    ELSE Append(runs, [src |-> p.src, dst |-> p.dst, chunks |-> 1])

\* sort_unstable_by_key(dst.chunk): p is the next of its key.
NextOfItsKey(p) ==
    /\ p \in pairs
    /\ \A q \in pairs : PairKey(q) = PairKey(p) => p.dst.chunk <= q.dst.chunk

\* The loop over the index, which fills the HashMap of pairs.
GroupPairs ==
    /\ phase = "index"
    /\ phase' = "plan"
    /\ pairs' = AllPairs
    /\ plan' = [k \in { PairKey(p) : p \in AllPairs } |-> <<>>]
    /\ UNCHANGED <<files, cache>>

Coalesce(p) ==
    /\ phase = "plan"
    /\ NextOfItsKey(p)
    /\ pairs' = pairs \ {p}
    /\ plan' = [plan EXCEPT ![PairKey(p)] = Merge(@, p)]
    /\ UNCHANGED <<files, cache, phase>>

\* collect: the plan is complete.
PlanReady ==
    /\ phase = "plan"
    /\ pairs = {}
    /\ phase' = "clone"
    /\ UNCHANGED <<files, cache, pairs, plan>>

PlanStep ==
    \/ GroupPairs
    \/ \E p \in pairs : Coalesce(p)
    \/ PlanReady

PlanInit ==
    /\ \E i \in Inputs : files = i.files /\ cache = i.cache
    /\ phase = "index"
    /\ pairs = {}
    /\ plan = <<>>

PlanSpec == PlanInit /\ [][PlanStep]_planVars

-----------------------------------------------------------------------------
(* Properties.                                                             *)

Loc == [file : Nat, chunk : Nat]
Key == (Nat \ {0}) \X Nat \X Nat
Run == [src : Loc, dst : Loc, chunks : Nat \ {0}]

\* The planner's data has its types: runs are never empty.
PlanTypeOK ==
    /\ phase \in {"index", "plan", "clone", "done"}
    /\ GoodSnapshot(files, cache)
    /\ pairs \subseteq [blksz : Nat \ {0}, src : Loc, dst : Loc]
    /\ DOMAIN plan \subseteq Key
    /\ plan \in [DOMAIN plan -> Seq(Run)]

\* The runs planned so far, each named by its key and its position.
AllRunIds == UNION { { <<k, i>> : i \in DOMAIN plan[k] } : k \in DOMAIN plan }
RunAt(id) == plan[id[1]][id[2]]

SrcChunks(id) ==
    { [file |-> id[1][2], chunk |-> RunAt(id).src.chunk + j] :
        j \in 0 .. RunAt(id).chunks - 1 }
DstChunks(id) ==
    { [file |-> id[1][3], chunk |-> RunAt(id).dst.chunk + j] :
        j \in 0 .. RunAt(id).chunks - 1 }
Covered(id) ==
    { [blksz |-> id[1][1],
       src |-> [file |-> id[1][2], chunk |-> RunAt(id).src.chunk + j],
       dst |-> [file |-> id[1][3], chunk |-> RunAt(id).dst.chunk + j]] :
        j \in 0 .. RunAt(id).chunks - 1 }

\* Coalescing neither loses a chunk pair nor invents one: at every moment the
\* pairs of the index are those still to be merged and those inside a run.
\* (coalesce: a run stands for `chunks` pairs although it names only the first.)
PlanIsExact ==
    phase # "index" =>
        /\ AllPairs = pairs \cup UNION { Covered(id) : id \in AllRunIds }
        /\ \A id \in AllRunIds : Covered(id) \cap pairs = {}

\* No two runs write one chunk (build_runs: "runs never overlap on the dest";
\* Worker: "Two pairs can never touch the same (dst file, chunk)").
DestinationsDisjoint ==
    \A r, s \in AllRunIds : r # s => DstChunks(r) \cap DstChunks(s) = {}

\* No run writes a chunk that a run reads, so the order in which the tasks
\* get to the runs cannot matter to what a source holds.
SourcesNeverWritten ==
    \A r, s \in AllRunIds : SrcChunks(r) \cap DstChunks(s) = {}

\* A run is one valid request: both sides have the same non-zero length, only
\* its last chunk may be short, and it respects MAX_RUN_BYTES.  So pair's
\* "file shrank since it was hashed" skip can never be taken.
RunsAreIoctlReady ==
    \A id \in AllRunIds :
        LET r     == RunAt(id)
            blksz == id[1][1]
            len   == run_len(files[id[1][2]], r.src.chunk, r.chunks, blksz)
        IN  /\ len = run_len(files[id[1][3]], r.dst.chunk, r.chunks, blksz)
            /\ len > (r.chunks - 1) * blksz
            /\ r.chunks > 1 => r.chunks * blksz <= MaxRunBytes

\* Two runs of one pair of files that together fit one request, or whose first
\* chunk does, are never left apart.
RunsAreMaximal ==
    \A id, next \in AllRunIds :
        LET r == RunAt(id)
            s == RunAt(next)
        IN  /\ id[1] = next[1]
            /\ s.src.chunk = r.src.chunk + r.chunks
            /\ s.dst.chunk = r.dst.chunk + r.chunks
            => (r.chunks + 1) * id[1][1] > MaxRunBytes
=============================================================================
