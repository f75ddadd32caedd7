-------------------------- MODULE RunPlannerProofs --------------------------
(***************************************************************************)
(* Proofs about RunPlanner, for any number of files, any hashes and sizes  *)
(* and any MAX_RUN_BYTES.                                                  *)
(***************************************************************************)
EXTENDS RunPlanner, ChunksProofs

LEMMA AllPairsAreTyped ==
    ASSUME GoodSnapshot(files, cache), NEW p \in AllPairs
    PROVE  /\ p \in [blksz : Nat \ {0}, src : Loc, dst : Loc]
           /\ PairKey(p) \in Key
BY PairTypes DEF AllPairs, PairsOf, Location, Loc, PairKey, Key

LEMMA PlanInitTyped == PlanInit => PlanTypeOK
BY InputsAssumption DEF PlanInit, PlanTypeOK

\* Merging a pair keeps a list of non-empty runs.
LEMMA MergeTyped ==
    ASSUME NEW runs \in Seq(Run), NEW p, p.src \in Loc, p.dst \in Loc
    PROVE  Merge(runs, p) \in Seq(Run)
<1>1. CASE runs # <<>> /\ Continues(runs[Len(runs)], p)
  <2> DEFINE n == Len(runs)
             grown == [runs[n] EXCEPT !.chunks = @ + 1]
  <2>1. n \in DOMAIN runs /\ runs[n] \in Run
    BY <1>1
  <2>2. grown \in Run
    BY <2>1 DEF Run
  <2>3. Merge(runs, p) = [runs EXCEPT ![n] = grown]
    BY <1>1 DEF Merge
  <2> QED
    BY <2>1, <2>2, <2>3
<1>2. CASE ~(runs # <<>> /\ Continues(runs[Len(runs)], p))
  <2> [src |-> p.src, dst |-> p.dst, chunks |-> 1] \in Run
    BY DEF Run
  <2> QED
    BY <1>2 DEF Merge
<1> QED
  BY <1>1, <1>2

LEMMA PlanStepTyped ==
    ASSUME PlanTypeOK, [PlanStep]_planVars
    PROVE  PlanTypeOK'
<1>1. ASSUME GroupPairs PROVE PlanTypeOK'
  <2>1. GoodSnapshot(files, cache) /\ UNCHANGED <<files, cache>> /\ phase' = "plan"
    BY <1>1 DEF GroupPairs, PlanTypeOK
  <2>2. pairs' \subseteq [blksz : Nat \ {0}, src : Loc, dst : Loc]
    BY <1>1, <2>1, AllPairsAreTyped DEF GroupPairs
  <2>3. DOMAIN plan' \subseteq Key /\ plan' \in [DOMAIN plan' -> Seq(Run)]
    BY <1>1, <2>1, AllPairsAreTyped DEF GroupPairs
  <2> QED
    BY <2>1, <2>2, <2>3 DEF PlanTypeOK
<1>2. ASSUME NEW p \in pairs, Coalesce(p) PROVE PlanTypeOK'
  <2>1. p.src \in Loc /\ p.dst \in Loc
    BY DEF PlanTypeOK
  <2>2. plan' \in [DOMAIN plan -> Seq(Run)]
    BY <1>2, <2>1, MergeTyped DEF Coalesce, PlanTypeOK
  <2> QED
    BY <1>2, <2>2 DEF Coalesce, PlanTypeOK
<1>3. ASSUME PlanReady \/ UNCHANGED planVars PROVE PlanTypeOK'
  BY <1>3 DEF PlanReady, planVars, PlanTypeOK
<1> QED
  BY <1>1, <1>2, <1>3 DEF PlanStep

\* PlanTypeOK holds in every reachable state: in particular no run is empty.
THEOREM PlanTyped == PlanSpec => []PlanTypeOK
BY PlanInitTyped, PlanStepTyped, PTL DEF PlanSpec

-----------------------------------------------------------------------------
(* The plan is exact.                                                      *)

\* The chunk pairs that a run of key k stands for.
Unrolled(k, run) ==
    { [blksz |-> k[1],
       src |-> [file |-> k[2], chunk |-> run.src.chunk + j],
       dst |-> [file |-> k[3], chunk |-> run.dst.chunk + j]] : j \in 0 .. run.chunks - 1 }

\* Every chunk pair is waiting or in exactly one run.
Accounted ==
    /\ phase = "index" => AllRunIds = {}
    /\ phase # "index" =>
          /\ pairs \subseteq AllPairs
          /\ \A p \in AllPairs : PairKey(p) \in DOMAIN plan
          /\ \A p \in AllPairs \ pairs : \E id \in AllRunIds : p \in Covered(id)
          /\ \A id \in AllRunIds : Covered(id) \subseteq AllPairs \ pairs
          /\ \A r, s \in AllRunIds : r # s => Covered(r) \cap Covered(s) = {}

LEMMA RunIds ==
    ASSUME NEW id
    PROVE  /\ id \in AllRunIds <=> \E k \in DOMAIN plan : \E i \in DOMAIN plan[k] : id = <<k, i>>
           /\ Covered(id) = Unrolled(id[1], RunAt(id))
BY DEF AllRunIds, Covered, Unrolled

\* A run that grows by the pair that continues it covers that pair as well.
LEMMA GrownRun ==
    ASSUME NEW p \in [blksz : Nat \ {0}, src : Loc, dst : Loc], NEW run \in Run,
           Continues(run, p), NEW grown, grown = [run EXCEPT !.chunks = @ + 1]
    PROVE  Unrolled(PairKey(p), grown) = Unrolled(PairKey(p), run) \cup {p}
<1> DEFINE k == PairKey(p)
           At(j) == [blksz |-> k[1],
                     src |-> [file |-> k[2], chunk |-> run.src.chunk + j],
                     dst |-> [file |-> k[3], chunk |-> run.dst.chunk + j]]
<1>1. /\ grown.src = run.src /\ grown.dst = run.dst /\ grown.chunks = run.chunks + 1
      /\ run.chunks \in Nat \ {0}
  BY DEF Run
<1>2. At(run.chunks) = p
  BY DEF Continues, PairKey, Loc
<1>3. 0 .. grown.chunks - 1 = (0 .. run.chunks - 1) \cup {run.chunks}
  BY <1>1
<1>4. Unrolled(k, grown) = { At(j) : j \in (0 .. run.chunks - 1) \cup {run.chunks} }
  BY <1>1, <1>3 DEF Unrolled
<1>5. Unrolled(k, run) = { At(j) : j \in 0 .. run.chunks - 1 }
  BY DEF Unrolled
<1> HIDE DEF At
<1> QED
  BY <1>2, <1>4, <1>5

\* So does a run of one pair.
LEMMA NewRun ==
    ASSUME NEW p \in [blksz : Nat \ {0}, src : Loc, dst : Loc]
    PROVE  Unrolled(PairKey(p), [src |-> p.src, dst |-> p.dst, chunks |-> 1]) = {p}
<1> DEFINE k == PairKey(p)
           At(j) == [blksz |-> k[1],
                     src |-> [file |-> k[2], chunk |-> p.src.chunk + j],
                     dst |-> [file |-> k[3], chunk |-> p.dst.chunk + j]]
<1>1. At(0) = p
  BY DEF PairKey, Loc
<1>2. Unrolled(k, [src |-> p.src, dst |-> p.dst, chunks |-> 1]) = { At(j) : j \in 0 .. 0 }
  BY DEF Unrolled
<1>3. 0 .. 0 = {0}
  OBVIOUS
<1> HIDE DEF At
<1> QED
  BY <1>1, <1>2, <1>3

\* One iteration of coalesce adds its pair to one run, old or new, and touches
\* no other.
LEMMA CoalesceTouchesOneRun ==
    ASSUME PlanTypeOK, Accounted, phase = "plan", NEW p \in pairs, Coalesce(p)
    PROVE  \E new \in AllRunIds' :
              /\ AllRunIds' = AllRunIds \cup {new}
              /\ \A id \in AllRunIds \ {new} : Covered(id)' = Covered(id)
              /\ Covered(new)' = (IF new \in AllRunIds THEN Covered(new) ELSE {}) \cup {p}
<1> DEFINE k == PairKey(p)
           runs == plan[k]
           n == Len(runs)
<1>1. /\ p \in [blksz : Nat \ {0}, src : Loc, dst : Loc]
      /\ k \in DOMAIN plan /\ runs \in Seq(Run)
      /\ plan' = [plan EXCEPT ![k] = Merge(runs, p)]
  BY DEF PlanTypeOK, Accounted, Coalesce
<1>2. CASE runs # <<>> /\ Continues(runs[n], p)
  <2> PICK new : new = <<k, n>>
    OBVIOUS
  <2> DEFINE grown == [runs[n] EXCEPT !.chunks = @ + 1]
  <2>1. n \in DOMAIN runs /\ runs[n] \in Run
    BY <1>1, <1>2
  <2>2. Merge(runs, p) = [runs EXCEPT ![n] = grown]
    BY <1>2 DEF Merge
  <2>3. /\ DOMAIN plan' = DOMAIN plan
        /\ \A j \in DOMAIN plan : DOMAIN plan'[j] = DOMAIN plan[j]
        /\ plan'[k][n] = grown
        /\ \A j \in DOMAIN plan : \A i \in DOMAIN plan[j] :
              <<j, i>> # new => plan'[j][i] = plan[j][i]
    BY <1>1, <2>1, <2>2
  <2>4. new \in AllRunIds /\ AllRunIds' = AllRunIds
    BY <1>1, <2>1, <2>3 DEF AllRunIds
  <2>5. ASSUME NEW id \in AllRunIds, id # new PROVE Covered(id)' = Covered(id)
    <3> PICK j \in DOMAIN plan : \E i \in DOMAIN plan[j] : id = <<j, i>>
      BY RunIds
    <3> PICK i \in DOMAIN plan[j] : id = <<j, i>>
      OBVIOUS
    <3> RunAt(id)' = RunAt(id)
      BY <2>3, <2>5 DEF RunAt
    <3> QED
      BY DEF Covered
  <2>6. Covered(new)' = Covered(new) \cup {p}
    <3>1. RunAt(new) = runs[n] /\ RunAt(new)' = grown
      BY <2>3 DEF RunAt
    <3>2. Unrolled(k, grown) = Unrolled(k, runs[n]) \cup {p}
      BY <1>1, <1>2, <2>1, GrownRun
    <3>3. Covered(new) = Unrolled(k, runs[n])
      BY <3>1 DEF Covered, Unrolled
    <3>4. Covered(new)' = Unrolled(k, grown)
      BY <3>1 DEF Covered, Unrolled
    <3> QED
      BY <3>2, <3>3, <3>4
  <2> QED
    BY <2>4, <2>5, <2>6
<1>3. CASE ~(runs # <<>> /\ Continues(runs[n], p))
  <2> PICK new : new = <<k, n + 1>>
    OBVIOUS
  <2> DEFINE run == [src |-> p.src, dst |-> p.dst, chunks |-> 1]
  <2>2. Merge(runs, p) = Append(runs, run)
    BY <1>3 DEF Merge
  <2>3. /\ DOMAIN plan' = DOMAIN plan
        /\ DOMAIN plan'[k] = DOMAIN plan[k] \cup {n + 1}
        /\ \A j \in DOMAIN plan \ {k} : plan'[j] = plan[j]
        /\ plan'[k][n + 1] = run
        /\ n + 1 \notin DOMAIN runs
        /\ \A i \in DOMAIN plan[k] : plan'[k][i] = plan[k][i]
    BY <1>1, <2>2
  <2>4. new \notin AllRunIds /\ new \in AllRunIds' /\ AllRunIds' = AllRunIds \cup {new}
    BY <1>1, <2>3 DEF AllRunIds
  <2>5. ASSUME NEW id \in AllRunIds PROVE Covered(id)' = Covered(id)
    <3> PICK j \in DOMAIN plan : \E i \in DOMAIN plan[j] : id = <<j, i>>
      BY RunIds
    <3> PICK i \in DOMAIN plan[j] : id = <<j, i>>
      OBVIOUS
    <3> RunAt(id)' = RunAt(id)
      BY <2>3 DEF RunAt
    <3> QED
      BY DEF Covered
  <2>6. Covered(new)' = {p}
    <3>1. RunAt(new)' = run
      BY <2>3 DEF RunAt
    <3>2. Covered(new)' = Unrolled(k, run)
      BY <3>1 DEF Covered, Unrolled
    <3> QED
      BY <1>1, <3>2, NewRun
  <2> QED
    BY <2>4, <2>5, <2>6
<1> QED
  BY <1>2, <1>3

LEMMA PlanStepAccounted ==
    ASSUME PlanTypeOK, Accounted, [PlanStep]_planVars
    PROVE  Accounted'
<1>1. ASSUME GroupPairs PROVE Accounted'
  <2>1. AllPairs' = AllPairs /\ pairs' = AllPairs
    BY <1>1 DEF GroupPairs, AllPairs
  <2>2. /\ DOMAIN plan' = { PairKey(p) : p \in AllPairs }
        /\ \A k \in DOMAIN plan' : plan'[k] = <<>>
    BY <1>1 DEF GroupPairs
  <2>3. AllRunIds' = {}
    BY <2>2 DEF AllRunIds
  <2> QED
    BY <2>1, <2>2, <2>3 DEF Accounted
<1>2. ASSUME phase = "plan", NEW p \in pairs, Coalesce(p) PROVE Accounted'
  <2>1. /\ AllPairs' = AllPairs /\ pairs' = pairs \ {p} /\ DOMAIN plan' = DOMAIN plan
        /\ p \in AllPairs /\ phase' = "plan"
    BY <1>2 DEF Coalesce, AllPairs, Accounted
  <2>2. PICK new \in AllRunIds' :
              /\ AllRunIds' = AllRunIds \cup {new}
              /\ \A id \in AllRunIds \ {new} : Covered(id)' = Covered(id)
              /\ Covered(new)' = (IF new \in AllRunIds THEN Covered(new) ELSE {}) \cup {p}
    BY <1>2, CoalesceTouchesOneRun
  <2>3. \A id \in AllRunIds : p \notin Covered(id)
    BY <1>2 DEF Accounted
  <2>4. \A q \in AllPairs \ pairs' : \E id \in AllRunIds' : q \in Covered(id)'
    BY <1>2, <2>1, <2>2 DEF Accounted
  <2>5. \A id \in AllRunIds' : Covered(id)' \subseteq AllPairs \ pairs'
    BY <1>2, <2>1, <2>2 DEF Accounted
  <2>6. \A r, s \in AllRunIds' : r # s => Covered(r)' \cap Covered(s)' = {}
    BY <1>2, <2>2, <2>3 DEF Accounted
  <2> QED
    BY <1>2, <2>1, <2>4, <2>5, <2>6 DEF Accounted
<1>3. ASSUME PlanReady \/ UNCHANGED planVars PROVE Accounted'
  <2>1. UNCHANGED <<files, cache, pairs, plan>> /\ (phase' = "index" => phase = "index")
    BY <1>3 DEF PlanReady, planVars
  <2>2. AllPairs' = AllPairs /\ AllRunIds' = AllRunIds
    BY <2>1 DEF AllPairs, AllRunIds
  <2>3. \A id \in AllRunIds : Covered(id)' = Covered(id)
    BY <2>1 DEF Covered, RunAt
  <2>4. CASE phase' = "index"
    BY <2>1, <2>2, <2>4 DEF Accounted
  <2>5. CASE phase' # "index"
    <3>1. phase # "index"
      BY <1>3, <2>5 DEF PlanReady, planVars
    <3> QED
      BY <2>1, <2>2, <2>3, <2>5, <3>1 DEF Accounted
  <2> QED
    BY <2>4, <2>5
<1> QED
  BY <1>1, <1>2, <1>3 DEF PlanStep, Coalesce

LEMMA PlanInvariant == PlanSpec => [](PlanTypeOK /\ Accounted)
<1>1. PlanInit => PlanTypeOK /\ Accounted
  BY PlanInitTyped DEF PlanInit, Accounted, AllRunIds
<1>2. PlanTypeOK /\ Accounted /\ [PlanStep]_planVars => (PlanTypeOK /\ Accounted)'
  BY PlanStepTyped, PlanStepAccounted
<1> QED
  BY <1>1, <1>2, PTL DEF PlanSpec

\* coalesce loses no chunk pair and invents none, in whatever order the HashMap
\* yields its keys.
THEOREM PlanExact == PlanSpec => []PlanIsExact
<1>1. Accounted => PlanIsExact
  BY DEF Accounted, PlanIsExact
<1> QED
  BY <1>1, PlanInvariant, PTL

-----------------------------------------------------------------------------
(* The chunks of a run play one role.                                      *)

\* A chunk of a run is a chunk of one of the pairs it stands for.
LEMMA ChunksOfRuns ==
    ASSUME NEW id, NEW l
    PROVE  /\ l \in SrcChunks(id) => \E p \in Covered(id) : p.src = l
           /\ l \in DstChunks(id) => \E p \in Covered(id) : p.dst = l
<1> DEFINE k == id[1]
           src(j) == [file |-> k[2], chunk |-> RunAt(id).src.chunk + j]
           dst(j) == [file |-> k[3], chunk |-> RunAt(id).dst.chunk + j]
           pair(j) == [blksz |-> k[1], src |-> src(j), dst |-> dst(j)]
           J == 0 .. RunAt(id).chunks - 1
<1>1. \A j : pair(j).src = src(j) /\ pair(j).dst = dst(j)
  OBVIOUS
<1>2. Covered(id) = { pair(j) : j \in J }
  BY DEF Covered
<1>3. SrcChunks(id) = { src(j) : j \in J } /\ DstChunks(id) = { dst(j) : j \in J }
  BY DEF SrcChunks, DstChunks
<1> HIDE DEF src, dst, pair, J
<1> QED
  BY <1>1, <1>2, <1>3

LEMMA RolesOfRuns ==
    ASSUME PlanTypeOK, Accounted
    PROVE  DestinationsDisjoint /\ SourcesNeverWritten
<1>0. CASE phase = "index"
  BY <1>0 DEF Accounted, DestinationsDisjoint, SourcesNeverWritten
<1> SUFFICES ASSUME phase # "index" PROVE DestinationsDisjoint /\ SourcesNeverWritten
  BY <1>0
<1>1. ASSUME NEW p \in AllPairs, NEW q \in AllPairs
      PROVE  (p.dst = q.dst => p = q) /\ p.src # q.dst
  BY RolesOfAChunk DEF PlanTypeOK, AllPairs, PairsOf
<1>2. ASSUME NEW r \in AllRunIds, NEW s \in AllRunIds
      PROVE  Covered(r) \subseteq AllPairs /\ (r # s => Covered(r) \cap Covered(s) = {})
  BY DEF Accounted
<1>3. DestinationsDisjoint
  BY <1>1, <1>2, ChunksOfRuns DEF DestinationsDisjoint
<1>4. SourcesNeverWritten
  BY <1>1, <1>2, ChunksOfRuns DEF SourcesNeverWritten
<1> QED
  BY <1>3, <1>4

\* No two runs of any plan write the same chunk: two tasks never clone into one
\* place.
THEOREM NoChunkWrittenTwice == PlanSpec => []DestinationsDisjoint
<1>1. PlanTypeOK /\ Accounted => DestinationsDisjoint
  BY RolesOfRuns
<1> QED
  BY <1>1, PlanInvariant, PTL

\* No run of any plan writes a chunk that a run reads: the tasks may take the
\* pairs in any order and still find every source as it was hashed.
THEOREM NoSourceWritten == PlanSpec => []SourcesNeverWritten
<1>1. PlanTypeOK /\ Accounted => SourcesNeverWritten
  BY RolesOfRuns
<1> QED
  BY <1>1, PlanInvariant, PTL

-----------------------------------------------------------------------------
(* The finished plan.                                                      *)

\* A key without runs has a pair that is waiting, and keys name known files; so
\* every entry of a finished plan has a first run.
PlanComplete ==
    /\ phase = "index" => DOMAIN plan = {}
    /\ phase = "clone" => pairs = {}
    /\ \A k \in DOMAIN plan :
          /\ plan[k] = <<>> => \E p \in pairs : PairKey(p) = k
          /\ {k[2], k[3]} \subseteq DOMAIN files

LEMMA MergeAdds ==
    ASSUME NEW runs \in Seq(Run), NEW p
    PROVE  Merge(runs, p) # <<>>
BY DEF Merge

LEMMA PlanStepComplete ==
    ASSUME PlanTypeOK, Accounted, PlanComplete, [PlanStep]_planVars
    PROVE  PlanComplete'
<1>1. ASSUME GroupPairs PROVE PlanComplete'
  <2>1. ASSUME NEW p \in AllPairs PROVE {PairKey(p)[2], PairKey(p)[3]} \subseteq DOMAIN files
    BY PairTypes DEF PlanTypeOK, AllPairs, PairsOf, PairKey
  <2> QED
    BY <1>1, <2>1 DEF GroupPairs, PlanComplete
<1>2. ASSUME phase = "plan", NEW p \in pairs, Coalesce(p) PROVE PlanComplete'
  <2>1. PairKey(p) \in DOMAIN plan /\ plan[PairKey(p)] \in Seq(Run)
    BY <1>2 DEF Accounted, PlanTypeOK
  <2> QED
    BY <1>2, <2>1, MergeAdds DEF Coalesce, PlanComplete
<1>3. ASSUME PlanReady \/ UNCHANGED planVars PROVE PlanComplete'
  BY <1>3 DEF PlanReady, planVars, PlanComplete
<1> QED
  BY <1>1, <1>2, <1>3 DEF PlanStep, Coalesce

-----------------------------------------------------------------------------
(* A run is one valid request.                                             *)

\* The cap on the bytes of a run, which coalesce checks before it merges.
Capped ==
    \A k \in DOMAIN plan : \A i \in DOMAIN plan[k] :
        plan[k][i].chunks > 1 => plan[k][i].chunks * k[1] <= MaxRunBytes

LEMMA PlanStepCapped ==
    ASSUME PlanTypeOK, Accounted, Capped, [PlanStep]_planVars
    PROVE  Capped'
<1>1. ASSUME GroupPairs PROVE Capped'
  BY <1>1 DEF GroupPairs, Capped
<1>2. ASSUME phase = "plan", NEW p \in pairs, Coalesce(p) PROVE Capped'
  <2> DEFINE k == PairKey(p)
             runs == plan[k]
             n == Len(runs)
  <2>1. /\ p \in [blksz : Nat \ {0}, src : Loc, dst : Loc]
        /\ k \in DOMAIN plan /\ runs \in Seq(Run) /\ k[1] = p.blksz
        /\ plan' = [plan EXCEPT ![k] = Merge(runs, p)]
    BY <1>2 DEF PlanTypeOK, Accounted, Coalesce, PairKey
  <2>2. ASSUME NEW i \in DOMAIN Merge(runs, p), Merge(runs, p)[i].chunks > 1
        PROVE  Merge(runs, p)[i].chunks * k[1] <= MaxRunBytes
    <3>1. \A j \in DOMAIN runs : runs[j].chunks > 1 => runs[j].chunks * k[1] <= MaxRunBytes
      BY <2>1 DEF Capped
    <3>2. CASE runs # <<>> /\ Continues(runs[n], p)
      <4>1. n \in DOMAIN runs /\ runs[n] \in Run
        BY <2>1, <3>2
      <4>2. Merge(runs, p) = [runs EXCEPT ![n].chunks = runs[n].chunks + 1]
        BY <3>2 DEF Merge
      <4>3. (runs[n].chunks + 1) * k[1] <= MaxRunBytes
        BY <2>1, <3>2 DEF Continues
      <4>4. /\ Merge(runs, p)[n].chunks = runs[n].chunks + 1
            /\ i \in DOMAIN runs
            /\ i # n => Merge(runs, p)[i] = runs[i]
        BY <4>1, <4>2 DEF Run
      <4> HIDE DEF k, runs, n
      <4> QED
        BY <2>2, <3>1, <4>3, <4>4
    <3>3. CASE ~(runs # <<>> /\ Continues(runs[n], p))
      <4>1. Merge(runs, p) = Append(runs, [src |-> p.src, dst |-> p.dst, chunks |-> 1])
        BY <3>3 DEF Merge
      <4>2. i \in DOMAIN runs /\ Merge(runs, p)[i] = runs[i]
        BY <2>1, <2>2, <4>1
      <4> HIDE DEF k, runs, n
      <4> QED
        BY <2>2, <3>1, <4>2
    <3> QED
      BY <3>2, <3>3
  <2>3. DOMAIN plan' = DOMAIN plan /\ plan'[k] = Merge(runs, p)
        /\ \A j \in DOMAIN plan : j # k => plan'[j] = plan[j]
    BY <2>1
  <2> HIDE DEF k, runs
  <2> QED
    BY <2>2, <2>3 DEF Capped
<1>3. ASSUME PlanReady \/ UNCHANGED planVars PROVE Capped'
  BY <1>3 DEF PlanReady, planVars, Capped
<1> QED
  BY <1>1, <1>2, <1>3 DEF PlanStep, Coalesce

\* The bytes of a run whose last chunk lies inside the file: full chunks up to
\* the last, which may be short.
LEMMA RunLength ==
    ASSUME NEW h, h.size \in Nat, NEW first \in Nat, NEW n \in Nat \ {0}, NEW blksz \in Nat \ {0},
           chunk_len(h, first + (n - 1), blksz) # 0
    PROVE  /\ chunk_len(h, first + (n - 1), blksz) \in Nat \ {0}
           /\ run_len(h, first, n, blksz) = (n - 1) * blksz + chunk_len(h, first + (n - 1), blksz)
<1> DEFINE x == first * blksz
           y == (n - 1) * blksz
<1>1. x \in Nat /\ y \in Nat
  OBVIOUS
<1>2. (first + (n - 1)) * blksz = x + y
  OBVIOUS
<1>3. n * blksz = y + blksz
  OBVIOUS
<1>4. chunk_len(h, first + (n - 1), blksz) = LowerOf(SatSub(h.size, x + y), blksz)
  BY <1>2 DEF chunk_len
<1>5. run_len(h, first, n, blksz) = LowerOf(SatSub(h.size, x), y + blksz)
  BY <1>3 DEF run_len
<1> HIDE DEF x, y
<1>6. h.size > x + y
  BY <1>1, <1>4 DEF LowerOf, SatSub
<1>7. LowerOf(SatSub(h.size, x), y + blksz) = y + LowerOf(SatSub(h.size, x + y), blksz)
  BY <1>1, <1>6 DEF LowerOf, SatSub
<1>8. LowerOf(SatSub(h.size, x + y), blksz) \in Nat \ {0}
  BY <1>1, <1>6 DEF LowerOf, SatSub
<1> QED
  BY <1>4, <1>5, <1>7, <1>8 DEF y

\* The two chunks of a pair have one length, which is not zero.
LEMMA PairLengths ==
    ASSUME PlanTypeOK, NEW p \in AllPairs
    PROVE  /\ LenOf(files, p.src, p.blksz) # 0
           /\ LenOf(files, p.dst, p.blksz) = LenOf(files, p.src, p.blksz)
           /\ {p.src.file, p.dst.file} \subseteq DOMAIN files
<1>1. GoodSnapshot(files, cache) /\ p \in PairsOf(files, cache)
  BY DEF PlanTypeOK, AllPairs, PairsOf
<1>2. PICK k \in DOMAIN build_index(files, cache) :
          LET group == build_index(files, cache)[k]
          IN  /\ p = [blksz |-> k[1], src |-> First(group), dst |-> p.dst]
              /\ p.src \in group /\ p.dst \in group /\ p.src # p.dst
              /\ LenOf(files, p.src, k[1]) # 0
              /\ LenOf(files, p.dst, k[1]) = LenOf(files, p.src, k[1])
  BY <1>1, GroupOfPair
<1>3. p.blksz = k[1]
  BY <1>2
<1> QED
  BY <1>1, <1>2, <1>3, PairTypes

LEMMA RunsReady ==
    ASSUME PlanTypeOK, Accounted, Capped
    PROVE  RunsAreIoctlReady
<1> SUFFICES ASSUME NEW id \in AllRunIds
             PROVE  /\ run_len(files[id[1][2]], RunAt(id).src.chunk, RunAt(id).chunks, id[1][1])
                         = run_len(files[id[1][3]], RunAt(id).dst.chunk, RunAt(id).chunks, id[1][1])
                    /\ run_len(files[id[1][2]], RunAt(id).src.chunk, RunAt(id).chunks, id[1][1])
                         > (RunAt(id).chunks - 1) * id[1][1]
                    /\ RunAt(id).chunks > 1 => RunAt(id).chunks * id[1][1] <= MaxRunBytes
  BY DEF RunsAreIoctlReady
<1> DEFINE r == RunAt(id)
           k == id[1]
           n == r.chunks
           p == [blksz |-> k[1],
                 src |-> [file |-> k[2], chunk |-> r.src.chunk + (n - 1)],
                 dst |-> [file |-> k[3], chunk |-> r.dst.chunk + (n - 1)]]
<1>0. PICK j \in DOMAIN plan : \E i \in DOMAIN plan[j] : id = <<j, i>>
  BY RunIds
<1>1. PICK i \in DOMAIN plan[j] : id = <<j, i>>
  BY <1>0
<1>2. k = j /\ r = plan[j][i] /\ r \in Run /\ k \in Key
  BY <1>1 DEF RunAt, PlanTypeOK
<1>3. n \in Nat \ {0} /\ r.src.chunk \in Nat /\ r.dst.chunk \in Nat /\ k[1] \in Nat \ {0}
  BY <1>2 DEF Run, Loc, Key
<1>4. p \in Covered(id)
  <2> DEFINE At(m) == [blksz |-> k[1],
                       src |-> [file |-> k[2], chunk |-> r.src.chunk + m],
                       dst |-> [file |-> k[3], chunk |-> r.dst.chunk + m]]
  <2>1. Covered(id) = { At(m) : m \in 0 .. n - 1 }
    BY DEF Covered
  <2>2. n - 1 \in 0 .. n - 1 /\ p = At(n - 1)
    BY <1>3
  <2> HIDE DEF At, p, n
  <2> QED
    BY <2>1, <2>2
<1>5. p \in AllPairs
  BY <1>4 DEF Accounted
<1>6. /\ chunk_len(files[k[2]], r.src.chunk + (n - 1), k[1]) # 0
      /\ chunk_len(files[k[3]], r.dst.chunk + (n - 1), k[1])
           = chunk_len(files[k[2]], r.src.chunk + (n - 1), k[1])
      /\ k[2] \in DOMAIN files /\ k[3] \in DOMAIN files
  BY <1>5, PairLengths DEF LenOf
<1>7. files[k[2]].size \in Nat /\ files[k[3]].size \in Nat
  BY <1>6 DEF PlanTypeOK, GoodSnapshot
<1>8. n > 1 => n * k[1] <= MaxRunBytes
  BY <1>1, <1>2 DEF Capped
<1> HIDE DEF n, k, r
<1>9. /\ run_len(files[k[2]], r.src.chunk, n, k[1])
           = (n - 1) * k[1] + chunk_len(files[k[2]], r.src.chunk + (n - 1), k[1])
      /\ run_len(files[k[3]], r.dst.chunk, n, k[1])
           = (n - 1) * k[1] + chunk_len(files[k[3]], r.dst.chunk + (n - 1), k[1])
      /\ chunk_len(files[k[2]], r.src.chunk + (n - 1), k[1]) \in Nat \ {0}
  BY <1>3, <1>6, <1>7, RunLength
<1>10. (n - 1) * k[1] \in Nat
  BY <1>3
<1> QED
  BY <1>6, <1>8, <1>9, <1>10 DEF n, k, r

\* Every run of every plan is one valid ioctl request, so that the skip in pair
\* is dead code.
THEOREM RequestsAreValid == PlanSpec => []RunsAreIoctlReady
<1>1. PlanInit => Capped
  BY DEF PlanInit, Capped
<1>2. PlanTypeOK /\ Accounted /\ Capped /\ [PlanStep]_planVars => Capped'
  BY PlanStepCapped
<1>3. PlanTypeOK /\ Accounted /\ Capped => RunsAreIoctlReady
  BY RunsReady
<1> QED
  BY <1>1, <1>2, <1>3, PlanInvariant, PTL DEF PlanSpec

-----------------------------------------------------------------------------
(* No two runs are left apart that could be one request.                   *)

Ends(run) == run.dst.chunk + run.chunks

LEMMA EndsTyped ==
    ASSUME NEW run \in Run
    PROVE  Ends(run) \in Nat
BY DEF Ends, Run, Loc

\* Of two neighbours in a list the second did not continue the first.
Adjoins(run, next) ==
    /\ next.src.chunk = run.src.chunk + run.chunks
    /\ next.dst.chunk = run.dst.chunk + run.chunks

\* The runs of a key are in the order of their destinations, in front of what is
\* still to be merged.
InOrder(runs, blksz) ==
    /\ \A i, j \in DOMAIN runs : i < j => Ends(runs[i]) <= runs[j].dst.chunk
    /\ \A i \in DOMAIN runs :
          i + 1 \in DOMAIN runs /\ Adjoins(runs[i], runs[i + 1])
          => (runs[i].chunks + 1) * blksz > MaxRunBytes

Ordered ==
    \A k \in DOMAIN plan :
        /\ InOrder(plan[k], k[1])
        /\ \A p \in pairs : PairKey(p) = k =>
              \A i \in DOMAIN plan[k] : Ends(plan[k][i]) <= p.dst.chunk

LEMMA NumbersOfRuns ==
    ASSUME NEW runs \in Seq(Run)
    PROVE  /\ Len(runs) \in Nat /\ DOMAIN runs = 1 .. Len(runs)
           /\ \A i \in DOMAIN runs : /\ runs[i].src.chunk \in Nat /\ runs[i].dst.chunk \in Nat
                                     /\ runs[i].chunks \in Nat \ {0}
<1>1. Len(runs) \in Nat /\ DOMAIN runs = 1 .. Len(runs)
  OBVIOUS
<1>2. ASSUME NEW i \in DOMAIN runs
      PROVE  /\ runs[i].src.chunk \in Nat /\ runs[i].dst.chunk \in Nat
             /\ runs[i].chunks \in Nat \ {0}
  <2>1. runs[i] \in Run
    BY <1>2
  <2> QED
    BY <2>1 DEF Run, Loc
<1> QED
  BY <1>1, <1>2

\* One iteration of coalesce keeps the order and moves the end of the list right
\* behind the pair.
LEMMA MergeKeepsOrder ==
    ASSUME NEW runs \in Seq(Run), NEW p \in [blksz : Nat \ {0}, src : Loc, dst : Loc],
           InOrder(runs, p.blksz),
           \A i \in DOMAIN runs : Ends(runs[i]) <= p.dst.chunk
    PROVE  /\ InOrder(Merge(runs, p), p.blksz)
           /\ \A i \in DOMAIN Merge(runs, p) : Ends(Merge(runs, p)[i]) <= p.dst.chunk + 1
<1> DEFINE n == Len(runs)
           now == Merge(runs, p)
<1>1. /\ n \in Nat /\ DOMAIN runs = 1 .. n /\ p.dst.chunk \in Nat /\ p.src.chunk \in Nat
      /\ \A i \in DOMAIN runs : /\ runs[i].src.chunk \in Nat /\ runs[i].dst.chunk \in Nat
                                /\ runs[i].chunks \in Nat \ {0}
  BY NumbersOfRuns DEF Loc
<1>2. CASE runs # <<>> /\ Continues(runs[n], p)
  <2>1. n \in DOMAIN runs /\ runs[n] \in Run
    BY <1>1, <1>2
  <2>2. now = [runs EXCEPT ![n].chunks = runs[n].chunks + 1]
    BY <1>2 DEF Merge
  <2>3. /\ DOMAIN now = 1 .. n
        /\ \A i \in DOMAIN runs : i # n => now[i] = runs[i]
        /\ now[n].src = runs[n].src /\ now[n].dst = runs[n].dst
        /\ now[n].chunks = runs[n].chunks + 1
    BY <1>1, <2>1, <2>2 DEF Run
  <2>4. Ends(now[n]) = p.dst.chunk + 1
    <3>1. p.dst.chunk = runs[n].dst.chunk + runs[n].chunks
      BY <1>2 DEF Continues
    <3> HIDE DEF now, n
    <3> QED
      BY <1>1, <2>1, <2>3, <3>1 DEF Ends
  <2> HIDE DEF now, n
  <2>5. \A i \in DOMAIN now : Ends(now[i]) <= p.dst.chunk + 1
    BY <1>1, <2>3, <2>4 DEF Ends
  <2>6. ASSUME NEW i \in DOMAIN now, NEW j \in DOMAIN now, i < j
        PROVE  Ends(now[i]) <= now[j].dst.chunk
    <3>1. i # n /\ now[j].dst = runs[j].dst
      BY <1>1, <2>3, <2>6
    <3> QED
      BY <1>1, <2>3, <2>6, <3>1 DEF InOrder
  <2>7. ASSUME NEW i \in DOMAIN now, i + 1 \in DOMAIN now, Adjoins(now[i], now[i + 1])
        PROVE  (now[i].chunks + 1) * p.blksz > MaxRunBytes
    <3>0. i # n /\ i \in DOMAIN runs /\ i + 1 \in DOMAIN runs
      <4>1. i \in 1 .. n /\ i + 1 \in 1 .. n
        BY <2>3, <2>7
      <4> QED
        BY <1>1, <4>1
    <3>1. /\ i # n /\ i \in DOMAIN runs /\ i + 1 \in DOMAIN runs /\ now[i] = runs[i]
          /\ now[i + 1].src = runs[i + 1].src /\ now[i + 1].dst = runs[i + 1].dst
      <4>1. CASE i + 1 = n
        BY <2>3, <3>0, <4>1
      <4>2. CASE i + 1 # n
        BY <2>3, <3>0, <4>2
      <4> QED
        BY <4>1, <4>2
    <3>2. Adjoins(runs[i], runs[i + 1])
      BY <2>7, <3>1 DEF Adjoins
    <3> QED
      BY <3>1, <3>2 DEF InOrder
  <2> QED
    BY <2>5, <2>6, <2>7 DEF InOrder, now
<1>3. CASE ~(runs # <<>> /\ Continues(runs[n], p))
  <2> DEFINE run == [src |-> p.src, dst |-> p.dst, chunks |-> 1]
  <2>1. now = Append(runs, run)
    BY <1>3 DEF Merge
  <2>2. /\ DOMAIN now = 1 .. n + 1
        /\ \A i \in DOMAIN runs : now[i] = runs[i]
        /\ now[n + 1] = run
    <3> HIDE DEF n, now, run
    <3>1. Len(runs) = n
      BY DEF n
    <3> QED
      BY <1>1, <2>1, <3>1
  <2>3. run.src = p.src /\ run.dst = p.dst /\ run.chunks = 1
    OBVIOUS
  <2>4. n # 0 => n \in DOMAIN runs /\ ~Continues(runs[n], p)
    BY <1>1, <1>3
  <2> HIDE DEF now, n, run
  <2>5. \A i \in DOMAIN now : Ends(now[i]) <= p.dst.chunk + 1
    <3>1. ASSUME NEW i \in DOMAIN runs PROVE Ends(now[i]) <= p.dst.chunk + 1
      <4>1. Ends(runs[i]) \in Nat /\ Ends(runs[i]) <= p.dst.chunk
        BY <1>1, <3>1 DEF Ends
      <4>2. now[i] = runs[i]
        BY <2>2, <3>1
      <4> QED
        BY <1>1, <4>1, <4>2
    <3>2. Ends(now[n + 1]) = p.dst.chunk + 1
      BY <2>2, <2>3 DEF Ends
    <3>3. \A i \in 1 .. n + 1 : i \in 1 .. n \/ i = n + 1
      BY <1>1
    <3> QED
      BY <1>1, <2>2, <3>1, <3>2, <3>3
  <2>6. ASSUME NEW i \in DOMAIN now, NEW j \in DOMAIN now, i < j
        PROVE  Ends(now[i]) <= now[j].dst.chunk
    <3>1. i \in DOMAIN runs
      BY <1>1, <2>2, <2>6
    <3>2. CASE j \in DOMAIN runs
      BY <2>2, <2>6, <3>1, <3>2 DEF InOrder
    <3>3. CASE j = n + 1
      BY <2>2, <2>3, <3>1, <3>3
    <3> QED
      BY <1>1, <2>2, <3>2, <3>3
  <2>7. ASSUME NEW i \in DOMAIN now, i + 1 \in DOMAIN now, Adjoins(now[i], now[i + 1])
        PROVE  (now[i].chunks + 1) * p.blksz > MaxRunBytes
    <3>1. i \in DOMAIN runs
      BY <1>1, <2>2, <2>7
    <3>2. CASE i + 1 \in DOMAIN runs
      BY <2>2, <2>7, <3>1, <3>2 DEF InOrder
    <3>3. CASE i = n
      <4>1. p.src.chunk = runs[n].src.chunk + runs[n].chunks
            /\ p.dst.chunk = runs[n].dst.chunk + runs[n].chunks
        BY <2>2, <2>3, <2>7, <3>1, <3>3 DEF Adjoins
      <4>2. ~((runs[n].chunks + 1) * p.blksz <= MaxRunBytes)
        BY <2>4, <3>1, <3>3, <4>1, <1>1 DEF Continues
      <4>3. (runs[n].chunks + 1) * p.blksz \in Nat /\ MaxRunBytes \in Nat
        BY <1>1, <3>1, <3>3, CapAssumption
      <4>4. now[i] = runs[n]
        BY <2>2, <3>1, <3>3
      <4> QED
        BY <4>2, <4>3, <4>4
    <3> QED
      BY <1>1, <2>2, <3>1, <3>2, <3>3
  <2> QED
    BY <2>5, <2>6, <2>7 DEF InOrder, now
<1> QED
  BY <1>2, <1>3

LEMMA PlanStepOrdered ==
    ASSUME PlanTypeOK, Accounted, Ordered, [PlanStep]_planVars
    PROVE  Ordered'
<1>1. ASSUME GroupPairs PROVE Ordered'
  BY <1>1 DEF GroupPairs, Ordered, InOrder
<1>2. ASSUME phase = "plan", NEW p \in pairs, Coalesce(p) PROVE Ordered'
  <2> DEFINE k == PairKey(p)
             runs == plan[k]
  <2>1. /\ p \in [blksz : Nat \ {0}, src : Loc, dst : Loc]
        /\ k \in DOMAIN plan /\ runs \in Seq(Run) /\ k[1] = p.blksz
        /\ plan' = [plan EXCEPT ![k] = Merge(runs, p)]
        /\ pairs' = pairs \ {p}
    BY <1>2 DEF PlanTypeOK, Accounted, Coalesce, PairKey
  <2>2. InOrder(runs, p.blksz) /\ \A i \in DOMAIN runs : Ends(runs[i]) <= p.dst.chunk
    BY <1>2, <2>1 DEF Ordered
  <2>3. /\ InOrder(Merge(runs, p), p.blksz)
        /\ \A i \in DOMAIN Merge(runs, p) : Ends(Merge(runs, p)[i]) <= p.dst.chunk + 1
    BY <2>1, <2>2, MergeKeepsOrder
  <2>4. ASSUME NEW q \in pairs', PairKey(q) = k PROVE p.dst.chunk + 1 <= q.dst.chunk
    <3>1. q \in pairs /\ q # p /\ q \in [blksz : Nat \ {0}, src : Loc, dst : Loc]
      BY <2>1, <2>4 DEF PlanTypeOK
    <3>2. p.dst.chunk <= q.dst.chunk /\ p.dst.file = q.dst.file
      BY <1>2, <2>4, <3>1 DEF Coalesce, NextOfItsKey, PairKey
    <3>3. p.dst # q.dst
      BY <1>2, <3>1, RolesOfAChunk DEF PlanTypeOK, Accounted, AllPairs, PairsOf
    <3> QED
      BY <2>1, <3>1, <3>2, <3>3 DEF Loc
  <2>5. DOMAIN plan' = DOMAIN plan /\ plan'[k] = Merge(runs, p)
        /\ \A j \in DOMAIN plan : j # k => plan'[j] = plan[j]
    BY <2>1
  <2>6. Merge(runs, p) \in Seq(Run)
    BY <2>1, MergeTyped
  <2>7. ASSUME NEW q \in pairs', PairKey(q) = k, NEW i \in DOMAIN Merge(runs, p)
        PROVE  Ends(Merge(runs, p)[i]) <= q.dst.chunk
    <3>1. Merge(runs, p)[i] \in Run /\ q \in [blksz : Nat \ {0}, src : Loc, dst : Loc]
      BY <2>1, <2>6, <2>7 DEF PlanTypeOK
    <3>2. Ends(Merge(runs, p)[i]) \in Nat /\ q.dst.chunk \in Nat /\ p.dst.chunk \in Nat
      <4>1. q.dst.chunk \in Nat /\ p.dst.chunk \in Nat
        BY <2>1, <3>1 DEF Loc
      <4> QED
        BY <3>1, <4>1, EndsTyped
    <3>3. p.dst.chunk + 1 <= q.dst.chunk /\ Ends(Merge(runs, p)[i]) <= p.dst.chunk + 1
      BY <2>3, <2>4, <2>7
    <3> QED
      BY <3>2, <3>3
  <2> HIDE DEF k, runs
  <2> QED
    BY <2>1, <2>3, <2>5, <2>7 DEF Ordered
<1>3. ASSUME PlanReady \/ UNCHANGED planVars PROVE Ordered'
  BY <1>3 DEF PlanReady, planVars, Ordered
<1> QED
  BY <1>1, <1>2, <1>3 DEF PlanStep, Coalesce

LEMMA RunsMaximal ==
    ASSUME PlanTypeOK, Ordered
    PROVE  RunsAreMaximal
<1> SUFFICES ASSUME NEW id \in AllRunIds, NEW next \in AllRunIds, id[1] = next[1],
                    Adjoins(RunAt(id), RunAt(next))
             PROVE  (RunAt(id).chunks + 1) * id[1][1] > MaxRunBytes
  BY DEF RunsAreMaximal, Adjoins
<1>1. PICK k \in DOMAIN plan : \E i \in DOMAIN plan[k] : id = <<k, i>>
  BY RunIds
<1>2. PICK i \in DOMAIN plan[k] : id = <<k, i>>
  BY <1>1
<1>3. PICK l \in DOMAIN plan : \E j \in DOMAIN plan[l] : next = <<l, j>>
  BY RunIds
<1>4. PICK j \in DOMAIN plan[l] : next = <<l, j>>
  BY <1>3
<1> DEFINE runs == plan[k]
<1>5. l = k /\ RunAt(id) = runs[i] /\ RunAt(next) = runs[j] /\ id[1] = k
  BY <1>2, <1>4 DEF RunAt
<1>6. runs \in Seq(Run) /\ InOrder(runs, k[1]) /\ i \in DOMAIN runs /\ j \in DOMAIN runs
  BY <1>2, <1>4, <1>5 DEF PlanTypeOK, Ordered
<1>7. Adjoins(runs[i], runs[j])
  BY <1>5
<1> HIDE DEF runs
<1>8. /\ DOMAIN runs = 1 .. Len(runs) /\ Len(runs) \in Nat
      /\ \A m \in DOMAIN runs : runs[m].dst.chunk \in Nat /\ runs[m].chunks \in Nat \ {0}
  BY <1>6, NumbersOfRuns
<1>9. j = i + 1
  <2>1. CASE j = i
    BY <1>6, <1>7, <1>8, <2>1 DEF Adjoins
  <2>2. CASE j < i
    <3>1. Ends(runs[j]) <= runs[i].dst.chunk
      BY <1>6, <2>2 DEF InOrder
    <3>2. runs[j].dst.chunk = runs[i].dst.chunk + runs[i].chunks
      BY <1>7 DEF Adjoins
    <3> QED
      BY <1>6, <1>8, <3>1, <3>2 DEF Ends
  <2>3. CASE j > i + 1
    <3>1. i + 1 \in DOMAIN runs /\ i < i + 1
      BY <1>6, <1>8, <2>3
    <3>2. Ends(runs[i]) <= runs[i + 1].dst.chunk /\ Ends(runs[i + 1]) <= runs[j].dst.chunk
      BY <1>6, <2>3, <3>1 DEF InOrder
    <3> QED
      BY <1>6, <1>7, <1>8, <3>1, <3>2 DEF Adjoins, Ends
  <2> QED
    BY <1>6, <1>8, <2>1, <2>2, <2>3
<1> QED
  BY <1>5, <1>6, <1>7, <1>9 DEF InOrder

\* Whatever the order of the keys, coalesce leaves no two runs apart that one
\* request could serve.
THEOREM RunsAreLongest == PlanSpec => []RunsAreMaximal
<1>1. PlanInit => Ordered
  BY DEF PlanInit, Ordered
<1>2. PlanTypeOK /\ Accounted /\ Ordered /\ [PlanStep]_planVars => Ordered'
  BY PlanStepOrdered
<1>3. PlanTypeOK /\ Ordered => RunsAreMaximal
  BY RunsMaximal
<1> QED
  BY <1>1, <1>2, <1>3, PlanInvariant, PTL DEF PlanSpec
=============================================================================
