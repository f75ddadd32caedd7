--------------------------- MODULE PipelineProofs ---------------------------
(***************************************************************************)
(* Proofs about one run of the tool: types, the host's mounts, the guard   *)
(* of the racy fallback, the pool's view of the mounts, the exit status.   *)
(***************************************************************************)
EXTENDS Pipeline, WellFoundedInduction, TLAPS

-----------------------------------------------------------------------------
(* What mount tables show.                                                 *)

LEMMA MaxIn ==
    ASSUME NEW n \in Nat, NEW S, S \subseteq 1 .. n, S # {}
    PROVE  Max(S) \in S
<1> DEFINE T == { n - k : k \in S }
<1>1. IsWellFoundedOn({ss \in Nat \X Nat : ss[1] < ss[2]}, Nat)
  BY NatLessThanWellFounded, Zenon DEF OpToRel
<1>2. T \subseteq Nat /\ T # {}
  OBVIOUS
<1>3. PICK x \in T : \A y \in T : ~ (<<y, x>> \in {ss \in Nat \X Nat : ss[1] < ss[2]})
  <2> HIDE DEF T
  <2> QED
    BY <1>1, <1>2, WFMin
<1>4. PICK m \in S : x = n - m
  BY <1>3
<1>5. ASSUME NEW k \in S PROVE m >= k
  <2>1. n - k \in T /\ n - k \in Nat /\ x \in Nat
    BY <1>2
  <2>2. ~(n - k < x)
    BY <1>3, <2>1
  <2> QED
    BY <1>4, <2>1, <2>2
<1>6. \E m2 \in S : \A k \in S : m2 >= k
  BY <1>5
<1> QED
  BY <1>6 DEF Max

LEMMA MinIn ==
    ASSUME NEW S, S \subseteq Nat, S # {}
    PROVE  Min(S) \in S
<1>1. IsWellFoundedOn({ss \in Nat \X Nat : ss[1] < ss[2]}, Nat)
  BY NatLessThanWellFounded, Zenon DEF OpToRel
<1>2. PICK x \in S : \A y \in S : ~ (<<y, x>> \in {ss \in Nat \X Nat : ss[1] < ss[2]})
  BY <1>1, WFMin
<1>3. ASSUME NEW k \in S PROVE x =< k
  <2>1. x \in Nat /\ k \in Nat /\ ~(k < x)
    BY <1>2
  <2> QED
    BY <2>1
<1>4. \E x2 \in S : \A k \in S : x2 =< k
  BY <1>3
<1> QED
  BY <1>4 DEF Min

\* A table that has a mount at "/" shows one of its mounts in every path.
Rooted(tab) == tab \in Seq(MountRec) /\ tab # <<>> /\ tab[1].point = <<>>

LEMMA ShowsAMount ==
    ASSUME NEW tab, Rooted(tab), NEW p \in Paths
    PROVE  /\ Shows(tab, p) \in DOMAIN tab /\ At(tab, p) \in MountRec
           /\ Below(p, tab[Shows(tab, p)].point)
<1> DEFINE S == { k \in DOMAIN tab : Below(p, tab[k].point) }
<1>1. p \in Seq(STRING)
  BY PipelineAssumption DEF Paths, Range
<1>2. 1 \in S
  <2>1. 1 \in DOMAIN tab /\ tab[1].point = <<>>
    BY DEF Rooted
  <2>2. IsPrefix(<<>>, p)
    BY <1>1 DEF IsPrefix
  <2> QED
    BY <2>1, <2>2 DEF Below
<1>3. S \subseteq 1 .. Len(tab) /\ Len(tab) \in Nat
  <2> HIDE DEF MountRec
  <2> QED
    BY DEF Rooted
<1>4. Max(S) \in S
  BY <1>2, <1>3, MaxIn
<1>5. Shows(tab, p) \in DOMAIN tab /\ Below(p, tab[Shows(tab, p)].point)
  BY <1>4 DEF Shows
<1> QED
  BY <1>5 DEF Rooted, At

\* Two tables that only differ in flags show the same mount in each path.
Alike(tab1, tab2) ==
    /\ DOMAIN tab1 = DOMAIN tab2
    /\ \A k \in DOMAIN tab1 : /\ tab1[k].point = tab2[k].point /\ tab1[k].fs = tab2[k].fs
                              /\ tab1[k].whole = tab2[k].whole /\ tab1[k].super_rw = tab2[k].super_rw

LEMMA AlikeShow ==
    ASSUME NEW tab1, NEW tab2, Alike(tab1, tab2), Rooted(tab1), NEW p \in Paths
    PROVE  Shows(tab2, p) = Shows(tab1, p) /\ At(tab2, p).fs = At(tab1, p).fs
<1>1. { k \in DOMAIN tab1 : Below(p, tab1[k].point) } = { k \in DOMAIN tab2 : Below(p, tab2[k].point) }
  BY DEF Alike
<1>2. Shows(tab2, p) = Shows(tab1, p)
  BY <1>1 DEF Shows
<1> QED
  BY <1>2, ShowsAMount DEF At, Alike

-----------------------------------------------------------------------------
(* The order of the phases.                                                *)

LEMMA Proceeds ==
    ASSUME Proceed
    PROVE  /\ pc = "enter"    => pc' = "pool"
           /\ pc = "pool"     => pc' = "mounts"
           /\ pc = "mounts"   => pc' = "roots"
           /\ pc = "roots"    => pc' = "zfs"
           /\ pc = "zfs"      => pc' = "remount"
           /\ pc = "remount"  => pc' = "writable"
           /\ pc = "writable" => pc' = "probe"
           /\ pc = "probe"    => pc' = "guard"
           /\ pc = "guard"    => pc' = "loop"
BY DEF Proceed, Order

-----------------------------------------------------------------------------
(* Types.                                                                  *)

Early == {"enter", "pool", "mounts", "roots", "zfs", "remount", "writable"}

\* What the types rest on: the roots are of ZFS from the phase on that checks
\* it, and nothing is grouped or probed before its phase.
Strong ==
    /\ TypeOK
    /\ Rooted(mine)
    /\ pc \in {"remount", "writable", "probe", "guard"} => \A d \in dirs : At(mine, d).fs \in Zfs
    /\ pc \notin {"loop", "done"} => groups = <<>>
    /\ pc \in Early => unprobed = {}

LEMMA Phases ==
    ASSUME NEW p \in {"enter", "pool", "mounts", "roots", "zfs", "remount", "writable",
                      "probe", "guard", "loop", "done"}
    PROVE  p \in Range(Order) \cup {"loop", "done"}
BY DEF Range, Order

\* A table in which some mounts have been made writable.
RwOf(tab, hit) == [k \in DOMAIN tab |-> IF k \in hit THEN [tab[k] EXCEPT !.ro = FALSE] ELSE tab[k]]

LEMMA TableOf ==
    ASSUME NEW S, NEW n \in Nat, NEW f \in [1 .. n -> S]
    PROVE  f \in Seq(S)
OBVIOUS

LEMMA RwKeeps ==
    ASSUME NEW tab \in Seq(MountRec), NEW hit
    PROVE  /\ RwOf(tab, hit) \in Seq(MountRec)
           /\ Alike(tab, RwOf(tab, hit))
           /\ \A k \in DOMAIN tab : [RwOf(tab, hit)[k] EXCEPT !.ro = FALSE] = [tab[k] EXCEPT !.ro = FALSE]
           /\ \A k \in DOMAIN tab : RwOf(tab, hit)[k].ro <=> tab[k].ro /\ k \notin hit
           /\ hit = {} => RwOf(tab, hit) = tab
           /\ Rooted(tab) => Rooted(RwOf(tab, hit))
<1> DEFINE rw == RwOf(tab, hit)
<1>1. DOMAIN tab = 1 .. Len(tab) /\ Len(tab) \in Nat /\ \A k \in DOMAIN tab : tab[k] \in MountRec
  <2> HIDE DEF MountRec
  <2> QED
    OBVIOUS
<1>2. DOMAIN rw = DOMAIN tab
      /\ \A k \in DOMAIN tab : rw[k] = IF k \in hit THEN [tab[k] EXCEPT !.ro = FALSE] ELSE tab[k]
  BY DEF RwOf
<1>3. ASSUME NEW k \in DOMAIN tab
      PROVE  /\ rw[k] \in MountRec
             /\ rw[k].point = tab[k].point /\ rw[k].fs = tab[k].fs
             /\ rw[k].whole = tab[k].whole /\ rw[k].super_rw = tab[k].super_rw
             /\ rw[k].ro <=> tab[k].ro /\ k \notin hit
             /\ [rw[k] EXCEPT !.ro = FALSE] = [tab[k] EXCEPT !.ro = FALSE]
             /\ hit = {} => rw[k] = tab[k]
  <2> DEFINE r == tab[k]
  <2>1. r \in MountRec /\ rw[k] = IF k \in hit THEN [r EXCEPT !.ro = FALSE] ELSE r
    BY <1>1, <1>2
  <2> HIDE DEF r, rw
  <2>2. [r EXCEPT !.ro = FALSE] \in MountRec /\ [r EXCEPT !.ro = FALSE].point = r.point
        /\ [r EXCEPT !.ro = FALSE].fs = r.fs /\ [r EXCEPT !.ro = FALSE].whole = r.whole
        /\ [r EXCEPT !.ro = FALSE].super_rw = r.super_rw /\ [r EXCEPT !.ro = FALSE].ro = FALSE
        /\ [[r EXCEPT !.ro = FALSE] EXCEPT !.ro = FALSE] = [r EXCEPT !.ro = FALSE]
    BY <2>1 DEF MountRec
  <2> QED
    BY <2>1, <2>2 DEF r
<1>4. rw \in Seq(MountRec)
  <2>1. rw = [k \in 1 .. Len(tab) |-> rw[k]]
    BY <1>1 DEF RwOf
  <2> HIDE DEF MountRec, rw
  <2>2. \A k \in 1 .. Len(tab) : rw[k] \in MountRec
    BY <1>1, <1>3
  <2>3. rw \in [1 .. Len(tab) -> MountRec]
    BY <2>1, <2>2
  <2> QED
    BY <1>1, <2>3, TableOf
<1>5. Alike(tab, rw)
  BY <1>2, <1>3 DEF Alike
<1>6. hit = {} => rw = tab
  <2> HIDE DEF MountRec, rw
  <2> QED
    BY <1>1, <1>2, <1>3, <1>4
<1>7. Rooted(tab) => Rooted(rw)
  <2> HIDE DEF MountRec, rw
  <2> QED
    BY <1>1, <1>2, <1>3, <1>4 DEF Rooted
<1> QED
  BY <1>3, <1>4, <1>5, <1>6, <1>7

LEMMA Remounting ==
    ASSUME remount_rw_binds
    PROVE  \E hit : /\ mine' = RwOf(mine, hit)
                    /\ host' = IF ns = "slave" THEN host ELSE RwOf(host, hit)
                    /\ refused' = { k \in DOMAIN mine : Remountable(k) } \ hit
                    /\ ~MayRemount => hit = {}
BY DEF remount_rw_binds, RwOf

LEMMA InitStrong == Init => Strong
<1> SUFFICES ASSUME Init PROVE Strong
  OBVIOUS
<1> USE PipelineAssumption
<1>1. mine \in Seq(MountRec) /\ host = mine /\ Rooted(mine)
  BY DEF Init, Rooted
<1>2. pc = "enter" /\ pc \in Range(Order) \cup {"loop", "done"}
  BY DEF Init, Order, Range
<1>3. args \in Request /\ kernel \in BOOLEAN
  BY DEF Init
<1>4. groups = <<>> /\ DOMAIN groups = {}
  BY DEF Init
<1>5. TypeOK
  BY <1>1, <1>2, <1>3, <1>4 DEF Init, TypeOK
<1> QED
  BY <1>1, <1>2, <1>4, <1>5 DEF Init, Strong

\* The phases up to the remounts, none of which touches a mount.
LEMMA FrontStrong ==
    ASSUME Strong,
           enter_private_mount_ns \/ build_global \/ Bail \/ zfs_mounts \/ SelectRoots \/ RetainZfs
    PROVE  Strong'
<1> USE DEF world, given, probe, loop, history
<1>1. CASE enter_private_mount_ns
  <2>1. pc = "enter" /\ pc' = "pool"
    BY <1>1, Proceeds DEF enter_private_mount_ns, Phase
  <2>2. ns' \in {"host", "shared", "slave"} /\ private_ns' \in BOOLEAN
        /\ UNCHANGED <<host, mine, given, pool, gone, mounts, dirs, probe, loop, history, refused, exit>>
    BY <1>1 DEF enter_private_mount_ns
  <2> QED
    BY <2>1, <2>2, Phases DEF Strong, TypeOK, Early
<1>2. CASE build_global
  <2>1. pc = "pool" /\ pc' = "mounts"
    BY <1>2, Proceeds DEF build_global, Phase
  <2>2. pool' \in {"none", "host", "shared", "slave"}
        /\ UNCHANGED <<world, given, gone, mounts, dirs, probe, loop, history, refused, exit>>
    BY <1>2 DEF build_global, Strong, TypeOK
  <2> QED
    BY <2>1, <2>2, Phases DEF Strong, TypeOK, Early
<1>3. CASE Bail
  <2>1. pc' = "done" /\ exit' = "FAILURE"
        /\ UNCHANGED <<world, given, pool, gone, mounts, dirs, probe, loop, history, refused>>
    BY <1>3 DEF Bail, Stop
  <2> QED
    BY <2>1, Phases DEF Strong, TypeOK, Early
<1>4. CASE zfs_mounts
  <2>1. pc = "mounts" /\ pc' = "roots"
    BY <1>4, Proceeds DEF zfs_mounts, Phase
  <2>2. mounts' \subseteq Paths
    <3>1. \A k \in DOMAIN mine : mine[k] \in MountRec
      <4> HIDE DEF MountRec
      <4> QED
        BY DEF Strong, TypeOK
    <3> QED
      BY <1>4, <3>1 DEF zfs_mounts, MountRec
  <2>3. UNCHANGED <<world, given, pool, gone, dirs, probe, loop, history, refused, exit>>
    BY <1>4 DEF zfs_mounts
  <2> QED
    BY <2>1, <2>2, <2>3, Phases DEF Strong, TypeOK, Early
<1>5. CASE SelectRoots
  <2>1. pc = "roots" /\ pc' = "zfs"
    BY <1>5, Proceeds DEF SelectRoots, Phase
  <2>2. dirs' \subseteq Paths
    BY <1>5 DEF SelectRoots, RootsOf, Strong, TypeOK, Request
  <2>3. UNCHANGED <<world, given, pool, gone, mounts, probe, loop, history, refused, exit>>
    BY <1>5 DEF SelectRoots
  <2>4. groups = <<>> /\ unprobed = {} /\ DOMAIN groups = {}
    BY <2>1 DEF Strong, Early
  <2> QED
    BY <2>1, <2>2, <2>3, <2>4, Phases DEF Strong, TypeOK, Early
<1>6. CASE RetainZfs
  <2>1. pc = "zfs" /\ pc' = "remount"
    BY <1>6, Proceeds DEF RetainZfs, Phase
  <2>2. dirs' \subseteq Paths /\ \A d \in dirs' : At(mine, d).fs \in Zfs
    BY <1>6 DEF RetainZfs, Strong, TypeOK
  <2>3. UNCHANGED <<world, given, pool, gone, mounts, probe, loop, history, refused, exit>>
    BY <1>6 DEF RetainZfs
  <2>4. groups = <<>> /\ unprobed = {} /\ DOMAIN groups = {}
    BY <2>1 DEF Strong, Early
  <2> QED
    BY <2>1, <2>2, <2>3, <2>4, Phases DEF Strong, TypeOK, Early, At, Shows
<1> QED
  BY <1>1, <1>2, <1>3, <1>4, <1>5, <1>6

\* Remounts keep what each path shows, and the two tables alike.
LEMMA RemountStrong ==
    ASSUME Strong, remount_rw_binds
    PROVE  Strong'
<1>1. PICK hit : /\ mine' = RwOf(mine, hit)
                 /\ host' = IF ns = "slave" THEN host ELSE RwOf(host, hit)
  BY Remounting
<1>2. pc = "remount" /\ pc' = "writable"
  BY Proceeds DEF remount_rw_binds, Phase
<1>3. UNCHANGED <<ns, private_ns, given, pool, gone, mounts, dirs, probe, loop, history, exit>>
  BY DEF remount_rw_binds
<1>4. mine \in Seq(MountRec) /\ host \in Seq(MountRec) /\ Rooted(mine) /\ DOMAIN host = DOMAIN mine
  BY DEF Strong, TypeOK
<1>5. Rooted(mine') /\ Alike(mine, mine') /\ mine' \in Seq(MountRec) /\ host' \in Seq(MountRec)
  BY <1>1, <1>4, RwKeeps
<1>6. DOMAIN mine' = DOMAIN mine /\ DOMAIN host' = DOMAIN host
  BY <1>1, <1>4 DEF RwOf
<1>7. ASSUME NEW k \in DOMAIN mine
      PROVE  [mine'[k] EXCEPT !.ro = FALSE] = [host'[k] EXCEPT !.ro = FALSE]
  <2>1. [mine'[k] EXCEPT !.ro = FALSE] = [mine[k] EXCEPT !.ro = FALSE]
    BY <1>1, <1>4, RwKeeps
  <2>2. [host'[k] EXCEPT !.ro = FALSE] = [host[k] EXCEPT !.ro = FALSE]
    BY <1>1, <1>4, RwKeeps
  <2>3. [mine[k] EXCEPT !.ro = FALSE] = [host[k] EXCEPT !.ro = FALSE]
    BY DEF Strong, TypeOK
  <2> QED
    BY <2>1, <2>2, <2>3
<1>8. ASSUME NEW d \in dirs PROVE At(mine', d).fs \in Zfs
  <2>1. At(mine, d).fs \in Zfs /\ d \in Paths
    BY <1>2 DEF Strong, TypeOK
  <2> QED
    BY <1>4, <1>5, <2>1, AlikeShow
<1>9. TypeOK'
  <2> USE <1>2, <1>3, <1>4, <1>5, <1>6, <1>7, Phases DEF TypeOK, Strong, given, probe, loop, history
  <2> QED
    OBVIOUS
<1> QED
  BY <1>2, <1>3, <1>5, <1>8, <1>9 DEF Strong, Early, given, probe, loop, history

\* The phases after the remounts.
LEMMA BackStrong ==
    ASSUME Strong, RetainWritable \/ ProbeNext \/ ProbeDone \/ Guard
    PROVE  Strong'
<1> USE DEF world, given, probe, loop, history
<1>1. CASE RetainWritable
  <2> DEFINE keep == { d \in dirs : d \in gone \/ ~ReadOnly(mine, d) }
  <2>1. pc = "writable" /\ pc' \in {"probe", "done"} /\ exit' \in {exit, "FAILURE"}
    BY <1>1, Proceeds DEF RetainWritable, Phase, Stop
  <2>2. keep \subseteq dirs /\ dirs' = keep /\ unprobed' = keep
        /\ UNCHANGED <<world, given, pool, gone, mounts, answer, loop, history, refused>>
    BY <1>1 DEF RetainWritable, Probeable
  <2>3. groups = <<>> /\ DOMAIN groups = {}
    BY <2>1 DEF Strong
  <2> HIDE DEF keep
  <2>4. TypeOK'
    BY <2>1, <2>2, <2>3, Phases DEF Strong, TypeOK
  <2>5. \A d \in dirs' : At(mine', d).fs \in Zfs
    BY <2>1, <2>2 DEF Strong
  <2> QED
    BY <2>1, <2>2, <2>3, <2>4, <2>5 DEF Strong, Early
<1>2. CASE ProbeNext
  <2> DEFINE S == { i \in DOMAIN PathOrder : PathOrder[i] \in unprobed }
             d == PathOrder[Min(S)]
  <2>1. d \in Paths
    <3>1. S \subseteq Nat /\ S # {}
      <4>1. PathOrder \in Seq(Range(PathOrder)) /\ DOMAIN PathOrder \subseteq Nat
        BY PipelineAssumption DEF Range
      <4>2. unprobed # {} /\ unprobed \subseteq Range(PathOrder)
        BY <1>2 DEF ProbeNext, Strong, TypeOK, Paths
      <4>3. PICK e \in unprobed : \E i \in DOMAIN PathOrder : PathOrder[i] = e
        BY <4>2 DEF Range
      <4> QED
        BY <4>1, <4>3
    <3>2. Min(S) \in S
      BY <3>1, MinIn
    <3> QED
      BY <3>2 DEF Paths, Range
  <2>2. unprobed' \subseteq unprobed /\ answer' \in {"none", "yes", "no"} /\ written' = written \cup {d}
    BY <1>2 DEF ProbeNext
  <2>3. UNCHANGED <<world, given, pool, gone, pc, mounts, dirs, loop, scanned, refused, exit>>
    BY <1>2 DEF ProbeNext
  <2> HIDE DEF d
  <2>4. TypeOK'
    BY <2>1, <2>2, <2>3 DEF Strong, TypeOK
  <2>5. pc = "probe"
    BY <1>2 DEF ProbeNext, Phase
  <2> QED
    BY <2>3, <2>4, <2>5 DEF Strong, Early
<1>3. CASE ProbeDone
  <2>1. pc = "probe" /\ pc' = "guard"
    BY <1>3, Proceeds DEF ProbeDone, Phase
  <2>2. answer' \in {"none", "yes", "no", "failed"}
        /\ UNCHANGED <<world, given, pool, gone, mounts, dirs, unprobed, loop, history, refused, exit>>
    BY <1>3 DEF ProbeDone, Strong, TypeOK
  <2> QED
    BY <2>1, <2>2, Phases DEF Strong, TypeOK, Early
<1>4. CASE Guard
  <2>1. pc = "guard" /\ pc' \in {"loop", "done"} /\ exit' \in {exit, "FAILURE"}
    BY <1>4, Proceeds DEF Guard, Phase, Stop
  <2>2. UNCHANGED <<world, given, pool, gone, mounts, dirs, probe, hash_errors, errors, history, refused>>
    BY <1>4 DEF Guard
  <2>4. DOMAIN groups' \subseteq Zfs /\ \A f \in DOMAIN groups' : groups'[f] \subseteq dirs
    <3>1. CASE groups' = groups
      BY <3>1 DEF Strong, TypeOK
    <3>2. CASE groups' = [f \in FsidsOf(dirs \ gone) |-> { d \in dirs \ gone : At(mine, d).fs = f }]
      <4>1. \A d \in dirs : At(mine, d).fs \in Zfs
        BY <2>1 DEF Strong
      <4> QED
        BY <3>2, <4>1 DEF FsidsOf
    <3> QED
      BY <1>4, <3>1, <3>2 DEF Guard
  <2>5. TypeOK'
    BY <2>1, <2>2, <2>4, Phases DEF Strong, TypeOK
  <2> QED
    BY <2>1, <2>2, <2>5 DEF Strong, Early
<1> QED
  BY <1>1, <1>2, <1>3, <1>4

\* One scan per dataset, whether or not its tasks failed.
LEMMA ScannedOne ==
    ASSUME NEW f, Dataset(f)
    PROVE  \E c \in BOOLEAN :
              scanned' = scanned \cup {[fsid |-> f, dirs |-> groups[f], fideduperange |-> fideduperange,
                                        clean |-> c]}
<1>1. PICK h, e \in 0 .. 1 :
         scanned' = scanned \cup {[fsid |-> f, dirs |-> groups[f], fideduperange |-> fideduperange,
                                   clean |-> h = 0 /\ e = 0]}
  BY DEF Dataset
<1> QED
  BY <1>1

LEMMA LoopStrong ==
    ASSUME Strong, (\E f \in DOMAIN groups : Dataset(f)) \/ Finish \/ \E d \in Paths : Vanish(d)
    PROVE  Strong'
<1> USE DEF world, given, probe, loop, history
<1>1. ASSUME NEW f \in DOMAIN groups, Dataset(f) PROVE Strong'
  <2>1. pc = "loop" /\ UNCHANGED <<world, given, gone, pc, mounts, dirs, probe, refused, exit>>
    BY <1>1 DEF Dataset, Phase
  <2>2. pool' \in {"none", "host", "shared", "slave"}
    BY <1>1 DEF Dataset, Strong, TypeOK
  <2>3. hash_errors' \in Nat /\ errors' \in Nat
    BY <1>1 DEF Dataset, Strong, TypeOK
  <2>5. f \in Zfs /\ groups[f] \subseteq dirs /\ dirs \subseteq Paths
    BY DEF Strong, TypeOK
  <2>6. scanned' \subseteq Scan
    <3>1. PICK c \in BOOLEAN :
             scanned' = scanned \cup {[fsid |-> f, dirs |-> groups[f], fideduperange |-> fideduperange,
                                       clean |-> c]}
      BY <1>1, ScannedOne
    <3>2. fideduperange \in BOOLEAN
      BY DEF fideduperange
    <3> QED
      BY <2>5, <3>1, <3>2 DEF Scan, Strong, TypeOK
  <2>7. written' \subseteq Paths
    BY <1>1, <2>5 DEF Dataset, Strong, TypeOK
  <2>8. DOMAIN groups' \subseteq Zfs /\ \A g \in DOMAIN groups' : groups'[g] \subseteq dirs
    BY <1>1 DEF Dataset, Strong, TypeOK
  <2>9. TypeOK'
    BY <2>1, <2>2, <2>3, <2>6, <2>7, <2>8 DEF Strong, TypeOK
  <2> QED
    BY <2>1, <2>9 DEF Strong, Early
<1>2. CASE Finish
  <2>1. pc' = "done" /\ exit' \in {"SUCCESS", "FAILURE"}
        /\ UNCHANGED <<world, given, pool, gone, mounts, dirs, probe, loop, history, refused>>
    BY <1>2 DEF Finish, Stop
  <2> QED
    BY <2>1, Phases DEF Strong, TypeOK, Early
<1>3. ASSUME NEW d \in Paths, Vanish(d) PROVE Strong'
  BY <1>3 DEF Vanish, Strong, TypeOK
<1> QED
  BY <1>1, <1>2, <1>3

LEMMA NextStrong ==
    ASSUME Strong, [Next]_vars
    PROVE  Strong'
<1>1. CASE UNCHANGED vars
  BY <1>1 DEF vars, world, given, probe, loop, history, Strong, TypeOK
<1>2. CASE enter_private_mount_ns \/ build_global \/ Bail \/ zfs_mounts \/ SelectRoots \/ RetainZfs
  BY <1>2, FrontStrong
<1>3. CASE remount_rw_binds
  BY <1>3, RemountStrong
<1>4. CASE RetainWritable \/ ProbeNext \/ ProbeDone \/ Guard
  BY <1>4, BackStrong
<1>5. CASE (\E f \in DOMAIN groups : Dataset(f)) \/ Finish \/ \E d \in Paths : Vanish(d)
  BY <1>5, LoopStrong
<1> QED
  BY <1>1, <1>2, <1>3, <1>4, <1>5 DEF Next

LEMMA AlwaysStrong == Spec => []Strong
<1>1. Init => Strong
  BY InitStrong
<1>2. Strong /\ [Next]_vars => Strong'
  BY NextStrong
<1> QED
  BY <1>1, <1>2, PTL DEF Spec

\* Type correctness of a run, whatever mounts the host has and whichever
\* remounts and calls fail: remounts change flags only, and the loop is given
\* datasets of ZFS only.
THEOREM Typed == Spec => []TypeOK
<1>1. Strong => TypeOK
  BY DEF Strong
<1> QED
  BY <1>1, AlwaysStrong, PTL

-----------------------------------------------------------------------------
(* The host's mounts.                                                      *)

\* run is told of a private namespace only if the thread is in one whose
\* mounts do not propagate.
PrivateIsSlave == private_ns => ns = "slave"

LEMMA AlwaysPrivate == Spec => []PrivateIsSlave
<1>1. Init => PrivateIsSlave
  BY DEF Init, PrivateIsSlave
<1>2. PrivateIsSlave /\ [Next]_vars => PrivateIsSlave'
  <2> SUFFICES ASSUME PrivateIsSlave, [Next]_vars PROVE PrivateIsSlave'
    OBVIOUS
  <2>1. CASE enter_private_mount_ns
    BY <2>1 DEF enter_private_mount_ns, PrivateIsSlave
  <2>2. CASE UNCHANGED <<ns, private_ns>>
    BY <2>2 DEF PrivateIsSlave
  <2>3. enter_private_mount_ns \/ UNCHANGED <<ns, private_ns>>
    BY DEF Next, vars, world, build_global, Bail, zfs_mounts, SelectRoots, RetainZfs,
           remount_rw_binds, RetainWritable, ProbeNext, ProbeDone, Guard, Dataset, Finish, Vanish
  <2> QED
    BY <2>1, <2>2, <2>3
<1> QED
  BY <1>1, <1>2, PTL DEF Spec

\* "The host's mounts are not modified": by no step, whether the namespace
\* could be unshared and made a slave, in full, in part, or not at all.
THEOREM HostIsSafe == Spec => HostUntouched
<1>1. Strong /\ PrivateIsSlave /\ [Next]_vars => [host' = host]_vars
  <2> SUFFICES ASSUME Strong, PrivateIsSlave, [Next]_vars PROVE host' = host
    OBVIOUS
  <2>1. CASE remount_rw_binds
    <3>1. PICK hit : /\ host' = IF ns = "slave" THEN host ELSE RwOf(host, hit)
                     /\ ~MayRemount => hit = {}
      BY <2>1, Remounting
    <3>2. ns # "slave" => hit = {}
      BY <3>1 DEF PrivateIsSlave, MayRemount
    <3>3. host \in Seq(MountRec)
      BY DEF Strong, TypeOK
    <3>4. hit = {} => RwOf(host, hit) = host
      BY <3>3, RwKeeps
    <3> QED
      BY <3>1, <3>2, <3>4
  <2>2. remount_rw_binds \/ host' = host
    BY DEF Next, vars, world, enter_private_mount_ns, build_global, Bail, zfs_mounts, SelectRoots,
           RetainZfs, RetainWritable, ProbeNext, ProbeDone, Guard, Dataset, Finish, Vanish
  <2> QED
    BY <2>1, <2>2
<1> QED
  BY <1>1, AlwaysStrong, AlwaysPrivate, PTL DEF Spec, HostUntouched

-----------------------------------------------------------------------------
(* What is written.                                                        *)

\* Nothing is written before the probe of a run that is not dry, and the loop
\* is only reached past the guard.
Guarded == WritesAsAsked /\ (pc = "loop" => ~Refuse)

LEMMA NextGuarded ==
    ASSUME Guarded, [Next]_vars
    PROVE  Guarded'
<1>1. CASE ProbeNext
  <2>1. pc = "probe" /\ ~args.dry_run /\ UNCHANGED <<args, pc, scanned>>
    BY <1>1 DEF ProbeNext, Phase, given
  <2>2. \A s \in scanned : s.fideduperange \/ args.dry_run \/ args.force
    BY DEF Guarded, WritesAsAsked
  <2> QED
    BY <2>1, <2>2 DEF Guarded, WritesAsAsked
<1>2. CASE Guard
  <2>1. UNCHANGED <<args, answer, scanned, written>>
    BY <1>2 DEF Guard, given, probe, history
  <2>2. pc' = "loop" => ~Refuse
    BY <1>2 DEF Guard, Stop
  <2> QED
    BY <2>1, <2>2 DEF Guarded, WritesAsAsked, Refuse, fideduperange
<1>3. ASSUME NEW f \in DOMAIN groups, Dataset(f) PROVE Guarded'
  <2>1. pc = "loop" /\ UNCHANGED <<args, answer, pc>>
    BY <1>3 DEF Dataset, Phase, given, probe
  <2>2. ~Refuse /\ (args.dry_run \/ fideduperange \/ args.force)
    BY <2>1 DEF Guarded, Refuse
  <2>3. args.dry_run => written' = {}
    BY <1>3 DEF Dataset, Guarded, WritesAsAsked
  <2>4. \A s \in scanned' : s.fideduperange \/ args.dry_run \/ args.force
    <3>1. PICK c \in BOOLEAN :
             scanned' = scanned \cup {[fsid |-> f, dirs |-> groups[f], fideduperange |-> fideduperange,
                                       clean |-> c]}
      BY <1>3, ScannedOne
    <3>2. \A s \in scanned : s.fideduperange \/ args.dry_run \/ args.force
      BY DEF Guarded, WritesAsAsked
    <3> QED
      BY <2>2, <3>1, <3>2
  <2> QED
    BY <2>1, <2>2, <2>3, <2>4 DEF Guarded, WritesAsAsked, Refuse, fideduperange
<1>4. CASE ProbeDone
  <2>1. pc' = "guard" /\ UNCHANGED <<args, scanned, written>>
    BY <1>4, Proceeds DEF ProbeDone, Phase, given, history
  <2> QED
    BY <2>1 DEF Guarded, WritesAsAsked
<1>5. ASSUME UNCHANGED <<args, answer, scanned, written>>, pc' = "loop" => pc = "loop"
      PROVE  Guarded'
  BY <1>5 DEF Guarded, WritesAsAsked, Refuse, fideduperange
<1>6. CASE UNCHANGED vars
  BY <1>5, <1>6 DEF vars, given, probe, history
<1>7. CASE \/ enter_private_mount_ns \/ build_global \/ zfs_mounts \/ SelectRoots \/ RetainZfs
           \/ remount_rw_binds
  <2>1. pc' # "loop"
    BY <1>7, Proceeds DEF enter_private_mount_ns, build_global, zfs_mounts, SelectRoots,
                          RetainZfs, remount_rw_binds, Phase
  <2>2. UNCHANGED <<args, answer, scanned, written>>
    BY <1>7 DEF enter_private_mount_ns, build_global, zfs_mounts, SelectRoots, RetainZfs,
                remount_rw_binds, given, probe, history
  <2> QED
    BY <1>5, <2>1, <2>2
<1>8. CASE RetainWritable
  <2>1. pc' # "loop"
    BY <1>8, Proceeds DEF RetainWritable, Phase, Stop
  <2>2. UNCHANGED <<args, answer, scanned, written>>
    BY <1>8 DEF RetainWritable, given, probe, history
  <2> QED
    BY <1>5, <2>1, <2>2
<1>9. CASE Bail \/ Finish \/ \E d \in Paths : Vanish(d)
  <2>1. pc' = "loop" => pc = "loop"
    BY <1>9 DEF Bail, Finish, Stop, Vanish
  <2>2. UNCHANGED <<args, answer, scanned, written>>
    BY <1>9 DEF Bail, Finish, Vanish, given, probe, history
  <2> QED
    BY <1>5, <2>1, <2>2
<1> QED
  BY <1>1, <1>2, <1>3, <1>4, <1>6, <1>7, <1>8, <1>9 DEF Next

\* A dry run writes nothing, and no dataset is deduped without the kernel's own
\* comparison unless --force was given, whatever the probe met.
THEOREM WritesAsked == Spec => []WritesAsAsked
<1>1. Init => Guarded
  BY DEF Init, Order, Guarded, WritesAsAsked
<1>2. Guarded /\ [Next]_vars => Guarded'
  BY NextGuarded
<1>3. Guarded => WritesAsAsked
  BY DEF Guarded
<1> QED
  BY <1>1, <1>2, <1>3, PTL DEF Spec

-----------------------------------------------------------------------------
(* What the pool's threads see.                                            *)

\* The pool is built in the namespace that the main thread stays in.
Inherited ==
    /\ pc = "enter" => pool = "none"
    /\ pool \in {"none", ns}

SeesWritable == Inherited /\ RootsWritable

LEMMA NextSeesWritable ==
    ASSUME SeesWritable, [Next]_vars
    PROVE  SeesWritable'
<1> USE DEF world, given, probe, loop, history
<1>1. CASE enter_private_mount_ns
  <2>1. pc = "enter" /\ pc' = "pool"
    BY <1>1, Proceeds DEF enter_private_mount_ns, Phase
  <2>2. pool' = "none"
    BY <1>1, <2>1 DEF enter_private_mount_ns, SeesWritable, Inherited
  <2> QED
    BY <2>1, <2>2 DEF SeesWritable, Inherited, RootsWritable
<1>2. CASE build_global
  <2>1. pc' = "mounts" /\ pool' \in {pool, ns} /\ ns' = ns
    BY <1>2, Proceeds DEF build_global, Phase
  <2> QED
    BY <2>1 DEF SeesWritable, Inherited, RootsWritable
<1>3. CASE zfs_mounts \/ SelectRoots \/ RetainZfs \/ remount_rw_binds
  <2>1. pc' \in {"roots", "zfs", "remount", "writable"}
    BY <1>3, Proceeds DEF zfs_mounts, SelectRoots, RetainZfs, remount_rw_binds, Phase
  <2>2. UNCHANGED <<pool, ns>>
    BY <1>3 DEF zfs_mounts, SelectRoots, RetainZfs, remount_rw_binds
  <2> QED
    BY <2>1, <2>2 DEF SeesWritable, Inherited, RootsWritable
<1>4. CASE RetainWritable
  <2>1. pc' \in {"probe", "done"} /\ UNCHANGED <<world, pool, gone>>
    BY <1>4, Proceeds DEF RetainWritable, Phase, Stop
  <2>2. \A d \in dirs' \ gone : ~ReadOnly(mine, d)
    BY <1>4 DEF RetainWritable
  <2> QED
    BY <2>1, <2>2 DEF SeesWritable, Inherited, RootsWritable, ReadOnly, At, Shows
<1>5. ASSUME pc' = pc \/ pc' \in {"guard", "loop", "done"},
             pc' \in {"guard", "loop"} => pc \in {"probe", "guard", "loop"},
             UNCHANGED <<world, dirs>>,
             gone \subseteq gone',
             pool' = pool \/ (pool' = ns /\ pc # "enter")
      PROVE  SeesWritable'
  <2>1. Inherited'
    BY <1>5 DEF SeesWritable, Inherited
  <2>2. pool \in {"none", ns} /\ pool' \in {"none", ns'}
    BY <2>1 DEF SeesWritable, Inherited
  <2>3. pc' \in {"probe", "guard", "loop"} => \A d \in dirs' \ gone' : ~ReadOnly(mine, d)
    BY <1>5, <2>2 DEF SeesWritable, RootsWritable
  <2>4. \A d : ReadOnly(mine, d)' <=> ReadOnly(mine, d)
    BY <1>5 DEF ReadOnly, At, Shows
  <2> QED
    BY <2>1, <2>2, <2>3, <2>4, <1>5 DEF SeesWritable, RootsWritable
<1>6. CASE Bail \/ Finish
  BY <1>5, <1>6 DEF Bail, Finish, Stop
<1>7. CASE ProbeNext
  BY <1>5, <1>7 DEF ProbeNext, Phase
<1>8. CASE ProbeDone
  BY <1>5, <1>8, Proceeds DEF ProbeDone, Phase
<1>9. CASE Guard
  BY <1>5, <1>9, Proceeds DEF Guard, Phase, Stop
<1>10. ASSUME NEW f \in DOMAIN groups, Dataset(f) PROVE SeesWritable'
  BY <1>5, <1>10 DEF Dataset, Phase
<1>11. ASSUME NEW d \in Paths, Vanish(d) PROVE SeesWritable'
  BY <1>5, <1>11 DEF Vanish
<1>12. CASE UNCHANGED vars
  BY <1>5, <1>12 DEF vars
<1> QED
  BY <1>1, <1>2, <1>3, <1>4, <1>6, <1>7, <1>8, <1>9, <1>10, <1>11, <1>12 DEF Next

\* rayon's threads, whenever the pool is built, see each remaining root as
\* writable: they inherit the namespace in which the remounts were made.
THEOREM PoolSeesWritable == Spec => []RootsWritable
<1>1. Init => SeesWritable
  BY DEF Init, Order, SeesWritable, Inherited, RootsWritable
<1>2. SeesWritable /\ [Next]_vars => SeesWritable'
  BY NextSeesWritable
<1>3. SeesWritable => RootsWritable
  BY DEF SeesWritable
<1> QED
  BY <1>1, <1>2, <1>3, PTL DEF Spec

-----------------------------------------------------------------------------
(* The exit status.                                                        *)

\* As long as neither counter counts, no task has failed in any dataset.
Tallied ==
    /\ hash_errors \in Nat /\ errors \in Nat
    /\ hash_errors = 0 /\ errors = 0 => \A s \in scanned : s.clean

LEMMA NextTallied ==
    ASSUME Tallied, [Next]_vars
    PROVE  Tallied'
<1> USE DEF world, given, probe, loop, history
<1>1. ASSUME NEW f \in DOMAIN groups, Dataset(f) PROVE Tallied'
  <2> DEFINE new(h, e) == [fsid |-> f, dirs |-> groups[f], fideduperange |-> fideduperange,
                           clean |-> h = 0 /\ e = 0]
  <2>1. PICK h, e \in 0 .. 1 : /\ hash_errors' = hash_errors + h /\ errors' = errors + e
                               /\ scanned' = scanned \cup {new(h, e)}
    BY <1>1 DEF Dataset
  <2>2. new(h, e).clean = (h = 0 /\ e = 0)
    OBVIOUS
  <2> HIDE DEF new
  <2>3. hash_errors' = 0 /\ errors' = 0 => hash_errors = 0 /\ errors = 0 /\ h = 0 /\ e = 0
    BY <2>1 DEF Tallied
  <2>4. hash_errors' \in Nat /\ errors' \in Nat
    BY <2>1 DEF Tallied
  <2> QED
    BY <2>1, <2>2, <2>3, <2>4 DEF Tallied
<1>2. UNCHANGED <<hash_errors, errors, scanned>> => Tallied'
  BY DEF Tallied
<1>3. \/ \E f \in DOMAIN groups : Dataset(f)
      \/ UNCHANGED <<hash_errors, errors, scanned>>
  BY DEF Next, vars, enter_private_mount_ns, build_global, Bail, zfs_mounts, SelectRoots, RetainZfs,
         remount_rw_binds, RetainWritable, ProbeNext, ProbeDone, Guard, Finish, Vanish
<1> QED
  BY <1>1, <1>2, <1>3

LEMMA AlwaysTallied == Spec => []Tallied
<1>1. Init => Tallied
  BY DEF Init, Tallied
<1>2. Tallied /\ [Next]_vars => Tallied'
  BY NextTallied
<1> QED
  BY <1>1, <1>2, PTL DEF Spec

-----------------------------------------------------------------------------
(* Nothing is skipped.                                                     *)

\* Is the directory in the loop's hands?
Covered(d) ==
    \/ \E f \in DOMAIN groups : f = At(mine, d).fs /\ d \in groups[f]
    \/ \E s \in scanned : d \in s.dirs /\ s.fsid = At(mine, d).fs

\* What each phase leaves: the mounts of all whole datasets, the wanted roots,
\* those that could be made writable, and groups in which each of them is.
Kept ==
    /\ Alike(mine, host)
    /\ \A k \in DOMAIN mine : mine[k].ro => host[k].ro
    /\ pc \in {"roots", "zfs", "remount", "writable", "probe", "guard", "loop"} =>
           \A k \in DOMAIN mine : mine[k].whole /\ mine[k].fs \in Cloneable => mine[k].point \in mounts
    /\ pc \in {"zfs", "remount", "writable"} =>
           \A d \in Paths \ gone : Wanted(d) /\ At(mine, d).fs \in Zfs => d \in dirs
    /\ pc = "writable" =>
           \A d \in dirs : Possible(d) => ~At(mine, d).ro
    /\ pc \in {"probe", "guard"} =>
           \A d \in Paths \ gone : Wanted(d) /\ Possible(d) => d \in dirs
    /\ pc = "loop" =>
           \A d \in Paths \ gone : Wanted(d) /\ Possible(d) => Covered(d)
    /\ exit # "none" => pc = "done"
    /\ EveryDatasetScanned

\* What is wanted and possible depends on the tables, the arguments and the
\* failed remounts only.
LEMMA SameWorld ==
    ASSUME UNCHANGED <<mine, host, args, private_ns, refused>>
    PROVE  /\ Alike(mine, host)' <=> Alike(mine, host)
           /\ \A d : At(mine, d)' = At(mine, d) /\ Shows(mine, d)' = Shows(mine, d)
           /\ \A d : Wanted(d)' <=> Wanted(d)
           /\ \A d : Possible(d)' <=> Possible(d)
<1>1. \A d : At(mine, d)' = At(mine, d) /\ Shows(mine, d)' = Shows(mine, d) /\ At(host, d)' = At(host, d)
  BY DEF At, Shows
<1>2. ASSUME NEW d PROVE Wanted(d)' <=> Wanted(d)
  BY <1>1 DEF Wanted
<1>3. ASSUME NEW d PROVE Possible(d)' <=> Possible(d)
  BY <1>1 DEF Possible
<1> QED
  BY <1>1, <1>2, <1>3 DEF Alike

\* The remounts open every wanted root that they may open.
LEMMA RemountKept ==
    ASSUME Strong, Kept, remount_rw_binds
    PROVE  Kept'
<1>1. PICK hit : /\ mine' = RwOf(mine, hit)
                 /\ host' = IF ns = "slave" THEN host ELSE RwOf(host, hit)
                 /\ refused' = { k \in DOMAIN mine : Remountable(k) } \ hit
  BY Remounting
<1>2. pc = "remount" /\ pc' = "writable"
      /\ UNCHANGED <<private_ns, args, gone, mounts, dirs, exit>>
  BY Proceeds DEF remount_rw_binds, Phase, given
<1>3. mine \in Seq(MountRec) /\ host \in Seq(MountRec) /\ Rooted(mine) /\ Alike(mine, host)
  BY DEF Strong, TypeOK, Kept
<1>4. Alike(mine, mine') /\ Alike(host, host') /\ Rooted(mine')
  <2>1. Alike(host, host)
    BY DEF Alike
  <2> QED
    BY <1>1, <1>3, <2>1, RwKeeps
<1>5. Alike(mine', host') /\ DOMAIN mine' = DOMAIN mine /\ DOMAIN host = DOMAIN mine
  <2> DEFINE m2 == mine'
             h2 == host'
  <2>1. Alike(mine, m2) /\ Alike(host, h2) /\ Alike(mine, host)
    BY <1>3, <1>4
  <2> HIDE DEF m2, h2
  <2>2. DOMAIN m2 = DOMAIN mine /\ DOMAIN h2 = DOMAIN mine /\ DOMAIN host = DOMAIN mine
    BY <2>1 DEF Alike
  <2>3. Alike(m2, h2)
    BY <2>1, <2>2 DEF Alike
  <2> QED
    BY <2>2, <2>3 DEF m2, h2
<1>6. ASSUME NEW k \in DOMAIN mine
      PROVE  /\ mine'[k].ro <=> mine[k].ro /\ k \notin hit
             /\ host'[k].ro => host[k].ro
             /\ host[k].ro /\ k \notin hit => host'[k].ro
             /\ mine[k].ro => host[k].ro
  <2>1. mine'[k].ro <=> mine[k].ro /\ k \notin hit
    BY <1>1, <1>3, RwKeeps
  <2>2. RwOf(host, hit)[k].ro <=> host[k].ro /\ k \notin hit
    BY <1>3, <1>5, RwKeeps
  <2>3. mine[k].ro => host[k].ro
    BY DEF Kept
  <2> QED
    BY <1>1, <2>1, <2>2, <2>3
<1>7. \A k \in DOMAIN mine' : mine'[k].ro => host'[k].ro
  BY <1>5, <1>6, <1>1
<1>8. ASSUME NEW d \in Paths
      PROVE  Wanted(d)' => Wanted(d) /\ At(mine', d).fs = At(mine, d).fs
  <2>1. Shows(mine', d) = Shows(mine, d) /\ At(mine', d).fs = At(mine, d).fs
    BY <1>3, <1>4, AlikeShow
  <2>2. \A k \in DOMAIN mine : mine'[k].point = mine[k].point /\ mine'[k].whole = mine[k].whole
    BY <1>4 DEF Alike
  <2>3. args' = args
    BY <1>2
  <2> QED
    BY <1>5, <2>1, <2>2, <2>3 DEF Wanted
<1>9. ASSUME NEW d \in dirs, Possible(d)' PROVE ~At(mine', d).ro
  <2> DEFINE k == Shows(mine, d)
  <2>1. d \in Paths
    BY DEF Strong, TypeOK
  <2>2. k \in DOMAIN mine /\ Below(d, mine[k].point)
    BY <1>3, <2>1, ShowsAMount
  <2>3. Shows(mine', d) = k /\ Shows(host', d) = k
    BY <1>3, <1>4, <1>5, <2>1, AlikeShow
  <2>4. mine'[k].fs \in Zfs /\ mine'[k].super_rw /\ (host'[k].ro => k \notin refused')
    BY <1>9, <2>3 DEF Possible, At
  <2>5. mine[k].fs \in Zfs /\ mine[k].super_rw
    BY <1>4, <2>2, <2>4 DEF Alike
  <2>6. mine[k].ro => Remountable(k)
    BY <2>2, <2>5 DEF Remountable
  <2>7. ~mine'[k].ro
    BY <1>1, <1>6, <2>2, <2>4, <2>6
  <2> QED
    BY <2>3, <2>7 DEF At
<1>10. \A k \in DOMAIN mine' : mine'[k].whole /\ mine'[k].fs \in Cloneable => mine'[k].point \in mounts'
  BY <1>2, <1>4, <1>5 DEF Kept, Alike
<1>11. \A d \in Paths \ gone' : Wanted(d)' /\ At(mine', d).fs \in Zfs => d \in dirs'
  <2>1. \A d \in Paths \ gone : Wanted(d) /\ At(mine, d).fs \in Zfs => d \in dirs
    BY <1>2 DEF Kept
  <2> QED
    BY <1>2, <1>8, <2>1
<1>12. exit' = "none"
  BY <1>2 DEF Kept, Strong, TypeOK
<1> QED
  BY <1>2, <1>5, <1>7, <1>9, <1>10, <1>11, <1>12 DEF Kept, EveryDatasetScanned

\* The phases before the remounts collect every wanted root.
LEMMA CollectKept ==
    ASSUME Strong, Kept,
           enter_private_mount_ns \/ build_global \/ zfs_mounts \/ SelectRoots \/ RetainZfs
    PROVE  Kept'
<1> USE DEF world, given, probe, loop, history
<1>1. pc \in {"enter", "pool", "mounts", "roots", "zfs"} /\ exit' = exit /\ exit = "none"
  BY DEF enter_private_mount_ns, build_global, zfs_mounts, SelectRoots, RetainZfs, Phase,
         Kept, Strong, TypeOK
<1>2. UNCHANGED <<mine, host, args, gone, refused>>
  BY DEF enter_private_mount_ns, build_global, zfs_mounts, SelectRoots, RetainZfs
<1>3. Alike(mine', host') /\ \A k \in DOMAIN mine' : mine'[k].ro => host'[k].ro
  BY <1>2 DEF Kept, Alike
<1>4. EveryDatasetScanned'
  BY <1>1 DEF EveryDatasetScanned
<1>5. CASE enter_private_mount_ns \/ build_global
  <2>1. pc' \in {"pool", "mounts"}
    BY <1>5, Proceeds DEF enter_private_mount_ns, build_global, Phase
  <2> QED
    BY <1>1, <1>3, <1>4, <2>1 DEF Kept
<1>6. CASE zfs_mounts
  <2>1. pc' = "roots"
    BY <1>6, Proceeds DEF zfs_mounts, Phase
  <2>2. \A k \in DOMAIN mine : mine[k].whole /\ mine[k].fs \in Cloneable => mine[k].point \in mounts'
    BY <1>6 DEF zfs_mounts
  <2> QED
    BY <1>1, <1>2, <1>3, <1>4, <2>1, <2>2 DEF Kept
<1>7. CASE SelectRoots
  <2>1. pc = "roots" /\ pc' = "zfs" /\ UNCHANGED <<private_ns, mounts>> /\ dirs' = RootsOf
    BY <1>7, Proceeds DEF SelectRoots, Phase
  <2>2. \A k \in DOMAIN mine : mine[k].whole /\ mine[k].fs \in Cloneable => mine[k].point \in mounts
    BY <2>1 DEF Kept
  <2>3. ASSUME NEW d \in Paths, Wanted(d) PROVE d \in RootsOf
    <3>1. CASE d \in args.dirs
      BY <3>1 DEF RootsOf
    <3>2. CASE d \notin args.dirs
      <4>1. d \in mounts
        BY <2>2, <2>3, <3>2 DEF Wanted, At
      <4> QED
        BY <2>3, <3>2, <4>1 DEF Wanted, RootsOf
    <3> QED
      BY <3>1, <3>2
  <2> QED
    BY <1>1, <1>2, <1>3, <1>4, <2>1, <2>2, <2>3, SameWorld DEF Kept
<1>8. CASE RetainZfs
  <2>1. pc = "zfs" /\ pc' = "remount" /\ UNCHANGED <<private_ns, mounts>>
        /\ dirs' = { d \in dirs \ gone : At(mine, d).fs \in Zfs }
    BY <1>8, Proceeds DEF RetainZfs, Phase
  <2>2. \A d \in Paths \ gone : Wanted(d) /\ At(mine, d).fs \in Zfs => d \in dirs'
    BY <2>1 DEF Kept
  <2>3. \A k \in DOMAIN mine : mine[k].whole /\ mine[k].fs \in Cloneable => mine[k].point \in mounts
    BY <2>1 DEF Kept
  <2> QED
    BY <1>1, <1>2, <1>3, <1>4, <2>1, <2>2, <2>3, SameWorld DEF Kept
<1> QED
  BY <1>5, <1>6, <1>7, <1>8

\* From the remounts on, the tables stay, and no wanted root is lost on the way
\* into the groups.
LEMMA GroupKept ==
    ASSUME Strong, Kept, Bail \/ RetainWritable \/ ProbeNext \/ ProbeDone \/ Guard
    PROVE  Kept'
<1> USE DEF world, given, probe, loop, history
<1>1. exit = "none" /\ exit' \in {"none", "FAILURE"} /\ (exit' = "FAILURE" => pc' = "done")
  BY DEF Bail, RetainWritable, ProbeNext, ProbeDone, Guard, Phase, Stop, Kept, Strong, TypeOK
<1>2. UNCHANGED <<mine, host, args, private_ns, gone, refused, mounts>>
  BY DEF Bail, RetainWritable, ProbeNext, ProbeDone, Guard
<1>3. Alike(mine', host') /\ \A k \in DOMAIN mine' : mine'[k].ro => host'[k].ro
  BY <1>2 DEF Kept, Alike
<1>4. EveryDatasetScanned'
  BY <1>1 DEF EveryDatasetScanned
<1>5. exit' # "none" => pc' = "done"
  BY <1>1
<1>6. CASE pc' = "done"
  BY <1>3, <1>4, <1>5, <1>6 DEF Kept
<1>7. ASSUME pc \in {"writable", "probe", "guard"} PROVE
      \A k \in DOMAIN mine' : mine'[k].whole /\ mine'[k].fs \in Cloneable => mine'[k].point \in mounts'
  BY <1>2, <1>7 DEF Kept
<1>8. CASE RetainWritable /\ pc' # "done"
  <2>1. pc = "writable" /\ pc' = "probe" /\ dirs' = { d \in dirs : d \in gone \/ ~ReadOnly(mine, d) }
    BY <1>8, Proceeds DEF RetainWritable, Phase, Stop
  <2>2. ASSUME NEW d \in Paths \ gone, Wanted(d), Possible(d) PROVE d \in dirs'
    <3>1. d \in dirs
      BY <2>1, <2>2 DEF Kept, Possible
    <3>2. ~At(mine, d).ro /\ At(mine, d).super_rw
      BY <2>1, <2>2, <3>1 DEF Kept, Possible
    <3> QED
      BY <2>1, <3>1, <3>2 DEF ReadOnly
  <2> QED
    BY <1>2, <1>3, <1>4, <1>5, <1>7, <2>1, <2>2, SameWorld DEF Kept
<1>9. CASE ProbeNext
  <2>1. pc = "probe" /\ pc' = "probe" /\ dirs' = dirs
    BY <1>9 DEF ProbeNext, Phase
  <2> QED
    BY <1>2, <1>3, <1>4, <1>5, <1>7, <2>1, SameWorld DEF Kept
<1>10. CASE ProbeDone
  <2>1. pc = "probe" /\ pc' = "guard" /\ dirs' = dirs
    BY <1>10, Proceeds DEF ProbeDone, Phase
  <2> QED
    BY <1>2, <1>3, <1>4, <1>5, <1>7, <2>1, SameWorld DEF Kept
<1>11. CASE Guard /\ pc' # "done"
  <2>1. /\ pc = "guard" /\ pc' = "loop"
        /\ groups' = [f \in FsidsOf(dirs \ gone) |-> { d \in dirs \ gone : At(mine, d).fs = f }]
        /\ scanned' = scanned
    BY <1>11, Proceeds DEF Guard, Phase, Stop
  <2>2. ASSUME NEW d \in Paths \ gone, Wanted(d), Possible(d) PROVE Covered(d)'
    <3>1. d \in dirs \ gone
      BY <2>1, <2>2 DEF Kept
    <3>2. At(mine, d) = At(mine, d)'
      BY <1>2, SameWorld
    <3>3. At(mine, d).fs \in DOMAIN groups' /\ d \in groups'[At(mine, d).fs]
      BY <2>1, <3>1 DEF FsidsOf
    <3> QED
      BY <3>2, <3>3 DEF Covered
  <2> QED
    BY <1>2, <1>3, <1>4, <1>5, <1>7, <2>1, <2>2, SameWorld DEF Kept
<1>12. Bail => pc' = "done"
  BY DEF Bail, Stop
<1> QED
  BY <1>6, <1>8, <1>9, <1>10, <1>11, <1>12

\* The loop takes a group only to scan it, and ends when there is none.
LEMMA LoopKept ==
    ASSUME Strong, Kept, Tallied, (\E f \in DOMAIN groups : Dataset(f)) \/ Finish \/ \E d \in Paths : Vanish(d)
    PROVE  Kept'
<1> USE DEF world, given, probe, loop, history
<1>1. UNCHANGED <<mine, host, args, private_ns, refused, mounts, dirs>> /\ gone \subseteq gone'
  BY DEF Dataset, Finish, Vanish
<1>2. pc # "done" /\ exit = "none"
  BY DEF Dataset, Finish, Vanish, Phase, Kept, Strong, TypeOK
<1>3. Alike(mine', host') /\ \A k \in DOMAIN mine' : mine'[k].ro => host'[k].ro
  BY <1>1 DEF Kept, Alike
<1>4. ASSUME NEW f \in DOMAIN groups, Dataset(f) PROVE Kept'
  <2>0. PICK c \in BOOLEAN :
           scanned' = scanned \cup {[fsid |-> f, dirs |-> groups[f], fideduperange |-> fideduperange,
                                     clean |-> c]}
    BY <1>4, ScannedOne
  <2>1. /\ pc = "loop" /\ pc' = "loop" /\ gone' = gone /\ exit' = exit
        /\ groups' = [g \in DOMAIN groups \ {f} |-> groups[g]]
    BY <1>4 DEF Dataset, Phase
  <2>2. ASSUME NEW d, Covered(d) PROVE Covered(d)'
    <3>1. At(mine, d)' = At(mine, d)
      BY <1>1, SameWorld
    <3>2. CASE \E s \in scanned : d \in s.dirs /\ s.fsid = At(mine, d).fs
      BY <2>0, <3>1, <3>2 DEF Covered
    <3>3. ASSUME NEW g \in DOMAIN groups, g = At(mine, d).fs, d \in groups[g] PROVE Covered(d)'
      <4>1. CASE g = f
        <5> DEFINE s == [fsid |-> f, dirs |-> groups[f], fideduperange |-> fideduperange,
                         clean |-> c]
        <5>1. s \in scanned'
          BY <2>0
        <5>2. d \in s.dirs /\ s.fsid = At(mine, d)'.fs
          BY <3>1, <3>3, <4>1
        <5> QED
          BY <5>1, <5>2 DEF Covered
      <4>2. CASE g # f
        BY <2>1, <3>1, <3>3, <4>2 DEF Covered
      <4> QED
        BY <4>1, <4>2
    <3> QED
      BY <2>2, <3>2, <3>3 DEF Covered
  <2>3. \A k \in DOMAIN mine' : mine'[k].whole /\ mine'[k].fs \in Cloneable => mine'[k].point \in mounts'
    BY <1>1, <2>1 DEF Kept
  <2>4. \A d \in Paths \ gone' : Wanted(d)' /\ Possible(d)' => Covered(d)'
    BY <1>1, <2>1, <2>2, SameWorld DEF Kept
  <2> QED
    BY <1>2, <1>3, <2>1, <2>3, <2>4 DEF Kept, EveryDatasetScanned
<1>5. CASE Finish
  <2>1. pc = "loop" /\ DOMAIN groups = {} /\ pc' = "done" /\ gone' = gone /\ scanned' = scanned
    BY <1>5 DEF Finish, Phase, Stop
  <2>4. exit' = "SUCCESS" => \A s \in scanned : s.clean
    BY <1>5 DEF Finish, Stop, Tallied
  <2>2. ASSUME exit' = "SUCCESS", NEW d \in Paths \ gone, Wanted(d)', Possible(d)'
        PROVE  \E s \in scanned' : d \in s.dirs /\ s.fsid = At(mine, d)'.fs /\ s.clean
    <3>1. Covered(d)
      BY <1>1, <2>1, <2>2, SameWorld DEF Kept
    <3>2. At(mine, d)' = At(mine, d)
      BY <1>1, SameWorld
    <3> QED
      BY <2>1, <2>2, <2>4, <3>1, <3>2 DEF Covered
  <2>3. EveryDatasetScanned'
    BY <2>1, <2>2, <1>1 DEF EveryDatasetScanned
  <2> QED
    BY <1>3, <2>1, <2>3 DEF Kept
<1>6. ASSUME NEW v \in Paths, Vanish(v) PROVE Kept'
  <2>1. UNCHANGED <<pc, exit, groups, scanned>>
    BY <1>6 DEF Vanish
  <2>2. \A d : At(mine, d)' = At(mine, d) /\ (Wanted(d)' <=> Wanted(d)) /\ (Possible(d)' <=> Possible(d))
    BY <1>1, SameWorld
  <2>3. \A d : Covered(d)' <=> Covered(d)
    BY <2>1, <2>2 DEF Covered
  <2>4. EveryDatasetScanned'
    BY <1>2, <2>1 DEF EveryDatasetScanned
  <2> QED
    BY <1>1, <1>2, <1>3, <2>1, <2>2, <2>3, <2>4 DEF Kept
<1> QED
  BY <1>4, <1>5, <1>6

LEMMA NextKept ==
    ASSUME Strong, Kept, Tallied, [Next]_vars
    PROVE  Kept'
<1>1. CASE UNCHANGED vars
  <2>1. /\ UNCHANGED <<mine, host, args, private_ns, refused, gone, pc, exit, mounts, dirs>>
        /\ UNCHANGED <<groups, scanned>>
    BY <1>1 DEF vars, world, given, loop, history
  <2>2. \A d : At(mine, d)' = At(mine, d) /\ (Wanted(d)' <=> Wanted(d)) /\ (Possible(d)' <=> Possible(d))
    BY <2>1, SameWorld
  <2>3. \A d : Covered(d)' <=> Covered(d)
    BY <2>1, <2>2 DEF Covered
  <2>4. EveryDatasetScanned'
    BY <2>1, <2>2 DEF Kept, EveryDatasetScanned
  <2>5. Alike(mine, host)'
    BY <2>1 DEF Kept, Alike
  <2> QED
    BY <2>1, <2>2, <2>3, <2>4, <2>5 DEF Kept
<1>2. CASE enter_private_mount_ns \/ build_global \/ zfs_mounts \/ SelectRoots \/ RetainZfs
  BY <1>2, CollectKept
<1>3. CASE remount_rw_binds
  BY <1>3, RemountKept
<1>4. CASE Bail \/ RetainWritable \/ ProbeNext \/ ProbeDone \/ Guard
  BY <1>4, GroupKept
<1>5. CASE (\E f \in DOMAIN groups : Dataset(f)) \/ Finish \/ \E d \in Paths : Vanish(d)
  BY <1>5, LoopKept
<1> QED
  BY <1>1, <1>2, <1>3, <1>4, <1>5 DEF Next

\* A run that succeeds has scanned the given directories and every whole
\* dataset at or below them, each under its own fsid, whatever is mounted
\* where, except for what cannot be made writable, and no task failed in any of
\* them: neither counter forgets the datasets before the last.
THEOREM NothingSkipped == Spec => []EveryDatasetScanned
<1>1. Init => Kept
  BY DEF Init, Order, Kept, Alike, EveryDatasetScanned
<1>2. Kept /\ Strong /\ Tallied /\ [Next]_vars => Kept'
  BY NextKept
<1>3. Kept => EveryDatasetScanned
  BY DEF Kept
<1> QED
  BY <1>1, <1>2, <1>3, AlwaysStrong, AlwaysTallied, PTL DEF Spec
=============================================================================
