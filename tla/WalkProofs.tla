----------------------------- MODULE WalkProofs -----------------------------
(***************************************************************************)
(* Proofs about Walk for any number of workers, any capacity, any file     *)
(* system and any number of user operations and failures.                  *)
(***************************************************************************)
EXTENDS Walk, FiniteSetTheorems, WellFoundedInduction, TLAPS

-----------------------------------------------------------------------------
(* Types.                                                                  *)

\* A covered inode shows an inode, and so does a name in a directory, if any.
LEMMA ChildType ==
    ASSUME KernelOK, NEW i, NEW n
    PROVE  Child(ents, mounts, i, n) \in Inodes \cup {Nil}
<1>1. ASSUME i \in DirInodes, n \in DOMAIN ents[i] PROVE Top(mounts, ents[i][n]) \in Inodes
  <2>1. ents[i][n] \in Inodes
    BY <1>1 DEF KernelOK, Tree
  <2> QED
    BY <2>1 DEF KernelOK, Top
<1> QED
  BY <1>1 DEF Child

\* st_nlink is a number: there are finitely many names.
LEMMA NLinkType ==
    ASSUME NEW i
    PROVE  NLink(i) \in Nat
<1>1. IsFiniteSet(DirInodes)
  BY FS_Subset, WalkAssumption DEF Inodes
<1>2. IsFiniteSet(DirInodes \X Names)
  BY <1>1, FS_Product, WalkAssumption
<1>3. IsFiniteSet({ e \in DirInodes \X Names : e[2] \in DOMAIN ents[e[1]] /\ ents[e[1]][e[2]] = i })
  BY <1>2, FS_Subset
<1> QED
  BY <1>3, FS_CardinalityType DEF NLink

\* The device of an inode is one that statvfs knows.
LEMMA DevType ==
    ASSUME NEW i \in Inodes
    PROVE  Dev(i) \in DOMAIN Fsid
BY WalkAssumption DEF Dev

\* The initial state has its types.
LEMMA InitTyped == Init => TypeOK
<1> SUFFICES ASSUME Init PROVE TypeOK
  OBVIOUS
<1>1. Len(Roots) \in Nat /\ Len(Roots) >= 1
  BY WalkAssumption
<1>2. \A w \in Jobs : job[w] = Idle
  BY DEF Init
<1>3. job \in [Jobs -> Job]
  <2> Idle \in Job
    BY DEF Idle, Job
  <2> QED
    BY DEF Init
<1>4. KernelOK
  BY WalkAssumption DEF Init, KernelOK
<1>5. open = FALSE /\ chan = <<>> /\ dev = Nil /\ fsid = Nil /\ root = 1 /\ queue = {} /\ seen = {} /\ out = {}
  BY DEF Init
<1>6. Len(chan) <= Capacity /\ chan \in Seq([dir : Seq(Names), files : SUBSET File])
  BY <1>5, WalkAssumption
<1>7. root \in 1 .. Len(Roots) + 1 /\ ~(root > Len(Roots))
  BY <1>1, <1>5
<1> QED
  BY <1>2, <1>3, <1>4, <1>5, <1>6, <1>7 DEF TypeOK

\* Users touch inodes, and none of the walk's own state.
LEMMA UsersAct ==
    ASSUME UserStep
    PROVE  \E S : UserActs(S)
<1>1. ASSUME NEW d, NEW n, Unlink(d, n) PROVE \E S : UserActs(S)
  BY <1>1 DEF Unlink
<1>2. ASSUME NEW d, NEW n, NEW d2, NEW n2, Rename(d, n, d2, n2) \/ Link(d, n, d2, n2)
      PROVE  \E S : UserActs(S)
  BY <1>2 DEF Rename, Link
<1>3. ASSUME NEW i, NEW m, Mount(i, m) PROVE \E S : UserActs(S)
  BY <1>3 DEF Mount
<1>4. ASSUME NEW i, Umount(i) PROVE \E S : UserActs(S)
  BY <1>4 DEF Umount
<1> QED
  BY <1>1, <1>2, <1>3, <1>4 DEF UserStep

\* What the steps of users keep.
LEMMA UsersTyped ==
    ASSUME TypeOK, UserStep
    PROVE  TypeOK'
<1> USE WalkAssumption
<1>0. \E S : UserActs(S)
  BY UsersAct
<1>1. UNCHANGED <<faults, root, dev, fsid, queue, job, chan, open, seen, out>>
  BY <1>0 DEF UserActs
<1>2. userOps' \in Nat
  BY DEF UserStep, TypeOK, KernelOK
<1>3. ASSUME NEW d \in DirInodes, NEW n \in Used(d) PROVE ents[d][n] \in Inodes
  BY <1>3 DEF TypeOK, KernelOK, Tree, Used
<1>4. ASSUME NEW d \in DirInodes, NEW n PROVE Tree(Without(d, n))
  BY DEF TypeOK, KernelOK, Tree, Without
<1>5. ASSUME NEW t, Tree(t), NEW d \in DirInodes, NEW n \in Names, NEW i \in Inodes
      PROVE  Tree(With(t, d, n, i))
  BY <1>5 DEF Tree, With
<1>6. NewNames \subseteq Names
  BY DEF Names
<1>7. KernelOK'
  <2>1. ASSUME NEW d \in DirInodes, NEW n \in Used(d), Unlink(d, n) PROVE KernelOK'
    BY <2>1, <1>2, <1>3, <1>4 DEF Unlink, UserActs, TypeOK, KernelOK
  <2>2. ASSUME NEW d \in DirInodes, NEW n \in Used(d), NEW d2 \in DirInodes, NEW n2 \in NewNames,
               Rename(d, n, d2, n2)
        PROVE  KernelOK'
    <3>1. Tree(ents')
      BY <2>2, <1>3, <1>4, <1>5, <1>6 DEF Rename
    <3> QED
      BY <2>2, <3>1, <1>2, <1>3 DEF Rename, UserActs, TypeOK, KernelOK
  <2>3. ASSUME NEW d \in DirInodes, NEW n \in Used(d), NEW d2 \in DirInodes, NEW n2 \in NewNames,
               Link(d, n, d2, n2)
        PROVE  KernelOK'
    <3>1. Tree(ents)
      BY DEF TypeOK, KernelOK
    <3>2. Tree(ents')
      BY <2>3, <3>1, <1>3, <1>5, <1>6 DEF Link
    <3> QED
      BY <2>3, <3>2, <1>2, <1>3 DEF Link, UserActs, TypeOK, KernelOK
  <2>4. ASSUME NEW p \in NewMounts, Mount(p[1], p[2]) PROVE KernelOK'
    <3>1. p[1] \in Inodes /\ p[2] \in Inodes
      OBVIOUS
    <3> QED
      BY <2>4, <3>1, <1>2 DEF Mount, UserActs, TypeOK, KernelOK
  <2>5. ASSUME NEW i \in DOMAIN mounts, Umount(i) PROVE KernelOK'
    <3>1. i \in Inodes /\ mounts[i] \in Inodes
      BY DEF TypeOK, KernelOK
    <3> QED
      BY <2>5, <3>1, <1>2 DEF Umount, UserActs, TypeOK, KernelOK
  <2> QED
    BY <2>1, <2>2, <2>3, <2>4, <2>5 DEF UserStep
<1> QED
  BY <1>1, <1>7 DEF TypeOK, Idle

\* What a failing call leaves of the kernel's part of the state.
LEMMA FaultTyped ==
    ASSUME TypeOK, NEW i, Fault(i)
    PROVE  KernelOK'
BY DEF Fault, TypeOK, KernelOK

\* What readdir reports.
LEMMA ListingType ==
    ASSUME NEW d
    PROVE  Listing(d) \subseteq Entry
<1> SUFFICES ASSUME NEW n \in Names PROVE [name |-> n, isDir |-> ents[d][n] \in DirInodes] \in Entry
  BY DEF Listing, Used
<1> DEFINE b == ents[d][n] \in DirInodes
<1>1. b \in BOOLEAN
  OBVIOUS
<1> HIDE DEF b
<1>2. [name |-> n, isDir |-> b] \in Entry
  BY <1>1 DEF Entry
<1> QED
  BY <1>2 DEF b

\* A worker that gets a new record keeps the types.
LEMMA JobTyped ==
    ASSUME TypeOK, NEW w \in Jobs, NEW j, job' = [job EXCEPT ![w] = j],
           j \in Job, j = Idle \/ (j.pc = "read" /\ j.dir \in DirInodes)
    PROVE  /\ job' \in [Jobs -> Job]
           /\ \A v \in Jobs : job'[v] = Idle \/ (job'[v].pc = "read" /\ job'[v].dir \in DirInodes)
           /\ \A v \in Jobs \ {w} : job'[v] = job[v]
BY DEF TypeOK

\* A worker that reads a directory implies that there is a sender and a device.
LEMMA ReadingIsOpen ==
    ASSUME TypeOK
    PROVE  /\ queue # {} => open /\ fsid # Nil
           /\ \A w \in Jobs : job[w].pc # "idle" => open /\ fsid # Nil
BY DEF TypeOK, Idle

\* The paths that walk_dir makes.
LEMMA SubPath ==
    ASSUME NEW p \in Seq(Names), NEW n \in Names
    PROVE  Append(p, n) \in Seq(Names)
OBVIOUS

\* The directories that workers open, and what they examine.
LEMMA WorkersTyped ==
    ASSUME TypeOK, NEW w \in Jobs, WorkerStep(w)
    PROVE  TypeOK'
<1> USE WalkAssumption
<1> job[w] \in Job /\ open \in BOOLEAN
  BY DEF TypeOK
<1>1. ASSUME NEW path \in queue, ReadDir(w, path) PROVE TypeOK'
  <2>1. open /\ fsid # Nil
    BY ReadingIsOpen
  <2>2. path \in Seq(Names) /\ queue' \subseteq Seq(Names)
    BY <1>1 DEF ReadDir, TypeOK
  <2> DEFINE d == At(path)
             j == [Idle EXCEPT !.pc = "read", !.path = path, !.dir = d, !.left = Listing(d)]
  <2>3. ASSUME d \in DirInodes PROVE j \in Job /\ j.pc = "read" /\ j.dir \in DirInodes
    <3>1. Listing(d) \subseteq Entry
      BY ListingType
    <3> HIDE DEF d
    <3> QED
      BY <2>2, <2>3, <3>1 DEF Idle, Job
  <2>4. /\ job' \in [Jobs -> Job]
        /\ \A v \in Jobs : job'[v] = Idle \/ (job'[v].pc = "read" /\ job'[v].dir \in DirInodes)
    <3>1. CASE d \notin DirInodes
      BY <1>1, <3>1 DEF ReadDir, TypeOK
    <3>2. CASE d \in DirInodes
      <4>1. job' = [job EXCEPT ![w] = j]
        BY <1>1, <3>2 DEF ReadDir
      <4> HIDE DEF j, d
      <4> QED
        BY <4>1, <2>3, <3>2, JobTyped
    <3> QED
      BY <3>1, <3>2
  <2>5. UNCHANGED <<kernel, root, dev, fsid, chan, open, seen, out>>
    BY <1>1 DEF ReadDir
  <2> HIDE DEF d, j
  <2> QED
    BY <2>1, <2>2, <2>4, <2>5 DEF TypeOK, KernelOK, kernel
<1>2. ASSUME NEW e \in job[w].left, Examine(w, e) PROVE TypeOK'
  <2> DEFINE i == Child(ents, mounts, job[w].dir, e.name)
             f == [name |-> e.name, ino |-> i, nlink |-> NLink(i)]
             j == [job[w] EXCEPT !.left = @ \ {e},
                                 !.batch = IF i \in Inodes /\ ~e.isDir THEN @ \cup {f} ELSE @]
  <2>1. job[w].pc = "read" /\ e.name \in Names
    BY <1>2 DEF Examine, Job, Entry
  <2>2. open /\ fsid # Nil
    BY <2>1, ReadingIsOpen
  <2>3. job[w].dir \in DirInodes
    BY <2>1 DEF TypeOK, Idle
  <2>4. job' = [job EXCEPT ![w] = j]
    BY <1>2 DEF Examine
  <2>5. i \in Inodes => f \in File
    <3>1. NLink(i) \in Nat
      BY NLinkType
    <3> HIDE DEF i
    <3> QED
      BY <2>1, <3>1 DEF File
  <2>6. j \in Job /\ j.pc = "read" /\ j.dir \in DirInodes
    <3> HIDE DEF i, f
    <3> QED
      BY <2>1, <2>3, <2>5 DEF Job
  <2>7. queue' \subseteq Seq(Names)
    <3>1. Append(job[w].path, e.name) \in Seq(Names)
      BY <2>1, SubPath DEF Job
    <3>2. queue' \subseteq queue \cup {Append(job[w].path, e.name)}
      BY <1>2 DEF Examine
    <3> QED
      BY <3>1, <3>2 DEF TypeOK
  <2>8. UNCHANGED <<kernel, root, dev, fsid, chan, open, seen, out>>
    BY <1>2 DEF Examine
  <2>9. /\ job' \in [Jobs -> Job]
        /\ \A v \in Jobs : job'[v] = Idle \/ (job'[v].pc = "read" /\ job'[v].dir \in DirInodes)
    <3> HIDE DEF j
    <3> QED
      BY <2>4, <2>6, JobTyped
  <2> HIDE DEF i, f, j
  <2> QED
    BY <2>2, <2>7, <2>8, <2>9 DEF TypeOK, KernelOK, kernel
<1>3. ASSUME Send(w) PROVE TypeOK'
  <2>1. open /\ fsid # Nil
    BY <1>3, ReadingIsOpen DEF Send
  <2>2. Idle \in Job
    BY DEF Idle, Job
  <2>3. job' = [job EXCEPT ![w] = Idle]
    BY <1>3 DEF Send
  <2>4. /\ job' \in [Jobs -> Job]
        /\ \A v \in Jobs : job'[v] = Idle \/ (job'[v].pc = "read" /\ job'[v].dir \in DirInodes)
    BY <2>2, <2>3, JobTyped
  <2> DEFINE b == [dir |-> job[w].path, files |-> job[w].batch]
             Batch == [dir : Seq(Names), files : SUBSET File]
  <2>5. b \in Batch /\ chan \in Seq(Batch) /\ Len(chan) <= Capacity
    BY DEF TypeOK, Job
  <2>6. chan' \in Seq(Batch) /\ Len(chan') <= Capacity
    <3>1. CASE job[w].batch = {}
      BY <1>3, <2>5, <3>1 DEF Send
    <3>2. CASE job[w].batch # {}
      <4>1. chan' = Append(chan, b) /\ Len(chan) < Capacity
        BY <1>3, <3>2 DEF Send, Room
      <4> HIDE DEF b, Batch
      <4> QED
        BY <4>1, <2>5
    <3> QED
      BY <3>1, <3>2
  <2>7. UNCHANGED <<kernel, root, dev, fsid, queue, open, seen, out>>
    BY <1>3 DEF Send
  <2> QED
    BY <2>1, <2>4, <2>6, <2>7 DEF TypeOK, KernelOK, kernel
<1> QED
  BY <1>1, <1>2, <1>3 DEF WorkerStep

\* Failing calls.
LEMMA FaultsTyped ==
    ASSUME TypeOK, FaultStep
    PROVE  TypeOK'
<1>1. ASSUME NEW path \in queue, ReadDirFails(path) PROVE TypeOK'
  <2>1. KernelOK' /\ queue' \subseteq queue
    BY <1>1, FaultTyped DEF ReadDirFails
  <2>2. open /\ fsid # Nil
    BY ReadingIsOpen
  <2>3. UNCHANGED <<root, dev, fsid, job, chan, open, seen, out>>
    BY <1>1 DEF ReadDirFails
  <2> QED
    BY <2>1, <2>2, <2>3 DEF TypeOK
<1>2. ASSUME NEW w \in Jobs, NEW e \in job[w].left, ExamineFails(w, e) PROVE TypeOK'
  <2> DEFINE j == [job[w] EXCEPT !.left = @ \ {e}]
  <2>1. KernelOK' /\ UNCHANGED <<root, dev, fsid, queue, chan, open, seen, out>>
    BY <1>2, FaultTyped DEF ExamineFails
  <2>2. job[w].pc = "read" /\ job[w] \in Job /\ job' = [job EXCEPT ![w] = j]
    BY <1>2 DEF ExamineFails, TypeOK
  <2>3. open /\ fsid # Nil
    BY <2>2, ReadingIsOpen
  <2>4. job[w].dir \in DirInodes
    BY <2>2 DEF TypeOK, Idle
  <2>5. j \in Job /\ j.pc = "read" /\ j.dir \in DirInodes
    BY <2>2, <2>4 DEF Job
  <2>6. /\ job' \in [Jobs -> Job]
        /\ \A v \in Jobs : job'[v] = Idle \/ (job'[v].pc = "read" /\ job'[v].dir \in DirInodes)
    <3> HIDE DEF j
    <3> QED
      BY <2>2, <2>5, JobTyped
  <2> QED
    BY <2>1, <2>3, <2>6 DEF TypeOK
<1> QED
  BY <1>1, <1>2 DEF FaultStep

\* What the receiver adds to the list, and to seen.
LEMMA ReceiveTyped ==
    ASSUME TypeOK, Receive
    PROVE  TypeOK'
<1> USE WalkAssumption
<1> DEFINE Batch == [dir : Seq(Names), files : SUBSET File]
           files == { f \in Head(chan).files : Fit(f) }
<1>1. chan # <<>> /\ chan \in Seq(Batch)
  BY DEF Receive, Receives, TypeOK
<1>2. Head(chan) \in Batch /\ Tail(chan) \in Seq(Batch) /\ Len(Tail(chan)) = Len(chan) - 1
  <2> HIDE DEF Batch
  <2> QED
    BY <1>1
<1>3. fsid # Nil /\ root \in DOMAIN Roots /\ fsid \in { Fsid[d] : d \in DOMAIN Fsid }
  <2>1. fsid # Nil /\ dev # Nil
    BY <1>1 DEF TypeOK
  <2>2. Roots \in Seq(Seq(Names)) /\ root \in 1 .. Len(Roots)
    BY <2>1 DEF TypeOK
  <2> QED
    BY <2>1, <2>2 DEF TypeOK
<1>4. files \subseteq File
  BY <1>2
<1>5. seen' \subseteq Inodes
  BY <1>4 DEF Receive, SeenAfter, TypeOK, File
<1>6. out' \subseteq Listed
  <2>1. PICK kept \in SUBSET files :
            out' = out \cup { [root |-> root, dir |-> Head(chan).dir, name |-> f.name,
                               ino |-> f.ino, nlink |-> f.nlink, fsid |-> fsid] : f \in kept }
    BY DEF Receive
  <2>2. ASSUME NEW f \in kept
        PROVE  [root |-> root, dir |-> Head(chan).dir, name |-> f.name,
                ino |-> f.ino, nlink |-> f.nlink, fsid |-> fsid] \in Listed
    BY <1>2, <1>3, <1>4 DEF File, Listed
  <2> QED
    BY <2>1, <2>2 DEF TypeOK
<1>7. Len(Tail(chan)) <= Capacity
  BY <1>1, <1>2 DEF TypeOK
<1>8. UNCHANGED <<kernel, root, dev, fsid, queue, job, open>> /\ chan' = Tail(chan)
  BY DEF Receive
<1> HIDE DEF files
<1> QED
  BY <1>2, <1>3, <1>5, <1>6, <1>7, <1>8 DEF TypeOK, KernelOK, kernel

\* The steps between roots.
LEMMA RootsTyped ==
    ASSUME TypeOK, StatRoot \/ StatvfsRoot \/ SkipRoot \/ ScopeEnds \/ RootDone
    PROVE  TypeOK'
<1> USE WalkAssumption
<1> Roots \in Seq(Seq(Names)) /\ Len(Roots) \in Nat
  OBVIOUS
<1>0. ASSUME root \in 1 .. Len(Roots), fsid = Nil, NoSuchRoot, UNCHANGED <<kernel, job, chan, seen, out>>
      PROVE  TypeOK'
  <2>1. /\ root' \in 1 .. Len(Roots) + 1 /\ dev' = Nil
        /\ UNCHANGED <<fsid, queue, open>>
    BY <1>0 DEF NoSuchRoot
  <2> QED
    BY <1>0, <2>1 DEF TypeOK, KernelOK, kernel
<1>1. CASE StatRoot
  <2>1. root \in 1 .. Len(Roots) /\ fsid = Nil
    BY <1>1 DEF StatRoot, TypeOK
  <2>2. UNCHANGED <<kernel, job, chan, seen, out>>
    BY <1>1 DEF StatRoot
  <2>3. CASE NoSuchRoot
    BY <1>0, <2>1, <2>2, <2>3
  <2>4. CASE ~NoSuchRoot
    <3>1. /\ At(Roots[root]) \in Inodes /\ dev' = Dev(At(Roots[root]))
          /\ UNCHANGED <<root, fsid, queue, open>>
      BY <1>1, <2>4 DEF StatRoot
    <3>2. dev' \in DOMAIN Fsid
      BY <3>1, DevType
    <3> QED
      BY <2>1, <2>2, <3>1, <3>2 DEF TypeOK, KernelOK, kernel
  <2> QED
    BY <2>3, <2>4
<1>5. CASE StatvfsRoot
  <2>1. root \in 1 .. Len(Roots) /\ fsid = Nil /\ dev # Nil /\ ~open /\ chan = <<>>
    BY <1>5 DEF StatvfsRoot, TypeOK
  <2>2. UNCHANGED <<kernel, job, chan, seen, out>>
    BY <1>5 DEF StatvfsRoot
  <2>3. CASE NoSuchRoot
    BY <1>0, <2>1, <2>2, <2>3
  <2>4. CASE ~NoSuchRoot
    <3>1. /\ At(Roots[root]) \in Inodes /\ fsid' = Fsid[Dev(At(Roots[root]))]
          /\ queue' = {Roots[root]} /\ open' = TRUE /\ UNCHANGED <<root, dev>>
      BY <1>5, <2>4 DEF StatvfsRoot
    <3>2. Dev(At(Roots[root])) \in DOMAIN Fsid
      BY <3>1, DevType
    <3>3. fsid' \in { Fsid[d] : d \in DOMAIN Fsid } /\ fsid' # Nil
      BY <3>1, <3>2
    <3>4. Roots[root] \in Seq(Names)
      BY <2>1
    <3> QED
      BY <2>1, <2>2, <3>1, <3>3, <3>4 DEF TypeOK, KernelOK, kernel
  <2> QED
    BY <2>3, <2>4
<1>2. CASE SkipRoot
  <2>1. root' \in 1 .. Len(Roots) + 1 /\ fsid = Nil /\ dev' = Nil
    BY <1>2 DEF SkipRoot, TypeOK
  <2>2. KernelOK'
    BY <1>2, FaultTyped DEF SkipRoot
  <2>3. UNCHANGED <<fsid, queue, job, chan, open, seen, out>>
    BY <1>2 DEF SkipRoot
  <2> QED
    BY <2>1, <2>2, <2>3 DEF TypeOK
<1>3. CASE ScopeEnds
  <2>1. \A w \in Jobs : job[w] = Idle
    BY <1>3 DEF ScopeEnds, ScopeDone, TypeOK
  <2>2. queue = {} /\ open' = FALSE /\ UNCHANGED <<kernel, root, dev, fsid, queue, job, chan, seen, out>>
    BY <1>3 DEF ScopeEnds, ScopeDone
  <2> QED
    BY <2>1, <2>2 DEF TypeOK, KernelOK, kernel
<1>4. CASE RootDone
  <2>1. root' \in 1 .. Len(Roots) + 1 /\ dev' = Nil /\ fsid' = Nil
    BY <1>4 DEF RootDone, Walking, TypeOK
  <2>2. ~open /\ chan = <<>> /\ UNCHANGED <<kernel, queue, job, chan, open, seen, out>>
    BY <1>4 DEF RootDone
  <2> QED
    BY <2>1, <2>2 DEF TypeOK, KernelOK, kernel
<1> QED
  BY <1>1, <1>2, <1>3, <1>4, <1>5

\* Every step keeps the types.
LEMMA NextTyped ==
    ASSUME TypeOK, [Next]_vars
    PROVE  TypeOK'
<1>1. CASE UNCHANGED vars
  BY <1>1 DEF vars, kernel, TypeOK, KernelOK
<1>2. ASSUME NEW w \in Jobs, WorkerStep(w) PROVE TypeOK'
  BY <1>2, WorkersTyped
<1>3. CASE StatRoot \/ StatvfsRoot \/ SkipRoot \/ ScopeEnds \/ RootDone
  BY <1>3, RootsTyped
<1>4. CASE Receive
  BY <1>4, ReceiveTyped
<1>5. CASE FaultStep
  BY <1>5, FaultsTyped
<1>6. CASE UserStep
  BY <1>6, UsersTyped
<1> QED
  BY <1>1, <1>2, <1>3, <1>4, <1>5, <1>6 DEF Next

\* Type correctness of the walk: whatever users do and whatever fails, the
\* channel holds at most Capacity batches and each worker at most one, and no
\* batch of one root is left over for the next one.
THEOREM Typed == Spec => []TypeOK
<1>1. Init => TypeOK
  BY InitTyped
<1>2. TypeOK /\ [Next]_vars => TypeOK'
  BY NextTyped
<1> QED
  BY <1>1, <1>2, PTL DEF Spec

-----------------------------------------------------------------------------
(* What is listed.                                                         *)

\* The list grows by Receive only.
LEMMA OnlyReceiveLists ==
    ASSUME [Next]_vars, ~Receive
    PROVE  UNCHANGED <<seen, out>>
<1>1. ASSUME NEW w \in Jobs, WorkerStep(w) PROVE UNCHANGED <<seen, out>>
  <2>1. ASSUME NEW path \in queue, ReadDir(w, path) PROVE UNCHANGED <<seen, out>>
    BY <2>1 DEF ReadDir
  <2>2. ASSUME NEW e \in job[w].left, Examine(w, e) PROVE UNCHANGED <<seen, out>>
    BY <2>2 DEF Examine
  <2>3. CASE Send(w)
    BY <2>3 DEF Send
  <2> QED
    BY <1>1, <2>1, <2>2, <2>3 DEF WorkerStep
<1>2. ASSUME StatRoot \/ StatvfsRoot \/ SkipRoot \/ ScopeEnds \/ RootDone
      PROVE  UNCHANGED <<seen, out>>
  BY <1>2 DEF StatRoot, StatvfsRoot, SkipRoot, ScopeEnds, RootDone
<1>3. ASSUME FaultStep PROVE UNCHANGED <<seen, out>>
  BY <1>3 DEF FaultStep, ReadDirFails, ExamineFails
<1>4. ASSUME UserStep PROVE UNCHANGED <<seen, out>>
  <2>1. ASSUME NEW d, NEW n, Unlink(d, n) PROVE UNCHANGED <<seen, out>>
    BY <2>1 DEF Unlink, UserActs
  <2>2. ASSUME NEW d, NEW n, NEW d2, NEW n2, Rename(d, n, d2, n2) \/ Link(d, n, d2, n2)
        PROVE  UNCHANGED <<seen, out>>
    BY <2>2 DEF Rename, Link, UserActs
  <2>3. ASSUME NEW i, NEW m, Mount(i, m) \/ Umount(i) PROVE UNCHANGED <<seen, out>>
    BY <2>3 DEF Mount, Umount, UserActs
  <2> QED
    BY <1>4, <2>1, <2>2, <2>3 DEF UserStep
<1>5. CASE UNCHANGED vars
  BY <1>5 DEF vars
<1> QED
  BY <1>1, <1>2, <1>3, <1>4, <1>5 DEF Next

\* The record that the receiver makes of a file.
Entered(f) == [root |-> root, dir |-> Head(chan).dir, name |-> f.name,
               ino |-> f.ino, nlink |-> f.nlink, fsid |-> fsid]

LEMMA Received ==
    ASSUME Receive
    PROVE  \E kept : /\ kept \subseteq { f \in Head(chan).files : Fit(f) }
                     /\ Collapses(kept, { f \in Head(chan).files : Fit(f) })
                     /\ out' = out \cup { Entered(f) : f \in kept }
                     /\ seen' = SeenAfter({ f \in Head(chan).files : Fit(f) })
BY DEF Receive, Entered

\* seen knows every inode that was listed under one of several links.
SeenListed == \A o \in out : o.nlink > 1 => o.ino \in seen

\* Of two names for one inode with several links, the receiver keeps one.
LEMMA OneKept ==
    ASSUME NEW files, NEW kept, kept \subseteq files, Collapses(kept, files),
           NEW f \in kept, f.nlink > 1, f.nlink \in Nat
    PROVE  /\ f.ino \notin seen
           /\ \A g \in kept : g.ino = f.ino /\ g.nlink > 1 => g = f
<1>1. f \in files /\ ~(f.nlink <= 1)
  OBVIOUS
<1>2. f.ino \notin seen
  BY <1>1 DEF Collapses
<1>3. PICK x \in kept : { g \in kept : g.ino = f.ino /\ g.nlink > 1 } = {x}
  BY <1>1, <1>2 DEF Collapses
<1> QED
  BY <1>2, <1>3

\* A batch leaves at most one entry for an inode with several links, and
\* whichever names it lists of those are seen from then on.
LEMMA StepCollapses ==
    ASSUME TypeOK, SeenListed, HardlinksCollapse, [Next]_vars
    PROVE  (SeenListed /\ HardlinksCollapse)'
<1>1. CASE ~Receive
  BY <1>1, OnlyReceiveLists DEF SeenListed, HardlinksCollapse
<1>2. CASE Receive
  <2> DEFINE files == { f \in Head(chan).files : Fit(f) }
  <2>1. PICK kept : /\ kept \subseteq files
                    /\ Collapses(kept, files)
                    /\ out' = out \cup { Entered(f) : f \in kept }
                    /\ seen' = SeenAfter(files)
    BY <1>2, Received
  <2>2. \A f \in kept : f.nlink \in Nat
    <3> DEFINE Batch == [dir : Seq(Names), files : SUBSET File]
    <3>1. chan \in Seq(Batch) /\ chan # <<>>
      BY <1>2 DEF Receive, Receives, TypeOK
    <3>2. Head(chan) \in Batch
      <4> HIDE DEF Batch
      <4> QED
        BY <3>1
    <3>3. \A f \in Head(chan).files : f.nlink \in Nat
      BY <3>2 DEF File
    <3> QED
      BY <2>1, <3>3
  <2>3. ASSUME NEW f \in kept
        PROVE  Entered(f).ino = f.ino /\ Entered(f).nlink = f.nlink
    BY DEF Entered
  <2>4. SeenListed'
    <3>1. seen \subseteq seen'
      BY <2>1 DEF SeenAfter
    <3>2. ASSUME NEW f \in kept, f.nlink > 1 PROVE f.ino \in seen'
      BY <2>1, <3>2 DEF SeenAfter
    <3> QED
      BY <2>1, <2>3, <3>1, <3>2 DEF SeenListed
  <2>5. ASSUME NEW f \in kept, f.nlink > 1
        PROVE  /\ f.ino \notin seen
               /\ \A g \in kept : g.ino = f.ino /\ g.nlink > 1 => g = f
    BY <2>1, <2>2, <2>5, OneKept
  <2>6. ASSUME NEW o \in out', NEW q \in out', o.ino = q.ino, o.nlink > 1, q.nlink > 1
        PROVE  o = q
    <3>1. CASE o \in out /\ q \in out
      BY <2>6, <3>1 DEF HardlinksCollapse
    <3>2. CASE o \in out /\ q \notin out
      <4>1. PICK g \in kept : q = Entered(g)
        BY <2>1, <3>2
      <4> QED
        BY <2>3, <2>5, <2>6, <3>2, <4>1 DEF SeenListed
    <3>3. CASE o \notin out /\ q \in out
      <4>1. PICK f \in kept : o = Entered(f)
        BY <2>1, <3>3
      <4> QED
        BY <2>3, <2>5, <2>6, <3>3, <4>1 DEF SeenListed
    <3>4. CASE o \notin out /\ q \notin out
      <4>1. PICK f \in kept, g \in kept : o = Entered(f) /\ q = Entered(g)
        BY <2>1, <3>4
      <4>2. f.ino = g.ino /\ f.nlink > 1 /\ g.nlink > 1
        BY <2>3, <2>6, <4>1
      <4> QED
        BY <2>5, <4>1, <4>2
    <3> QED
      BY <3>1, <3>2, <3>3, <3>4
  <2>7. HardlinksCollapse'
    BY <2>6 DEF HardlinksCollapse
  <2> QED
    BY <2>4, <2>7
<1> QED
  BY <1>1, <1>2

\* Whichever workers meet the links of an inode, in whichever order and
\* whatever users do meanwhile, one path is listed for those links.
THEOREM LinksCollapse == Spec => []HardlinksCollapse
<1> DEFINE Inv == SeenListed /\ HardlinksCollapse
<1>1. Init => Inv
  BY DEF Init, SeenListed, HardlinksCollapse
<1>2. Inv /\ TypeOK /\ [Next]_vars => Inv'
  BY StepCollapses
<1>3. Inv => HardlinksCollapse
  OBVIOUS
<1> QED
  <2> HIDE DEF Inv
  <2> QED
    BY <1>1, <1>2, <1>3, Typed, PTL DEF Spec

-----------------------------------------------------------------------------
(* Paths.  What the prefixes of a path stand for, one name after the       *)
(* other.                                                                  *)

\* A non-empty set of natural numbers has a least element.
LEMMA LeastNumber ==
    ASSUME NEW T, T \subseteq Nat, T # {}
    PROVE  \E x \in T : \A y \in T : x <= y
<1>1. IsWellFoundedOn({ss \in Nat \X Nat : ss[1] < ss[2]}, Nat)
  BY NatLessThanWellFounded, Zenon DEF OpToRel
<1>2. PICK x \in T : \A y \in T : ~ (<<y, x>> \in {ss \in Nat \X Nat : ss[1] < ss[2]})
  BY <1>1, WFMin
<1>3. ASSUME NEW y \in T PROVE ~(y < x)
  <2>1. <<y, x>> \in Nat \X Nat /\ <<y, x>>[1] = y /\ <<y, x>>[2] = x
    OBVIOUS
  <2>2. <<y, x>>[1] < <<y, x>>[2] => <<y, x>> \in {ss \in Nat \X Nat : ss[1] < ss[2]}
    BY <2>1
  <2> QED
    BY <1>2, <2>1, <2>2
<1> QED
  BY <1>3

\* f says what the first k prefixes of p stand for.
Trail(f, t, m, p, k) ==
    f = [j \in 0 .. k |-> IF j = 0 THEN Top(m, Slash) ELSE Child(t, m, f[j - 1], p[j])]

\* Every path has a trail, by induction on the length of the prefix.
LEMMA TrailExists ==
    ASSUME NEW t, NEW m, NEW p, NEW k \in Nat
    PROVE  \E f : Trail(f, t, m, p, k)
<1> DEFINE Bad == { n \in Nat : ~\E f : Trail(f, t, m, p, n) }
<1>1. SUFFICES ASSUME Bad # {} PROVE FALSE
  OBVIOUS
<1>2. Bad \subseteq Nat
  OBVIOUS
<1>3. PICK n \in Bad : \A y \in Bad : n <= y
  <2> HIDE DEF Bad
  <2> QED
    BY <1>1, <1>2, LeastNumber
<1>4. n \in Nat /\ ~\E f : Trail(f, t, m, p, n)
  OBVIOUS
<1>5. CASE n = 0
  <2> DEFINE f == [j \in 0 .. n |-> Top(m, Slash)]
  <2>1. Trail(f, t, m, p, n)
    BY <1>5 DEF Trail
  <2> QED
    BY <1>4, <2>1
<1>6. CASE n # 0
  <2>1. n - 1 \in Nat /\ n - 1 \notin Bad
    BY <1>3, <1>4, <1>6
  <2>2. PICK g : Trail(g, t, m, p, n - 1)
    BY <2>1
  <2> DEFINE f == [j \in 0 .. n |-> IF j < n THEN g[j] ELSE Child(t, m, g[n - 1], p[n])]
  <2>3. ASSUME NEW j \in 0 .. n
        PROVE  f[j] = IF j = 0 THEN Top(m, Slash) ELSE Child(t, m, f[j - 1], p[j])
    <3>1. CASE j = 0
      <4>1. f[j] = g[0]
        BY <1>4, <1>6, <3>1
      <4>2. g[0] = Top(m, Slash)
        BY <2>1, <2>2 DEF Trail
      <4> QED
        BY <3>1, <4>1, <4>2
    <3>2. CASE j \in 1 .. n - 1
      <4>1. f[j] = g[j] /\ f[j - 1] = g[j - 1]
        BY <1>4, <3>2
      <4>2. g[j] = Child(t, m, g[j - 1], p[j])
        BY <1>4, <2>1, <2>2, <3>2 DEF Trail
      <4> QED
        BY <3>2, <4>1, <4>2
    <3>3. CASE j = n
      <4>1. f[j] = Child(t, m, g[n - 1], p[n]) /\ f[j - 1] = g[n - 1]
        BY <1>4, <1>6, <3>3
      <4> QED
        BY <1>6, <3>3, <4>1
    <3> QED
      BY <1>4, <3>1, <3>2, <3>3
  <2>4. f = [j \in 0 .. n |-> f[j]]
    OBVIOUS
  <2>5. f = [j \in 0 .. n |-> IF j = 0 THEN Top(m, Slash) ELSE Child(t, m, f[j - 1], p[j])]
    <3> HIDE DEF f
    <3> QED
      BY <2>3, <2>4
  <2>6. Trail(f, t, m, p, n)
    <3> HIDE DEF f
    <3> QED
      BY <2>5 DEF Trail
  <2> QED
    BY <1>4, <2>6
<1> QED
  BY <1>5, <1>6

\* Two paths with a common prefix lead to the same place by it.
LEMMA TrailsAgree ==
    ASSUME NEW t, NEW m, NEW p, NEW q, NEW f, NEW g, NEW k \in Nat, NEW l \in Nat,
           Trail(f, t, m, p, k), Trail(g, t, m, q, l),
           NEW n \in Nat, n <= k, n <= l, \A j \in 1 .. n : p[j] = q[j]
    PROVE  f[n] = g[n]
<1> DEFINE Bad == { j \in 0 .. n : f[j] # g[j] }
<1>1. SUFFICES ASSUME Bad # {} PROVE FALSE
  OBVIOUS
<1>2. Bad \subseteq Nat
  OBVIOUS
<1>3. PICK i \in Bad : \A y \in Bad : i <= y
  <2> HIDE DEF Bad
  <2> QED
    BY <1>1, <1>2, LeastNumber
<1>4. i \in 0 .. n /\ f[i] # g[i]
  OBVIOUS
<1>5. /\ f[i] = IF i = 0 THEN Top(m, Slash) ELSE Child(t, m, f[i - 1], p[i])
      /\ g[i] = IF i = 0 THEN Top(m, Slash) ELSE Child(t, m, g[i - 1], q[i])
  BY <1>4 DEF Trail
<1>6. CASE i = 0
  BY <1>4, <1>5, <1>6
<1>7. CASE i # 0
  <2>1. i - 1 \in 0 .. n /\ i - 1 < i /\ i \in 1 .. n
    BY <1>4, <1>7
  <2>2. i - 1 \notin Bad
    BY <1>3, <1>4, <2>1
  <2>3. f[i - 1] = g[i - 1] /\ p[i] = q[i]
    BY <2>1, <2>2
  <2> QED
    BY <1>4, <1>5, <1>7, <2>3
<1> QED
  BY <1>6, <1>7

\* Resolve follows the trail to its end.
LEMMA ResolveIsTrail ==
    ASSUME NEW t, NEW m, NEW p, Len(p) \in Nat
    PROVE  \E f : Trail(f, t, m, p, Len(p)) /\ Resolve(t, m, p) = f[Len(p)]
<1> DEFINE F == CHOOSE f : f = [k \in 0 .. Len(p) |->
                IF k = 0 THEN Top(m, Slash) ELSE Child(t, m, f[k - 1], p[k])]
<1>1. Resolve(t, m, p) = F[Len(p)]
  BY DEF Resolve
<1>2. PICK g : Trail(g, t, m, p, Len(p))
  BY TrailExists
<1>3. g = [k \in 0 .. Len(p) |-> IF k = 0 THEN Top(m, Slash) ELSE Child(t, m, g[k - 1], p[k])]
  BY <1>2 DEF Trail
<1>4. F = [k \in 0 .. Len(p) |-> IF k = 0 THEN Top(m, Slash) ELSE Child(t, m, F[k - 1], p[k])]
  BY <1>3
<1>5. Trail(F, t, m, p, Len(p))
  <2> HIDE DEF F
  <2> QED
    BY <1>4 DEF Trail
<1> QED
  BY <1>1, <1>5

\* A path of one name more leads to the child of that name.
LEMMA ResolveAppend ==
    ASSUME NEW t, NEW m, NEW p \in Seq(Names), NEW n \in Names
    PROVE  Resolve(t, m, Append(p, n)) = Child(t, m, Resolve(t, m, p), n)
<1> DEFINE q == Append(p, n)
           k == Len(p)
<1>1. k \in Nat /\ Len(q) = k + 1 /\ q[k + 1] = n /\ \A j \in 1 .. k : p[j] = q[j]
  OBVIOUS
<1> HIDE DEF q, k
<1>2. PICK f : Trail(f, t, m, p, k) /\ Resolve(t, m, p) = f[k]
  BY <1>1, ResolveIsTrail DEF k
<1>3. PICK g : Trail(g, t, m, q, k + 1) /\ Resolve(t, m, q) = g[k + 1]
  BY <1>1, ResolveIsTrail
<1>4. f[k] = g[k]
  BY <1>1, <1>2, <1>3, TrailsAgree
<1>5. g[k + 1] = Child(t, m, g[k], q[k + 1])
  <2>1. k + 1 \in 0 .. k + 1 /\ k + 1 # 0 /\ (k + 1) - 1 = k
    BY <1>1
  <2> QED
    BY <1>3, <2>1 DEF Trail
<1> QED
  BY <1>1, <1>2, <1>3, <1>4, <1>5 DEF q

\* A prefix of a path leads where its trail says.
LEMMA ResolvePrefix ==
    ASSUME NEW t, NEW m, NEW p \in Seq(Names), NEW k \in 0 .. Len(p),
           NEW f, Trail(f, t, m, p, Len(p))
    PROVE  Resolve(t, m, SubSeq(p, 1, k)) = f[k]
<1> DEFINE q == SubSeq(p, 1, k)
<1>1. Len(p) \in Nat /\ k \in Nat /\ k <= Len(p) /\ Len(q) = k /\ \A j \in 1 .. k : q[j] = p[j]
  OBVIOUS
<1> HIDE DEF q
<1>2. PICK g : Trail(g, t, m, q, k) /\ Resolve(t, m, q) = g[k]
  BY <1>1, ResolveIsTrail
<1>3. g[k] = f[k]
  BY <1>1, <1>2, TrailsAgree
<1> QED
  BY <1>2, <1>3 DEF q

-----------------------------------------------------------------------------
(* What users and faults have not disturbed is as it was.                  *)

\* What a path led to at first.
Start(p) == Resolve(InitEnts, InitMounts, p)
StartChild(d, n) == Child(InitEnts, InitMounts, d, n)

\* A path to a directory of which nobody has disturbed anything.
Straight(p) ==
    /\ Start(p) \in DirInodes
    /\ \A k \in 0 .. Len(p) : Start(SubSeq(p, 1, k)) \notin disturbed

Steady ==
    /\ \A i \in DOMAIN InitMounts :
          InitMounts[i] \notin disturbed => i \in DOMAIN mounts /\ mounts[i] = InitMounts[i]
    /\ DOMAIN mounts \ DOMAIN InitMounts \subseteq disturbed
    /\ \A d \in DirInodes : \A n \in DOMAIN InitEnts[d] :
          StartChild(d, n) \notin disturbed =>
              n \in DOMAIN ents[d] /\ ents[d][n] = InitEnts[d][n]

LEMMA InitSteady == Init => Steady
BY DEF Init, Steady

\* A name that was there at first stood for an inode.
LEMMA StartChildIs ==
    ASSUME NEW d \in DirInodes, NEW n \in DOMAIN InitEnts[d]
    PROVE  /\ n \in Names /\ InitEnts[d][n] \in Inodes
           /\ StartChild(d, n) = Top(InitMounts, InitEnts[d][n])
           /\ StartChild(d, n) \in Inodes
           /\ InitEnts[d][n] \in DirInodes <=> StartChild(d, n) \in DirInodes
<1>1. n \in Names /\ InitEnts[d][n] \in Inodes
  BY WalkAssumption DEF Tree
<1>2. StartChild(d, n) = Top(InitMounts, InitEnts[d][n])
  BY DEF StartChild, Child
<1> DEFINE i == InitEnts[d][n]
<1>3. CASE i \in DOMAIN InitMounts
  <2>1. <<i, InitMounts[i]>> \in NewMounts \cup { <<x, InitMounts[x]>> : x \in DOMAIN InitMounts }
    BY <1>3
  <2>2. <<i, InitMounts[i]>>[1] = i /\ <<i, InitMounts[i]>>[2] = InitMounts[i]
    OBVIOUS
  <2>3. i \in DirInodes <=> InitMounts[i] \in DirInodes
    BY <2>1, <2>2, WalkAssumption
  <2> QED
    BY <1>1, <1>2, <1>3, <2>3, WalkAssumption DEF Top
<1>4. CASE i \notin DOMAIN InitMounts
  BY <1>1, <1>2, <1>4 DEF Top
<1> QED
  BY <1>1, <1>2, <1>3, <1>4

\* An undisturbed child is still there.
LEMMA ChildSteady ==
    ASSUME Steady, NEW d \in DirInodes, NEW n \in DOMAIN InitEnts[d], StartChild(d, n) \notin disturbed
    PROVE  /\ n \in DOMAIN ents[d] /\ ents[d][n] = InitEnts[d][n]
           /\ Child(ents, mounts, d, n) = StartChild(d, n)
<1>1. n \in DOMAIN ents[d] /\ ents[d][n] = InitEnts[d][n]
  BY DEF Steady
<1>2. Child(ents, mounts, d, n) = Top(mounts, InitEnts[d][n])
  BY <1>1 DEF Child
<1>3. StartChild(d, n) = Top(InitMounts, InitEnts[d][n])
  BY StartChildIs
<1>4. CASE InitEnts[d][n] \in DOMAIN InitMounts
  BY <1>1, <1>2, <1>3, <1>4 DEF Steady, Top
<1>5. CASE InitEnts[d][n] \notin DOMAIN InitMounts
  <2>1. StartChild(d, n) = InitEnts[d][n]
    BY <1>3, <1>5 DEF Top
  <2>2. InitEnts[d][n] \notin DOMAIN mounts
    BY <1>5, <2>1 DEF Steady
  <2> QED
    BY <1>1, <1>2, <2>1, <2>2 DEF Top
<1> QED
  BY <1>4, <1>5

\* An entry that a user removes or moves is not mounted on, and is disturbed.
LEMMA EntryGoes ==
    ASSUME Steady, NEW d \in DirInodes, NEW n, ents[d][n] \notin DOMAIN mounts,
           n \in DOMAIN InitEnts[d], StartChild(d, n) \notin disturbed
    PROVE  StartChild(d, n) = ents[d][n]
<1>1. ents[d][n] = InitEnts[d][n]
  BY DEF Steady
<1>2. ents[d][n] \notin DOMAIN InitMounts
  <2> SUFFICES ASSUME ents[d][n] \in DOMAIN InitMounts PROVE FALSE
    OBVIOUS
  <2>1. StartChild(d, n) = InitMounts[ents[d][n]]
    BY <1>1, StartChildIs DEF Top
  <2> QED
    BY <2>1 DEF Steady
<1> QED
  BY <1>1, <1>2, StartChildIs DEF Top

\* What users do disturbs what it changes.
LEMMA UserKeepsSteady ==
    ASSUME TypeOK, Steady, UserStep
    PROVE  Steady' /\ disturbed \subseteq disturbed'
<1> USE DEF Used
<1>1. ASSUME NEW d \in DirInodes, NEW n \in Used(d), Unlink(d, n)
      PROVE  Steady' /\ disturbed \subseteq disturbed'
  <2>1. /\ ents[d][n] \notin DOMAIN mounts /\ UNCHANGED mounts
        /\ disturbed' = disturbed \cup {ents[d][n]} /\ ents' = Without(d, n)
    BY <1>1 DEF Unlink, UserActs
  <2>2. ASSUME NEW i \in DirInodes, NEW x \in DOMAIN InitEnts[i], StartChild(i, x) \notin disturbed'
        PROVE  x \in DOMAIN ents'[i] /\ ents'[i][x] = InitEnts[i][x]
    <3>1. x \in DOMAIN ents[i] /\ ents[i][x] = InitEnts[i][x]
      BY <2>1, <2>2 DEF Steady
    <3>2. ~(i = d /\ x = n)
      BY <2>1, <2>2, EntryGoes
    <3> QED
      BY <2>1, <3>1, <3>2 DEF Without, TypeOK, KernelOK, Tree
  <2> QED
    BY <2>1, <2>2 DEF Steady
<1>2. ASSUME NEW d \in DirInodes, NEW n \in Used(d), NEW d2 \in DirInodes, NEW n2 \in NewNames,
             Rename(d, n, d2, n2)
      PROVE  Steady' /\ disturbed \subseteq disturbed'
  <2>1. /\ ents[d][n] \notin DOMAIN mounts /\ n2 \notin Used(d2) /\ UNCHANGED mounts
        /\ disturbed' = disturbed \cup {ents[d][n]}
        /\ ents' = With(Without(d, n), d2, n2, ents[d][n])
    BY <1>2 DEF Rename, UserActs
  <2>2. ASSUME NEW i \in DirInodes, NEW x \in DOMAIN InitEnts[i], StartChild(i, x) \notin disturbed'
        PROVE  x \in DOMAIN ents'[i] /\ ents'[i][x] = InitEnts[i][x]
    <3>1. x \in DOMAIN ents[i] /\ ents[i][x] = InitEnts[i][x]
      BY <2>1, <2>2 DEF Steady
    <3>2. ~(i = d /\ x = n)
      BY <2>1, <2>2, EntryGoes
    <3>3. ~(i = d2 /\ x = n2)
      BY <2>1, <3>1, StartChildIs
    <3>4. x \in DOMAIN Without(d, n)[i] /\ Without(d, n)[i][x] = InitEnts[i][x]
      BY <3>1, <3>2 DEF Without, TypeOK, KernelOK, Tree
    <3>5. DOMAIN Without(d, n) = DirInodes
      BY DEF Without, TypeOK, KernelOK, Tree
    <3> QED
      BY <2>1, <3>3, <3>4, <3>5 DEF With
  <2> QED
    BY <2>1, <2>2 DEF Steady
<1>3. ASSUME NEW d \in DirInodes, NEW n \in Used(d), NEW d2 \in DirInodes, NEW n2 \in NewNames,
             Link(d, n, d2, n2)
      PROVE  Steady' /\ disturbed \subseteq disturbed'
  <2>1. /\ n2 \notin Used(d2) /\ UNCHANGED mounts
        /\ disturbed' = disturbed \cup {ents[d][n]}
        /\ ents' = With(ents, d2, n2, ents[d][n])
    BY <1>3 DEF Link, UserActs
  <2>2. ASSUME NEW i \in DirInodes, NEW x \in DOMAIN InitEnts[i], StartChild(i, x) \notin disturbed'
        PROVE  x \in DOMAIN ents'[i] /\ ents'[i][x] = InitEnts[i][x]
    <3>1. x \in DOMAIN ents[i] /\ ents[i][x] = InitEnts[i][x]
      BY <2>1, <2>2 DEF Steady
    <3>2. ~(i = d2 /\ x = n2)
      BY <2>1, <3>1, StartChildIs
    <3> QED
      BY <2>1, <3>1, <3>2 DEF With, TypeOK, KernelOK, Tree
  <2> QED
    BY <2>1, <2>2 DEF Steady
<1>4. ASSUME NEW i, NEW x, Mount(i, x)
      PROVE  Steady' /\ disturbed \subseteq disturbed'
  <2>1. /\ i \notin DOMAIN mounts /\ UNCHANGED ents /\ disturbed' = disturbed \cup {i}
        /\ mounts' = [j \in DOMAIN mounts \cup {i} |-> IF j = i THEN x ELSE mounts[j]]
    BY <1>4 DEF Mount, UserActs
  <2> QED
    BY <2>1 DEF Steady
<1>5. ASSUME NEW i \in DOMAIN mounts, Umount(i)
      PROVE  Steady' /\ disturbed \subseteq disturbed'
  <2>1. /\ UNCHANGED ents /\ disturbed' = disturbed \cup {i, mounts[i]}
        /\ mounts' = [j \in DOMAIN mounts \ {i} |-> mounts[j]]
    BY <1>5 DEF Umount, UserActs
  <2> QED
    BY <2>1 DEF Steady
<1> QED
  BY <1>1, <1>2, <1>3, <1>4, <1>5 DEF UserStep

\* A failing call disturbs at most what it was about, and moves nothing.
LEMMA FaultKeepsSteady ==
    ASSUME Steady, NEW i, Fault(i)
    PROVE  /\ Steady' /\ disturbed \subseteq disturbed'
           /\ i \in Inodes => i \in disturbed'
BY DEF Fault, Steady

\* What has not been disturbed later was not disturbed before.
LEMMA StraightBefore ==
    ASSUME disturbed \subseteq disturbed', NEW p, Straight(p)'
    PROVE  Straight(p)
BY DEF Straight, Start

\* A straight path still leads where it led at first, by induction along it.
LEMMA StraightIsThere ==
    ASSUME TypeOK, Steady, NEW p \in Seq(Names), Straight(p)
    PROVE  At(p) = Start(p)
<1>1. Len(p) \in Nat
  OBVIOUS
<1>2. PICK f : Trail(f, InitEnts, InitMounts, p, Len(p)) /\ Start(p) = f[Len(p)]
  BY <1>1, ResolveIsTrail DEF Start
<1>3. PICK g : Trail(g, ents, mounts, p, Len(p)) /\ At(p) = g[Len(p)]
  BY <1>1, ResolveIsTrail DEF At
<1>4. \A k \in 0 .. Len(p) : f[k] \notin disturbed
  BY <1>2, ResolvePrefix DEF Straight, Start
<1>5. /\ \A k \in 0 .. Len(p) : f[k] = IF k = 0 THEN Top(InitMounts, Slash) ELSE StartChild(f[k - 1], p[k])
      /\ \A k \in 0 .. Len(p) : g[k] = IF k = 0 THEN Top(mounts, Slash) ELSE Child(ents, mounts, g[k - 1], p[k])
  BY <1>2, <1>3 DEF Trail, StartChild
<1> DEFINE Bad == { k \in 0 .. Len(p) : f[k] \in Inodes /\ g[k] # f[k] }
<1>6. ASSUME Bad # {} PROVE FALSE
  <2>1. Bad \subseteq Nat
    OBVIOUS
  <2>2. PICK k \in Bad : \A y \in Bad : k <= y
    <3> HIDE DEF Bad
    <3> QED
      BY <1>6, <2>1, LeastNumber
  <2>3. k \in 0 .. Len(p) /\ f[k] \in Inodes /\ g[k] # f[k] /\ f[k] \notin disturbed
    BY <1>4
  <2>4. CASE k = 0
    <3>1. f[0] = Top(InitMounts, Slash) /\ g[0] = Top(mounts, Slash)
      BY <1>1, <1>5
    <3>2. f[0] = g[0]
      <4>1. CASE Slash \in DOMAIN InitMounts
        BY <2>3, <2>4, <3>1, <4>1 DEF Top, Steady
      <4>2. CASE Slash \notin DOMAIN InitMounts
        BY <2>3, <2>4, <3>1, <4>2 DEF Top, Steady
      <4> QED
        BY <4>1, <4>2
    <3> QED
      BY <2>3, <2>4, <3>2
  <2>5. CASE k # 0
    <3> DEFINE d == f[k - 1]
               n == p[k]
    <3>1. k - 1 \in 0 .. Len(p) /\ k - 1 < k
      BY <2>3, <2>5
    <3>2. f[k] = StartChild(d, n) /\ g[k] = Child(ents, mounts, g[k - 1], n)
      BY <1>5, <2>3, <2>5
    <3> HIDE DEF d, n
    <3>3. d \in DirInodes /\ n \in DOMAIN InitEnts[d]
      BY <2>3, <3>2, WalkAssumption DEF StartChild, Child
    <3>4. g[k - 1] = d
      <4>1. k - 1 \notin Bad
        BY <2>2, <2>3, <3>1
      <4> QED
        BY <3>1, <3>3, <4>1 DEF d, Inodes
    <3>5. Child(ents, mounts, d, n) = StartChild(d, n)
      BY <2>3, <3>2, <3>3, ChildSteady
    <3> QED
      BY <2>3, <3>2, <3>4, <3>5
  <2> QED
    BY <2>4, <2>5
<1>7. f[Len(p)] \in Inodes
  BY <1>2 DEF Straight, Inodes
<1> QED
  BY <1>1, <1>2, <1>3, <1>6, <1>7

\* A straight path goes on to an undisturbed directory.
LEMMA StraightOn ==
    ASSUME NEW p \in Seq(Names), Straight(p), NEW n \in DOMAIN InitEnts[Start(p)],
           StartChild(Start(p), n) \in DirInodes \ disturbed
    PROVE  Straight(Append(p, n)) /\ Start(Append(p, n)) = StartChild(Start(p), n)
<1> DEFINE q == Append(p, n)
<1>1. n \in Names
  BY StartChildIs DEF Straight
<1>2. Start(q) = StartChild(Start(p), n)
  BY <1>1, ResolveAppend DEF Start, StartChild
<1>3. Len(p) \in Nat /\ Len(q) = Len(p) + 1
  BY <1>1
<1>4. ASSUME NEW k \in 0 .. Len(q) PROVE Start(SubSeq(q, 1, k)) \notin disturbed
  <2>1. CASE k = Len(q)
    <3>1. SubSeq(q, 1, k) = q
      <4>1. q \in Seq(Names)
        BY <1>1
      <4> HIDE DEF q
      <4> QED
        BY <2>1, <4>1
    <3> QED
      BY <1>2, <3>1
  <2>2. CASE k # Len(q)
    <3>1. k \in 0 .. Len(p)
      BY <1>3, <2>2
    <3>2. SubSeq(q, 1, k) = SubSeq(p, 1, k)
      BY <1>1, <3>1
    <3> QED
      BY <3>1, <3>2 DEF Straight
  <2> QED
    BY <2>1, <2>2
<1> QED
  BY <1>2, <1>4 DEF Straight

-----------------------------------------------------------------------------
(* The traversal.  Paths are what workers pass on, so it is of paths that  *)
(* the invariant speaks: D are the paths that some worker has taken.       *)

\* What readdir says of a name that nobody has disturbed.
StartEntry(d, n) == [name |-> n, isDir |-> InitEnts[d][n] \in DirInodes]

\* The walk of the root at hand owes a visit to the name n in p.
Owed(p, n) ==
    /\ Straight(p)
    /\ n \in DOMAIN InitEnts[Start(p)]
    /\ StartChild(Start(p), n) \notin disturbed
    /\ Dev(StartChild(Start(p), n)) = dev

Unread(p, n) ==
    \E w \in Jobs : /\ job[w].pc = "read" /\ job[w].path = p /\ job[w].dir = Start(p)
                    /\ StartEntry(Start(p), n) \in job[w].left

\* Inode c is on its way to the list, or is not meant to get there.
InHand(c) ==
    \/ c \in exclude
    \/ \E o \in out : o.ino = c
    \/ \E k \in DOMAIN chan : \E f \in chan[k].files : f.ino = c
    \/ \E w \in Jobs : \E f \in job[w].batch : f.ino = c

\* An inode stays in hand if nothing is taken from the batches.
LEMMA InHandKept ==
    ASSUME NEW c, InHand(c), UNCHANGED <<out, chan>>,
           \A v \in Jobs : job[v].batch \subseteq job'[v].batch
    PROVE  InHand(c)'
<1>1. CASE \E w \in Jobs : \E f \in job[w].batch : f.ino = c
  <2>0. PICK w \in Jobs : \E f \in job[w].batch : f.ino = c
    BY <1>1
  <2>1. PICK f \in job[w].batch : f.ino = c
    BY <2>0
  <2>2. f \in job'[w].batch
    BY <2>1
  <2> QED
    BY <2>1, <2>2 DEF InHand
<1>2. CASE c \in exclude \/ (\E o \in out : o.ino = c) \/ \E k \in DOMAIN chan : \E f \in chan[k].files : f.ino = c
  BY <1>2 DEF InHand
<1> QED
  BY <1>1, <1>2 DEF InHand

TakenCare(D, p, n) ==
    \/ Unread(p, n)
    \/ InitEnts[Start(p)][n] \in DirInodes /\ Append(p, n) \in D \cup queue
    \/ InitEnts[Start(p)][n] \notin DirInodes /\ InHand(StartChild(Start(p), n))

Traversed(D) == \A p \in D : \A n : Owed(p, n) => TakenCare(D, p, n)

UnderWay ==
    Walking /\ Straight(Roots[root]) =>
        /\ dev = Dev(Start(Roots[root]))
        /\ \E D \in SUBSET Seq(Names) : Roots[root] \in D \cup queue /\ Traversed(D)

\* The two lookups of a root that nobody has disturbed saw one dataset.
OneDataset ==
    dev # Nil /\ Straight(Roots[root]) =>
        /\ dev = Dev(Start(Roots[root]))
        /\ fsid # Nil => fsid = Fsid[dev]

\* What a step of a walk that goes on has to keep.
LEMMA Carried ==
    ASSUME NEW D \in SUBSET Seq(Names), Traversed(D), NEW E \in SUBSET Seq(Names), D \subseteq E,
           disturbed \subseteq disturbed', dev' = dev,
           D \cup queue \subseteq E \cup queue',
           \A p \in D : \A n : Owed(p, n)' /\ Unread(p, n) => TakenCare(E, p, n)',
           \A c : InHand(c) /\ Dev(c) = dev => InHand(c)',
           \A p \in E \ D : \A n : Owed(p, n)' => TakenCare(E, p, n)'
    PROVE  Traversed(E)'
<1>1. SUFFICES ASSUME NEW p \in E, NEW n, Owed(p, n)' PROVE TakenCare(E, p, n)'
  BY DEF Traversed
<1>2. CASE p \notin D
  BY <1>1, <1>2
<1>3. CASE p \in D
  <2>1. Owed(p, n)
    <3>1. Straight(p)
      BY <1>1, StraightBefore DEF Owed
    <3> QED
      BY <1>1, <3>1 DEF Owed, Start, StartChild
  <2>2. TakenCare(D, p, n)
    BY <1>3, <2>1 DEF Traversed
  <2>3. CASE Unread(p, n)
    BY <1>1, <1>3, <2>3
  <2>4. CASE InitEnts[Start(p)][n] \in DirInodes /\ Append(p, n) \in D \cup queue
    BY <2>4 DEF TakenCare, Start
  <2>5. CASE InitEnts[Start(p)][n] \notin DirInodes /\ InHand(StartChild(Start(p), n))
    <3> DEFINE c == StartChild(Start(p), n)
    <3>1. PICK x : x = c
      OBVIOUS
    <3>2. InHand(x) /\ Dev(x) = dev
      BY <2>1, <2>5, <3>1 DEF Owed
    <3>3. InHand(x)'
      BY <3>2
    <3>4. c' = c
      BY DEF Start, StartChild
    <3> QED
      BY <2>5, <3>1, <3>3, <3>4 DEF TakenCare, Start, StartChild, InHand
  <2> QED
    BY <2>2, <2>3, <2>4, <2>5 DEF TakenCare
<1> QED
  BY <1>2, <1>3

\* A step within a walk that carries the traversal over.
LEMMA StillUnderWay ==
    ASSUME TypeOK, UnderWay, UNCHANGED <<root, dev, fsid>>, disturbed \subseteq disturbed',
           \A D \in SUBSET Seq(Names) : Traversed(D) =>
              \E E \in SUBSET Seq(Names) : Traversed(E)' /\ D \cup queue \subseteq E \cup queue'
    PROVE  UnderWay'
<1>1. SUFFICES ASSUME Walking', Straight(Roots[root])'
               PROVE  /\ dev' = Dev(Start(Roots[root]))'
                      /\ \E D \in SUBSET Seq(Names) : Roots[root'] \in D \cup queue' /\ Traversed(D)'
  BY DEF UnderWay
<1>2. PICK r : r = root /\ r = root'
  OBVIOUS
<1>3. Straight(Roots[r])'
  BY <1>1, <1>2 DEF Straight, Start
<1>4. Walking /\ Straight(Roots[r])
  BY <1>1, <1>3, StraightBefore DEF Walking
<1>5. dev = Dev(Start(Roots[r])) /\ \E D \in SUBSET Seq(Names) : Roots[r] \in D \cup queue /\ Traversed(D)
  BY <1>2, <1>4 DEF UnderWay
<1>6. dev' = Dev(Start(Roots[root]))'
  BY <1>2, <1>5 DEF Start
<1> QED
  BY <1>2, <1>5, <1>6

\* A worker that is idle has nothing in hand.
LEMMA IdleIsEmpty ==
    ASSUME TypeOK, NEW w \in Jobs, job[w].pc = "idle"
    PROVE  job[w].batch = {}
<1>1. job[w] = Idle
  BY DEF TypeOK
<1> QED
  BY <1>1 DEF Idle

\* A directory that is read has all the names in it that are owed.
LEMMA ReadDirTraverses ==
    ASSUME TypeOK, Steady, UnderWay, NEW w \in Jobs, NEW path \in queue, ReadDir(w, path)
    PROVE  UnderWay'
<1>1. /\ job[w].pc = "idle" /\ queue' = queue \ {path}
      /\ UNCHANGED <<ents, mounts, disturbed, root, dev, fsid, chan, out>>
  BY DEF ReadDir, kernel
<1>2. path \in Seq(Names) /\ \A v \in Jobs \ {w} : job'[v] = job[v]
  BY DEF TypeOK, ReadDir
<1>3. job[w].batch = {}
  BY <1>1, IdleIsEmpty
<1>4. ASSUME NEW D \in SUBSET Seq(Names), Traversed(D)
      PROVE  Traversed(D \cup {path})' /\ D \cup queue \subseteq (D \cup {path}) \cup queue'
  <2> DEFINE E == D \cup {path}
  <2>1. E \in SUBSET Seq(Names) /\ D \subseteq E /\ D \cup queue \subseteq E \cup queue'
    BY <1>1, <1>2
  <2>2. ASSUME NEW p \in D, NEW n, Unread(p, n) PROVE TakenCare(E, p, n)'
    <3>1. PICK v \in Jobs : /\ job[v].pc = "read" /\ job[v].path = p /\ job[v].dir = Start(p)
                            /\ StartEntry(Start(p), n) \in job[v].left
      BY <2>2 DEF Unread
    <3>2. v # w
      BY <1>1, <3>1
    <3>3. Unread(p, n)'
      BY <1>2, <3>1, <3>2 DEF Unread, Start, StartEntry
    <3> QED
      BY <3>3 DEF TakenCare
  <2>3. ASSUME NEW c, InHand(c) PROVE InHand(c)'
    BY <1>1, <1>2, <1>3, <2>3 DEF InHand
  <2>4. ASSUME NEW n, Owed(path, n)' PROVE TakenCare(E, path, n)'
    <3> DEFINE d == Start(path)
    <3>1. Straight(path)
      BY <1>1, <2>4, StraightBefore DEF Owed
    <3>2. At(path) = d /\ d \in DirInodes
      BY <1>2, <3>1, StraightIsThere DEF Straight
    <3>3. n \in DOMAIN InitEnts[d] /\ StartChild(d, n) \notin disturbed
      BY <1>1, <2>4 DEF Owed, Start, StartChild
    <3>4. n \in Names /\ n \in DOMAIN ents[d] /\ ents[d][n] = InitEnts[d][n]
      BY <3>2, <3>3, ChildSteady, StartChildIs
    <3>5. StartEntry(d, n) \in Listing(d)
      BY <3>4 DEF StartEntry, Listing, Used
    <3>6. job' = [job EXCEPT ![w] = [Idle EXCEPT !.pc = "read", !.path = path,
                                                 !.dir = d, !.left = Listing(d)]]
      BY <3>2 DEF ReadDir
    <3>7. job'[w].pc = "read" /\ job'[w].path = path /\ job'[w].dir = d /\ job'[w].left = Listing(d)
      <4> HIDE DEF d
      <4> QED
        BY <3>6 DEF TypeOK, Idle
    <3>8. d' = d /\ StartEntry(d, n)' = StartEntry(d, n)
      BY DEF Start, StartEntry
    <3>9. Unread(path, n)'
      BY <3>5, <3>7, <3>8 DEF Unread
    <3> QED
      BY <3>9 DEF TakenCare
  <2>5. \A p \in E \ D : \A n : Owed(p, n)' => TakenCare(E, p, n)'
    BY <2>4
  <2> HIDE DEF E
  <2>6. Traversed(E)'
    BY <1>1, <1>4, <2>1, <2>2, <2>3, <2>5, Carried
  <2> QED
    BY <2>1, <2>6 DEF E
<1>5. \A D \in SUBSET Seq(Names) : Traversed(D) =>
          \E E \in SUBSET Seq(Names) : Traversed(E)' /\ D \cup queue \subseteq E \cup queue'
  <2> TAKE D \in SUBSET Seq(Names)
  <2> HAVE Traversed(D)
  <2>1. D \cup {path} \in SUBSET Seq(Names)
    BY <1>2
  <2> QED
    BY <1>4, <2>1
<1> QED
  BY <1>1, <1>5, StillUnderWay

\* An entry that is examined is queued, or put into the batch.
LEMMA ExamineTraverses ==
    ASSUME TypeOK, Steady, UnderWay, NEW w \in Jobs, NEW e \in job[w].left, Examine(w, e)
    PROVE  UnderWay'
<1> DEFINE i == Child(ents, mounts, job[w].dir, e.name)
           f == [name |-> e.name, ino |-> i, nlink |-> NLink(i)]
<1>1. /\ UNCHANGED <<ents, mounts, disturbed, root, dev, fsid, chan, out>>
      /\ job[w].pc = "read"
      /\ queue' = IF i \in Inodes /\ e.isDir /\ Dev(i) = dev
                  THEN queue \cup {Append(job[w].path, e.name)} ELSE queue
      /\ job' = [job EXCEPT ![w].left = @ \ {e},
                            ![w].batch = IF i \in Inodes /\ ~e.isDir THEN @ \cup {f} ELSE @]
  BY DEF Examine, kernel
<1> HIDE DEF f
<1>2. /\ \A v \in Jobs \ {w} : job'[v] = job[v]
      /\ job'[w].pc = "read" /\ job'[w].path = job[w].path /\ job'[w].dir = job[w].dir
      /\ job'[w].left = job[w].left \ {e}
      /\ job'[w].batch = IF i \in Inodes /\ ~e.isDir THEN job[w].batch \cup {f} ELSE job[w].batch
  <2> HIDE DEF i
  <2> job[w] \in Job /\ job \in [Jobs -> Job]
    BY DEF TypeOK
  <2> QED
    BY <1>1 DEF Job
<1>3. f.ino = i
  BY DEF f
<1> HIDE DEF i
<1>4. ASSUME NEW D \in SUBSET Seq(Names), Traversed(D) PROVE Traversed(D)'
  <2>1. ASSUME NEW p \in D, NEW n, Owed(p, n)', Unread(p, n) PROVE TakenCare(D, p, n)'
    <3> DEFINE d == Start(p)
               c == StartChild(d, n)
    <3>1. PICK v \in Jobs : /\ job[v].pc = "read" /\ job[v].path = p /\ job[v].dir = d
                            /\ StartEntry(d, n) \in job[v].left
      BY <2>1 DEF Unread
    <3>2. d' = d /\ StartEntry(d, n)' = StartEntry(d, n) /\ c' = c
      BY DEF Start, StartEntry, StartChild
    <3>3. CASE v # w \/ StartEntry(d, n) # e
      <4>1. Unread(p, n)'
        BY <1>2, <3>1, <3>2, <3>3 DEF Unread
      <4> QED
        BY <4>1 DEF TakenCare
    <3>4. CASE v = w /\ StartEntry(d, n) = e
      <4>1. d \in DirInodes /\ n \in DOMAIN InitEnts[d] /\ c \notin disturbed /\ Dev(c) = dev
        BY <1>1, <2>1, <3>2 DEF Owed, Straight
      <4>2. e.name = n /\ e.isDir = (InitEnts[d][n] \in DirInodes)
        BY <3>4 DEF StartEntry
      <4>3. i = c /\ c \in Inodes
        BY <3>1, <3>4, <4>1, <4>2, ChildSteady, StartChildIs DEF i
      <4>4. CASE InitEnts[d][n] \in DirInodes
        <5>1. Append(p, n) \in queue'
          BY <1>1, <3>1, <3>4, <4>1, <4>2, <4>3, <4>4
        <5> QED
          BY <3>2, <4>4, <5>1 DEF TakenCare
      <4>5. CASE InitEnts[d][n] \notin DirInodes
        <5>1. f \in job'[w].batch /\ f.ino = c
          BY <1>2, <1>3, <4>2, <4>3, <4>5
        <5>2. InHand(c)'
          BY <3>2, <5>1 DEF InHand
        <5> QED
          BY <3>2, <4>5, <5>2 DEF TakenCare
      <4> QED
        BY <4>4, <4>5
    <3> QED
      BY <3>3, <3>4
  <2>2. ASSUME NEW c, InHand(c) PROVE InHand(c)'
    <3>1. \A v \in Jobs : job[v].batch \subseteq job'[v].batch
      BY <1>2
    <3> QED
      BY <1>1, <2>2, <3>1, InHandKept
  <2>3. D \cup queue \subseteq D \cup queue'
    BY <1>1
  <2> QED
    BY <1>1, <1>4, <2>1, <2>2, <2>3, Carried
<1>5. \A D \in SUBSET Seq(Names) : Traversed(D) =>
          \E E \in SUBSET Seq(Names) : Traversed(E)' /\ D \cup queue \subseteq E \cup queue'
  BY <1>1, <1>4
<1> QED
  BY <1>1, <1>5, StillUnderWay

\* A batch that is sent stays in hand.
LEMMA SendTraverses ==
    ASSUME TypeOK, UnderWay, NEW w \in Jobs, Send(w)
    PROVE  UnderWay'
<1> DEFINE b == [dir |-> job[w].path, files |-> job[w].batch]
<1>1. /\ UNCHANGED <<ents, mounts, disturbed, root, dev, fsid, queue, out>>
      /\ job[w].left = {}
      /\ chan' = IF job[w].batch = {} THEN chan ELSE Append(chan, b)
      /\ \A v \in Jobs \ {w} : job'[v] = job[v]
  BY DEF Send, kernel, TypeOK
<1>2. Len(chan) \in Nat /\ DOMAIN chan = 1 .. Len(chan) /\ chan \in Seq([dir : Seq(Names), files : SUBSET File])
  BY DEF TypeOK
<1> HIDE DEF b
<1>3. \A k \in DOMAIN chan : k \in DOMAIN chan' /\ chan'[k] = chan[k]
  BY <1>1, <1>2
<1>4. job[w].batch # {} => \E k \in DOMAIN chan' : chan'[k] = b
  <2> SUFFICES ASSUME job[w].batch # {} PROVE \E k \in DOMAIN chan' : chan'[k] = b
    OBVIOUS
  <2>1. chan' = Append(chan, b)
    BY <1>1
  <2>2. Len(chan) + 1 \in DOMAIN chan' /\ chan'[Len(chan) + 1] = b
    BY <1>2, <2>1
  <2> QED
    BY <2>2
<1>5. ASSUME NEW c, InHand(c) PROVE InHand(c)'
  <2>1. CASE c \in exclude \/ \E o \in out : o.ino = c
    BY <1>1, <2>1 DEF InHand
  <2>2. CASE \E k \in DOMAIN chan : \E f \in chan[k].files : f.ino = c
    BY <1>3, <2>2 DEF InHand
  <2>3. CASE \E v \in Jobs : \E f \in job[v].batch : f.ino = c
    <3>0. PICK v \in Jobs : \E f \in job[v].batch : f.ino = c
      BY <2>3
    <3>1. PICK f \in job[v].batch : f.ino = c
      BY <3>0
    <3>2. CASE v = w
      <4>1. PICK k \in DOMAIN chan' : chan'[k] = b
        BY <1>4, <3>1, <3>2
      <4>2. f \in chan'[k].files
        BY <3>1, <3>2, <4>1 DEF b
      <4> QED
        BY <3>1, <4>1, <4>2 DEF InHand
    <3>3. CASE v # w
      <4>1. f \in job'[v].batch
        BY <1>1, <3>1, <3>3
      <4> QED
        BY <3>1, <4>1 DEF InHand
    <3> QED
      BY <3>2, <3>3
  <2> QED
    BY <1>5, <2>1, <2>2, <2>3 DEF InHand
<1>6. ASSUME NEW p, NEW n, Unread(p, n) PROVE Unread(p, n)'
  <2>1. PICK v \in Jobs : /\ job[v].pc = "read" /\ job[v].path = p /\ job[v].dir = Start(p)
                          /\ StartEntry(Start(p), n) \in job[v].left
    BY <1>6 DEF Unread
  <2>2. job'[v] = job[v]
    BY <1>1, <2>1
  <2> QED
    BY <2>1, <2>2 DEF Unread, Start, StartEntry
<1>7. ASSUME NEW D \in SUBSET Seq(Names), Traversed(D) PROVE Traversed(D)'
  <2>1. \A p \in D : \A n : Owed(p, n)' /\ Unread(p, n) => TakenCare(D, p, n)'
    BY <1>6 DEF TakenCare
  <2> QED
    BY <1>1, <1>5, <1>7, <2>1, Carried
<1> QED
  BY <1>1, <1>7, StillUnderWay

\* seen holds nothing that is not listed.
SeenIsListed == \A i \in seen : \E o \in out : o.ino = i

\* The files of a batch that fit are listed, under this name or another one.
LEMMA BatchIsListed ==
    ASSUME TypeOK, Receive, SeenIsListed,
           NEW f \in Head(chan).files, Fit(f)
    PROVE  \E o \in out' : o.ino = f.ino
<1> DEFINE files == { g \in Head(chan).files : Fit(g) }
<1>1. PICK kept : /\ kept \subseteq files /\ Collapses(kept, files)
                  /\ out' = out \cup { Entered(g) : g \in kept }
  BY Received
<1>2. f \in files /\ f.nlink \in Nat
  <2> DEFINE Batch == [dir : Seq(Names), files : SUBSET File]
  <2>1. chan \in Seq(Batch) /\ chan # <<>>
    BY DEF Receive, Receives, TypeOK
  <2>2. Head(chan) \in Batch
    <3> HIDE DEF Batch
    <3> QED
      BY <2>1
  <2> QED
    BY <2>2 DEF File
<1> HIDE DEF files
<1>3. \A g \in kept : Entered(g) \in out' /\ Entered(g).ino = g.ino
  <2> TAKE g \in kept
  <2>1. Entered(g).ino = g.ino
    BY DEF Entered
  <2> QED
    BY <1>1, <2>1
<1>4. CASE f.nlink > 1 /\ f.ino \notin seen
  <2>1. PICK g \in kept : { h \in kept : h.ino = f.ino /\ h.nlink > 1 } = {g}
    BY <1>1, <1>2, <1>4 DEF Collapses
  <2>2. g.ino = f.ino
    BY <2>1
  <2> QED
    BY <1>1, <1>3, <2>1, <2>2
<1>5. CASE f.nlink > 1 /\ f.ino \in seen
  BY <1>1, <1>5 DEF SeenIsListed
<1>6. CASE ~(f.nlink > 1)
  <2>1. f \in kept
    BY <1>1, <1>2, <1>6 DEF Collapses
  <2> QED
    BY <1>1, <1>3, <2>1
<1> QED
  BY <1>4, <1>5, <1>6

\* A batch adds to seen what it adds to the list.
LEMMA SeenStaysListed ==
    ASSUME TypeOK, SeenIsListed, [Next]_vars
    PROVE  SeenIsListed' /\ out \subseteq out'
<1>1. CASE ~Receive
  BY <1>1, OnlyReceiveLists DEF SeenIsListed
<1>2. CASE Receive
  <2>1. out \subseteq out' /\ seen' = SeenAfter({ f \in Head(chan).files : Fit(f) })
    BY <1>2, Received
  <2>2. ASSUME NEW i \in seen' PROVE \E o \in out' : o.ino = i
    <3>1. CASE i \in seen
      BY <2>1, <3>1 DEF SeenIsListed
    <3>2. CASE i \notin seen
      <4>1. PICK f \in Head(chan).files : Fit(f) /\ f.ino = i
        BY <2>1, <2>2, <3>2 DEF SeenAfter
      <4> QED
        BY <1>2, <4>1, BatchIsListed
    <3> QED
      BY <3>1, <3>2
  <2> QED
    BY <2>1, <2>2 DEF SeenIsListed
<1> QED
  BY <1>1, <1>2

LEMMA ReceiveTraverses ==
    ASSUME TypeOK, SeenIsListed, UnderWay, Receive
    PROVE  UnderWay'
<1>1. /\ UNCHANGED <<ents, mounts, disturbed, root, dev, fsid, queue, job>>
      /\ chan' = Tail(chan) /\ chan # <<>>
  BY DEF Receive, Receives, kernel
<1>2. chan \in Seq([dir : Seq(Names), files : SUBSET File]) /\ Len(chan) \in Nat /\ DOMAIN chan = 1 .. Len(chan)
  BY DEF TypeOK
<1>3. out \subseteq out'
  BY Received
<1>4. ASSUME NEW c, InHand(c), Dev(c) = dev PROVE InHand(c)'
  <2>1. CASE c \in exclude \/ \E o \in out : o.ino = c
    BY <1>3, <2>1 DEF InHand
  <2>2. CASE \E v \in Jobs : \E f \in job[v].batch : f.ino = c
    BY <1>1, <2>2 DEF InHand
  <2>3. CASE \E k \in DOMAIN chan : \E f \in chan[k].files : f.ino = c
    <3>0. PICK k \in DOMAIN chan : \E f \in chan[k].files : f.ino = c
      BY <2>3
    <3>1. PICK f \in chan[k].files : f.ino = c
      BY <3>0
    <3>2. CASE k = 1 /\ c \notin exclude
      <4>1. f \in Head(chan).files /\ Fit(f)
        BY <1>1, <1>2, <1>4, <3>1, <3>2 DEF Fit
      <4> QED
        BY <3>1, <4>1, BatchIsListed DEF InHand
    <3>3. CASE k # 1
      <4>1. k - 1 \in DOMAIN chan' /\ chan'[k - 1] = chan[k]
        BY <1>1, <1>2, <3>1, <3>3
      <4> QED
        BY <3>1, <4>1 DEF InHand
    <3> QED
      BY <3>2, <3>3 DEF InHand
  <2> QED
    BY <1>4, <2>1, <2>2, <2>3 DEF InHand
<1>5. ASSUME NEW p, NEW n, Unread(p, n) PROVE Unread(p, n)'
  BY <1>1, <1>5 DEF Unread, Start, StartEntry
<1>6. ASSUME NEW D \in SUBSET Seq(Names), Traversed(D) PROVE Traversed(D)'
  <2>1. \A p \in D : \A n : Owed(p, n)' /\ Unread(p, n) => TakenCare(D, p, n)'
    BY <1>5 DEF TakenCare
  <2> QED
    BY <1>1, <1>4, <1>6, <2>1, Carried
<1> QED
  BY <1>1, <1>6, StillUnderWay

\* What a failing call skips is disturbed, and owed no more.
LEMMA FaultTraverses ==
    ASSUME TypeOK, Steady, UnderWay, FaultStep
    PROVE  UnderWay' /\ Steady' /\ disturbed \subseteq disturbed'
<1>1. ASSUME NEW path \in queue, ReadDirFails(path)
      PROVE  UnderWay' /\ Steady' /\ disturbed \subseteq disturbed'
  <2>1. queue' = queue \ {path} /\ UNCHANGED <<root, dev, fsid, job, chan, out>> /\ path \in Seq(Names)
    BY <1>1 DEF ReadDirFails, TypeOK
  <2>2. Steady' /\ disturbed \subseteq disturbed' /\ (At(path) \in Inodes => At(path) \in disturbed')
    BY <1>1, FaultKeepsSteady DEF ReadDirFails
  <2>3. ASSUME Straight(path)' PROVE FALSE
    <3>1. Straight(path) /\ At(path) = Start(path)
      BY <2>1, <2>2, <2>3, StraightBefore, StraightIsThere
    <3>2. Start(path) \in disturbed'
      BY <2>2, <3>1 DEF Straight, Inodes
    <3>3. Len(path) \in 0 .. Len(path) /\ SubSeq(path, 1, Len(path)) = path
      BY <2>1
    <3> QED
      BY <2>3, <3>2, <3>3 DEF Straight, Start
  <2>4. ASSUME NEW c, InHand(c) PROVE InHand(c)'
    BY <2>1, <2>4, InHandKept
  <2>5. ASSUME NEW p, NEW n, Unread(p, n) PROVE Unread(p, n)'
    BY <2>1, <2>5 DEF Unread, Start, StartEntry
  <2>6. ASSUME NEW D \in SUBSET Seq(Names), Traversed(D)
        PROVE  \E E \in SUBSET Seq(Names) : Traversed(E)' /\ D \cup queue \subseteq E \cup queue'
    <3> DEFINE E == D \cup {path}
    <3>1. E \in SUBSET Seq(Names) /\ D \subseteq E /\ D \cup queue \subseteq E \cup queue'
      BY <2>1
    <3>2. \A p \in D : \A n : Owed(p, n)' /\ Unread(p, n) => TakenCare(E, p, n)'
      BY <2>5 DEF TakenCare
    <3>3. \A p \in E \ D : \A n : Owed(p, n)' => TakenCare(E, p, n)'
      BY <2>3 DEF Owed
    <3> HIDE DEF E
    <3>4. Traversed(E)'
      BY <2>1, <2>2, <2>4, <2>6, <3>1, <3>2, <3>3, Carried
    <3> QED
      BY <3>1, <3>4
  <2>7. UnderWay'
    BY <2>1, <2>2, <2>6, StillUnderWay
  <2> QED
    BY <2>2, <2>7
<1>2. ASSUME NEW w \in Jobs, NEW e \in job[w].left, ExamineFails(w, e)
      PROVE  UnderWay' /\ Steady' /\ disturbed \subseteq disturbed'
  <2> DEFINE i == Child(ents, mounts, job[w].dir, e.name)
  <2>1. UNCHANGED <<root, dev, fsid, queue, chan, out>> /\ job' = [job EXCEPT ![w].left = @ \ {e}]
    BY <1>2 DEF ExamineFails
  <2>2. Steady' /\ disturbed \subseteq disturbed' /\ (i \in Inodes => i \in disturbed')
    BY <1>2, FaultKeepsSteady DEF ExamineFails
  <2> HIDE DEF i
  <2>3. /\ \A v \in Jobs \ {w} : job'[v] = job[v]
        /\ job'[w].pc = job[w].pc /\ job'[w].path = job[w].path /\ job'[w].dir = job[w].dir
        /\ job'[w].left = job[w].left \ {e} /\ job'[w].batch = job[w].batch
    <3> job[w] \in Job /\ job \in [Jobs -> Job]
      BY DEF TypeOK
    <3> QED
      BY <2>1 DEF Job
  <2>4. ASSUME NEW c, InHand(c) PROVE InHand(c)'
    <3>1. \A v \in Jobs : job[v].batch \subseteq job'[v].batch
      BY <2>3
    <3> QED
      BY <2>1, <2>4, <3>1, InHandKept
  <2>5. ASSUME NEW p, NEW n, Owed(p, n)', Unread(p, n) PROVE Unread(p, n)'
    <3> DEFINE d == Start(p)
    <3>1. PICK v \in Jobs : /\ job[v].pc = "read" /\ job[v].path = p /\ job[v].dir = d
                            /\ StartEntry(d, n) \in job[v].left
      BY <2>5 DEF Unread
    <3>2. d' = d /\ StartEntry(d, n)' = StartEntry(d, n) /\ StartChild(d, n)' = StartChild(d, n)
      BY DEF Start, StartEntry, StartChild
    <3>3. d \in DirInodes /\ n \in DOMAIN InitEnts[d] /\ StartChild(d, n) \notin disturbed'
      BY <2>5, <3>2 DEF Owed, Straight
    <3>4. ~(v = w /\ StartEntry(d, n) = e)
      <4> SUFFICES ASSUME v = w, StartEntry(d, n) = e PROVE FALSE
        OBVIOUS
      <4>1. e.name = n
        BY DEF StartEntry
      <4>2. i = StartChild(d, n) /\ StartChild(d, n) \in Inodes
        BY <2>2, <3>1, <3>3, <4>1, ChildSteady, StartChildIs DEF i
      <4> QED
        BY <2>2, <3>3, <4>2
    <3> QED
      BY <2>3, <3>1, <3>2, <3>4 DEF Unread
  <2>6. ASSUME NEW D \in SUBSET Seq(Names), Traversed(D) PROVE Traversed(D)'
    <3>1. \A p \in D : \A n : Owed(p, n)' /\ Unread(p, n) => TakenCare(D, p, n)'
      BY <2>5 DEF TakenCare
    <3> QED
      BY <2>1, <2>2, <2>4, <2>6, <3>1, Carried
  <2>7. UnderWay'
    BY <2>1, <2>2, <2>6, StillUnderWay
  <2> QED
    BY <2>2, <2>7
<1> QED
  BY <1>1, <1>2 DEF FaultStep

\* What users do changes what is owed, and nothing that has been done.
LEMMA UserTraverses ==
    ASSUME TypeOK, UnderWay, disturbed \subseteq disturbed',
           UNCHANGED <<root, dev, fsid, queue, job, chan, out>>
    PROVE  UnderWay'
<1>1. ASSUME NEW c, InHand(c) PROVE InHand(c)'
  BY <1>1, InHandKept
<1>2. ASSUME NEW p, NEW n, Unread(p, n) PROVE Unread(p, n)'
  BY <1>2 DEF Unread, Start, StartEntry
<1>3. ASSUME NEW D \in SUBSET Seq(Names), Traversed(D) PROVE Traversed(D)'
  <2>1. \A p \in D : \A n : Owed(p, n)' /\ Unread(p, n) => TakenCare(D, p, n)'
    BY <1>2 DEF TakenCare
  <2> QED
    BY <1>1, <1>3, <2>1, Carried
<1> QED
  BY <1>3, StillUnderWay

\* The steps that none of this is about.
LEMMA QuietKernel ==
    ASSUME [Next]_vars, ~FaultStep, ~UserStep, ~SkipRoot
    PROVE  UNCHANGED <<ents, mounts, disturbed>>
<1>1. ASSUME NEW w \in Jobs, WorkerStep(w) PROVE UNCHANGED kernel
  BY <1>1 DEF WorkerStep, ReadDir, Examine, Send
<1>2. ASSUME StatRoot \/ StatvfsRoot \/ ScopeEnds \/ Receive \/ RootDone PROVE UNCHANGED kernel
  BY <1>2 DEF StatRoot, StatvfsRoot, ScopeEnds, Receive, RootDone
<1>3. CASE UNCHANGED vars
  BY <1>3 DEF vars, kernel
<1> QED
  BY <1>1, <1>2, <1>3 DEF Next, kernel

LEMMA NextSteady ==
    ASSUME TypeOK, Steady, UnderWay, [Next]_vars
    PROVE  Steady' /\ disturbed \subseteq disturbed'
<1>1. CASE FaultStep
  BY <1>1, FaultTraverses
<1>2. CASE UserStep
  BY <1>2, UserKeepsSteady
<1>3. CASE SkipRoot
  <2>1. Fault(At(Roots[root]))
    BY <1>3 DEF SkipRoot
  <2> QED
    BY <2>1, FaultKeepsSteady
<1>4. CASE ~FaultStep /\ ~UserStep /\ ~SkipRoot
  <2>1. UNCHANGED <<ents, mounts, disturbed>>
    BY <1>4, QuietKernel
  <2> QED
    BY <2>1 DEF Steady
<1> QED
  BY <1>1, <1>2, <1>3, <1>4

\* What the lookups of a root saw stays so until the next one.
LEMMA StillOneDataset ==
    ASSUME OneDataset, disturbed \subseteq disturbed', UNCHANGED <<root, dev, fsid>>
    PROVE  OneDataset'
<1>1. SUFFICES ASSUME dev' # Nil, Straight(Roots[root])'
               PROVE  /\ dev' = Dev(Start(Roots[root]))'
                      /\ fsid' # Nil => fsid' = Fsid[dev']
  BY DEF OneDataset
<1>2. PICK r : r = root /\ r = root'
  OBVIOUS
<1>3. Straight(Roots[r])'
  BY <1>1, <1>2 DEF Straight, Start
<1>4. Straight(Roots[r])
  BY <1>3, StraightBefore
<1> QED
  BY <1>1, <1>2, <1>4 DEF OneDataset, Start

\* Between two roots there is nothing to say.
LEMMA NoRootNoDataset ==
    ASSUME dev' = Nil
    PROVE  OneDataset'
BY DEF OneDataset

\* Where an undisturbed root is.
LEMMA RootIsThere ==
    ASSUME TypeOK, Steady, root \in 1 .. Len(Roots), Straight(Roots[root])
    PROVE  At(Roots[root]) = Start(Roots[root])
<1>1. Roots[root] \in Seq(Names)
  BY WalkAssumption
<1> QED
  BY <1>1, StraightIsThere

\* metadata and statvfs find an undisturbed root where it was.
LEMMA StatsOneDataset ==
    ASSUME TypeOK, Steady, OneDataset, StatRoot \/ StatvfsRoot
    PROVE  OneDataset'
<1>1. root \in 1 .. Len(Roots) /\ UNCHANGED <<ents, mounts, disturbed>>
  BY WalkAssumption DEF StatRoot, StatvfsRoot, TypeOK, kernel
<1>2. CASE NoSuchRoot
  BY <1>2, NoRootNoDataset DEF NoSuchRoot
<1>3. CASE ~NoSuchRoot
  <2>1. root' = root
    BY <1>3 DEF StatRoot, StatvfsRoot
  <2>2. SUFFICES ASSUME dev' # Nil, Straight(Roots[root])'
                 PROVE  /\ dev' = Dev(Start(Roots[root]))'
                        /\ fsid' # Nil => fsid' = Fsid[dev']
    BY DEF OneDataset
  <2>3. PICK r : r = root /\ r = root'
    BY <2>1
  <2>4. Straight(Roots[r])'
    BY <2>2, <2>3 DEF Straight, Start
  <2>5. Straight(Roots[r])
    BY <1>1, <2>4, StraightBefore
  <2>6. At(Roots[r]) = Start(Roots[r])
    BY <1>1, <2>3, <2>5, RootIsThere
  <2>7. Start(Roots[r])' = Start(Roots[r])
    BY DEF Start
  <2>8. CASE StatRoot
    <3>1. dev' = Dev(At(Roots[r])) /\ fsid' = Nil
      BY <1>3, <2>3, <2>8 DEF StatRoot, TypeOK
    <3> QED
      BY <2>3, <2>6, <2>7, <3>1
  <2>9. CASE StatvfsRoot
    <3>1. dev # Nil /\ dev' = dev /\ fsid' = Fsid[Dev(At(Roots[r]))]
      BY <1>3, <2>3, <2>9 DEF StatvfsRoot
    <3>2. dev = Dev(Start(Roots[r]))
      BY <2>3, <2>5, <3>1 DEF OneDataset
    <3> QED
      BY <2>3, <2>6, <2>7, <3>1, <3>2
  <2> QED
    BY <2>8, <2>9
<1> QED
  BY <1>2, <1>3

\* Every other step leaves the root's device and dataset alone, or ends it.
LEMMA RootAlone ==
    ASSUME [Next]_vars, ~StatRoot, ~StatvfsRoot
    PROVE  UNCHANGED <<root, dev, fsid>> \/ dev' = Nil
<1>1. ASSUME NEW w \in Jobs, WorkerStep(w) PROVE UNCHANGED <<root, dev, fsid>>
  BY <1>1 DEF WorkerStep, ReadDir, Examine, Send
<1>2. ASSUME ScopeEnds \/ Receive \/ FaultStep PROVE UNCHANGED <<root, dev, fsid>>
  BY <1>2 DEF ScopeEnds, Receive, FaultStep, ReadDirFails, ExamineFails
<1>3. ASSUME UserStep PROVE UNCHANGED <<root, dev, fsid>>
  BY <1>3, UsersAct DEF UserActs
<1>4. ASSUME SkipRoot \/ RootDone PROVE dev' = Nil
  BY <1>4 DEF SkipRoot, RootDone
<1>5. CASE UNCHANGED vars
  BY <1>5 DEF vars
<1> QED
  BY <1>1, <1>2, <1>3, <1>4, <1>5 DEF Next

LEMMA NextOneDataset ==
    ASSUME TypeOK, Steady, UnderWay, OneDataset, [Next]_vars
    PROVE  OneDataset'
<1>1. CASE StatRoot \/ StatvfsRoot
  BY <1>1, StatsOneDataset
<1>2. CASE ~StatRoot /\ ~StatvfsRoot
  <2>1. disturbed \subseteq disturbed'
    BY NextSteady
  <2> QED
    BY <1>2, <2>1, RootAlone, StillOneDataset, NoRootNoDataset
<1> QED
  BY <1>1, <1>2

\* A walk begins at its root.
LEMMA StartTraverses ==
    ASSUME TypeOK, OneDataset', StatvfsRoot
    PROVE  UnderWay'
<1>1. SUFFICES ASSUME Walking', Straight(Roots[root])'
               PROVE  /\ dev' = Dev(Start(Roots[root]))'
                      /\ \E D \in SUBSET Seq(Names) : Roots[root'] \in D \cup queue' /\ Traversed(D)'
  BY DEF UnderWay
<1>2. CASE NoSuchRoot
  BY <1>1, <1>2 DEF StatvfsRoot, NoSuchRoot, Walking
<1>3. CASE ~NoSuchRoot
  <2>1. dev' # Nil /\ queue' = {Roots[root]} /\ root' = root
    BY <1>3 DEF StatvfsRoot
  <2>2. dev' = Dev(Start(Roots[root]))'
    BY <1>1, <2>1 DEF OneDataset
  <2>3. Traversed({})'
    BY DEF Traversed
  <2>4. {} \in SUBSET Seq(Names) /\ Roots[root'] \in {} \cup queue'
    BY <2>1
  <2> QED
    BY <2>2, <2>3, <2>4
<1> QED
  BY <1>2, <1>3

LEMMA NextUnderWay ==
    ASSUME TypeOK, Steady, SeenIsListed, UnderWay, OneDataset', [Next]_vars
    PROVE  UnderWay'
<1>1. ASSUME NEW w \in Jobs, WorkerStep(w) PROVE UnderWay'
  BY <1>1, ReadDirTraverses, ExamineTraverses, SendTraverses DEF WorkerStep
<1>2. CASE StatvfsRoot
  BY <1>2, StartTraverses
<1>3. CASE StatRoot \/ SkipRoot \/ RootDone
  <2>1. fsid' = Nil
    BY <1>3 DEF StatRoot, NoSuchRoot, SkipRoot, RootDone, TypeOK
  <2> QED
    BY <2>1 DEF UnderWay, Walking
<1>4. CASE Receive
  BY <1>4, ReceiveTraverses
<1>5. CASE FaultStep
  BY <1>5, FaultTraverses
<1>6. CASE ScopeEnds \/ UserStep \/ UNCHANGED vars
  <2>1. UNCHANGED <<root, dev, fsid, queue, job, chan, out>>
    <3>1. CASE UserStep
      BY <3>1, UsersAct DEF UserActs
    <3>2. CASE ScopeEnds
      BY <3>2 DEF ScopeEnds
    <3>3. CASE UNCHANGED vars
      BY <3>3 DEF vars
    <3> QED
      BY <1>6, <3>1, <3>2, <3>3
  <2>2. disturbed \subseteq disturbed'
    BY NextSteady
  <2> QED
    BY <2>1, <2>2, UserTraverses
<1> QED
  BY <1>1, <1>2, <1>3, <1>4, <1>5, <1>6 DEF Next

-----------------------------------------------------------------------------
(* The list is complete.                                                   *)

\* Less is owed of a root when more is disturbed.
LEMMA LessIsOwed ==
    ASSUME disturbed \subseteq disturbed', NEW d
    PROVE  InitFiles(d)' \subseteq InitFiles(d)
<1> DEFINE Sub(i) == { j \in { Child(InitEnts, InitMounts, i, n) : n \in DOMAIN InitEnts[i] } :
                          j \in DirInodes \ disturbed /\ Dev(j) = Dev(d) }
           Closed(S) == d \in S /\ \A j \in S : Sub(j) \subseteq S
           Closed2(S) == d \in S /\ \A j \in S : Sub(j)' \subseteq S
<1>1. \A j : Sub(j)' \subseteq Sub(j)
  OBVIOUS
<1>2. InitBelow(d) = { i \in DirInodes : \A S \in SUBSET DirInodes : Closed(S) => i \in S }
  BY DEF InitBelow
<1>3. InitBelow(d)' = { i \in DirInodes : \A S \in SUBSET DirInodes : Closed2(S) => i \in S }
  BY DEF InitBelow
<1>4. ASSUME NEW S, Closed(S) PROVE Closed2(S)
  <2> HIDE DEF Sub
  <2> QED
    BY <1>1, <1>4
<1>5. InitBelow(d)' \subseteq InitBelow(d)
  <2> HIDE DEF Closed, Closed2
  <2> QED
    BY <1>2, <1>3, <1>4
<1>6. ASSUME NEW c \in InitFiles(d)' PROVE c \in InitFiles(d)
  <2>1. PICK i \in InitBelow(d)' :
            c \in { Child(InitEnts, InitMounts, i, n) : n \in { x \in DOMAIN InitEnts[i] : InitEnts[i][x] \in FileInodes } }
    BY DEF InitFiles
  <2>2. c \notin disturbed' /\ Dev(c) = Dev(d)
    BY DEF InitFiles
  <2>3. i \in InitBelow(d) /\ c \notin disturbed
    BY <1>5, <2>2
  <2> QED
    BY <2>1, <2>2, <2>3 DEF InitFiles
<1> QED
  BY <1>6

Complete ==
    \A r \in DOMAIN Roots :
        r < root /\ Straight(Roots[r]) =>
            InitFiles(Start(Roots[r])) \ exclude \subseteq { o.ino : o \in out }

\* What has been listed stays complete; the root that is left has to be.
LEMMA StaysComplete ==
    ASSUME Complete, disturbed \subseteq disturbed', out \subseteq out',
           root \in Nat, root' \in {root, root + 1},
           \A r \in DOMAIN Roots :
               r = root /\ root' # root /\ Straight(Roots[r]) /\ Straight(Roots[r])' =>
                   InitFiles(Start(Roots[r])) \ exclude \subseteq { o.ino : o \in out }
    PROVE  Complete'
<1> SUFFICES ASSUME NEW r \in DOMAIN Roots, r < root', Straight(Roots[r])'
             PROVE  InitFiles(Start(Roots[r]))' \ exclude \subseteq { o.ino : o \in out' }
  BY DEF Complete
<1> SUFFICES InitFiles(Start(Roots[r])) \ exclude \subseteq { o.ino : o \in out }
  <2>1. PICK d : d = Start(Roots[r])
    OBVIOUS
  <2>2. InitFiles(d)' \subseteq InitFiles(d)
    BY LessIsOwed
  <2>3. InitFiles(Start(Roots[r]))' = InitFiles(d)'
    BY <2>1 DEF Start, InitFiles, InitBelow
  <2> QED
    BY <2>1, <2>2, <2>3
<1>1. Straight(Roots[r])
  BY StraightBefore
<1>2. r \in Nat
  BY WalkAssumption
<1>3. CASE r < root
  BY <1>1, <1>3 DEF Complete
<1>4. CASE r = root /\ root' # root
  BY <1>1, <1>4
<1> QED
  BY <1>2, <1>3, <1>4

\* When nothing of the walk is left, the directories of D are closed under
\* undisturbed subdirectories, and their files are listed.
LEMMA DoneIsComplete ==
    ASSUME TypeOK, UnderWay, RootDone, Straight(Roots[root])
    PROVE  InitFiles(Start(Roots[root])) \ exclude \subseteq { o.ino : o \in out }
<1> DEFINE d == Start(Roots[root])
<1>1. Walking /\ chan = <<>> /\ queue = {} /\ \A w \in Jobs : job[w] = Idle
  BY DEF RootDone, TypeOK
<1>2. PICK D \in SUBSET Seq(Names) : Roots[root] \in D /\ Traversed(D)
  BY <1>1 DEF UnderWay
<1>3. dev = Dev(d)
  BY <1>1 DEF UnderWay
<1> DEFINE S == { Start(p) : p \in { q \in D : Straight(q) } }
           Sub(i) == { j \in { Child(InitEnts, InitMounts, i, n) : n \in DOMAIN InitEnts[i] } :
                          j \in DirInodes \ disturbed /\ Dev(j) = Dev(d) }
<1>4. S \subseteq DirInodes /\ d \in S
  BY <1>2 DEF Straight
<1>5. \A p, n : ~Unread(p, n)
  BY <1>1 DEF Unread, Idle
<1>6. ASSUME NEW p \in D, Straight(p), NEW n \in DOMAIN InitEnts[Start(p)],
             StartChild(Start(p), n) \notin disturbed, Dev(StartChild(Start(p), n)) = dev
      PROVE  /\ InitEnts[Start(p)][n] \in DirInodes => Append(p, n) \in D
             /\ InitEnts[Start(p)][n] \notin DirInodes => InHand(StartChild(Start(p), n))
  <2>1. TakenCare(D, p, n)
    BY <1>2, <1>6 DEF Traversed, Owed
  <2> QED
    BY <1>1, <1>5, <2>1 DEF TakenCare
<1>7. ASSUME NEW i \in S, NEW j \in Sub(i) PROVE j \in S
  <2>1. PICK p \in D : Straight(p) /\ Start(p) = i
    OBVIOUS
  <2>2. PICK n \in DOMAIN InitEnts[i] : j = StartChild(i, n)
    BY DEF StartChild
  <2>3. j \in DirInodes \ disturbed /\ Dev(j) = dev
    BY <1>3
  <2>4. InitEnts[i][n] \in DirInodes
    BY <1>4, <2>2, <2>3, StartChildIs
  <2>5. Append(p, n) \in D
    BY <1>6, <2>1, <2>2, <2>3, <2>4
  <2>6. Straight(Append(p, n)) /\ Start(Append(p, n)) = j
    BY <2>1, <2>2, <2>3, StraightOn
  <2> QED
    BY <2>5, <2>6
<1>8. InitBelow(d) \subseteq S
  <2>1. InitBelow(d) = { i \in DirInodes : \A T \in SUBSET DirInodes :
                            d \in T /\ (\A j \in T : Sub(j) \subseteq T) => i \in T }
    BY DEF InitBelow
  <2>2. \A j \in S : Sub(j) \subseteq S
    BY <1>7
  <2> HIDE DEF S, Sub, d
  <2> QED
    BY <1>4, <2>1, <2>2
<1>9. ASSUME NEW c \in InitFiles(d), c \notin exclude PROVE \E o \in out : o.ino = c
  <2>1. PICK i \in InitBelow(d) :
            c \in { Child(InitEnts, InitMounts, i, n) : n \in { x \in DOMAIN InitEnts[i] : InitEnts[i][x] \in FileInodes } }
    BY DEF InitFiles
  <2>2. PICK n \in DOMAIN InitEnts[i] : InitEnts[i][n] \in FileInodes /\ c = StartChild(i, n)
    BY <2>1 DEF StartChild
  <2>3. c \notin disturbed /\ Dev(c) = Dev(d)
    BY DEF InitFiles
  <2>4. PICK p \in D : Straight(p) /\ Start(p) = i
    BY <1>8
  <2>5. InitEnts[i][n] \notin DirInodes
    BY <2>2, WalkAssumption
  <2>6. InHand(c)
    BY <1>3, <1>6, <2>2, <2>3, <2>4, <2>5
  <2> QED
    BY <1>1, <1>9, <2>6 DEF InHand, Idle
<1> QED
  BY <1>9

LEMMA NextComplete ==
    ASSUME TypeOK, Steady, SeenIsListed, UnderWay, Complete, [Next]_vars
    PROVE  Complete'
<1>1. disturbed \subseteq disturbed' /\ out \subseteq out'
  BY NextSteady, SeenStaysListed
<1>2. root \in Nat
  BY DEF TypeOK
<1>3. CASE StatRoot \/ StatvfsRoot
  <2>1. root \in 1 .. Len(Roots)
    BY <1>3, WalkAssumption DEF StatRoot, StatvfsRoot, TypeOK
  <2>2. root' \in {root, root + 1} /\ (root' # root => At(Roots[root]) \notin Inodes)
    BY <1>2, <1>3 DEF StatRoot, StatvfsRoot, NoSuchRoot
  <2>3. Straight(Roots[root]) => At(Roots[root]) \in Inodes
    BY <2>1, RootIsThere DEF Straight, Inodes
  <2> QED
    BY <1>1, <1>2, <2>2, <2>3, StaysComplete
<1>4. CASE SkipRoot
  <2>1. root \in 1 .. Len(Roots) /\ Roots[root] \in Seq(Names) /\ root' = root + 1
    BY <1>4, WalkAssumption DEF SkipRoot, TypeOK
  <2>2. PICK p \in Seq(Names) : p = Roots[root]
    BY <2>1
  <2>3. Fault(At(p))
    BY <1>4, <2>2 DEF SkipRoot
  <2>4. At(p) \in Inodes => At(p) \in disturbed'
    BY <2>3, FaultKeepsSteady
  <2>5. ~(Straight(p) /\ Straight(p)')
    <3> SUFFICES ASSUME Straight(p), Straight(p)' PROVE FALSE
      OBVIOUS
    <3>1. Start(p) \in disturbed'
      BY <2>4, StraightIsThere DEF Straight, Inodes
    <3>2. Len(p) \in 0 .. Len(p) /\ SubSeq(p, 1, Len(p)) = p
      OBVIOUS
    <3> QED
      BY <3>1, <3>2 DEF Straight, Start
  <2> QED
    BY <1>1, <1>2, <2>1, <2>2, <2>5, StaysComplete
<1>5. CASE RootDone
  <2>1. root' = root + 1
    BY <1>5 DEF RootDone
  <2> QED
    BY <1>1, <1>2, <1>5, <2>1, DoneIsComplete, StaysComplete
<1>6. CASE root' = root
  BY <1>1, <1>2, <1>6, StaysComplete
<1>7. StatRoot \/ StatvfsRoot \/ SkipRoot \/ RootDone \/ root' = root
  <2>1. ASSUME NEW w \in Jobs, WorkerStep(w) PROVE root' = root
    BY <2>1 DEF WorkerStep, ReadDir, Examine, Send
  <2>2. ASSUME ScopeEnds \/ Receive \/ FaultStep PROVE root' = root
    BY <2>2 DEF ScopeEnds, Receive, FaultStep, ReadDirFails, ExamineFails
  <2>3. ASSUME UserStep PROVE root' = root
    BY <2>3, UsersAct DEF UserActs
  <2>4. CASE UNCHANGED vars
    BY <2>4 DEF vars
  <2> QED
    BY <2>1, <2>2, <2>3, <2>4 DEF Next
<1> QED
  BY <1>3, <1>4, <1>5, <1>6, <1>7

\* Every file of the dataset below a root that nobody has interfered with is
\* listed when files returns, for any tree, any number of workers and any
\* capacity of the channel, whatever users and faults do elsewhere.
THEOREM MissesNothing == Spec => []NothingMissed
<1> DEFINE Inv == Steady /\ SeenIsListed /\ OneDataset /\ UnderWay /\ Complete
<1>1. Init => Inv
  <2> SUFFICES ASSUME Init PROVE Inv
    OBVIOUS
  <2>1. Steady /\ SeenIsListed
    BY InitSteady DEF Init, SeenIsListed
  <2>2. UnderWay /\ OneDataset
    BY DEF Init, UnderWay, Walking, OneDataset
  <2>3. Complete
    BY WalkAssumption DEF Init, Complete
  <2> QED
    BY <2>1, <2>2, <2>3
<1>2. Inv /\ TypeOK /\ [Next]_vars => Inv'
  BY NextSteady, SeenStaysListed, NextOneDataset, NextUnderWay, NextComplete
<1>3. Inv /\ TypeOK => NothingMissed
  <2> SUFFICES ASSUME Complete, TypeOK, root > Len(Roots), NEW r \in DOMAIN Roots,
                      RootSteady(r)
               PROVE  InitFiles(Start(Roots[r])) \ exclude \subseteq { o.ino : o \in out }
    BY DEF NothingMissed, Start
  <2>1. Straight(Roots[r])
    BY DEF Straight, RootSteady, Start
  <2>2. r < root
    BY WalkAssumption DEF TypeOK
  <2> QED
    BY <2>1, <2>2 DEF Complete
<1> QED
  <2> HIDE DEF Inv
  <2> QED
    BY <1>1, <1>2, <1>3, Typed, PTL DEF Spec

-----------------------------------------------------------------------------
(* The list names one dataset.                                             *)

\* A root is steady as long as its path is straight.
LEMMA SteadyIsStraight ==
    ASSUME NEW r
    PROVE  RootSteady(r) <=> Straight(Roots[r])
BY DEF RootSteady, Straight, Start

\* What Receive lists is of the device that metadata saw, under the fsid that
\* statvfs saw; and a root that is disturbed later owes nothing.
LEMMA StepListsDataset ==
    ASSUME TypeOK, Steady, UnderWay, OneDataset, OnlyThisDataset, [Next]_vars
    PROVE  OnlyThisDataset'
<1>1. disturbed \subseteq disturbed'
  BY NextSteady
<1>2. ASSUME NEW r, RootSteady(r)' PROVE RootSteady(r)
  <2>1. Straight(Roots[r])'
    BY <1>2 DEF RootSteady, Straight, Start
  <2> QED
    BY <1>1, <2>1, StraightBefore, SteadyIsStraight
<1>3. CASE ~Receive
  BY <1>2, <1>3, OnlyReceiveLists DEF OnlyThisDataset
<1>4. CASE Receive
  <2>1. PICK kept : /\ kept \subseteq { f \in Head(chan).files : Fit(f) }
                    /\ out' = out \cup { Entered(f) : f \in kept }
    BY <1>4, Received
  <2>2. dev # Nil /\ fsid # Nil
    BY <1>4 DEF Receive, Receives, TypeOK
  <2>3. RootSteady(root) => fsid = Fsid[dev]
    BY <2>2, SteadyIsStraight DEF OneDataset
  <2>4. ASSUME NEW f \in kept
        PROVE  /\ Entered(f).root = root /\ Entered(f).fsid = fsid
               /\ Dev(Entered(f).ino) = dev /\ Entered(f).ino \notin exclude
    BY <2>1 DEF Fit, Entered
  <2>5. ASSUME NEW o \in out'
        PROVE  /\ RootSteady(o.root)' => o.fsid = Fsid[Dev(o.ino)]
               /\ o.ino \notin exclude
    <3>1. CASE o \in out
      BY <1>2, <3>1 DEF OnlyThisDataset
    <3>2. CASE o \notin out
      <4>1. PICK f \in kept : o = Entered(f)
        BY <2>1, <3>2
      <4> QED
        BY <1>2, <2>3, <2>4, <4>1
    <3> QED
      BY <3>1, <3>2
  <2> QED
    BY <2>5 DEF OnlyThisDataset
<1> QED
  BY <1>3, <1>4

\* Files are listed under the fsid of their own dataset, although the device and
\* the fsid of a root are looked up one after the other and mounts come and go in
\* between; unless it is the root's own path that changes meanwhile.
THEOREM ListsOnlyThisDataset == Spec => []OnlyThisDataset
<1> DEFINE Inv == Steady /\ SeenIsListed /\ OneDataset /\ UnderWay /\ OnlyThisDataset
<1>1. Init => Inv
  <2> SUFFICES ASSUME Init PROVE Inv
    OBVIOUS
  <2>1. Steady /\ SeenIsListed /\ OnlyThisDataset
    BY InitSteady DEF Init, SeenIsListed, OnlyThisDataset
  <2>2. UnderWay /\ OneDataset
    BY DEF Init, UnderWay, Walking, OneDataset
  <2> QED
    BY <2>1, <2>2
<1>2. Inv /\ TypeOK /\ [Next]_vars => Inv'
  BY NextSteady, SeenStaysListed, NextOneDataset, NextUnderWay, StepListsDataset
<1>3. Inv => OnlyThisDataset
  OBVIOUS
<1> QED
  <2> HIDE DEF Inv
  <2> QED
    BY <1>1, <1>2, <1>3, Typed, PTL DEF Spec
=============================================================================
