-------------------------------- MODULE Walk --------------------------------
(***************************************************************************)
(* src/walk.rs, files, walk_root and walk_dir: the regular files of the    *)
(* roots of one dataset are collected by pool workers that read one        *)
(* directory each and send what they found through a bounded channel to    *)
(* the thread that called files.  Users rename, link and remove files and  *)
(* directories and an administrator mounts and unmounts while it goes on.  *)
(*                                                                         *)
(* An inode is <<dev, ino>>.  A path is a sequence of names; what it       *)
(* stands for is looked up anew by every call that is given the path, and  *)
(* not looked up again by calls on an open directory.                      *)
(***************************************************************************)
EXTENDS Integers, Sequences, FiniteSets

CONSTANTS Jobs,           \* pool workers
          Capacity,       \* 1024 in walk_root
          Roots,          \* the roots of one dataset, in order
          exclude,        \* inodes that are not to be listed
          DirInodes,      \* directories
          FileInodes,     \* regular files
          InitEnts,       \* directory -> name -> inode
          Slash,          \* the directory "/"
          InitMounts,     \* covered inode -> the inode mounted on it
          NewMounts,      \* pairs of that kind that the administrator may add
          NewNames,       \* the names that users give
          Fsid,           \* dev -> what statvfs says of it
          Nil,            \* what a path that leads nowhere stands for
          MaxUserOps,     \* bound on what users do, but for undoing a mount
          MaxFaults       \* bound on failing calls

Inodes == DirInodes \cup FileInodes
Names  == NewNames \cup UNION { DOMAIN InitEnts[d] : d \in DirInodes }
Tree(t) == DOMAIN t = DirInodes
           /\ \A d \in DirInodes : DOMAIN t[d] \subseteq Names /\ \A n \in DOMAIN t[d] : t[d][n] \in Inodes

ASSUME WalkAssumption ==
    /\ Jobs # {} /\ Capacity \in Nat \ {0}
    /\ Roots \in Seq(Seq(Names)) /\ Roots # <<>>
    /\ DirInodes \cap FileInodes = {} /\ Slash \in DirInodes /\ Nil \notin Inodes /\ Nil \notin DOMAIN Fsid
    /\ Inodes \subseteq (DOMAIN Fsid) \X Nat /\ \A d \in DOMAIN Fsid : Fsid[d] # Nil
    /\ Tree(InitEnts)
    /\ DOMAIN InitMounts \subseteq Inodes /\ \A i \in DOMAIN InitMounts : InitMounts[i] \in Inodes
    /\ NewMounts \subseteq Inodes \X Inodes
    \* Directories cover directories only, and are covered by them only.
    /\ \A p \in NewMounts \cup { <<i, InitMounts[i]>> : i \in DOMAIN InitMounts } :
          p[1] \in DirInodes <=> p[2] \in DirInodes
    /\ IsFiniteSet(Inodes) /\ IsFiniteSet(Names)
    /\ MaxUserOps \in Nat /\ MaxFaults \in Nat

VARIABLES
    ents,       \* directory -> name -> inode
    mounts,     \* covered inode -> the inode mounted on it
    disturbed,  \* history: inodes that users moved, linked, covered, or that failed
    userOps, faults,
    root,       \* position in Roots of the root at hand
    dev,        \* root_dev, or Nil before its metadata call
    fsid,       \* the root's, or Nil before its statvfs call
    queue,      \* spawned directories that no worker has taken yet
    job,        \* worker -> the directory it reads
    chan,       \* the channel
    open,       \* is there a sender?
    seen, out   \* the locals of files

kernel == <<ents, mounts, disturbed, userOps, faults>>
vars   == <<kernel, root, dev, fsid, queue, job, chan, open, seen, out>>

-----------------------------------------------------------------------------
(* The file system (external).                                             *)

Dev(i) == i[1]
Top(mnt, i) == IF i \in DOMAIN mnt THEN mnt[i] ELSE i
Child(tree, mnt, i, n) ==
    IF i \in DirInodes /\ n \in DOMAIN tree[i] THEN Top(mnt, tree[i][n]) ELSE Nil
Resolve(tree, mnt, path) ==
    LET at[k \in 0 .. Len(path)] ==
            IF k = 0 THEN Top(mnt, Slash) ELSE Child(tree, mnt, at[k - 1], path[k])
    IN  at[Len(path)]
At(path) == Resolve(ents, mounts, path)
NLink(i) == Cardinality({ e \in DirInodes \X Names : e[2] \in DOMAIN ents[e[1]] /\ ents[e[1]][e[2]] = i })

UserActs(touched) ==
    /\ disturbed' = disturbed \cup touched
    /\ UNCHANGED <<faults, root, dev, fsid, queue, job, chan, open, seen, out>>

Without(d, n)    == [ents EXCEPT ![d] = [m \in DOMAIN @ \ {n} |-> @[m]]]
With(tree, d, n, i) == [tree EXCEPT ![d] = [m \in DOMAIN @ \cup {n} |-> IF m = n THEN i ELSE @[m]]]
Used(d) == { n \in Names : n \in DOMAIN ents[d] }

Unlink(d, n) ==
    /\ ents[d][n] \in FileInodes \ DOMAIN mounts
    /\ UserActs({ents[d][n]})
    /\ ents' = Without(d, n)
    /\ UNCHANGED mounts

\* Mount points do not move, and of directories only those without directories.
Rename(d, n, d2, n2) ==
    LET i == ents[d][n] IN
    /\ i \notin DOMAIN mounts
    /\ Dev(d2) = Dev(i) /\ n2 \notin Used(d2)
    /\ i \in DirInodes => d2 # i /\ \A m \in DOMAIN ents[i] : ents[i][m] \in FileInodes
    /\ UserActs({i})
    /\ ents' = With(Without(d, n), d2, n2, i)
    /\ UNCHANGED mounts

Link(d, n, d2, n2) ==
    LET i == ents[d][n] IN
    /\ i \in FileInodes /\ Dev(d2) = Dev(i) /\ n2 \notin Used(d2)
    /\ UserActs({i})
    /\ ents' = With(ents, d2, n2, i)
    /\ UNCHANGED mounts

Mount(i, m) ==
    /\ i \notin DOMAIN mounts
    /\ UserActs({i})
    /\ mounts' = [j \in DOMAIN mounts \cup {i} |-> IF j = i THEN m ELSE mounts[j]]
    /\ UNCHANGED ents

\* What was mounted goes, and what it covered is back.
Umount(i) ==
    /\ UserActs({i, mounts[i]})
    /\ mounts' = [j \in DOMAIN mounts \ {i} |-> mounts[j]]
    /\ UNCHANGED ents

UserStep ==
    \/ /\ userOps < MaxUserOps
       /\ userOps' = userOps + 1
       /\ \/ \E d \in DirInodes : \E n \in Used(d) :
                \/ Unlink(d, n)
                \/ \E d2 \in DirInodes, n2 \in NewNames : Rename(d, n, d2, n2) \/ Link(d, n, d2, n2)
          \/ \E p \in NewMounts : Mount(p[1], p[2])
    \/ /\ UNCHANGED userOps
       /\ \E i \in DOMAIN mounts : Umount(i)

-----------------------------------------------------------------------------
(* walk_dir.                                                               *)

Idle == [pc |-> "idle", path |-> <<>>, dir |-> Nil, left |-> {}, batch |-> {}]

\* read_dir: the names of the directory that the path leads to by now, with
\* the type that readdir reports, which is that of a covered entry.
Listing(d) == { [name |-> n, isDir |-> ents[d][n] \in DirInodes] : n \in Used(d) }

ReadDir(w, path) ==
    /\ job[w].pc = "idle"
    /\ path \in queue
    /\ queue' = queue \ {path}
    /\ LET d == At(path) IN
       job' = IF d \notin DirInodes THEN job
              ELSE [job EXCEPT ![w] = [Idle EXCEPT !.pc = "read", !.path = path,
                                                   !.dir = d, !.left = Listing(d)]]
    /\ UNCHANGED <<kernel, root, dev, fsid, chan, open, seen, out>>

\* entry.metadata on the open directory.
Examine(w, e) ==
    /\ job[w].pc = "read" /\ e \in job[w].left
    /\ LET i   == Child(ents, mounts, job[w].dir, e.name)
           sub == Append(job[w].path, e.name)
           f   == [name |-> e.name, ino |-> i, nlink |-> NLink(i)]
       IN  /\ queue' = IF i \in Inodes /\ e.isDir /\ Dev(i) = dev THEN queue \cup {sub} ELSE queue
           /\ job' = [job EXCEPT ![w].left = @ \ {e},
                                 ![w].batch = IF i \in Inodes /\ ~e.isDir THEN @ \cup {f} ELSE @]
    /\ UNCHANGED <<kernel, root, dev, fsid, chan, open, seen, out>>

\* May a worker send; and a faulty variant without a bound.
RoomAlways == TRUE
Room == Len(chan) < Capacity

\* tx.send, which blocks on a full channel; an empty batch is not sent.
Send(w) ==
    /\ job[w].pc = "read" /\ job[w].left = {}
    /\ job[w].batch # {} => Room
    /\ chan' = IF job[w].batch = {} THEN chan
               ELSE Append(chan, [dir |-> job[w].path, files |-> job[w].batch])
    /\ job' = [job EXCEPT ![w] = Idle]
    /\ UNCHANGED <<kernel, root, dev, fsid, queue, open, seen, out>>

Fault(i) ==
    /\ faults < MaxFaults
    /\ faults' = faults + 1
    /\ disturbed' = disturbed \cup ({i} \cap Inodes)
    /\ UNCHANGED <<ents, mounts, userOps>>

\* read_dir or entry.metadata fails: reported and skipped.
ReadDirFails(path) ==
    /\ path \in queue
    /\ queue' = queue \ {path}
    /\ Fault(At(path))
    /\ UNCHANGED <<root, dev, fsid, job, chan, open, seen, out>>
ExamineFails(w, e) ==
    /\ job[w].pc = "read" /\ e \in job[w].left
    /\ job' = [job EXCEPT ![w].left = @ \ {e}]
    /\ Fault(Child(ents, mounts, job[w].dir, e.name))
    /\ UNCHANGED <<root, dev, fsid, queue, chan, open, seen, out>>

WorkerStep(w) ==
    \/ \E path \in queue : ReadDir(w, path)
    \/ \E e \in job[w].left : Examine(w, e)
    \/ Send(w)

FaultStep == \/ \E path \in queue : ReadDirFails(path)
             \/ \E w \in Jobs : \E e \in job[w].left : ExamineFails(w, e)

-----------------------------------------------------------------------------
(* walk_root and files.                                                    *)

Walking == root <= Len(Roots) /\ fsid # Nil

\* A root that is gone is skipped.
NoSuchRoot ==
    /\ At(Roots[root]) \notin Inodes
    /\ root' = root + 1
    /\ dev' = Nil
    /\ UNCHANGED <<fsid, queue, open>>

\* metadata(root) and statvfs(root) look the path up one after the other.
StatRoot ==
    /\ root <= Len(Roots) /\ dev = Nil
    /\ \/ NoSuchRoot
       \/ /\ At(Roots[root]) \in Inodes
          /\ dev' = Dev(At(Roots[root]))
          /\ UNCHANGED <<root, fsid, queue, open>>
    /\ UNCHANGED <<kernel, job, chan, seen, out>>

StatvfsRoot ==
    /\ dev # Nil /\ fsid = Nil
    /\ \/ NoSuchRoot
       \/ /\ At(Roots[root]) \in Inodes
          /\ fsid' = Fsid[Dev(At(Roots[root]))]
          /\ queue' = {Roots[root]}
          /\ open' = TRUE
          /\ UNCHANGED <<root, dev>>
    /\ UNCHANGED <<kernel, job, chan, seen, out>>

\* Either call fails.
SkipRoot ==
    /\ root <= Len(Roots) /\ fsid = Nil
    /\ root' = root + 1
    /\ dev' = Nil
    /\ Fault(At(Roots[root]))
    /\ UNCHANGED <<fsid, queue, job, chan, open, seen, out>>

\* When rayon::scope returns; and a faulty variant that does not wait for the
\* directories that are being read.
NothingQueued == queue = {}
ScopeDone == queue = {} /\ \A w \in Jobs : job[w].pc = "idle"

\* rayon::scope returns, drop(tx).
ScopeEnds ==
    /\ Walking /\ open
    /\ ScopeDone
    /\ open' = FALSE
    /\ UNCHANGED <<kernel, root, dev, fsid, queue, job, chan, seen, out>>

\* When the receiving thread runs; and a faulty variant that makes it wait
\* for the scope, as it would without a thread of its own for the scope.
ReceivesAfterScope == chan # <<>> /\ ~open
Receives == chan # <<>>

\* What the receiver keeps; and a faulty variant that trusts the walk.
FitAnyDev(f) == f.ino \notin exclude
Fit(f) == Dev(f.ino) = dev /\ f.ino \notin exclude

\* Of the names with several links, the first of each inode that was not seen
\* before; the order within a batch is readdir's.
Collapses(kept, files) ==
    \A f \in files :
        IF f.nlink > 1 /\ f.ino \notin seen
        THEN \E g \in kept : { h \in kept : h.ino = f.ino /\ h.nlink > 1 } = {g}
        ELSE f \in kept <=> f.nlink <= 1

\* What seen becomes; and a faulty variant that forgets with every batch.
SeenInBatch(files) == { f.ino : f \in { f \in files : f.nlink > 1 } }
SeenAfter(files) == seen \cup { f.ino : f \in { f \in files : f.nlink > 1 } }

\* One batch of the rx loop.
Receive ==
    /\ Receives
    /\ LET files == { f \in Head(chan).files : Fit(f) } IN
       /\ \E kept \in SUBSET files :
             /\ Collapses(kept, files)
             /\ out' = out \cup { [root |-> root, dir |-> Head(chan).dir, name |-> f.name,
                                   ino |-> f.ino, nlink |-> f.nlink, fsid |-> fsid] : f \in kept }
       /\ seen' = SeenAfter(files)
    /\ chan' = Tail(chan)
    /\ UNCHANGED <<kernel, root, dev, fsid, queue, job, open>>

\* The rx loop ends: the channel is empty and has no sender.
RootDone ==
    /\ Walking /\ ~open /\ chan = <<>>
    /\ root' = root + 1
    /\ dev' = Nil /\ fsid' = Nil
    /\ UNCHANGED <<kernel, queue, job, chan, open, seen, out>>

Init ==
    /\ ents = InitEnts /\ mounts = InitMounts
    /\ disturbed = {} /\ userOps = 0 /\ faults = 0
    /\ root = 1 /\ dev = Nil /\ fsid = Nil
    /\ queue = {} /\ job = [w \in Jobs |-> Idle]
    /\ chan = <<>> /\ open = FALSE
    /\ seen = {} /\ out = {}

Next ==
    \/ StatRoot \/ StatvfsRoot \/ SkipRoot
    \/ \E w \in Jobs : WorkerStep(w)
    \/ ScopeEnds \/ Receive \/ RootDone
    \/ FaultStep \/ UserStep

Spec == Init /\ [][Next]_vars

\* Every thread of the tool is scheduled; users and faults owe nothing.
FairSpec ==
    /\ Spec
    /\ \A w \in Jobs : WF_vars(WorkerStep(w))
    /\ WF_vars(StatRoot) /\ WF_vars(StatvfsRoot) /\ WF_vars(ScopeEnds) /\ WF_vars(Receive) /\ WF_vars(RootDone)

-----------------------------------------------------------------------------
(* Properties.                                                             *)

Entry == [name : Names, isDir : BOOLEAN]
File  == [name : Names, ino : Inodes, nlink : Nat]
Job   == [pc : {"idle", "read"}, path : Seq(Names), dir : DirInodes \cup {Nil},
          left : SUBSET Entry, batch : SUBSET File]
Listed == [root : DOMAIN Roots, dir : Seq(Names), name : Names, ino : Inodes,
           nlink : Nat, fsid : { Fsid[d] : d \in DOMAIN Fsid }]

KernelOK ==
    /\ Tree(ents)
    /\ DOMAIN mounts \subseteq Inodes /\ \A i \in DOMAIN mounts : mounts[i] \in Inodes
    /\ disturbed \subseteq Inodes
    /\ userOps \in Nat /\ faults \in Nat

\* The types of the state; and "peak memory stays at O(workers * dir size +
\* channel capacity)": one batch per worker, at most Capacity in the channel,
\* and nothing of one root is left when the next one starts.
TypeOK ==
    /\ KernelOK
    /\ root \in 1 .. Len(Roots) + 1
    /\ dev \in DOMAIN Fsid \cup {Nil}
    /\ fsid \in { Fsid[d] : d \in DOMAIN Fsid } \cup {Nil}
    /\ queue \subseteq Seq(Names)
    /\ job \in [Jobs -> Job]
    /\ chan \in Seq([dir : Seq(Names), files : SUBSET File])
    /\ Len(chan) <= Capacity
    /\ open \in BOOLEAN
    /\ seen \subseteq Inodes /\ out \subseteq Listed
    /\ \A w \in Jobs : job[w] = Idle \/ (job[w].pc = "read" /\ job[w].dir \in DirInodes)
    /\ ~open => queue = {} /\ \A w \in Jobs : job[w] = Idle
    /\ fsid = Nil => ~open /\ chan = <<>>
    /\ dev = Nil => fsid = Nil
    /\ root > Len(Roots) => dev = Nil

\* "`seen` collapses hardlinks", across directories and roots, whichever
\* workers meet the links in which order, and while users make or move links:
\* of the names under which an inode was met with several links, one is listed.
HardlinksCollapse ==
    \A o, q \in out : o.ino = q.ino /\ o.nlink > 1 /\ q.nlink > 1 => o = q

\* "Hardlinked sets are collapsed to one path": no inode is listed twice.
OnePathPerInode == \A o, q \in out : o.ino = q.ino => o = q

\* The directories below inode d, and on its device, that could be reached at
\* first through undisturbed directories: those in every set that has d and is
\* closed under subdirectories.
InitBelow(d) ==
    LET Sub(i) == { j \in { Child(InitEnts, InitMounts, i, n) : n \in DOMAIN InitEnts[i] } :
                       j \in DirInodes \ disturbed /\ Dev(j) = Dev(d) }
    IN  { i \in DirInodes : \A S \in SUBSET DirInodes :
              d \in S /\ (\A j \in S : Sub(j) \subseteq S) => i \in S }

InitFiles(d) ==
    LET Regular(i) == { n \in DOMAIN InitEnts[i] : InitEnts[i][n] \in FileInodes }
        all == UNION { { Child(InitEnts, InitMounts, i, n) : n \in Regular(i) } : i \in InitBelow(d) }
    IN  { j \in all \ disturbed : Dev(j) = Dev(d) }

\* The root was a directory, and no user or fault has disturbed what a prefix of
\* its path led to.
RootSteady(r) ==
    /\ Resolve(InitEnts, InitMounts, Roots[r]) \in DirInodes
    /\ \A k \in 0 .. Len(Roots[r]) :
          Resolve(InitEnts, InitMounts, SubSeq(Roots[r], 1, k)) \notin disturbed

\* "`exclude` pre-seeds the seen set", "different dev means we crossed a mount
\* point": files are told apart by the device that metadata saw and tagged with
\* the fsid that statvfs saw later, since the hash cache is keyed by it.  Whatever
\* is mounted in or below the roots before, between and after the two, no file
\* is listed under the fsid of another dataset, and never an excluded one.  Only
\* a root whose own path is mounted over, moved or lost under way may have two.
OnlyThisDataset ==
    \A o \in out : /\ RootSteady(o.root) => o.fsid = Fsid[Dev(o.ino)]
                   /\ o.ino \notin exclude

\* Every regular file of the roots' dataset is listed when files returns,
\* unless it is excluded, or a user or a failing call interfered with it or
\* with a directory above it.
NothingMissed ==
    root > Len(Roots) =>
        \A r \in DOMAIN Roots :
            RootSteady(r) =>
                InitFiles(Resolve(InitEnts, InitMounts, Roots[r])) \ exclude \subseteq { o.ino : o \in out }

\* files returns: the workers that block on a full channel and the receiver
\* that waits for them do not wait for each other for ever.
WalkReturns == <>(root > Len(Roots))
=============================================================================
