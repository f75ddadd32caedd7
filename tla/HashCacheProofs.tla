-------------------------- MODULE HashCacheProofs --------------------------
(***************************************************************************)
(* Proofs about HashCache for any datasets, files, batch size and number   *)
(* of user operations, clones, runs and crashes.                           *)
(***************************************************************************)
EXTENDS HashCache, TLAPS

-----------------------------------------------------------------------------
(* Types.                                                                  *)

\* Users and clones, the steps that give stamps.
Stamping == UserStep \/ \E p \in AllPaths : Clone(p)

\* What a user leaves alone, and what a clone does.
LEMMA UsersAct ==
    UserStep => userOps' = userOps + 1
                /\ UNCHANGED <<clones, touched, db, phase, loop, queue, slot, hashed, failed>>
BY DEF UserStep, Write, Backdate, Unlink, Rename, UserActs

LEMMA ClonesAct ==
    ASSUME NEW p \in AllPaths, Clone(p)
    PROVE  /\ clones' = clones + 1 /\ touched' = touched \cup {names[p]}
           /\ UNCHANGED <<userOps, names, db, phase, loop, queue, slot, hashed, failed>>
BY DEF Clone

LEMMA ClockTicks ==
    ASSUME TypeOK
    PROVE  Now \in Nat /\ (Stamping => Now' = Now + 1)
<1>1. userOps \in Nat /\ clones \in Nat
  BY DEF TypeOK
<1>2. CASE UserStep
  BY <1>1, <1>2, UsersAct DEF Now
<1>3. ASSUME NEW p \in AllPaths, Clone(p) PROVE Now' = Now + 1
  BY <1>1, <1>3, ClonesAct DEF Now
<1> QED
  BY <1>1, <1>2, <1>3 DEF Now, Stamping

\* What StampOf returns is a stamp, and no younger than the last operation.
LEMMA StampOfType ==
    ASSUME TypeOK, NEW k \in Inodes
    PROVE  StampOf(k) \in Stamp /\ StampOf(k).ctime <= Now
BY ClockTicks DEF TypeOK, FilesOK, StampOf, Stamp

\* The initial state has its types.
LEMMA InitTyped == Init => TypeOK
<1>1. 1 \in DOMAIN Fsids
  BY HashCacheAssumption
<1> QED
  BY <1>1, HashCacheAssumption
  DEF Init, TypeOK, FilesOK, DbOK, SlotOK, Inodes, AllPaths, Now

\* What a record of the batch must satisfy, and that replacing one keeps the
\* batch well-formed.
GoodTask(t) ==
    /\ t \in Task
    /\ t.pc \in {"todo", "miss"} => t.hashes = <<>>
    /\ t.pc \in {"hit", "read", "new"} =>
          t.key \in Inodes /\ t.stamp \in Stamp /\ t.stamp.ctime <= Now

LEMMA BatchIsGood ==
    ASSUME TypeOK, NEW p \in DOMAIN slot
    PROVE  GoodTask(slot[p]) /\ phase = "hash" /\ p \in AllPaths
BY DEF TypeOK, SlotOK, GoodTask

LEMMA TaskReplaced ==
    ASSUME TypeOK, NEW p \in DOMAIN slot, NEW t, GoodTask(t),
           slot' = [slot EXCEPT ![p] = t], UNCHANGED <<phase, userOps, clones>>
    PROVE  SlotOK'
BY DEF Now, TypeOK, SlotOK, GoodTask

\* What one more chunk of a file makes of the hashes read so far.
LEMMA NextElementAppended ==
    ASSUME NEW S, NEW s \in Seq(S), NEW d \in Seq(S), Len(s) < Len(d)
    PROVE  Append(s, d[Len(s) + 1]) \in Seq(S)
OBVIOUS

\* Every step keeps the types.
LEMMA NextTyped ==
    ASSUME TypeOK, [Next]_vars
    PROVE  TypeOK'
<1> USE HashCacheAssumption DEF Inodes, AllPaths
<1>1. ASSUME Stamping PROVE TypeOK'
  <2>0. Now' = Now + 1 /\ Now \in Nat
    BY <1>1, ClockTicks
  <2> /\ userOps' \in Nat /\ clones' \in Nat /\ touched' \subseteq Inodes
      /\ UNCHANGED <<db, phase, loop, queue, slot, hashed>>
    <3>1. CASE UserStep
      BY <3>1, UsersAct DEF TypeOK
    <3>2. ASSUME NEW p \in AllPaths, Clone(p)
          PROVE  /\ userOps' \in Nat /\ clones' \in Nat /\ touched' \subseteq Inodes
                 /\ UNCHANGED <<db, phase, loop, queue, slot, hashed>>
      <4>1. names[p] \in Inodes
        BY <3>2 DEF Clone, TypeOK, FilesOK
      <4> QED
        BY <3>2, <4>1, ClonesAct DEF TypeOK
    <3> QED
      BY <1>1, <3>1, <3>2 DEF Stamping
  <2>1. FilesOK'
    <3> /\ fs \in [Inodes -> [data : Seq(Hash), mtime : 0 .. Now, ctime : 0 .. Now]]
        /\ names \in [AllPaths -> Inodes \cup {Gone}]
        /\ Versions \subseteq Seq(Hash)
      BY DEF TypeOK, FilesOK
    <3> \A k \in Inodes : fs[k].data \in Seq(Hash)
      OBVIOUS
    <3> HIDE HashCacheAssumption DEF Inodes, AllPaths
    <3>5. 0 .. Now \subseteq 0 .. Now' /\ 0 \in 0 .. Now' /\ Now' \in 0 .. Now'
      BY <2>0
    <3>6. fs \in [Inodes -> [data : Seq(Hash), mtime : 0 .. Now', ctime : 0 .. Now']]
      BY <3>5
    <3>1. CASE \E k \in Inodes, data \in Versions : Write(k, data)
      <4> PICK k \in Inodes, data \in Seq(Hash) : Write(k, data)
        BY <3>1
      <4>1. fs' = [fs EXCEPT ![k] = [data |-> data, mtime |-> Now', ctime |-> Now']]
            /\ names' = names
        BY DEF Write
      <4> QED
        BY <3>5, <3>6, <4>1 DEF FilesOK
    <3>2. CASE \E k \in Inodes : Backdate(k)
      <4> PICK k \in Inodes : Backdate(k)
        BY <3>2
      <4>1. fs' = [fs EXCEPT ![k] = [data |-> fs[k].data, mtime |-> 0, ctime |-> Now']]
            /\ names' = names
        BY DEF Backdate
      <4> QED
        BY <3>5, <3>6, <4>1 DEF FilesOK
    <3>3. CASE \E p \in AllPaths : Unlink(p)
      BY <3>3, <3>6 DEF Unlink, TypeOK, FilesOK
    <3>4. CASE \E p, q \in AllPaths : Rename(p, q)
      <4> PICK p \in AllPaths, q \in AllPaths : Rename(p, q)
        BY <3>4
      <4>1. fs' = fs /\ names' \in [AllPaths -> Inodes \cup {Gone}]
        BY DEF Rename, TypeOK, FilesOK
      <4> QED
        BY <3>6, <4>1 DEF TypeOK, FilesOK
    <3>7. CASE \E p \in AllPaths : Clone(p)
      <4> PICK p \in AllPaths : Clone(p)
        BY <3>7
      <4>1. /\ names[p] \in Inodes /\ names' = names
            /\ fs' = [fs EXCEPT ![names[p]] =
                        [data |-> fs[names[p]].data, mtime |-> Now', ctime |-> Now']]
        BY DEF Clone
      <4> QED
        BY <3>5, <3>6, <4>1 DEF FilesOK
    <3> QED
      BY <1>1, <3>1, <3>2, <3>3, <3>4, <3>7 DEF Stamping, UserStep
  <2>2. DbOK'
    BY <2>0 DEF TypeOK, DbOK, Stamp
  <2>3. SlotOK'
    <3>1. phase' = phase /\ slot' = slot
      OBVIOUS
    <3>2. ASSUME NEW p \in DOMAIN slot, slot[p].pc \in {"hit", "read", "new"}
          PROVE  /\ slot[p].key \in Inodes
                 /\ slot[p].stamp \in Stamp /\ slot[p].stamp.ctime <= Now'
      <4>1. /\ slot[p].key \in Inodes
            /\ slot[p].stamp \in Stamp /\ slot[p].stamp.ctime <= Now
        BY <3>2 DEF TypeOK, SlotOK
      <4>3. slot[p].stamp.ctime \in Nat
        BY <4>1 DEF Stamp
      <4> QED
        BY <2>0, <4>1, <4>3
    <3> QED
      BY <3>1, <3>2 DEF TypeOK, SlotOK
  <2> QED
    BY <2>1, <2>2, <2>3 DEF TypeOK, loop
<1>2. ASSUME NEW p \in DOMAIN slot, TaskStep(p) PROVE TypeOK'
  <2> UNCHANGED <<disk, touched, db, phase, group, scan, queue, hashed>>
    BY <1>2 DEF TaskStep, Lookup, OpenAndStat, ReadChunk, HashError, Becomes, loop
  <2>1. FilesOK' /\ DbOK'
    BY DEF TypeOK, FilesOK, DbOK, disk, Now
  <2>2. SlotOK'
    <3> DEFINE k == names[p]
               t == slot[p]
    <3> GoodTask(t) /\ p \in AllPaths
      BY BatchIsGood
    <3> k \in Inodes \cup {Gone}
      BY DEF TypeOK, FilesOK
    <3> k \in Inodes => StampOf(k) \in Stamp /\ StampOf(k).ctime <= Now
      BY StampOfType DEF TypeOK
    <3> UNCHANGED <<phase, userOps, clones>>
      BY DEF disk
    <3>1. CASE Lookup(p)
      <4> DEFINE hit == [t EXCEPT !.pc = "hit", !.key = k, !.stamp = StampOf(k)]
      <4>1. GoodTask([t EXCEPT !.pc = "err"]) /\ (t.pc = "todo" => GoodTask([t EXCEPT !.pc = "miss"]))
        BY DEF GoodTask, Task
      <4>2. k # Gone => GoodTask(hit)
        BY DEF GoodTask, Task
      <4> QED
        BY <3>1, <4>1, <4>2, TaskReplaced DEF Lookup, InBatch, Becomes
    <3>2. CASE OpenAndStat(p)
      <4> DEFINE open == [t EXCEPT !.pc = "read", !.key = k, !.stamp = StampOf(k)]
      <4>1. GoodTask([t EXCEPT !.pc = "err"])
        BY DEF GoodTask, Task
      <4>2. k # Gone => GoodTask(open)
        BY DEF GoodTask, Task
      <4> QED
        BY <3>2, <4>1, <4>2, TaskReplaced DEF OpenAndStat, InBatch, Becomes
    <3>3. CASE ReadChunk(p)
      <4> DEFINE data == fs[t.key].data
                 more == [t EXCEPT !.hashes = Append(@, data[Len(t.hashes) + 1])]
                 end  == [t EXCEPT !.pc = "new", !.stamp = t.stamp]
      <4> t.pc = "read" /\ t.key \in Inodes /\ t.hashes \in Seq(Hash) /\ data \in Seq(Hash)
        BY <3>3 DEF ReadChunk, InBatch, GoodTask, Task, TypeOK, FilesOK
      <4>1. ASSUME Len(t.hashes) < Len(data) PROVE GoodTask(more)
        <5> HIDE HashCacheAssumption DEF t, data, Inodes, AllPaths
        <5> Append(t.hashes, data[Len(t.hashes) + 1]) \in Seq(Hash)
          BY <4>1, NextElementAppended
        <5> QED
          BY DEF GoodTask, Task
      <4>2. GoodTask(end)
        BY DEF GoodTask, Task
      <4> QED
        BY <3>3, <4>1, <4>2, TaskReplaced DEF ReadChunk, Becomes, StampBefore
    <3>4. CASE HashError(p)
      <4> GoodTask([t EXCEPT !.pc = "err"])
        BY DEF GoodTask, Task
      <4> slot' = [slot EXCEPT ![p] = [t EXCEPT !.pc = "err"]]
        BY <3>4 DEF HashError
      <4> QED
        BY TaskReplaced
    <3> QED
      BY <1>2, <3>1, <3>2, <3>3, <3>4 DEF TaskStep
  <2> QED
    BY <2>1, <2>2 DEF TypeOK, disk
<1>3. ASSUME TakeBatch PROVE TypeOK'
  BY <1>3 DEF TakeBatch, Todo, TypeOK, FilesOK, DbOK, SlotOK, Task, disk, loop, Now
<1>4. ASSUME PutBatch PROVE TypeOK'
  <2> /\ UNCHANGED <<fs, names, userOps, clones, phase, group, scan, queue>> /\ slot' = <<>>
      /\ Now' = Now /\ (touched \subseteq Inodes => touched' \subseteq Inodes)
    BY <1>4 DEF PutBatch, disk, loop, Now
  <2>1. FilesOK' /\ SlotOK'
    BY DEF TypeOK, FilesOK, SlotOK
  <2>2. DbOK'
    <3> PICK last \in [NewKeys -> DOMAIN slot] :
              /\ \A k \in NewKeys : last[k] \in New(k)
              /\ db' = [k \in DOMAIN db \cup NewKeys |->
                          IF k \in NewKeys
                          THEN [stamp |-> slot[last[k]].stamp, hashes |-> slot[last[k]].hashes]
                          ELSE db[k]]
      BY <1>4 DEF PutBatch
    <3> ASSUME NEW k \in NewKeys
        PROVE  /\ slot[last[k]].stamp \in Stamp /\ slot[last[k]].hashes \in Seq(Hash)
               /\ slot[last[k]].stamp.ctime <= Now /\ k \in Inodes
      BY BatchIsGood DEF New, NewKeys, GoodTask, Task
    <3> QED
      BY DEF TypeOK, DbOK
  <2>3. hashed' \subseteq Inodes
    BY <1>4, BatchIsGood DEF PutBatch, GoodTask, TypeOK
  <2> QED
    BY <2>1, <2>2, <2>3 DEF TypeOK
<1>5. ASSUME AllHashed \/ Start \/ Walk \/ NextGroup \/ Crash PROVE TypeOK'
  <2> UNCHANGED <<disk, touched, db>> /\ slot' = <<>>
    BY <1>5 DEF AllHashed, Start, Walk, NextGroup, Crash, TypeOK, SlotOK
  <2>1. FilesOK' /\ DbOK' /\ SlotOK'
    BY DEF TypeOK, FilesOK, DbOK, SlotOK, disk, Now
  <2>2. group' \in DOMAIN Fsids
    <3> Len(Fsids) \in Nat /\ DOMAIN Fsids = 1 .. Len(Fsids) /\ 1 \in DOMAIN Fsids
      OBVIOUS
    <3> QED
      BY <1>5 DEF AllHashed, Start, Walk, NextGroup, Crash, loop, TypeOK
  <2>3. scan' \subseteq AllPaths /\ queue' \subseteq AllPaths /\ hashed' \subseteq Inodes
    BY <1>5 DEF AllHashed, Start, Walk, NextGroup, Crash, loop, TypeOK
  <2> QED
    BY <1>5, <2>1, <2>2, <2>3 DEF AllHashed, Start, Walk, NextGroup, Crash, TypeOK, disk
<1>6. ASSUME Prune PROVE TypeOK'
  BY <1>6 DEF Prune, TypeOK, FilesOK, DbOK, SlotOK, disk, loop, Now
<1>7. ASSUME UNCHANGED vars PROVE TypeOK'
  BY <1>7 DEF vars, disk, loop, TypeOK, FilesOK, DbOK, SlotOK, Now
<1> QED
  BY <1>1, <1>2, <1>3, <1>4, <1>5, <1>6, <1>7 DEF Next, ToolStep, Stamping

\* TypeOK holds in every reachable state: no stamp of the cache or of a task is
\* younger than the last operation of a user or clone, and a dead run leaves no task behind.
THEOREM Typed == Spec => []TypeOK
BY InitTyped, NextTyped, PTL DEF Spec

-----------------------------------------------------------------------------
(* The cache is honest.                                                    *)

\* A file that still has the stamp of a task's fstat has not been touched since,
\* so what the task has read of it is a prefix of what it holds now.
PrefixOf(s, t) == Len(s) <= Len(t) /\ \A i \in 1 .. Len(s) : s[i] = t[i]

HonestTask(t) ==
    t.pc \in {"read", "new"} /\ t.stamp = StampOf(t.key) =>
        /\ PrefixOf(t.hashes, fs[t.key].data)
        /\ t.pc = "new" => t.hashes = fs[t.key].data

TasksHonest == \A p \in DOMAIN slot : HonestTask(slot[p])

\* A user operation or a clone leaves an inode alone or gives it a ctime of its
\* own, and a clone leaves the data.
LEMMA WritesAreStamped ==
    ASSUME TypeOK, Stamping, NEW k \in Inodes
    PROVE  /\ fs'[k] = fs[k] \/ fs'[k].ctime = Now + 1
           /\ UNCHANGED <<db, slot>>
<1>1. Now' = Now + 1
  BY ClockTicks
<1>2. CASE UserStep
  BY <1>1, <1>2 DEF UserStep, Write, Backdate, Unlink, Rename, UserActs, TypeOK, FilesOK
<1>3. CASE \E p \in AllPaths : Clone(p)
  BY <1>1, <1>3 DEF Clone, TypeOK, FilesOK
<1> QED
  BY <1>2, <1>3 DEF Stamping

\* The stamp of an inode is its old one, or one that nobody has seen.
LEMMA OldStampsAreStale ==
    ASSUME TypeOK, Stamping, NEW k \in Inodes, NEW stamp \in Stamp,
           stamp.ctime <= Now, stamp = StampOf(k)'
    PROVE  fs'[k] = fs[k] /\ stamp = StampOf(k)
<1>1. fs'[k].ctime # Now + 1
  BY ClockTicks DEF StampOf, Stamp
<1> QED
  BY <1>1, WritesAreStamped DEF StampOf

LEMMA InitHonest == Init => CacheHonest /\ TasksHonest
BY DEF Init, CacheHonest, TasksHonest

\* matches compares the whole stamp.
LEMMA MatchesIsEquality ==
    ASSUME TypeOK, NEW k \in DOMAIN db
    PROVE  matches(db[k], StampOf(k)) <=> db[k].stamp = StampOf(k)
BY DEF matches, StampOf, Stamp, TypeOK, DbOK

LEMMA NextHonest ==
    ASSUME TypeOK, TypeOK', CacheHonest, TasksHonest, [Next]_vars
    PROVE  CacheHonest' /\ TasksHonest'
<1>1. ASSUME Stamping PROVE CacheHonest' /\ TasksHonest'
  <2>1. CacheHonest'
    <3> SUFFICES ASSUME NEW k \in DOMAIN db', matches(db'[k], StampOf(k)')
                 PROVE  db'[k].hashes = fs'[k].data
      BY DEF CacheHonest, matches
    <3>1. k \in Inodes /\ db' = db /\ db[k].stamp \in Stamp /\ db[k].stamp.ctime <= Now
      BY <1>1, WritesAreStamped DEF TypeOK, DbOK
    <3>2. db[k].stamp = StampOf(k)'
      BY <3>1 DEF matches, StampOf, Stamp
    <3>3. fs'[k] = fs[k] /\ db[k].stamp = StampOf(k)
      BY <1>1, <3>1, <3>2, OldStampsAreStale
    <3> QED
      BY <3>1, <3>3, MatchesIsEquality DEF CacheHonest
  <2>2. TasksHonest'
    <3>1. slot' = slot
      BY <1>1 DEF Stamping, UserStep, Write, Backdate, Unlink, Rename, UserActs, Clone
    <3> SUFFICES ASSUME NEW p \in DOMAIN slot, NEW t, t = slot[p],
                        t.pc \in {"read", "new"}, t.stamp = StampOf(t.key)'
                 PROVE  HonestTask(t)'
      BY <3>1 DEF TasksHonest, HonestTask
    <3>2. t.key \in Inodes /\ t.stamp \in Stamp /\ t.stamp.ctime <= Now
      BY BatchIsGood DEF GoodTask
    <3>3. fs'[t.key] = fs[t.key] /\ t.stamp = StampOf(t.key)
      BY <1>1, <3>2, OldStampsAreStale
    <3> QED
      BY <3>3 DEF TasksHonest, HonestTask
  <2> QED
    BY <2>1, <2>2
<1>2. ASSUME NEW p \in DOMAIN slot, TaskStep(p) PROVE CacheHonest' /\ TasksHonest'
  <2> UNCHANGED <<fs, db>>
    BY <1>2 DEF TaskStep, Lookup, OpenAndStat, ReadChunk, HashError, Becomes, disk
  <2>1. CacheHonest'
    BY DEF CacheHonest, matches, StampOf
  <2>2. PICK t : slot' = [slot EXCEPT ![p] = t] /\ HonestTask(t)
    <3> DEFINE s == slot[p]
    <3>0. GoodTask(s) /\ HonestTask(s)
      BY BatchIsGood DEF TasksHonest
    <3>1. ASSUME NEW t \in Task, slot' = [slot EXCEPT ![p] = t],
                 t.pc \in {"miss", "hit", "err"}
          PROVE  HonestTask(t)
      BY <3>1 DEF HonestTask
    <3>2. CASE Lookup(p)
      <4> DEFINE k == names[p]
                 hit == [s EXCEPT !.pc = "hit", !.key = k, !.stamp = StampOf(k)]
      <4>1. /\ HonestTask([s EXCEPT !.pc = "err"]) /\ HonestTask([s EXCEPT !.pc = "miss"])
            /\ HonestTask(hit)
        BY <3>0 DEF HonestTask, GoodTask, Task
      <4> QED
        BY <3>2, <4>1 DEF Lookup, Becomes
    <3>3. CASE OpenAndStat(p)
      <4> DEFINE k == names[p]
                 open == [s EXCEPT !.pc = "read", !.key = k, !.stamp = StampOf(k)]
      <4>1. HonestTask([s EXCEPT !.pc = "err"])
        BY <3>0 DEF HonestTask, GoodTask, Task
      <4>2. k # Gone => HonestTask(open)
        <5> s.hashes = <<>> /\ open.hashes = <<>> /\ open.pc = "read"
          BY <3>0, <3>3 DEF OpenAndStat, InBatch, GoodTask, Task
        <5> QED
          BY DEF HonestTask, PrefixOf
      <4> QED
        BY <3>3, <4>1, <4>2 DEF OpenAndStat, Becomes
    <3>4. CASE ReadChunk(p)
      <4> DEFINE data == fs[s.key].data
                 n    == Len(s.hashes)
                 more == [s EXCEPT !.hashes = Append(@, data[n + 1])]
                 end  == [s EXCEPT !.pc = "new", !.stamp = s.stamp]
      <4> /\ s.pc = "read" /\ s.hashes \in Seq(Hash) /\ data \in Seq(Hash)
          /\ slot' = [slot EXCEPT ![p] = IF n < Len(data) THEN more ELSE end]
        BY <3>0, <3>4 DEF ReadChunk, InBatch, Becomes, StampBefore, GoodTask, Task, TypeOK, FilesOK
      <4>1. ASSUME n < Len(data) PROVE HonestTask(more)
        <5>1. /\ more.pc = "read" /\ more.stamp = s.stamp /\ more.key = s.key
              /\ more.hashes = Append(s.hashes, data[n + 1])
          BY <3>0 DEF GoodTask, Task
        <5>2. PrefixOf(s.hashes, data) => PrefixOf(more.hashes, data)
          BY <4>1, <5>1 DEF PrefixOf
        <5> QED
          BY <3>0, <5>1, <5>2 DEF HonestTask
      <4>2. ASSUME n >= Len(data) PROVE HonestTask(end)
        <5>1. /\ end.pc = "new" /\ end.stamp = s.stamp /\ end.key = s.key
              /\ end.hashes = s.hashes
          BY <3>0 DEF GoodTask, Task
        <5>2. PrefixOf(s.hashes, data) => s.hashes = data
          BY <4>2 DEF PrefixOf
        <5> QED
          BY <3>0, <5>1, <5>2 DEF HonestTask
      <4>3. n < Len(data) \/ n >= Len(data)
        BY DEF PrefixOf
      <4> QED
        BY <4>1, <4>2, <4>3
    <3>5. CASE HashError(p)
      <4> HonestTask([s EXCEPT !.pc = "err"])
        BY <3>0 DEF HonestTask, GoodTask, Task
      <4> QED
        BY <3>5 DEF HashError
    <3> QED
      BY <1>2, <3>2, <3>3, <3>4, <3>5 DEF TaskStep
  <2>3. TasksHonest'
    BY <2>2 DEF TasksHonest, HonestTask, StampOf
  <2> QED
    BY <2>1, <2>3
<1>3. ASSUME PutBatch PROVE CacheHonest' /\ TasksHonest'
  <2> fs' = fs /\ slot' = <<>>
    BY <1>3 DEF PutBatch, disk
  <2>1. TasksHonest'
    BY DEF TasksHonest
  <2>2. CacheHonest'
    <3> PICK last \in [NewKeys -> DOMAIN slot] :
              /\ \A k \in NewKeys : last[k] \in New(k)
              /\ db' = [k \in DOMAIN db \cup NewKeys |->
                          IF k \in NewKeys
                          THEN [stamp |-> slot[last[k]].stamp, hashes |-> slot[last[k]].hashes]
                          ELSE db[k]]
      BY <1>3 DEF PutBatch
    <3> SUFFICES ASSUME NEW k \in DOMAIN db', matches(db'[k], StampOf(k))
                 PROVE  db'[k].hashes = fs[k].data
      BY DEF CacheHonest, matches, StampOf
    <3>1. CASE k \in NewKeys
      <4> DEFINE t == slot[last[k]]
      <4>1. t.pc = "new" /\ t.key = k /\ HonestTask(t) /\ k \in Inodes
        BY <3>1 DEF New, NewKeys, TasksHonest
      <4>2. db'[k].stamp = StampOf(k)
        BY TypeOK, <3>1 DEF matches, StampOf, Stamp, TypeOK, DbOK
      <4> QED
        BY <3>1, <4>1, <4>2 DEF HonestTask
    <3>2. CASE k \notin NewKeys
      BY <3>2 DEF CacheHonest
    <3> QED
      BY <3>1, <3>2
  <2> QED
    BY <2>1, <2>2
<1>4. ASSUME Prune PROVE CacheHonest' /\ TasksHonest'
  BY <1>4 DEF Prune, CacheHonest, TasksHonest, TypeOK, SlotOK, disk, matches, StampOf
<1>5. ASSUME TakeBatch PROVE CacheHonest' /\ TasksHonest'
  BY <1>5 DEF TakeBatch, Todo, CacheHonest, TasksHonest, HonestTask, disk, matches, StampOf
<1>6. ASSUME AllHashed \/ Start \/ Walk \/ NextGroup \/ Crash \/ UNCHANGED vars
      PROVE  CacheHonest' /\ TasksHonest'
  <2> UNCHANGED <<fs, db>> /\ (slot' = slot \/ slot' = <<>>)
    BY <1>6 DEF AllHashed, Start, Walk, NextGroup, Crash, vars, disk
  <2> QED
    BY DEF CacheHonest, TasksHonest, HonestTask, matches, StampOf
<1> QED
  BY <1>1, <1>2, <1>3, <1>4, <1>5, <1>6 DEF Next, ToolStep, Stamping

\* In every reachable state a cache entry that matches its file holds the hashes
\* of the file's content (hash_one: the stamp is taken before the first read and
\* from the descriptor that is read).
THEOREM CacheIsHonest == Spec => []CacheHonest
<1>1. Init => TypeOK /\ CacheHonest /\ TasksHonest
  BY InitTyped, InitHonest
<1>2. TypeOK /\ CacheHonest /\ TasksHonest /\ [Next]_vars
        => (TypeOK /\ CacheHonest /\ TasksHonest)'
  BY NextTyped, NextHonest
<1> QED
  BY <1>1, <1>2, PTL DEF Spec

-----------------------------------------------------------------------------
(* What was hashed can be looked up.                                       *)

\* Entries leave the cache only while no task is under way, and never those of
\* the dataset's own files.
HitsCached ==
    /\ hashed \subseteq DOMAIN db
    /\ \A p \in DOMAIN slot : slot[p].pc = "hit" => slot[p].key \in DOMAIN db

LEMMA InitCached == Init => HitsCached
BY DEF Init, HitsCached

LEMMA NextCached ==
    ASSUME TypeOK, HitsCached, [Next]_vars
    PROVE  HitsCached'
<1>1. ASSUME Stamping PROVE HitsCached'
  BY <1>1 DEF Stamping, UserStep, Write, Backdate, Unlink, Rename, UserActs, Clone, HitsCached
<1>2. ASSUME NEW p \in DOMAIN slot, TaskStep(p) PROVE HitsCached'
  <2> DEFINE s == slot[p]
             k == names[p]
  <2>0. GoodTask(s) /\ hashed' = hashed /\ db' = db
    BY <1>2, BatchIsGood
    DEF TaskStep, Lookup, OpenAndStat, ReadChunk, HashError, Becomes
  <2>1. ASSUME NEW t, slot' = [slot EXCEPT ![p] = t],
               t.pc = "hit" => t.key \in DOMAIN db
        PROVE  HitsCached'
    BY <2>0, <2>1 DEF HitsCached
  <2>2. ASSUME s.pc # "hit", NEW stamp, NEW hs
        PROVE  /\ [s EXCEPT !.pc = "err"].pc # "hit"
               /\ [s EXCEPT !.pc = "miss"].pc # "hit"
               /\ [s EXCEPT !.pc = "hit", !.key = k, !.stamp = stamp].key = k
               /\ [s EXCEPT !.pc = "read", !.key = k, !.stamp = stamp].pc # "hit"
               /\ [s EXCEPT !.hashes = hs].pc # "hit"
               /\ [s EXCEPT !.pc = "new", !.stamp = stamp].pc # "hit"
    BY <2>0, <2>2 DEF GoodTask, Task
  <2>3. CASE Lookup(p)
    BY <2>1, <2>2, <2>3 DEF Lookup, InBatch, Becomes
  <2>4. CASE OpenAndStat(p)
    BY <2>1, <2>2, <2>4 DEF OpenAndStat, InBatch, Becomes
  <2>5. CASE ReadChunk(p)
    BY <2>1, <2>2, <2>5 DEF ReadChunk, InBatch, Becomes, StampBefore
  <2>6. CASE HashError(p)
    BY <2>1, <2>2, <2>6 DEF HashError, InBatch
  <2> QED
    BY <1>2, <2>3, <2>4, <2>5, <2>6 DEF TaskStep
<1>3. ASSUME TakeBatch PROVE HitsCached'
  BY <1>3 DEF TakeBatch, Todo, HitsCached
<1>4. ASSUME PutBatch PROVE HitsCached'
  <2> DOMAIN db' = DOMAIN db \cup NewKeys /\ slot' = <<>>
    BY <1>4 DEF PutBatch
  <2> ASSUME NEW p \in DOMAIN slot, slot[p].pc # "err" PROVE slot[p].key \in DOMAIN db'
    <3> slot[p].pc \in {"hit", "new"} /\ GoodTask(slot[p])
      BY <1>4, BatchIsGood DEF PutBatch
    <3> QED
      BY DEF NewKeys, New, HitsCached, GoodTask
  <2> QED
    BY <1>4 DEF PutBatch, HitsCached
<1>5. ASSUME Prune PROVE HitsCached'
  <2> slot' = <<>> /\ hashed' = hashed
    BY <1>5 DEF Prune, TypeOK, SlotOK
  <2> hashed \subseteq DOMAIN db'
    BY <1>5 DEF Prune, HitsCached
  <2> QED
    BY DEF HitsCached
<1>6. ASSUME AllHashed \/ Start \/ Walk \/ NextGroup \/ Crash \/ UNCHANGED vars
      PROVE  HitsCached'
  BY <1>6 DEF AllHashed, Start, Walk, NextGroup, Crash, vars, HitsCached
<1> QED
  BY <1>1, <1>2, <1>3, <1>4, <1>5, <1>6 DEF Next, ToolStep, Stamping

\* Whatever hash_files returned is in the cache when the index is built from it:
\* batches are committed before they are counted, and prune spares them.
THEOREM HashedStaysCached == Spec => []HashedIsCached
<1>1. Init => TypeOK /\ HitsCached
  BY InitTyped, InitCached
<1>2. TypeOK /\ HitsCached /\ [Next]_vars => (TypeOK /\ HitsCached)'
  BY NextTyped, NextCached
<1>3. HitsCached => HashedIsCached
  BY DEF HitsCached, HashedIsCached
<1> QED
  BY <1>1, <1>2, <1>3, PTL DEF Spec

-----------------------------------------------------------------------------
(* Nothing that exists is evicted.                                         *)

\* Paths stay in their dataset.
Placed == \A p \in AllPaths : names[p] # Gone => p \in PathsOf[names[p][1]]

\* Every path of the dataset that the walk found, and whose task has not
\* failed, is still queued, in the batch, or hashed.
Accounted(p) ==
    \/ p \in queue
    \/ /\ p \in DOMAIN slot
       /\ \/ slot[p].pc \in {"todo", "miss"}
          \/ slot[p].pc \in {"hit", "read", "new"} /\ slot[p].key = names[p]
    \/ names[p] \in hashed

Covered ==
    userOps = startOps /\ phase \in {"hash", "prune"} =>
        \A p \in (scan \cap PathsOf[Fsid]) \ failed : names[p] # Gone => Accounted(p)

Coverage ==
    /\ Placed
    /\ startOps \in Nat /\ startOps <= userOps
    /\ phase = "prune" => queue = {}
    /\ Covered

LEMMA InitCoverage == Init => Coverage
BY HashCacheAssumption DEF Init, Coverage, Placed, Covered, AllPaths

LEMMA NextCoverage ==
    ASSUME ~WalkErrors, TypeOK, Coverage, [Next]_vars
    PROVE  Coverage'
<1>1. ASSUME UserStep PROVE Coverage'
  <2>1. /\ userOps' = userOps + 1 /\ userOps \in Nat
        /\ UNCHANGED <<startOps, phase, queue>>
    BY <1>1 DEF UserStep, Write, Backdate, Unlink, Rename, UserActs, loop, TypeOK
  <2>2. Covered'
    BY <2>1 DEF Coverage, Covered
  <2>3. Placed'
    <3>1. CASE names' = names
      BY <3>1 DEF Coverage, Placed
    <3>2. ASSUME NEW p \in AllPaths, Unlink(p) PROVE Placed'
      BY <3>2 DEF Unlink, Coverage, Placed, TypeOK, FilesOK
    <3>3. ASSUME NEW p \in AllPaths, NEW q \in AllPaths, Rename(p, q) PROVE Placed'
      BY <3>3 DEF Rename, Coverage, Placed, TypeOK, FilesOK
    <3> QED
      BY <1>1, <3>1, <3>2, <3>3 DEF UserStep, Write, Backdate
  <2> QED
    BY <2>1, <2>2, <2>3 DEF Coverage
<1>2. ASSUME UNCHANGED <<disk, startOps>>, phase' = "prune" => queue' = {}, Covered'
      PROVE  Coverage'
  BY <1>2 DEF Coverage, Placed, disk
<1>3. ASSUME NEW p \in DOMAIN slot, TaskStep(p) PROVE Coverage'
  <2> DEFINE s == slot[p]
             k == names[p]
  <2>0. /\ GoodTask(s)
        /\ UNCHANGED <<fs, names, userOps, clones, phase, scan, group, startOps, queue, hashed>>
    BY <1>3, BatchIsGood
    DEF TaskStep, Lookup, OpenAndStat, ReadChunk, HashError, Becomes, disk, loop
  <2>1. ASSUME NEW t, slot' = [slot EXCEPT ![p] = t],
               \/ k = Gone
               \/ p \in failed'
               \/ t.pc = "miss"
               \/ t.pc \in {"hit", "read"} /\ t.key = k
               \/ s.pc = "read" /\ t.pc \in {"read", "new"} /\ t.key = s.key,
               failed \subseteq failed'
        PROVE  Coverage'
    <3>1. ASSUME NEW q \in (scan \cap PathsOf[Fsid]) \ failed', names[q] # Gone, Accounted(q)
          PROVE  Accounted(q)'
      BY <2>0, <2>1, <3>1 DEF Accounted
    <3>2. Covered'
      BY <2>0, <2>1, <3>1 DEF Coverage, Covered, Fsid
    <3> QED
      BY <1>2, <2>0, <3>2 DEF disk, Coverage
  <2>3. CASE Lookup(p)
    <3> DEFINE hit == [s EXCEPT !.pc = "hit", !.key = k, !.stamp = StampOf(k)]
               miss == [s EXCEPT !.pc = "miss"]
    <3>1. hit.pc = "hit" /\ hit.key = k /\ miss.pc = "miss"
      BY <2>0 DEF GoodTask, Task
    <3>2. /\ failed' = failed
          /\ \/ k = Gone /\ slot' = [slot EXCEPT ![p] = [s EXCEPT !.pc = "err"]]
             \/ slot' = [slot EXCEPT ![p] = hit]
             \/ slot' = [slot EXCEPT ![p] = miss]
      BY <2>3 DEF Lookup, Becomes
    <3> HIDE DEF hit, miss
    <3> QED
      BY <2>1, <3>1, <3>2
  <2>4. CASE OpenAndStat(p)
    <3> DEFINE open == [s EXCEPT !.pc = "read", !.key = k, !.stamp = StampOf(k)]
    <3>1. open.pc = "read" /\ open.key = k
      BY <2>0 DEF GoodTask, Task
    <3>2. /\ failed' = failed
          /\ \/ k = Gone /\ slot' = [slot EXCEPT ![p] = [s EXCEPT !.pc = "err"]]
             \/ slot' = [slot EXCEPT ![p] = open]
      BY <2>4 DEF OpenAndStat, Becomes
    <3> HIDE DEF open
    <3> QED
      BY <2>1, <3>1, <3>2
  <2>5. CASE ReadChunk(p)
    <3> DEFINE more == [s EXCEPT !.hashes = Append(@, fs[s.key].data[Len(s.hashes) + 1])]
               end  == [s EXCEPT !.pc = "new", !.stamp = s.stamp]
    <3>1. more.pc = s.pc /\ more.key = s.key /\ end.pc = "new" /\ end.key = s.key
      BY <2>0 DEF GoodTask, Task
    <3>2. /\ failed' = failed /\ s.pc = "read"
          /\ slot' = [slot EXCEPT ![p] = more] \/ slot' = [slot EXCEPT ![p] = end]
      BY <2>5 DEF ReadChunk, InBatch, Becomes, StampBefore
    <3> HIDE DEF more, end
    <3> QED
      BY <2>1, <3>1, <3>2
  <2>6. CASE HashError(p)
    BY <2>1, <2>6 DEF HashError
  <2> QED
    BY <1>3, <2>3, <2>4, <2>5, <2>6 DEF TaskStep
<1>4. ASSUME TakeBatch PROVE Coverage'
  <2> Covered'
    BY <1>4 DEF TakeBatch, Todo, Coverage, Covered, Accounted, Fsid, disk, loop
  <2> QED
    BY <1>2, <1>4 DEF TakeBatch, loop
<1>5. ASSUME PutBatch PROVE Coverage'
  <2> Covered'
    BY <1>5, BatchIsGood DEF PutBatch, GoodTask, Coverage, Covered, Accounted, Fsid, disk, loop
  <2> QED
    BY <1>2, <1>5 DEF PutBatch, loop
<1>6. ASSUME AllHashed PROVE Coverage'
  <2> Covered'
    BY <1>6 DEF AllHashed, Coverage, Covered, Accounted, Fsid, disk, loop
  <2> QED
    BY <1>2, <1>6 DEF AllHashed, loop
<1>7. ASSUME Walk PROVE Coverage'
  <2> Covered'
    BY <1>7 DEF Walk, Coverage, Covered, Accounted, Fsid, disk, loop
  <2> QED
    BY <1>2, <1>7 DEF Walk, loop
<1>8. ASSUME Start PROVE Coverage'
  <2> Covered' /\ startOps' = userOps /\ phase' = "walk" /\ UNCHANGED disk
    BY <1>8 DEF Start, Covered
  <2> QED
    BY DEF Coverage, Placed, disk, TypeOK
<1>9. ASSUME Prune \/ NextGroup \/ Crash PROVE Coverage'
  <2> Covered' /\ phase' # "prune" /\ UNCHANGED <<disk, startOps>>
    BY <1>9 DEF Prune, NextGroup, Crash, Covered, loop
  <2> QED
    BY <1>2
<1>10. ASSUME UNCHANGED vars PROVE Coverage'
  BY <1>2, <1>10 DEF vars, disk, loop, Coverage, Covered, Accounted, Fsid
<1>11. ASSUME NEW p \in AllPaths, Clone(p) PROVE Coverage'
  <2>1. UNCHANGED <<names, userOps, startOps, phase>> /\ phase = "index"
    BY <1>11 DEF Clone, loop
  <2> QED
    BY <2>1 DEF Coverage, Covered, Placed
<1> QED
  BY <1>1, <1>3, <1>4, <1>5, <1>6, <1>7, <1>8, <1>9, <1>10, <1>11 DEF Next, ToolStep

\* A walk without errors makes prune safe: while no user interferes, the entry
\* of a file that exists leaves the cache only if the file's own task failed
\* (run: only a full scan of a dataset prunes, and only that dataset).
THEOREM NothingAliveEvicted == ~WalkErrors => (Spec => NeverEvictsUnvisited)
<1> SUFFICES ASSUME ~WalkErrors PROVE Spec => NeverEvictsUnvisited
  OBVIOUS
<1>1. Init => TypeOK /\ Coverage
  BY InitTyped, InitCoverage
<1>2. TypeOK /\ Coverage /\ [Next]_vars => (TypeOK /\ Coverage)'
  BY NextTyped, NextCoverage
<1>3. ASSUME TypeOK, Coverage, [Next]_vars, userOps' = startOps,
             NEW p \in AllPaths \ failed, names[p] \in DOMAIN db
      PROVE  names[p] \in DOMAIN db'
  <2>1. CASE Prune
    <3> userOps = startOps /\ phase = "prune" /\ slot = <<>>
      BY <1>3, <2>1 DEF Prune, disk, TypeOK, SlotOK
    <3>1. CASE Prunable(names[p])
      <4> names[p] # Gone /\ p \in scan \cap PathsOf[Fsid]
        BY <1>3, <3>1, HashCacheAssumption
        DEF Prunable, Coverage, Placed, TypeOK, DbOK, Inodes
      <4> names[p] \in hashed
        BY <1>3 DEF Coverage, Covered, Accounted
      <4> QED
        BY <1>3, <2>1 DEF Prune
    <3>2. CASE ~Prunable(names[p])
      BY <1>3, <2>1, <3>2 DEF Prune
    <3> QED
      BY <3>1, <3>2
  <2>2. CASE ~Prune
    <3> DOMAIN db \subseteq DOMAIN db'
      BY <1>3, <2>2
      DEF Next, ToolStep, TaskStep, Lookup, OpenAndStat, ReadChunk, HashError, Becomes, Start,
          Walk, TakeBatch, PutBatch, AllHashed, NextGroup, Clone, Crash, vars,
          UserStep, UserActs, Write, Backdate, Unlink, Rename
    <3> QED
      BY <1>3
  <2> QED
    BY <2>1, <2>2
<1>4. TypeOK /\ Coverage /\ [Next]_vars
        => [userOps' = startOps =>
              \A p \in AllPaths \ failed : names[p] \in DOMAIN db => names[p] \in DOMAIN db']_vars
  BY <1>3
<1> QED
  BY <1>1, <1>2, <1>4, PTL DEF Spec, NeverEvictsUnvisited

-----------------------------------------------------------------------------
(* A warm run reads nothing.                                               *)

\* The cache knows what the path names as it is now, or a clone has touched it.
Cached(k) == k \in DOMAIN db /\ db[k].stamp = StampOf(k)
Known(k)  == Cached(k) \/ k \in touched
Fresh(p)  == names[p] # Gone => Known(names[p])

\* Nobody has interfered since the run started.
Quiet == userOps = startOps

\* The batch is of the dataset at hand.
InPlace == phase = "hash" => queue \cup DOMAIN slot \subseteq PathsOf[Fsid]

\* In a quiet run the batch and its queue name files, and what tasks have seen
\* of them is still so.
BatchFresh ==
    Quiet /\ phase \in {"hash", "prune", "index"} =>
        /\ \A k \in hashed : Known(k)
        /\ \A p \in queue : names[p] # Gone
        /\ \A p \in DOMAIN slot :
              /\ names[p] # Gone
              /\ slot[p].pc = "hit" => Cached(slot[p].key)
              /\ slot[p].pc \in {"read", "new"} => slot[p].stamp = StampOf(slot[p].key)

\* The datasets that a quiet run without failures is done with are all cached.
ScannedFresh ==
    Quiet /\ failed = {} /\ phase # "off" =>
        \A j \in DOMAIN Fsids :
            j < group \/ (j = group /\ phase = "index") =>
                \A p \in scan \cap PathsOf[Fsids[j]] : Fresh(p)

\* Behind a complete run everything that a run can meet is cached, until a user
\* acts or a task fails.
Warm ==
    warmOps = userOps =>
        /\ Quiet /\ failed = {}
        /\ \A j \in DOMAIN Fsids : \A p \in AllPaths \cap PathsOf[Fsids[j]] : Fresh(p)
        /\ \A p \in DOMAIN slot : slot[p].pc \in {"todo", "hit"} \/ names[p] \in touched

Warmth ==
    /\ warmOps \in Int /\ warmOps <= userOps
    /\ InPlace /\ BatchFresh /\ ScannedFresh /\ Warm

LEMMA InitWarmth == Init => Warmth
<1> SUFFICES ASSUME Init PROVE Warmth
  OBVIOUS
<1>1. slot = <<>> /\ DOMAIN slot = {} /\ queue = {} /\ phase = "off" /\ warmOps = -1 /\ userOps = 0
  BY DEF Init
<1> QED
  BY <1>1 DEF Warmth, InPlace, BatchFresh, ScannedFresh, Warm

\* Steps that touch neither files nor the cache leave cached what was.
LEMMA SameCached ==
    ASSUME UNCHANGED <<fs, names, db, touched>>
    PROVE  /\ \A k : (Cached(k)' <=> Cached(k)) /\ (Known(k)' <=> Known(k))
           /\ \A p : Fresh(p)' <=> Fresh(p)
BY DEF Cached, Known, Fresh, StampOf

\* A user's step ends the quiet, and with it every claim but one.
LEMMA UserWarmth ==
    ASSUME TypeOK, Coverage, Warmth, UserStep
    PROVE  Warmth'
<1>1. /\ userOps' = userOps + 1 /\ userOps \in Nat /\ startOps \in Nat /\ startOps <= userOps
      /\ UNCHANGED <<startOps, warmOps, phase, group, queue, slot>>
  BY DEF UserStep, Write, Backdate, Unlink, Rename, UserActs, loop, TypeOK, Coverage
<1>2. ~Quiet' /\ warmOps' # userOps' /\ warmOps' \in Int /\ warmOps' <= userOps'
  BY <1>1 DEF Quiet, Warmth
<1>3. InPlace'
  BY <1>1 DEF Warmth, InPlace, Fsid
<1> QED
  BY <1>2, <1>3 DEF Warmth, BatchFresh, ScannedFresh, Warm

\* One step of a task: in a quiet run what it finds out stays true, and on warm
\* files it is a hit.
LEMMA TaskWarmth ==
    ASSUME TypeOK, Coverage, Warmth, NEW p \in DOMAIN slot, TaskStep(p)
    PROVE  Warmth'
<1> DEFINE s == slot[p]
           k == names[p]
<1>1. /\ GoodTask(s) /\ phase = "hash" /\ userOps \in Nat
      /\ UNCHANGED <<fs, names, db, touched, userOps, startOps, phase, group, scan, queue, hashed>>
      /\ p \in AllPaths /\ group \in DOMAIN Fsids
  BY BatchIsGood
  DEF TaskStep, Lookup, OpenAndStat, ReadChunk, HashError, Becomes, disk, loop, TypeOK
<1>2. /\ p \in PathsOf[Fsid]
      /\ Quiet => k # Gone /\ (s.pc = "hit" => Cached(s.key))
                  /\ (s.pc \in {"read", "new"} => s.stamp = StampOf(s.key))
  BY <1>1 DEF Warmth, InPlace, BatchFresh
<1>3. ASSUME NEW t, slot' = [slot EXCEPT ![p] = t],
             Quiet => /\ t.pc = "hit" => Cached(t.key)
                      /\ t.pc \in {"read", "new"} => t.stamp = StampOf(t.key),
             failed' = failed \/ warmOps' = -1, warmOps' \in {warmOps, -1}, failed \subseteq failed',
             warmOps' = userOps => t.pc \in {"todo", "hit"} \/ k \in touched
      PROVE  Warmth'
  <2>1. InPlace'
    BY <1>1, <1>3 DEF Warmth, InPlace, Fsid
  <2>2. Quiet' <=> Quiet
    BY <1>1 DEF Quiet
  <2>3. \A q \in DOMAIN slot' : slot'[q] = IF q = p THEN t ELSE slot[q]
    BY <1>3
  <2>4. \A i : (StampOf(i)' = StampOf(i)) /\ (Cached(i)' <=> Cached(i)) /\ (Known(i)' <=> Known(i))
    BY <1>1 DEF StampOf, Cached, Known
  <2>5. BatchFresh'
    <3> SUFFICES ASSUME Quiet
                 PROVE  /\ \A i \in hashed : Known(i)'
                        /\ \A q \in queue : names[q] # Gone
                        /\ \A q \in DOMAIN slot' :
                              /\ names[q] # Gone
                              /\ (slot[q].pc = "hit" => Cached(slot[q].key))'
                              /\ (slot[q].pc \in {"read", "new"} => slot[q].stamp = StampOf(slot[q].key))'
      BY <1>1, <2>2 DEF BatchFresh
    <3>1. BatchFresh /\ DOMAIN slot' = DOMAIN slot
      BY <1>3 DEF Warmth
    <3>2. ASSUME NEW q \in DOMAIN slot
          PROVE  /\ names[q] # Gone
                 /\ (slot[q].pc = "hit" => Cached(slot[q].key))'
                 /\ (slot[q].pc \in {"read", "new"} => slot[q].stamp = StampOf(slot[q].key))'
      <4>1. CASE q = p
        BY <1>1, <1>2, <1>3, <2>3, <4>1 DEF Cached, StampOf
      <4>2. CASE q # p
        BY <1>1, <2>3, <3>1, <3>2, <4>2 DEF BatchFresh, Cached, StampOf
      <4> QED
        BY <4>1, <4>2
    <3> QED
      BY <1>1, <2>4, <3>1, <3>2 DEF BatchFresh
  <2>6. ScannedFresh'
    BY <1>1, <1>3, <2>2, SameCached DEF Warmth, ScannedFresh
  <2>7. Warm'
    <3> SUFFICES ASSUME warmOps' = userOps
                 PROVE  /\ Quiet /\ failed' = {}
                        /\ \A j \in DOMAIN Fsids : \A q \in AllPaths \cap PathsOf[Fsids[j]] : Fresh(q)'
                        /\ \A q \in DOMAIN slot' :
                              slot'[q].pc \in {"todo", "hit"} \/ names[q] \in touched
      BY <1>1, <2>2 DEF Warm
    <3>1. warmOps = userOps /\ failed' = failed
      BY <1>1, <1>3
    <3> QED
      BY <1>1, <1>3, <2>3, <3>1, SameCached DEF Warmth, Warm
  <2>8. warmOps' \in Int /\ warmOps' <= userOps'
    BY <1>1, <1>3 DEF Warmth
  <2> QED
    BY <2>1, <2>5, <2>6, <2>7, <2>8 DEF Warmth
<1>4. warmOps = userOps => /\ Quiet /\ Fresh(p)
                           /\ s.pc \in {"todo", "hit"} \/ k \in touched
  BY <1>1, <1>2 DEF Warmth, Warm, Fsid
<1>5. CASE Lookup(p)
  <2> DEFINE hit == [s EXCEPT !.pc = "hit", !.key = k, !.stamp = StampOf(k)]
             miss == [s EXCEPT !.pc = "miss"]
             err == [s EXCEPT !.pc = "err"]
  <2>1. hit.pc = "hit" /\ hit.key = k /\ miss.pc = "miss" /\ err.pc = "err"
    BY <1>1 DEF GoodTask, Task
  <2>2. failed' = failed /\ warmOps' = warmOps
    BY <1>5 DEF Lookup, Becomes, loop
  <2>3. \/ k = Gone /\ slot' = [slot EXCEPT ![p] = err]
        \/ /\ k \in DOMAIN db /\ matches(db[k], StampOf(k))
           /\ slot' = [slot EXCEPT ![p] = hit]
        \/ /\ k # Gone /\ ~(k \in DOMAIN db /\ matches(db[k], StampOf(k)))
           /\ slot' = [slot EXCEPT ![p] = miss]
    BY <1>5 DEF Lookup, Becomes
  <2>4. k \in DOMAIN db => (matches(db[k], StampOf(k)) <=> Cached(k))
    BY MatchesIsEquality DEF Cached
  <2> HIDE DEF hit, miss, err
  <2>5. CASE k = Gone /\ slot' = [slot EXCEPT ![p] = err]
    BY <1>2, <1>3, <1>4, <2>1, <2>2, <2>5
  <2>6. CASE k \in DOMAIN db /\ matches(db[k], StampOf(k)) /\ slot' = [slot EXCEPT ![p] = hit]
    BY <1>3, <2>1, <2>2, <2>4, <2>6
  <2>7. CASE /\ k # Gone /\ ~(k \in DOMAIN db /\ matches(db[k], StampOf(k)))
             /\ slot' = [slot EXCEPT ![p] = miss]
    <3>1. warmOps # userOps \/ k \in touched
      BY <1>4, <2>4, <2>7 DEF Fresh, Known, Cached
    <3> QED
      BY <1>3, <2>1, <2>2, <2>7, <3>1
  <2> QED
    BY <2>3, <2>5, <2>6, <2>7
<1>6. CASE OpenAndStat(p)
  <2> DEFINE opened == [s EXCEPT !.pc = "read", !.key = k, !.stamp = StampOf(k)]
             err == [s EXCEPT !.pc = "err"]
  <2>1. opened.pc = "read" /\ opened.key = k /\ opened.stamp = StampOf(k) /\ err.pc = "err"
    BY <1>1 DEF GoodTask, Task
  <2>2. failed' = failed /\ warmOps' = warmOps /\ s.pc = "miss"
    BY <1>6 DEF OpenAndStat, InBatch, Becomes, loop
  <2>3. slot' = [slot EXCEPT ![p] = err] \/ slot' = [slot EXCEPT ![p] = opened]
    BY <1>6 DEF OpenAndStat, Becomes
  <2> HIDE DEF opened, err
  <2> QED
    BY <1>3, <1>4, <2>1, <2>2, <2>3
<1>7. CASE ReadChunk(p)
  <2> DEFINE more == [s EXCEPT !.hashes = Append(@, fs[s.key].data[Len(s.hashes) + 1])]
             end  == [s EXCEPT !.pc = "new", !.stamp = s.stamp]
  <2>1. /\ more.pc = s.pc /\ more.key = s.key /\ more.stamp = s.stamp
        /\ end.pc = "new" /\ end.key = s.key /\ end.stamp = s.stamp
    BY <1>1 DEF GoodTask, Task
  <2>2. failed' = failed /\ warmOps' = warmOps /\ s.pc = "read"
    BY <1>7 DEF ReadChunk, InBatch, Becomes, loop
  <2>3. slot' = [slot EXCEPT ![p] = more] \/ slot' = [slot EXCEPT ![p] = end]
    BY <1>7 DEF ReadChunk, Becomes, StampBefore
  <2> HIDE DEF more, end
  <2> QED
    BY <1>2, <1>3, <1>4, <2>1, <2>2, <2>3
<1>8. CASE HashError(p)
  <2> DEFINE err == [s EXCEPT !.pc = "err"]
  <2>1. err.pc = "err" /\ slot' = [slot EXCEPT ![p] = err]
    BY <1>1, <1>8 DEF GoodTask, Task, HashError
  <2>2. failed' = failed \cup {p} /\ warmOps' = -1
    BY <1>8 DEF HashError
  <2>3. failed \subseteq failed' /\ -1 # userOps
    BY <1>1, <2>2
  <2> HIDE DEF err
  <2> QED
    BY <1>3, <2>1, <2>2, <2>3
<1> QED
  BY <1>5, <1>6, <1>7, <1>8 DEF TaskStep

\* Steps that leave files and cache alone need only say what becomes of the
\* batch and of the position in the run.
LEMMA SameFilesWarmth ==
    ASSUME TypeOK, Warmth,
           UNCHANGED <<fs, names, db, touched, userOps, startOps, warmOps, failed>>,
           InPlace', BatchFresh',
           phase' # "off" => /\ phase # "off" /\ scan' = scan /\ group' = group
                             /\ phase' = "index" => phase = "index",
           \A p \in DOMAIN slot' : slot'[p].pc = "todo"
    PROVE  Warmth'
<1>1. Quiet' <=> Quiet
  BY DEF Quiet
<1>2. \A p : Fresh(p)' <=> Fresh(p)
  BY SameCached
<1>3. ScannedFresh'
  BY <1>1, <1>2 DEF Warmth, ScannedFresh
<1>4. Warm'
  BY <1>1, <1>2 DEF Warmth, Warm
<1> QED
  BY <1>3, <1>4 DEF Warmth

LEMMA TakeBatchWarmth ==
    ASSUME TypeOK, Warmth, TakeBatch
    PROVE  Warmth'
<1>1. PICK batch \in SUBSET queue :
          slot' = [p \in batch |-> Todo] /\ queue' = queue \ batch
  BY DEF TakeBatch
<1>2. /\ UNCHANGED <<fs, names, db, touched, userOps, startOps, warmOps, failed>>
      /\ UNCHANGED <<phase, group, scan, hashed>>
      /\ phase = "hash"
  BY DEF TakeBatch, disk, loop
<1>3. \A p \in DOMAIN slot' : slot'[p].pc = "todo" /\ p \in queue
  BY <1>1 DEF Todo
<1>4. InPlace'
  BY <1>1, <1>2, <1>3 DEF Warmth, InPlace, Fsid
<1>5. BatchFresh'
  BY <1>1, <1>2, <1>3, SameCached DEF Warmth, BatchFresh, Quiet
<1> QED
  BY <1>2, <1>3, <1>4, <1>5, SameFilesWarmth

\* The commit of a batch: whoever wins, the entry is that of the file as it is.
LEMMA PutBatchWarmth ==
    ASSUME TypeOK, Warmth, PutBatch
    PROVE  Warmth'
<1>1. PICK last \in [NewKeys -> DOMAIN slot] :
          /\ \A k \in NewKeys : last[k] \in New(k)
          /\ db' = [k \in DOMAIN db \cup NewKeys |->
                      IF k \in NewKeys
                      THEN [stamp |-> slot[last[k]].stamp, hashes |-> slot[last[k]].hashes]
                      ELSE db[k]]
  BY DEF PutBatch
<1>2. /\ UNCHANGED <<fs, names, userOps, startOps, warmOps, failed, phase, group, scan, queue>>
      /\ phase = "hash" /\ slot' = <<>> /\ DOMAIN slot' = {} /\ touched' = touched \ NewKeys
      /\ \A p \in DOMAIN slot : slot[p].pc \in {"hit", "new", "err"}
      /\ hashed' = hashed \cup { slot[p].key : p \in { p \in DOMAIN slot : slot[p].pc # "err" } }
  BY DEF PutBatch, disk, loop
<1>3. (Quiet' <=> Quiet) /\ \A k : StampOf(k)' = StampOf(k)
  BY <1>2 DEF Quiet, StampOf
<1>4. ASSUME Quiet, NEW k \in NewKeys PROVE Cached(k)'
  <2>1. last[k] \in DOMAIN slot /\ slot[last[k]].pc = "new" /\ slot[last[k]].key = k
    BY <1>1, <1>4 DEF New
  <2>2. slot[last[k]].stamp = StampOf(k)
    BY <1>2, <1>4, <2>1 DEF Warmth, BatchFresh
  <2>3. k \in DOMAIN db' /\ db'[k].stamp = slot[last[k]].stamp
    BY <1>1, <1>4
  <2> QED
    BY <1>3, <2>2, <2>3 DEF Cached
<1>5. ASSUME Quiet, NEW k, Cached(k) PROVE Cached(k)'
  <2>1. CASE k \in NewKeys
    BY <1>4, <1>5, <2>1
  <2>2. CASE k \notin NewKeys
    <3>1. k \in DOMAIN db' /\ db'[k] = db[k]
      BY <1>1, <1>5, <2>2 DEF Cached
    <3> QED
      BY <1>3, <1>5, <3>1 DEF Cached
  <2> QED
    BY <2>1, <2>2
<1>12. ASSUME Quiet, NEW k, Known(k) PROVE Known(k)'
  BY <1>2, <1>4, <1>5, <1>12 DEF Known
<1>6. ASSUME Quiet, NEW p, Fresh(p) PROVE Fresh(p)'
  BY <1>2, <1>6, <1>12 DEF Fresh
<1>7. ASSUME Quiet, NEW k \in hashed' PROVE Known(k)'
  <2>1. CASE k \in hashed
    BY <1>2, <1>7, <1>12, <2>1 DEF Warmth, BatchFresh
  <2>2. CASE \E p \in DOMAIN slot : slot[p].pc # "err" /\ k = slot[p].key
    <3> PICK p \in DOMAIN slot : slot[p].pc # "err" /\ k = slot[p].key
      BY <2>2
    <3>1. CASE slot[p].pc = "hit"
      BY <1>2, <1>5, <1>7, <3>1 DEF Warmth, BatchFresh, Known
    <3>2. CASE slot[p].pc = "new"
      <4>1. k \in Inodes
        BY <3>2, BatchIsGood DEF GoodTask
      <4>2. k \in NewKeys
        BY <3>2, <4>1 DEF NewKeys, New
      <4> QED
        BY <1>4, <1>7, <4>2 DEF Known
    <3> QED
      BY <1>2, <3>1, <3>2
  <2> QED
    BY <1>2, <1>7, <2>1, <2>2
<1>8. InPlace'
  BY <1>2 DEF Warmth, InPlace, Fsid
<1>9. BatchFresh'
  BY <1>2, <1>3, <1>7 DEF Warmth, BatchFresh
<1>10. ScannedFresh'
  BY <1>2, <1>3, <1>6 DEF Warmth, ScannedFresh
<1>11. Warm'
  BY <1>2, <1>3, <1>6 DEF Warmth, Warm
<1> QED
  BY <1>2, <1>8, <1>9, <1>10, <1>11 DEF Warmth

\* In a quiet run without failures prune keeps what is cached, and what it has
\* scanned of the dataset is cached.
LEMMA PruneKeepsFresh ==
    ASSUME TypeOK, Coverage, Warmth, Prune, Quiet, failed = {}, NEW p \in AllPaths,
           Fresh(p) \/ p \in scan \cap PathsOf[Fsid]
    PROVE  Fresh(p)'
<1> DEFINE k == names[p]
<1>1. phase = "prune" /\ slot = <<>> /\ UNCHANGED <<fs, names, touched>>
  BY DEF Prune, disk, TypeOK, SlotOK
<1> SUFFICES ASSUME k # Gone PROVE Known(k)'
  BY <1>1 DEF Fresh
<1>2. \A i \in DOMAIN db : (Prunable(i) => i \in hashed) => i \in DOMAIN db' /\ db'[i] = db[i]
  BY DEF Prune
<1>3. ASSUME p \in scan \cap PathsOf[Fsid] PROVE k \in hashed
  BY <1>1, <1>3 DEF Coverage, Covered, Accounted, Quiet
<1>5. Prunable(k) => p \in scan \cap PathsOf[Fsid]
  BY DEF Prunable, Coverage, Placed
<1>4. Known(k)
  BY <1>1, <1>3 DEF Fresh, Warmth, BatchFresh
<1>7. CASE k \in touched
  BY <1>1, <1>7 DEF Known
<1>8. CASE Cached(k)
  <2>1. k \in DOMAIN db' /\ db'[k] = db[k]
    BY <1>2, <1>3, <1>5, <1>8 DEF Cached
  <2> QED
    BY <1>1, <1>8, <2>1 DEF Cached, Known, StampOf
<1> QED
  BY <1>4, <1>7, <1>8 DEF Known

LEMMA PruneWarmth ==
    ASSUME TypeOK, Coverage, Warmth, Prune
    PROVE  Warmth'
<1>1. /\ UNCHANGED <<fs, names, touched, userOps, startOps, warmOps, failed>>
      /\ UNCHANGED <<group, scan, queue, slot, hashed>>
      /\ phase = "prune" /\ phase' = "index" /\ slot = <<>> /\ DOMAIN slot = {}
      /\ queue = {} /\ group \in DOMAIN Fsids /\ scan \subseteq AllPaths
  BY DEF Prune, disk, loop, TypeOK, SlotOK, Coverage
<1>2. Quiet' <=> Quiet
  BY <1>1 DEF Quiet
<1>3. InPlace'
  BY <1>1 DEF InPlace
<1>4. BatchFresh'
  <2> SUFFICES ASSUME Quiet, NEW k \in hashed PROVE Known(k)'
    BY <1>1, <1>2 DEF BatchFresh
  <2>1. Known(k)
    BY <1>1 DEF Warmth, BatchFresh
  <2>2. Cached(k) => k \in DOMAIN db' /\ db'[k] = db[k]
    BY DEF Prune, Cached
  <2> QED
    BY <1>1, <2>1, <2>2 DEF Cached, Known, StampOf
<1>5. ScannedFresh'
  <2> SUFFICES ASSUME Quiet, failed = {}, NEW j \in DOMAIN Fsids, j < group \/ j = group,
                      NEW p \in scan \cap PathsOf[Fsids[j]]
               PROVE  Fresh(p)'
    BY <1>1, <1>2 DEF ScannedFresh
  <2>1. CASE j = group
    BY <1>1, <2>1, PruneKeepsFresh DEF Fsid
  <2>2. CASE j < group
    BY <1>1, <2>2, PruneKeepsFresh DEF Warmth, ScannedFresh
  <2> QED
    BY <2>1, <2>2
<1>6. Warm'
  BY <1>1, <1>2, PruneKeepsFresh DEF Warmth, Warm
<1> QED
  BY <1>1, <1>3, <1>4, <1>5, <1>6 DEF Warmth

\* The end of a dataset; and the end of a run, where what it has scanned is all.
LEMMA NextGroupWarmth ==
    ASSUME TypeOK, Warmth, NextGroup
    PROVE  Warmth'
<1>1. /\ UNCHANGED <<fs, names, db, touched, userOps, startOps, failed, scan, slot>>
      /\ phase = "index" /\ phase' \in {"walk", "off"} /\ slot = <<>> /\ DOMAIN slot = {}
      /\ userOps \in Nat /\ group \in DOMAIN Fsids /\ DOMAIN Fsids = 1 .. Len(Fsids)
      /\ Len(Fsids) \in Nat
  BY HashCacheAssumption DEF NextGroup, disk, TypeOK, SlotOK
<1>2. (Quiet' <=> Quiet) /\ \A p : Fresh(p)' <=> Fresh(p)
  BY <1>1, SameCached DEF Quiet
<1>3. InPlace' /\ BatchFresh'
  BY <1>1 DEF InPlace, BatchFresh
<1>4. ScannedFresh'
  <2>1. CASE phase' = "off"
    BY <2>1 DEF ScannedFresh
  <2>2. CASE phase' = "walk"
    <3>1. group' = group + 1
      BY <2>2 DEF NextGroup
    <3>2. \A j \in DOMAIN Fsids : j < group + 1 => j < group \/ j = group
      BY <1>1
    <3> QED
      BY <1>1, <1>2, <2>2, <3>1, <3>2 DEF Warmth, ScannedFresh
  <2> QED
    BY <1>1, <2>1, <2>2
<1>5. CASE warmOps' = warmOps
  <2> Warm'
    BY <1>1, <1>2, <1>5 DEF Warmth, Warm
  <2> QED
    BY <1>1, <1>3, <1>4, <1>5 DEF Warmth
<1>6. CASE warmOps' # warmOps
  <2>1. /\ ~(group < Len(Fsids)) /\ warmOps' = userOps
        /\ scan = AllPaths /\ Quiet /\ failed = {}
    BY <1>6 DEF NextGroup, Quiet
  <2>2. \A j \in DOMAIN Fsids : j < group \/ j = group
    BY <1>1, <2>1
  <2>3. \A j \in DOMAIN Fsids : \A p \in AllPaths \cap PathsOf[Fsids[j]] : Fresh(p)
    BY <1>1, <2>1, <2>2 DEF Warmth, ScannedFresh
  <2>4. Warm'
    BY <1>1, <1>2, <2>1, <2>3 DEF Warm
  <2> QED
    BY <1>1, <1>3, <1>4, <2>1, <2>4 DEF Warmth
<1> QED
  BY <1>5, <1>6

LEMMA StartWarmth ==
    ASSUME TypeOK, Warmth, Start
    PROVE  Warmth'
<1>1. /\ UNCHANGED <<fs, names, db, touched, userOps, warmOps, slot>>
      /\ phase' = "walk" /\ group' = 1 /\ failed' = {} /\ Quiet'
      /\ slot = <<>> /\ DOMAIN slot = {} /\ userOps \in Nat
  BY DEF Start, disk, TypeOK, SlotOK, Quiet
<1>2. \A p : Fresh(p)' <=> Fresh(p)
  BY <1>1, SameCached
<1>3. InPlace' /\ BatchFresh'
  BY <1>1 DEF InPlace, BatchFresh
<1>4. ScannedFresh'
  <2>1. \A j \in DOMAIN Fsids : ~(j < 1)
    BY HashCacheAssumption
  <2> QED
    BY <1>1, <2>1 DEF ScannedFresh
<1>5. Warm'
  BY <1>1, <1>2 DEF Warmth, Warm
<1> QED
  BY <1>1, <1>3, <1>4, <1>5 DEF Warmth

\* A clone gives its file a stamp that the cache does not have, and marks it.
LEMMA CloneWarmth ==
    ASSUME TypeOK, Warmth, NEW p \in AllPaths, Clone(p)
    PROVE  Warmth'
<1>1. /\ UNCHANGED <<names, db, userOps, startOps, warmOps, failed, phase, group, scan>>
      /\ UNCHANGED <<queue, slot, hashed>>
      /\ phase = "index" /\ slot = <<>> /\ DOMAIN slot = {}
      /\ touched' = touched \cup {names[p]}
      /\ \A k : k # names[p] => fs'[k] = fs[k]
  BY DEF Clone, loop, TypeOK, SlotOK, FilesOK
<1>2. Quiet' <=> Quiet
  BY <1>1 DEF Quiet
<1>3. ASSUME NEW k, Known(k) PROVE Known(k)'
  BY <1>1, <1>3 DEF Known, Cached, StampOf
<1>4. \A q : Fresh(q) => Fresh(q)'
  BY <1>1, <1>3 DEF Fresh
<1>5. InPlace' /\ BatchFresh'
  BY <1>1, <1>2, <1>3 DEF Warmth, InPlace, BatchFresh, Fsid
<1>6. ScannedFresh' /\ Warm'
  BY <1>1, <1>2, <1>4 DEF Warmth, ScannedFresh, Warm
<1> QED
  BY <1>1, <1>5, <1>6 DEF Warmth

LEMMA NextWarmth ==
    ASSUME TypeOK, Coverage, Warmth, [Next]_vars
    PROVE  Warmth'
<1>1. CASE AllHashed
  <2>1. /\ UNCHANGED <<fs, names, db, touched, userOps, startOps, warmOps, failed>>
        /\ UNCHANGED <<group, scan, hashed, queue, slot>>
        /\ phase = "hash" /\ phase' = "prune" /\ slot = <<>> /\ DOMAIN slot = {}
    BY <1>1 DEF AllHashed, disk, loop
  <2>2. InPlace' /\ BatchFresh'
    BY <2>1, SameCached DEF Warmth, InPlace, BatchFresh, Quiet
  <2> QED
    BY <2>1, <2>2, SameFilesWarmth
<1>2. CASE Walk
  <2>1. /\ UNCHANGED <<fs, names, db, touched, userOps, startOps, warmOps, failed, group, scan, slot>>
        /\ phase = "walk" /\ phase' = "hash" /\ slot = <<>> /\ DOMAIN slot = {} /\ hashed' = {}
        /\ queue' \subseteq PathsOf[Fsid] /\ \A p \in queue' : names[p] # Gone
    BY <1>2 DEF Walk, disk, loop, TypeOK, SlotOK
  <2>2. InPlace' /\ BatchFresh'
    BY <2>1 DEF InPlace, BatchFresh, Fsid
  <2> QED
    BY <2>1, <2>2, SameFilesWarmth
<1>3. CASE Crash
  <2>1. /\ UNCHANGED <<fs, names, db, touched, userOps, startOps, warmOps, failed>>
        /\ phase' = "off" /\ slot' = <<>> /\ DOMAIN slot' = {}
    BY <1>3 DEF Crash, disk, loop
  <2>2. InPlace' /\ BatchFresh'
    BY <2>1 DEF InPlace, BatchFresh
  <2> QED
    BY <2>1, <2>2, SameFilesWarmth
<1>4. CASE UNCHANGED vars
  <2>1. /\ UNCHANGED <<fs, names, db, touched, userOps, startOps, warmOps, failed>>
        /\ UNCHANGED <<phase, group, scan, hashed, queue, slot>>
    BY <1>4 DEF vars, disk, loop
  <2>2. /\ \A k : (Cached(k)' <=> Cached(k)) /\ (Known(k)' <=> Known(k))
        /\ \A p : Fresh(p)' <=> Fresh(p)
    BY <2>1, SameCached
  <2>3. \A k : StampOf(k)' = StampOf(k)
    BY <2>1 DEF StampOf
  <2>4. InPlace' /\ BatchFresh'
    BY <2>1, <2>2, <2>3 DEF Warmth, InPlace, BatchFresh, Quiet, Fsid
  <2>5. ScannedFresh' /\ Warm'
    BY <2>1, <2>2 DEF Warmth, ScannedFresh, Warm, Quiet
  <2> QED
    BY <2>1, <2>4, <2>5 DEF Warmth
<1> QED
  BY <1>1, <1>2, <1>3, <1>4, UserWarmth, CloneWarmth, TaskWarmth, TakeBatchWarmth, PutBatchWarmth,
     PruneWarmth, NextGroupWarmth, StartWarmth
  DEF Next, ToolStep

\* No run that may miss files ever counts as complete.
LEMMA NeverComplete ==
    ASSUME WalkErrors, TypeOK, warmOps = -1, [Next]_vars
    PROVE  warmOps' = -1
BY DEF Next, ToolStep, TaskStep, Lookup, OpenAndStat, ReadChunk, HashError, Becomes, Start,
       Walk, TakeBatch, PutBatch, AllHashed, Prune, NextGroup, Clone, Crash, vars, loop,
       UserStep, UserActs, Write, Backdate, Unlink, Rename

\* Only what changed is hashed again: behind an undisturbed run over everything no
\* hashing task of a later run, whole, partial or killed, opens a file until a user
\* acts, unless a forced run has cloned into that file since its last commit
\* (hash_one: every other lookup is a hit; put_many and prune keep it so, and what
\* is cloned into is read until one batch with it is committed).
THEOREM WarmRunsReadNothing == Spec => []WarmRunReadsNothing
<1>1. CASE ~WalkErrors
  <2>1. Init => TypeOK /\ Coverage /\ Warmth
    BY InitTyped, InitCoverage, InitWarmth
  <2>2. TypeOK /\ Coverage /\ Warmth /\ [Next]_vars => (TypeOK /\ Coverage /\ Warmth)'
    BY <1>1, NextTyped, NextCoverage, NextWarmth
  <2>3. Warmth => WarmRunReadsNothing
    BY DEF Warmth, Warm, WarmRunReadsNothing
  <2> QED
    BY <2>1, <2>2, <2>3, PTL DEF Spec
<1>2. CASE WalkErrors
  <2> DEFINE NotWarm == warmOps = -1
  <2>1. Init => TypeOK /\ NotWarm
    BY InitTyped DEF Init
  <2>2. TypeOK /\ NotWarm /\ [Next]_vars => (TypeOK /\ NotWarm)'
    BY <1>2, NextTyped, NeverComplete
  <2>3. TypeOK /\ NotWarm => WarmRunReadsNothing
    <3>1. TypeOK => -1 # userOps
      BY DEF TypeOK
    <3> QED
      BY <3>1 DEF WarmRunReadsNothing
  <2> HIDE DEF NotWarm
  <2> QED
    BY <2>1, <2>2, <2>3, PTL DEF Spec
<1> QED
  BY <1>1, <1>2

=============================================================================
