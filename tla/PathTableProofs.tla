-------------------------- MODULE PathTableProofs --------------------------
(***************************************************************************)
(* Proofs about the path arena: types, that every pushed path comes back   *)
(* as it was pushed, and that every directory is stored once.              *)
(***************************************************************************)
EXTENDS PathTable, SequenceTheorems, FiniteSetTheorems, TLAPS

-----------------------------------------------------------------------------
(* Prefixes and slices.                                                    *)

LEMMA PrefixFacts ==
    ASSUME NEW S, NEW s \in Seq(S), NEW k \in 1 .. Len(s)
    PROVE  /\ SubSeq(s, 1, k) \in Seq(S) /\ Len(SubSeq(s, 1, k)) = k
           /\ SubSeq(s, 1, k) # <<>>
           /\ Last(SubSeq(s, 1, k)) = s[k] /\ s[k] \in S
           /\ Front(SubSeq(s, 1, k)) = SubSeq(s, 1, k - 1)
           /\ \A j \in 1 .. k : SubSeq(s, 1, k)[j] = s[j]
<1>1. SubSeq(s, 1, k) \in Seq(S) /\ Len(SubSeq(s, 1, k)) = k
  OBVIOUS
<1>2. \A j \in 1 .. k : SubSeq(s, 1, k)[j] = s[j]
  OBVIOUS
<1>3. Last(SubSeq(s, 1, k)) = s[k] /\ s[k] \in S
  BY <1>1, <1>2 DEF Last
<1>4. SubSeq(SubSeq(s, 1, k), 1, k - 1) = SubSeq(s, 1, k - 1)
  OBVIOUS
<1>5. SubSeq(s, 1, k) # <<>>
  BY <1>1
<1> QED
  BY <1>1, <1>2, <1>3, <1>4, <1>5 DEF Front

LEMMA AppendFacts ==
    ASSUME NEW S, NEW s \in Seq(S), NEW x \in S
    PROVE  /\ Append(s, x) \in Seq(S) /\ Len(Append(s, x)) = Len(s) + 1 /\ Len(s) \in Nat
           /\ Append(s, x)[Len(s) + 1] = x
           /\ \A i \in 1 .. Len(s) : Append(s, x)[i] = s[i]
OBVIOUS

LEMMA ElementOf ==
    ASSUME NEW S, NEW s \in Seq(S), NEW i \in 1 .. Len(s)
    PROVE  s[i] \in S
OBVIOUS

LEMMA FrontFacts ==
    ASSUME NEW S, NEW s \in Seq(S), Len(s) >= 2
    PROVE  /\ Front(s) \in Seq(S) /\ Len(Front(s)) = Len(s) - 1 /\ Front(s) # <<>>
           /\ \A k \in 1 .. Len(s) - 1 : SubSeq(Front(s), 1, k) = SubSeq(s, 1, k)
           /\ SubSeq(Front(s), 1, Len(s) - 1) = Front(s)
           /\ Last(s) = s[Len(s)] /\ Last(s) \in S
<1>1. Front(s) = SubSeq(s, 1, Len(s) - 1)
  BY DEF Front
<1>2. Front(s) \in Seq(S) /\ Len(Front(s)) = Len(s) - 1
  BY <1>1
<1>3. \A k \in 1 .. Len(s) - 1 : SubSeq(SubSeq(s, 1, Len(s) - 1), 1, k) = SubSeq(s, 1, k)
  OBVIOUS
<1>4. Last(s) = s[Len(s)] /\ Last(s) \in S
  BY DEF Last
<1>5. Front(s) # <<>>
  BY <1>2
<1>6. SubSeq(Front(s), 1, Len(s) - 1) = Front(s)
  BY <1>1, <1>3
<1>7. \A k \in 1 .. Len(s) - 1 : SubSeq(Front(s), 1, k) = SubSeq(s, 1, k)
  BY <1>1, <1>3
<1> QED
  BY <1>2, <1>4, <1>5, <1>6, <1>7

\* Reads and LeadsTo of any arena and table.
ReadsIn(bytes, off, len, name) ==
    LET end == (off + len) % Width IN
    off <= end /\ end <= Len(bytes) /\ name = SubSeq(bytes, off + 1, end)

LeadsIn(bytes, ds, id, p) ==
    \E c \in [1 .. Len(p) -> 0 .. Len(ds) - 1] :
        /\ c[Len(p)] = id
        /\ \A k \in 1 .. Len(p) :
              /\ ReadsIn(bytes, ds[c[k] + 1].off, ds[c[k] + 1].len, p[k])
              /\ ds[c[k] + 1].parent = IF k = 1 THEN NO_PARENT ELSE c[k - 1]

LEMMA InState ==
    /\ \A off, len, name : Reads(off, len, name) = ReadsIn(arena, off, len, name)
    /\ \A id, p : LeadsTo(id, p) = LeadsIn(arena, dirs, id, p)
BY DEF Reads, ReadsIn, LeadsTo, LeadsIn

\* A name stays readable while the arena grows behind it.
LEMMA ReadsGrow ==
    ASSUME NEW bytes \in Seq(Byte), NEW x \in Seq(Byte),
           NEW off \in Nat, NEW len \in Nat, NEW name, ReadsIn(bytes, off, len, name)
    PROVE  ReadsIn(bytes \o x, off, len, name)
<1> DEFINE end == (off + len) % Width
<1>1. off <= end /\ end <= Len(bytes) /\ name = SubSeq(bytes, off + 1, end)
  BY DEF ReadsIn
<1>2. end \in Nat
  BY PathTableAssumption
<1> HIDE DEF end
<1>3. Len(bytes \o x) = Len(bytes) + Len(x)
  OBVIOUS
<1>4. SubSeq(bytes \o x, off + 1, end) = SubSeq(bytes, off + 1, end)
  BY <1>1, <1>2
<1>5. off <= end /\ end <= Len(bytes \o x) /\ name = SubSeq(bytes \o x, off + 1, end)
  BY <1>1, <1>2, <1>3, <1>4
<1> QED
  BY <1>5 DEF ReadsIn, end

LEMMA Small ==
    ASSUME NEW n \in Nat, NEW w \in Nat, n < w
    PROVE  n % w = n
OBVIOUS

\* A name that has just been added can be read, unless its end has wrapped.
LEMMA ReadsAdded ==
    ASSUME NEW bytes \in Seq(Byte), NEW x \in Seq(Byte), Len(bytes \o x) < Width
    PROVE  ReadsIn(bytes \o x, Len(bytes), Len(x), x)
<1>1. /\ Len(bytes \o x) = Len(bytes) + Len(x)
      /\ Len(bytes) \in Nat /\ Len(x) \in Nat /\ Width \in Nat
  BY PathTableAssumption
<1>2. (Len(bytes) + Len(x)) % Width = Len(bytes) + Len(x)
  <2>1. Len(bytes) + Len(x) \in Nat /\ Len(bytes) + Len(x) < Width
    BY <1>1
  <2> QED
    BY <1>1, <2>1, Small, Zenon
<1>3. SubSeq(bytes \o x, Len(bytes) + 1, Len(bytes) + Len(x)) = x
  OBVIOUS
<1> QED
  BY <1>1, <1>2, <1>3 DEF ReadsIn

-----------------------------------------------------------------------------
(* Types.                                                                  *)

\* The entry that intern adds next: its path is a prefix of the file's, and
\* that of its parent has an entry.
LEMMA NextEntry ==
    ASSUME todo \in Seq(Component), Len(todo) >= 2, NEW p, NextMissing(p)
    PROVE  \E k \in 1 .. Len(todo) - 1 :
              /\ p = SubSeq(todo, 1, k) /\ p \in Path /\ Len(p) = k
              /\ p \notin DOMAIN ids
              /\ Last(p) \in Component
              /\ k > 1 => Front(p) = SubSeq(todo, 1, k - 1) /\ Front(p) \in DOMAIN ids
<1>1. PICK k \in Missing(Front(todo)) :
          p = SubSeq(todo, 1, k) /\ \A j \in Missing(Front(todo)) : k <= j
  BY DEF NextMissing
<1>2. Len(Front(todo)) = Len(todo) - 1
      /\ \A j \in 1 .. Len(todo) - 1 : SubSeq(Front(todo), 1, j) = SubSeq(todo, 1, j)
  BY FrontFacts
<1>3. k \in 1 .. Len(todo) - 1 /\ p \notin DOMAIN ids
  BY <1>1, <1>2 DEF Missing
<1>4. p \in Path /\ Len(p) = k /\ Last(p) \in Component /\ Front(p) = SubSeq(todo, 1, k - 1)
  <2>1. k \in 1 .. Len(todo)
    BY <1>3
  <2> HIDE DEF Component
  <2>2. /\ SubSeq(todo, 1, k) \in Seq(Component) /\ Len(SubSeq(todo, 1, k)) = k
        /\ SubSeq(todo, 1, k) # <<>>
        /\ Last(SubSeq(todo, 1, k)) = todo[k] /\ todo[k] \in Component
        /\ Front(SubSeq(todo, 1, k)) = SubSeq(todo, 1, k - 1)
    BY <2>1, PrefixFacts
  <2>3. p = SubSeq(todo, 1, k)
    BY <1>1
  <2> QED
    BY <2>2, <2>3, Zenon DEF Path
<1>5. ASSUME k > 1 PROVE Front(p) \in DOMAIN ids
  <2>1. k - 1 \in 1 .. Len(todo) - 1 /\ ~(k <= k - 1)
    BY <1>3, <1>5
  <2>2. k - 1 \notin Missing(Front(todo))
    BY <1>1, <2>1
  <2> QED
    BY <1>2, <1>4, <2>1, <2>2 DEF Missing
<1> QED
  BY <1>1, <1>3, <1>4, <1>5

LEMMA NoParentType == NO_PARENT \in Nat /\ Width \in Nat /\ NO_PARENT < Width
BY PathTableAssumption DEF NO_PARENT

LEMMA AddDirTyped ==
    ASSUME TypeOK, NEW p, AddDir(p)
    PROVE  TypeOK'
<1> USE NoParentType
<1>1. todo \in Seq(Component) /\ Len(todo) >= 2
  BY DEF AddDir, TypeOK
<1>2. PICK k \in 1 .. Len(todo) - 1 :
          /\ p = SubSeq(todo, 1, k) /\ p \in Path /\ Len(p) = k
          /\ Last(p) \in Component
          /\ k > 1 => Front(p) \in DOMAIN ids
  BY <1>1, NextEntry DEF AddDir
<1> DEFINE d == [parent |-> ParentOf(p), off |-> Offset, len |-> Len(Last(p))]
<1>3. Len(arena) \in Nat /\ Len(arena) < Width /\ Len(Last(p)) \in Nat /\ Len(dirs) < NO_PARENT
      /\ Len(dirs) \in Nat
  BY <1>2 DEF AddDir, TypeOK, Component
<1>4. arena' \in Seq(Byte)
  BY <1>2 DEF AddDir, TypeOK, Component
<1>5. ParentOf(p) = NO_PARENT \/ (ParentOf(p) \in Nat /\ ParentOf(p) < Len(dirs))
  BY <1>2, <1>3 DEF ParentOf, TypeOK
<1>6. d \in DirRec /\ d.off < Width /\ (d.parent = NO_PARENT \/ d.parent < Len(dirs))
  BY <1>3, <1>5 DEF DirRec, Offset
<1>7. dirs' = Append(dirs, d) /\ dirs \in Seq(DirRec)
  BY DEF AddDir, TypeOK
<1> HIDE DEF d
<1>8. /\ dirs' \in Seq(DirRec) /\ Len(dirs') = Len(dirs) + 1 /\ Len(dirs') <= NO_PARENT
      /\ \A i \in 1 .. Len(dirs') :
            dirs'[i].off < Width /\ (dirs'[i].parent = NO_PARENT \/ dirs'[i].parent < i - 1)
  <2>1. dirs' \in Seq(DirRec) /\ Len(dirs') = Len(dirs) + 1
    BY <1>6, <1>7
  <2>2. \A i \in 1 .. Len(dirs) : dirs'[i] = dirs[i]
    BY <1>7
  <2>3. dirs'[Len(dirs) + 1] = d
    BY <1>7
  <2>4. \A i \in 1 .. Len(dirs) :
            dirs[i].off < Width /\ (dirs[i].parent = NO_PARENT \/ dirs[i].parent < i - 1)
    BY DEF TypeOK
  <2> QED
    BY <1>3, <1>6, <2>1, <2>2, <2>3, <2>4
<1>9. DOMAIN ids' \subseteq Path /\ \A q \in DOMAIN ids' : ids'[q] \in 0 .. Len(dirs') - 1
  <2>1. ids' = [q \in DOMAIN ids \cup {p} |-> IF q = p THEN Len(dirs) ELSE ids[q]]
    BY DEF AddDir
  <2>2. DOMAIN ids \subseteq Path /\ \A q \in DOMAIN ids : ids[q] \in 0 .. Len(dirs) - 1
    BY DEF TypeOK
  <2>3. p \in Path
    BY <1>2
  <2> QED
    BY <1>3, <1>8, <2>1, <2>2, <2>3
<1>10. UNCHANGED <<files, pushed, todo, state>>
  BY DEF AddDir
<1>11. \A i \in DOMAIN files : files[i] \in FileRec /\ files[i].dir < Len(dirs') /\ files[i].off < Width
  BY <1>3, <1>8 DEF TypeOK, FileRec
<1> QED
  BY <1>4, <1>8, <1>9, <1>10, <1>11 DEF TypeOK

\* What AddFile appends.
LEMMA FileAdded ==
    ASSUME TypeOK, AddFile
    PROVE  /\ todo \in Seq(Component) /\ Len(todo) >= 2
           /\ Front(todo) \in DOMAIN ids
           /\ Last(todo) \in Component
           /\ pushed' = Append(pushed, todo) /\ Len(pushed') = Len(pushed) + 1
           /\ Len(pushed) \in Nat
           /\ files' = [i \in DOMAIN files \cup {Len(pushed) + 1} |->
                            IF i = Len(pushed) + 1
                            THEN [dir |-> ids[Front(todo)], off |-> Offset, len |-> Len(Last(todo))]
                            ELSE files[i]]
<1>1. todo \in Seq(Component) /\ Len(todo) >= 2
  BY DEF AddFile, TypeOK
<1>2. Len(Front(todo)) = Len(todo) - 1 /\ SubSeq(Front(todo), 1, Len(todo) - 1) = Front(todo)
      /\ Last(todo) \in Component
  BY <1>1, FrontFacts
<1>3. Front(todo) \in DOMAIN ids
  <2>1. Len(todo) - 1 \in 1 .. Len(Front(todo))
    BY <1>1, <1>2
  <2> QED
    BY <1>2, <2>1 DEF AddFile, Missing
<1>4. pushed' = Append(pushed, todo) /\ Len(pushed') = Len(pushed) + 1 /\ Len(pushed) \in Nat
  BY <1>1 DEF AddFile, TypeOK
<1> QED
  BY <1>1, <1>2, <1>3, <1>4 DEF AddFile

LEMMA AddFileTyped ==
    ASSUME TypeOK, AddFile
    PROVE  TypeOK'
<1> USE NoParentType
<1> DEFINE f == [dir |-> ids[Front(todo)], off |-> Offset, len |-> Len(Last(todo))]
<1>1. UNCHANGED <<dirs, ids, state>> /\ todo' = <<>> /\ Len(arena) \in Nat /\ Len(arena) < Width
      /\ arena' = arena \o Last(todo)
  BY DEF AddFile, TypeOK
<1>2. arena' \in Seq(Byte)
  BY <1>1, FileAdded DEF TypeOK, Component
<1>3. f \in FileRec /\ f.dir < Len(dirs) /\ f.off < Width
  <2>1. ids[Front(todo)] \in 0 .. Len(dirs) - 1 /\ Len(dirs) \in Nat
    BY FileAdded DEF TypeOK
  <2>2. Len(Last(todo)) \in Nat
    BY FileAdded DEF Component
  <2>3. ids[Front(todo)] \in Nat /\ ids[Front(todo)] < Len(dirs)
    BY <2>1
  <2>4. Offset \in Nat /\ Offset < Width
    BY <1>1 DEF Offset
  <2> QED
    BY <2>2, <2>3, <2>4 DEF FileRec
<1>4. pushed' \in Seq(Seq(Component)) /\ \A i \in 1 .. Len(pushed') : Len(pushed'[i]) >= 2
  <2> DEFINE S == Seq(Component)
  <2>1. pushed \in Seq(S) /\ todo \in S /\ Len(todo) >= 2
        /\ \A i \in 1 .. Len(pushed) : Len(pushed[i]) >= 2
    BY FileAdded DEF TypeOK
  <2>2. pushed' = Append(pushed, todo)
    BY FileAdded
  <2> HIDE DEF S
  <2>3. /\ pushed' \in Seq(S) /\ Len(pushed') = Len(pushed) + 1 /\ Len(pushed) \in Nat
        /\ pushed'[Len(pushed) + 1] = todo
        /\ \A i \in 1 .. Len(pushed) : pushed'[i] = pushed[i]
    BY <2>1, <2>2, AppendFacts
  <2>4. \A i \in 1 .. Len(pushed') : Len(pushed'[i]) >= 2
    BY <2>1, <2>3
  <2> QED
    BY <2>3, <2>4 DEF S
<1>5. /\ DOMAIN files' \subseteq 1 .. Len(pushed')
      /\ \A i \in DOMAIN files' : files'[i] \in FileRec /\ files'[i].dir < Len(dirs) /\ files'[i].off < Width
  <2>1. files' = [i \in DOMAIN files \cup {Len(pushed) + 1} |->
                            IF i = Len(pushed) + 1 THEN f ELSE files[i]]
    BY FileAdded
  <2> HIDE DEF f
  <2>2. DOMAIN files' = DOMAIN files \cup {Len(pushed) + 1}
        /\ \A i \in DOMAIN files' : files'[i] = IF i = Len(pushed) + 1 THEN f ELSE files[i]
    BY <2>1
  <2>3. DOMAIN files \subseteq 1 .. Len(pushed)
        /\ \A i \in DOMAIN files : files[i] \in FileRec /\ files[i].dir < Len(dirs) /\ files[i].off < Width
    BY DEF TypeOK
  <2>4. Len(pushed') = Len(pushed) + 1 /\ Len(pushed) \in Nat
    BY FileAdded
  <2>5. DOMAIN files' \subseteq 1 .. Len(pushed')
    BY <2>2, <2>3, <2>4
  <2>6. ASSUME NEW i \in DOMAIN files'
        PROVE  files'[i] \in FileRec /\ files'[i].dir < Len(dirs) /\ files'[i].off < Width
    <3>1. CASE i = Len(pushed) + 1
      BY <1>3, <2>2, <3>1
    <3>2. CASE i # Len(pushed) + 1
      BY <2>2, <2>3, <3>2
    <3> QED
      BY <3>1, <3>2
  <2> QED
    BY <2>5, <2>6
<1> QED
  BY <1>1, <1>2, <1>4, <1>5 DEF TypeOK

LEMMA PushTyped ==
    ASSUME TypeOK, NEW parent \in Parents, NEW name \in FileNames, Push(parent, name)
    PROVE  TypeOK'
<1>1. todo' = Append(parent, name) /\ UNCHANGED <<arena, dirs, ids, files, pushed, state>>
  BY DEF Push
<1>2. parent \in Seq(Component) /\ parent # <<>> /\ name \in Component
  BY PathTableAssumption DEF Path
<1>3. todo' \in Seq(Component) /\ Len(todo') >= 2
  <2> HIDE DEF Component
  <2> QED
    BY <1>1, <1>2
<1> QED
  BY <1>1, <1>3 DEF TypeOK

LEMMA InitTyped == Init => TypeOK
<1> SUFFICES ASSUME Init PROVE TypeOK
  OBVIOUS
<1>1. Len(arena) = 0 /\ Len(dirs) = 0 /\ Len(pushed) = 0 /\ DOMAIN ids = {} /\ DOMAIN files = {}
  BY DEF Init
<1>2. arena \in Seq(Byte) /\ dirs \in Seq(DirRec) /\ pushed \in Seq(Seq(Component))
  BY DEF Init
<1> QED
  BY <1>1, <1>2, NoParentType DEF Init, TypeOK

LEMMA NextTyped ==
    ASSUME TypeOK, [Next]_vars
    PROVE  TypeOK'
<1>1. CASE UNCHANGED vars
  BY <1>1 DEF vars, TypeOK
<1>2. ASSUME NEW parent \in Parents, NEW name \in FileNames, Push(parent, name) PROVE TypeOK'
  BY <1>2, PushTyped
<1>3. ASSUME NEW k \in 1 .. Len(todo), AddDir(SubSeq(todo, 1, k)) PROVE TypeOK'
  BY <1>3, AddDirTyped
<1>4. CASE AddFile
  BY <1>4, AddFileTyped
<1>5. CASE Overflow
  BY <1>5 DEF Overflow, TypeOK
<1>6. CASE seal
  BY <1>6 DEF seal, TypeOK
<1>7. ASSUME NEW keep, filter_map(keep) PROVE TypeOK'
  BY <1>7 DEF filter_map, TypeOK
<1> QED
  BY <1>1, <1>2, <1>3, <1>4, <1>5, <1>6, <1>7 DEF Next

\* Type correctness of the arena: an entry's parent has a smaller number, so
\* that putting a path together ends, and numbers and offsets fit their width.
THEOREM Typed == Spec => []TypeOK
<1>1. TypeOK /\ [Next]_vars => TypeOK'
  BY NextTyped
<1> QED
  BY <1>1, InitTyped, PTL DEF Spec

-----------------------------------------------------------------------------
(* Paths come back as they were pushed.                                    *)

\* What leads to a path still does in a table that has grown.
LEMMA LeadsKeep ==
    ASSUME NEW bytes \in Seq(Byte), NEW x \in Seq(Byte), NEW ds \in Seq(DirRec), NEW ds2 \in Seq(DirRec),
           Len(ds) <= Len(ds2), \A i \in 1 .. Len(ds) : ds2[i] = ds[i],
           NEW id, NEW p, LeadsIn(bytes, ds, id, p)
    PROVE  LeadsIn(bytes \o x, ds2, id, p)
<1>1. PICK c \in [1 .. Len(p) -> 0 .. Len(ds) - 1] :
         /\ c[Len(p)] = id
         /\ \A k \in 1 .. Len(p) :
               /\ ReadsIn(bytes, ds[c[k] + 1].off, ds[c[k] + 1].len, p[k])
               /\ ds[c[k] + 1].parent = IF k = 1 THEN NO_PARENT ELSE c[k - 1]
  BY DEF LeadsIn
<1>2. Len(ds) \in Nat /\ Len(ds2) \in Nat
  OBVIOUS
<1>3. c \in [1 .. Len(p) -> 0 .. Len(ds2) - 1]
  BY <1>2
<1>4. ASSUME NEW k \in 1 .. Len(p)
      PROVE  /\ ReadsIn(bytes \o x, ds2[c[k] + 1].off, ds2[c[k] + 1].len, p[k])
             /\ ds2[c[k] + 1].parent = IF k = 1 THEN NO_PARENT ELSE c[k - 1]
  <2>1. c[k] + 1 \in 1 .. Len(ds)
    <3>1. c[k] \in 0 .. Len(ds) - 1
      BY <1>1, Zenon
    <3> QED
      BY <1>2, <3>1
  <2>2. ds[c[k] + 1] \in DirRec /\ ds2[c[k] + 1] = ds[c[k] + 1]
    <3>1. ds[c[k] + 1] \in DirRec
      BY <2>1, ElementOf
    <3> QED
      BY <2>1, <3>1, Zenon
  <2>3. ds[c[k] + 1].off \in Nat /\ ds[c[k] + 1].len \in Nat
    BY <2>2 DEF DirRec
  <2>4. ReadsIn(bytes \o x, ds[c[k] + 1].off, ds[c[k] + 1].len, p[k])
    BY <1>1, <2>3, ReadsGrow
  <2> QED
    BY <1>1, <2>2, <2>4
<1> QED
  BY <1>1, <1>3, <1>4 DEF LeadsIn

\* An entry behind that of its parent leads to its path.
LEMMA LeadsAdded ==
    ASSUME NEW bytes \in Seq(Byte), NEW ds \in Seq(DirRec), NEW p \in Path,
           Len(bytes \o Last(p)) < Width, NEW up \in Nat,
           IF Len(p) = 1 THEN up = NO_PARENT ELSE LeadsIn(bytes, ds, up, Front(p))
    PROVE  LeadsIn(bytes \o Last(p),
                   Append(ds, [parent |-> up, off |-> Len(bytes), len |-> Len(Last(p))]), Len(ds), p)
<1> DEFINE e   == [parent |-> up, off |-> Len(bytes), len |-> Len(Last(p))]
           ds2 == Append(ds, e)
           n   == Len(p)
<1>1. p \in Seq(Component) /\ p # <<>>
  BY DEF Path
<1>2. n \in Nat /\ n >= 1 /\ Last(p) = p[n] /\ Last(p) \in Seq(Byte)
  <2>1. n \in Nat /\ n >= 1 /\ p[n] \in Component
    <3> HIDE DEF Component
    <3> QED
      BY <1>1
  <2> QED
    BY <2>1 DEF Last, Component
<1>3. e \in DirRec /\ e.parent = up /\ e.off = Len(bytes) /\ e.len = Len(Last(p))
  <2>1. Len(bytes) \in Nat /\ Len(Last(p)) \in Nat
    BY <1>2
  <2> QED
    BY <2>1 DEF DirRec
<1> HIDE DEF e
<1>4. /\ ds2 \in Seq(DirRec) /\ Len(ds2) = Len(ds) + 1 /\ Len(ds) \in Nat
      /\ ds2[Len(ds) + 1] = e /\ \A i \in 1 .. Len(ds) : ds2[i] = ds[i]
  BY <1>3, AppendFacts
<1>5. ReadsIn(bytes \o Last(p), e.off, e.len, p[n])
  BY <1>2, <1>3, ReadsAdded
<1> HIDE DEF ds2, n
<1>6. CASE n = 1
  <2> DEFINE c == [k \in 1 .. n |-> Len(ds)]
  <2>1. c \in [1 .. n -> 0 .. Len(ds2) - 1] /\ c[n] = Len(ds)
    BY <1>2, <1>4
  <2>2. ASSUME NEW k \in 1 .. n
        PROVE  /\ ReadsIn(bytes \o Last(p), ds2[c[k] + 1].off, ds2[c[k] + 1].len, p[k])
               /\ ds2[c[k] + 1].parent = IF k = 1 THEN NO_PARENT ELSE c[k - 1]
    <3>1. k = n /\ k = 1 /\ ds2[c[k] + 1] = e /\ up = NO_PARENT
      BY <1>4, <1>6 DEF n
    <3> HIDE DEF c
    <3> QED
      BY <1>3, <1>5, <3>1
  <2> HIDE DEF c
  <2> QED
    BY <2>1, <2>2 DEF LeadsIn, ds2, e, n
<1>7. CASE n > 1
  <2>1. /\ Front(p) \in Seq(Component) /\ Len(Front(p)) = n - 1
        /\ \A k \in 1 .. n - 1 : Front(p)[k] = p[k]
    <3> HIDE DEF Component
    <3> QED
      BY <1>1, <1>2, <1>7 DEF Front, n
  <2>2. LeadsIn(bytes, ds, up, Front(p))
    <3>1. Len(p) # 1
      BY <1>2, <1>7 DEF n
    <3> QED
      BY <3>1
  <2>3. LeadsIn(bytes \o Last(p), ds2, up, Front(p))
    BY <1>2, <1>4, <2>2, LeadsKeep
  <2>4. PICK b \in [1 .. n - 1 -> 0 .. Len(ds2) - 1] :
           /\ b[n - 1] = up
           /\ \A k \in 1 .. n - 1 :
                 /\ ReadsIn(bytes \o Last(p), ds2[b[k] + 1].off, ds2[b[k] + 1].len, Front(p)[k])
                 /\ ds2[b[k] + 1].parent = IF k = 1 THEN NO_PARENT ELSE b[k - 1]
    <3>1. Len(Front(p)) = n - 1
      BY <2>1
    <3> QED
      BY <2>3, <3>1, Zenon DEF LeadsIn
  <2> DEFINE c == [k \in 1 .. n |-> IF k = n THEN Len(ds) ELSE b[k]]
  <2>5. c \in [1 .. n -> 0 .. Len(ds2) - 1] /\ c[n] = Len(ds) /\ \A k \in 1 .. n - 1 : c[k] = b[k]
    BY <1>2, <1>4
  <2> HIDE DEF c
  <2>6. ASSUME NEW k \in 1 .. n
        PROVE  /\ ReadsIn(bytes \o Last(p), ds2[c[k] + 1].off, ds2[c[k] + 1].len, p[k])
               /\ ds2[c[k] + 1].parent = IF k = 1 THEN NO_PARENT ELSE c[k - 1]
    <3>1. CASE k = n
      <4>1. ds2[c[k] + 1] = e /\ c[k - 1] = up /\ k # 1
        BY <1>2, <1>4, <1>7, <2>4, <2>5, <3>1
      <4> QED
        BY <1>3, <1>5, <3>1, <4>1
    <3>2. CASE k \in 1 .. n - 1
      <4>1. c[k] = b[k] /\ (k # 1 => c[k - 1] = b[k - 1]) /\ Front(p)[k] = p[k]
        BY <1>2, <2>1, <2>5, <3>2
      <4> QED
        BY <2>4, <3>2, <4>1
    <3> QED
      BY <1>2, <3>1, <3>2
  <2> QED
    BY <2>5, <2>6 DEF LeadsIn, ds2, e, n
<1> QED
  BY <1>2, <1>6, <1>7

\* While the end of the arena fits, every directory that has been interned
\* leads to its path, as does every file.
FileIn(bytes, ds, f, p) ==
    LeadsIn(bytes, ds, f.dir, Front(p)) /\ ReadsIn(bytes, f.off, f.len, Last(p))

Lead ==
    Len(arena) < Width =>
        /\ \A p \in DOMAIN ids : LeadsIn(arena, dirs, ids[p], p)
        /\ \A i \in DOMAIN files : FileIn(arena, dirs, files[i], pushed[i])

LEMMA FileKeeps ==
    ASSUME NEW bytes \in Seq(Byte), NEW x \in Seq(Byte), NEW ds \in Seq(DirRec), NEW ds2 \in Seq(DirRec),
           Len(ds) <= Len(ds2), \A i \in 1 .. Len(ds) : ds2[i] = ds[i],
           NEW f \in FileRec, NEW p, FileIn(bytes, ds, f, p)
    PROVE  FileIn(bytes \o x, ds2, f, p)
<1>1. LeadsIn(bytes \o x, ds2, f.dir, Front(p))
  BY LeadsKeep DEF FileIn
<1>2. ReadsIn(bytes \o x, f.off, f.len, Last(p))
  BY ReadsGrow DEF FileIn, FileRec
<1> QED
  BY <1>1, <1>2 DEF FileIn

LEMMA AddDirLead ==
    ASSUME TypeOK, TypeOK', Lead, NEW p, AddDir(p)
    PROVE  Lead'
<1> SUFFICES ASSUME Len(arena') < Width PROVE Lead'
  BY DEF Lead
<1>1. todo \in Seq(Component) /\ Len(todo) >= 2
  BY DEF AddDir, TypeOK
<1>2. PICK k \in 1 .. Len(todo) - 1 :
          /\ p \in Path /\ Len(p) = k /\ p \notin DOMAIN ids
          /\ Last(p) \in Component
          /\ k > 1 => Front(p) \in DOMAIN ids
  BY <1>1, NextEntry DEF AddDir
<1>3. arena \in Seq(Byte) /\ dirs \in Seq(DirRec) /\ dirs' \in Seq(DirRec) /\ Last(p) \in Seq(Byte)
  BY <1>2 DEF TypeOK, Component
<1>4. /\ arena' = arena \o Last(p)
      /\ dirs' = Append(dirs, [parent |-> ParentOf(p), off |-> Len(arena), len |-> Len(Last(p))])
      /\ ids' = [q \in DOMAIN ids \cup {p} |-> IF q = p THEN Len(dirs) ELSE ids[q]]
      /\ UNCHANGED <<files, pushed>>
  BY DEF AddDir, Offset
<1>5. Len(arena) < Width
  BY <1>3, <1>4, NoParentType
<1>6. ParentOf(p) \in Nat /\ IF Len(p) = 1 THEN ParentOf(p) = NO_PARENT
                             ELSE LeadsIn(arena, dirs, ParentOf(p), Front(p))
  <2>1. CASE k = 1
    BY <1>2, <2>1, NoParentType DEF ParentOf
  <2>2. CASE k > 1
    <3>1. Front(p) \in DOMAIN ids /\ ParentOf(p) = ids[Front(p)] /\ Len(p) # 1
      BY <1>2, <2>2 DEF ParentOf
    <3>2. ids[Front(p)] \in Nat
      BY <3>1 DEF TypeOK
    <3> QED
      BY <1>5, <3>1, <3>2 DEF Lead
  <2> QED
    BY <1>2, <2>1, <2>2
<1>7. /\ Len(dirs) <= Len(dirs') /\ \A i \in 1 .. Len(dirs) : dirs'[i] = dirs[i]
      /\ LeadsIn(arena', dirs', Len(dirs), p)
  <2> DEFINE e == [parent |-> ParentOf(p), off |-> Len(arena), len |-> Len(Last(p))]
  <2>1. e \in DirRec
    BY <1>3, <1>6 DEF DirRec
  <2>2. LeadsIn(arena \o Last(p), Append(dirs, e), Len(dirs), p)
    BY <1>2, <1>3, <1>4, <1>6, LeadsAdded
  <2> HIDE DEF e
  <2>3. Len(dirs) <= Len(Append(dirs, e)) /\ \A i \in 1 .. Len(dirs) : Append(dirs, e)[i] = dirs[i]
    BY <1>3, <2>1, AppendFacts
  <2>4. dirs' = Append(dirs, e) /\ arena' = arena \o Last(p)
    BY <1>4 DEF e
  <2> QED
    BY <2>2, <2>3, <2>4
<1>8. ASSUME NEW q \in DOMAIN ids' PROVE LeadsIn(arena', dirs', ids'[q], q)
  <2>1. CASE q = p
    BY <1>4, <1>7, <2>1
  <2>2. CASE q # p
    <3>1. q \in DOMAIN ids /\ ids'[q] = ids[q] /\ LeadsIn(arena, dirs, ids[q], q)
      BY <1>4, <1>5, <2>2 DEF Lead
    <3> QED
      BY <1>3, <1>4, <1>7, <3>1, LeadsKeep
  <2> QED
    BY <2>1, <2>2
<1>9. ASSUME NEW i \in DOMAIN files PROVE FileIn(arena', dirs', files[i], pushed[i])
  <2>1. FileIn(arena, dirs, files[i], pushed[i]) /\ files[i] \in FileRec
    BY <1>5 DEF Lead, TypeOK
  <2> QED
    BY <1>3, <1>4, <1>7, <2>1, FileKeeps
<1> QED
  BY <1>4, <1>8, <1>9 DEF Lead

LEMMA AddFileLead ==
    ASSUME TypeOK, TypeOK', Lead, AddFile
    PROVE  Lead'
<1> SUFFICES ASSUME Len(arena') < Width PROVE Lead'
  BY DEF Lead
<1> DEFINE x == Last(todo)
           n == Len(pushed) + 1
           f == [dir |-> ids[Front(todo)], off |-> Len(arena), len |-> Len(x)]
<1>1. /\ Front(todo) \in DOMAIN ids /\ x \in Seq(Byte) /\ arena \in Seq(Byte) /\ dirs \in Seq(DirRec)
      /\ arena' = arena \o x /\ UNCHANGED <<dirs, ids>>
      /\ files' = [i \in DOMAIN files \cup {n} |-> IF i = n THEN f ELSE files[i]]
  BY FileAdded DEF AddFile, Offset, TypeOK, Component
<1>2. /\ pushed'[n] = todo /\ \A i \in DOMAIN files : pushed'[i] = pushed[i] /\ i # n
  <2> DEFINE S == Seq(Component)
  <2>1. pushed \in Seq(S) /\ todo \in S /\ pushed' = Append(pushed, todo) /\ n = Len(pushed) + 1
        /\ DOMAIN files \subseteq 1 .. Len(pushed)
    BY FileAdded DEF TypeOK
  <2> HIDE DEF S, n
  <2>2. pushed'[Len(pushed) + 1] = todo /\ \A i \in 1 .. Len(pushed) : pushed'[i] = pushed[i]
        /\ Len(pushed) \in Nat
    BY <2>1, AppendFacts
  <2> QED
    BY <2>1, <2>2
<1> HIDE DEF x, n
<1>3. Len(arena) < Width
  BY <1>1, NoParentType
<1>4. \A q \in DOMAIN ids : LeadsIn(arena', dirs, ids[q], q)
  <2> SUFFICES ASSUME NEW q \in DOMAIN ids PROVE LeadsIn(arena', dirs, ids[q], q)
    OBVIOUS
  <2>1. LeadsIn(arena, dirs, ids[q], q) /\ Len(dirs) <= Len(dirs)
    BY <1>1, <1>3 DEF Lead
  <2> QED
    BY <1>1, <2>1, LeadsKeep
<1>5. FileIn(arena', dirs, f, todo)
  <2>1. ReadsIn(arena', Len(arena), Len(x), x)
    BY <1>1, ReadsAdded
  <2>2. LeadsIn(arena', dirs, ids[Front(todo)], Front(todo))
    BY <1>1, <1>4
  <2> QED
    BY <2>1, <2>2 DEF FileIn, x
<1> HIDE DEF f
<1>6. ASSUME NEW i \in DOMAIN files' PROVE FileIn(arena', dirs, files'[i], pushed'[i])
  <2>1. CASE i = n
    BY <1>1, <1>2, <1>5, <2>1
  <2>2. CASE i # n
    <3>1. /\ i \in DOMAIN files /\ files'[i] = files[i] /\ pushed'[i] = pushed[i]
          /\ FileIn(arena, dirs, files[i], pushed[i]) /\ files[i] \in FileRec /\ Len(dirs) <= Len(dirs)
      BY <1>1, <1>2, <1>3, <2>2 DEF Lead, TypeOK
    <3> QED
      BY <1>1, <3>1, FileKeeps
  <2> QED
    BY <2>1, <2>2
<1> QED
  BY <1>1, <1>4, <1>6 DEF Lead

LEMMA NextLead ==
    ASSUME TypeOK, TypeOK', Lead, [Next]_vars
    PROVE  Lead'
<1>1. ASSUME NEW k \in 1 .. Len(todo), AddDir(SubSeq(todo, 1, k)) PROVE Lead'
  BY <1>1, AddDirLead
<1>2. CASE AddFile
  BY <1>2, AddFileLead
<1>3. ASSUME UNCHANGED <<arena, dirs, files, pushed>>, ids' = ids \/ DOMAIN ids' = {} PROVE Lead'
  BY <1>3 DEF Lead
<1>4. CASE UNCHANGED vars
  BY <1>3, <1>4 DEF vars
<1>5. ASSUME NEW parent, NEW name, Push(parent, name) PROVE Lead'
  BY <1>3, <1>5 DEF Push
<1>6. CASE Overflow \/ seal
  BY <1>3, <1>6 DEF Overflow, seal
<1>7. ASSUME NEW keep, filter_map(keep) PROVE Lead'
  BY <1>7 DEF filter_map, Lead
<1> QED
  BY <1>1, <1>2, <1>4, <1>5, <1>6, <1>7 DEF Next

\* Whatever is pushed in whichever order and dropped later, a file's path comes
\* back component by component as it was pushed, for every width of offsets,
\* as long as the end of the arena fits it.
THEOREM PathsResolve == Spec => []FilesResolve
<1>1. Init => Lead
  BY DEF Init, Lead
<1>2. TypeOK /\ TypeOK' /\ Lead /\ [Next]_vars => Lead'
  BY NextLead
<1>3. Lead => FilesResolve
  BY InState DEF Lead, FilesResolve, FileIn, to_path
<1> QED
  BY <1>1, <1>2, <1>3, Typed, PTL DEF Spec

-----------------------------------------------------------------------------
(* Every directory is stored once.                                         *)

\* The table has one entry per interned path, and those are the directories of
\* the pushed paths and of the one that is being pushed.
Once ==
    /\ state # "sealed" => /\ IsFiniteSet(DOMAIN ids) /\ Len(dirs) = Cardinality(DOMAIN ids)
                           /\ AllDirs \subseteq DOMAIN ids
                           /\ DOMAIN ids \subseteq AllDirs \cup DirsOf(todo)
    /\ state = "panic" => todo # <<>>
    /\ StoredOnce

LEMMA NoDirs == DirsOf(<<>>) = {}
BY DEF DirsOf

LEMMA NextOnce ==
    ASSUME TypeOK, Once, [Next]_vars
    PROVE  Once'
<1>1. ASSUME NEW parent \in Parents, NEW name \in FileNames, Push(parent, name) PROVE Once'
  <2>1. state = "walk" /\ todo = <<>> /\ UNCHANGED <<dirs, ids, pushed, state>>
    BY <1>1 DEF Push
  <2>2. AllDirs' = AllDirs
    BY <2>1 DEF AllDirs
  <2>3. todo' # <<>>
    <3>1. parent \in Seq(Component) /\ name \in Component
      BY PathTableAssumption DEF Path
    <3> HIDE DEF Component
    <3> QED
      BY <1>1, <3>1, AppendFacts DEF Push
  <2>4. DOMAIN ids \subseteq AllDirs
    BY <2>1, NoDirs DEF Once
  <2> QED
    BY <2>1, <2>2, <2>3, <2>4 DEF Once, StoredOnce
<1>2. ASSUME NEW p, AddDir(p) PROVE Once'
  <2>1. todo \in Seq(Component) /\ Len(todo) >= 2 /\ state = "walk" /\ todo # <<>>
    BY <1>2 DEF AddDir, TypeOK
  <2>2. p \notin DOMAIN ids /\ p \in DirsOf(todo)
    BY <1>2, <2>1, NextEntry DEF AddDir, DirsOf
  <2>3. DOMAIN ids' = DOMAIN ids \cup {p} /\ UNCHANGED <<files, pushed, todo, state>>
    BY <1>2 DEF AddDir
  <2>4. Len(dirs') = Len(dirs) + 1
    BY <1>2 DEF AddDir, TypeOK
  <2>5. AllDirs' = AllDirs /\ DirsOf(todo)' = DirsOf(todo)
    BY <2>3 DEF AllDirs, DirsOf
  <2>6. IsFiniteSet(DOMAIN ids') /\ Cardinality(DOMAIN ids') = Cardinality(DOMAIN ids) + 1
    BY <2>1, <2>2, <2>3, FS_AddElement DEF Once
  <2> QED
    BY <2>1, <2>2, <2>3, <2>4, <2>5, <2>6 DEF Once, StoredOnce
<1>3. CASE AddFile
  <2>1. state = "walk" /\ state' = state /\ UNCHANGED <<dirs, ids>> /\ todo' = <<>>
    BY <1>3 DEF AddFile
  <2>2. DirsOf(todo) \subseteq DOMAIN ids
    <3>1. todo \in Seq(Component) /\ Len(todo) >= 2 /\ Missing(Front(todo)) = {}
      BY <1>3 DEF AddFile, TypeOK
    <3>2. Len(Front(todo)) = Len(todo) - 1
          /\ \A k \in 1 .. Len(todo) - 1 : SubSeq(Front(todo), 1, k) = SubSeq(todo, 1, k)
      BY <3>1, FrontFacts
    <3> QED
      BY <3>1, <3>2 DEF Missing, DirsOf
  <2>3. AllDirs' = AllDirs \cup DirsOf(todo)
    <3> DEFINE S == Seq(Component)
    <3>1. pushed \in Seq(S) /\ todo \in S /\ pushed' = Append(pushed, todo)
      BY <1>3, FileAdded DEF TypeOK
    <3> HIDE DEF S
    <3>2. /\ Len(pushed') = Len(pushed) + 1 /\ Len(pushed) \in Nat /\ pushed'[Len(pushed) + 1] = todo
          /\ \A i \in 1 .. Len(pushed) : pushed'[i] = pushed[i]
      BY <3>1, AppendFacts
    <3>3. \A i \in 1 .. Len(pushed') : i \in 1 .. Len(pushed) \/ i = Len(pushed) + 1
      BY <3>2
    <3>4. AllDirs' = UNION { DirsOf(pushed'[i]) : i \in 1 .. Len(pushed') }
      BY DEF AllDirs, DirsOf
    <3> QED
      BY <3>2, <3>3, <3>4 DEF AllDirs
  <2>4. DOMAIN ids = AllDirs'
    BY <2>1, <2>2, <2>3 DEF Once
  <2> QED
    BY <2>1, <2>4 DEF Once, StoredOnce
<1>4. CASE Overflow
  <2>1. state = "walk" /\ state' = "panic" /\ todo # <<>> /\ UNCHANGED <<dirs, ids, pushed, todo>>
    BY <1>4 DEF Overflow
  <2>2. AllDirs' = AllDirs /\ DirsOf(todo)' = DirsOf(todo)
    BY <2>1 DEF AllDirs, DirsOf
  <2> QED
    BY <2>1, <2>2 DEF Once, StoredOnce
<1>5. CASE seal
  <2>1. state' = "sealed" /\ todo = <<>> /\ UNCHANGED <<dirs, pushed, todo>>
    BY <1>5 DEF seal
  <2>2. AllDirs' = AllDirs
    BY <2>1 DEF AllDirs
  <2> QED
    BY <2>1, <2>2 DEF Once, StoredOnce
<1>6. ASSUME UNCHANGED <<dirs, ids, pushed, todo, state>> PROVE Once'
  <2>1. AllDirs' = AllDirs /\ DirsOf(todo)' = DirsOf(todo)
    BY <1>6 DEF AllDirs, DirsOf
  <2> QED
    BY <1>6, <2>1 DEF Once, StoredOnce
<1>7. ASSUME NEW keep, filter_map(keep) PROVE Once'
  BY <1>6, <1>7 DEF filter_map
<1>8. CASE UNCHANGED vars
  BY <1>6, <1>8 DEF vars
<1> QED
  BY <1>1, <1>2, <1>3, <1>4, <1>5, <1>7, <1>8 DEF Next

LEMMA InitOnce == Init => Once
<1> SUFFICES ASSUME Init PROVE Once
  OBVIOUS
<1>1. DOMAIN ids = {} /\ Len(dirs) = 0 /\ todo = <<>> /\ state = "walk" /\ Len(pushed) = 0
  BY DEF Init
<1>2. AllDirs = {}
  BY <1>1 DEF AllDirs
<1>3. IsFiniteSet({}) /\ Cardinality({}) = 0
  BY FS_EmptySet
<1> QED
  BY <1>1, <1>2, <1>3 DEF Once, StoredOnce

\* "Each path component is stored once rather than once per file": the table
\* never holds two entries for a directory, nor one that no file needs.
THEOREM DirectoriesStoredOnce == Spec => []StoredOnce
<1>1. TypeOK /\ Once /\ [Next]_vars => Once'
  BY NextOnce
<1>2. Once => StoredOnce
  BY DEF Once
<1> QED
  BY <1>1, <1>2, InitOnce, Typed, PTL DEF Spec
=============================================================================
