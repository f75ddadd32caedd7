-------------------------- MODULE ChunkIndexProofs --------------------------
(***************************************************************************)
(* Proofs about ChunkIndex: whatever dup_key maps to what, and wherever    *)
(* the filter puts its probes, the pre-filter loses no duplicate and the   *)
(* two passes deliver the index that Chunks defines.                       *)
(***************************************************************************)
EXTENDS ChunkIndex, ChunksProofs, FiniteSetTheorems

KeyOf(l) == KeyAt(files, cache, l)

\* The locations that the second pass has pushed so far.
Recorded(l) == l \in AllLocs /\ Visited(l) /\ TruncOf(l) \in dup

-----------------------------------------------------------------------------
(* The chunk stream.                                                       *)

LEMMA HashesAreAList ==
    ASSUME NEW fl, NEW ch, Snapshot(fl, ch), NEW i
    PROVE  IsList(Hashes(fl, ch, i))
BY DEF Snapshot, Hashes, IsList

\* The members of the stream.
LEMMA StreamAt ==
    ASSUME NEW fl, NEW ch, Snapshot(fl, ch), NEW l
    PROVE  l \in each_chunk(fl, ch) <=>
              /\ l \in Location
              /\ l.file \in DOMAIN fl
              /\ l.chunk < Len(Hashes(fl, ch, l.file))
              /\ Hashes(fl, ch, l.file)[l.chunk + 1] # ZeroHash
<1>1. ASSUME l \in each_chunk(fl, ch)
      PROVE  /\ l \in Location
             /\ l.file \in DOMAIN fl
             /\ l.chunk < Len(Hashes(fl, ch, l.file))
             /\ Hashes(fl, ch, l.file)[l.chunk + 1] # ZeroHash
  <2>0. PICK i \in DOMAIN fl :
            \E c \in DOMAIN Hashes(fl, ch, i) :
                l = [file |-> i, chunk |-> c - 1] /\ Hashes(fl, ch, i)[c] # ZeroHash
    BY <1>1 DEF each_chunk
  <2>1. PICK c \in DOMAIN Hashes(fl, ch, i) :
            l = [file |-> i, chunk |-> c - 1] /\ Hashes(fl, ch, i)[c] # ZeroHash
    BY <2>0
  <2>2. c \in 1 .. Len(Hashes(fl, ch, i)) /\ Len(Hashes(fl, ch, i)) \in Nat /\ i \in Nat
    BY HashesAreAList DEF IsList, Snapshot, GoodSnapshot
  <2>3. c - 1 \in Nat /\ c - 1 < Len(Hashes(fl, ch, i)) /\ (c - 1) + 1 = c
    BY <2>2
  <2> QED
    BY <2>1, <2>2, <2>3 DEF Location
<1>2. ASSUME l \in Location, l.file \in DOMAIN fl,
             l.chunk < Len(Hashes(fl, ch, l.file)),
             Hashes(fl, ch, l.file)[l.chunk + 1] # ZeroHash
      PROVE  l \in each_chunk(fl, ch)
  <2>1. l.chunk \in Nat /\ l = [file |-> l.file, chunk |-> l.chunk]
    BY <1>2 DEF Location
  <2>2. l.chunk + 1 \in DOMAIN Hashes(fl, ch, l.file) /\ (l.chunk + 1) - 1 = l.chunk
    BY <1>2, <2>1, HashesAreAList DEF IsList
  <2>3. l = [file |-> l.file, chunk |-> (l.chunk + 1) - 1]
    BY <2>1, <2>2
  <2> QED
    BY <1>2, <2>2, <2>3 DEF each_chunk
<1> QED
  BY <1>1, <1>2

-----------------------------------------------------------------------------
(* The inductive invariant.                                                *)

\* The cursor never runs past the file that it is in, and stands behind the last
\* file once both passes are over.
CursorOK ==
    /\ Snapshot(files, cache)
    /\ pass \in {"scan", "collect", "retain", "done", "failed"}
    /\ fi \in 1 .. Len(files) + 1
    /\ ci \in Nat
    /\ fi \in DOMAIN files => ci <= Len(Hashes(files, cache, fi))
    /\ pass \in {"retain", "done"} => fi \notin DOMAIN files

\* What the first pass has visited is in the filter, and in dup if it was met
\* twice.
FilterOK ==
    /\ dup \subseteq { TruncOf(l) : l \in AllLocs }
    /\ pass = "scan" => \A l \in AllLocs : Visited(l) => Positions(size, TruncOf(l)) \subseteq bits
    /\ NoFalseNegative

\* The groups hold what the second pass has visited and dup let through.
GroupsOK ==
    /\ idx \in [DOMAIN idx -> Seq(AllLocs)]
    /\ \A k \in DOMAIN idx : idx[k] # <<>>
    /\ \A k \in DOMAIN idx : \A n \in DOMAIN idx[k] : Visited(idx[k][n]) /\ KeyOf(idx[k][n]) = k
    /\ pass = "scan" => DOMAIN idx = {}
    /\ pass \in {"collect", "retain"} =>
          /\ \A k \in DOMAIN idx : dup_key(k[1], k[2]) \in dup
          /\ \A l \in AllLocs : Recorded(l) =>
                KeyOf(l) \in DOMAIN idx /\ \E n \in DOMAIN idx[KeyOf(l)] : idx[KeyOf(l)][n] = l
    /\ GroupsInOrder
    /\ IndexExact

IInv == CursorOK /\ FilterOK /\ GroupsOK

LEMMA IndexInit == Init => IInv
<1> SUFFICES ASSUME Init PROVE IInv
  OBVIOUS
<1>1. Snapshot(files, cache)
  BY IndexAssumption DEF Init
<1>2. CursorOK
  BY <1>1, HashesAreAList DEF Init, CursorOK, IsList, Snapshot
<1>3. ASSUME NEW l \in AllLocs PROVE ~Visited(l)
  BY <1>1, StreamAt DEF Init, Visited, AllLocs, Location, Snapshot, IsList
<1>4. FilterOK
  BY <1>3 DEF Init, FilterOK, NoFalseNegative
<1>5. GroupsOK
  BY DEF Init, GroupsOK, GroupsInOrder, IndexExact
<1> QED
  BY <1>2, <1>4, <1>5 DEF IInv

-----------------------------------------------------------------------------
(* The steps.  None of them changes what the passes read.                  *)

LEMMA SameStream ==
    ASSUME UNCHANGED <<files, cache>>
    PROVE  /\ AllLocs' = AllLocs
           /\ size' = size
           /\ \A l : TruncOf(l)' = TruncOf(l) /\ KeyOf(l)' = KeyOf(l)
<1>1. AllLocs' = AllLocs
  BY DEF AllLocs
<1>2. size' = size
  BY DEF size
<1>3. \A l : TruncOf(l)' = TruncOf(l) /\ KeyOf(l)' = KeyOf(l)
  BY DEF TruncOf, KeyOf
<1> QED
  BY <1>1, <1>2, <1>3

\* Visit moves the cursor over the location that it stands on.
LEMMA VisitMoves ==
    ASSUME CursorOK, Visit
    PROVE  /\ CursorOK'
           /\ Here \in Location /\ ~Visited(Here)
           /\ Here \in AllLocs <=> Hashes(files, cache, fi)[ci + 1] # ZeroHash
           /\ \A l \in AllLocs : Visited(l)' <=> Visited(l) \/ l = Here
           /\ TruncKey = TruncOf(Here) /\ HereKey = KeyOf(Here)
<1>1. Snapshot(files, cache) /\ IsList(files) /\ IsList(Hashes(files, cache, fi))
  BY HashesAreAList DEF CursorOK, Snapshot
<1>2. fi \in Nat /\ ci \in Nat /\ ci < Len(Hashes(files, cache, fi)) /\ fi \in DOMAIN files
  BY <1>1 DEF CursorOK, Visit, IsList
<1>3. CursorOK'
  BY <1>1, <1>2 DEF CursorOK, Visit, IsList, Streaming
<1>4. Here \in Location /\ ~Visited(Here)
  BY <1>2 DEF Here, Location, Visited
<1>5. Here \in AllLocs <=> Hashes(files, cache, fi)[ci + 1] # ZeroHash
  BY <1>1, <1>2, <1>4, StreamAt DEF Here, AllLocs
<1>6. ASSUME NEW l \in AllLocs PROVE Visited(l)' <=> Visited(l) \/ l = Here
  <2>1. l \in Location /\ l.file \in Nat /\ l.chunk \in Nat
    BY <1>1, StreamAt DEF AllLocs, Location
  <2>2. l = Here <=> l.file = fi /\ l.chunk = ci
    BY <2>1 DEF Here, Location
  <2> QED
    BY <1>2, <2>1, <2>2 DEF Visited, Visit
<1> QED
  BY <1>3, <1>4, <1>5, <1>6 DEF TruncKey, HereKey, TruncOf, KeyOf

LEMMA ZeroStep ==
    ASSUME IInv, Visit, Hashes(files, cache, fi)[ci + 1] = ZeroHash
    PROVE  IInv'
<1>1. UNCHANGED <<files, cache, pass, bits, dup, idx>>
  BY DEF Visit
<1>2. CursorOK' /\ \A l \in AllLocs : Visited(l)' <=> Visited(l)
  BY VisitMoves DEF IInv
<1>3. AllLocs' = AllLocs /\ size' = size /\ \A l : TruncOf(l)' = TruncOf(l) /\ KeyOf(l)' = KeyOf(l)
  BY <1>1, SameStream
<1>4. FilterOK'
  BY <1>1, <1>2, <1>3 DEF IInv, FilterOK, NoFalseNegative
<1>5. GroupsOK'
  <2>1. \A k \in DOMAIN idx : \A n \in DOMAIN idx[k] : idx[k][n] \in AllLocs
    BY DEF IInv, GroupsOK
  <2>2. \A l : Recorded(l)' <=> Recorded(l)
    BY <1>1, <1>2, <1>3 DEF Recorded
  <2>3. GroupsInOrder' /\ IndexExact'
    BY <1>1 DEF IInv, GroupsOK, GroupsInOrder, IndexExact
  <2> QED
    BY <1>1, <1>2, <1>3, <2>1, <2>2, <2>3 DEF IInv, GroupsOK
<1> QED
  BY <1>2, <1>4, <1>5 DEF IInv

\* The first pass meets a chunk.
LEMMA ScanStep ==
    ASSUME IInv, Visit, pass = "scan", Hashes(files, cache, fi)[ci + 1] # ZeroHash
    PROVE  IInv'
<1>1. UNCHANGED <<files, cache, pass, idx>> /\ bits' = inserted(TruncKey)
      /\ dup' = IF contains(TruncKey) THEN dup \cup {TruncKey} ELSE dup
  BY DEF Visit, Scan
<1>2. CursorOK' /\ Here \in AllLocs /\ TruncKey = TruncOf(Here)
      /\ \A l \in AllLocs : Visited(l)' <=> Visited(l) \/ l = Here
  BY VisitMoves DEF IInv
<1>3. AllLocs' = AllLocs /\ size' = size /\ \A l : TruncOf(l)' = TruncOf(l) /\ KeyOf(l)' = KeyOf(l)
  BY <1>1, SameStream
<1>4. \A l \in AllLocs : Visited(l)' => Positions(size, TruncOf(l)) \subseteq bits'
  BY <1>1, <1>2 DEF IInv, FilterOK, inserted
<1>5. ASSUME NEW l \in AllLocs, NEW m \in AllLocs, l # m, TruncOf(l) = TruncOf(m),
             Visited(l)', Visited(m)'
      PROVE  TruncOf(l) \in dup'
  <2>1. CASE Visited(l) /\ Visited(m)
    BY <1>1, <1>5, <2>1 DEF IInv, FilterOK, NoFalseNegative
  <2>2. CASE l = Here \/ m = Here
    <3>1. Positions(size, TruncKey) \subseteq bits
      BY <1>2, <1>5, <2>2 DEF IInv, FilterOK
    <3> QED
      BY <1>1, <1>2, <1>5, <2>2, <3>1 DEF contains
  <2> QED
    BY <1>2, <1>5, <2>1, <2>2
<1>6. FilterOK'
  <2>1. dup' \subseteq { TruncOf(l) : l \in AllLocs }
    BY <1>1, <1>2 DEF IInv, FilterOK
  <2>2. NoFalseNegative'
    BY <1>1, <1>3, <1>5 DEF NoFalseNegative
  <2> QED
    BY <1>1, <1>3, <1>4, <2>1, <2>2 DEF FilterOK
<1>7. GroupsOK'
  BY <1>1, <1>3 DEF IInv, GroupsOK, GroupsInOrder, IndexExact
<1> QED
  BY <1>2, <1>6, <1>7 DEF IInv

\* The second pass meets a chunk that dup lets through.
LEMMA PushStep ==
    ASSUME IInv, Visit, pass = "collect", Hashes(files, cache, fi)[ci + 1] # ZeroHash,
           TruncKey \in dup
    PROVE  IInv'
<1> DEFINE old == IF HereKey \in DOMAIN idx THEN idx[HereKey] ELSE <<>>
<1>1. UNCHANGED <<files, cache, pass, bits, dup>> /\ idx' = Pushed(HereKey, Here)
  BY DEF Visit, Collect
<1>2. /\ CursorOK' /\ Here \in AllLocs /\ ~Visited(Here)
      /\ TruncKey = TruncOf(Here) /\ HereKey = KeyOf(Here)
      /\ \A l \in AllLocs : Visited(l)' <=> Visited(l) \/ l = Here
  BY VisitMoves DEF IInv
<1>3. AllLocs' = AllLocs /\ size' = size /\ \A l : TruncOf(l)' = TruncOf(l) /\ KeyOf(l)' = KeyOf(l)
  BY <1>1, SameStream
<1>4. FilterOK'
  BY <1>1, <1>2, <1>3 DEF IInv, FilterOK, NoFalseNegative
<1>5. idx \in [DOMAIN idx -> Seq(AllLocs)]
  BY DEF IInv, GroupsOK
<1>6. /\ DOMAIN idx' = DOMAIN idx \cup {HereKey}
      /\ idx' \in [DOMAIN idx' -> Seq(AllLocs)]
      /\ \A j \in DOMAIN idx : j # HereKey => idx'[j] = idx[j]
      /\ idx'[HereKey] = Append(old, Here)
      /\ old \in Seq(AllLocs)
  <2>1. old \in Seq(AllLocs)
    BY <1>5
  <2>2. IF HereKey \in DOMAIN idx THEN old = idx[HereKey] ELSE old = <<>>
    OBVIOUS
  <2> HIDE DEF old
  <2>3. Append(old, Here) \in Seq(AllLocs) /\ Append(<<>>, Here) = <<Here>>
    BY <1>2, <2>1
  <2>4. idx' = [j \in DOMAIN idx \cup {HereKey} |-> IF j # HereKey THEN idx[j] ELSE Append(old, Here)]
    BY <1>1, <2>2, <2>3 DEF Pushed
  <2>5. /\ DOMAIN idx' = DOMAIN idx \cup {HereKey}
        /\ \A j \in DOMAIN idx : j # HereKey => idx'[j] = idx[j]
        /\ idx'[HereKey] = Append(old, Here)
    BY <2>4
  <2>6. \A j \in DOMAIN idx' : idx'[j] \in Seq(AllLocs)
    BY <1>5, <2>3, <2>5
  <2> QED
    BY <2>1, <2>4, <2>5, <2>6
<1>7. /\ DOMAIN idx'[HereKey] = 1 .. Len(old) + 1
      /\ DOMAIN old = 1 .. Len(old)
      /\ Len(old) \in Nat
      /\ idx'[HereKey][Len(old) + 1] = Here
      /\ \A n \in 1 .. Len(old) : idx'[HereKey][n] = old[n]
      /\ idx'[HereKey] # <<>>
  BY <1>2, <1>6
<1>8. \A n \in DOMAIN old : Visited(old[n]) /\ KeyOf(old[n]) = HereKey /\ old[n] \in AllLocs
  BY <1>6 DEF IInv, GroupsOK
<1> HIDE DEF old
<1>9. ASSUME NEW k \in DOMAIN idx', NEW n \in DOMAIN idx'[k]
      PROVE  (Visited(idx[k][n]) /\ KeyOf(idx[k][n]) = k)'
  <2> DEFINE l == idx'[k][n]
  <2>1. l \in AllLocs /\ KeyOf(l) = k /\ (Visited(l) \/ l = Here)
    <3>1. CASE k = HereKey
      BY <1>2, <1>7, <1>8, <1>9, <3>1
    <3>2. CASE k # HereKey
      BY <1>5, <1>6, <1>9, <3>2 DEF IInv, GroupsOK
    <3> QED
      BY <3>1, <3>2
  <2>2. (KeyOf(idx[k][n]))' = KeyOf(l)
    BY <1>1 DEF KeyOf
  <2>3. (Visited(idx[k][n]))' <=> (l.file < fi' \/ (l.file = fi' /\ l.chunk < ci'))
    BY DEF Visited
  <2>4. ASSUME NEW x, x = l PROVE Visited(x)'
    BY <1>2, <2>1, <2>4
  <2> QED
    BY <2>1, <2>2, <2>3, <2>4 DEF Visited
<1>10. ASSUME NEW k \in DOMAIN idx' PROVE idx'[k] # <<>> /\ dup_key(k[1], k[2]) \in dup'
  BY <1>1, <1>6, <1>7 DEF IInv, GroupsOK, TruncKey
<1>11. ASSUME NEW l \in AllLocs, Recorded(l)'
       PROVE  KeyOf(l) \in DOMAIN idx' /\ \E n \in DOMAIN idx'[KeyOf(l)] : idx'[KeyOf(l)][n] = l
  <2>1. CASE l = Here
    BY <1>2, <1>6, <1>7, <2>1
  <2>2. CASE l # Here
    <3>1. Recorded(l)
      BY <1>1, <1>2, <1>3, <1>11, <2>2 DEF Recorded
    <3>2. PICK n \in DOMAIN idx[KeyOf(l)] : KeyOf(l) \in DOMAIN idx /\ idx[KeyOf(l)][n] = l
      BY <3>1 DEF IInv, GroupsOK
    <3>3. CASE KeyOf(l) = HereKey
      BY <1>6, <1>7, <3>2, <3>3 DEF old
    <3>4. CASE KeyOf(l) # HereKey
      BY <1>6, <3>2, <3>4
    <3> QED
      BY <3>3, <3>4
  <2> QED
    BY <2>1, <2>2
<1>12. GroupsInOrder'
  <2> SUFFICES ASSUME NEW k \in DOMAIN idx', NEW m \in DOMAIN idx'[k], NEW n \in DOMAIN idx'[k], m < n
               PROVE  LocBefore(idx'[k][m], idx'[k][n])
    BY DEF GroupsInOrder
  <2>1. CASE k # HereKey
    BY <1>6, <2>1 DEF IInv, GroupsOK, GroupsInOrder
  <2>2. CASE k = HereKey /\ n \in 1 .. Len(old)
    <3>1. m \in 1 .. Len(old) /\ k \in DOMAIN idx /\ old = idx[k]
      BY <1>7, <2>2 DEF old
    <3> QED
      BY <1>7, <2>2, <3>1 DEF IInv, GroupsOK, GroupsInOrder
  <2>3. CASE k = HereKey /\ n = Len(old) + 1
    <3>1. m \in 1 .. Len(old) /\ idx'[k][m] = old[m] /\ idx'[k][n] = Here
      BY <1>7, <2>3
    <3>2. Visited(old[m]) /\ old[m] \in AllLocs
      BY <1>7, <1>8, <3>1
    <3> QED
      BY <3>1, <3>2 DEF Visited, Here, LocBefore
  <2> QED
    BY <1>7, <2>1, <2>2, <2>3
<1>13. GroupsOK'
  BY <1>1, <1>3, <1>6, <1>9, <1>10, <1>11, <1>12 DEF GroupsOK, IndexExact
<1> QED
  BY <1>2, <1>4, <1>13 DEF IInv

\* The second pass meets a chunk that occurs once.
LEMMA SkipStep ==
    ASSUME IInv, Visit, pass = "collect", Hashes(files, cache, fi)[ci + 1] # ZeroHash,
           TruncKey \notin dup
    PROVE  IInv'
<1>1. UNCHANGED <<files, cache, pass, bits, dup, idx>>
  BY DEF Visit, Collect
<1>2. /\ CursorOK' /\ TruncKey = TruncOf(Here)
      /\ \A l \in AllLocs : Visited(l)' <=> Visited(l) \/ l = Here
  BY VisitMoves DEF IInv
<1>3. AllLocs' = AllLocs /\ size' = size /\ \A l : TruncOf(l)' = TruncOf(l) /\ KeyOf(l)' = KeyOf(l)
  BY <1>1, SameStream
<1>4. FilterOK'
  BY <1>1, <1>2, <1>3 DEF IInv, FilterOK, NoFalseNegative
<1>5. GroupsOK'
  <2>1. \A k \in DOMAIN idx : \A n \in DOMAIN idx[k] : idx[k][n] \in AllLocs
    BY DEF IInv, GroupsOK
  <2>2. \A l : Recorded(l)' <=> Recorded(l)
    BY <1>1, <1>2, <1>3 DEF Recorded
  <2>3. GroupsInOrder' /\ IndexExact'
    BY <1>1 DEF IInv, GroupsOK, GroupsInOrder, IndexExact
  <2> QED
    BY <1>1, <1>2, <1>3, <2>1, <2>2, <2>3 DEF IInv, GroupsOK
<1> QED
  BY <1>2, <1>4, <1>5 DEF IInv

\* Behind the last chunk of a file the cursor passes nothing over.
LEMMA NextFileStep ==
    ASSUME IInv, NextFile
    PROVE  IInv'
<1>1. UNCHANGED <<files, cache, pass, bits, dup, idx>> /\ fi' = fi + 1 /\ ci' = 0
      /\ fi \in DOMAIN files /\ ci >= Len(Hashes(files, cache, fi))
  BY DEF NextFile
<1>2. Snapshot(files, cache) /\ IsList(files) /\ fi \in Nat /\ ci \in Nat
  BY DEF IInv, CursorOK, Snapshot, IsList
<1>3. CursorOK'
  <2>1. fi' \in 1 .. Len(files) + 1
    BY <1>1, <1>2 DEF IsList
  <2>2. 0 <= Len(Hashes(files, cache, fi'))
    BY <1>2, HashesAreAList DEF IsList
  <2>3. pass' \in {"scan", "collect"}
    BY <1>1 DEF NextFile, Streaming
  <2> QED
    BY <1>1, <1>2, <2>1, <2>2, <2>3 DEF CursorOK
<1>4. ASSUME NEW l \in AllLocs PROVE Visited(l)' <=> Visited(l)
  <2>1. l.file \in Nat /\ l.chunk \in Nat /\ l.chunk < Len(Hashes(files, cache, l.file))
    BY <1>2, StreamAt DEF AllLocs, Location
  <2>2. l.file = fi => l.chunk < ci
    BY <1>1, <1>2, <2>1, HashesAreAList DEF IsList
  <2> QED
    BY <1>1, <1>2, <2>1, <2>2 DEF Visited
<1>5. AllLocs' = AllLocs /\ size' = size /\ \A l : TruncOf(l)' = TruncOf(l) /\ KeyOf(l)' = KeyOf(l)
  BY <1>1, SameStream
<1>6. FilterOK'
  BY <1>1, <1>4, <1>5 DEF IInv, FilterOK, NoFalseNegative
<1>7. GroupsOK'
  <2>1. \A k \in DOMAIN idx : \A n \in DOMAIN idx[k] : idx[k][n] \in AllLocs
    BY DEF IInv, GroupsOK
  <2>2. \A l : Recorded(l)' <=> Recorded(l)
    BY <1>1, <1>4, <1>5 DEF Recorded
  <2>3. GroupsInOrder' /\ IndexExact'
    BY <1>1 DEF IInv, GroupsOK, GroupsInOrder, IndexExact
  <2> QED
    BY <1>1, <1>4, <1>5, <2>1, <2>2, <2>3 DEF IInv, GroupsOK
<1> QED
  BY <1>3, <1>6, <1>7 DEF IInv

LEMMA BadEntryStep ==
    ASSUME IInv, BadEntry
    PROVE  IInv'
<1>1. UNCHANGED <<files, cache, fi, ci, bits, dup, idx>> /\ pass' = "failed"
  BY DEF BadEntry
<1>2. AllLocs' = AllLocs /\ size' = size /\ \A l : TruncOf(l)' = TruncOf(l) /\ KeyOf(l)' = KeyOf(l)
  BY <1>1, SameStream
<1>3. \A l : Visited(l)' <=> Visited(l)
  BY <1>1 DEF Visited
<1>4. CursorOK'
  BY <1>1 DEF IInv, CursorOK
<1>5. FilterOK'
  BY <1>1, <1>2 DEF IInv, FilterOK, NoFalseNegative
<1>6. GroupsOK'
  BY <1>1, <1>2, <1>3 DEF IInv, GroupsOK, GroupsInOrder, IndexExact
<1> QED
  BY <1>4, <1>5, <1>6 DEF IInv

\* Behind the last file nothing is left to visit.
LEMMA AllVisited ==
    ASSUME CursorOK, fi \notin DOMAIN files, NEW l \in AllLocs
    PROVE  Visited(l)
<1>1. fi = Len(files) + 1 /\ Len(files) \in Nat /\ DOMAIN files = 1 .. Len(files)
  BY DEF CursorOK, Snapshot, IsList
<1>2. l.file \in DOMAIN files
  BY StreamAt DEF CursorOK, AllLocs
<1> QED
  BY <1>1, <1>2 DEF Visited

LEMMA EndOfPassStep ==
    ASSUME IInv, EndOfPass
    PROVE  IInv'
<1>1. UNCHANGED <<files, cache, dup, idx>> /\ fi \notin DOMAIN files
  BY DEF EndOfPass
<1>2. AllLocs' = AllLocs /\ size' = size /\ \A l : TruncOf(l)' = TruncOf(l) /\ KeyOf(l)' = KeyOf(l)
  BY <1>1, SameStream
<1>3. \A l \in AllLocs : Visited(l)
  BY <1>1, AllVisited DEF IInv
<1>4. CASE pass = "scan"
  <2>1. pass' = "collect" /\ fi' = 1 /\ ci' = 0
    BY <1>4 DEF EndOfPass
  <2>2. CursorOK'
    <3>1. Snapshot(files, cache) /\ Len(files) \in Nat
      BY DEF IInv, CursorOK, Snapshot, IsList
    <3>2. 0 <= Len(Hashes(files, cache, 1))
      BY <3>1, HashesAreAList DEF IsList
    <3> QED
      BY <1>1, <2>1, <3>1, <3>2 DEF CursorOK
  <2>3. FilterOK'
    BY <1>1, <1>2, <1>3, <1>4, <2>1 DEF IInv, FilterOK, NoFalseNegative
  <2>4. ASSUME NEW l \in AllLocs PROVE ~Visited(l)'
    <3>1. l.file \in Nat \ {0} /\ l.chunk \in Nat
      BY StreamAt DEF IInv, CursorOK, AllLocs, Location, Snapshot, IsList
    <3> QED
      BY <2>1, <3>1 DEF Visited
  <2>5. DOMAIN idx = {}
    BY <1>4 DEF IInv, GroupsOK
  <2>6. GroupsOK'
    BY <1>1, <1>2, <2>1, <2>4, <2>5 DEF IInv, GroupsOK, GroupsInOrder, IndexExact, Recorded
  <2> QED
    BY <2>2, <2>3, <2>6 DEF IInv
<1>5. CASE pass = "collect"
  <2>1. pass' = "retain" /\ UNCHANGED <<fi, ci>>
    BY <1>5 DEF EndOfPass
  <2>2. CursorOK'
    BY <1>1, <2>1 DEF IInv, CursorOK
  <2>3. FilterOK'
    BY <1>1, <1>2, <1>5, <2>1 DEF IInv, FilterOK, NoFalseNegative
  <2>4. \A l : (Visited(l)' <=> Visited(l)) /\ (Recorded(l)' <=> Recorded(l))
    BY <1>1, <1>2, <2>1 DEF Visited, Recorded
  <2>5. GroupsOK'
    BY <1>1, <1>2, <1>5, <2>1, <2>4 DEF IInv, GroupsOK, GroupsInOrder, IndexExact
  <2> QED
    BY <2>2, <2>3, <2>5 DEF IInv
<1> QED
  BY <1>4, <1>5 DEF EndOfPass, Streaming

\* The location in front of all others is the first one.
LEMMA FirstIsUnique ==
    ASSUME NEW S, S \subseteq Location, NEW l \in S, \A m \in S : m = l \/ LocBefore(l, m)
    PROVE  l = First(S)
<1>1. First(S) \in S /\ (l = First(S) \/ LocBefore(First(S), l))
  BY FirstIsFirst
<1>2. First(S) = l \/ LocBefore(l, First(S))
  BY <1>1
<1> QED
  BY <1>1, <1>2 DEF LocBefore, Location

\* Before retain, every group of two or more is a group of the index, and every
\* group of the index is one of two or more.
LEMMA RetainStep ==
    ASSUME IInv, Retain
    PROVE  IInv'
<1> DEFINE built == build_index(files, cache)
           Members(k) == { l \in AllLocs : KeyOf(l) = k }
<1>1. /\ UNCHANGED <<files, cache, fi, ci, bits, dup>> /\ pass = "retain" /\ pass' = "done"
      /\ idx' = [k \in Kept |-> idx[k]]
  BY DEF Retain
<1>2. AllLocs' = AllLocs /\ size' = size /\ \A l : TruncOf(l)' = TruncOf(l) /\ KeyOf(l)' = KeyOf(l)
  BY <1>1, SameStream
<1>3. \A l \in AllLocs : Visited(l) /\ l \in Location
  BY <1>1, AllVisited, StreamAt DEF IInv, CursorOK, AllLocs
<1>4. CursorOK' /\ FilterOK'
  BY <1>1, <1>2 DEF IInv, CursorOK, FilterOK, NoFalseNegative
<1>5. \A k \in DOMAIN idx : idx[k] \in Seq(AllLocs)
  BY DEF IInv, GroupsOK
<1>6. ASSUME NEW k \in DOMAIN idx PROVE { idx[k][n] : n \in DOMAIN idx[k] } = Members(k)
  <2>1. ASSUME NEW n \in DOMAIN idx[k] PROVE idx[k][n] \in Members(k)
    BY <1>5 DEF IInv, GroupsOK
  <2>2. ASSUME NEW l \in Members(k) PROVE \E n \in DOMAIN idx[k] : idx[k][n] = l
    <3>1. dup_key(k[1], k[2]) \in dup /\ TruncOf(l) = dup_key(k[1], k[2])
      BY <1>1 DEF IInv, GroupsOK, TruncOf, KeyOf
    <3>2. Recorded(l)
      BY <1>3, <3>1 DEF Recorded
    <3> QED
      BY <1>1, <3>2 DEF IInv, GroupsOK
  <2> QED
    BY <2>1, <2>2
<1>7. ASSUME NEW k \in Kept PROVE k \in DOMAIN built
  <2>1. k \in DOMAIN idx /\ Len(idx[k]) > 1 /\ {1, 2} \subseteq DOMAIN idx[k]
    BY <1>5 DEF Kept
  <2>2. idx[k][1] \in Members(k) /\ idx[k][2] \in Members(k)
    BY <1>6, <2>1
  <2>3. LocBefore(idx[k][1], idx[k][2])
    BY <2>1 DEF IInv, GroupsOK, GroupsInOrder
  <2>4. idx[k][1] # idx[k][2]
    BY <1>3, <2>2, <2>3 DEF LocBefore, Location
  <2> QED
    BY <2>2, <2>4 DEF build_index, AllLocs, KeyOf
<1>8. ASSUME NEW k \in DOMAIN built PROVE k \in Kept
  <2>1. PICK l \in Members(k), m \in Members(k) : l # m
    BY DEF build_index, AllLocs, KeyOf
  <2>2. TruncOf(l) = TruncOf(m)
    BY DEF TruncOf, KeyOf
  <2>3. TruncOf(l) \in dup
    BY <1>1, <2>1, <2>2 DEF IInv, FilterOK, NoFalseNegative
  <2>4. Recorded(l)
    BY <1>3, <2>3 DEF Recorded
  <2>5. k \in DOMAIN idx
    BY <1>1, <2>4 DEF IInv, GroupsOK
  <2>6. PICK i \in DOMAIN idx[k], j \in DOMAIN idx[k] : idx[k][i] = l /\ idx[k][j] = m
    BY <1>6, <2>5
  <2>7. i # j /\ i \in 1 .. Len(idx[k]) /\ j \in 1 .. Len(idx[k]) /\ Len(idx[k]) \in Nat
    BY <1>5, <2>1, <2>5, <2>6
  <2> QED
    BY <2>5, <2>7 DEF Kept
<1>9. \A k \in DOMAIN built : built[k] = Members(k)
  BY DEF build_index, AllLocs, KeyOf
<1>10. ASSUME NEW k \in Kept PROVE idx[k][1] = First(Members(k))
  <2>1. k \in DOMAIN idx /\ 1 \in DOMAIN idx[k] /\ DOMAIN idx[k] \subseteq Nat \ {0}
    BY <1>5 DEF Kept
  <2>2. ASSUME NEW m \in Members(k) PROVE m = idx[k][1] \/ LocBefore(idx[k][1], m)
    <3>1. PICK n \in DOMAIN idx[k] : idx[k][n] = m
      BY <1>6, <2>1
    <3>2. n = 1 \/ 1 < n
      BY <2>1
    <3> QED
      BY <2>1, <3>1, <3>2 DEF IInv, GroupsOK, GroupsInOrder
  <2>3. Members(k) \subseteq Location /\ idx[k][1] \in Members(k)
    BY <1>3, <1>6, <2>1
  <2> HIDE DEF Members
  <2> QED
    BY <2>2, <2>3, FirstIsUnique
<1>11. IndexExact'
  <2>1. DOMAIN idx' = Kept /\ \A k \in Kept : idx'[k] = idx[k]
    BY <1>1
  <2>2. Kept \subseteq DOMAIN idx
    BY DEF Kept
  <2>3. DOMAIN idx' = DOMAIN built
    BY <1>7, <1>8, <2>1
  <2>4. ASSUME NEW k \in DOMAIN idx'
        PROVE  { idx'[k][n] : n \in DOMAIN idx'[k] } = built[k] /\ idx'[k][1] = First(built[k])
    BY <1>6, <1>7, <1>9, <1>10, <2>1, <2>2
  <2>5. built' = built
    BY <1>1
  <2> HIDE DEF built
  <2> QED
    BY <1>1, <2>3, <2>4, <2>5 DEF IndexExact, built
<1>12. GroupsOK'
  <2>1. DOMAIN idx' \subseteq DOMAIN idx /\ \A k \in DOMAIN idx' : idx'[k] = idx[k]
    BY <1>1 DEF Kept
  <2>2. idx' \in [DOMAIN idx' -> Seq(AllLocs)]
    BY <1>1, <1>5, <2>1
  <2>3. \A l : Visited(l)' <=> Visited(l)
    BY <1>1 DEF Visited
  <2>4. GroupsInOrder'
    BY <2>1 DEF IInv, GroupsOK, GroupsInOrder
  <2>5. \A k \in DOMAIN idx' : idx'[k] # <<>>
    BY <2>1 DEF IInv, GroupsOK
  <2>6. \A k \in DOMAIN idx' : \A n \in DOMAIN idx'[k] : (Visited(idx[k][n]) /\ KeyOf(idx[k][n]) = k)'
    BY <1>1, <2>1 DEF IInv, GroupsOK, Visited, KeyOf
  <2> QED
    BY <1>1, <1>2, <1>11, <2>2, <2>4, <2>5, <2>6 DEF GroupsOK
<1> QED
  BY <1>4, <1>12 DEF IInv

LEMMA IndexStep ==
    ASSUME IInv, [Next]_indexVars
    PROVE  IInv'
<1>1. CASE Visit
  <2>1. pass \in {"scan", "collect"}
    BY <1>1 DEF Visit, Streaming
  <2> QED
    BY <1>1, <2>1, ZeroStep, ScanStep, PushStep, SkipStep
<1>2. CASE UNCHANGED indexVars
  <2>1. AllLocs' = AllLocs /\ size' = size /\ \A l : TruncOf(l)' = TruncOf(l) /\ KeyOf(l)' = KeyOf(l)
    BY <1>2, SameStream DEF indexVars
  <2>2. \A l : (Visited(l)' <=> Visited(l)) /\ (Recorded(l)' <=> Recorded(l))
    BY <1>2, <2>1 DEF indexVars, Visited, Recorded
  <2>3. CursorOK'
    BY <1>2 DEF indexVars, IInv, CursorOK
  <2>4. FilterOK'
    BY <1>2, <2>1, <2>2 DEF indexVars, IInv, FilterOK, NoFalseNegative
  <2>5. GroupsOK'
    BY <1>2, <2>1, <2>2 DEF indexVars, IInv, GroupsOK, GroupsInOrder, IndexExact
  <2> QED
    BY <2>3, <2>4, <2>5 DEF IInv
<1> QED
  BY <1>1, <1>2, NextFileStep, BadEntryStep, EndOfPassStep, RetainStep DEF Next

-----------------------------------------------------------------------------
(* The theorems.                                                           *)

\* IInv holds in every reachable state of build_index.
LEMMA Inductive == Spec => []IInv
BY IndexInit, IndexStep, PTL DEF Spec

\* The cursor stays inside the files, dup and idx name chunks of the stream.
THEOREM IndexTyped == Spec => []TypeOK
<1>1. ASSUME IInv PROVE TypeOK
  <2>1. ASSUME NEW k \in DOMAIN idx PROVE k \in { KeyAt(files, cache, l) : l \in AllLocs }
    <3>1. idx[k] \in Seq(AllLocs) /\ idx[k] # <<>>
      BY <1>1 DEF IInv, GroupsOK
    <3>2. 1 \in DOMAIN idx[k] /\ idx[k][1] \in AllLocs
      BY <3>1
    <3> QED
      BY <1>1, <3>2 DEF IInv, GroupsOK, KeyOf
  <2> QED
    BY <1>1, <2>1 DEF IInv, CursorOK, FilterOK, GroupsOK, TypeOK
<1> QED
  BY <1>1, Inductive, PTL

\* The pre-filter loses no duplicate, for every truncation of the keys and every
\* placement of the probes.
THEOREM FilterLosesNothing == Spec => []NoFalseNegative
<1>1. IInv => NoFalseNegative
  BY DEF IInv, FilterOK
<1> QED
  BY <1>1, Inductive, PTL

\* When build_index returns, idx is the index of repeated chunks, with the first
\* location of every group in front.
THEOREM IndexIsExact == Spec => []IndexExact
<1>1. IInv => IndexExact
  BY DEF IInv, GroupsOK
<1> QED
  BY <1>1, Inductive, PTL

\* Every group lists its locations in the order of (file, chunk), each once.
THEOREM IndexIsOrdered == Spec => []GroupsInOrder
<1>1. IInv => GroupsInOrder
  BY DEF IInv, GroupsOK
<1> QED
  BY <1>1, Inductive, PTL

-----------------------------------------------------------------------------
(* The probes of the filter: its size and the width of a key are powers of *)
(* two, and a product with an odd step is a multiple of a power of two     *)
(* only if the other factor is.                                            *)

Divides(m, x) == \E z \in Int : x = m * z

Width == Half * Half

LEMMA WidthIsPositive == Width \in Nat \ {0}
BY BloomAssumption DEF Width

LEMMA PowersAreNatural == Powers \subseteq Nat \ {0}
BY BloomAssumption, WidthIsPositive DEF Width

\* By induction on the power, from its half.
LEMMA OddFactors ==
    ASSUME NEW s \in Nat, NEW t \in Nat, s = 2 * t + 1, NEW M \in Powers, NEW a \in Int,
           Divides(M, a * s)
    PROVE  Divides(M, a)
<1> DEFINE Holds(m) == \A x \in Int : Divides(m, x * s) => Divides(m, x)
           Bad == { m \in Powers : ~Holds(m) }
<1>1. SUFFICES Bad = {}
  BY <1>1
<1>2. SUFFICES ASSUME Bad # {} PROVE FALSE
  OBVIOUS
<1>3. Bad \subseteq Nat
  BY PowersAreNatural
<1>4. PICK m \in Bad : \A y \in Bad : m <= y
  <2> HIDE DEF Bad
  <2> QED
    BY <1>2, <1>3, LeastNatural
<1>5. PICK x \in Int : Divides(m, x * s) /\ ~Divides(m, x)
  BY <1>4
<1>6. m \in Powers /\ m \in Nat \ {0}
  BY <1>4, PowersAreNatural
<1>7. CASE m = 1
  <2>1. x = m * x
    BY <1>7
  <2> QED
    BY <1>5, <2>1 DEF Divides
<1>8. CASE m # 1
  <2>1. PICK q \in Powers : m = 2 * q
    BY <1>6, <1>8, BloomAssumption
  <2>2. q \in Nat \ {0} /\ q < m
    BY <2>1, PowersAreNatural
  <2>3. Holds(q)
    BY <1>4, <1>6, <2>1, <2>2
  <2>4. PICK z \in Int : x * s = m * z
    BY <1>5 DEF Divides
  <2> DEFINE b == q * z - x * t
  <2>5. b \in Int /\ x * (2 * t + 1) = 2 * (x * t) + x /\ m * z = 2 * (q * z)
    BY <2>1, <2>2
  <2>6. x = 2 * b
    <3>1. q * z \in Int /\ x * t \in Int /\ 2 * (q * z - x * t) = 2 * (q * z) - 2 * (x * t)
      BY <2>2
    <3>2. 2 * (x * t) + x = 2 * (q * z)
      BY <2>4, <2>5
    <3> QED
      BY <3>1, <3>2
  <2>7. x * s = 2 * (b * s)
    BY <2>5, <2>6
  <2>8. b * s = q * z
    <3>1. b * s \in Int /\ q * z \in Int
      BY <2>2, <2>5
    <3> QED
      BY <2>4, <2>5, <2>7, <3>1
  <2>9. PICK w \in Int : b = q * w
    <3> HIDE DEF b
    <3>1. Divides(q, b * s)
      BY <2>8 DEF Divides
    <3>2. Divides(q, b)
      BY <2>3, <2>5, <3>1
    <3> QED
      BY <3>2 DEF Divides
  <2>10. x = m * w
    BY <2>1, <2>2, <2>6, <2>9
  <2> QED
    BY <1>5, <2>10 DEF Divides
<1> QED
  BY <1>7, <1>8

\* By induction from the largest power, the double of which is the width.
LEMMA PowersDivideTheWidth ==
    ASSUME NEW M \in Powers
    PROVE  Divides(M, Width)
<1> DEFINE Bad == { x \in Nat : \E p \in Powers : x = Width - p /\ ~Divides(p, Width) }
<1>1. ASSUME Bad # {} PROVE FALSE
  <2>1. Bad \subseteq Nat
    OBVIOUS
  <2>2. PICK x \in Bad : \A y \in Bad : x <= y
    <3> HIDE DEF Bad
    <3> QED
      BY <1>1, <2>1, LeastNatural
  <2>3. PICK p \in Powers : x = Width - p /\ ~Divides(p, Width)
    BY <2>2
  <2>4. p \in Nat \ {0} /\ Width \in Nat \ {0}
    BY PowersAreNatural, WidthIsPositive
  <2>5. 2 * p # Width
    <3> SUFFICES ASSUME 2 * p = Width PROVE FALSE
      OBVIOUS
    <3>1. Width = p * 2
      BY <2>4
    <3> QED
      BY <2>3, <3>1 DEF Divides
  <2>6. 2 * p \in Powers
    BY <2>5, BloomAssumption DEF Width
  <2>7. 2 * p < Width
    BY <2>6, BloomAssumption DEF Width
  <2>8. Divides(2 * p, Width)
    <3> SUFFICES ASSUME ~Divides(2 * p, Width) PROVE FALSE
      OBVIOUS
    <3>1. Width - 2 * p \in Nat /\ Width - 2 * p < x
      BY <2>3, <2>4, <2>7
    <3>2. Width - 2 * p \in Bad
      BY <2>6, <3>1
    <3>3. x <= Width - 2 * p /\ x \in Int
      BY <2>2, <3>2
    <3> QED
      BY <2>4, <3>1, <3>3
  <2>9. PICK z \in Int : Width = (2 * p) * z
    BY <2>8 DEF Divides
  <2>10. 2 * z \in Int /\ Width = p * (2 * z)
    BY <2>4, <2>9
  <2> QED
    BY <2>3, <2>10 DEF Divides
<1>2. Width - M \in Nat
  BY BloomAssumption, WidthIsPositive DEF Width
<1> QED
  BY <1>1, <1>2

\* The low bits of a sum that wraps are those of the sum.
LEMMA LowBits ==
    ASSUME NEW M \in Powers, NEW x \in Nat
    PROVE  \E z \in Int : (x % Width) % M = x - M * z
<1>1. PICK w \in Int : Width = M * w
  BY PowersDivideTheWidth DEF Divides
<1>2. M \in Nat \ {0} /\ Width \in Nat \ {0}
  BY PowersAreNatural, WidthIsPositive
<1> DEFINE y == x % Width
           u == x \div Width
           v == y \div M
<1>3. u \in Int /\ y \in Nat /\ x = (Width * u) + y
  BY <1>2
<1>4. v \in Int /\ y % M \in Nat /\ y = (M * v) + (y % M)
  BY <1>2, <1>3
<1> HIDE DEF y, u, v
<1>5. Width * u = M * (w * u) /\ w * u \in Int
  BY <1>1, <1>2, <1>3
<1>6. w * u + v \in Int /\ M * (w * u + v) = M * (w * u) + M * v
  BY <1>2, <1>4, <1>5
<1>7. y % M = x - M * (w * u + v)
  <2>1. M * (w * u) \in Int /\ M * v \in Int
    BY <1>2, <1>4, <1>5
  <2> QED
    BY <1>3, <1>4, <1>5, <1>6, <2>1
<1> QED
  BY <1>6, <1>7 DEF y

LEMMA StepIsOdd ==
    ASSUME NEW k \in Nat
    PROVE  \E t \in Nat : StepOf(k) = 2 * t + 1
<1> DEFINE h == k \div Half
<1>1. h \in Nat
  BY BloomAssumption
<1> HIDE DEF h
<1>2. h \div 2 \in Nat /\ h = 2 * (h \div 2) + (h % 2) /\ h % 2 \in {0, 1}
  BY <1>1
<1>3. StepOf(k) = IF h % 2 = 1 THEN h ELSE h + 1
  BY DEF StepOf, h
<1> QED
  BY <1>1, <1>2, <1>3

LEMMA StepsApart ==
    ASSUME NEW k \in Nat, NEW s \in Nat, NEW i \in Nat, NEW j \in Nat
    PROVE  /\ k + i * s \in Nat /\ k + j * s \in Nat
           /\ (k + j * s) - (k + i * s) = (j - i) * s
OBVIOUS

\* Two probes at one bit are a multiple of the size apart, in a range of K.
LEMMA ProbesDiffer ==
    ASSUME NEW M \in Powers, K <= M, NEW k \in Nat, NEW i \in 0 .. K - 1, NEW j \in 0 .. K - 1,
           i < j
    PROVE  pos(M, k, i) # pos(M, k, j)
<1> SUFFICES ASSUME pos(M, k, i) = pos(M, k, j) PROVE FALSE
  OBVIOUS
<1>1. PICK t \in Nat : StepOf(k) = 2 * t + 1
  BY StepIsOdd
<1> DEFINE s == StepOf(k)
           x == k + i * s
           y == k + j * s
<1>2. s \in Nat /\ s = 2 * t + 1
  BY <1>1
<1> HIDE DEF s
<1>3. i \in Nat /\ j \in Nat /\ x \in Nat /\ y \in Nat /\ M \in Nat \ {0} /\ K \in Nat
  <2>1. M \in Nat \ {0} /\ K \in Nat
    BY PowersAreNatural, BloomAssumption
  <2>2. i \in Nat /\ j \in Nat /\ s \in Nat
    BY <1>2, <2>1
  <2>3. x \in Nat /\ y \in Nat
    BY <2>2, StepsApart, Zenon
  <2> QED
    BY <2>1, <2>2, <2>3
<1>4. y - x = (j - i) * s
  <2>1. i \in Nat /\ j \in Nat /\ s \in Nat
    BY <1>2, <1>3
  <2> QED
    BY <2>1, StepsApart
<1>5. (x % Width) % M = (y % Width) % M
  BY DEF pos, Width, s
<1> HIDE DEF x, y
<1>6. PICK u \in Int : (x % Width) % M = x - M * u
  BY <1>3, LowBits
<1>7. PICK v \in Int : (y % Width) % M = y - M * v
  BY <1>3, LowBits
<1>8. (j - i) * s = M * (v - u)
  <2>1. M * u \in Int /\ M * v \in Int /\ M * (v - u) = M * v - M * u
    BY <1>3
  <2>2. x - M * u = y - M * v
    BY <1>5, <1>6, <1>7
  <2> QED
    BY <1>3, <1>4, <2>1, <2>2
<1>9. Divides(M, (j - i) * s)
  BY <1>8 DEF Divides
<1>10. PICK w \in Int : j - i = M * w
  <2>1. j - i \in Int
    BY <1>3
  <2>2. Divides(M, j - i)
    BY <1>2, <1>9, <2>1, OddFactors
  <2> QED
    BY <2>2 DEF Divides
<1>11. j - i \in 1 .. M - 1
  BY <1>3
<1>12. w >= 1
  <2> SUFFICES ASSUME w <= 0 PROVE FALSE
    OBVIOUS
  <2>1. M * w <= 0
    BY <1>3
  <2> QED
    BY <1>10, <1>11, <2>1
<1>13. M * w >= M
  BY <1>3, <1>12
<1> QED
  BY <1>3, <1>10, <1>11, <1>13

LEMMA SizeIsAPower ==
    ASSUME NEW n, \E p \in Powers : p >= n * PerKey
    PROVE  BitsFor(n) \in Powers /\ K <= BitsFor(n)
<1> DEFINE T == { p \in Powers : p >= n * PerKey }
           m == Min(T)
<1>1. m \in T
  <2>1. T \subseteq Nat /\ T # {}
    BY PowersAreNatural
  <2> HIDE DEF T
  <2>2. \E x \in T : \A y \in T : x <= y
    BY <2>1, LeastNatural
  <2> QED
    BY <2>2 DEF Min
<1>2. m \in Powers /\ m \in Nat /\ Word \in Powers /\ Word \in Nat /\ K \in Nat /\ K <= Word
  BY <1>1, PowersAreNatural, BloomAssumption
<1>3. BitsFor(n) = Max({m, Word})
  BY DEF BitsFor
<1> HIDE DEF m
<1>4. \E x \in {m, Word} : \A y \in {m, Word} : x >= y
  BY <1>2
<1>5. Max({m, Word}) \in {m, Word} /\ Max({m, Word}) >= Word
  BY <1>4 DEF Max
<1> QED
  BY <1>2, <1>3, <1>5

LEMMA AsManyAsIntended ==
    ASSUME NEW M \in Powers, K <= M, NEW k \in Nat
    PROVE  Cardinality(Positions(M, k)) = K
<1> DEFINE S == 0 .. K - 1
           T == Positions(M, k)
           f == [i \in S |-> pos(M, k, i)]
<1>1. K \in Nat \ {0}
  BY BloomAssumption
<1>2. IsFiniteSet(S) /\ Cardinality(S) = K
  <2>1. 0 \in Int /\ K - 1 \in Int /\ ~(0 > K - 1)
    BY <1>1
  <2>2. IsFiniteSet(0 .. K - 1) /\ Cardinality(0 .. K - 1) = K - 1 - 0 + 1
    BY <2>1, FS_Interval
  <2> QED
    BY <1>1, <2>2
<1>3. f \in Surjection(S, T)
  BY DEF Positions, Surjection
<1>4. f \in Injection(S, T)
  <2>1. ASSUME NEW i \in S, NEW j \in S, i # j PROVE f[i] # f[j]
    <3>1. CASE i < j
      BY <3>1, ProbesDiffer
    <3>2. CASE j < i
      BY <3>2, ProbesDiffer
    <3> QED
      BY <1>1, <2>1, <3>1, <3>2
  <2>2. f \in [S -> T]
    BY DEF Positions
  <2> HIDE DEF f, T, S
  <2> QED
    BY <2>1, <2>2 DEF Injection, IsInjective
<1> HIDE DEF f, T, S
<1>5. Cardinality(T) = Cardinality(S)
  BY <1>2, <1>3, <1>4, FS_Surjection
<1> QED
  BY <1>2, <1>5 DEF T

\* The input is the one that build_index was called with.
Given == \E i \in Inputs : files = i.files /\ cache = i.cache

\* Whatever the number of chunks, a key is probed at K different bits.
THEOREM ProbesAreDistinct == Spec => []ProbesDistinct
<1>1. Init => Given
  BY DEF Init, Given
<1>2. ASSUME Given, [Next]_indexVars PROVE Given'
  <2>1. UNCHANGED <<files, cache>>
    BY <1>2 DEF Next, indexVars, Visit, NextFile, BadEntry, EndOfPass, Retain
  <2> QED
    BY <1>2, <2>1 DEF Given
<1>3. ASSUME Given PROVE ProbesDistinct
  <2>1. PICK i \in Inputs : files = i.files /\ cache = i.cache
    BY <1>3 DEF Given
  <2>2. size \in Powers /\ K <= size
    BY <2>1, FilterAssumption, SizeIsAPower DEF size
  <2>3. ASSUME NEW l \in AllLocs PROVE TruncOf(l) \in Nat
    <3>1. TruncOf(l) \in 0 .. Half * Half - 1
      BY <2>1, FilterAssumption DEF AllLocs, TruncOf
    <3> QED
      BY <3>1
  <2> QED
    BY <2>2, <2>3, AsManyAsIntended DEF ProbesDistinct
<1> QED
  BY <1>1, <1>2, <1>3, PTL DEF Spec
=============================================================================
