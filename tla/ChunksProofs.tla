---------------------------- MODULE ChunksProofs ----------------------------
(***************************************************************************)
(* Lemmas about the operators of Chunks: the first location of a group     *)
(* exists, a location is in one group only, and what a chunk pair is; and  *)
(* about sums of lengths.                                                  *)
(***************************************************************************)
EXTENDS Chunks, FiniteSetTheorems, TLAPS

Location == [file : Nat, chunk : Nat]

\* A non-empty set of natural numbers has a least element.
LEMMA LeastNatural ==
    ASSUME NEW T, T \subseteq Nat, T # {}
    PROVE  \E x \in T : \A y \in T : x <= y
<1>1. IsWellFoundedOn({ss \in Nat \X Nat : ss[1] < ss[2]}, Nat)
  BY NatLessThanWellFounded, Zenon DEF OpToRel
<1>2. PICK x \in T : \A y \in T : ~ (<<y, x>> \in {ss \in Nat \X Nat : ss[1] < ss[2]})
  BY <1>1, WFMin
<1>3. ASSUME NEW y \in T PROVE ~(y < x)
  <2>1. <<y, x>> \in Nat \X Nat /\ <<y, x>>[1] = y /\ <<y, x>>[2] = x
    OBVIOUS
  <2>2. <<y, x>>[1] < <<y, x>>[2] => <<y, x>> \in {ss \in Nat \X Nat : ss[1] < ss[2]}
    BY <2>1
  <2> QED
    BY <1>2, <2>1, <2>2
<1> QED
  BY <1>3

\* First is what its name says.
LEMMA FirstIsFirst ==
    ASSUME NEW S, S \subseteq Location, S # {}
    PROVE  /\ First(S) \in S
           /\ \A m \in S : m = First(S) \/ LocBefore(First(S), m)
<1> DEFINE InFile(f) == { l \in S : l.file = f }
<1>1. PICK f \in { l.file : l \in S } : \A g \in { l.file : l \in S } : f <= g
  <2> DEFINE T == { l.file : l \in S }
  <2> T \subseteq Nat /\ T # {}
    BY DEF Location
  <2> HIDE DEF T
  <2> \E f \in T : \A g \in T : f <= g
    BY LeastNatural
  <2> QED
    BY DEF T
<1>2. PICK c \in { l.chunk : l \in InFile(f) } : \A d \in { l.chunk : l \in InFile(f) } : c <= d
  <2> DEFINE T == { l.chunk : l \in InFile(f) }
  <2> T \subseteq Nat /\ T # {}
    BY <1>1 DEF Location
  <2> HIDE DEF T
  <2> \E c \in T : \A d \in T : c <= d
    BY LeastNatural
  <2> QED
    BY DEF T
<1>3. PICK l \in S : l.file = f /\ l.chunk = c
  BY <1>2
<1>4. ASSUME NEW m \in S PROVE m = l \/ LocBefore(l, m)
  <2>1. CASE m.file = f
    BY <1>2, <1>3, <2>1 DEF Location, LocBefore
  <2>2. CASE m.file # f
    BY <1>1, <1>3, <2>2 DEF Location, LocBefore
  <2> QED
    BY <2>1, <2>2
<1> QED
  BY <1>4 DEF First

\* What each_chunk emits is a location.
LEMMA ChunkLocations ==
    ASSUME NEW files, NEW cache, GoodSnapshot(files, cache),
           NEW l \in each_chunk(files, cache)
    PROVE  l \in Location /\ l.file \in DOMAIN files
<1>1. PICK i \in DOMAIN files :
          \E c \in DOMAIN Hashes(files, cache, i) : l = [file |-> i, chunk |-> c - 1]
  BY DEF each_chunk
<1>2. PICK c \in DOMAIN Hashes(files, cache, i) : l = [file |-> i, chunk |-> c - 1]
  BY <1>1
<1>3. i \in Nat /\ c \in Nat \ {0}
  BY DEF GoodSnapshot, Hashes
<1> QED
  BY <1>2, <1>3 DEF Location

\* A group of the index holds the locations of one key, and at least two.
LEMMA GroupsOfTheIndex ==
    ASSUME NEW files, NEW cache, GoodSnapshot(files, cache),
           NEW k \in DOMAIN build_index(files, cache)
    PROVE  LET group == build_index(files, cache)[k]
           IN  /\ group = { l \in each_chunk(files, cache) : KeyAt(files, cache, l) = k }
               /\ group # {} /\ group \subseteq Location
               /\ k[1] \in Nat \ {0}
<1> DEFINE locs == each_chunk(files, cache)
           group == build_index(files, cache)[k]
<1>1. group = { l \in locs : KeyAt(files, cache, l) = k } /\ \E l \in locs : KeyAt(files, cache, l) = k
  BY DEF build_index
<1>2. PICK l \in locs : KeyAt(files, cache, l) = k
  BY <1>1
<1>3. k[1] = files[l.file].blksz /\ l.file \in DOMAIN files
  BY <1>2, ChunkLocations DEF KeyAt
<1> QED
  BY <1>1, <1>2, <1>3, ChunkLocations DEF GoodSnapshot

-----------------------------------------------------------------------------
(* The pairs of the index.                                                 *)

PairsOf(files, cache) == ChunkPairs(build_index(files, cache), files)

\* The group that a pair comes from.
LEMMA GroupOfPair ==
    ASSUME NEW files, NEW cache, GoodSnapshot(files, cache),
           NEW p \in PairsOf(files, cache)
    PROVE  \E k \in DOMAIN build_index(files, cache) :
              LET group == build_index(files, cache)[k]
              IN  /\ p = [blksz |-> k[1], src |-> First(group), dst |-> p.dst]
                  /\ p.src \in group /\ p.dst \in group /\ p.src # p.dst
                  /\ LenOf(files, p.src, k[1]) # 0
                  /\ LenOf(files, p.dst, k[1]) = LenOf(files, p.src, k[1])
<1> DEFINE idx == build_index(files, cache)
           Rest(k) == { l \in idx[k] \ {First(idx[k])} :
                          /\ LenOf(files, First(idx[k]), k[1]) # 0
                          /\ LenOf(files, l, k[1]) = LenOf(files, First(idx[k]), k[1]) }
<1>1. PICK k \in DOMAIN idx :
          p \in { [blksz |-> k[1], src |-> First(idx[k]), dst |-> l] : l \in Rest(k) }
  BY DEF PairsOf, ChunkPairs
<1>2. PICK l \in Rest(k) : p = [blksz |-> k[1], src |-> First(idx[k]), dst |-> l]
  BY <1>1
<1>3. First(idx[k]) \in idx[k]
  BY GroupsOfTheIndex, FirstIsFirst
<1> HIDE DEF idx
<1> QED
  BY <1>2, <1>3 DEF idx

LEMMA PairTypes ==
    ASSUME NEW files, NEW cache, GoodSnapshot(files, cache),
           NEW p \in PairsOf(files, cache)
    PROVE  /\ p \in [blksz : Nat \ {0}, src : Location, dst : Location]
           /\ {p.src.file, p.dst.file} \subseteq DOMAIN files
<1> DEFINE idx == build_index(files, cache)
<1>1. PICK k \in DOMAIN idx :
          /\ p = [blksz |-> k[1], src |-> First(idx[k]), dst |-> p.dst]
          /\ p.src \in idx[k] /\ p.dst \in idx[k]
  BY GroupOfPair
<1>2. /\ idx[k] \subseteq Location /\ k[1] \in Nat \ {0}
      /\ idx[k] = { l \in each_chunk(files, cache) : KeyAt(files, cache, l) = k }
  BY GroupsOfTheIndex
<1>3. p.src.file \in DOMAIN files /\ p.dst.file \in DOMAIN files
  BY <1>1, <1>2, ChunkLocations
<1> QED
  BY <1>1, <1>2, <1>3

\* Two pairs of one group, and two groups with a common member.
LEMMA GroupsAreDisjoint ==
    ASSUME NEW files, NEW cache, GoodSnapshot(files, cache),
           NEW j \in DOMAIN build_index(files, cache),
           NEW k \in DOMAIN build_index(files, cache),
           NEW l, l \in build_index(files, cache)[j], l \in build_index(files, cache)[k]
    PROVE  j = k
<1>1. KeyAt(files, cache, l) = j
  BY GroupsOfTheIndex
<1>2. KeyAt(files, cache, l) = k
  BY GroupsOfTheIndex
<1> QED
  BY <1>1, <1>2

\* A chunk is the destination of one pair at most, and then the source of none.
LEMMA RolesOfAChunk ==
    ASSUME NEW files, NEW cache, GoodSnapshot(files, cache),
           NEW p \in PairsOf(files, cache), NEW q \in PairsOf(files, cache)
    PROVE  /\ p.dst = q.dst => p = q
           /\ p.src # q.dst
<1> DEFINE idx == build_index(files, cache)
<1>1. PICK j \in DOMAIN idx :
          /\ p = [blksz |-> j[1], src |-> First(idx[j]), dst |-> p.dst]
          /\ p.src \in idx[j] /\ p.dst \in idx[j] /\ p.src # p.dst
  BY GroupOfPair
<1>2. PICK k \in DOMAIN idx :
          /\ q = [blksz |-> k[1], src |-> First(idx[k]), dst |-> q.dst]
          /\ q.src \in idx[k] /\ q.dst \in idx[k] /\ q.src # q.dst
  BY GroupOfPair
<1>3. p.dst = q.dst \/ p.src = q.dst => j = k
  BY <1>1, <1>2, GroupsAreDisjoint
<1> QED
  BY <1>1, <1>2, <1>3
-----------------------------------------------------------------------------
(* Sums of lengths.                                                        *)

\* Things x of w[x] bytes each, as the set of their bytes: a sum is the number of
\* its elements.
Bytes(w, S) == UNION { {x} \X (1 .. w[x]) : x \in S }
Total(w, S) == Cardinality(Bytes(w, S))

LEMMA BytesOfOne ==
    ASSUME NEW w, NEW x, w[x] \in Nat
    PROVE  /\ IsFiniteSet({x} \X (1 .. w[x]))
           /\ Cardinality({x} \X (1 .. w[x])) = w[x]
<1>1. IsFiniteSet(1 .. w[x]) /\ Cardinality(1 .. w[x]) = w[x]
  <2>1. 1 \in Int /\ w[x] \in Int
    OBVIOUS
  <2>2. /\ IsFiniteSet(1 .. w[x])
        /\ Cardinality(1 .. w[x]) = IF 1 > w[x] THEN 0 ELSE w[x] - 1 + 1
    BY <2>1, FS_Interval, Zenon
  <2> QED
    BY <2>2
<1>2. IsFiniteSet({x}) /\ Cardinality({x}) = 1
  BY FS_Singleton
<1>3. /\ IsFiniteSet({x} \X (1 .. w[x]))
      /\ Cardinality({x} \X (1 .. w[x])) = Cardinality({x}) * Cardinality(1 .. w[x])
  BY <1>1, <1>2, FS_Product
<1>4. Cardinality({x} \X (1 .. w[x])) = 1 * w[x]
  BY <1>1, <1>2, <1>3
<1> QED
  BY <1>3, <1>4

LEMMA BytesAreFinite ==
    ASSUME NEW w, NEW S, IsFiniteSet(S), \A x \in S : w[x] \in Nat
    PROVE  IsFiniteSet(Bytes(w, S)) /\ Total(w, S) \in Nat
<1> DEFINE f == [x \in S |-> {x} \X (1 .. w[x])]
           T == { {x} \X (1 .. w[x]) : x \in S }
<1>1. f \in Surjection(S, T)
  BY DEF Surjection
<1>2. IsFiniteSet(T)
  <2> HIDE DEF f, T
  <2> QED
    BY <1>1, FS_Surjection
<1>3. \A t \in T : IsFiniteSet(t)
  BY BytesOfOne
<1>4. IsFiniteSet(UNION T)
  <2> HIDE DEF f, T
  <2> QED
    BY <1>2, <1>3, FS_UNION
<1>5. IsFiniteSet(Bytes(w, S))
  BY <1>4 DEF Bytes
<1> QED
  BY <1>5, FS_CardinalityType DEF Total

LEMMA TotalOfBoth ==
    ASSUME NEW w, NEW S, NEW T, IsFiniteSet(S), IsFiniteSet(T), S \cap T = {},
           \A x \in S \cup T : w[x] \in Nat
    PROVE  Total(w, S \cup T) = Total(w, S) + Total(w, T)
<1>1. Bytes(w, S \cup T) = Bytes(w, S) \cup Bytes(w, T)
  BY DEF Bytes
<1>2. Bytes(w, S) \cap Bytes(w, T) = {}
  <2> SUFFICES ASSUME NEW p \in Bytes(w, S), p \in Bytes(w, T) PROVE FALSE
    OBVIOUS
  <2>1. p[1] \in S
    BY DEF Bytes
  <2>2. p[1] \in T
    BY DEF Bytes
  <2> QED
    BY <2>1, <2>2
<1>3. /\ IsFiniteSet(Bytes(w, S)) /\ Cardinality(Bytes(w, S)) \in Nat
      /\ IsFiniteSet(Bytes(w, T)) /\ Cardinality(Bytes(w, T)) \in Nat
  BY BytesAreFinite DEF Total
<1>4. Cardinality(Bytes(w, S) \cup Bytes(w, T))
        = Cardinality(Bytes(w, S)) + Cardinality(Bytes(w, T)) - Cardinality(Bytes(w, S) \cap Bytes(w, T))
  BY <1>3, FS_Union
<1>5. Cardinality(Bytes(w, S) \cap Bytes(w, T)) = 0
  BY <1>2, FS_EmptySet
<1>6. Cardinality(Bytes(w, S) \cup Bytes(w, T)) = Cardinality(Bytes(w, S)) + Cardinality(Bytes(w, T))
  BY <1>3, <1>4, <1>5
<1> QED
  BY <1>1, <1>6 DEF Total

LEMMA TotalOfNone == ASSUME NEW w PROVE Total(w, {}) = 0
<1>1. Bytes(w, {}) = {}
  BY DEF Bytes
<1> QED
  BY <1>1, FS_EmptySet DEF Total

LEMMA TotalOfOne ==
    ASSUME NEW w, NEW x, w[x] \in Nat
    PROVE  Total(w, {x}) = w[x]
<1>1. Bytes(w, {x}) = {x} \X (1 .. w[x])
  BY DEF Bytes
<1> QED
  BY <1>1, BytesOfOne DEF Total

LEMMA TotalOfRest ==
    ASSUME NEW w, NEW S, IsFiniteSet(S), \A x \in S : w[x] \in Nat,
           NEW T, T \subseteq S
    PROVE  /\ IsFiniteSet(T) /\ IsFiniteSet(S \ T)
           /\ Total(w, S) = Total(w, T) + Total(w, S \ T)
<1>1. IsFiniteSet(T) /\ IsFiniteSet(S \ T)
  BY FS_Subset
<1> DEFINE U == S \ T
<1>2. S = T \cup U /\ T \cap U = {} /\ IsFiniteSet(U)
  BY <1>1
<1> HIDE DEF U
<1>3. \A x \in T \cup U : w[x] \in Nat
  BY <1>2
<1>4. Total(w, T \cup U) = Total(w, T) + Total(w, U)
  BY <1>1, <1>2, <1>3, TotalOfBoth
<1>5. Total(w, S) = Total(w, T) + Total(w, U)
  BY <1>2, <1>4
<1> QED
  BY <1>1, <1>5 DEF U

LEMMA SameTotal ==
    ASSUME NEW v, NEW w, NEW S, \A x \in S : v[x] = w[x]
    PROVE  Total(v, S) = Total(w, S)
<1>1. Bytes(v, S) = Bytes(w, S)
  BY DEF Bytes
<1> QED
  BY <1>1 DEF Total

\* The sum does not depend on what the things are called.
LEMMA TotalRenamed ==
    ASSUME NEW v, NEW w, NEW S, NEW T, IsFiniteSet(S), \A x \in S : w[x] \in Nat,
           NEW f, f \in Bijection(S, T), \A x \in S : v[f[x]] = w[x]
    PROVE  Total(v, T) = Total(w, S)
<1>1. f \in [S -> T]
  BY DEF Bijection, Injection
<1>2. \A x, y \in S : f[x] = f[y] => x = y
  BY DEF Bijection, Injection, IsInjective
<1>3. \A t \in T : \E x \in S : f[x] = t
  BY DEF Bijection, Surjection
<1> DEFINE g == [p \in Bytes(w, S) |-> <<f[p[1]], p[2]>>]
<1>4. \A p \in Bytes(w, S) : p = <<p[1], p[2]>> /\ p[1] \in S /\ p[2] \in 1 .. w[p[1]]
  BY DEF Bytes
<1>5. \A p \in Bytes(w, S) : <<f[p[1]], p[2]>> \in Bytes(v, T)
  BY <1>1, <1>4 DEF Bytes
<1>6. g \in [Bytes(w, S) -> Bytes(v, T)]
  BY <1>5
<1>7. \A p, q \in Bytes(w, S) : g[p] = g[q] => p = q
  BY <1>1, <1>2, <1>4
<1>8. \A q \in Bytes(v, T) : \E p \in Bytes(w, S) : g[p] = q
  <2> SUFFICES ASSUME NEW q \in Bytes(v, T) PROVE \E p \in Bytes(w, S) : g[p] = q
    OBVIOUS
  <2>1. q = <<q[1], q[2]>> /\ q[1] \in T /\ q[2] \in 1 .. v[q[1]]
    BY DEF Bytes
  <2>2. PICK x \in S : f[x] = q[1]
    BY <1>3, <2>1
  <2>3. <<x, q[2]>> \in Bytes(w, S)
    BY <2>1, <2>2 DEF Bytes
  <2>4. g[<<x, q[2]>>] = q
    BY <2>1, <2>2, <2>3
  <2> QED
    BY <2>3, <2>4
<1>9. IsFiniteSet(Bytes(w, S))
  BY BytesAreFinite
<1>10. g \in Bijection(Bytes(w, S), Bytes(v, T))
  <2> HIDE DEF g
  <2> QED
    BY <1>6, <1>7, <1>8 DEF Bijection, Injection, Surjection, IsInjective
<1>11. ExistsBijection(Bytes(w, S), Bytes(v, T))
  BY <1>10 DEF ExistsBijection
<1> QED
  BY <1>9, <1>11, FS_Bijection DEF Total

\* All but the last of n things are of b bytes.
LastOf(w, n, b, t) == (\A j \in 0 .. n - 2 : w[j] = b) /\ w[n - 1] = t

LEMMA TotalOfRun ==
    ASSUME NEW w, NEW n \in Nat \ {0}, NEW b \in Nat, NEW t \in Nat, LastOf(w, n, b, t)
    PROVE  Total(w, 0 .. n - 1) = (n - 1) * b + t
<1> USE DEF LastOf
<1>1. Bytes(w, 0 .. n - 2) = (0 .. n - 2) \X (1 .. b)
  BY DEF Bytes
<1>2. /\ IsFiniteSet(0 .. n - 2) /\ Cardinality(0 .. n - 2) = n - 1
      /\ IsFiniteSet(1 .. b) /\ Cardinality(1 .. b) = b
  <2>1. 0 \in Int /\ 1 \in Int /\ n - 2 \in Int /\ b \in Int
    OBVIOUS
  <2>2. /\ IsFiniteSet(0 .. n - 2) /\ Cardinality(0 .. n - 2) = IF 0 > n - 2 THEN 0 ELSE (n - 2) - 0 + 1
        /\ IsFiniteSet(1 .. b) /\ Cardinality(1 .. b) = IF 1 > b THEN 0 ELSE b - 1 + 1
    BY <2>1, FS_Interval
  <2> QED
    BY <2>2
<1>3. Cardinality((0 .. n - 2) \X (1 .. b)) = Cardinality(0 .. n - 2) * Cardinality(1 .. b)
  BY <1>2, FS_Product
<1>4. Total(w, 0 .. n - 2) = (n - 1) * b
  BY <1>1, <1>2, <1>3 DEF Total
<1>5. Total(w, {n - 1}) = t
  BY TotalOfOne
<1>6. (0 .. n - 2) \cup {n - 1} = 0 .. n - 1 /\ (0 .. n - 2) \cap {n - 1} = {}
  OBVIOUS
<1>7. IsFiniteSet({n - 1})
  BY FS_Singleton
<1>8. \A j \in (0 .. n - 2) \cup {n - 1} : w[j] \in Nat
  OBVIOUS
<1>9. Total(w, (0 .. n - 2) \cup {n - 1}) = Total(w, 0 .. n - 2) + Total(w, {n - 1})
  BY <1>2, <1>6, <1>7, <1>8, TotalOfBoth
<1> QED
  BY <1>4, <1>5, <1>6, <1>9

\* What MapThenSumSet computes: its recursion, over the subsets of S, of which the
\* one that counts is S.
Unfolds(g, w, S) ==
    g = [s \in SUBSET S |->
            IF s = {} THEN 0
            ELSE w[CHOOSE x \in s : TRUE] + g[s \ {CHOOSE x \in s : TRUE}]]

LEMMA TotalByOne ==
    ASSUME NEW w, NEW S, IsFiniteSet(S), \A x \in S : w[x] \in Nat, NEW x \in S
    PROVE  Total(w, S) = w[x] + Total(w, S \ {x})
<1>1. {x} \subseteq S
  OBVIOUS
<1>2. Total(w, S) = Total(w, {x}) + Total(w, S \ {x})
  BY <1>1, TotalOfRest
<1> QED
  BY <1>2, TotalOfOne

LEMMA RecursionHasASolution ==
    ASSUME NEW w, NEW S, IsFiniteSet(S), \A x \in S : w[x] \in Nat
    PROVE  Unfolds([s \in SUBSET S |-> Total(w, s)], w, S)
<1> DEFINE g == [s \in SUBSET S |-> Total(w, s)]
<1>1. ASSUME NEW s \in SUBSET S, s # {}
      PROVE  g[s] = w[CHOOSE x \in s : TRUE] + g[s \ {CHOOSE x \in s : TRUE}]
  <2>1. PICK y : y = CHOOSE x \in s : TRUE
    OBVIOUS
  <2>2. y \in s
    BY <1>1, <2>1
  <2>3. IsFiniteSet(s) /\ \A x \in s : w[x] \in Nat
    BY FS_Subset
  <2>4. Total(w, s) = w[y] + Total(w, s \ {y})
    BY <2>2, <2>3, TotalByOne
  <2> QED
    BY <2>1, <2>4
<1>2. g[{}] = 0
  BY TotalOfNone
<1>3. \A s \in SUBSET S : g[s] = IF s = {} THEN 0
                           ELSE w[CHOOSE x \in s : TRUE] + g[s \ {CHOOSE x \in s : TRUE}]
  BY <1>1, <1>2
<1>4. DOMAIN g = SUBSET S /\ g = [s \in SUBSET S |-> g[s]]
  OBVIOUS
<1> HIDE DEF g
<1>5. Unfolds(g, w, S)
  BY <1>3, <1>4 DEF Unfolds
<1> QED
  BY <1>5 DEF g

\* Any solution of the recursion is the sum: a smallest set on which it is not
\* would be one element larger than a set on which it is.
LEMMA RecursionSums ==
    ASSUME NEW w, NEW S, IsFiniteSet(S), \A x \in S : w[x] \in Nat,
           NEW g, Unfolds(g, w, S)
    PROVE  g[S] = Total(w, S)
<1> DEFINE Wrong == { s \in SUBSET S : g[s] # Total(w, s) }
           Sizes == { Cardinality(s) : s \in Wrong }
<1>1. \A s \in SUBSET S : IsFiniteSet(s) /\ Cardinality(s) \in Nat
  BY FS_Subset, FS_CardinalityType
<1>2. SUFFICES ASSUME Wrong # {} PROVE FALSE
  OBVIOUS
<1>3. PICK k \in Sizes : \A l \in Sizes : k <= l
  <2>1. Sizes \subseteq Nat /\ Sizes # {}
    BY <1>1, <1>2
  <2> HIDE DEF Sizes
  <2> QED
    BY <2>1, LeastNatural
<1>4. PICK s \in Wrong : Cardinality(s) = k
  OBVIOUS
<1>5. s \in SUBSET S /\ g[s] # Total(w, s)
  BY <1>4
<1>6. g[s] = IF s = {} THEN 0 ELSE w[CHOOSE x \in s : TRUE] + g[s \ {CHOOSE x \in s : TRUE}]
  BY <1>5 DEF Unfolds
<1>7. s # {}
  BY <1>5, <1>6, TotalOfNone
<1>8. PICK y : y = CHOOSE x \in s : TRUE
  OBVIOUS
<1>9. y \in s
  BY <1>7, <1>8
<1>10. Cardinality(s \ {y}) = Cardinality(s) - 1
  BY <1>1, <1>5, <1>9, FS_RemoveElement
<1>11. s \ {y} \in SUBSET S
  BY <1>5
<1>12. s \ {y} \notin Wrong
  <2> SUFFICES ASSUME s \ {y} \in Wrong PROVE FALSE
    OBVIOUS
  <2>1. k <= Cardinality(s \ {y})
    BY <1>3
  <2> QED
    BY <1>1, <1>4, <1>5, <1>10, <2>1
<1>13. g[s \ {y}] = Total(w, s \ {y})
  BY <1>11, <1>12
<1>14. Total(w, s) = w[y] + Total(w, s \ {y})
  <2>1. IsFiniteSet(s) /\ \A x \in s : w[x] \in Nat
    BY <1>1, <1>5
  <2> QED
    BY <1>9, <2>1, TotalByOne
<1> QED
  BY <1>5, <1>6, <1>7, <1>8, <1>13, <1>14

\* The parts Q of S are finite, disjoint, and hold numbers.
Parts(w, S, Q) ==
    /\ \A x \in S : IsFiniteSet(Q[x]) /\ \A y \in Q[x] : w[y] \in Nat
    /\ \A x, y \in S : x # y => Q[x] \cap Q[y] = {}

\* The sum over disjoint parts is the sum of their sums: a smallest set of parts for
\* which it is not would be one part larger than a set for which it is.
LEMMA TotalOfParts ==
    ASSUME NEW w, NEW S, IsFiniteSet(S), NEW Q, Parts(w, S, Q),
           NEW U, U = UNION { Q[x] : x \in S },
           NEW t, t = [x \in S |-> Total(w, Q[x])]
    PROVE  Total(w, U) = Total(t, S)
<1>1. \A x \in S : IsFiniteSet(Q[x]) /\ \A y \in Q[x] : w[y] \in Nat
  BY Zenon DEF Parts
<1>2. \A x, y \in S : x # y => Q[x] \cap Q[y] = {}
  BY Zenon DEF Parts
<1>3. /\ IsFiniteSet(UNION { Q[x] : x \in S })
      /\ Total(w, UNION { Q[x] : x \in S }) = Total([x \in S |-> Total(w, Q[x])], S)
  <2> DEFINE v == [x \in S |-> Total(w, Q[x])]
             All(s) == UNION { Q[x] : x \in s }
             Right(s) == IsFiniteSet(All(s)) /\ Total(w, All(s)) = Total(v, s)
             Wrong == { s \in SUBSET S : ~Right(s) }
             Sizes == { Cardinality(s) : s \in Wrong }
  <2>1. \A s \in SUBSET S : IsFiniteSet(s) /\ Cardinality(s) \in Nat
    BY FS_Subset, FS_CardinalityType
  <2>2. SUFFICES ASSUME Wrong # {} PROVE FALSE
    <3> S \in SUBSET S
      OBVIOUS
    <3> QED
      OBVIOUS
  <2>3. PICK k \in Sizes : \A l \in Sizes : k <= l
    <3>1. Sizes \subseteq Nat /\ Sizes # {}
      BY <2>1, <2>2
    <3> HIDE DEF Sizes
    <3> QED
      BY <3>1, LeastNatural
  <2>4. PICK s \in Wrong : Cardinality(s) = k
    OBVIOUS
  <2>5. s \in SUBSET S /\ ~Right(s)
    BY <2>4
  <2>6. s # {}
    <3>1. All({}) = {} /\ IsFiniteSet({})
      BY FS_EmptySet
    <3>2. Right({})
      BY <3>1, TotalOfNone
    <3> QED
      BY <2>5, <3>2
  <2>7. PICK y \in s : TRUE
    BY <2>6
  <2> DEFINE rest == s \ {y}
  <2>8. rest \in SUBSET S /\ Cardinality(rest) = Cardinality(s) - 1
    BY <2>1, <2>5, FS_RemoveElement
  <2>9. Right(rest)
    <3> SUFFICES ASSUME rest \in Wrong PROVE FALSE
      BY <2>8
    <3>1. k <= Cardinality(rest)
      BY <2>3
    <3> QED
      BY <2>1, <2>4, <2>5, <2>8, <3>1
  <2>10. All(s) = All(rest) \cup Q[y]
    OBVIOUS
  <2>11. All(rest) \cap Q[y] = {}
    BY <1>2, <2>5
  <2>12. \A x \in S : v[x] = Total(w, Q[x]) /\ v[x] \in Nat
    BY <1>1, BytesAreFinite
  <2>13. IsFiniteSet(Q[y]) /\ \A x \in All(rest) \cup Q[y] : w[x] \in Nat
    BY <1>1, <2>5
  <2>14. /\ IsFiniteSet(All(s))
         /\ Total(w, All(s)) = Total(w, All(rest)) + Total(w, Q[y])
    <3> HIDE DEF All, rest
    <3>1. IsFiniteSet(All(rest))
      BY <2>9
    <3>2. Total(w, All(rest) \cup Q[y]) = Total(w, All(rest)) + Total(w, Q[y])
      BY <2>11, <2>13, <3>1, TotalOfBoth
    <3>3. IsFiniteSet(All(rest) \cup Q[y])
      BY <2>13, <3>1, FS_Union
    <3> QED
      BY <2>10, <3>2, <3>3
  <2> HIDE DEF All, v
  <2>15. Total(v, s) = v[y] + Total(v, rest)
    BY <2>1, <2>5, <2>12, TotalByOne
  <2>16. Total(v, rest) \in Nat /\ v[y] \in Nat
    BY <2>1, <2>5, <2>8, <2>12, BytesAreFinite
  <2>17. Total(w, All(rest)) = Total(v, rest) /\ v[y] = Total(w, Q[y])
    BY <2>5, <2>9, <2>12
  <2> HIDE DEF rest
  <2>18. Total(w, All(s)) = Total(v, s)
    BY <2>14, <2>15, <2>16, <2>17
  <2> QED
    BY <2>5, <2>14, <2>18
<1> QED
  BY <1>3, Zenon
=============================================================================
