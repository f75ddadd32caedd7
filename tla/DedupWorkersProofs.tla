------------------------- MODULE DedupWorkersProofs -------------------------
(***************************************************************************)
(* Proofs about DedupWorkers, for any number of tasks and files, any user  *)
(* operations and any number of failures.                                  *)
(***************************************************************************)
EXTENDS DedupWorkers, RunPlannerProofs, SequenceTheorems

-----------------------------------------------------------------------------
(* The file system.                                                        *)

\* The record size of a file is that of one of its planned namesakes.
LEMMA RecSizeType ==
    ASSUME PlanTypeOK, DiskOK(files, disk), NEW f \in DOMAIN disk
    PROVE  RecSize(f) \in Nat \ {0} /\ disk[f] \in Seq(Block)
<1>1. \E i \in DOMAIN files : files[i].ino = f
  BY DEF DiskOK
<1>2. PICK i \in DOMAIN files : RecSize(f) = files[i].blksz
  BY <1>1 DEF RecSize, RecSizeIn
<1> QED
  BY <1>2 DEF DiskOK, PlanTypeOK, GoodSnapshot

\* The blocks of a file, one by one.
LEMMA BlockType ==
    ASSUME PlanTypeOK, DiskOK(files, disk), NEW f \in DOMAIN disk, NEW c \in DOMAIN disk[f]
    PROVE  /\ c \in 1 .. Len(disk[f]) /\ disk[f][c] \in Block
           /\ disk[f][c].len \in 1 .. RecSize(f)
           /\ c < Len(disk[f]) => disk[f][c].len = RecSize(f)
<1>1. RecSize(f) \in Nat \ {0} /\ disk[f] \in Seq(Block)
  BY RecSizeType
<1>2. c \in 1 .. Len(disk[f]) /\ disk[f][c] \in Block
  BY <1>1
<1>3. disk[f][c].len \in Nat \ {0}
  BY <1>2 DEF Block
<1>4. disk[f][c].len <= RecSize(f) /\ (c < Len(disk[f]) => disk[f][c].len = RecSize(f))
  BY DEF DiskOK, RecSize
<1> QED
  BY <1>1, <1>2, <1>3, <1>4

\* Replacing the blocks of one file.
LEMMA FileReplaced ==
    ASSUME PlanTypeOK, DiskOK(files, disk), NEW f \in DOMAIN disk, NEW blocks \in Seq(Block),
           \A c \in DOMAIN blocks :
              /\ blocks[c].len <= RecSize(f)
              /\ c < Len(blocks) => blocks[c].len = RecSize(f),
           NEW d, d = [disk EXCEPT ![f] = blocks]
    PROVE  DiskOK(files, d)
BY DEF DiskOK, RecSize

\* What users do to files.
LEMMA FreshIsBlock ==
    ASSUME NEW val \in Values \cup {ZeroVal}, NEW len \in Nat \ {0}, userOps \in Nat
    PROVE  Fresh(val, len) \in Block /\ Fresh(val, len).len = len
BY DEF Fresh, Block

LEMMA OverwriteKeepsShape ==
    ASSUME PlanTypeOK, DiskOK(files, disk), userOps \in Nat,
           NEW f \in DOMAIN disk, NEW c \in DOMAIN disk[f], NEW v \in Values, Overwrite(f, c, v)
    PROVE  DiskOK(files, disk')
<1> DEFINE new == Fresh(v, disk[f][c].len)
<1>1. disk[f] \in Seq(Block) /\ disk[f][c] \in Block
  BY RecSizeType, BlockType
<1>2. new \in Block /\ new.len = disk[f][c].len
  BY <1>1, FreshIsBlock DEF Block
<1> HIDE DEF new
<1>3. [disk[f] EXCEPT ![c] = new] \in Seq(Block)
  BY <1>1, <1>2
<1>4. \A b \in DOMAIN disk[f] : /\ [disk[f] EXCEPT ![c] = new][b].len = disk[f][b].len
                                 /\ Len([disk[f] EXCEPT ![c] = new]) = Len(disk[f])
  BY <1>1, <1>2
<1>5. disk' = [disk EXCEPT ![f] = [disk[f] EXCEPT ![c] = new]]
  BY DEF Overwrite, Rewritten, new
<1> DEFINE blocks == [disk[f] EXCEPT ![c] = new]
<1>6. \A b \in DOMAIN blocks :
          /\ blocks[b].len <= RecSize(f)
          /\ b < Len(blocks) => blocks[b].len = RecSize(f)
  BY <1>1, <1>4, BlockType
<1> HIDE DEF blocks
<1> QED
  BY <1>3, <1>5, <1>6, FileReplaced DEF blocks

LEMMA AppendKeepsShape ==
    ASSUME PlanTypeOK, DiskOK(files, disk), userOps \in Nat,
           NEW f \in DOMAIN disk, NEW v \in Values, AppendByte(f, v)
    PROVE  DiskOK(files, disk')
<1> DEFINE n == Len(disk[f])
<1>1. /\ disk[f] \in Seq(Block) /\ RecSize(f) \in Nat \ {0}
      /\ n \in Nat
      /\ \A c \in 1 .. n : /\ disk[f][c] \in Block /\ disk[f][c].len \in 1 .. RecSize(f)
                           /\ c < n => disk[f][c].len = RecSize(f)
  BY RecSizeType, BlockType
<1>2. CASE n > 0 /\ disk[f][n].len < RecSize(f)
  <2> DEFINE new == Fresh(disk[f][n].val, disk[f][n].len + 1)
  <2>1. new \in Block /\ new.len = disk[f][n].len + 1
    <3>1. disk[f][n] \in Block
      BY <1>1, <1>2
    <3>2. disk[f][n].val \in Values \cup {ZeroVal} /\ disk[f][n].len + 1 \in Nat \ {0}
      BY <3>1 DEF Block
    <3> QED
      BY <3>2, FreshIsBlock
  <2>2. disk' = [disk EXCEPT ![f] = [disk[f] EXCEPT ![n] = new]]
    BY <1>2 DEF AppendByte, Rewritten
  <2> HIDE DEF new
  <2>3. [disk[f] EXCEPT ![n] = new] \in Seq(Block)
    BY <1>1, <1>2, <2>1
  <2>4. \A c \in DOMAIN [disk[f] EXCEPT ![n] = new] :
            /\ [disk[f] EXCEPT ![n] = new][c].len <= RecSize(f)
            /\ c < Len([disk[f] EXCEPT ![n] = new]) =>
                  [disk[f] EXCEPT ![n] = new][c].len = RecSize(f)
    BY <1>1, <1>2, <2>1
  <2> QED
    BY <2>2, <2>3, <2>4, FileReplaced
<1>3. CASE ~(n > 0 /\ disk[f][n].len < RecSize(f))
  <2> DEFINE new == Fresh(v, 1)
  <2>1. new \in Block /\ new.len = 1
    BY FreshIsBlock
  <2>2. disk' = [disk EXCEPT ![f] = Append(disk[f], new)]
    BY <1>3 DEF AppendByte, Rewritten
  <2> HIDE DEF new
  <2>3. Append(disk[f], new) \in Seq(Block)
    BY <1>1, <2>1
  <2>4. \A c \in DOMAIN Append(disk[f], new) :
            /\ Append(disk[f], new)[c].len <= RecSize(f)
            /\ c < Len(Append(disk[f], new)) => Append(disk[f], new)[c].len = RecSize(f)
    BY <1>1, <1>3, <2>1
  <2> QED
    BY <2>2, <2>3, <2>4, FileReplaced
<1> QED
  BY <1>2, <1>3

LEMMA ShrinkKeepsShape ==
    ASSUME PlanTypeOK, DiskOK(files, disk), userOps \in Nat,
           NEW f \in DOMAIN disk, Shrink(f)
    PROVE  DiskOK(files, disk')
<1> DEFINE n == Len(disk[f])
<1>1. /\ disk[f] \in Seq(Block) /\ RecSize(f) \in Nat \ {0}
      /\ n \in Nat /\ n > 0
      /\ \A c \in 1 .. n : /\ disk[f][c] \in Block /\ disk[f][c].len \in 1 .. RecSize(f)
                           /\ c < n => disk[f][c].len = RecSize(f)
  BY RecSizeType, BlockType DEF Shrink
<1>2. CASE disk[f][n].len > 1
  <2> DEFINE new == Fresh(disk[f][n].val, disk[f][n].len - 1)
  <2>1. new \in Block /\ new.len = disk[f][n].len - 1
    <3>1. disk[f][n] \in Block
      BY <1>1
    <3>2. disk[f][n].val \in Values \cup {ZeroVal} /\ disk[f][n].len - 1 \in Nat \ {0}
      BY <1>2, <3>1 DEF Block
    <3> QED
      BY <3>2, FreshIsBlock
  <2>2. disk' = [disk EXCEPT ![f] = [disk[f] EXCEPT ![n] = new]]
    BY <1>2 DEF Shrink, Rewritten
  <2> HIDE DEF new
  <2>3. [disk[f] EXCEPT ![n] = new] \in Seq(Block)
    BY <1>1, <2>1
  <2>4. \A c \in DOMAIN [disk[f] EXCEPT ![n] = new] :
            /\ [disk[f] EXCEPT ![n] = new][c].len <= RecSize(f)
            /\ c < Len([disk[f] EXCEPT ![n] = new]) =>
                  [disk[f] EXCEPT ![n] = new][c].len = RecSize(f)
    BY <1>1, <1>2, <2>1
  <2> QED
    BY <2>2, <2>3, <2>4, FileReplaced
<1>3. CASE ~(disk[f][n].len > 1)
  <2> DEFINE new == SubSeq(disk[f], 1, n - 1)
  <2>1. /\ new \in Seq(Block) /\ Len(new) = n - 1
        /\ \A c \in 1 .. n - 1 : new[c] = disk[f][c]
    <3>1. 1 \in 1 .. n + 1 /\ n - 1 \in 1 - 1 .. n /\ (n - 1) - 1 + 1 = n - 1
      BY <1>1
    <3>2. /\ new \in Seq(Block) /\ Len(new) = (n - 1) - 1 + 1
          /\ \A c \in 1 .. (n - 1) - 1 + 1 : new[c] = disk[f][1 + c - 1]
      BY <1>1, <3>1, SubSeqProperties
    <3>3. \A c \in 1 .. n - 1 : 1 + c - 1 = c
      BY <1>1
    <3> QED
      BY <3>1, <3>2, <3>3
  <2>2. disk' = [disk EXCEPT ![f] = new]
    BY <1>3 DEF Shrink, Rewritten
  <2> HIDE DEF new
  <2>3. \A c \in DOMAIN new : new[c].len <= RecSize(f) /\ (c < Len(new) => new[c].len = RecSize(f))
    BY <1>1, <2>1
  <2> QED
    BY <2>1, <2>2, <2>3, FileReplaced
<1> QED
  BY <1>2, <1>3

\* A request of a task: whole chunks, the last one `tail` bytes long.
Request == [blksz : Nat \ {0}, src : DOMAIN disk, dst : DOMAIN disk, sfirst : Nat, dfirst : Nat,
            n : Nat \ {0}, len : Nat, tail : Int, dlen : Nat]

\* The source block that chunk j of the destination comes to list.
LEMMA SourceBlocks ==
    ASSUME PlanTypeOK, DiskOK(files, disk), NEW r \in Request, Clonable(r), NEW j \in 1 .. r.n
    PROVE  /\ r.sfirst + j \in DOMAIN disk[r.src]
           /\ disk[r.src][r.sfirst + j] \in Block
           /\ disk[r.src][r.sfirst + j].len \in 1 .. r.blksz
           /\ j < r.n \/ r.tail = r.blksz => disk[r.src][r.sfirst + j].len = r.blksz
<1>1. /\ r.src \in DOMAIN disk /\ r.sfirst \in Nat /\ r.n \in Nat /\ r.tail \in Int
      /\ RecSize(r.src) = r.blksz /\ r.blksz \in Nat
      /\ r.sfirst + r.n <= Len(disk[r.src]) /\ Len(disk[r.src]) \in Nat
      /\ disk[r.src] \in Seq(Block)
      /\ r.tail <= disk[r.src][r.sfirst + r.n].len
  BY RecSizeType DEF Request, Clonable, Reaches
<1>2. r.sfirst + j \in DOMAIN disk[r.src]
  BY <1>1
<1>3. /\ disk[r.src][r.sfirst + j] \in Block
      /\ disk[r.src][r.sfirst + j].len \in 1 .. r.blksz
      /\ r.sfirst + j < Len(disk[r.src]) => disk[r.src][r.sfirst + j].len = r.blksz
  BY <1>1, <1>2, BlockType
<1>4. CASE j < r.n
  BY <1>1, <1>2, <1>3, <1>4
<1>5. CASE j = r.n
  BY <1>1, <1>2, <1>3, <1>5
<1> QED
  BY <1>1, <1>4, <1>5

\* A clone, whole or stopped short, inside the destination or extending it, leaves
\* every block but the last one full.
LEMMA SharedKeepsShape ==
    ASSUME PlanTypeOK, DiskOK(files, disk), userOps \in Nat, NEW r \in Request, Clonable(r), NEW m \in 1 .. r.n
    PROVE  DiskOK(files, Shared(r, m))
<1> DEFINE old == disk[r.dst]
           upto == IF r.dfirst + m > Len(old) THEN r.dfirst + m ELSE Len(old)
           blk(c) == IF c > r.dfirst /\ c <= r.dfirst + m
                     THEN disk[r.src][r.sfirst + (c - r.dfirst)]
                     ELSE IF c > Len(old) THEN Hole(r.blksz)
                     ELSE IF c <= r.dfirst THEN [old[c] EXCEPT !.len = r.blksz]
                     ELSE old[c]
           new == [c \in 1 .. upto |-> blk(c)]
<1>1. /\ r.dfirst \in Nat /\ r.sfirst \in Nat /\ r.n \in Nat /\ r.blksz \in Nat \ {0}
      /\ r.dst \in DOMAIN disk /\ RecSize(r.dst) = r.blksz
      /\ Len(old) \in Nat /\ upto \in Nat
  BY RecSizeType DEF Request, Clonable
<1>2. ASSUME NEW c \in 1 .. upto
      PROVE  /\ blk(c) \in Block /\ blk(c).len <= r.blksz
             /\ c < upto => blk(c).len = r.blksz
  <2>1. CASE c > r.dfirst /\ c <= r.dfirst + m
    <3> DEFINE j == c - r.dfirst
    <3>1. j \in 1 .. m /\ j \in 1 .. r.n /\ blk(c) = disk[r.src][r.sfirst + j]
      BY <1>1, <2>1
    <3>2. blk(c) \in Block /\ blk(c).len \in 1 .. r.blksz
          /\ (j < r.n \/ r.tail = r.blksz => blk(c).len = r.blksz)
      BY <3>1, SourceBlocks
    <3>3. ASSUME c < upto, j = r.n, r.tail # r.blksz PROVE FALSE
      <4>1. ToEof(r.dst, r.dfirst, r.n, r.tail)
        BY <3>3 DEF Clonable
      <4>2. r.dfirst + r.n >= Len(old)
        BY <4>1 DEF ToEof
      <4>3. m = r.n /\ c = r.dfirst + r.n
        BY <1>1, <2>1, <3>1, <3>3
      <4> QED
        BY <1>1, <3>3, <4>2, <4>3
    <3> HIDE DEF blk, upto
    <3> QED
      BY <1>1, <3>1, <3>2, <3>3
  <2>2. CASE ~(c > r.dfirst /\ c <= r.dfirst + m) /\ c > Len(old)
    <3>1. blk(c) = Hole(r.blksz)
      BY <2>2
    <3> HIDE DEF blk, upto
    <3>2. Hole(r.blksz) \in Block /\ Hole(r.blksz).len = r.blksz
      BY <1>1 DEF Hole, Block
    <3> QED
      BY <1>1, <3>1, <3>2
  <2>3. CASE c <= r.dfirst /\ c <= Len(old)
    <3>1. old[c] \in Block
      BY <1>1, <2>3, BlockType, RecSizeType
    <3>2. blk(c) = [old[c] EXCEPT !.len = r.blksz]
      BY <1>1, <2>3
    <3>3. [old[c] EXCEPT !.len = r.blksz] \in Block /\ [old[c] EXCEPT !.len = r.blksz].len = r.blksz
      BY <1>1, <3>1 DEF Block
    <3> HIDE DEF blk, upto
    <3> QED
      BY <1>1, <3>2, <3>3
  <2>4. CASE c > r.dfirst + m /\ c <= Len(old)
    <3>1. blk(c) = old[c] /\ c \in DOMAIN old /\ (c < upto => c < Len(old))
      BY <1>1, <2>4, RecSizeType
    <3> HIDE DEF blk, upto
    <3> QED
      BY <1>1, <3>1, BlockType
  <2> QED
    BY <1>1, <2>1, <2>2, <2>3, <2>4
<1>3. new \in Seq(Block) /\ Len(new) = upto /\ DOMAIN new = 1 .. upto
      /\ \A c \in 1 .. upto : new[c] = blk(c)
  <2> HIDE DEF blk, upto
  <2> QED
    BY <1>1, <1>2, IsASeq
<1>4. Shared(r, m) = [disk EXCEPT ![r.dst] = new]
  BY DEF Shared
<1> HIDE DEF new, blk, upto
<1>5. \A c \in DOMAIN new :
          /\ new[c].len <= RecSize(r.dst)
          /\ c < Len(new) => new[c].len = RecSize(r.dst)
  BY <1>1, <1>2, <1>3
<1>6. ASSUME NEW f \in DOMAIN disk, NEW blocks \in Seq(Block), f = r.dst, blocks = new,
             NEW d, d = [disk EXCEPT ![f] = blocks]
      PROVE  DiskOK(files, d)
  <2> \A c \in DOMAIN blocks :
          /\ blocks[c].len <= RecSize(f)
          /\ c < Len(blocks) => blocks[c].len = RecSize(f)
    BY <1>5, <1>6
  <2> QED
    BY <1>6, FileReplaced
<1> QED
  BY <1>1, <1>3, <1>4, <1>6

\* The block that chunk j of the destination lists before a dedupe.
LEMMA TargetBlocks ==
    ASSUME PlanTypeOK, DiskOK(files, disk), NEW r \in Request, Clonable(r),
           Reaches(r.dst, r.dfirst, r.n, r.tail), NEW j \in 1 .. r.n
    PROVE  /\ r.dfirst + j \in DOMAIN disk[r.dst]
           /\ disk[r.dst][r.dfirst + j] \in Block
           /\ disk[r.dst][r.dfirst + j].len = disk[r.src][r.sfirst + j].len
<1>1. /\ r.dst \in DOMAIN disk /\ r.dfirst \in Nat /\ r.n \in Nat /\ r.tail \in Int
      /\ RecSize(r.dst) = r.blksz /\ r.blksz \in Nat
      /\ r.dfirst + r.n <= Len(disk[r.dst]) /\ Len(disk[r.dst]) \in Nat
      /\ disk[r.dst] \in Seq(Block)
      /\ r.tail <= disk[r.dst][r.dfirst + r.n].len
  BY RecSizeType DEF Request, Clonable, Reaches
<1>2. r.dfirst + j \in DOMAIN disk[r.dst]
  BY <1>1
<1>3. /\ disk[r.dst][r.dfirst + j] \in Block
      /\ disk[r.dst][r.dfirst + j].len \in 1 .. r.blksz
      /\ r.dfirst + j < Len(disk[r.dst]) => disk[r.dst][r.dfirst + j].len = r.blksz
  BY <1>1, <1>2, BlockType
<1>4. /\ disk[r.src][r.sfirst + j].len \in 1 .. r.blksz
      /\ j < r.n \/ r.tail = r.blksz => disk[r.src][r.sfirst + j].len = r.blksz
  BY SourceBlocks
<1>5. CASE j < r.n
  BY <1>1, <1>2, <1>3, <1>4, <1>5
<1>6. CASE j = r.n /\ r.tail = r.blksz
  BY <1>1, <1>2, <1>3, <1>4, <1>6
<1>7. CASE j = r.n /\ r.tail # r.blksz
  <2>1. /\ r.sfirst \in Nat /\ r.sfirst + r.n <= Len(disk[r.src])
        /\ Len(disk[r.src]) \in Nat
        /\ r.tail <= disk[r.src][r.sfirst + r.n].len
    BY RecSizeType DEF Request, Clonable, Reaches
  <2>2. disk[r.src][r.sfirst + r.n].len <= r.tail
    BY <1>1, <1>7, <2>1 DEF Clonable, ToEof
  <2>3. disk[r.dst][r.dfirst + r.n].len <= r.tail
    BY <1>1, <1>7 DEF Clonable, ToEof
  <2>4. disk[r.src][r.sfirst + j].len = r.tail
    <3>1. disk[r.src][r.sfirst + r.n].len \in Int
      BY <1>4, <1>7
    <3> QED
      BY <1>1, <1>7, <2>1, <2>2, <3>1
  <2>5. disk[r.dst][r.dfirst + j].len = r.tail
    <3>1. disk[r.dst][r.dfirst + r.n].len \in Int
      BY <1>3, <1>7
    <3> QED
      BY <1>1, <1>7, <2>3, <3>1
  <2> QED
    BY <1>2, <1>3, <2>4, <2>5
<1> QED
  BY <1>1, <1>2, <1>3, <1>5, <1>6, <1>7

\* A clone of a range that lies inside the destination replaces its blocks and
\* touches no other.
LEMMA SharedInPlace ==
    ASSUME PlanTypeOK, DiskOK(files, disk), NEW r \in Request, Clonable(r),
           Reaches(r.dst, r.dfirst, r.n, r.tail), NEW m \in 1 .. r.n
    PROVE  Shared(r, m) =
              [disk EXCEPT ![r.dst] =
                  [c \in DOMAIN disk[r.dst] |->
                      IF c > r.dfirst /\ c <= r.dfirst + m
                      THEN disk[r.src][r.sfirst + (c - r.dfirst)] ELSE disk[r.dst][c]]]
<1> DEFINE old == disk[r.dst]
           new == [c \in DOMAIN old |->
                      IF c > r.dfirst /\ c <= r.dfirst + m
                      THEN disk[r.src][r.sfirst + (c - r.dfirst)] ELSE old[c]]
<1>1. /\ r.dfirst \in Nat /\ r.sfirst \in Nat /\ r.n \in Nat /\ m \in Nat
      /\ r.src \in DOMAIN disk /\ r.dst \in DOMAIN disk
      /\ RecSize(r.dst) = r.blksz
      /\ r.dfirst + m <= Len(old) /\ Len(old) \in Nat
      /\ old \in Seq(Block) /\ DOMAIN old = 1 .. Len(old)
  BY RecSizeType DEF Request, Clonable, Reaches
<1>2. ASSUME NEW c \in DOMAIN old, c <= r.dfirst
      PROVE  [old[c] EXCEPT !.len = r.blksz] = old[c]
  <2>1. old[c] \in Block /\ old[c].len = r.blksz
    BY <1>1, <1>2, BlockType
  <2> QED
    BY <2>1 DEF Block
<1>3. Shared(r, m) = [disk EXCEPT ![r.dst] = new]
  <2> DEFINE blk(c) == IF c > r.dfirst /\ c <= r.dfirst + m
                       THEN disk[r.src][r.sfirst + (c - r.dfirst)]
                       ELSE IF c > Len(old) THEN Hole(r.blksz)
                       ELSE IF c <= r.dfirst THEN [old[c] EXCEPT !.len = r.blksz]
                       ELSE old[c]
             upto == IF r.dfirst + m > Len(old) THEN r.dfirst + m ELSE Len(old)
  <2>1. Shared(r, m) = [disk EXCEPT ![r.dst] = [c \in 1 .. upto |-> blk(c)]]
    BY DEF Shared
  <2>2. upto = Len(old)
    BY <1>1
  <2>3. ASSUME NEW c \in DOMAIN old PROVE blk(c) = new[c]
    <3>1. CASE c > r.dfirst /\ c <= r.dfirst + m
      BY <3>1
    <3>2. CASE c <= r.dfirst
      BY <1>1, <1>2, <3>2
    <3>3. CASE c > r.dfirst + m
      BY <1>1, <3>3
    <3> QED
      BY <1>1, <3>1, <3>2, <3>3
  <2> HIDE DEF blk
  <2>4. [c \in 1 .. upto |-> blk(c)] = new
    BY <1>1, <2>2, <2>3
  <2> QED
    BY <2>1, <2>4
<1> QED
  BY <1>3

\* What FIDEDUPERANGE does to ranges that it has found equal, whole or stopped
\* short: nothing that a reader could see, and only blocks in use stay in use.
LEMMA SharedIsTransparent ==
    ASSUME PlanTypeOK, DiskOK(files, disk), NEW r \in Request, Clonable(r),
           Reaches(r.dst, r.dfirst, r.n, r.tail), KernelAgrees(r), NEW m \in 1 .. r.n
    PROVE  /\ View(Shared(r, m)) = View(disk)
           /\ BlocksInUse(Shared(r, m)) \subseteq BlocksInUse(disk)
<1> DEFINE old == disk[r.dst]
           new == [c \in DOMAIN old |->
                      IF c > r.dfirst /\ c <= r.dfirst + m
                      THEN disk[r.src][r.sfirst + (c - r.dfirst)] ELSE old[c]]
<1>1. /\ r.dfirst \in Nat /\ r.sfirst \in Nat /\ r.n \in Nat /\ m \in Nat
      /\ r.src \in DOMAIN disk /\ r.dst \in DOMAIN disk
      /\ RecSize(r.dst) = r.blksz
      /\ r.dfirst + m <= Len(old) /\ Len(old) \in Nat
      /\ old \in Seq(Block) /\ DOMAIN old = 1 .. Len(old)
  BY RecSizeType DEF Request, Clonable, Reaches
<1>2. Shared(r, m) = [disk EXCEPT ![r.dst] = new]
  BY SharedInPlace
<1>4. ASSUME NEW c \in DOMAIN old
      PROVE  /\ new[c].val = old[c].val /\ new[c].len = old[c].len
             /\ \/ new[c] = old[c]
                \/ \E b \in DOMAIN disk[r.src] : new[c] = disk[r.src][b]
  <2>1. CASE c > r.dfirst /\ c <= r.dfirst + m
    <3> DEFINE j == c - r.dfirst
    <3>1. j \in 1 .. r.n /\ r.dfirst + j = c /\ new[c] = disk[r.src][r.sfirst + j]
      BY <1>1, <2>1
    <3>2. disk[r.src][r.sfirst + j].val = old[c].val
      BY <3>1 DEF KernelAgrees, ValuesIn
    <3> HIDE DEF j, new
    <3>3. r.sfirst + j \in DOMAIN disk[r.src] /\ old[c].len = disk[r.src][r.sfirst + j].len
      BY <3>1, SourceBlocks, TargetBlocks
    <3> QED
      BY <3>1, <3>2, <3>3
  <2>2. CASE ~(c > r.dfirst /\ c <= r.dfirst + m)
    BY <2>2
  <2> QED
    BY <2>1, <2>2
<1>5. DOMAIN new = DOMAIN old
  OBVIOUS
<1> HIDE DEF new
<1> PICK d : d = Shared(r, m)
  OBVIOUS
<1>6. /\ DOMAIN d = DOMAIN disk /\ d[r.dst] = new
      /\ \A f \in DOMAIN disk \ {r.dst} : d[f] = disk[f]
  BY <1>1, <1>2
<1>7. \A f \in DOMAIN disk : Contents(d, f) = Contents(disk, f)
  <2>1. ASSUME NEW f \in DOMAIN disk, f # r.dst PROVE Contents(d, f) = Contents(disk, f)
    BY <1>6, <2>1 DEF Contents
  <2>2. Contents(d, r.dst) = [c \in DOMAIN new |-> [val |-> new[c].val, len |-> new[c].len]]
    BY <1>6 DEF Contents
  <2>3. Contents(disk, r.dst) = [c \in DOMAIN old |-> [val |-> old[c].val, len |-> old[c].len]]
    BY DEF Contents
  <2>4. Contents(d, r.dst) = Contents(disk, r.dst)
    BY <1>4, <1>5, <2>2, <2>3
  <2> QED
    BY <2>1, <2>4
<1>8. View(d) = View(disk)
  BY <1>6, <1>7 DEF View
<1>9. ASSUME NEW f \in DOMAIN d, NEW c \in DOMAIN d[f] PROVE d[f][c] \in BlocksInUse(disk)
  <2>1. \E g \in DOMAIN disk : \E b \in DOMAIN disk[g] : d[f][c] = disk[g][b]
    <3>1. CASE f # r.dst
      BY <1>6, <1>9, <3>1
    <3>2. CASE f = r.dst
      <4>1. d[f][c] = new[c] /\ c \in DOMAIN old
        BY <1>5, <1>6, <1>9, <3>2
      <4> QED
        BY <1>1, <1>4, <4>1
    <3> QED
      BY <3>1, <3>2
  <2> QED
    BY <2>1 DEF BlocksInUse
<1>10. BlocksInUse(d) \subseteq BlocksInUse(disk)
  BY <1>9 DEF BlocksInUse
<1> QED
  BY <1>8, <1>10

-----------------------------------------------------------------------------
(* The tasks.                                                              *)

\* What makes a record a sound task state, and that replacing one by another
\* keeps the tasks sound.
SoundTask(t) ==
    /\ t \in Task
    /\ t.pc # "idle" =>
          /\ phase = "clone"
          /\ t.key \in DOMAIN plan
          /\ t.run \in DOMAIN plan[t.key]
          /\ {t.src, t.dst} \subseteq DOMAIN disk
          /\ t.since <= userOps

LEMMA TaskIsSound ==
    ASSUME TasksOK, NEW w \in Workers
    PROVE  SoundTask(task[w])
BY DEF TasksOK, SoundTask

LEMMA TaskReplaced ==
    ASSUME TasksOK, NEW w \in Workers, NEW t, SoundTask(t),
           task' = [task EXCEPT ![w] = t],
           UNCHANGED <<phase, plan, userOps>>, DOMAIN disk' = DOMAIN disk
    PROVE  TasksOK'
<1>1. \A v \in Workers : task'[v] = IF v = w THEN t ELSE task[v]
  BY DEF TasksOK
<1>2. \A v \in Workers : SoundTask(task'[v])
  BY <1>1, TaskIsSound
<1>3. Task' = Task
  BY DEF Task
<1>4. task' \in [Workers -> Task]
  BY <1>2 DEF TasksOK, SoundTask
<1> QED
  BY <1>2, <1>3, <1>4 DEF TasksOK, SoundTask

LEMMA IdleIsSound == ASSUME userOps \in Nat PROVE SoundTask(Idle)
BY DEF SoundTask, Idle, Task

\* The next run of the pair is a run of the plan.
LEMMA NextRunKeepsTasks ==
    ASSUME PlanTypeOK, TasksOK, userOps \in Nat, NEW w \in Workers,
           task[w].pc # "idle", NextRun(w),
           UNCHANGED <<phase, plan, userOps>>, DOMAIN disk' = DOMAIN disk
    PROVE  TasksOK'
<1> DEFINE t == task[w]
           next == [t EXCEPT !.pc = "run", !.run = @ + 1, !.buf = <<>>]
<1>1. task' = [task EXCEPT ![w] = IF t.run < Len(plan[t.key]) THEN next ELSE Idle]
  BY DEF NextRun
<1>2. ASSUME t.run < Len(plan[t.key]) PROVE SoundTask(next)
  <2>1. SoundTask(t) /\ t \in Task /\ plan[t.key] \in Seq(Run)
    BY TaskIsSound DEF SoundTask, PlanTypeOK
  <2>2. next \in Task
    <3>1. t.run + 1 \in Nat /\ <<>> \in Seq(Values \cup {ZeroVal})
      BY <2>1 DEF Task
    <3> QED
      BY <2>1, <3>1 DEF Task
  <2>3. t.run \in 1 .. Len(plan[t.key]) /\ t.run + 1 \in DOMAIN plan[t.key]
    BY <1>2, <2>1 DEF SoundTask
  <2>4. /\ next.key = t.key /\ next.run = t.run + 1 /\ next.src = t.src
        /\ next.dst = t.dst /\ next.since = t.since
    BY <2>1 DEF Task
  <2> HIDE DEF next
  <2> QED
    BY <2>1, <2>2, <2>3, <2>4 DEF SoundTask
<1>3. SoundTask(IF t.run < Len(plan[t.key]) THEN next ELSE Idle)
  BY <1>2, IdleIsSound
<1> HIDE DEF next, t
<1> QED
  BY <1>1, <1>3, TaskReplaced

\* What a task inside a pair asks for is a request.
LEMMA RunIsRequest ==
    ASSUME TypeOK, PlanComplete, NEW w \in Workers, task[w].pc # "idle"
    PROVE  RunOf(w) \in Request
<1> DEFINE k == task[w].key
           run == plan[k][task[w].run]
           len == run_len(files[k[2]], run.src.chunk, run.chunks, k[1])
           dlen == run_len(files[k[3]], run.dst.chunk, run.chunks, k[1])
<1>1. /\ k \in DOMAIN plan /\ task[w].run \in DOMAIN plan[k]
      /\ {task[w].src, task[w].dst} \subseteq DOMAIN disk
  BY DEF TypeOK, TasksOK
<1>2. k \in Key /\ plan[k] \in Seq(Run) /\ {k[2], k[3]} \subseteq DOMAIN files
  BY <1>1 DEF TypeOK, PlanTypeOK, PlanComplete
<1>3. run \in Run
  BY <1>1, <1>2
<1>4. /\ k[1] \in Nat \ {0} /\ run.src.chunk \in Nat /\ run.dst.chunk \in Nat
      /\ run.chunks \in Nat \ {0}
  BY <1>2, <1>3 DEF Key, Run, Loc
<1>5. files[k[2]].size \in Nat /\ files[k[3]].size \in Nat
  BY <1>2 DEF TypeOK, PlanTypeOK, GoodSnapshot
<1> HIDE DEF run, k
<1>6. /\ run.src.chunk * k[1] \in Nat /\ run.dst.chunk * k[1] \in Nat
      /\ run.chunks * k[1] \in Nat /\ (run.chunks - 1) * k[1] \in Int
  BY <1>4
<1>7. len \in Nat /\ dlen \in Nat
  BY <1>5, <1>6 DEF run_len, LowerOf, SatSub
<1> HIDE DEF len, dlen
<1>8. len - (run.chunks - 1) * k[1] \in Int
  BY <1>6, <1>7
<1>9. RunOf(w) = [blksz |-> k[1], src |-> task[w].src, dst |-> task[w].dst,
                  sfirst |-> run.src.chunk, dfirst |-> run.dst.chunk, n |-> run.chunks,
                  len |-> len, tail |-> len - (run.chunks - 1) * k[1], dlen |-> dlen]
  BY DEF RunOf, k, run, len, dlen
<1> QED
  BY <1>1, <1>4, <1>7, <1>8, <1>9 DEF Request

LEMMA CountersTyped ==
    ASSUME stats \in [DOMAIN NoStats -> Nat], NEW fields, NEW bytes \in Nat
    PROVE  /\ Count(fields) \in [DOMAIN NoStats -> Nat]
           /\ Saved(bytes, fields) \in [DOMAIN NoStats -> Nat]
<1>1. Count(fields) \in [DOMAIN NoStats -> Nat]
  BY DEF Count
<1>2. "bytes" \in DOMAIN NoStats
  BY DEF NoStats
<1> QED
  BY <1>1, <1>2 DEF Saved

-----------------------------------------------------------------------------
(* Types.                                                                  *)

\* TypeOK with what it rests on: every pair of a finished plan has a first run.
Inv == TypeOK /\ Accounted /\ PlanComplete

LEMMA InitTyped == Init => Inv
<1> SUFFICES ASSUME Init PROVE Inv
  OBVIOUS
<1>1. PICK i \in Inputs : files = i.files /\ cache = i.cache /\ disk = i.disk
  BY DEF Init
<1>2. GoodSnapshot(files, cache) /\ DiskOK(files, disk)
  BY <1>1, InputsAssumption, DisksAssumption
<1>3. PlanTypeOK /\ Accounted /\ PlanComplete
  BY <1>2 DEF Init, PlanTypeOK, Accounted, AllRunIds, PlanComplete
<1>4. PathsOK
  BY <1>2 DEF Init, PathsOK, DiskOK
<1>5. TasksOK
  BY DEF Init, TasksOK, Idle, Task
<1>6. stats \in [DOMAIN NoStats -> Nat]
  BY DEF Init, NoStats
<1>7. userOps \in 0 .. MaxUserOps /\ faults \in 0 .. MaxFaults
  BY BoundsAssumption DEF Init
<1>8. opts \in Modes /\ pending \subseteq DOMAIN plan
  BY DEF Init
<1> QED
  BY <1>2, <1>3, <1>4, <1>5, <1>6, <1>7, <1>8 DEF Inv, TypeOK

\* A step of a task leaves the plan, the mode and the paths alone.
LEMMA TaskStepTyped ==
    ASSUME TypeOK, UNCHANGED <<planVars, opts, path, userOps>>,
           DiskOK(files, disk'), pending' \subseteq pending, TasksOK',
           stats' \in [DOMAIN NoStats -> Nat], faults' \in 0 .. MaxFaults
    PROVE  TypeOK'
<1>1. UNCHANGED <<files, cache, phase, pairs, plan, opts, path, userOps>>
  BY DEF planVars
<1>2. PlanTypeOK'
  BY <1>1 DEF TypeOK, PlanTypeOK
<1>3. DOMAIN disk' = DOMAIN disk
  BY DEF TypeOK, DiskOK
<1>4. PathsOK'
  BY <1>1, <1>3 DEF TypeOK, PathsOK
<1>5. DiskOK(files, disk)'
  BY <1>1
<1>6. (DOMAIN NoStats)' = DOMAIN NoStats
  BY DEF NoStats
<1> QED
  BY <1>1, <1>2, <1>4, <1>5, <1>6 DEF TypeOK

LEMMA TakePairTyped ==
    ASSUME Inv, NEW w \in Workers, NEW k \in pending, TakePair(w, k)
    PROVE  TypeOK'
<1> DEFINE taken == [pc |-> "run", key |-> k, run |-> 1,
                     src |-> path[k[2]].ino, dst |-> path[k[3]].ino,
                     buf |-> <<>>, since |-> 0]
<1>1. /\ phase = "clone" /\ k \in DOMAIN plan /\ k \in Key
      /\ plan[k] \in Seq(Run) /\ plan[k] # <<>> /\ {k[2], k[3]} \subseteq DOMAIN files
      /\ userOps \in Nat
  BY DEF TakePair, Inv, TypeOK, PlanTypeOK, PlanComplete
<1>2. path[k[2]].ino \in DOMAIN disk /\ path[k[3]].ino \in DOMAIN disk
  BY <1>1 DEF Inv, TypeOK, PathsOK
<1>3. 1 \in DOMAIN plan[k] /\ <<>> \in Seq(Values \cup {ZeroVal})
  BY <1>1
<1>4. SoundTask(taken)
  BY <1>1, <1>2, <1>3 DEF SoundTask, Task
<1> HIDE DEF taken
<1>5. SoundTask(IF Refusal(k) = "ok" THEN taken ELSE Idle)
  BY <1>1, <1>4, IdleIsSound
<1>6. task' = [task EXCEPT ![w] = IF Refusal(k) = "ok" THEN taken ELSE Idle]
  BY DEF TakePair, taken
<1>7. UNCHANGED <<planVars, opts, disk, path, userOps, faults>>
  BY DEF TakePair, userVars
<1>8. TasksOK'
  BY <1>5, <1>6, <1>7, TaskReplaced DEF Inv, TypeOK, planVars
<1>9. stats' \in [DOMAIN NoStats -> Nat] /\ pending' \subseteq pending
  BY CountersTyped DEF TakePair, Inv, TypeOK
<1> QED
  BY <1>7, <1>8, <1>9, TaskStepTyped DEF Inv, TypeOK

LEMMA TakeSpecialTyped ==
    ASSUME Inv, NEW w \in Workers, NEW k \in pending, TakeSpecial(w, k)
    PROVE  TypeOK'
<1>1. UNCHANGED <<planVars, opts, disk, path, userOps, task, faults>> /\ pending' \subseteq pending
  BY DEF TakeSpecial, userVars
<1>2. TasksOK'
  BY <1>1 DEF planVars, Inv, TypeOK, TasksOK, Task
<1>3. plan[k] \in Seq(Run)
  BY DEF Inv, TypeOK, PlanTypeOK
<1>4. stats' \in [DOMAIN NoStats -> Nat]
  <2>1. CASE stats' = Count({"errors"})
    BY <2>1, CountersTyped DEF Inv, TypeOK
  <2>2. ASSUME NEW n \in 0 .. Len(plan[k]),
               stats' = [stats EXCEPT !.candidates = @ + Len(plan[k]), !.errors = @ + n]
        PROVE  stats' \in [DOMAIN NoStats -> Nat]
    <3>1. PICK c \in Nat : c = Len(plan[k])
      BY <1>3
    <3>2. /\ stats \in [DOMAIN NoStats -> Nat] /\ n \in Nat
          /\ stats' = [stats EXCEPT !.candidates = @ + c, !.errors = @ + n]
      BY <2>2, <3>1 DEF Inv, TypeOK
    <3>3. \A x \in DOMAIN NoStats : stats[x] + c \in Nat /\ stats[x] + n \in Nat
      BY <3>2
    <3> QED
      BY <3>2, <3>3
  <2>3. /\ Len(plan[k]) \in 0 .. Len(plan[k])
        /\ (IF Compare THEN 0 .. Len(plan[k]) ELSE {Len(plan[k])}) \subseteq 0 .. Len(plan[k])
    BY <1>3
  <2>4. \/ stats' = Count({"errors"})
        \/ \E n \in 0 .. Len(plan[k]) :
              stats' = [stats EXCEPT !.candidates = @ + Len(plan[k]), !.errors = @ + n]
    BY <2>3 DEF TakeSpecial
  <2> QED
    BY <2>1, <2>2, <2>4
<1> QED
  BY <1>1, <1>2, <1>4, TaskStepTyped DEF Inv, TypeOK

LEMMA ReadSrcTyped ==
    ASSUME Inv, NEW w \in Workers, task[w].pc = "run", NEW r, r = RunOf(w), ReadSrc(w, r),
           UNCHANGED <<planVars, opts, path, userOps, pending, faults>>
    PROVE  TypeOK'
<1>1. r \in Request /\ userOps \in Nat /\ PlanTypeOK /\ TasksOK /\ DiskOK(files, disk)
  BY RunIsRequest DEF Inv, TypeOK
<1>2. stats' \in [DOMAIN NoStats -> Nat] /\ UNCHANGED disk
  BY CountersTyped DEF ReadSrc, Inv, TypeOK
<1>3. CASE Reaches(r.src, r.sfirst, r.n, r.tail)
  <2> DEFINE buf == ValuesIn(r.src, r.sfirst, r.n)
             next == [task[w] EXCEPT !.pc = "read_dst", !.since = userOps, !.buf = buf]
  <2>1. ASSUME NEW j \in 1 .. r.n PROVE disk[r.src][r.sfirst + j].val \in Values \cup {ZeroVal}
    <3>1. /\ r.src \in DOMAIN disk /\ r.sfirst \in Nat /\ r.n \in Nat
          /\ disk[r.src] \in Seq(Block) /\ Len(disk[r.src]) \in Nat
          /\ r.sfirst + r.n <= Len(disk[r.src])
      BY <1>1, <1>3, RecSizeType DEF Request, Reaches
    <3>2. r.sfirst + j \in 1 .. Len(disk[r.src])
      BY <3>1
    <3>3. disk[r.src][r.sfirst + j] \in Block
      BY <3>1, <3>2
    <3> QED
      BY <3>3 DEF Block
  <2>2. buf \in Seq(Values \cup {ZeroVal})
    BY <1>1, <2>1, IsASeq DEF ValuesIn, Request
  <2>3. SoundTask(task[w])
    BY <1>1, TaskIsSound
  <2> HIDE DEF buf
  <2>4. /\ next \in Task
        /\ next.key = task[w].key /\ next.run = task[w].run /\ next.src = task[w].src
        /\ next.dst = task[w].dst /\ next.since = userOps
    BY <1>1, <2>2, <2>3 DEF SoundTask, Task
  <2> HIDE DEF next
  <2>5. SoundTask(next)
    BY <1>1, <2>3, <2>4 DEF SoundTask
  <2>6. task' = [task EXCEPT ![w] = next]
    BY <1>3 DEF ReadSrc, next, buf
  <2>7. TasksOK'
    BY <1>1, <1>2, <2>5, <2>6, TaskReplaced DEF planVars
  <2> QED
    BY <1>1, <1>2, <2>7, TaskStepTyped DEF Inv, TypeOK
<1>4. CASE ~Reaches(r.src, r.sfirst, r.n, r.tail)
  <2>1. TasksOK'
    BY <1>1, <1>2, <1>4, NextRunKeepsTasks DEF ReadSrc, planVars
  <2> QED
    BY <1>1, <1>2, <2>1, TaskStepTyped DEF Inv, TypeOK
<1> QED
  BY <1>3, <1>4

LEMMA DedupeRangeTyped ==
    ASSUME Inv, NEW w \in Workers, task[w].pc # "idle", NEW r, r = RunOf(w), DedupeRange(w, r),
           UNCHANGED <<planVars, opts, path, userOps, pending, faults>>
    PROVE  TypeOK'
<1>1. r \in Request /\ userOps \in Nat /\ PlanTypeOK /\ TasksOK /\ DiskOK(files, disk)
  BY RunIsRequest DEF Inv, TypeOK
<1>2. DiskOK(files, disk') /\ stats' \in [DOMAIN NoStats -> Nat]
  <2>1. CASE UNCHANGED disk /\ \E fields : stats' = Count(fields)
    BY <1>1, <2>1, CountersTyped DEF Inv, TypeOK
  <2>2. CASE \E m \in 1 .. r.n :
                /\ Clonable(r) /\ disk' = Shared(r, m)
                /\ stats' = Saved(BytesDeduped(r, m), {"candidates", "verified", "cloned"})
    <3>1. PICK m \in 1 .. r.n :
                /\ Clonable(r) /\ disk' = Shared(r, m)
                /\ stats' = Saved(BytesDeduped(r, m), {"candidates", "verified", "cloned"})
      BY <2>2
    <3>2. m \in Nat /\ r.blksz \in Nat /\ r.len \in Nat
      BY <1>1 DEF Request
    <3>3. BytesDeduped(r, m) \in Nat
      BY <3>2 DEF BytesDeduped, LowerOf
    <3> QED
      BY <1>1, <3>1, <3>3, SharedKeepsShape, CountersTyped DEF Inv, TypeOK
  <2>3. r.n \in 1 .. r.n
    BY <1>1 DEF Request
  <2> QED
    BY <2>1, <2>2, <2>3 DEF DedupeRange
<1>3. DOMAIN disk' = DOMAIN disk
  BY <1>1, <1>2 DEF DiskOK
<1>4. TasksOK'
  BY <1>1, <1>3, NextRunKeepsTasks DEF DedupeRange, planVars
<1> QED
  BY <1>2, <1>4, TaskStepTyped DEF Inv, TypeOK

LEMMA StartRunTyped ==
    ASSUME Inv, NEW w \in Workers, StartRun(w)
    PROVE  TypeOK'
<1>1. PICK r : r = RunOf(w)
  OBVIOUS
<1>2. UNCHANGED <<planVars, opts, path, userOps, pending, faults>> /\ task[w].pc = "run"
  BY DEF StartRun
<1>3. CASE NextRun(w) /\ UNCHANGED <<stats, disk>>
  <2>1. TasksOK'
    BY <1>2, <1>3, NextRunKeepsTasks DEF Inv, TypeOK, planVars
  <2> QED
    BY <1>2, <1>3, <2>1, TaskStepTyped DEF Inv, TypeOK
<1>4. CASE ReadSrc(w, r)
  BY <1>1, <1>2, <1>4, ReadSrcTyped
<1>5. CASE DedupeRange(w, r)
  BY <1>1, <1>2, <1>5, DedupeRangeTyped
<1> QED
  BY <1>1, <1>3, <1>4, <1>5 DEF StartRun

LEMMA ReadDstTyped ==
    ASSUME Inv, NEW w \in Workers, ReadDst(w)
    PROVE  TypeOK'
<1>1. PICK r : r = RunOf(w)
  OBVIOUS
<1>2. /\ UNCHANGED <<planVars, opts, disk, path, userOps, pending, faults>>
      /\ task[w].pc = "read_dst"
  BY DEF ReadDst, userVars
<1>3. r \in Request /\ userOps \in Nat /\ PlanTypeOK /\ TasksOK /\ DiskOK(files, disk)
  BY <1>1, <1>2, RunIsRequest DEF Inv, TypeOK
<1>4. stats' \in [DOMAIN NoStats -> Nat]
  <2>1. r.len \in Nat /\ stats \in [DOMAIN NoStats -> Nat]
    BY <1>3 DEF Request, Inv, TypeOK
  <2>2. \/ stats' = stats \/ stats' = Count({"mismatches"})
        \/ stats' = Saved(r.len, {"verified"})
    BY <1>1 DEF ReadDst
  <2> QED
    BY <2>1, <2>2, CountersTyped
<1>5. CASE NextRun(w)
  <2>1. TasksOK'
    BY <1>2, <1>3, <1>5, NextRunKeepsTasks DEF planVars
  <2> QED
    BY <1>2, <1>3, <1>4, <2>1, TaskStepTyped DEF Inv, TypeOK
<1>6. CASE task' = [task EXCEPT ![w].pc = "clone"]
  <2> DEFINE next == [task[w] EXCEPT !.pc = "clone"]
  <2>1. SoundTask(task[w])
    BY <1>3, TaskIsSound
  <2>2. /\ next \in Task
        /\ next.key = task[w].key /\ next.run = task[w].run /\ next.src = task[w].src
        /\ next.dst = task[w].dst /\ next.since = task[w].since
    BY <2>1 DEF SoundTask, Task
  <2>3. task' = [task EXCEPT ![w] = next]
    BY <1>6
  <2> HIDE DEF next
  <2>4. SoundTask(next)
    BY <1>2, <2>1, <2>2 DEF SoundTask
  <2>5. TasksOK'
    BY <1>2, <1>3, <2>3, <2>4, TaskReplaced DEF planVars
  <2> QED
    BY <1>2, <1>3, <1>4, <2>5, TaskStepTyped DEF Inv, TypeOK
<1> QED
  BY <1>5, <1>6 DEF ReadDst

LEMMA CloneRangeTyped ==
    ASSUME Inv, NEW w \in Workers, CloneRange(w)
    PROVE  TypeOK'
<1>1. PICK r : r = RunOf(w)
  OBVIOUS
<1>2. /\ UNCHANGED <<planVars, opts, path, userOps, pending, faults>>
      /\ task[w].pc = "clone" /\ NextRun(w)
  BY DEF CloneRange
<1>3. r \in Request /\ userOps \in Nat /\ PlanTypeOK /\ TasksOK /\ DiskOK(files, disk)
  BY <1>1, <1>2, RunIsRequest DEF Inv, TypeOK
<1>4. r.len \in Nat /\ r.n \in 1 .. r.n
  BY <1>3 DEF Request
<1>5. DiskOK(files, disk') /\ stats' \in [DOMAIN NoStats -> Nat]
  <2>1. CASE Clonable(r)
    <3>1. disk' = Shared(r, r.n) /\ stats' = Saved(r.len, {"verified", "cloned"})
      BY <1>1, <2>1 DEF CloneRange
    <3> QED
      BY <1>3, <1>4, <2>1, <3>1, SharedKeepsShape, CountersTyped DEF Inv, TypeOK
  <2>2. CASE ~Clonable(r)
    <3>1. disk' = disk /\ stats' = Count({"errors"})
      BY <1>1, <2>2 DEF CloneRange
    <3> QED
      BY <1>3, <3>1, CountersTyped DEF Inv, TypeOK
  <2> QED
    BY <2>1, <2>2
<1>6. DOMAIN disk' = DOMAIN disk
  BY <1>3, <1>5 DEF DiskOK
<1>7. TasksOK'
  BY <1>2, <1>3, <1>6, NextRunKeepsTasks DEF planVars
<1> QED
  BY <1>2, <1>5, <1>7, TaskStepTyped DEF Inv, TypeOK

LEMMA IoFaultTyped ==
    ASSUME Inv, NEW w \in Workers, NEW field, IoFault(w, field)
    PROVE  TypeOK'
<1>1. /\ UNCHANGED <<planVars, opts, disk, path, userOps, pending>>
      /\ task[w].pc # "idle" /\ NextRun(w)
  BY DEF IoFault, userVars
<1>2. stats' \in [DOMAIN NoStats -> Nat]
  BY CountersTyped DEF IoFault, Inv, TypeOK
<1>3. faults' \in 0 .. MaxFaults
  BY BoundsAssumption DEF IoFault, Inv, TypeOK
<1>4. TasksOK'
  BY <1>1, NextRunKeepsTasks DEF Inv, TypeOK, planVars
<1> QED
  BY <1>1, <1>2, <1>3, <1>4, TaskStepTyped DEF Inv, TypeOK

\* What users do leaves the tool alone.
LEMMA UserStepTyped ==
    ASSUME Inv, UserStep
    PROVE  TypeOK'
<1>1. /\ UNCHANGED <<files, cache, phase, pairs, plan, opts, pending, task, stats, faults>>
      /\ userOps' = userOps + 1 /\ userOps < MaxUserOps
  BY DEF UserStep, Overwrite, AppendByte, Shrink, Relink, Trouble, UserActs, planVars, toolVars
<1>2. userOps \in Nat /\ userOps' \in 0 .. MaxUserOps
  BY <1>1, BoundsAssumption DEF Inv, TypeOK
<1>3. DiskOK(files, disk')
  <2>1. PlanTypeOK /\ DiskOK(files, disk)
    BY DEF Inv, TypeOK
  <2>2. ASSUME NEW f \in DOMAIN disk, NEW v \in Values, NEW c \in DOMAIN disk[f],
               Overwrite(f, c, v)
        PROVE  DiskOK(files, disk')
    BY <1>2, <2>1, <2>2, OverwriteKeepsShape
  <2>3. ASSUME NEW f \in DOMAIN disk, NEW v \in Values, AppendByte(f, v)
        PROVE  DiskOK(files, disk')
    BY <1>2, <2>1, <2>3, AppendKeepsShape
  <2>4. ASSUME NEW f \in DOMAIN disk, Shrink(f)
        PROVE  DiskOK(files, disk')
    BY <1>2, <2>1, <2>4, ShrinkKeepsShape
  <2>5. ASSUME NEW i \in DOMAIN files, NEW j \in DOMAIN files, Relink(i, j)
        PROVE  DiskOK(files, disk')
    BY <2>1, <2>5 DEF Relink
  <2>6. ASSUME NEW i \in DOMAIN files, NEW s \in PathTroubles, Trouble(i, s)
        PROVE  DiskOK(files, disk')
    BY <2>1, <2>6 DEF Trouble
  <2> QED
    BY <2>2, <2>3, <2>4, <2>5, <2>6 DEF UserStep
<1>4. DOMAIN disk' = DOMAIN disk
  BY <1>3 DEF Inv, TypeOK, DiskOK
<1>5. path' \in [DOMAIN files -> [ino : DOMAIN disk, state : {"ok"} \cup PathTroubles]]
  BY DEF UserStep, Overwrite, AppendByte, Shrink, Relink, Trouble, Rewritten, Inv, TypeOK, PathsOK
<1>6. TasksOK'
  <2>1. Task' = Task
    BY <1>4 DEF Task
  <2>2. TasksOK
    BY DEF Inv, TypeOK
  <2>3. ASSUME NEW w \in Workers, task[w].pc # "idle" PROVE task[w].since <= userOps'
    BY <1>1, <1>2, <2>2, <2>3 DEF TasksOK, Task
  <2> QED
    BY <1>1, <1>4, <2>1, <2>2, <2>3 DEF TasksOK
<1>7. PlanTypeOK'
  BY <1>1 DEF Inv, TypeOK, PlanTypeOK
<1>8. (DOMAIN NoStats)' = DOMAIN NoStats
  BY DEF NoStats
<1>9. DiskOK(files, disk)' /\ PathsOK'
  BY <1>1, <1>3, <1>4, <1>5 DEF PathsOK
<1> QED
  BY <1>1, <1>2, <1>6, <1>7, <1>8, <1>9 DEF Inv, TypeOK

LEMMA NextKeepsInv ==
    ASSUME Inv, [Next]_vars
    PROVE  Inv'
<1>1. ASSUME Plan PROVE Inv'
  <2>1. PlanStep /\ UNCHANGED <<opts, disk, path, userOps, task, stats, faults>>
    BY <1>1 DEF Plan, userVars
  <2>2. PlanTypeOK' /\ Accounted' /\ PlanComplete'
    BY <2>1, PlanStepTyped, PlanStepAccounted, PlanStepComplete DEF Inv, TypeOK
  <2>3. phase # "clone" /\ UNCHANGED files
    BY <2>1 DEF PlanStep, GroupPairs, Coalesce, PlanReady
  <2>4. pending' \subseteq DOMAIN plan'
    BY <1>1, <2>1 DEF Plan, PlanStep, GroupPairs, Coalesce, PlanReady
  <2>5. TasksOK'
    BY <2>1, <2>3 DEF Inv, TypeOK, TasksOK, Task
  <2>6. DiskOK(files, disk)' /\ PathsOK'
    BY <2>1, <2>3 DEF Inv, TypeOK, PathsOK
  <2>7. (DOMAIN NoStats)' = DOMAIN NoStats
    BY DEF NoStats
  <2> QED
    BY <2>1, <2>2, <2>4, <2>5, <2>6, <2>7 DEF Inv, TypeOK
<1>2. ASSUME TypeOK', UNCHANGED planVars PROVE Inv'
  <2>1. Accounted' /\ PlanComplete'
    BY <1>2, PlanStepAccounted, PlanStepComplete DEF Inv, TypeOK
  <2> QED
    BY <1>2, <2>1 DEF Inv
<1>3. ASSUME NEW w \in Workers, WorkerStep(w) PROVE Inv'
  <2>1. TypeOK'
    BY <1>3, TakePairTyped, TakeSpecialTyped, StartRunTyped, ReadDstTyped, CloneRangeTyped, IoFaultTyped
    DEF WorkerStep
  <2>2. UNCHANGED planVars
    BY <1>3 DEF WorkerStep, TakePair, TakeSpecial, StartRun, ReadDst, CloneRange, IoFault
  <2> QED
    BY <1>2, <2>1, <2>2
<1>4. ASSUME Finish PROVE Inv'
  <2>1. /\ UNCHANGED <<files, cache, pairs, plan, opts, disk, path, userOps, pending,
                        task, stats, faults>>
        /\ phase = "clone" /\ phase' = "done" /\ \A w \in Workers : task[w].pc = "idle"
    BY <1>4 DEF Finish, userVars, toolVars
  <2>2. PlanTypeOK' /\ PlanComplete'
    BY <2>1 DEF Inv, TypeOK, PlanTypeOK, PlanComplete
  <2>3. Accounted'
    <3>1. AllPairs' = AllPairs /\ AllRunIds' = AllRunIds
      BY <2>1 DEF AllPairs, AllRunIds
    <3>2. \A id \in AllRunIds : Covered(id)' = Covered(id)
      BY <2>1 DEF Covered, RunAt
    <3> QED
      BY <2>1, <3>1, <3>2 DEF Inv, Accounted
  <2>4. TasksOK' /\ PathsOK' /\ DiskOK(files, disk)'
    BY <2>1 DEF Inv, TypeOK, TasksOK, Task, PathsOK
  <2>5. (DOMAIN NoStats)' = DOMAIN NoStats
    BY DEF NoStats
  <2> QED
    BY <2>1, <2>2, <2>3, <2>4, <2>5 DEF Inv, TypeOK
<1>5. ASSUME UserStep PROVE Inv'
  <2>1. UNCHANGED planVars
    BY <1>5 DEF UserStep, Overwrite, AppendByte, Shrink, Relink, Trouble, UserActs
  <2> QED
    BY <1>2, <1>5, <2>1, UserStepTyped
<1>6. ASSUME UNCHANGED vars PROVE Inv'
  <2>1. UNCHANGED <<planVars, opts, disk, path, userOps, pending, task, stats, faults>>
    BY <1>6 DEF vars, userVars, toolVars
  <2>2. DiskOK(files, disk') /\ TasksOK'
    BY <2>1 DEF Inv, TypeOK, TasksOK, Task, planVars
  <2>3. TypeOK'
    BY <2>1, <2>2, TaskStepTyped DEF Inv, TypeOK
  <2> QED
    BY <1>2, <2>1, <2>3
<1> QED
  BY <1>1, <1>3, <1>4, <1>5, <1>6 DEF Next, Returned

\* The code never comes back to what it has hashed, nor to its options.
LEMMA InputsStay == ASSUME [Next]_vars PROVE UNCHANGED <<files, cache, opts>>
<1>1. ASSUME NEW w \in Workers, WorkerStep(w) PROVE UNCHANGED <<files, cache, opts>>
  BY <1>1 DEF WorkerStep, TakePair, TakeSpecial, StartRun, ReadDst, CloneRange, IoFault, planVars
<1>2. UserStep => UNCHANGED <<files, cache, opts>>
  BY DEF UserStep, Overwrite, AppendByte, Shrink, Relink, Trouble, UserActs, planVars
<1>3. Plan \/ Finish \/ UNCHANGED vars => UNCHANGED <<files, cache, opts>>
  BY DEF Plan, PlanStep, GroupPairs, Coalesce, PlanReady, Finish, vars, planVars
<1> QED
  BY <1>1, <1>2, <1>3 DEF Next, Returned

LEMMA Invariant == Spec => []Inv
BY InitTyped, NextKeepsInv, PTL DEF Spec

\* TypeOK holds in every reachable state: whatever users and failures do, a task
\* inside a pair works on open files of the plan and on a run that exists, blocks
\* but the last of a file are full, and no task outlives the clone phase.
THEOREM Typed == Spec => []TypeOK
<1>1. Inv => TypeOK
  BY DEF Inv
<1> QED
  BY <1>1, Invariant, PTL

\* The plan stays what RunPlannerProofs has shown of it while tasks and users are
\* at work: it covers the duplicates exactly, no chunk is written twice, and none
\* is both written and read.
THEOREM PlanStaysExact ==
    Spec => [](PlanIsExact /\ DestinationsDisjoint /\ SourcesNeverWritten)
<1>1. Inv => PlanIsExact /\ DestinationsDisjoint /\ SourcesNeverWritten
  BY RolesOfRuns DEF Inv, TypeOK, Accounted, PlanIsExact
<1> QED
  BY <1>1, Invariant, PTL

-----------------------------------------------------------------------------
(* DedupWorkers implements OfflineDedup.                                   *)

\* Without the compare-then-clone fallback no task ever gets to FICLONERANGE.
NoFallback ==
    /\ opts.dry_run \/ opts.fideduperange
    /\ \A w \in Workers :
          /\ task[w].pc # "clone"
          /\ task[w].pc = "read_dst" => opts.dry_run

LEMMA TaskBecomes ==
    ASSUME TasksOK, NEW w \in Workers, NEW t, task' = [task EXCEPT ![w] = t],
           NoFallback, UNCHANGED opts,
           t.pc # "clone", t.pc = "read_dst" => opts.dry_run
    PROVE  NoFallback'
BY DEF TasksOK, NoFallback

LEMMA NextRunNoFallback ==
    ASSUME TasksOK, NEW w \in Workers, NextRun(w), NoFallback, UNCHANGED opts
    PROVE  NoFallback'
<1> DEFINE next == [task[w] EXCEPT !.pc = "run", !.run = task[w].run + 1, !.buf = <<>>]
           cond == task[w].run < Len(plan[task[w].key])
<1>1. task' = [task EXCEPT ![w] = IF cond THEN next ELSE Idle]
  BY DEF NextRun
<1>2. next.pc = "run" /\ Idle.pc = "idle"
  BY DEF TasksOK, Task, Idle
<1> HIDE DEF next, cond
<1>3. (IF cond THEN next ELSE Idle).pc \in {"run", "idle"}
  BY <1>2
<1> QED
  BY <1>1, <1>3, TaskBecomes

LEMMA NextNoFallback ==
    ASSUME Inv, NoFallback, [Next]_vars
    PROVE  NoFallback'
<1>0. TasksOK
  BY DEF Inv, TypeOK
<1>1. ASSUME UNCHANGED <<opts, task>> PROVE NoFallback'
  BY <1>1 DEF NoFallback
<1>2. ASSUME Plan \/ Finish \/ UserStep \/ UNCHANGED vars PROVE NoFallback'
  <2> UNCHANGED <<opts, task>>
    BY <1>2 DEF Plan, Finish, UserStep, Overwrite, AppendByte, Shrink, Relink, Trouble, UserActs,
                toolVars, vars
  <2> QED
    BY <1>1
<1>3. ASSUME NEW w \in Workers, WorkerStep(w) PROVE NoFallback'
  <2>1. UNCHANGED opts
    BY <1>3 DEF WorkerStep, TakePair, TakeSpecial, StartRun, ReadDst, CloneRange, IoFault
  <2>2. ASSUME NEW k \in pending, TakePair(w, k) PROVE NoFallback'
    <3> DEFINE taken == [pc |-> "run", key |-> k, run |-> 1,
                         src |-> path[k[2]].ino, dst |-> path[k[3]].ino,
                         buf |-> <<>>, since |-> 0]
               next == IF Refusal(k) = "ok" THEN taken ELSE Idle
    <3>1. next.pc \in {"run", "idle"}
      BY DEF Idle
    <3>2. task' = [task EXCEPT ![w] = next]
      BY <2>2 DEF TakePair
    <3> HIDE DEF next
    <3> QED
      BY <1>0, <2>1, <3>1, <3>2, TaskBecomes
  <2>3. ASSUME StartRun(w), ~NextRun(w) PROVE NoFallback'
    <3>1. Compare
      BY <2>3 DEF StartRun, DedupeRange
    <3>2. opts.dry_run
      BY <3>1 DEF Compare, NoFallback
    <3>3. PICK r : ReadSrc(w, r)
      BY <2>3 DEF StartRun, DedupeRange
    <3> DEFINE next == [task[w] EXCEPT !.pc = "read_dst", !.since = userOps,
                                       !.buf = ValuesIn(r.src, r.sfirst, r.n)]
    <3>4. task' = [task EXCEPT ![w] = next]
      BY <2>3, <3>3 DEF ReadSrc
    <3>5. next.pc = "read_dst"
      BY <1>0 DEF TasksOK, Task
    <3> HIDE DEF next
    <3> QED
      BY <1>0, <2>1, <3>2, <3>4, <3>5, TaskBecomes
  <2>4. ASSUME ReadDst(w) PROVE NextRun(w)
    BY <2>4 DEF ReadDst, NoFallback
  <2>5. ASSUME CloneRange(w) \/ \E field : IoFault(w, field) PROVE NextRun(w)
    BY <2>5 DEF CloneRange, IoFault
  <2>6. ASSUME NextRun(w) PROVE NoFallback'
    BY <1>0, <2>1, <2>6, NextRunNoFallback
  <2>7. ASSUME NEW k \in pending, TakeSpecial(w, k) PROVE NoFallback'
    BY <2>7 DEF TakeSpecial, NoFallback
  <2> QED
    BY <1>3, <2>2, <2>3, <2>4, <2>5, <2>6, <2>7 DEF WorkerStep
<1> QED
  BY <1>2, <1>3 DEF Next, Returned

\* One step of the tool, seen by the users.
LEMMA TaskStepHidden ==
    ASSUME Inv, NoFallback, NEW w \in Workers, WorkerStep(w)
    PROVE  /\ View(disk') = View(disk)
           /\ BlocksInUse(disk') \subseteq BlocksInUse(disk)
           /\ userOps' = userOps
<1>1. userOps' = userOps
  BY DEF WorkerStep, TakePair, TakeSpecial, StartRun, ReadDst, CloneRange, IoFault, userVars
<1>2. CASE disk' = disk
  BY <1>1, <1>2
<1>3. CASE disk' # disk
  <2>1. StartRun(w)
    BY <1>3 DEF WorkerStep, TakePair, TakeSpecial, ReadDst, CloneRange, IoFault, userVars, NoFallback
  <2>2. PICK r : r = RunOf(w)
    OBVIOUS
  <2>3. DedupeRange(w, r) /\ task[w].pc = "run"
    BY <1>3, <2>1, <2>2 DEF StartRun, ReadSrc
  <2>4. r \in Request
    BY <2>2, <2>3, RunIsRequest DEF Inv
  <2>5. r.n \in 1 .. r.n
    BY <2>4 DEF Request
  <2>6. PICK m \in 1 .. r.n :
              /\ Clonable(r) /\ Reaches(r.dst, r.dfirst, r.n, r.tail) /\ KernelAgrees(r)
              /\ disk' = Shared(r, m)
    BY <1>3, <2>3, <2>5 DEF DedupeRange
  <2> QED
    BY <1>1, <2>4, <2>6, SharedIsTransparent DEF Inv, TypeOK
<1> QED
  BY <1>2, <1>3

\* One step of a user touches at most one file.
LEMMA UserStepTouchesOneFile ==
    ASSUME Inv, UserStep
    PROVE  /\ userOps' = userOps + 1
           /\ DOMAIN View(disk') = DOMAIN View(disk)
           /\ \E f \in DOMAIN View(disk) :
                 \A g \in DOMAIN View(disk) \ {f} : View(disk')[g] = View(disk)[g]
<1>1. userOps' = userOps + 1
  BY DEF UserStep, Overwrite, AppendByte, Shrink, Relink, Trouble, UserActs
<1>2. ASSUME NEW f \in DOMAIN disk, NEW d, \E blocks : d = [disk EXCEPT ![f] = blocks]
      PROVE  /\ DOMAIN View(d) = DOMAIN View(disk)
             /\ \A g \in DOMAIN View(disk) \ {f} : View(d)[g] = View(disk)[g]
  BY <1>2 DEF View, Contents
<1>3. ASSUME NEW i \in DOMAIN files PROVE path[i].ino \in DOMAIN disk
  BY DEF Inv, TypeOK, PathsOK
<1>4. CASE \E f \in DOMAIN disk : \E blocks : disk' = [disk EXCEPT ![f] = blocks]
  <2>1. PICK f \in DOMAIN disk : \E blocks : disk' = [disk EXCEPT ![f] = blocks]
    BY <1>4
  <2>2. f \in DOMAIN View(disk)
    BY DEF View
  <2> QED
    BY <1>1, <1>2, <2>1, <2>2
<1>5. CASE disk' = disk /\ \E i \in DOMAIN files : TRUE
  <2>1. \E f : f \in DOMAIN View(disk)
    BY <1>3, <1>5 DEF View
  <2> QED
    BY <1>1, <1>5, <2>1
<1> QED
  BY <1>4, <1>5 DEF UserStep, Overwrite, AppendByte, Shrink, Relink, Trouble, Rewritten

\* In a dry run, and with FIDEDUPERANGE, zfs-dedup keeps the promise of
\* OfflineDedup: whatever the interleaving of any number of tasks and users, and
\* wherever the kernel stops short, no step of the tool changes the content of a
\* file, and blocks are only given back.
THEOREM ImplementsOfflineDedup ==
    (\A m \in Modes : m.dry_run \/ m.fideduperange) => (Spec => RefinesOfflineDedup)
<1> SUFFICES ASSUME \A m \in Modes : m.dry_run \/ m.fideduperange
             PROVE  Spec => RefinesOfflineDedup
  OBVIOUS
<1>1. Init => Inv /\ NoFallback /\ Offline!Init
  <2> SUFFICES ASSUME Init PROVE NoFallback /\ Offline!Init
    BY InitTyped
  <2> QED
    BY DEF Init, NoFallback, Idle, Offline!Init
<1>2. Inv /\ NoFallback /\ [Next]_vars => (Inv /\ NoFallback)'
  BY NextKeepsInv, NextNoFallback
<1>3. ASSUME Inv, NoFallback, [Next]_vars
      PROVE  [Offline!Next]_(Offline!absVars)
  <2>1. CASE UNCHANGED <<disk, userOps>>
    BY <2>1 DEF Offline!absVars
  <2>2. ASSUME NEW w \in Workers, WorkerStep(w) PROVE Offline!Next
    BY <1>3, <2>2, TaskStepHidden DEF Offline!Next, Offline!Reclaim
  <2>3. ASSUME UserStep PROVE Offline!Next
    BY <1>3, <2>3, UserStepTouchesOneFile DEF Offline!Next, Offline!UserWrite
  <2>4. Plan \/ Finish \/ UNCHANGED vars => UNCHANGED <<disk, userOps>>
    BY DEF Plan, Finish, vars, userVars
  <2> QED
    BY <1>3, <2>1, <2>2, <2>3, <2>4 DEF Next, Returned
<1> QED
  BY <1>1, <1>2, <1>3, PTL DEF Spec, RefinesOfflineDedup, Offline!Spec

-----------------------------------------------------------------------------
(* While nobody writes, no task changes what a reader sees.                *)

LEMMA SameView ==
    ASSUME NEW d, NEW e, View(d) = View(e)
    PROVE  /\ DOMAIN d = DOMAIN e
           /\ \A f \in DOMAIN e :
                 /\ DOMAIN d[f] = DOMAIN e[f]
                 /\ \A c \in DOMAIN e[f] : d[f][c].val = e[f][c].val /\ d[f][c].len = e[f][c].len
<1>1. DOMAIN d = DOMAIN e
  BY DEF View
<1>2. ASSUME NEW f \in DOMAIN e PROVE Contents(d, f) = Contents(e, f)
  BY <1>1 DEF View
<1>3. ASSUME NEW f \in DOMAIN e PROVE DOMAIN d[f] = DOMAIN e[f]
  BY <1>2 DEF Contents
<1>4. ASSUME NEW f \in DOMAIN e, NEW c \in DOMAIN e[f]
      PROVE  d[f][c].val = e[f][c].val /\ d[f][c].len = e[f][c].len
  <2>1. Contents(d, f)[c] = Contents(e, f)[c]
    BY <1>2
  <2>2. /\ Contents(d, f)[c].val = d[f][c].val /\ Contents(d, f)[c].len = d[f][c].len
        /\ Contents(e, f)[c].val = e[f][c].val /\ Contents(e, f)[c].len = e[f][c].len
    BY <1>3 DEF Contents
  <2> QED
    BY <2>1, <2>2
<1> QED
  BY <1>1, <1>3, <1>4

\* Where contents stay, ranges stay readable and read the same.
LEMMA SameRanges ==
    ASSUME PlanTypeOK, DiskOK(files, disk), DiskOK(files, disk'), View(disk') = View(disk),
           NEW f \in DOMAIN disk, NEW first \in Nat, NEW n \in Nat \ {0}, NEW tail \in Int,
           Reaches(f, first, n, tail)
    PROVE  /\ Reaches(f, first, n, tail)'
           /\ ValuesIn(f, first, n)' = ValuesIn(f, first, n)
<1>1. /\ f \in DOMAIN disk' /\ DOMAIN disk'[f] = DOMAIN disk[f]
      /\ \A c \in DOMAIN disk[f] :
            disk'[f][c].val = disk[f][c].val /\ disk'[f][c].len = disk[f][c].len
  BY SameView
<1>2. disk[f] \in Seq(Block)
  BY RecSizeType
<1>3. DOMAIN disk[f] = 1 .. Len(disk[f]) /\ Len(disk[f]) \in Nat
  BY <1>2
<1>4. disk'[f] \in Seq(Block)
  BY <1>1 DEF DiskOK
<1>5. Len(disk'[f]) = Len(disk[f])
  BY <1>1, <1>3, <1>4
<1>6. first + n <= Len(disk[f]) /\ tail <= disk[f][first + n].len
  BY DEF Reaches
<1>7. \A j \in 1 .. n : first + j \in DOMAIN disk[f]
  BY <1>3, <1>6
<1>8. Reaches(f, first, n, tail)'
  BY <1>1, <1>5, <1>6, <1>7 DEF Reaches
<1>9. ValuesIn(f, first, n)' = ValuesIn(f, first, n)
  BY <1>1, <1>7 DEF ValuesIn
<1> QED
  BY <1>8, <1>9

\* A task works on the two files that its pair names, and what it holds in its
\* buffer is what the files hold.
CalmTask(t, r) ==
    /\ t.src = files[t.key[2]].ino /\ t.dst = files[t.key[3]].ino
    /\ t.pc \in {"read_dst", "clone"} =>
          Reaches(r.src, r.sfirst, r.n, r.tail) /\ t.buf = ValuesIn(r.src, r.sfirst, r.n)
    /\ t.pc = "clone" =>
          Reaches(r.dst, r.dfirst, r.n, r.tail) /\ t.buf = ValuesIn(r.dst, r.dfirst, r.n)

Calm ==
    userOps = 0 =>
        /\ path = [i \in DOMAIN files |-> [ino |-> files[i].ino, state |-> "ok"]]
        /\ \A w \in Workers : task[w].pc # "idle" => CalmTask(task[w], RunOf(w))

\* Until a user acts every path opens.
LEMMA CalmPathsOpen ==
    ASSUME Inv, Calm, userOps = 0, NEW k \in pending
    PROVE  Refusal(k) = "ok" /\ \A w \in Workers : ~TakeSpecial(w, k)
<1>1. k[2] \in DOMAIN files /\ k[3] \in DOMAIN files
  BY DEF Inv, TypeOK, PlanComplete
<1>2. path[k[2]].state = "ok" /\ path[k[3]].state = "ok"
  BY <1>1 DEF Calm
<1>3. Refusal(k) = "ok"
  BY <1>2 DEF Refusal, Opens
<1> QED
  BY <1>3 DEF TakeSpecial

\* One task moves and the files keep their contents.
LEMMA TaskStaysCalm ==
    ASSUME Inv, Calm, userOps = 0, DiskOK(files, disk'), View(disk') = View(disk),
           UNCHANGED <<files, plan, path>>,
           NEW w \in Workers, NEW t, task' = [task EXCEPT ![w] = t],
           t.pc # "idle" => CalmTask(t, RunOf(w))'
    PROVE  Calm'
<1>1. \A v \in Workers : task'[v] = IF v = w THEN t ELSE task[v]
  BY DEF Inv, TypeOK, TasksOK
<1>2. ASSUME NEW v \in Workers, v # w, task[v].pc # "idle"
      PROVE  CalmTask(task[v], RunOf(v))'
  <2>1. CalmTask(task[v], RunOf(v)) /\ task'[v] = task[v]
    BY <1>1, <1>2 DEF Calm
  <2>2. PICK r : r = RunOf(v)
    OBVIOUS
  <2>3. RunOf(v)' = r
    BY <2>1, <2>2 DEF RunOf
  <2>4. r \in Request
    BY <1>2, <2>2, RunIsRequest DEF Inv
  <2>5. /\ r.src \in DOMAIN disk /\ r.dst \in DOMAIN disk /\ r.sfirst \in Nat
        /\ r.dfirst \in Nat /\ r.n \in Nat \ {0} /\ r.tail \in Int
    BY <2>4 DEF Request
  <2>6. PlanTypeOK /\ DiskOK(files, disk)
    BY DEF Inv, TypeOK
  <2>7. Reaches(r.src, r.sfirst, r.n, r.tail) =>
            /\ Reaches(r.src, r.sfirst, r.n, r.tail)'
            /\ ValuesIn(r.src, r.sfirst, r.n)' = ValuesIn(r.src, r.sfirst, r.n)
    BY <2>5, <2>6, SameRanges
  <2>8. Reaches(r.dst, r.dfirst, r.n, r.tail) =>
            /\ Reaches(r.dst, r.dfirst, r.n, r.tail)'
            /\ ValuesIn(r.dst, r.dfirst, r.n)' = ValuesIn(r.dst, r.dfirst, r.n)
    BY <2>5, <2>6, SameRanges
  <2>9. CalmTask(task[v], r)'
    BY <2>1, <2>2, <2>7, <2>8 DEF CalmTask
  <2> QED
    BY <2>3, <2>9
<1>3. ASSUME NEW v \in Workers, task'[v].pc # "idle"
      PROVE  CalmTask(task[v], RunOf(v))'
  <2>1. CASE v = w
    <3>1. CalmTask(t, RunOf(w))' /\ task'[w] = t
      BY <1>1, <1>3, <2>1
    <3> QED
      BY <2>1, <3>1 DEF CalmTask
  <2>2. CASE v # w
    BY <1>1, <1>2, <1>3, <2>2
  <2> QED
    BY <2>1, <2>2
<1>4. path' = [i \in DOMAIN files' |-> [ino |-> files'[i].ino, state |-> "ok"]]
  BY DEF Calm
<1> QED
  BY <1>3, <1>4 DEF Calm

LEMMA NextRunStaysCalm ==
    ASSUME Inv, Calm, userOps = 0, DiskOK(files, disk'), View(disk') = View(disk),
           UNCHANGED <<files, plan, path>>,
           NEW w \in Workers, task[w].pc # "idle", NextRun(w)
    PROVE  Calm'
<1> DEFINE next == [task[w] EXCEPT !.pc = "run", !.run = task[w].run + 1, !.buf = <<>>]
<1>1. PICK t : t = IF task[w].run < Len(plan[task[w].key]) THEN next ELSE Idle
  OBVIOUS
<1>2. task' = [task EXCEPT ![w] = t]
  BY <1>1 DEF NextRun
<1>3. task[w] \in Task
  BY DEF Inv, TypeOK, TasksOK
<1>4. /\ next.pc = "run" /\ next.key = task[w].key
      /\ next.src = task[w].src /\ next.dst = task[w].dst
  BY <1>3 DEF Task
<1>5. task[w].src = files[task[w].key[2]].ino /\ task[w].dst = files[task[w].key[3]].ino
  BY DEF Calm, CalmTask
<1> HIDE DEF next
<1>6. t.pc # "idle" => /\ t.pc = "run"
                       /\ t.src = files[t.key[2]].ino /\ t.dst = files[t.key[3]].ino
  BY <1>1, <1>4, <1>5 DEF Idle
<1>7. t.pc # "idle" => CalmTask(t, RunOf(w))'
  BY <1>6 DEF CalmTask
<1> QED
  BY <1>2, <1>7, TaskStaysCalm

\* FIDEDUPERANGE compares; FICLONERANGE does not, but the task has compared, and
\* nobody has written since.
LEMMA TaskStepTransparent ==
    ASSUME Inv, Calm, userOps = 0, NEW w \in Workers, WorkerStep(w)
    PROVE  View(disk') = View(disk)
<1>1. CASE disk' = disk
  BY <1>1
<1>2. CASE disk' # disk
  <2>1. PICK r : r = RunOf(w)
    OBVIOUS
  <2>2. (task[w].pc = "run" /\ DedupeRange(w, r)) \/ CloneRange(w)
    BY <1>2, <2>1 DEF WorkerStep, TakePair, TakeSpecial, StartRun, ReadSrc, ReadDst, IoFault, userVars
  <2>3. task[w].pc # "idle"
    BY <2>2 DEF CloneRange
  <2>4. r \in Request
    BY <2>1, <2>3, RunIsRequest DEF Inv
  <2>5. r.n \in 1 .. r.n
    BY <2>4 DEF Request
  <2>6. \E m \in 1 .. r.n :
            /\ Clonable(r) /\ Reaches(r.dst, r.dfirst, r.n, r.tail) /\ KernelAgrees(r)
            /\ disk' = Shared(r, m)
    <3>1. CASE DedupeRange(w, r)
      BY <1>2, <2>5, <3>1 DEF DedupeRange
    <3>2. CASE CloneRange(w)
      <4>1. Clonable(r) /\ disk' = Shared(r, r.n) /\ task[w].pc = "clone"
        BY <1>2, <2>1, <3>2 DEF CloneRange
      <4>2. CalmTask(task[w], r)
        BY <2>1, <2>3 DEF Calm
      <4>3. Reaches(r.dst, r.dfirst, r.n, r.tail) /\ KernelAgrees(r)
        BY <4>1, <4>2 DEF CalmTask, KernelAgrees
      <4> QED
        BY <2>5, <4>1, <4>3
    <3> QED
      BY <2>2, <3>1, <3>2
  <2> QED
    BY <2>4, <2>6, SharedIsTransparent DEF Inv, TypeOK
<1> QED
  BY <1>1, <1>2

LEMMA WorkerStaysCalm ==
    ASSUME Inv, Calm, userOps = 0, NEW w \in Workers, WorkerStep(w)
    PROVE  Calm'
<1>1. UNCHANGED <<files, cache, phase, pairs, plan, path, userOps>>
  BY DEF WorkerStep, TakePair, TakeSpecial, StartRun, ReadDst, CloneRange, IoFault, userVars, planVars
<1>2. DiskOK(files, disk')
  <2>1. Inv'
    BY NextKeepsInv DEF Next
  <2> QED
    BY <1>1, <2>1 DEF Inv, TypeOK
<1>3. View(disk') = View(disk)
  BY TaskStepTransparent
<1>4. ASSUME task[w].pc # "idle", NextRun(w) PROVE Calm'
  BY <1>1, <1>2, <1>3, <1>4, NextRunStaysCalm
<1>5. ASSUME NEW t, task' = [task EXCEPT ![w] = t],
             t.pc # "idle" => CalmTask(t, RunOf(w))'
      PROVE  Calm'
  BY <1>1, <1>2, <1>3, <1>5, TaskStaysCalm
<1>6. task[w] \in Task
  BY DEF Inv, TypeOK, TasksOK
<1>7. ASSUME NEW k \in pending, TakePair(w, k) PROVE Calm'
  <2> DEFINE taken == [pc |-> "run", key |-> k, run |-> 1,
                       src |-> path[k[2]].ino, dst |-> path[k[3]].ino,
                       buf |-> <<>>, since |-> 0]
  <2>1. PICK t : t = IF Refusal(k) = "ok" THEN taken ELSE Idle
    OBVIOUS
  <2>2. task' = [task EXCEPT ![w] = t]
    BY <1>7, <2>1 DEF TakePair
  <2>3. k[2] \in DOMAIN files /\ k[3] \in DOMAIN files
    BY DEF Inv, TypeOK, PlanComplete
  <2>4. path[k[2]].ino = files[k[2]].ino /\ path[k[3]].ino = files[k[3]].ino
    BY <2>3 DEF Calm
  <2>5. t.pc # "idle" => /\ t.pc = "run"
                         /\ t.src = files[t.key[2]].ino /\ t.dst = files[t.key[3]].ino
    BY <2>1, <2>4 DEF Idle
  <2>6. t.pc # "idle" => CalmTask(t, RunOf(w))'
    BY <1>1, <2>5 DEF CalmTask
  <2> QED
    BY <1>5, <2>2, <2>6
<1>8. ASSUME NEW t, disk' = disk, task' = [task EXCEPT ![w] = t],
             t.key = task[w].key, t.run = task[w].run, t.src = task[w].src, t.dst = task[w].dst,
             CalmTask(t, RunOf(w))
      PROVE  Calm'
  <2>1. PICK r : r = RunOf(w)
    OBVIOUS
  <2>2. task'[w] = t
    BY <1>8 DEF Inv, TypeOK, TasksOK
  <2>3. RunOf(w)' = r
    BY <1>1, <1>8, <2>1, <2>2 DEF RunOf
  <2>4. CalmTask(t, r)'
    BY <1>1, <1>8, <2>1 DEF CalmTask, Reaches, ValuesIn
  <2> QED
    BY <1>5, <1>8, <2>3, <2>4
<1>9. ASSUME StartRun(w) PROVE Calm'
  <2>1. PICK r : r = RunOf(w)
    OBVIOUS
  <2>2. CASE NextRun(w)
    BY <1>4, <1>9, <2>2 DEF StartRun
  <2>3. CASE ~NextRun(w)
    <3>1. ReadSrc(w, r) /\ task[w].pc = "run"
      BY <1>9, <2>1, <2>3 DEF StartRun, DedupeRange
    <3>2. PICK t : t = [task[w] EXCEPT !.pc = "read_dst", !.since = userOps,
                                       !.buf = ValuesIn(r.src, r.sfirst, r.n)]
      OBVIOUS
    <3>3. /\ task' = [task EXCEPT ![w] = t] /\ disk' = disk
          /\ Reaches(r.src, r.sfirst, r.n, r.tail)
      BY <2>3, <3>1, <3>2 DEF ReadSrc
    <3>4. /\ t.pc = "read_dst" /\ t.key = task[w].key /\ t.run = task[w].run
          /\ t.src = task[w].src /\ t.dst = task[w].dst
          /\ t.buf = ValuesIn(r.src, r.sfirst, r.n)
      BY <1>6, <3>2 DEF Task
    <3>5. CalmTask(task[w], RunOf(w))
      BY <3>1 DEF Calm
    <3>6. CalmTask(t, RunOf(w))
      BY <2>1, <3>3, <3>4, <3>5 DEF CalmTask
    <3> QED
      BY <1>8, <3>3, <3>4, <3>6
  <2> QED
    BY <2>2, <2>3
<1>10. ASSUME ReadDst(w) PROVE Calm'
  <2>1. PICK r : r = RunOf(w)
    OBVIOUS
  <2>2. CASE NextRun(w)
    BY <1>4, <1>10, <2>2 DEF ReadDst
  <2>3. CASE ~NextRun(w)
    <3>1. PICK t : t = [task[w] EXCEPT !.pc = "clone"]
      OBVIOUS
    <3>2. /\ task' = [task EXCEPT ![w] = t] /\ disk' = disk /\ task[w].pc = "read_dst"
          /\ Reaches(r.dst, r.dfirst, r.n, r.tail)
          /\ ValuesIn(r.dst, r.dfirst, r.n) = task[w].buf
      BY <1>10, <2>1, <2>3, <3>1 DEF ReadDst, BuffersAgree, userVars
    <3>3. /\ t.pc = "clone" /\ t.key = task[w].key /\ t.run = task[w].run
          /\ t.src = task[w].src /\ t.dst = task[w].dst /\ t.buf = task[w].buf
      BY <1>6, <3>1 DEF Task
    <3>4. CalmTask(task[w], RunOf(w))
      BY <3>2 DEF Calm
    <3>5. CalmTask(t, RunOf(w))
      BY <2>1, <3>2, <3>3, <3>4 DEF CalmTask
    <3> QED
      BY <1>8, <3>2, <3>3, <3>5
  <2> QED
    BY <2>2, <2>3
<1>11. ASSUME CloneRange(w) \/ \E field : IoFault(w, field) PROVE Calm'
  BY <1>4, <1>11 DEF CloneRange, IoFault
<1> QED
  BY <1>7, <1>9, <1>10, <1>11, CalmPathsOpen DEF WorkerStep

\* Only tasks inside the clone phase hold files, and a user step raises userOps.
LEMMA NextStaysCalm ==
    ASSUME Inv, Calm, [Next]_vars
    PROVE  /\ Calm'
           /\ userOps' = 0 => userOps = 0 /\ View(disk') = View(disk)
<1>1. userOps \in Nat
  BY BoundsAssumption DEF Inv, TypeOK
<1>2. ASSUME NEW w \in Workers, WorkerStep(w)
      PROVE  /\ Calm'
             /\ userOps' = 0 => userOps = 0 /\ View(disk') = View(disk)
  <2>1. userOps' = userOps
    BY <1>2 DEF WorkerStep, TakePair, TakeSpecial, StartRun, ReadDst, CloneRange, IoFault, userVars
  <2> QED
    BY <1>2, <2>1, TaskStepTransparent, WorkerStaysCalm DEF Calm
<1>3. ASSUME UserStep PROVE userOps' # 0
  BY <1>1, <1>3, UserStepTouchesOneFile
<1>4. ASSUME Plan \/ Finish
      PROVE  Calm' /\ disk' = disk /\ userOps' = userOps
  <2>1. UNCHANGED <<files, disk, path, userOps, task>>
    BY <1>4 DEF Plan, PlanStep, GroupPairs, Coalesce, PlanReady, Finish, userVars, toolVars
  <2>2. ASSUME NEW w \in Workers PROVE task[w].pc = "idle"
    BY <1>4 DEF Plan, PlanStep, GroupPairs, Coalesce, PlanReady, Finish, Inv, TypeOK, TasksOK
  <2> QED
    BY <2>1, <2>2 DEF Calm
<1>5. ASSUME UNCHANGED vars PROVE Calm' /\ disk' = disk /\ userOps' = userOps
  <2>1. UNCHANGED <<files, plan, disk, path, userOps, task>>
    BY <1>5 DEF vars, userVars, toolVars, planVars
  <2>2. ASSUME NEW w \in Workers PROVE RunOf(w)' = RunOf(w)
    BY <2>1 DEF RunOf
  <2>3. ASSUME NEW t, NEW r, CalmTask(t, r) PROVE CalmTask(t, r)'
    BY <2>1, <2>3 DEF CalmTask, Reaches, ValuesIn
  <2>4. ASSUME NEW w \in Workers, CalmTask(task[w], RunOf(w))
        PROVE  CalmTask(task[w], RunOf(w))'
    <3>1. PICK t, r : t = task[w] /\ r = RunOf(w)
      OBVIOUS
    <3>2. t = task'[w] /\ r = RunOf(w)'
      BY <2>1, <2>2, <3>1
    <3>3. CalmTask(t, r)'
      BY <2>3, <2>4, <3>1
    <3> QED
      BY <3>2, <3>3
  <2> QED
    BY <2>1, <2>4 DEF Calm
<1>6. userOps' # 0 => Calm'
  BY DEF Calm
<1> QED
  BY <1>2, <1>3, <1>4, <1>5, <1>6 DEF Next, Returned

-----------------------------------------------------------------------------
(* Duplicates collapse.                                                    *)

\* All names of an inode report one record size.
OneRecordSize(fl) ==
    \A i, j \in DOMAIN fl : fl[i].ino = fl[j].ino => fl[i].blksz = fl[j].blksz

LEMMA RecSizeOfName ==
    ASSUME OneRecordSize(files), NEW i \in DOMAIN files
    PROVE  RecSize(files[i].ino) = files[i].blksz
BY DEF OneRecordSize, RecSize, RecSizeIn

\* Whether the snapshot is honest is seen by looking at the contents.
LEMMA SizesAreInTheView ==
    ASSUME Inv, UNCHANGED <<files, cache>>, View(disk') = View(disk), SizesHold'
    PROVE  /\ SizesHold /\ IndexedLocs' = IndexedLocs
           /\ \A l \in IndexedLocs : ContentAt(l)' = ContentAt(l)
<1>1. IndexedLocs' = IndexedLocs
  BY DEF IndexedLocs
<1>2. ASSUME NEW l \in IndexedLocs PROVE files[l.file].ino \in DOMAIN disk
  <2>1. l.file \in DOMAIN files
    BY ChunkLocations DEF IndexedLocs, Inv, TypeOK, PlanTypeOK
  <2> QED
    BY <2>1 DEF Inv, TypeOK, DiskOK
<1>3. ASSUME NEW l \in IndexedLocs
      PROVE  /\ l.chunk + 1 \in DOMAIN disk[files[l.file].ino]
             /\ BlockAt(l)'.val = BlockAt(l).val /\ BlockAt(l)'.len = BlockAt(l).len
  <2>1. l.chunk + 1 \in DOMAIN disk'[files[l.file].ino]
    BY <1>1 DEF SizesHold
  <2> QED
    BY <1>2, <2>1, SameView DEF BlockAt
<1>4. ASSUME NEW l \in IndexedLocs PROVE ContentAt(l)' = ContentAt(l)
  BY <1>3 DEF ContentAt
<1>5. ASSUME NEW l \in IndexedLocs
      PROVE  chunk_len(files[l.file], l.chunk, files[l.file].blksz) = BlockAt(l).len
  <2>1. (chunk_len(files[l.file], l.chunk, files[l.file].blksz))' = BlockAt(l)'.len
    BY <1>1 DEF SizesHold
  <2> QED
    BY <1>3, <2>1 DEF chunk_len
<1> QED
  BY <1>1, <1>3, <1>4, <1>5 DEF SizesHold

LEMMA HonestyIsInTheView ==
    ASSUME Inv, UNCHANGED <<files, cache>>, View(disk') = View(disk), HonestSnapshot'
    PROVE  HonestSnapshot
<1>1. /\ SizesHold /\ IndexedLocs' = IndexedLocs
      /\ \A l \in IndexedLocs : ContentAt(l)' = ContentAt(l)
  BY SizesAreInTheView DEF HonestSnapshot
<1>2. ASSUME NEW l \in IndexedLocs, NEW m \in IndexedLocs
      PROVE  KeyAt(files, cache, l) = KeyAt(files, cache, m) <=> ContentAt(l) = ContentAt(m)
  <2>1. KeyAt(files', cache', l) = KeyAt(files', cache', m) <=> ContentAt(l)' = ContentAt(m)'
    BY <1>1 DEF HonestSnapshot
  <2> QED
    BY <1>1, <2>1
<1> QED
  BY <1>1, <1>2 DEF HonestSnapshot

\* The two chunks of a pair have one key, and with it one record size.
LEMMA PairIsIndexed ==
    ASSUME Inv, NEW p \in AllPairs
    PROVE  /\ {p.src, p.dst} \subseteq IndexedLocs
           /\ KeyAt(files, cache, p.src) = KeyAt(files, cache, p.dst)
           /\ p.blksz = files[p.src.file].blksz /\ p.blksz = files[p.dst.file].blksz
<1>1. GoodSnapshot(files, cache) /\ p \in PairsOf(files, cache)
  BY DEF Inv, TypeOK, PlanTypeOK, AllPairs, PairsOf
<1>2. PICK k \in DOMAIN build_index(files, cache) :
          LET group == build_index(files, cache)[k]
          IN  /\ p = [blksz |-> k[1], src |-> First(group), dst |-> p.dst]
              /\ p.src \in group /\ p.dst \in group
  BY <1>1, GroupOfPair
<1>3. /\ {p.src, p.dst} \subseteq IndexedLocs
      /\ KeyAt(files, cache, p.src) = k /\ KeyAt(files, cache, p.dst) = k
  BY <1>1, <1>2, GroupsOfTheIndex DEF IndexedLocs
<1>4. p.blksz = k[1]
  BY <1>2
<1>5. p.blksz = files[p.src.file].blksz /\ p.blksz = files[p.dst.file].blksz
  BY <1>3, <1>4 DEF KeyAt
<1> QED
  BY <1>3, <1>5

\* Where the snapshot is honest, both hold the same bytes.
LEMMA HonestPair ==
    ASSUME Inv, HonestSnapshot, NEW p \in AllPairs
    PROVE  /\ {p.src, p.dst} \subseteq IndexedLocs
           /\ BlockAt(p.src).val = BlockAt(p.dst).val
           /\ BlockAt(p.src).len = BlockAt(p.dst).len
           /\ LenOf(files, p.src, p.blksz) = BlockAt(p.src).len
<1>1. /\ {p.src, p.dst} \subseteq IndexedLocs
      /\ KeyAt(files, cache, p.src) = KeyAt(files, cache, p.dst)
      /\ p.blksz = files[p.src.file].blksz
  BY PairIsIndexed
<1>2. ContentAt(p.src) = ContentAt(p.dst)
  BY <1>1 DEF HonestSnapshot
<1>3. LenOf(files, p.src, p.blksz) = BlockAt(p.src).len
  BY <1>1 DEF HonestSnapshot, SizesHold, LenOf
<1>4. BlockAt(p.src).val = BlockAt(p.dst).val /\ BlockAt(p.src).len = BlockAt(p.dst).len
  BY <1>2 DEF ContentAt
<1> QED
  BY <1>1, <1>3, <1>4

\* Two locations on one chunk of one inode are in one group.
LEMMA OneSourcePerBlock ==
    ASSUME Inv, OneRecordSize(files), NEW p \in AllPairs, NEW q \in AllPairs,
           NEW l \in {p.src, p.dst},
           files[l.file].ino = files[q.dst.file].ino, l.chunk = q.dst.chunk
    PROVE  p.src = q.src
<1> DEFINE idx == build_index(files, cache)
<1>1. /\ GoodSnapshot(files, cache)
      /\ p \in PairsOf(files, cache) /\ q \in PairsOf(files, cache)
  BY DEF Inv, TypeOK, PlanTypeOK, AllPairs, PairsOf
<1>2. PICK j \in DOMAIN idx :
          /\ p = [blksz |-> j[1], src |-> First(idx[j]), dst |-> p.dst]
          /\ p.src \in idx[j] /\ p.dst \in idx[j]
  BY <1>1, GroupOfPair
<1>3. PICK k \in DOMAIN idx :
          /\ q = [blksz |-> k[1], src |-> First(idx[k]), dst |-> q.dst]
          /\ q.src \in idx[k] /\ q.dst \in idx[k]
  BY <1>1, GroupOfPair
<1>4. l \in idx[j]
  BY <1>2
<1>5. /\ KeyAt(files, cache, l) = j /\ KeyAt(files, cache, q.dst) = k
      /\ l \in each_chunk(files, cache) /\ q.dst \in each_chunk(files, cache)
  BY <1>1, <1>3, <1>4, GroupsOfTheIndex
<1>6. l.file \in DOMAIN files /\ q.dst.file \in DOMAIN files
  BY <1>1, <1>5, ChunkLocations
<1>7. files[l.file].blksz = files[q.dst.file].blksz
  BY <1>6 DEF OneRecordSize
<1>8. KeyAt(files, cache, l) = KeyAt(files, cache, q.dst)
  BY <1>7 DEF KeyAt, Hashes
<1>9. p.src = First(idx[j]) /\ q.src = First(idx[k])
  BY <1>2, <1>3
<1> QED
  BY <1>5, <1>8, <1>9

\* Pair j of the chunk pairs that a run stands for.
PairIn(id, j) ==
    [blksz |-> id[1][1],
     src |-> [file |-> id[1][2], chunk |-> RunAt(id).src.chunk + j],
     dst |-> [file |-> id[1][3], chunk |-> RunAt(id).dst.chunk + j]]

LEMMA PairsInRun ==
    ASSUME Inv, NEW id \in AllRunIds
    PROVE  /\ id[1] \in Key /\ RunAt(id) \in Run
           /\ Covered(id) = { PairIn(id, j) : j \in 0 .. RunAt(id).chunks - 1 }
           /\ Covered(id) \subseteq AllPairs
<1>1. PICK k \in DOMAIN plan : \E i \in DOMAIN plan[k] : id = <<k, i>>
  BY RunIds
<1>2. PICK i \in DOMAIN plan[k] : id = <<k, i>>
  BY <1>1
<1>3. id[1] \in Key /\ RunAt(id) \in Run
  BY <1>2 DEF RunAt, Inv, TypeOK, PlanTypeOK
<1>4. Covered(id) = { PairIn(id, j) : j \in 0 .. RunAt(id).chunks - 1 }
  BY DEF Covered, PairIn
<1>5. Covered(id) \subseteq AllPairs
  BY DEF Inv, Accounted
<1> QED
  BY <1>3, <1>4, <1>5

\* A task that is in a pair of its snapshot's files has the run `id` in hand, as the
\* request r.
HasInHand(w, id, r) ==
    /\ task[w].pc # "idle"
    /\ task[w].src = files[task[w].key[2]].ino /\ task[w].dst = files[task[w].key[3]].ino
    /\ id = <<task[w].key, task[w].run>>
    /\ r = RunOf(w)

LEMMA RunInHand ==
    ASSUME Inv, NEW w \in Workers, NEW id, NEW r, HasInHand(w, id, r)
    PROVE  /\ id \in AllRunIds /\ r \in Request
           /\ r.src = files[id[1][2]].ino /\ r.dst = files[id[1][3]].ino
           /\ r.blksz = id[1][1] /\ r.n = RunAt(id).chunks
           /\ r.sfirst = RunAt(id).src.chunk /\ r.dfirst = RunAt(id).dst.chunk
           /\ r.len = run_len(files[id[1][2]], r.sfirst, r.n, r.blksz)
           /\ r.dlen = run_len(files[id[1][3]], r.dfirst, r.n, r.blksz)
           /\ r.tail = r.len - (r.n - 1) * r.blksz
<1>1. task[w].key \in DOMAIN plan /\ task[w].run \in DOMAIN plan[task[w].key]
  BY DEF HasInHand, Inv, TypeOK, TasksOK
<1>2. id \in AllRunIds
  BY <1>1, RunIds DEF HasInHand
<1>3. r \in Request
  BY RunIsRequest DEF HasInHand, Inv
<1>4. id[1] = task[w].key /\ RunAt(id) = plan[task[w].key][task[w].run]
  BY DEF HasInHand, RunAt
<1> QED
  BY <1>2, <1>3, <1>4 DEF HasInHand, RunOf

\* Chunk j of a request in hand is a chunk pair of the index.
LEMMA PairInHand ==
    ASSUME Inv, NEW w \in Workers, NEW id, NEW r, HasInHand(w, id, r), NEW j \in 1 .. r.n
    PROVE  LET p == PairIn(id, j - 1) IN
           /\ p \in AllPairs /\ p \in Covered(id)
           /\ p.blksz = r.blksz
           /\ p.src.file = id[1][2] /\ p.src.chunk + 1 = r.sfirst + j
           /\ p.dst.file = id[1][3] /\ p.dst.chunk + 1 = r.dfirst + j
           /\ p.src.chunk \in Nat /\ p.dst.chunk \in Nat
           /\ files[p.src.file].ino = r.src /\ files[p.dst.file].ino = r.dst
<1> DEFINE p == PairIn(id, j - 1)
<1>1. /\ id \in AllRunIds /\ r \in Request
      /\ r.src = files[id[1][2]].ino /\ r.dst = files[id[1][3]].ino
      /\ r.blksz = id[1][1] /\ r.n = RunAt(id).chunks
      /\ r.sfirst = RunAt(id).src.chunk /\ r.dfirst = RunAt(id).dst.chunk
  BY RunInHand
<1>2. r.n \in Nat /\ r.sfirst \in Nat /\ r.dfirst \in Nat
  BY <1>1 DEF Request
<1>3. j - 1 \in 0 .. RunAt(id).chunks - 1
  BY <1>1, <1>2
<1>4. p \in Covered(id) /\ p \in AllPairs
  BY <1>1, <1>3, PairsInRun
<1>5. /\ p.blksz = r.blksz
      /\ p.src.file = id[1][2] /\ p.src.chunk + 1 = r.sfirst + j /\ p.src.chunk \in Nat
      /\ p.dst.file = id[1][3] /\ p.dst.chunk + 1 = r.dfirst + j /\ p.dst.chunk \in Nat
  BY <1>1, <1>2 DEF PairIn
<1> HIDE DEF p
<1> QED
  BY <1>1, <1>4, <1>5 DEF p

\* The blocks of a request in hand are those of the chunk pairs it stands for.
LEMMA BlocksInHand ==
    ASSUME Inv, SizesHold,
           NEW w \in Workers, NEW id, NEW r, HasInHand(w, id, r), NEW j \in 1 .. r.n
    PROVE  LET p == PairIn(id, j - 1) IN
           /\ p \in AllPairs /\ p \in Covered(id)
           /\ r.sfirst + j \in DOMAIN disk[r.src] /\ r.dfirst + j \in DOMAIN disk[r.dst]
           /\ disk[r.src][r.sfirst + j] = BlockAt(p.src)
           /\ disk[r.dst][r.dfirst + j] = BlockAt(p.dst)
<1> DEFINE p == PairIn(id, j - 1)
<1>1. /\ p \in AllPairs /\ p \in Covered(id)
      /\ p.src.chunk + 1 = r.sfirst + j /\ p.dst.chunk + 1 = r.dfirst + j
      /\ files[p.src.file].ino = r.src /\ files[p.dst.file].ino = r.dst
  BY PairInHand
<1> HIDE DEF p
<1>2. p.src \in IndexedLocs /\ p.dst \in IndexedLocs
  BY <1>1, PairIsIndexed
<1>3. /\ p.src.chunk + 1 \in DOMAIN disk[files[p.src.file].ino]
      /\ p.dst.chunk + 1 \in DOMAIN disk[files[p.dst.file].ino]
  BY <1>2 DEF SizesHold
<1>4. r.sfirst + j \in DOMAIN disk[r.src] /\ r.dfirst + j \in DOMAIN disk[r.dst]
  BY <1>1, <1>3
<1>5. BlockAt(p.src) = disk[r.src][r.sfirst + j] /\ BlockAt(p.dst) = disk[r.dst][r.dfirst + j]
  BY <1>1 DEF BlockAt
<1> QED
  BY <1>1, <1>4, <1>5 DEF p

\* A request in hand is not empty, both sides of it are equally long, and its tail
\* is what the index knows of its last chunk.
LEMMA TailInHand ==
    ASSUME Inv, NEW w \in Workers, NEW id, NEW r, HasInHand(w, id, r)
    PROVE  /\ r.len # 0 /\ r.len = r.dlen
           /\ r.tail = LenOf(files, PairIn(id, r.n - 1).src, r.blksz)
           /\ r.tail = LenOf(files, PairIn(id, r.n - 1).dst, r.blksz)
           /\ r.tail \in Nat \ {0}
<1> DEFINE last == PairIn(id, r.n - 1)
<1>1. /\ r \in Request /\ r.blksz = id[1][1]
      /\ r.len = run_len(files[id[1][2]], r.sfirst, r.n, r.blksz)
      /\ r.dlen = run_len(files[id[1][3]], r.dfirst, r.n, r.blksz)
      /\ r.tail = r.len - (r.n - 1) * r.blksz
  BY RunInHand
<1>2. r.n \in Nat \ {0} /\ r.sfirst \in Nat /\ r.dfirst \in Nat /\ r.blksz \in Nat \ {0}
  BY <1>1 DEF Request
<1>3. /\ last \in AllPairs /\ last.blksz = r.blksz
      /\ last.src.file = id[1][2] /\ last.src.chunk + 1 = r.sfirst + r.n
      /\ last.dst.file = id[1][3] /\ last.dst.chunk + 1 = r.dfirst + r.n
      /\ last.src.chunk \in Nat /\ last.dst.chunk \in Nat
  BY <1>2, PairInHand
<1> HIDE DEF last
<1>4. last.src.chunk = r.sfirst + (r.n - 1) /\ last.dst.chunk = r.dfirst + (r.n - 1)
  BY <1>2, <1>3
<1>5. /\ LenOf(files, last.src, r.blksz) # 0
      /\ LenOf(files, last.dst, r.blksz) = LenOf(files, last.src, r.blksz)
      /\ id[1][2] \in DOMAIN files /\ id[1][3] \in DOMAIN files
  BY <1>3, PairLengths DEF Inv, TypeOK
<1> DEFINE full == (r.n - 1) * r.blksz
           short == LenOf(files, last.src, r.blksz)
<1>6. /\ files[id[1][2]].size \in Nat /\ files[id[1][3]].size \in Nat
      /\ chunk_len(files[id[1][2]], r.sfirst + (r.n - 1), r.blksz) # 0
      /\ chunk_len(files[id[1][3]], r.dfirst + (r.n - 1), r.blksz)
            = chunk_len(files[id[1][2]], r.sfirst + (r.n - 1), r.blksz)
      /\ chunk_len(files[id[1][2]], r.sfirst + (r.n - 1), r.blksz) = short
  BY <1>3, <1>4, <1>5 DEF LenOf, Inv, TypeOK, PlanTypeOK, GoodSnapshot
<1>7. r.len = full + short /\ r.dlen = full + short /\ short \in Nat \ {0}
  <2>1. ASSUME NEW h, h.size \in Nat, NEW first \in Nat,
               chunk_len(h, first + (r.n - 1), r.blksz) # 0
        PROVE  /\ chunk_len(h, first + (r.n - 1), r.blksz) \in Nat \ {0}
               /\ run_len(h, first, r.n, r.blksz)
                     = full + chunk_len(h, first + (r.n - 1), r.blksz)
    BY <1>2, <2>1, RunLength
  <2> HIDE DEF full
  <2>2. chunk_len(files[id[1][3]], r.dfirst + (r.n - 1), r.blksz) # 0
    BY <1>6
  <2>3. run_len(files[id[1][2]], r.sfirst, r.n, r.blksz)
          = full + chunk_len(files[id[1][2]], r.sfirst + (r.n - 1), r.blksz)
    BY <1>2, <1>6, <2>1
  <2>4. run_len(files[id[1][3]], r.dfirst, r.n, r.blksz)
          = full + chunk_len(files[id[1][3]], r.dfirst + (r.n - 1), r.blksz)
    BY <1>2, <1>6, <2>1, <2>2
  <2>5. short \in Nat \ {0}
    BY <1>2, <1>6, <2>1
  <2> QED
    BY <1>1, <1>6, <2>3, <2>4, <2>5
<1>8. full \in Nat
  BY <1>2
<1>9. r.tail = r.len - full
  BY <1>1
<1> HIDE DEF full, short
<1>10. r.len # 0 /\ r.len = r.dlen /\ r.tail = short
  BY <1>7, <1>8, <1>9
<1> QED
  BY <1>5, <1>7, <1>10 DEF short, last

\* Where the sizes hold no read of a run in hand is short.
LEMMA RangesReach ==
    ASSUME Inv, SizesHold,
           NEW w \in Workers, NEW id, NEW r, HasInHand(w, id, r)
    PROVE  /\ r.len # 0 /\ r.len = r.dlen
           /\ r.tail \in Nat \ {0}
           /\ disk[r.src][r.sfirst + r.n].len = r.tail /\ r.sfirst + r.n \in DOMAIN disk[r.src]
           /\ disk[r.dst][r.dfirst + r.n].len = r.tail /\ r.dfirst + r.n \in DOMAIN disk[r.dst]
           /\ Reaches(r.src, r.sfirst, r.n, r.tail) /\ Reaches(r.dst, r.dfirst, r.n, r.tail)
<1> DEFINE last == PairIn(id, r.n - 1)
<1>1. /\ r \in Request
      /\ r.src = files[id[1][2]].ino /\ r.dst = files[id[1][3]].ino
      /\ r.sfirst = RunAt(id).src.chunk /\ r.dfirst = RunAt(id).dst.chunk
  BY RunInHand
<1>2. /\ r.n \in Nat \ {0} /\ r.sfirst \in Nat /\ r.dfirst \in Nat /\ r.blksz \in Nat \ {0}
      /\ r.src \in DOMAIN disk /\ r.dst \in DOMAIN disk
  BY <1>1 DEF Request
<1>3. /\ last \in AllPairs
      /\ r.sfirst + r.n \in DOMAIN disk[r.src] /\ r.dfirst + r.n \in DOMAIN disk[r.dst]
      /\ disk[r.src][r.sfirst + r.n] = BlockAt(last.src)
      /\ disk[r.dst][r.dfirst + r.n] = BlockAt(last.dst)
  BY <1>2, BlocksInHand
<1>4. /\ last.blksz = r.blksz /\ last.src.file = id[1][2] /\ last.dst.file = id[1][3]
      /\ r.len # 0 /\ r.len = r.dlen
      /\ r.tail = LenOf(files, last.src, r.blksz) /\ r.tail \in Nat \ {0}
  BY <1>2, PairInHand, TailInHand
<1> HIDE DEF last
<1>5. r.tail = BlockAt(last.src).len /\ r.tail = BlockAt(last.dst).len
  <2>1. r.tail = LenOf(files, last.dst, r.blksz)
    BY TailInHand DEF last
  <2>2. /\ last.src \in IndexedLocs /\ last.dst \in IndexedLocs
        /\ r.blksz = files[last.src.file].blksz /\ r.blksz = files[last.dst.file].blksz
    BY <1>3, <1>4, PairIsIndexed
  <2> QED
    BY <1>4, <2>1, <2>2 DEF SizesHold, LenOf
<1>6. disk[r.src][r.sfirst + r.n].len = r.tail /\ disk[r.dst][r.dfirst + r.n].len = r.tail
  BY <1>3, <1>5
<1>7. disk[r.src] \in Seq(Block) /\ disk[r.dst] \in Seq(Block)
  BY <1>2, RecSizeType DEF Inv, TypeOK
<1>8. r.sfirst + r.n <= Len(disk[r.src]) /\ r.dfirst + r.n <= Len(disk[r.dst])
  BY <1>3, <1>7
<1>9. Reaches(r.src, r.sfirst, r.n, r.tail) /\ Reaches(r.dst, r.dfirst, r.n, r.tail)
  BY <1>4, <1>6, <1>8 DEF Reaches
<1> QED
  BY <1>3, <1>4, <1>6, <1>9

\* Where the snapshot is honest the kernel and memcmp find what the hashes say.
LEMMA HonestRanges ==
    ASSUME Inv, HonestSnapshot,
           NEW w \in Workers, NEW id, NEW r, HasInHand(w, id, r)
    PROVE  /\ r.len # 0 /\ r.len = r.dlen
           /\ r.tail \in Nat \ {0}
           /\ disk[r.src][r.sfirst + r.n].len = r.tail /\ r.sfirst + r.n \in DOMAIN disk[r.src]
           /\ disk[r.dst][r.dfirst + r.n].len = r.tail /\ r.dfirst + r.n \in DOMAIN disk[r.dst]
           /\ Reaches(r.src, r.sfirst, r.n, r.tail) /\ Reaches(r.dst, r.dfirst, r.n, r.tail)
           /\ KernelAgrees(r)
<1>1. KernelAgrees(r)
  <2>1. ASSUME NEW j \in 1 .. r.n
        PROVE  disk[r.src][r.sfirst + j].val = disk[r.dst][r.dfirst + j].val
    <3>1. PICK p : p = PairIn(id, j - 1)
      OBVIOUS
    <3>2. /\ p \in AllPairs
          /\ disk[r.src][r.sfirst + j] = BlockAt(p.src)
          /\ disk[r.dst][r.dfirst + j] = BlockAt(p.dst)
      BY <3>1, BlocksInHand DEF HonestSnapshot
    <3> QED
      BY <3>2, HonestPair
  <2> QED
    BY <2>1 DEF KernelAgrees, ValuesIn
<1> QED
  BY <1>1, RangesReach DEF HonestSnapshot

\* Only a range that is to be cloned onto itself is then refused.
LEMMA HonestRequest ==
    ASSUME Inv, OneRecordSize(files), HonestSnapshot,
           NEW w \in Workers, NEW id, NEW r, HasInHand(w, id, r)
    PROVE  /\ r.len # 0 /\ r.len = r.dlen
           /\ Reaches(r.src, r.sfirst, r.n, r.tail) /\ Reaches(r.dst, r.dfirst, r.n, r.tail)
           /\ KernelAgrees(r)
           /\ Clonable(r) \/ (r.src = r.dst /\ r.sfirst = r.dfirst)
<1> DEFINE last == PairIn(id, r.n - 1)
<1>1. /\ r \in Request
      /\ r.src = files[id[1][2]].ino /\ r.dst = files[id[1][3]].ino
      /\ r.sfirst = RunAt(id).src.chunk /\ r.dfirst = RunAt(id).dst.chunk
  BY RunInHand
<1>2. /\ r.n \in Nat \ {0} /\ r.sfirst \in Nat /\ r.dfirst \in Nat /\ r.blksz \in Nat \ {0}
      /\ r.src \in DOMAIN disk /\ r.dst \in DOMAIN disk
  BY <1>1 DEF Request
<1>3. /\ r.len # 0 /\ r.len = r.dlen /\ r.tail \in Nat \ {0}
      /\ disk[r.src][r.sfirst + r.n].len = r.tail /\ r.sfirst + r.n \in DOMAIN disk[r.src]
      /\ disk[r.dst][r.dfirst + r.n].len = r.tail /\ r.dfirst + r.n \in DOMAIN disk[r.dst]
      /\ Reaches(r.src, r.sfirst, r.n, r.tail) /\ Reaches(r.dst, r.dfirst, r.n, r.tail)
      /\ KernelAgrees(r)
  BY HonestRanges
<1>4. /\ last \in AllPairs /\ last.blksz = r.blksz
      /\ last.src.file = id[1][2] /\ last.dst.file = id[1][3]
  BY <1>2, PairInHand
<1> HIDE DEF last
<1>5. /\ r.blksz = files[id[1][2]].blksz /\ r.blksz = files[id[1][3]].blksz
      /\ id[1][2] \in DOMAIN files /\ id[1][3] \in DOMAIN files
  BY <1>4, PairIsIndexed, PairLengths DEF Inv, TypeOK
<1>6. RecSize(r.src) = r.blksz /\ RecSize(r.dst) = r.blksz
  BY <1>1, <1>5, RecSizeOfName
<1>7. disk[r.src] \in Seq(Block) /\ disk[r.dst] \in Seq(Block)
  BY <1>2, RecSizeType DEF Inv, TypeOK
<1>8. r.sfirst + r.n <= Len(disk[r.src]) /\ r.dfirst + r.n <= Len(disk[r.dst])
  BY <1>3, <1>7
<1>9. \/ r.tail = r.blksz
       \/ /\ ToEof(r.src, r.sfirst, r.n, r.tail)
          /\ ToEof(r.dst, r.dfirst, r.n, r.tail)
  <2>1. r.sfirst + r.n < Len(disk[r.src]) => r.tail = r.blksz
    BY <1>2, <1>3, <1>6, BlockType DEF Inv, TypeOK
  <2>2. r.dfirst + r.n < Len(disk[r.dst]) => r.tail = r.blksz
    BY <1>2, <1>3, <1>6, BlockType DEF Inv, TypeOK
  <2>3. CASE r.tail # r.blksz
    <3>1. r.sfirst + r.n >= Len(disk[r.src]) /\ r.dfirst + r.n >= Len(disk[r.dst])
      BY <1>2, <1>7, <1>8, <2>1, <2>2, <2>3
    <3> QED
      BY <1>3, <3>1 DEF ToEof
  <2> QED
    BY <2>3
<1>10. ASSUME r.src = r.dst, r.sfirst # r.dfirst
       PROVE  r.sfirst + r.n <= r.dfirst \/ r.dfirst + r.n <= r.sfirst
  <2> SUFFICES ASSUME r.dfirst < r.sfirst + r.n, r.sfirst < r.dfirst + r.n PROVE FALSE
    BY <1>2
  <2> DEFINE a == IF r.sfirst < r.dfirst THEN r.dfirst - r.sfirst ELSE 0
             b == IF r.sfirst < r.dfirst THEN 0 ELSE r.sfirst - r.dfirst
  <2>1. a + 1 \in 1 .. r.n /\ b + 1 \in 1 .. r.n /\ a # b /\ a \in Nat /\ b \in Nat
        /\ r.sfirst + a = r.dfirst + b
    BY <1>2, <1>10
  <2> HIDE DEF a, b
  <2>2. PICK p, q : p = PairIn(id, a) /\ q = PairIn(id, b)
    OBVIOUS
  <2>3. a + 1 - 1 = a /\ b + 1 - 1 = b
    BY <2>1
  <2>4. p \in AllPairs /\ q \in AllPairs
    BY <2>1, <2>2, <2>3, BlocksInHand DEF HonestSnapshot
  <2>5. /\ p.src.file = id[1][2] /\ p.src.chunk = r.sfirst + a
        /\ q.src.chunk = r.sfirst + b
        /\ q.dst.file = id[1][3] /\ q.dst.chunk = r.dfirst + b
    BY <1>1, <2>2 DEF PairIn
  <2>6. files[p.src.file].ino = files[q.dst.file].ino /\ p.src.chunk = q.dst.chunk
    BY <1>1, <1>10, <2>1, <2>5
  <2>7. p.src = q.src
    BY <2>4, <2>6, OneSourcePerBlock
  <2> QED
    BY <1>2, <2>1, <2>5, <2>7
<1>11. Clonable(r) \/ (r.src = r.dst /\ r.sfirst = r.dfirst)
  BY <1>3, <1>6, <1>9, <1>10 DEF Clonable
<1> QED
  BY <1>3, <1>11

\* Every chunk of a run lists its source's block.
Linked(id) == \A p \in Covered(id) : BlockAt(p.src) = BlockAt(p.dst)

\* A clone links its run and tears no other: a block that it replaces is, wherever
\* a pair of the plan knows it, the copy of the block that comes in its place.
LEMMA CloneLinks ==
    ASSUME Inv, OneRecordSize(files), HonestSnapshot,
           NEW w \in Workers, NEW id, NEW r, HasInHand(w, id, r),
           Clonable(r), disk' = Shared(r, r.n), UNCHANGED <<files, cache, plan>>
    PROVE  /\ Linked(id)'
           /\ \A d \in AllRunIds : Linked(d) => Linked(d)'
<1> DEFINE Replaced(l) == /\ files[l.file].ino = r.dst
                          /\ r.dfirst < l.chunk + 1 /\ l.chunk + 1 <= r.dfirst + r.n
<1>1. /\ id \in AllRunIds /\ r \in Request /\ r.dst = files[id[1][3]].ino
      /\ r.n = RunAt(id).chunks /\ r.dfirst = RunAt(id).dst.chunk
  BY RunInHand
<1>2. /\ r.n \in Nat \ {0} /\ r.sfirst \in Nat /\ r.dfirst \in Nat
      /\ r.dst \in DOMAIN disk /\ r.n \in 1 .. r.n
  BY <1>1 DEF Request
<1>3. disk' = [disk EXCEPT ![r.dst] =
                  [c \in DOMAIN disk[r.dst] |->
                      IF c > r.dfirst /\ c <= r.dfirst + r.n
                      THEN disk[r.src][r.sfirst + (c - r.dfirst)] ELSE disk[r.dst][c]]]
  BY <1>1, <1>2, HonestRequest, SharedInPlace DEF Inv, TypeOK
<1>4. ASSUME NEW p \in AllPairs, NEW l \in {p.src, p.dst}
      PROVE  /\ l \in Location /\ l.chunk + 1 \in DOMAIN disk[files[l.file].ino]
             /\ files[l.file].ino \in DOMAIN disk
  <2>1. l \in IndexedLocs
    BY HonestPair
  <2>2. l \in Location /\ l.file \in DOMAIN files
    BY <2>1, ChunkLocations DEF IndexedLocs, Inv, TypeOK, PlanTypeOK
  <2> QED
    BY <2>1, <2>2 DEF HonestSnapshot, SizesHold, Inv, TypeOK, DiskOK
<1>5. ASSUME NEW p \in AllPairs, NEW l \in {p.src, p.dst}, Replaced(l)
      PROVE  BlockAt(l)' = BlockAt(p.src)
  <2>1. l.chunk \in Nat /\ l.chunk + 1 \in DOMAIN disk[r.dst]
    BY <1>4, <1>5 DEF Location
  <2>2. PICK j : j = l.chunk + 1 - r.dfirst
    OBVIOUS
  <2>3. j \in 1 .. r.n /\ r.dfirst + j = l.chunk + 1
    BY <1>2, <1>5, <2>1, <2>2
  <2>4. PICK q : q = PairIn(id, j - 1)
    OBVIOUS
  <2>5. q \in AllPairs /\ disk[r.src][r.sfirst + j] = BlockAt(q.src)
    BY <2>3, <2>4, BlocksInHand DEF HonestSnapshot
  <2>6. q.dst.file = id[1][3] /\ q.dst.chunk = l.chunk
    BY <1>1, <1>2, <2>1, <2>2, <2>4 DEF PairIn
  <2>7. p.src = q.src
    BY <1>1, <1>5, <2>5, <2>6, OneSourcePerBlock
  <2>8. BlockAt(l)' = disk'[r.dst][l.chunk + 1]
    BY <1>5 DEF BlockAt
  <2>9. disk'[r.dst][l.chunk + 1] = disk[r.src][r.sfirst + (l.chunk + 1 - r.dfirst)]
    BY <1>2, <1>3, <1>5, <2>1
  <2> QED
    BY <2>2, <2>5, <2>7, <2>8, <2>9
<1>6. ASSUME NEW p \in AllPairs, NEW l \in {p.src, p.dst}, ~Replaced(l)
      PROVE  BlockAt(l)' = BlockAt(l)
  <2>1. BlockAt(l)' = disk'[files[l.file].ino][l.chunk + 1]
    BY DEF BlockAt
  <2>2. l.chunk \in Nat
    BY <1>4 DEF Location
  <2>3. disk'[files[l.file].ino][l.chunk + 1] = disk[files[l.file].ino][l.chunk + 1]
    BY <1>2, <1>3, <1>4, <1>6, <2>2
  <2> QED
    BY <2>1, <2>3 DEF BlockAt
<1>7. ASSUME NEW p \in AllPairs
      PROVE  /\ BlockAt(p.src)' = BlockAt(p.src)
             /\ BlockAt(p.dst)' \in {BlockAt(p.src), BlockAt(p.dst)}
             /\ Replaced(p.dst) => BlockAt(p.dst)' = BlockAt(p.src)
  BY <1>5, <1>6
<1>8. ASSUME NEW d \in AllRunIds, Linked(d) PROVE Linked(d)'
  <2>1. Covered(d)' = Covered(d) /\ Covered(d) \subseteq AllPairs
    BY PairsInRun DEF Covered, RunAt
  <2>2. ASSUME NEW p \in Covered(d) PROVE BlockAt(p.src)' = BlockAt(p.dst)'
    <3>1. BlockAt(p.src) = BlockAt(p.dst) /\ p \in AllPairs
      BY <1>8, <2>1 DEF Linked
    <3> QED
      BY <1>7, <3>1
  <2> QED
    BY <2>1, <2>2 DEF Linked
<1>9. Linked(id)'
  <2>1. /\ Covered(id)' = Covered(id) /\ Covered(id) \subseteq AllPairs
        /\ Covered(id) = { PairIn(id, j) : j \in 0 .. r.n - 1 }
    BY <1>1, PairsInRun DEF Covered, RunAt
  <2>2. ASSUME NEW p \in Covered(id) PROVE BlockAt(p.src)' = BlockAt(p.dst)'
    <3>1. PICK j \in 0 .. r.n - 1 : p = PairIn(id, j)
      BY <2>1
    <3>2. p.dst.file = id[1][3] /\ p.dst.chunk = r.dfirst + j
      BY <1>1, <3>1 DEF PairIn
    <3>3. Replaced(p.dst)
      BY <1>1, <1>2, <3>2
    <3> QED
      BY <1>7, <2>1, <3>3
  <2> QED
    BY <2>1, <2>2 DEF Linked
<1> QED
  BY <1>8, <1>9

Quiet ==
    userOps = 0 /\ faults = 0 /\ ~opts.dry_run /\ ~PartialDedupe /\ HonestSnapshot

\* A step of a run either goes on with it or ends with the run linked.
LEMMA StepOfARun ==
    ASSUME Inv, Calm, Quiet, OneRecordSize(files),
           NEW w \in Workers, NEW id, NEW r, HasInHand(w, id, r),
           StartRun(w) \/ ReadDst(w) \/ CloneRange(w)
    PROVE  /\ \A d \in AllRunIds : Linked(d) => Linked(d)'
           /\ \/ NextRun(w) /\ Linked(id)'
              \/ \E t : /\ task' = [task EXCEPT ![w] = t]
                        /\ t.pc # "idle" /\ t.key = task[w].key /\ t.run = task[w].run
<1> DEFINE Kept == \A d \in AllRunIds : Linked(d) => Linked(d)'
           GoesOn == \E t : /\ task' = [task EXCEPT ![w] = t]
                            /\ t.pc # "idle" /\ t.key = task[w].key /\ t.run = task[w].run
<1>1. /\ r.len # 0 /\ r.len = r.dlen
      /\ Reaches(r.src, r.sfirst, r.n, r.tail) /\ Reaches(r.dst, r.dfirst, r.n, r.tail)
      /\ KernelAgrees(r)
      /\ Clonable(r) \/ (r.src = r.dst /\ r.sfirst = r.dfirst)
  BY HonestRequest DEF Quiet
<1>2. UNCHANGED <<files, cache, plan>>
  BY DEF StartRun, ReadDst, CloneRange, planVars
<1>3. /\ id \in AllRunIds /\ r = RunOf(w) /\ task[w] \in Task
      /\ r.n = RunAt(id).chunks /\ r.n \in Nat \ {0}
  BY RunInHand DEF HasInHand, Inv, TypeOK, TasksOK, Request
<1>4. ASSUME disk' = disk, NEW d PROVE Linked(d)' <=> Linked(d)
  BY <1>2, <1>4 DEF Linked, Covered, RunAt, BlockAt
<1>5. ASSUME ~Clonable(r) PROVE Linked(id)
  <2>1. Covered(id) = { PairIn(id, j) : j \in 0 .. r.n - 1 }
    BY <1>3, PairsInRun
  <2>2. ASSUME NEW p \in Covered(id) PROVE BlockAt(p.src) = BlockAt(p.dst)
    <3>1. PICK i \in 0 .. r.n - 1 : p = PairIn(id, i)
      BY <2>1
    <3>2. i + 1 \in 1 .. r.n /\ i + 1 - 1 = i
      BY <1>3
    <3>3. PICK j \in 1 .. r.n : p = PairIn(id, j - 1)
      BY <3>1, <3>2
    <3>4. /\ disk[r.src][r.sfirst + j] = BlockAt(p.src)
          /\ disk[r.dst][r.dfirst + j] = BlockAt(p.dst)
      BY <3>3, BlocksInHand DEF Quiet, HonestSnapshot
    <3> QED
      BY <1>1, <1>5, <3>4
  <2> QED
    BY <2>2 DEF Linked
<1>6. ASSUME Clonable(r), disk' = Shared(r, r.n) PROVE Kept /\ Linked(id)'
  BY <1>2, <1>6, CloneLinks DEF Quiet
<1>7. CASE StartRun(w)
  <2>1. CASE Compare
    <3>1. ReadSrc(w, r)
      BY <1>1, <1>3, <1>7, <2>1 DEF StartRun
    <3>2. PICK t : t = [task[w] EXCEPT !.pc = "read_dst", !.since = userOps,
                                       !.buf = ValuesIn(r.src, r.sfirst, r.n)]
      OBVIOUS
    <3>3. task' = [task EXCEPT ![w] = t] /\ disk' = disk
      BY <1>1, <3>1, <3>2 DEF ReadSrc
    <3>4. t.pc = "read_dst" /\ t.key = task[w].key /\ t.run = task[w].run
      BY <1>3, <3>2 DEF Task
    <3> QED
      BY <1>4, <3>3, <3>4
  <2>2. CASE ~Compare
    <3>1. DedupeRange(w, r)
      BY <1>1, <1>3, <1>7, <2>2 DEF StartRun
    <3>2. NextRun(w)
      BY <3>1 DEF DedupeRange
    <3>3. CASE Clonable(r)
      <4>1. disk' = Shared(r, r.n)
        BY <1>1, <3>1, <3>3 DEF DedupeRange, Quiet
      <4> QED
        BY <1>6, <3>2, <3>3, <4>1
    <3>4. CASE ~Clonable(r)
      <4>1. disk' = disk
        BY <3>1, <3>4 DEF DedupeRange
      <4> QED
        BY <1>4, <1>5, <3>2, <3>4, <4>1
    <3> QED
      BY <3>3, <3>4
  <2> QED
    BY <2>1, <2>2
<1>8. CASE ReadDst(w)
  <2>1. CalmTask(task[w], r) /\ task[w].pc = "read_dst"
    BY <1>3, <1>8 DEF ReadDst, Calm, Quiet
  <2>2. ValuesIn(r.dst, r.dfirst, r.n) = task[w].buf
    BY <1>1, <2>1 DEF CalmTask, KernelAgrees
  <2>3. PICK t : t = [task[w] EXCEPT !.pc = "clone"]
    OBVIOUS
  <2>4. task' = [task EXCEPT ![w] = t] /\ disk' = disk
    BY <1>1, <1>3, <1>8, <2>2, <2>3 DEF ReadDst, BuffersAgree, Quiet, userVars
  <2>5. t.pc = "clone" /\ t.key = task[w].key /\ t.run = task[w].run
    BY <1>3, <2>3 DEF Task
  <2> QED
    BY <1>4, <2>4, <2>5
<1>9. CASE CloneRange(w)
  <2>1. NextRun(w)
    BY <1>9 DEF CloneRange
  <2>2. CASE Clonable(r)
    BY <1>3, <1>6, <1>9, <2>1, <2>2 DEF CloneRange
  <2>3. CASE ~Clonable(r)
    <3>1. disk' = disk
      BY <1>3, <1>9, <2>3 DEF CloneRange
    <3> QED
      BY <1>4, <1>5, <2>1, <2>3, <3>1
  <2> QED
    BY <2>2, <2>3
<1> QED
  BY <1>7, <1>8, <1>9

\* No run is forgotten: its pair is waiting, or a task is in front of it, or it is
\* done.
InHand(id) ==
    \E w \in Workers : task[w].pc # "idle" /\ task[w].key = id[1] /\ task[w].run <= id[2]

NoneForgotten ==
    Quiet /\ phase \in {"clone", "done"} =>
        \A id \in AllRunIds : id[1] \in pending \/ InHand(id) \/ Linked(id)

Drained == (phase # "clone" => pending = {}) /\ (phase = "done" => pairs = {})

LEMMA NextDrained ==
    ASSUME Inv, Drained, [Next]_vars
    PROVE  Drained'
<1>1. ASSUME UNCHANGED <<phase, pending, pairs>> PROVE Drained'
  BY <1>1 DEF Drained
<1>2. CASE Plan
  <2>1. phase' # "done"
    BY <1>2 DEF Plan, PlanStep, GroupPairs, Coalesce, PlanReady
  <2> QED
    BY <1>2, <2>1 DEF Plan, Drained
<1>3. CASE Finish
  BY <1>3 DEF Finish, Drained, Inv, PlanComplete, toolVars
<1>4. ASSUME NEW w \in Workers, WorkerStep(w) PROVE Drained'
  <2>1. UNCHANGED <<phase, pairs>> /\ phase = "clone"
    BY <1>4 DEF WorkerStep, TakePair, TakeSpecial, StartRun, ReadDst, CloneRange, IoFault, planVars,
                Inv, TypeOK, TasksOK
  <2> QED
    BY <2>1 DEF Drained
<1>5. UserStep => UNCHANGED <<phase, pending, pairs>>
  BY DEF UserStep, Overwrite, AppendByte, Shrink, Relink, Trouble, UserActs, planVars, toolVars
<1>6. UNCHANGED vars => UNCHANGED <<phase, pending, pairs>>
  BY DEF vars, planVars, toolVars
<1> QED
  BY <1>1, <1>2, <1>3, <1>4, <1>5, <1>6 DEF Next, Returned

\* The step of a task, seen from a run that no task has done yet.
LEMMA WorkerForgetsNone ==
    ASSUME Inv, Calm, Quiet, OneRecordSize(files),
           NEW w \in Workers, WorkerStep(w), faults' = 0,
           NEW d \in AllRunIds, d[1] \in pending \/ InHand(d) \/ Linked(d)
    PROVE  d[1] \in pending' \/ InHand(d)' \/ Linked(d)'
<1>1. /\ UNCHANGED <<files, cache, plan>> /\ TasksOK
      /\ \A k \in DOMAIN plan : plan[k] \in Seq(Run)
  BY DEF WorkerStep, TakePair, TakeSpecial, StartRun, ReadDst, CloneRange, IoFault, planVars, Inv, TypeOK,
         PlanTypeOK
<1>2. /\ d[1] \in DOMAIN plan /\ d[2] \in 1 .. Len(plan[d[1]])
      /\ d = <<d[1], d[2]>> /\ Len(plan[d[1]]) \in Nat
  <2>1. PICK k \in DOMAIN plan : \E i \in DOMAIN plan[k] : d = <<k, i>>
    BY RunIds
  <2> QED
    BY <1>1, <2>1
<1>3. ASSUME NEW v \in Workers, NEW t, task' = [task EXCEPT ![v] = t]
      PROVE  \A u \in Workers : task'[u] = IF u = v THEN t ELSE task[u]
  BY <1>1, <1>3 DEF TasksOK
<1>4. CASE \E k \in pending : TakePair(w, k)
  <2>1. PICK k \in pending : TakePair(w, k)
    BY <1>4
  <2>3. Refusal(k) = "ok"
    BY CalmPathsOpen DEF Quiet
  <2>4. PICK t : t = [pc |-> "run", key |-> k, run |-> 1,
                      src |-> path[k[2]].ino, dst |-> path[k[3]].ino,
                      buf |-> <<>>, since |-> 0]
    OBVIOUS
  <2>5. /\ task' = [task EXCEPT ![w] = t] /\ pending' = pending \ {k} /\ disk' = disk
        /\ task[w].pc = "idle"
    BY <2>1, <2>3, <2>4 DEF TakePair, userVars
  <2>6. \A u \in Workers : task'[u] = IF u = w THEN t ELSE task[u]
    BY <1>3, <2>5
  <2>7. CASE d[1] = k
    <3>1. task'[w].pc # "idle" /\ task'[w].key = d[1] /\ task'[w].run <= d[2]
      BY <1>2, <2>4, <2>6, <2>7
    <3> QED
      BY <3>1 DEF InHand
  <2>8. InHand(d) => InHand(d)'
    BY <2>5, <2>6 DEF InHand
  <2>9. Linked(d) => Linked(d)'
    BY <1>1, <2>5 DEF Linked, Covered, RunAt, BlockAt
  <2> QED
    BY <2>5, <2>7, <2>8, <2>9
<1>5. CASE StartRun(w) \/ ReadDst(w) \/ CloneRange(w)
  <2>1. pending' = pending /\ task[w].pc # "idle"
    BY <1>5 DEF StartRun, ReadDst, CloneRange
  <2>2. PICK id, r : id = <<task[w].key, task[w].run>> /\ r = RunOf(w)
    OBVIOUS
  <2>3. HasInHand(w, id, r)
    BY <2>1, <2>2 DEF HasInHand, Calm, CalmTask, Quiet
  <2>4. /\ \A e \in AllRunIds : Linked(e) => Linked(e)'
        /\ \/ NextRun(w) /\ Linked(id)'
           \/ \E t : /\ task' = [task EXCEPT ![w] = t]
                     /\ t.pc # "idle" /\ t.key = task[w].key /\ t.run = task[w].run
    BY <1>5, <2>3, StepOfARun
  <2>5. CASE d[1] \in pending \/ Linked(d)
    BY <2>1, <2>4, <2>5
  <2>6. CASE InHand(d)
    <3>1. PICK v \in Workers : task[v].pc # "idle" /\ task[v].key = d[1] /\ task[v].run <= d[2]
      BY <2>6 DEF InHand
    <3>2. CASE v # w
      <4>1. task'[v] = task[v]
        <5>1. \E t : task' = [task EXCEPT ![w] = t]
          BY <2>4 DEF NextRun
        <5> QED
          BY <1>3, <3>2, <5>1
      <4> QED
        BY <3>1, <4>1 DEF InHand
    <3>3. ASSUME v = w,
                 NEW t, task' = [task EXCEPT ![w] = t],
                 t.pc # "idle", t.key = task[w].key, t.run = task[w].run
          PROVE  InHand(d)'
      <4>1. task'[w] = t
        BY <3>3 DEF TasksOK, Inv, TypeOK
      <4>2. task'[w].pc # "idle" /\ task'[w].key = d[1] /\ task'[w].run <= d[2]
        BY <3>1, <3>3, <4>1
      <4> QED
        BY <4>2 DEF InHand
    <3>4. CASE v = w /\ NextRun(w) /\ Linked(id)'
      <4>1. task[w].run \in Nat /\ task[w] \in Task
        BY <1>1 DEF TasksOK, Task
      <4>2. CASE task[w].run = d[2]
        <5>1. d = id
          BY <1>2, <2>2, <3>1, <3>4, <4>2
        <5> QED
          BY <3>4, <5>1
      <4>3. CASE task[w].run < d[2]
        <5>1. PICK t : t = [task[w] EXCEPT !.pc = "run", !.run = task[w].run + 1, !.buf = <<>>]
          OBVIOUS
        <5>2. task[w].run < Len(plan[task[w].key]) /\ task[w].run + 1 <= d[2]
          BY <1>2, <3>1, <3>4, <4>1, <4>3
        <5>3. task' = [task EXCEPT ![w] = t]
          BY <3>4, <5>1, <5>2 DEF NextRun
        <5>4. t.pc = "run" /\ t.key = task[w].key /\ t.run = task[w].run + 1
          BY <4>1, <5>1 DEF Task
        <5>5. task'[w] = t
          BY <5>3 DEF TasksOK, Inv, TypeOK
        <5>6. task'[w].pc # "idle" /\ task'[w].key = d[1] /\ task'[w].run <= d[2]
          BY <3>1, <3>4, <5>2, <5>4, <5>5
        <5> QED
          BY <5>6 DEF InHand
      <4> QED
        BY <1>2, <3>1, <3>4, <4>1, <4>2, <4>3
    <3> QED
      BY <2>4, <3>2, <3>3, <3>4
  <2> QED
    BY <2>5, <2>6
<1>6. ~\E field : IoFault(w, field)
  BY DEF IoFault, Quiet
<1>7. \A k \in pending : ~TakeSpecial(w, k)
  BY CalmPathsOpen DEF Quiet
<1> QED
  BY <1>4, <1>5, <1>6, <1>7 DEF WorkerStep

\* A run that has not been disturbed was not disturbed before.
LEMMA UndisturbedSoFar ==
    ASSUME Inv, Calm, [Next]_vars, userOps' = 0, faults' = 0, HonestSnapshot'
    PROVE  /\ userOps = 0 /\ faults = 0 /\ HonestSnapshot
           /\ UNCHANGED <<files, cache, opts>> /\ ~UserStep
<1>1. userOps = 0 /\ View(disk') = View(disk)
  BY NextStaysCalm
<1>2. ~UserStep
  BY <1>1, UserStepTouchesOneFile
<1>3. UNCHANGED <<files, cache, opts>>
  BY InputsStay
<1>4. faults = 0
  <2>1. faults \in Nat
    BY BoundsAssumption DEF Inv, TypeOK
  <2>2. ASSUME NEW w \in Workers, WorkerStep(w) PROVE faults' = faults \/ faults' = faults + 1
    BY <2>2 DEF WorkerStep, TakePair, TakeSpecial, StartRun, ReadDst, CloneRange, IoFault
  <2>3. Plan \/ Finish \/ UNCHANGED vars => faults' = faults
    BY DEF Plan, Finish, vars, toolVars
  <2>4. faults' = faults \/ faults' = faults + 1
    BY <1>2, <2>2, <2>3 DEF Next, Returned
  <2> QED
    BY <2>1, <2>4
<1>5. HonestSnapshot
  BY <1>1, <1>3, HonestyIsInTheView
<1> QED
  BY <1>1, <1>2, <1>3, <1>4, <1>5

LEMMA NextForgetsNone ==
    ASSUME Inv, Calm, OneRecordSize(files), NoneForgotten, [Next]_vars
    PROVE  NoneForgotten'
<1> SUFFICES ASSUME Quiet', phase' \in {"clone", "done"}, NEW d \in AllRunIds'
             PROVE  d[1] \in pending' \/ InHand(d)' \/ Linked(d)'
  BY DEF NoneForgotten
<1>1. userOps' = 0 /\ faults' = 0 /\ HonestSnapshot'
  BY DEF Quiet
<1>2. ~UserStep
  BY <1>1, UndisturbedSoFar
<1>3. UNCHANGED <<files, cache, opts>>
  BY <1>1, UndisturbedSoFar
<1>4. Quiet
  <2>1. userOps = 0 /\ faults = 0 /\ HonestSnapshot
    BY <1>1, UndisturbedSoFar
  <2> QED
    BY <1>3, <2>1 DEF Quiet
<1>5. ASSUME NEW w \in Workers, WorkerStep(w)
      PROVE  d[1] \in pending' \/ InHand(d)' \/ Linked(d)'
  <2>1. UNCHANGED <<plan, phase>>
    BY <1>5 DEF WorkerStep, TakePair, TakeSpecial, StartRun, ReadDst, CloneRange, IoFault, planVars
  <2>2. d \in AllRunIds
    BY <2>1 DEF AllRunIds
  <2>3. d[1] \in pending \/ InHand(d) \/ Linked(d)
    BY <1>4, <2>1, <2>2 DEF NoneForgotten
  <2> QED
    BY <1>4, <1>5, <2>2, <2>3, WorkerForgetsNone DEF Quiet
<1>6. ASSUME Plan PROVE d[1] \in pending'
  <2>1. phase' = "clone" /\ plan' = plan
    BY <1>6 DEF Plan, PlanStep, GroupPairs, Coalesce, PlanReady
  <2>2. d[1] \in DOMAIN plan
    BY <2>1 DEF AllRunIds
  <2> QED
    BY <1>6, <2>1, <2>2 DEF Plan
<1>7. ASSUME Finish PROVE Linked(d)'
  <2>1. UNCHANGED <<plan, disk>> /\ phase = "clone" /\ pending = {} /\ ~InHand(d)
    BY <1>7 DEF Finish, userVars, InHand
  <2>2. d \in AllRunIds
    BY <2>1 DEF AllRunIds
  <2>3. Linked(d)
    BY <1>4, <2>1, <2>2 DEF NoneForgotten
  <2> QED
    BY <1>3, <2>1, <2>3 DEF Linked, Covered, RunAt, BlockAt
<1>8. ASSUME UNCHANGED vars PROVE d[1] \in pending' \/ InHand(d)' \/ Linked(d)'
  <2>1. UNCHANGED <<plan, phase, pending, task, disk>>
    BY <1>8 DEF vars, planVars, userVars, toolVars
  <2>2. d \in AllRunIds
    BY <2>1 DEF AllRunIds
  <2>3. d[1] \in pending \/ InHand(d) \/ Linked(d)
    BY <1>4, <2>1, <2>2 DEF NoneForgotten
  <2>4. InHand(d) => InHand(d)'
    BY <2>1 DEF InHand
  <2>5. Linked(d) => Linked(d)'
    BY <1>3, <2>1 DEF Linked, Covered, RunAt, BlockAt
  <2> QED
    BY <2>1, <2>3, <2>4, <2>5
<1> QED
  BY <1>2, <1>5, <1>6, <1>7, <1>8 DEF Next, Returned

\* Every indexed block has bytes.
LEMMA IndexedBlocks ==
    ASSUME Inv, HonestSnapshot, NEW l \in IndexedLocs
    PROVE  BlockAt(l).len \in Nat \ {0} /\ l.file \in DOMAIN files
<1>1. l.file \in DOMAIN files
  BY ChunkLocations DEF IndexedLocs, Inv, TypeOK, PlanTypeOK
<1>2. files[l.file].ino \in DOMAIN disk
  BY <1>1 DEF Inv, TypeOK, DiskOK
<1>3. l.chunk + 1 \in DOMAIN disk[files[l.file].ino]
  BY DEF HonestSnapshot, SizesHold
<1>4. disk[files[l.file].ino][l.chunk + 1].len \in 1 .. RecSize(files[l.file].ino)
  BY <1>2, <1>3, BlockType DEF Inv, TypeOK
<1>5. RecSize(files[l.file].ino) \in Nat
  BY <1>2, RecSizeType DEF Inv, TypeOK
<1> QED
  BY <1>1, <1>4, <1>5 DEF BlockAt

\* Of two chunks of one content each is the first of their group or the destination
\* of a pair with that source.
LEMMA CopiesArePaired ==
    ASSUME Inv, HonestSnapshot,
           NEW l \in IndexedLocs, NEW m \in IndexedLocs, ContentAt(l) = ContentAt(m), l # m
    PROVE  \E first \in IndexedLocs :
              \A x \in {l, m} : x = first \/ \E p \in AllPairs : p.src = first /\ p.dst = x
<1> DEFINE idx == build_index(files, cache)
           k == KeyAt(files, cache, l)
           first == First(idx[k])
<1>1. GoodSnapshot(files, cache)
  BY DEF Inv, TypeOK, PlanTypeOK
<1>2. KeyAt(files, cache, m) = k
  BY DEF HonestSnapshot
<1>3. k \in DOMAIN idx
  BY <1>2 DEF build_index, IndexedLocs
<1>4. idx[k] = { x \in IndexedLocs : KeyAt(files, cache, x) = k } /\ idx[k] # {}
      /\ idx[k] \subseteq Location
  BY <1>1, <1>3, GroupsOfTheIndex DEF IndexedLocs
<1>5. first \in IndexedLocs /\ KeyAt(files, cache, first) = k /\ first \in idx[k]
  BY <1>4, FirstIsFirst
<1>6. ASSUME NEW x \in IndexedLocs, KeyAt(files, cache, x) = k, x # first
      PROVE  \E p \in AllPairs : p.src = first /\ p.dst = x
  <2>1. files[x.file].blksz = k[1] /\ files[first.file].blksz = k[1]
    BY <1>5, <1>6 DEF KeyAt
  <2>2. ContentAt(x) = ContentAt(first)
    BY <1>5, <1>6 DEF HonestSnapshot
  <2>3. BlockAt(x).len = BlockAt(first).len /\ BlockAt(first).len # 0
    BY <1>5, <2>2, IndexedBlocks DEF ContentAt
  <2>4. LenOf(files, x, k[1]) = BlockAt(x).len /\ LenOf(files, first, k[1]) = BlockAt(first).len
    BY <1>5, <2>1 DEF HonestSnapshot, SizesHold, LenOf
  <2>5. x \in idx[k] \ {first}
    BY <1>4, <1>6
  <2>6. PICK p : p = [blksz |-> k[1], src |-> first, dst |-> x]
    OBVIOUS
  <2> HIDE DEF first, k, idx
  <2>7. p \in AllPairs
    BY <1>3, <2>3, <2>4, <2>5, <2>6 DEF AllPairs, ChunkPairs, first, idx
  <2> QED
    BY <2>6, <2>7
<1> QED
  BY <1>2, <1>5, <1>6

\* When everything is done, chunks of one content are on the block of the first of
\* their group.
LEMMA AllLinked ==
    ASSUME Inv, Drained, NoneForgotten
    PROVE  DuplicatesCollapsed
<1> SUFFICES ASSUME Quiet, phase = "done",
                    NEW l \in IndexedLocs, NEW m \in IndexedLocs, ContentAt(l) = ContentAt(m)
             PROVE  BlockAt(l) = BlockAt(m)
  BY DEF DuplicatesCollapsed, Undisturbed, Quiet
<1>1. ASSUME NEW p \in AllPairs PROVE BlockAt(p.src) = BlockAt(p.dst)
  <2>1. pairs = {} /\ pending = {}
    BY DEF Drained
  <2>2. PICK id \in AllRunIds : p \in Covered(id)
    BY <2>1 DEF Inv, Accounted
  <2>3. ~InHand(id)
    BY DEF InHand, Inv, TypeOK, TasksOK
  <2>4. Linked(id)
    BY <2>1, <2>3 DEF NoneForgotten
  <2> QED
    BY <2>2, <2>4 DEF Linked
<1>2. CASE l # m
  <2>1. PICK first \in IndexedLocs :
           \A x \in {l, m} : x = first \/ \E p \in AllPairs : p.src = first /\ p.dst = x
    BY <1>2, CopiesArePaired DEF Quiet
  <2> QED
    BY <1>1, <2>1
<1> QED
  BY <1>2

\* An undisturbed run leaves no two equal chunks on different blocks: whatever the
\* number of files and tasks and the order in which the tasks take the pairs,
\* every group ends on the block of its first chunk, because no clone replaces
\* the block of a source or tears what another one has linked.
THEOREM DuplicatesCollapse ==
    (\A i \in Inputs : OneRecordSize(i.files)) => (Spec => []DuplicatesCollapsed)
<1> SUFFICES ASSUME \A i \in Inputs : OneRecordSize(i.files)
             PROVE  Spec => []DuplicatesCollapsed
  OBVIOUS
<1> DEFINE IInv == Inv /\ Calm /\ Drained /\ NoneForgotten /\ OneRecordSize(files)
<1>1. Init => IInv
  <2> SUFFICES ASSUME Init PROVE Calm /\ Drained /\ NoneForgotten /\ OneRecordSize(files)
    BY InitTyped
  <2>1. \A w \in Workers : task[w].pc = "idle"
    BY DEF Init, Idle
  <2> QED
    BY <2>1 DEF Init, Calm, Drained, NoneForgotten
<1>2. IInv /\ [Next]_vars => IInv'
  <2> SUFFICES ASSUME IInv, [Next]_vars PROVE IInv'
    OBVIOUS
  <2>1. ASSUME NEW w \in Workers, WorkerStep(w) PROVE UNCHANGED files
    BY <2>1 DEF WorkerStep, TakePair, TakeSpecial, StartRun, ReadDst, CloneRange, IoFault, planVars
  <2>2. UserStep => UNCHANGED files
    BY DEF UserStep, Overwrite, AppendByte, Shrink, Relink, Trouble, UserActs, planVars
  <2>3. Plan \/ Finish \/ UNCHANGED vars => UNCHANGED files
    BY DEF Plan, PlanStep, GroupPairs, Coalesce, PlanReady, Finish, vars, planVars
  <2>4. UNCHANGED files
    BY <2>1, <2>2, <2>3 DEF Next, Returned
  <2>5. OneRecordSize(files)'
    BY <2>4
  <2> QED
    BY <2>5, NextKeepsInv, NextStaysCalm, NextDrained, NextForgetsNone
<1>3. IInv => DuplicatesCollapsed
  BY AllLinked
<1> HIDE DEF IInv
<1> QED
  BY <1>1, <1>2, <1>3, PTL DEF Spec

-----------------------------------------------------------------------------
(* The fallback loses data only to the race it accepts.                    *)

\* A clone, block by block: the range itself, the holes of an extension, the tail
\* that an extension fills, and what stays.
LEMMA SharedBlocks ==
    ASSUME PlanTypeOK, DiskOK(files, disk), NEW r \in Request, Clonable(r),
           NEW d, d = Shared(r, r.n)
    PROVE  /\ DOMAIN d = DOMAIN disk /\ \A f \in DOMAIN disk \ {r.dst} : d[f] = disk[f]
           /\ DOMAIN disk[r.dst] \subseteq DOMAIN d[r.dst]
           /\ \A c \in DOMAIN d[r.dst] :
                 \/ /\ c - r.dfirst \in 1 .. r.n
                    /\ d[r.dst][c] = disk[r.src][r.sfirst + (c - r.dfirst)]
                 \/ c \notin DOMAIN disk[r.dst] /\ d[r.dst][c] = Hole(r.blksz)
                 \/ /\ c \in DOMAIN disk[r.dst] /\ c <= r.dfirst
                    /\ d[r.dst][c] = [disk[r.dst][c] EXCEPT !.len = r.blksz]
                 \/ /\ c \in DOMAIN disk[r.dst] /\ c > r.dfirst + r.n
                    /\ d[r.dst][c] = disk[r.dst][c]
<1> DEFINE old == disk[r.dst]
           upto == IF r.dfirst + r.n > Len(old) THEN r.dfirst + r.n ELSE Len(old)
           blk(c) == IF c > r.dfirst /\ c <= r.dfirst + r.n
                     THEN disk[r.src][r.sfirst + (c - r.dfirst)]
                     ELSE IF c > Len(old) THEN Hole(r.blksz)
                     ELSE IF c <= r.dfirst THEN [old[c] EXCEPT !.len = r.blksz]
                     ELSE old[c]
<1>1. /\ r.dfirst \in Nat /\ r.n \in Nat \ {0} /\ r.dst \in DOMAIN disk
      /\ DOMAIN old = 1 .. Len(old) /\ Len(old) \in Nat
  BY RecSizeType DEF Request
<1>2. d = [disk EXCEPT ![r.dst] = [c \in 1 .. upto |-> blk(c)]]
  BY DEF Shared
<1>3. 1 .. Len(old) \subseteq 1 .. upto
  BY <1>1
<1>4. ASSUME NEW c \in 1 .. upto
      PROVE  \/ c - r.dfirst \in 1 .. r.n /\ blk(c) = disk[r.src][r.sfirst + (c - r.dfirst)]
             \/ c \notin 1 .. Len(old) /\ blk(c) = Hole(r.blksz)
             \/ c \in 1 .. Len(old) /\ c <= r.dfirst /\ blk(c) = [old[c] EXCEPT !.len = r.blksz]
             \/ c \in 1 .. Len(old) /\ c > r.dfirst + r.n /\ blk(c) = old[c]
  <2>1. CASE c > r.dfirst /\ c <= r.dfirst + r.n
    <3>1. c - r.dfirst \in 1 .. r.n
      BY <1>1, <2>1
    <3>2. blk(c) = disk[r.src][r.sfirst + (c - r.dfirst)]
      BY <2>1
    <3> QED
      BY <3>1, <3>2
  <2>2. CASE ~(c > r.dfirst /\ c <= r.dfirst + r.n) /\ c > Len(old)
    <3>1. blk(c) = Hole(r.blksz) /\ c \notin 1 .. Len(old)
      BY <1>1, <2>2
    <3> QED
      BY <3>1
  <2>3. CASE ~(c > r.dfirst /\ c <= r.dfirst + r.n) /\ c <= Len(old) /\ c <= r.dfirst
    <3>1. blk(c) = [old[c] EXCEPT !.len = r.blksz] /\ c \in 1 .. Len(old)
      BY <1>1, <2>3
    <3> QED
      BY <2>3, <3>1
  <2>4. CASE ~(c > r.dfirst /\ c <= r.dfirst + r.n) /\ c <= Len(old) /\ c > r.dfirst
    <3>1. blk(c) = old[c] /\ c \in 1 .. Len(old) /\ c > r.dfirst + r.n
      BY <1>1, <2>4
    <3> QED
      BY <3>1
  <2>5. c <= Len(old) \/ c > Len(old)
    BY <1>1
  <2>6. c <= r.dfirst \/ c > r.dfirst
    BY <1>1
  <2> HIDE DEF blk
  <2> QED
    BY <2>1, <2>2, <2>3, <2>4, <2>5, <2>6
<1> HIDE DEF blk, upto
<1>5. /\ DOMAIN d = DOMAIN disk /\ \A f \in DOMAIN disk \ {r.dst} : d[f] = disk[f]
      /\ DOMAIN d[r.dst] = 1 .. upto /\ \A c \in 1 .. upto : d[r.dst][c] = blk(c)
  BY <1>1, <1>2
<1> QED
  BY <1>1, <1>3, <1>4, <1>5

\* Without renames a task works on the inodes that were hashed.
AtHome ==
    /\ \A i \in DOMAIN files : path[i].ino = files[i].ino
    /\ \A w \in Workers : task[w].pc # "idle" =>
          /\ task[w].src = files[task[w].key[2]].ino
          /\ task[w].dst = files[task[w].key[3]].ino

\* What a task with a buffer knows of a source and, after the comparison, of a
\* destination in a disk d after u user operations: a chunk is as it was read, or
\* somebody has written it or cut it off.
SrcKnown(d, u, t, r) ==
    \A j \in 1 .. r.n :
        IF r.sfirst + j \in DOMAIN d[r.src]
        THEN \/ WrittenSince(d[r.src][r.sfirst + j], t.since)
             \/ d[r.src][r.sfirst + j].val = t.buf[j]
        ELSE u > t.since

\* The chunks in front of the range count because an extension fills a tail there.
AsCompared(b, c, t, r) ==
    /\ c < r.dfirst + r.n => b.len = RecSize(r.dst)
    /\ c = r.dfirst + r.n => b.len >= r.tail
    /\ c > r.dfirst => b.val = t.buf[c - r.dfirst]

DstKnown(d, u, t, r) ==
    \A c \in 1 .. r.dfirst + r.n :
        IF c \in DOMAIN d[r.dst]
        THEN WrittenSince(d[r.dst][c], t.since) \/ AsCompared(d[r.dst][c], c, t, r)
        ELSE u > t.since

Knows(d, u, t, r) ==
    /\ t.pc \in {"read_dst", "clone"} => Compare /\ SrcKnown(d, u, t, r)
    /\ t.pc = "clone" => DstKnown(d, u, t, r)

Known == \A w \in Workers : Knows(disk, userOps, task[w], RunOf(w))

\* All names of an inode were hashed with one record size and one length.
OneStat(fl) ==
    \A i, j \in DOMAIN fl :
        fl[i].ino = fl[j].ino => fl[i].blksz = fl[j].blksz /\ fl[i].size = fl[j].size

\* A clone that changes a chunk of its destination meets a block that somebody has
\* written since the task read its source.
LEMMA CloneIsRaced ==
    ASSUME Inv, NEW w \in Workers, task[w].pc = "clone", NEW r, r = RunOf(w), Clonable(r),
           SrcKnown(disk, userOps, task[w], r), DstKnown(disk, userOps, task[w], r),
           NEW d, d = Shared(r, r.n),
           NEW c \in DOMAIN d[r.dst], c \in DOMAIN disk[r.dst],
           ~WrittenSince(disk[r.dst][c], task[w].since), ~WrittenSince(d[r.dst][c], task[w].since)
    PROVE  d[r.dst][c].val = disk[r.dst][c].val /\ d[r.dst][c].len = disk[r.dst][c].len
<1> DEFINE old == disk[r.dst][c]
           new == d[r.dst][c]
<1>1. r \in Request /\ PlanTypeOK /\ DiskOK(files, disk)
  BY RunIsRequest DEF Inv, TypeOK
<1>2. /\ r.n \in Nat \ {0} /\ r.sfirst \in Nat /\ r.dfirst \in Nat /\ r.blksz \in Nat \ {0}
      /\ r.dst \in DOMAIN disk /\ r.src \in DOMAIN disk /\ r.tail \in Int
  BY <1>1 DEF Request
<1>3. /\ c \in 1 .. Len(disk[r.dst]) /\ old \in Block /\ old.len \in 1 .. r.blksz
      /\ RecSize(r.dst) = r.blksz /\ Len(disk[r.dst]) \in Nat
  BY <1>1, <1>2, BlockType, RecSizeType DEF Clonable
<1>4. c \in 1 .. r.dfirst + r.n => AsCompared(old, c, task[w], r)
  BY DEF DstKnown
<1>5. ASSUME c - r.dfirst \in 1 .. r.n, new = disk[r.src][r.sfirst + (c - r.dfirst)]
      PROVE  new.val = old.val /\ new.len = old.len
  <2>1. PICK j \in 1 .. r.n : j = c - r.dfirst
    BY <1>5
  <2>2. /\ r.sfirst + j \in DOMAIN disk[r.src] /\ new.len \in 1 .. r.blksz
        /\ j < r.n \/ r.tail = r.blksz => new.len = r.blksz
    BY <1>1, <1>5, <2>1, SourceBlocks
  <2>3. c \in 1 .. r.dfirst + r.n /\ c > r.dfirst /\ c = r.dfirst + j
    BY <1>2, <1>3, <2>1
  <2>4. new.val = task[w].buf[j]
    BY <1>5, <2>1, <2>2 DEF SrcKnown
  <2>5. old.val = task[w].buf[j]
    BY <1>4, <2>1, <2>3 DEF AsCompared
  <2>6. CASE j < r.n
    <3>1. old.len = r.blksz
      BY <1>2, <1>3, <1>4, <2>3, <2>6 DEF AsCompared
    <3> QED
      BY <2>2, <2>4, <2>5, <2>6, <3>1
  <2>7. CASE j = r.n
    <3>1. old.len >= r.tail
      BY <1>4, <2>3, <2>7 DEF AsCompared
    <3>2. CASE r.tail = r.blksz
      BY <1>2, <1>3, <2>2, <2>4, <2>5, <3>1, <3>2
    <3>3. CASE r.tail # r.blksz
      <4>1. /\ ToEof(r.src, r.sfirst, r.n, r.tail) /\ ToEof(r.dst, r.dfirst, r.n, r.tail)
            /\ Reaches(r.src, r.sfirst, r.n, r.tail)
        BY <3>3 DEF Clonable
      <4>2. old.len <= r.tail
        BY <1>2, <1>3, <2>3, <2>7, <4>1 DEF ToEof
      <4>3. Len(disk[r.src]) \in Nat
        BY <1>1, <1>2, RecSizeType
      <4>4. new = disk[r.src][r.sfirst + r.n]
        BY <1>5, <2>1, <2>7
      <4>5. new.len <= r.tail /\ r.tail <= new.len
        BY <1>2, <4>1, <4>3, <4>4 DEF ToEof, Reaches
      <4> HIDE DEF new, old
      <4> QED
        BY <1>2, <1>3, <2>2, <2>4, <2>5, <3>1, <4>2, <4>5
    <3> QED
      BY <3>2, <3>3
  <2> QED
    BY <1>2, <2>6, <2>7
<1>6. ASSUME c <= r.dfirst, new = [old EXCEPT !.len = r.blksz]
      PROVE  new.val = old.val /\ new.len = old.len
  <2>1. c \in 1 .. r.dfirst + r.n /\ c < r.dfirst + r.n
    BY <1>2, <1>3, <1>6
  <2>2. old.len = r.blksz
    BY <1>3, <1>4, <2>1 DEF AsCompared
  <2>3. new = old
    BY <1>3, <1>6, <2>2 DEF Block
  <2> QED
    BY <2>3
<1> QED
  BY <1>1, <1>5, <1>6, SharedBlocks

\* A chunk in front of another one of the same file is full.
LEMMA OnlyTheLastIsShort ==
    ASSUME NEW h, h.size \in Nat, NEW c \in Nat, NEW e \in Nat, c < e, NEW b \in Nat \ {0},
           chunk_len(h, e, b) # 0
    PROVE  chunk_len(h, c, b) = b
<1> DEFINE x == c * b
           y == e * b
<1>1. x \in Nat /\ y \in Nat
  OBVIOUS
<1>2. (e - (c + 1)) * b >= 0
  <2>1. e - (c + 1) \in Nat
    OBVIOUS
  <2> QED
    BY <2>1
<1>3. y >= x + b
  BY <1>2
<1>4. chunk_len(h, e, b) = LowerOf(SatSub(h.size, y), b)
      /\ chunk_len(h, c, b) = LowerOf(SatSub(h.size, x), b)
  BY DEF chunk_len
<1> HIDE DEF x, y
<1>5. h.size > y
  BY <1>1, <1>4 DEF LowerOf, SatSub
<1> QED
  BY <1>1, <1>3, <1>4, <1>5 DEF LowerOf, SatSub

LEMMA OneStatOneSize == ASSUME OneStat(files) PROVE OneRecordSize(files)
BY DEF OneStat, OneRecordSize

\* The clone of another task leaves what this one knows of its source: where it
\* meets the source it puts back the block that is there.
LEMMA CloneKeepsSrcKnown ==
    ASSUME Inv, OneStat(files),
           NEW v \in Workers, NEW idv, NEW s, HasInHand(v, idv, s), Clonable(s),
           NEW w \in Workers, NEW idw, NEW r, HasInHand(w, idw, r),
           SrcKnown(disk, userOps, task[w], r),
           NEW d, d = Shared(s, s.n)
    PROVE  SrcKnown(d, userOps, task[w], r)
<1>1. /\ s \in Request /\ r \in Request /\ PlanTypeOK /\ DiskOK(files, disk)
      /\ OneRecordSize(files)
  BY RunInHand, OneStatOneSize DEF Inv, TypeOK
<1>2. /\ s.n \in Nat \ {0} /\ s.sfirst \in Nat /\ s.dfirst \in Nat /\ s.dst \in DOMAIN disk
      /\ r.n \in Nat \ {0} /\ r.sfirst \in Nat /\ r.src \in DOMAIN disk
  BY <1>1 DEF Request
<1> SUFFICES ASSUME NEW j \in 1 .. r.n
             PROVE  IF r.sfirst + j \in DOMAIN d[r.src]
                    THEN \/ WrittenSince(d[r.src][r.sfirst + j], task[w].since)
                         \/ d[r.src][r.sfirst + j].val = task[w].buf[j]
                    ELSE userOps > task[w].since
  BY DEF SrcKnown
<1>3. PICK c : c = r.sfirst + j
  OBVIOUS
<1>4. IF c \in DOMAIN disk[r.src]
      THEN WrittenSince(disk[r.src][c], task[w].since) \/ disk[r.src][c].val = task[w].buf[j]
      ELSE userOps > task[w].since
  BY <1>3 DEF SrcKnown
<1>5. CASE r.src # s.dst
  <2>1. d[r.src] = disk[r.src]
    BY <1>1, <1>2, <1>5, SharedBlocks
  <2> QED
    BY <1>3, <1>4, <2>1
<1>6. CASE r.src = s.dst /\ c \notin DOMAIN d[r.src]
  <2>1. c \notin DOMAIN disk[r.src]
    BY <1>1, <1>6, SharedBlocks
  <2> QED
    BY <1>3, <1>4, <1>6, <2>1
<1>7. CASE r.src = s.dst /\ c \in DOMAIN d[r.src]
  <2> DEFINE new == d[s.dst][c]
             old == disk[s.dst][c]
  <2>1. \/ c - s.dfirst \in 1 .. s.n /\ new = disk[s.src][s.sfirst + (c - s.dfirst)]
        \/ c \notin DOMAIN disk[s.dst] /\ new = Hole(s.blksz)
        \/ c \in DOMAIN disk[s.dst] /\ new = [old EXCEPT !.len = s.blksz]
        \/ c \in DOMAIN disk[s.dst] /\ new = old
    BY <1>1, <1>7, SharedBlocks
  <2>2. CASE c - s.dfirst \in 1 .. s.n /\ new = disk[s.src][s.sfirst + (c - s.dfirst)]
    <3>1. PICK i \in 1 .. s.n : i = c - s.dfirst
      BY <2>2
    <3>2. PICK p, q : p = PairIn(idw, j - 1) /\ q = PairIn(idv, i - 1)
      OBVIOUS
    <3>3. /\ p \in AllPairs /\ p.src.chunk + 1 = c /\ p.src.chunk \in Nat
          /\ files[p.src.file].ino = r.src
      BY <1>3, <3>2, PairInHand
    <3>4. /\ q \in AllPairs /\ q.src.chunk + 1 = s.sfirst + i /\ q.src.chunk \in Nat
          /\ q.dst.chunk + 1 = s.dfirst + i /\ q.dst.chunk \in Nat
          /\ files[q.src.file].ino = s.src /\ files[q.dst.file].ino = s.dst
      BY <3>2, PairInHand
    <3>5. p.src.chunk = q.dst.chunk
      BY <1>2, <3>1, <3>3, <3>4
    <3>6. p.src = q.src
      BY <1>1, <1>7, <3>3, <3>4, <3>5, OneSourcePerBlock
    <3>7. s.src = r.src /\ s.sfirst + i = c
      BY <3>3, <3>4, <3>6
    <3>8. c \in DOMAIN disk[r.src]
      BY <1>1, <3>7, SourceBlocks
    <3>9. d[r.src][c] = disk[r.src][c]
      BY <1>7, <2>2, <3>1, <3>7
    <3> QED
      BY <1>3, <1>4, <1>7, <3>8, <3>9
  <2>3. CASE c \notin DOMAIN disk[s.dst] /\ new = Hole(s.blksz)
    <3>1. userOps > task[w].since
      BY <1>4, <1>7, <2>3
    <3>2. WrittenSince(Hole(s.blksz), task[w].since)
      BY <3>1 DEF WrittenSince, Hole
    <3> QED
      BY <1>3, <1>7, <2>3, <3>2
  <2>4. CASE c \in DOMAIN disk[s.dst] /\ new = [old EXCEPT !.len = s.blksz]
    <3>1. old \in Block
      BY <1>1, <1>2, <2>4, BlockType
    <3>2. new.id = old.id /\ new.val = old.val
      BY <2>4, <3>1 DEF Block
    <3> QED
      BY <1>3, <1>4, <1>7, <2>4, <3>2 DEF WrittenSince
  <2>5. CASE c \in DOMAIN disk[s.dst] /\ new = old
    BY <1>3, <1>4, <1>7, <2>5
  <2> QED
    BY <2>1, <2>2, <2>3, <2>4, <2>5
<1> QED
  BY <1>5, <1>6, <1>7

\* The block that a clone hands over is at least as long as the index takes the
\* chunk for that it replaces.
LEMMA HandedLength ==
    ASSUME Inv, NEW v \in Workers, NEW id, NEW s, HasInHand(v, id, s), Clonable(s),
           NEW i \in 1 .. s.n
    PROVE  /\ disk[s.src][s.sfirst + i].len \in 1 .. s.blksz
           /\ disk[s.src][s.sfirst + i].len >= LenOf(files, PairIn(id, i - 1).dst, s.blksz)
<1> DEFINE new == disk[s.src][s.sfirst + i]
           len == LenOf(files, PairIn(id, i - 1).dst, s.blksz)
<1>1. /\ s \in Request /\ PlanTypeOK /\ DiskOK(files, disk)
      /\ s.n \in Nat \ {0} /\ s.blksz \in Nat \ {0} /\ s.tail \in Int
  BY RunInHand DEF Inv, TypeOK, Request
<1>2. new.len \in 1 .. s.blksz /\ (i < s.n \/ s.tail = s.blksz => new.len = s.blksz)
  BY <1>1, SourceBlocks
<1>3. len <= s.blksz /\ len \in Int
  <2>1. PairIn(id, i - 1) \in AllPairs
    BY PairInHand
  <2>2. PICK p : p = PairIn(id, i - 1)
    OBVIOUS
  <2>3. p.dst.file \in DOMAIN files /\ p.dst.chunk \in Nat
    BY <2>1, <2>2, PairInHand, PairLengths DEF Inv, TypeOK
  <2>4. files[p.dst.file].size \in Nat /\ p.dst.chunk * s.blksz \in Nat
    BY <1>1, <2>3 DEF PlanTypeOK, GoodSnapshot
  <2>5. LenOf(files, p.dst, s.blksz) \in Int /\ LenOf(files, p.dst, s.blksz) <= s.blksz
    BY <1>1, <2>4 DEF LenOf, chunk_len, LowerOf, SatSub
  <2> QED
    BY <2>2, <2>5
<1>4. CASE i < s.n \/ s.tail = s.blksz
  BY <1>1, <1>2, <1>3, <1>4
<1>5. CASE i = s.n
  <2>1. s.tail = len
    BY <1>5, TailInHand
  <2>2. new = disk[s.src][s.sfirst + s.n]
    BY <1>5
  <2>3. s.tail <= new.len
    BY <2>2 DEF Clonable, Reaches
  <2> HIDE DEF new, len
  <2> QED
    BY <1>1, <1>2, <2>1, <2>3 DEF new, len
<1> QED
  BY <1>1, <1>4, <1>5

\* A chunk of the destination up to the end of a request in hand is as long as a
\* comparison wants it.
LEMMA LengthInHand ==
    ASSUME Inv, OneStat(files), NEW w \in Workers, NEW id, NEW r, HasInHand(w, id, r),
           NEW l, l.file \in DOMAIN files, l.chunk \in Nat, files[l.file].ino = r.dst,
           NEW c, c = l.chunk + 1, c \in 1 .. r.dfirst + r.n
    PROVE  /\ r.blksz = RecSize(r.dst)
           /\ c < r.dfirst + r.n => LenOf(files, l, r.blksz) = r.blksz
           /\ c = r.dfirst + r.n => LenOf(files, l, r.blksz) = r.tail
<1> DEFINE last == PairIn(id, r.n - 1)
<1>1. /\ r \in Request /\ r.n \in Nat \ {0} /\ r.dfirst \in Nat /\ r.blksz \in Nat \ {0}
  BY RunInHand DEF Request
<1>2. /\ last \in AllPairs /\ last.blksz = r.blksz
      /\ last.dst.chunk + 1 = r.dfirst + r.n /\ last.dst.chunk \in Nat
      /\ files[last.dst.file].ino = r.dst
  BY <1>1, PairInHand
<1>3. r.tail = LenOf(files, last.dst, r.blksz) /\ r.tail # 0
  BY TailInHand
<1> HIDE DEF last
<1>4. last.dst.file \in DOMAIN files /\ r.blksz = files[last.dst.file].blksz
  BY <1>2, PairIsIndexed, PairLengths DEF Inv, TypeOK
<1>5. r.blksz = RecSize(r.dst)
  BY <1>2, <1>4, OneStatOneSize, RecSizeOfName
<1>6. files[l.file].size = files[last.dst.file].size /\ files[l.file].size \in Nat
  BY <1>2, <1>4 DEF OneStat, Inv, TypeOK, PlanTypeOK, GoodSnapshot
<1>7. r.tail = chunk_len(files[l.file], last.dst.chunk, r.blksz)
  BY <1>3, <1>6 DEF LenOf, chunk_len
<1>8. ASSUME c < r.dfirst + r.n PROVE LenOf(files, l, r.blksz) = r.blksz
  <2>1. l.chunk < last.dst.chunk
    BY <1>1, <1>2, <1>8
  <2>2. chunk_len(files[l.file], l.chunk, r.blksz) = r.blksz
    BY <1>1, <1>2, <1>3, <1>6, <1>7, <2>1, OnlyTheLastIsShort
  <2> QED
    BY <2>2 DEF LenOf
<1>9. ASSUME c = r.dfirst + r.n PROVE LenOf(files, l, r.blksz) = r.tail
  <2>1. l.chunk = last.dst.chunk
    BY <1>1, <1>2, <1>9
  <2> QED
    BY <1>7, <2>1 DEF LenOf
<1> QED
  BY <1>5, <1>8, <1>9

\* ... and what it knows of its destination.
LEMMA CloneKeepsDstKnown ==
    ASSUME Inv, OneStat(files),
           NEW v \in Workers, NEW idv, NEW s, HasInHand(v, idv, s), Clonable(s),
           NEW w \in Workers, NEW idw, NEW r, HasInHand(w, idw, r),
           SrcKnown(disk, userOps, task[w], r), DstKnown(disk, userOps, task[w], r),
           NEW d, d = Shared(s, s.n)
    PROVE  DstKnown(d, userOps, task[w], r)
<1>1. /\ s \in Request /\ r \in Request /\ PlanTypeOK /\ DiskOK(files, disk)
      /\ OneRecordSize(files)
  BY RunInHand, OneStatOneSize DEF Inv, TypeOK
<1>2. /\ s.n \in Nat \ {0} /\ s.sfirst \in Nat /\ s.dfirst \in Nat /\ s.dst \in DOMAIN disk
      /\ r.n \in Nat \ {0} /\ r.sfirst \in Nat /\ r.dfirst \in Nat /\ r.dst \in DOMAIN disk
      /\ s.blksz \in Nat \ {0} /\ r.tail \in Int
  BY <1>1 DEF Request
<1> SUFFICES ASSUME NEW c \in 1 .. r.dfirst + r.n
             PROVE  IF c \in DOMAIN d[r.dst]
                    THEN \/ WrittenSince(d[r.dst][c], task[w].since)
                         \/ AsCompared(d[r.dst][c], c, task[w], r)
                    ELSE userOps > task[w].since
  BY DEF DstKnown
<1>3. IF c \in DOMAIN disk[r.dst]
      THEN WrittenSince(disk[r.dst][c], task[w].since) \/ AsCompared(disk[r.dst][c], c, task[w], r)
      ELSE userOps > task[w].since
  BY DEF DstKnown
<1>4. CASE r.dst # s.dst
  <2>1. d[r.dst] = disk[r.dst]
    BY <1>1, <1>2, <1>4, SharedBlocks
  <2> QED
    BY <1>3, <2>1
<1>5. CASE r.dst = s.dst /\ c \notin DOMAIN d[r.dst]
  <2>1. c \notin DOMAIN disk[r.dst]
    BY <1>1, <1>5, SharedBlocks
  <2> QED
    BY <1>3, <1>5, <2>1
<1>6. CASE r.dst = s.dst /\ c \in DOMAIN d[r.dst]
  <2> DEFINE new == d[s.dst][c]
             old == disk[s.dst][c]
  <2>1. \/ c - s.dfirst \in 1 .. s.n /\ new = disk[s.src][s.sfirst + (c - s.dfirst)]
        \/ c \notin DOMAIN disk[s.dst] /\ new = Hole(s.blksz)
        \/ c \in DOMAIN disk[s.dst] /\ new = [old EXCEPT !.len = s.blksz]
        \/ c \in DOMAIN disk[s.dst] /\ new = old
    BY <1>1, <1>6, SharedBlocks
  <2>2. s.blksz = RecSize(r.dst)
    BY <1>6 DEF Clonable
  <2>3. CASE c - s.dfirst \in 1 .. s.n /\ new = disk[s.src][s.sfirst + (c - s.dfirst)]
    <3>1. PICK i \in 1 .. s.n : i = c - s.dfirst
      BY <2>3
    <3>2. PICK q : q = PairIn(idv, i - 1)
      OBVIOUS
    <3>3. /\ q \in AllPairs /\ q.src.chunk + 1 = s.sfirst + i /\ q.src.chunk \in Nat
          /\ q.dst.chunk + 1 = s.dfirst + i /\ q.dst.chunk \in Nat
          /\ files[q.src.file].ino = s.src /\ files[q.dst.file].ino = s.dst
          /\ q.dst.file \in DOMAIN files
      BY <1>1, <3>2, PairInHand, PairLengths
    <3>4. c = q.dst.chunk + 1
      BY <1>2, <3>1, <3>3
    <3>5. /\ new.len \in 1 .. s.blksz
          /\ new.len >= LenOf(files, q.dst, s.blksz)
      BY <2>3, <3>1, <3>2, HandedLength
    <3>6. /\ r.blksz = RecSize(r.dst)
          /\ c < r.dfirst + r.n => LenOf(files, q.dst, r.blksz) = r.blksz
          /\ c = r.dfirst + r.n => LenOf(files, q.dst, r.blksz) = r.tail
      BY <1>6, <3>3, <3>4, LengthInHand
    <3>7. c < r.dfirst + r.n => new.len = RecSize(r.dst)
      <4> HIDE DEF new
      <4> QED
        BY <1>2, <2>2, <3>5, <3>6
    <3>8. c = r.dfirst + r.n => new.len >= r.tail
      <4> HIDE DEF new
      <4> QED
        BY <1>2, <2>2, <3>5, <3>6
    <3>9. ASSUME c > r.dfirst
          PROVE  WrittenSince(new, task[w].since) \/ new.val = task[w].buf[c - r.dfirst]
      <4>1. PICK j \in 1 .. r.n : j = c - r.dfirst
        BY <1>2, <3>9
      <4>2. PICK p : p = PairIn(idw, j - 1)
        OBVIOUS
      <4>3. /\ p \in AllPairs /\ p.src.chunk + 1 = r.sfirst + j /\ p.src.chunk \in Nat
            /\ p.dst.chunk + 1 = r.dfirst + j /\ p.dst.chunk \in Nat
            /\ files[p.src.file].ino = r.src /\ files[p.dst.file].ino = r.dst
        BY <4>2, PairInHand
      <4>4. p.dst.chunk = q.dst.chunk
        BY <1>2, <3>3, <3>4, <4>1, <4>3
      <4>5. p.src = q.src
        BY <1>1, <1>6, <3>3, <4>3, <4>4, OneSourcePerBlock
      <4>6. s.src = r.src /\ s.sfirst + i = r.sfirst + j
        BY <3>3, <4>3, <4>5
      <4>7. r.sfirst + j \in DOMAIN disk[r.src]
        BY <1>1, <4>6, SourceBlocks
      <4>8. new = disk[r.src][r.sfirst + j]
        BY <2>3, <3>1, <4>6
      <4> QED
        BY <4>1, <4>7, <4>8 DEF SrcKnown
    <3> HIDE DEF new
    <3>10. WrittenSince(new, task[w].since) \/ AsCompared(new, c, task[w], r)
      BY <3>7, <3>8, <3>9 DEF AsCompared
    <3> QED
      BY <1>6, <3>10 DEF new
  <2>4. CASE c \notin DOMAIN disk[s.dst] /\ new = Hole(s.blksz)
    <3>1. userOps > task[w].since
      BY <1>3, <1>6, <2>4
    <3>2. WrittenSince(Hole(s.blksz), task[w].since)
      BY <3>1 DEF WrittenSince, Hole
    <3> QED
      BY <1>6, <2>4, <3>2
  <2>5. CASE c \in DOMAIN disk[s.dst] /\ new = [old EXCEPT !.len = s.blksz]
    <3>1. old \in Block /\ old.len \in 1 .. s.blksz
      BY <1>1, <1>2, <1>6, <2>2, <2>5, BlockType
    <3>2. new.id = old.id /\ new.val = old.val /\ new.len = s.blksz
      BY <2>5, <3>1 DEF Block
    <3> HIDE DEF new, old
    <3>3. WrittenSince(old, task[w].since) \/ AsCompared(old, c, task[w], r)
      BY <1>3, <1>6, <2>5 DEF old
    <3>4. WrittenSince(old, task[w].since) => WrittenSince(new, task[w].since)
      BY <3>2 DEF WrittenSince
    <3>5. AsCompared(old, c, task[w], r) => AsCompared(new, c, task[w], r)
      BY <1>2, <2>2, <3>1, <3>2 DEF AsCompared
    <3> QED
      BY <1>6, <3>3, <3>4, <3>5 DEF new
  <2>6. CASE c \in DOMAIN disk[s.dst] /\ new = old
    BY <1>3, <1>6, <2>6
  <2> QED
    BY <2>1, <2>3, <2>4, <2>5, <2>6
<1> QED
  BY <1>4, <1>5, <1>6

\* A user step leaves a block alone or puts its own date on a new one.
LEMMA UserBlocks ==
    ASSUME Inv, UserStep, NEW f \in DOMAIN disk, NEW c \in DOMAIN disk'[f]
    PROVE  \/ c \in DOMAIN disk[f] /\ disk'[f][c] = disk[f][c]
           \/ disk'[f][c].id = <<0, userOps + 1>>
<1>1. PlanTypeOK /\ DiskOK(files, disk)
  BY DEF Inv, TypeOK
<1>2. ASSUME NEW g \in DOMAIN disk, NEW blocks, Rewritten(g, blocks),
             \A e \in DOMAIN blocks : \/ e \in DOMAIN disk[g] /\ blocks[e] = disk[g][e]
                                      \/ blocks[e].id = <<0, userOps + 1>>
      PROVE  \/ c \in DOMAIN disk[f] /\ disk'[f][c] = disk[f][c]
             \/ disk'[f][c].id = <<0, userOps + 1>>
  <2>1. disk' = [disk EXCEPT ![g] = blocks]
    BY <1>2 DEF Rewritten
  <2>2. CASE f = g
    BY <1>2, <2>1, <2>2
  <2>3. CASE f # g
    BY <2>1, <2>3
  <2> QED
    BY <2>2, <2>3
<1>3. ASSUME NEW val, NEW len PROVE Fresh(val, len).id = <<0, userOps + 1>>
  BY DEF Fresh
<1>4. ASSUME NEW g \in DOMAIN disk, NEW v \in Values, NEW e \in DOMAIN disk[g], Overwrite(g, e, v)
      PROVE  \E blocks : /\ Rewritten(g, blocks)
                         /\ \A x \in DOMAIN blocks :
                               \/ x \in DOMAIN disk[g] /\ blocks[x] = disk[g][x]
                               \/ blocks[x].id = <<0, userOps + 1>>
  <2>1. PICK new : new = Fresh(v, disk[g][e].len)
    OBVIOUS
  <2>2. new.id = <<0, userOps + 1>>
    BY <1>3, <2>1
  <2>3. Rewritten(g, [disk[g] EXCEPT ![e] = new])
    BY <1>4, <2>1 DEF Overwrite
  <2>4. \A x \in DOMAIN [disk[g] EXCEPT ![e] = new] :
           \/ x \in DOMAIN disk[g] /\ [disk[g] EXCEPT ![e] = new][x] = disk[g][x]
           \/ [disk[g] EXCEPT ![e] = new][x].id = <<0, userOps + 1>>
    BY <2>2
  <2> QED
    BY <2>3, <2>4
<1>5. ASSUME NEW g \in DOMAIN disk, NEW v \in Values, AppendByte(g, v)
      PROVE  \E blocks : /\ Rewritten(g, blocks)
                         /\ \A x \in DOMAIN blocks :
                               \/ x \in DOMAIN disk[g] /\ blocks[x] = disk[g][x]
                               \/ blocks[x].id = <<0, userOps + 1>>
  <2> DEFINE n == Len(disk[g])
  <2>1. disk[g] \in Seq(Block) /\ n \in Nat
    BY <1>1, RecSizeType
  <2>2. CASE n > 0 /\ disk[g][n].len < RecSize(g)
    <3>1. PICK new : new = Fresh(disk[g][n].val, disk[g][n].len + 1)
      OBVIOUS
    <3>2. new.id = <<0, userOps + 1>>
      BY <1>3, <3>1
    <3>3. Rewritten(g, [disk[g] EXCEPT ![n] = new])
      BY <1>5, <2>2, <3>1 DEF AppendByte
    <3>4. \A x \in DOMAIN [disk[g] EXCEPT ![n] = new] :
             \/ x \in DOMAIN disk[g] /\ [disk[g] EXCEPT ![n] = new][x] = disk[g][x]
             \/ [disk[g] EXCEPT ![n] = new][x].id = <<0, userOps + 1>>
      BY <3>2
    <3> QED
      BY <3>3, <3>4
  <2>3. CASE ~(n > 0 /\ disk[g][n].len < RecSize(g))
    <3>1. PICK new : new = Fresh(v, 1)
      OBVIOUS
    <3>2. new.id = <<0, userOps + 1>>
      BY <1>3, <3>1
    <3>3. PICK blocks : blocks = Append(disk[g], new)
      OBVIOUS
    <3>4. Rewritten(g, blocks)
      BY <1>5, <2>3, <3>1, <3>3 DEF AppendByte
    <3>5. /\ DOMAIN blocks = 1 .. n + 1 /\ DOMAIN disk[g] = 1 .. n
          /\ \A x \in 1 .. n : blocks[x] = disk[g][x]
          /\ blocks[n + 1] = new
      BY <2>1, <3>3
    <3>6. \A x \in 1 .. n + 1 : x \in 1 .. n \/ x = n + 1
      BY <2>1
    <3>7. \A x \in DOMAIN blocks : \/ x \in DOMAIN disk[g] /\ blocks[x] = disk[g][x]
                                  \/ blocks[x].id = <<0, userOps + 1>>
      BY <3>2, <3>5, <3>6
    <3> QED
      BY <3>4, <3>7
  <2> QED
    BY <2>2, <2>3
<1>6. ASSUME NEW g \in DOMAIN disk, Shrink(g)
      PROVE  \E blocks : /\ Rewritten(g, blocks)
                         /\ \A x \in DOMAIN blocks :
                               \/ x \in DOMAIN disk[g] /\ blocks[x] = disk[g][x]
                               \/ blocks[x].id = <<0, userOps + 1>>
  <2> DEFINE n == Len(disk[g])
  <2>1. disk[g] \in Seq(Block) /\ n \in Nat
    BY <1>1, RecSizeType
  <2>2. CASE disk[g][n].len > 1
    <3>1. PICK new : new = Fresh(disk[g][n].val, disk[g][n].len - 1)
      OBVIOUS
    <3>2. new.id = <<0, userOps + 1>>
      BY <1>3, <3>1
    <3>3. Rewritten(g, [disk[g] EXCEPT ![n] = new])
      BY <1>6, <2>2, <3>1 DEF Shrink
    <3>4. \A x \in DOMAIN [disk[g] EXCEPT ![n] = new] :
             \/ x \in DOMAIN disk[g] /\ [disk[g] EXCEPT ![n] = new][x] = disk[g][x]
             \/ [disk[g] EXCEPT ![n] = new][x].id = <<0, userOps + 1>>
      BY <3>2
    <3> QED
      BY <3>3, <3>4
  <2>3. CASE ~(disk[g][n].len > 1)
    <3>1. Rewritten(g, SubSeq(disk[g], 1, n - 1)) /\ n > 0
      BY <1>6, <2>3 DEF Shrink
    <3>2. /\ DOMAIN SubSeq(disk[g], 1, n - 1) = 1 .. n - 1 /\ DOMAIN disk[g] = 1 .. n
          /\ \A x \in 1 .. n - 1 : SubSeq(disk[g], 1, n - 1)[x] = disk[g][x]
      BY <2>1, <3>1
    <3>3. \A x \in 1 .. n - 1 : x \in 1 .. n
      BY <2>1
    <3> QED
      BY <3>1, <3>2, <3>3
  <2> QED
    BY <2>2, <2>3
<1>7. CASE disk' = disk
  BY <1>7
<1> QED
  BY <1>2, <1>4, <1>5, <1>6, <1>7 DEF UserStep, Relink, Trouble

\* What a task knows survives users: what they touch bears a date.
LEMMA UserStepKeepsKnown ==
    ASSUME Inv, Known, AtHome, "relink" \notin UserOps, UserStep
    PROVE  AtHome' /\ Known'
<1>1. /\ UNCHANGED <<files, plan, opts, task>> /\ userOps' = userOps + 1
  BY DEF UserStep, Overwrite, AppendByte, Shrink, Relink, Trouble, UserActs, planVars, toolVars
<1>2. AtHome'
  <2>1. \A i \in DOMAIN files : path'[i].ino = path[i].ino
    BY DEF UserStep, Overwrite, AppendByte, Shrink, Relink, Trouble, UserActs, Rewritten,
           Inv, TypeOK, PathsOK
  <2> QED
    BY <1>1, <2>1 DEF AtHome
<1>3. ASSUME NEW w \in Workers PROVE Knows(disk, userOps, task[w], RunOf(w))'
  <2>1. PICK t, r : t = task[w] /\ r = RunOf(w)
    OBVIOUS
  <2>2. t = task'[w] /\ r = RunOf(w)'
    BY <1>1, <2>1 DEF RunOf
  <2>3. Knows(disk, userOps, t, r)
    BY <2>1 DEF Known
  <2>4. CASE t.pc = "idle"
    <3>1. Knows(disk, userOps, t, r)'
      BY <2>4 DEF Knows
    <3> QED
      BY <2>2, <3>1
  <2>5. CASE t.pc # "idle"
    <3>1. /\ r \in Request /\ t.since \in Nat /\ t.since <= userOps /\ userOps \in Nat
      BY <2>1, <2>5, RunIsRequest, BoundsAssumption DEF Inv, TypeOK, TasksOK, Task
    <3>2. r.src \in DOMAIN disk /\ r.dst \in DOMAIN disk
      BY <3>1 DEF Request
    <3>3. userOps' > t.since
      BY <1>1, <3>1
    <3>4. ASSUME NEW f \in DOMAIN disk, NEW c \in DOMAIN disk'[f]
          PROVE  \/ c \in DOMAIN disk[f] /\ disk'[f][c] = disk[f][c]
                 \/ WrittenSince(disk'[f][c], t.since)
      <4>1. CASE disk'[f][c].id = <<0, userOps + 1>>
        BY <3>1, <4>1 DEF WrittenSince
      <4> QED
        BY <4>1, UserBlocks
    <3>5. SrcKnown(disk, userOps, t, r) => SrcKnown(disk', userOps', t, r)
      BY <3>2, <3>3, <3>4 DEF SrcKnown
    <3>6. DstKnown(disk, userOps, t, r) => DstKnown(disk', userOps', t, r)
      BY <3>2, <3>3, <3>4 DEF DstKnown
    <3>7. Knows(disk', userOps', t, r)
      BY <2>3, <3>5, <3>6 DEF Knows
    <3>8. Knows(disk, userOps, t, r)'
      BY <1>1, <3>7 DEF Knows, Compare, SrcKnown, DstKnown, AsCompared, RecSize
    <3> QED
      BY <2>2, <3>8
  <2> QED
    BY <2>4, <2>5
<1> QED
  BY <1>2, <1>3 DEF Known

\* A task's step: its next run or none, a pair, a buffer it has just read, or a
\* destination that agrees with it.
LEMMA StepOfATask ==
    ASSUME Inv, NEW w \in Workers, WorkerStep(w), NEW r, r = RunOf(w)
    PROVE  \/ task[w].pc # "idle" /\ NextRun(w)
           \/ \E k \in pending : TakePair(w, k)
           \/ \E k \in pending : TakeSpecial(w, k)
           \/ /\ Compare /\ disk' = disk /\ task[w].pc # "idle"
              /\ Reaches(r.src, r.sfirst, r.n, r.tail)
              /\ task' = [task EXCEPT ![w] = [task[w] EXCEPT !.pc = "read_dst", !.since = userOps,
                                                 !.buf = ValuesIn(r.src, r.sfirst, r.n)]]
           \/ /\ disk' = disk /\ task[w].pc = "read_dst"
              /\ Reaches(r.dst, r.dfirst, r.n, r.tail)
              /\ ValuesIn(r.dst, r.dfirst, r.n) = task[w].buf
              /\ task' = [task EXCEPT ![w] = [task[w] EXCEPT !.pc = "clone"]]
<1>1. ASSUME StartRun(w), ~NextRun(w)
      PROVE  /\ Compare /\ disk' = disk /\ task[w].pc # "idle"
             /\ Reaches(r.src, r.sfirst, r.n, r.tail)
             /\ task' = [task EXCEPT ![w] = [task[w] EXCEPT !.pc = "read_dst", !.since = userOps,
                                                !.buf = ValuesIn(r.src, r.sfirst, r.n)]]
  <2>1. ReadSrc(w, r) /\ Compare /\ task[w].pc = "run"
    BY <1>1 DEF StartRun, DedupeRange
  <2> QED
    BY <1>1, <2>1 DEF ReadSrc
<1>2. ASSUME ReadDst(w), ~NextRun(w)
      PROVE  /\ disk' = disk /\ task[w].pc = "read_dst"
             /\ Reaches(r.dst, r.dfirst, r.n, r.tail)
             /\ ValuesIn(r.dst, r.dfirst, r.n) = task[w].buf
             /\ task' = [task EXCEPT ![w] = [task[w] EXCEPT !.pc = "clone"]]
  BY <1>2 DEF ReadDst, BuffersAgree, userVars
<1>3. ASSUME CloneRange(w) \/ \E field : IoFault(w, field)
      PROVE  task[w].pc # "idle" /\ NextRun(w)
  BY <1>3 DEF CloneRange, IoFault
<1>4. StartRun(w) \/ ReadDst(w) => task[w].pc # "idle"
  BY DEF StartRun, ReadDst
<1> QED
  BY <1>1, <1>2, <1>3, <1>4 DEF WorkerStep

\* What else a task's step may do: clone, or dedupe where nobody compares.
LEMMA DiskStepOfATask ==
    ASSUME Inv, NEW w \in Workers, WorkerStep(w), NEW r, r = RunOf(w), disk' # disk
    PROVE  \/ task[w].pc = "clone" /\ Clonable(r) /\ disk' = Shared(r, r.n) /\ NextRun(w)
           \/ /\ ~Compare /\ task[w].pc = "run"
              /\ Clonable(r) /\ Reaches(r.dst, r.dfirst, r.n, r.tail) /\ KernelAgrees(r)
              /\ \E m \in 1 .. r.n : disk' = Shared(r, m)
<1>1. \/ task[w].pc = "run" /\ ~Compare /\ DedupeRange(w, r)
      \/ CloneRange(w)
  BY DEF WorkerStep, TakePair, TakeSpecial, StartRun, ReadSrc, ReadDst, IoFault, userVars
<1>2. CASE CloneRange(w)
  BY <1>2 DEF CloneRange
<1>3. CASE task[w].pc = "run" /\ ~Compare /\ DedupeRange(w, r)
  <2>1. r \in Request
    BY <1>3, RunIsRequest DEF Inv
  <2>2. r.n \in 1 .. r.n
    BY <2>1 DEF Request
  <2> QED
    BY <1>3, <2>2 DEF DedupeRange
<1> QED
  BY <1>1, <1>2, <1>3

\* What the others know survives the step of a task.
LEMMA OthersStayKnown ==
    ASSUME Inv, OneStat(files), AtHome, Known, NEW w \in Workers, WorkerStep(w),
           NEW v \in Workers
    PROVE  Knows(disk', userOps, task[v], RunOf(v))
<1>1. PICK r, s, idr, ids :
          /\ r = RunOf(v) /\ s = RunOf(w)
          /\ idr = <<task[v].key, task[v].run>> /\ ids = <<task[w].key, task[w].run>>
  OBVIOUS
<1>2. Knows(disk, userOps, task[v], r)
  BY <1>1 DEF Known
<1>3. CASE disk' = disk
  BY <1>1, <1>2, <1>3
<1>4. CASE ~Compare
  BY <1>1, <1>2, <1>4 DEF Knows
<1>5. CASE disk' # disk /\ Compare /\ task[v].pc \in {"read_dst", "clone"}
  <2>1. task[w].pc = "clone" /\ Clonable(s) /\ disk' = Shared(s, s.n)
    BY <1>1, <1>5, DiskStepOfATask
  <2>2. HasInHand(w, ids, s) /\ HasInHand(v, idr, r)
    BY <1>1, <1>5, <2>1 DEF HasInHand, AtHome
  <2>3. PICK d : d = disk'
    OBVIOUS
  <2>4. SrcKnown(disk, userOps, task[v], r)
    BY <1>2, <1>5 DEF Knows
  <2>5. SrcKnown(d, userOps, task[v], r)
    BY <2>1, <2>2, <2>3, <2>4, CloneKeepsSrcKnown
  <2>6. ASSUME task[v].pc = "clone" PROVE DstKnown(d, userOps, task[v], r)
    <3>1. DstKnown(disk, userOps, task[v], r)
      BY <1>2, <2>6 DEF Knows
    <3> QED
      BY <2>1, <2>2, <2>3, <2>4, <3>1, CloneKeepsDstKnown
  <2>7. Knows(d, userOps, task[v], r)
    BY <1>5, <2>5, <2>6 DEF Knows
  <2> QED
    BY <1>1, <2>3, <2>7
<1>6. CASE task[v].pc \notin {"read_dst", "clone"}
  BY <1>1, <1>6 DEF Knows
<1> QED
  BY <1>3, <1>4, <1>5, <1>6

\* One task moves to t.
LEMMA TaskStaysKnown ==
    ASSUME Inv, OneStat(files), AtHome, Known, NEW w \in Workers, WorkerStep(w),
           NEW t, task' = [task EXCEPT ![w] = t],
           t.pc # "idle" => /\ t.src = files[t.key[2]].ino /\ t.dst = files[t.key[3]].ino,
           Knows(disk', userOps, t, RunOf(w)')
    PROVE  AtHome' /\ Known'
<1>1. UNCHANGED <<files, plan, opts, path, userOps>>
  BY DEF WorkerStep, TakePair, TakeSpecial, StartRun, ReadDst, CloneRange, IoFault, userVars, planVars
<1>2. \A v \in Workers : task'[v] = IF v = w THEN t ELSE task[v]
  BY DEF Inv, TypeOK, TasksOK
<1>3. AtHome'
  BY <1>1, <1>2 DEF AtHome
<1>4. ASSUME NEW v \in Workers PROVE Knows(disk', userOps, task'[v], RunOf(v)')
  <2>1. CASE v = w
    BY <1>2, <2>1
  <2>2. CASE v # w
    <3>1. task'[v] = task[v] /\ RunOf(v)' = RunOf(v)
      BY <1>1, <1>2, <2>2 DEF RunOf
    <3> QED
      BY <3>1, OthersStayKnown
  <2> QED
    BY <2>1, <2>2
<1>5. ASSUME NEW v \in Workers PROVE Knows(disk, userOps, task[v], RunOf(v))'
  <2>1. PICK u, r, d : u = task'[v] /\ r = RunOf(v)' /\ d = disk'
    OBVIOUS
  <2>2. Knows(d, userOps, u, r)
    BY <1>4, <2>1
  <2>3. (Compare <=> Compare') /\ \A f : RecSize(f)' = RecSize(f)
    BY <1>1 DEF Compare, RecSize
  <2>4. Knows(d, userOps, u, r)'
    BY <1>1, <2>2, <2>3 DEF Knows, SrcKnown, DstKnown, AsCompared
  <2> QED
    BY <2>1, <2>4
<1> QED
  BY <1>3, <1>5 DEF Known

\* Reading and comparing is what makes known.
\* A step that leaves the disk, the paths and the tasks alone.
LEMMA IdlingKeepsKnown ==
    ASSUME AtHome, Known, UNCHANGED <<files, plan, opts, disk, path, userOps, task>>
    PROVE  AtHome' /\ Known'
<1>1. AtHome'
  BY DEF AtHome
<1>2. ASSUME NEW w \in Workers PROVE Knows(disk, userOps, task[w], RunOf(w))'
  <2>1. PICK t, r : t = task[w] /\ r = RunOf(w)
    OBVIOUS
  <2>2. t = task'[w] /\ r = RunOf(w)'
    BY <2>1 DEF RunOf
  <2>3. Knows(disk, userOps, t, r)
    BY <2>1 DEF Known
  <2>4. Knows(disk, userOps, t, r)'
    BY <2>3 DEF Knows, Compare, SrcKnown, DstKnown, AsCompared, RecSize
  <2> QED
    BY <2>2, <2>4
<1> QED
  BY <1>1, <1>2 DEF Known

LEMMA WorkerStaysKnown ==
    ASSUME Inv, OneStat(files), AtHome, Known, NEW w \in Workers, WorkerStep(w)
    PROVE  AtHome' /\ Known'
<1>1. UNCHANGED <<files, plan, opts, path, userOps>>
  BY DEF WorkerStep, TakePair, TakeSpecial, StartRun, ReadDst, CloneRange, IoFault, userVars, planVars
<1>2. task[w] \in Task /\ PlanTypeOK /\ DiskOK(files, disk)
  BY DEF Inv, TypeOK, TasksOK
<1>3. ASSUME NEW t, task' = [task EXCEPT ![w] = t], t.pc = "idle" \/ t.pc = "run",
             t.pc = "run" => /\ t.src = files[t.key[2]].ino /\ t.dst = files[t.key[3]].ino
      PROVE  AtHome' /\ Known'
  <2>1. Knows(disk', userOps, t, RunOf(w)')
    BY <1>3 DEF Knows
  <2> QED
    BY <1>3, <2>1, TaskStaysKnown
<1>4. CASE task[w].pc # "idle" /\ NextRun(w)
  <2> DEFINE next == [task[w] EXCEPT !.pc = "run", !.run = task[w].run + 1, !.buf = <<>>]
  <2>1. PICK t : t = IF task[w].run < Len(plan[task[w].key]) THEN next ELSE Idle
    OBVIOUS
  <2>2. task' = [task EXCEPT ![w] = t]
    BY <1>4, <2>1 DEF NextRun
  <2>3. /\ next.pc = "run" /\ next.key = task[w].key
        /\ next.src = task[w].src /\ next.dst = task[w].dst
    BY <1>2 DEF Task
  <2>4. task[w].src = files[task[w].key[2]].ino /\ task[w].dst = files[task[w].key[3]].ino
    BY <1>4 DEF AtHome
  <2> HIDE DEF next
  <2>5. t = next \/ t.pc = "idle"
    BY <2>1 DEF Idle
  <2> QED
    BY <1>3, <2>2, <2>3, <2>4, <2>5
<1>5. ASSUME NEW k \in pending, TakePair(w, k) PROVE AtHome' /\ Known'
  <2> DEFINE taken == [pc |-> "run", key |-> k, run |-> 1,
                       src |-> path[k[2]].ino, dst |-> path[k[3]].ino,
                       buf |-> <<>>, since |-> 0]
  <2>1. PICK t : t = IF Refusal(k) = "ok" THEN taken ELSE Idle
    OBVIOUS
  <2>2. task' = [task EXCEPT ![w] = t]
    BY <1>5, <2>1 DEF TakePair
  <2>3. k[2] \in DOMAIN files /\ k[3] \in DOMAIN files
    BY DEF Inv, TypeOK, PlanComplete
  <2>4. path[k[2]].ino = files[k[2]].ino /\ path[k[3]].ino = files[k[3]].ino
    BY <2>3 DEF AtHome
  <2>5. \/ t.pc = "idle"
        \/ /\ t.pc = "run"
           /\ t.src = files[t.key[2]].ino /\ t.dst = files[t.key[3]].ino
    BY <2>1, <2>4 DEF Idle
  <2> QED
    BY <1>3, <2>2, <2>5
<1>6. PICK r : r = RunOf(w)
  OBVIOUS
<1>7. ASSUME task[w].pc # "idle"
      PROVE  /\ r \in Request /\ r.src \in DOMAIN disk /\ r.dst \in DOMAIN disk
             /\ r.sfirst \in Nat /\ r.dfirst \in Nat /\ r.n \in Nat \ {0} /\ r.tail \in Int
             /\ disk[r.src] \in Seq(Block) /\ disk[r.dst] \in Seq(Block)
             /\ task[w].src = files[task[w].key[2]].ino
             /\ task[w].dst = files[task[w].key[3]].ino
  <2>1. r \in Request
    BY <1>6, <1>7, RunIsRequest DEF Inv
  <2>2. /\ r.src \in DOMAIN disk /\ r.dst \in DOMAIN disk
        /\ r.sfirst \in Nat /\ r.dfirst \in Nat /\ r.n \in Nat \ {0} /\ r.tail \in Int
    BY <2>1 DEF Request
  <2> QED
    BY <1>2, <1>7, <2>1, <2>2, RecSizeType DEF AtHome
<1>8. ASSUME NEW t, disk' = disk, task' = [task EXCEPT ![w] = t], task[w].pc # "idle",
             t.key = task[w].key, t.run = task[w].run, t.src = task[w].src, t.dst = task[w].dst,
             Knows(disk, userOps, t, r)
      PROVE  AtHome' /\ Known'
  <2>1. task'[w] = t
    BY <1>8 DEF Inv, TypeOK, TasksOK
  <2>2. RunOf(w)' = r
    BY <1>1, <1>6, <1>8, <2>1 DEF RunOf
  <2>3. t.src = files[t.key[2]].ino /\ t.dst = files[t.key[3]].ino
    BY <1>7, <1>8
  <2> QED
    BY <1>8, <2>2, <2>3, TaskStaysKnown
<1>9. CASE /\ Compare /\ disk' = disk /\ task[w].pc # "idle"
           /\ Reaches(r.src, r.sfirst, r.n, r.tail)
           /\ task' = [task EXCEPT ![w] = [task[w] EXCEPT !.pc = "read_dst", !.since = userOps,
                                              !.buf = ValuesIn(r.src, r.sfirst, r.n)]]
  <2>1. PICK t : t = [task[w] EXCEPT !.pc = "read_dst", !.since = userOps,
                                     !.buf = ValuesIn(r.src, r.sfirst, r.n)]
    OBVIOUS
  <2>2. /\ t.pc = "read_dst" /\ t.key = task[w].key /\ t.run = task[w].run
        /\ t.src = task[w].src /\ t.dst = task[w].dst
        /\ t.buf = ValuesIn(r.src, r.sfirst, r.n)
    BY <1>2, <2>1 DEF Task
  <2>3. ASSUME NEW j \in 1 .. r.n
        PROVE  r.sfirst + j \in DOMAIN disk[r.src] /\ disk[r.src][r.sfirst + j].val = t.buf[j]
    <3>1. r.sfirst + j \in 1 .. Len(disk[r.src])
      BY <1>7, <1>9 DEF Reaches
    <3>2. r.sfirst + j \in DOMAIN disk[r.src]
      BY <1>7, <1>9, <3>1
    <3> QED
      BY <2>2, <3>2 DEF ValuesIn
  <2>4. Knows(disk, userOps, t, r)
    BY <1>9, <2>2, <2>3 DEF Knows, SrcKnown
  <2> QED
    BY <1>8, <1>9, <2>1, <2>2, <2>4
<1>10. CASE /\ disk' = disk /\ task[w].pc = "read_dst"
            /\ Reaches(r.dst, r.dfirst, r.n, r.tail)
            /\ ValuesIn(r.dst, r.dfirst, r.n) = task[w].buf
            /\ task' = [task EXCEPT ![w] = [task[w] EXCEPT !.pc = "clone"]]
  <2>1. PICK t : t = [task[w] EXCEPT !.pc = "clone"]
    OBVIOUS
  <2>2. /\ t.pc = "clone" /\ t.key = task[w].key /\ t.run = task[w].run
        /\ t.src = task[w].src /\ t.dst = task[w].dst
        /\ t.buf = task[w].buf /\ t.since = task[w].since
    BY <1>2, <2>1 DEF Task
  <2>3. Compare /\ SrcKnown(disk, userOps, task[w], r)
    BY <1>6, <1>10 DEF Known, Knows
  <2>4. SrcKnown(disk, userOps, t, r)
    BY <2>2, <2>3 DEF SrcKnown
  <2>5. ASSUME NEW c \in 1 .. r.dfirst + r.n
        PROVE  c \in DOMAIN disk[r.dst] /\ AsCompared(disk[r.dst][c], c, t, r)
    <3>1. /\ r.dfirst + r.n <= Len(disk[r.dst]) /\ Len(disk[r.dst]) \in Nat
          /\ r.tail <= disk[r.dst][r.dfirst + r.n].len
      BY <1>7, <1>10 DEF Reaches
    <3>2. c \in DOMAIN disk[r.dst] /\ r.dfirst + r.n \in DOMAIN disk[r.dst]
      BY <1>7, <1>10, <3>1
    <3>3. /\ c < Len(disk[r.dst]) => disk[r.dst][c].len = RecSize(r.dst)
          /\ disk[r.dst][r.dfirst + r.n].len \in Nat
      BY <1>2, <1>7, <1>10, <3>2, BlockType DEF Block
    <3>4. c < r.dfirst + r.n => disk[r.dst][c].len = RecSize(r.dst)
      BY <1>7, <1>10, <3>1, <3>3
    <3>5. c = r.dfirst + r.n => disk[r.dst][c].len >= r.tail
      BY <1>7, <1>10, <3>1, <3>3
    <3>6. ASSUME c > r.dfirst PROVE disk[r.dst][c].val = t.buf[c - r.dfirst]
      <4>1. PICK j : j = c - r.dfirst
        OBVIOUS
      <4>2. r.dfirst \in Nat /\ r.n \in Nat
        BY <1>7, <1>10
      <4>3. j \in 1 .. r.n /\ c = r.dfirst + j
        BY <3>6, <4>1, <4>2
      <4>4. ValuesIn(r.dst, r.dfirst, r.n)[j] = disk[r.dst][c].val
        BY <4>3 DEF ValuesIn
      <4> QED
        BY <1>10, <2>2, <4>1, <4>4
    <3> QED
      BY <3>2, <3>4, <3>5, <3>6 DEF AsCompared
  <2>6. DstKnown(disk, userOps, t, r)
    BY <2>5 DEF DstKnown
  <2>7. Knows(disk, userOps, t, r)
    BY <2>3, <2>4, <2>6 DEF Knows
  <2> QED
    BY <1>8, <1>10, <2>1, <2>2, <2>7
<1>11. ASSUME NEW k \in pending, TakeSpecial(w, k) PROVE AtHome' /\ Known'
  <2>1. UNCHANGED <<disk, task>>
    BY <1>11 DEF TakeSpecial, userVars
  <2> QED
    BY <1>1, <2>1, IdlingKeepsKnown
<1> QED
  BY <1>4, <1>5, <1>6, <1>9, <1>10, <1>11, StepOfATask

LEMMA NextStaysKnown ==
    ASSUME Inv, OneStat(files), AtHome, Known, "relink" \notin UserOps, [Next]_vars
    PROVE  OneStat(files)' /\ AtHome' /\ Known'
<1>1. ASSUME NEW w \in Workers, WorkerStep(w) PROVE OneStat(files)' /\ AtHome' /\ Known'
  <2>1. UNCHANGED files
    BY <1>1 DEF WorkerStep, TakePair, TakeSpecial, StartRun, ReadDst, CloneRange, IoFault, planVars
  <2> QED
    BY <1>1, <2>1, WorkerStaysKnown
<1>2. ASSUME UserStep PROVE OneStat(files)' /\ AtHome' /\ Known'
  <2>1. UNCHANGED files
    BY <1>2 DEF UserStep, Overwrite, AppendByte, Shrink, Relink, Trouble, UserActs, planVars
  <2> QED
    BY <1>2, <2>1, UserStepKeepsKnown
<1>3. ASSUME Plan \/ Finish PROVE OneStat(files)' /\ AtHome' /\ Known'
  <2>1. UNCHANGED <<files, path, task>>
    BY <1>3 DEF Plan, PlanStep, GroupPairs, Coalesce, PlanReady, Finish, userVars, toolVars
  <2>2. ASSUME NEW w \in Workers PROVE task[w].pc = "idle"
    BY <1>3 DEF Plan, PlanStep, GroupPairs, Coalesce, PlanReady, Finish, Inv, TypeOK, TasksOK
  <2> QED
    BY <2>1, <2>2 DEF AtHome, Known, Knows
<1>4. ASSUME UNCHANGED vars PROVE OneStat(files)' /\ AtHome' /\ Known'
  <2>1. UNCHANGED <<files, plan, opts, disk, path, userOps, task>>
    BY <1>4 DEF vars, userVars, toolVars, planVars
  <2> QED
    BY <2>1, IdlingKeepsKnown
<1> QED
  BY <1>1, <1>2, <1>3, <1>4 DEF Next, Returned

\* A step of the tool that changes a chunk is the clone of a task that the chunk,
\* or the one it is cloned from, has been taken away from since it read.
LEMMA ChangeIsRaced ==
    ASSUME Inv, OneStat(files), AtHome, Known, [Next]_vars, userOps' = userOps,
           NEW f \in DOMAIN disk, NEW c \in DOMAIN disk'[f], Changed(f, c)
    PROVE  \E w \in Workers : Raced(w, f, c)
<1>1. disk' # disk
  BY DEF Changed
<1>2. userOps \in Nat
  BY BoundsAssumption DEF Inv, TypeOK
<1>3. ~UserStep
  BY <1>2, UserStepTouchesOneFile
<1>4. PICK w \in Workers : WorkerStep(w)
  BY <1>1, <1>3 DEF Next, Plan, Finish, Returned, userVars, vars
<1>5. PICK r, id : r = RunOf(w) /\ id = <<task[w].key, task[w].run>>
  OBVIOUS
<1>6. PlanTypeOK /\ DiskOK(files, disk)
  BY DEF Inv, TypeOK
<1>7. CASE /\ task[w].pc = "run"
           /\ Clonable(r) /\ Reaches(r.dst, r.dfirst, r.n, r.tail) /\ KernelAgrees(r)
           /\ \E m \in 1 .. r.n : disk' = Shared(r, m)
  <2>1. r \in Request
    BY <1>5, <1>7, RunIsRequest DEF Inv
  <2>2. PICK d : d = disk'
    OBVIOUS
  <2>3. View(d) = View(disk)
    BY <1>6, <1>7, <2>1, <2>2, SharedIsTransparent
  <2>4. DOMAIN d = DOMAIN disk /\ Contents(d, f) = Contents(disk, f)
    BY <2>3 DEF View
  <2>5. DOMAIN d[f] = DOMAIN disk[f]
    BY <2>4 DEF Contents
  <2> QED
    BY <2>2, <2>4, <2>5 DEF Changed
<1>8. CASE task[w].pc = "clone" /\ Clonable(r) /\ disk' = Shared(r, r.n) /\ NextRun(w)
  <2>1. r \in Request
    BY <1>5, <1>8, RunIsRequest DEF Inv
  <2>2. PICK d : d = disk'
    OBVIOUS
  <2>3. f = r.dst /\ c \in DOMAIN d[r.dst]
    <3>1. \A g \in DOMAIN disk \ {r.dst} : d[g] = disk[g]
      BY <1>6, <1>8, <2>1, <2>2, SharedBlocks
    <3>2. ASSUME f # r.dst PROVE FALSE
      <4>1. d[f] = disk[f]
        BY <3>1, <3>2
      <4>2. disk'[f] = disk[f] /\ c \in DOMAIN disk[f]
        BY <2>2, <4>1
      <4> QED
        BY <4>2 DEF Changed, Contents
    <3> QED
      BY <2>2, <3>2
  <2>4. SrcKnown(disk, userOps, task[w], r) /\ DstKnown(disk, userOps, task[w], r)
    BY <1>5, <1>8 DEF Known, Knows
  <2>5. \/ c \notin DOMAIN disk[f]
        \/ WrittenSince(disk[f][c], task[w].since)
        \/ WrittenSince(d[f][c], task[w].since)
    <3> SUFFICES ASSUME c \in DOMAIN disk[f],
                        ~WrittenSince(disk[f][c], task[w].since),
                        ~WrittenSince(d[f][c], task[w].since)
                 PROVE  FALSE
      OBVIOUS
    <3>1. d[f][c].val = disk[f][c].val /\ d[f][c].len = disk[f][c].len
      BY <1>5, <1>8, <2>2, <2>3, <2>4, CloneIsRaced
    <3> QED
      BY <2>2, <3>1 DEF Changed, Contents
  <2>6. task[w].dst = f
    BY <1>5, <2>3 DEF RunOf
  <2>7. task'[w] # task[w]
    <3> DEFINE next == [task[w] EXCEPT !.pc = "run", !.run = task[w].run + 1, !.buf = <<>>]
    <3>1. PICK t : t = IF task[w].run < Len(plan[task[w].key]) THEN next ELSE Idle
      OBVIOUS
    <3>2. task[w] \in Task /\ task \in [Workers -> Task]
      BY DEF Inv, TypeOK, TasksOK
    <3>3. next.pc = "run"
      BY <3>2 DEF Task
    <3>4. task'[w] = t
      BY <1>8, <3>1, <3>2 DEF NextRun
    <3> HIDE DEF next
    <3>5. t.pc = "run" \/ t.pc = "idle"
      BY <3>1, <3>3 DEF Idle
    <3> QED
      BY <1>8, <3>4, <3>5
  <2> QED
    BY <1>8, <2>2, <2>5, <2>6, <2>7 DEF Raced
<1> QED
  BY <1>1, <1>4, <1>5, <1>7, <1>8, DiskStepOfATask

\* With the compare-then-clone fallback a chunk loses its content only to the race
\* that --force accepts: for any number of tasks, users and files, the chunk, or the
\* one cloned over it, was written or cut off after the task had read its source,
\* whatever other clones did to both files in between.
THEOREM LostWritesAreRaced ==
    "relink" \notin UserOps /\ (\A i \in Inputs : OneStat(i.files)) =>
        (Spec => LostWritesAreRaces)
<1> SUFFICES ASSUME "relink" \notin UserOps, \A i \in Inputs : OneStat(i.files)
             PROVE  Spec => LostWritesAreRaces
  OBVIOUS
<1> DEFINE IInv == Inv /\ OneStat(files) /\ AtHome /\ Known
           Races == userOps' = userOps =>
                       \A f \in DOMAIN disk : \A c \in DOMAIN disk'[f] :
                           Changed(f, c) => \E w \in Workers : Raced(w, f, c)
<1>1. Init => IInv
  <2> SUFFICES ASSUME Init PROVE OneStat(files) /\ AtHome /\ Known
    BY InitTyped
  <2>1. \A w \in Workers : task[w].pc = "idle"
    BY DEF Init, Idle
  <2>2. AtHome
    BY <2>1 DEF Init, AtHome
  <2> QED
    BY <2>1, <2>2 DEF Init, Known, Knows
<1>2. IInv /\ [Next]_vars => IInv'
  BY NextKeepsInv, NextStaysKnown
<1>3. IInv /\ [Next]_vars => [Races]_vars
  BY ChangeIsRaced
<1> HIDE DEF IInv, Races
<1>4. Spec => [][Races]_vars
  BY <1>1, <1>2, <1>3, PTL DEF Spec
<1> QED
  BY <1>4 DEF Races, LostWritesAreRaces

-----------------------------------------------------------------------------
(* What is left to do.                                                     *)

\* A run whose pair is waiting, or which a task has in front of it.
OpenRuns == { id \in AllRunIds : id[1] \in pending \/ InHand(id) }

\* A pair is waiting or with one task.
TasksApart ==
    /\ \A w \in Workers : task[w].pc # "idle" => task[w].key \notin pending
    /\ \A v, w \in Workers :
          v # w /\ task[v].pc # "idle" /\ task[w].pc # "idle" => task[v].key # task[w].key

LEMMA TaskAfter ==
    ASSUME Inv, NEW w \in Workers, NEW t, task' = [task EXCEPT ![w] = t]
    PROVE  \A v \in Workers : task'[v] = IF v = w THEN t ELSE task[v]
BY DEF Inv, TypeOK, TasksOK

LEMMA RunNumbers ==
    ASSUME Inv, NEW d \in AllRunIds
    PROVE  /\ d = <<d[1], d[2]>> /\ d[1] \in DOMAIN plan
           /\ d[2] \in 1 .. Len(plan[d[1]]) /\ Len(plan[d[1]]) \in Nat
<1>1. PICK k \in DOMAIN plan : \E i \in DOMAIN plan[k] : d = <<k, i>>
  BY RunIds
<1>2. plan[k] \in Seq(Run)
  BY DEF Inv, TypeOK, PlanTypeOK
<1> QED
  BY <1>1, <1>2

LEMMA GoingOnOpensNothing ==
    ASSUME Inv, TasksApart, NEW w \in Workers, NEW t, task' = [task EXCEPT ![w] = t],
           UNCHANGED <<pending, plan>>, task[w].pc # "idle",
           t.pc # "idle", t.key = task[w].key, t.run = task[w].run
    PROVE  TasksApart' /\ OpenRuns' = OpenRuns
<1>1. \A v \in Workers : task'[v] = IF v = w THEN t ELSE task[v]
  BY TaskAfter
<1>2. \A v \in Workers : /\ task'[v].pc # "idle" <=> task[v].pc # "idle"
                         /\ task'[v].pc # "idle" => task'[v].key = task[v].key
                         /\ task'[v].pc # "idle" => task'[v].run = task[v].run
  BY <1>1
<1>3. TasksApart'
  BY <1>2 DEF TasksApart
<1>4. \A d : InHand(d)' <=> InHand(d)
  BY <1>2 DEF InHand
<1>5. AllRunIds' = AllRunIds
  BY DEF AllRunIds
<1> QED
  BY <1>3, <1>4, <1>5 DEF OpenRuns

\* The next run of a task closes the one it was at, and no other.
LEMMA NextRunCloses ==
    ASSUME Inv, TasksApart, NEW w \in Workers, task[w].pc # "idle", NextRun(w),
           UNCHANGED <<pending, plan>>, NEW id, id = <<task[w].key, task[w].run>>
    PROVE  /\ TasksApart'
           /\ id \in OpenRuns /\ OpenRuns' = OpenRuns \ {id}
<1> DEFINE next == [task[w] EXCEPT !.pc = "run", !.run = task[w].run + 1, !.buf = <<>>]
           more == task[w].run < Len(plan[task[w].key])
<1>1. PICK t : t = IF more THEN next ELSE Idle
  OBVIOUS
<1>2. task' = [task EXCEPT ![w] = t]
  BY <1>1 DEF NextRun
<1>3. \A v \in Workers : task'[v] = IF v = w THEN t ELSE task[v]
  BY <1>2, TaskAfter
<1>4. /\ task[w] \in Task /\ task[w].run \in Nat
      /\ task[w].key \in DOMAIN plan /\ task[w].run \in DOMAIN plan[task[w].key]
  BY DEF Inv, TypeOK, TasksOK, Task
<1>5. /\ more => t.pc = "run" /\ t.key = task[w].key /\ t.run = task[w].run + 1
      /\ ~more => t.pc = "idle"
  BY <1>1, <1>4 DEF Task, Idle
<1>6. id \in AllRunIds /\ id \in OpenRuns
  <2>1. id \in AllRunIds
    BY <1>4, RunIds
  <2>2. InHand(id)
    BY <1>4 DEF InHand
  <2> QED
    BY <2>1, <2>2 DEF OpenRuns
<1>7. \A v \in Workers : /\ task'[v].pc # "idle" => task[v].pc # "idle"
                         /\ task'[v].pc # "idle" => task'[v].key = task[v].key
  BY <1>3, <1>5
<1>8. TasksApart'
  BY <1>7 DEF TasksApart
<1>9. ASSUME NEW d \in AllRunIds, d[1] # task[w].key
      PROVE  (InHand(d)' <=> InHand(d)) /\ d # id
  BY <1>3, <1>5, <1>9 DEF InHand
<1>10. ASSUME NEW d \in AllRunIds, d[1] = task[w].key
       PROVE  /\ d[1] \notin pending
              /\ InHand(d)' <=> InHand(d) /\ d # id
  <2>1. d = <<d[1], d[2]>> /\ d[2] \in 1 .. Len(plan[task[w].key]) /\ Len(plan[task[w].key]) \in Nat
    BY <1>10, RunNumbers
  <2>2. InHand(d) <=> task[w].run <= d[2]
    BY <1>10 DEF InHand, TasksApart
  <2>3. InHand(d)' <=> task'[w].pc # "idle" /\ task'[w].key = d[1] /\ task'[w].run <= d[2]
    BY <1>3, <1>5, <1>10 DEF InHand, TasksApart
  <2>4. task'[w] = t
    BY <1>3
  <2>5. InHand(d)' <=> more /\ task[w].run + 1 <= d[2]
    BY <1>5, <1>10, <2>3, <2>4
  <2>6. d # id <=> d[2] # task[w].run
    BY <1>10, <2>1
  <2>7. d[1] \notin pending
    BY <1>10 DEF TasksApart
  <2>8. more /\ task[w].run + 1 <= d[2] <=> task[w].run <= d[2] /\ d[2] # task[w].run
    BY <1>4, <2>1
  <2> QED
    BY <2>2, <2>5, <2>6, <2>7, <2>8
<1>11. AllRunIds' = AllRunIds
  BY DEF AllRunIds
<1>12. OpenRuns' = OpenRuns \ {id}
  BY <1>9, <1>10, <1>11 DEF OpenRuns
<1> QED
  BY <1>6, <1>8, <1>12

\* A pair that is taken has all its runs in front of its task.
LEMMA TakingOpensNothing ==
    ASSUME Inv, TasksApart, NEW w \in Workers, NEW k \in pending, TakePair(w, k)
    PROVE  /\ TasksApart'
           /\ OpenRuns' \subseteq OpenRuns
           /\ Refusal(k) = "ok" => OpenRuns' = OpenRuns
<1>1. PICK t : t = IF Refusal(k) = "ok"
                   THEN [pc |-> "run", key |-> k, run |-> 1,
                         src |-> path[k[2]].ino, dst |-> path[k[3]].ino,
                         buf |-> <<>>, since |-> 0]
                   ELSE Idle
  OBVIOUS
<1>2. /\ task' = [task EXCEPT ![w] = t] /\ pending' = pending \ {k} /\ plan' = plan
      /\ task[w].pc = "idle"
  BY <1>1 DEF TakePair, planVars
<1>3. \A v \in Workers : task'[v] = IF v = w THEN t ELSE task[v]
  BY <1>2, TaskAfter
<1>4. t.pc # "idle" => t.key = k /\ t.run = 1
  BY <1>1 DEF Idle
<1>5. TasksApart'
  BY <1>2, <1>3, <1>4 DEF TasksApart
<1>6. AllRunIds' = AllRunIds
  BY <1>2 DEF AllRunIds
<1>7. ASSUME NEW d \in AllRunIds, d[1] # k
      PROVE  d \in OpenRuns' <=> d \in OpenRuns
  <2>1. InHand(d)' <=> InHand(d)
    BY <1>2, <1>3, <1>4, <1>7 DEF InHand
  <2> QED
    BY <1>2, <1>6, <1>7, <2>1 DEF OpenRuns
<1>8. ASSUME NEW d \in AllRunIds, d[1] = k
      PROVE  d \in OpenRuns /\ (Refusal(k) = "ok" => d \in OpenRuns')
  <2>1. d \in OpenRuns
    BY <1>8 DEF OpenRuns
  <2>2. ASSUME Refusal(k) = "ok" PROVE InHand(d)'
    <3>1. 1 <= d[2]
      BY RunNumbers
    <3>2. task'[w].pc = "run" /\ task'[w].key = k /\ task'[w].run = 1
      BY <1>1, <1>3, <2>2
    <3> QED
      BY <1>8, <3>1, <3>2 DEF InHand
  <2> QED
    BY <1>6, <2>1, <2>2 DEF OpenRuns
<1>9. OpenRuns \subseteq AllRunIds /\ OpenRuns' \subseteq AllRunIds
  BY <1>6 DEF OpenRuns
<1> QED
  BY <1>5, <1>7, <1>8, <1>9

\* A pair over something that is no file is done with at once.
LEMMA TakingSpecialOpensNothing ==
    ASSUME TasksApart, NEW w \in Workers, NEW k \in pending, TakeSpecial(w, k)
    PROVE  TasksApart' /\ OpenRuns' \subseteq OpenRuns
<1>1. pending' = pending \ {k} /\ UNCHANGED <<plan, task>>
  BY DEF TakeSpecial, planVars
<1>2. TasksApart'
  BY <1>1 DEF TasksApart
<1>3. AllRunIds' = AllRunIds
  BY <1>1 DEF AllRunIds
<1>4. \A d : InHand(d)' <=> InHand(d)
  BY <1>1 DEF InHand
<1> QED
  BY <1>1, <1>2, <1>3, <1>4 DEF OpenRuns

LEMMA NextApart ==
    ASSUME Inv, TasksApart, [Next]_vars
    PROVE  TasksApart'
<1>1. ASSUME UNCHANGED <<pending, task>> PROVE TasksApart'
  BY <1>1 DEF TasksApart
<1>2. CASE Plan
  <2>1. task' = task /\ \A w \in Workers : task[w].pc = "idle"
    BY <1>2 DEF Plan, PlanStep, GroupPairs, Coalesce, PlanReady, Inv, TypeOK, TasksOK
  <2> QED
    BY <2>1 DEF TasksApart
<1>3. CASE Finish
  BY <1>1, <1>3 DEF Finish, toolVars
<1>4. ASSUME NEW w \in Workers, WorkerStep(w) PROVE TasksApart'
  <2>1. PICK r : r = RunOf(w)
    OBVIOUS
  <2>2. UNCHANGED plan /\ (task[w].pc # "idle" => UNCHANGED pending)
    BY <1>4 DEF WorkerStep, TakePair, TakeSpecial, StartRun, ReadDst, CloneRange, IoFault, planVars
  <2>3. task[w] \in Task
    BY DEF Inv, TypeOK, TasksOK
  <2>4. CASE task[w].pc # "idle" /\ NextRun(w)
    BY <2>2, <2>4, NextRunCloses
  <2>5. CASE \E k \in pending : TakePair(w, k)
    BY <2>5, TakingOpensNothing
  <2>6. ASSUME NEW t, task' = [task EXCEPT ![w] = t], task[w].pc # "idle",
               t.pc # "idle", t.key = task[w].key, t.run = task[w].run
        PROVE  TasksApart'
    BY <2>2, <2>6, GoingOnOpensNothing
  <2>7. PICK t, u : /\ t = [task[w] EXCEPT !.pc = "read_dst", !.since = userOps,
                                           !.buf = ValuesIn(r.src, r.sfirst, r.n)]
                    /\ u = [task[w] EXCEPT !.pc = "clone"]
    OBVIOUS
  <2>8. /\ t.pc = "read_dst" /\ t.key = task[w].key /\ t.run = task[w].run
        /\ u.pc = "clone" /\ u.key = task[w].key /\ u.run = task[w].run
    BY <2>3, <2>7 DEF Task
  <2>9. \/ task[w].pc # "idle" /\ NextRun(w)
        \/ \E k \in pending : TakePair(w, k)
        \/ \E k \in pending : TakeSpecial(w, k)
        \/ task[w].pc # "idle" /\ task' = [task EXCEPT ![w] = t]
        \/ task[w].pc # "idle" /\ task' = [task EXCEPT ![w] = u]
    <3>1. \/ task[w].pc # "idle" /\ NextRun(w)
          \/ \E k \in pending : TakePair(w, k)
          \/ \E k \in pending : TakeSpecial(w, k)
          \/ /\ Compare /\ disk' = disk /\ task[w].pc # "idle"
             /\ Reaches(r.src, r.sfirst, r.n, r.tail)
             /\ task' = [task EXCEPT ![w] = [task[w] EXCEPT !.pc = "read_dst", !.since = userOps,
                                                !.buf = ValuesIn(r.src, r.sfirst, r.n)]]
          \/ /\ disk' = disk /\ task[w].pc = "read_dst"
             /\ Reaches(r.dst, r.dfirst, r.n, r.tail)
             /\ ValuesIn(r.dst, r.dfirst, r.n) = task[w].buf
             /\ task' = [task EXCEPT ![w] = [task[w] EXCEPT !.pc = "clone"]]
      BY <1>4, <2>1, StepOfATask, Zenon
    <3> QED
      BY <2>7, <3>1
  <2>10. CASE \E k \in pending : TakeSpecial(w, k)
    BY <2>10, TakingSpecialOpensNothing
  <2> QED
    BY <2>4, <2>5, <2>6, <2>8, <2>9, <2>10
<1>5. UserStep => UNCHANGED <<pending, task>>
  BY DEF UserStep, Overwrite, AppendByte, Shrink, Relink, Trouble, UserActs, toolVars
<1>6. UNCHANGED vars => UNCHANGED <<pending, task>>
  BY DEF vars, toolVars
<1> QED
  BY <1>1, <1>2, <1>3, <1>4, <1>5, <1>6 DEF Next, Returned

-----------------------------------------------------------------------------
(* A dry run foretells.                                                    *)

Rehearsal == userOps = 0 /\ faults = 0 /\ opts.dry_run /\ HonestSnapshot

\* A step of a task in a rehearsal: a pair or a buffer is taken, or the run it was
\* at is done and its bytes are counted.
LEMMA RehearsedStep ==
    ASSUME Inv, Calm, NoFallback, TasksApart, Rehearsal,
           NEW w \in Workers, WorkerStep(w), faults' = 0
    PROVE  \/ OpenRuns' = OpenRuns /\ stats'.bytes = stats.bytes
           \/ \E id, r : /\ HasInHand(w, id, r)
                         /\ id \in OpenRuns /\ OpenRuns' = OpenRuns \ {id}
                         /\ stats'.bytes = stats.bytes + r.len
<1>1. /\ stats \in [DOMAIN NoStats -> Nat] /\ task[w] \in Task
      /\ \A v \in DOMAIN NoStats : NoStats[v] = 0
      /\ "bytes" \in DOMAIN NoStats
  BY DEF Inv, TypeOK, TasksOK, NoStats
<1>2. ASSUME NEW fields, "bytes" \notin fields
      PROVE  /\ Count(fields).bytes = stats.bytes
             /\ \A n \in Nat : Saved(n, fields).bytes = stats.bytes + n
  BY <1>1, <1>2 DEF Count, Saved
<1>3. ASSUME NEW k \in pending, TakePair(w, k)
      PROVE  OpenRuns' = OpenRuns /\ stats'.bytes = stats.bytes
  <2>2. Refusal(k) = "ok"
    BY CalmPathsOpen DEF Rehearsal
  <2>3. OpenRuns' = OpenRuns
    BY <1>3, <2>2, TakingOpensNothing
  <2>4. stats' = Count({})
    BY <1>3, <2>2 DEF TakePair, Complaint
  <2> QED
    BY <1>2, <2>3, <2>4
<1>4. ASSUME StartRun(w) \/ ReadDst(w)
      PROVE  \/ OpenRuns' = OpenRuns /\ stats'.bytes = stats.bytes
             \/ \E id, r : /\ HasInHand(w, id, r)
                           /\ id \in OpenRuns /\ OpenRuns' = OpenRuns \ {id}
                           /\ stats'.bytes = stats.bytes + r.len
  <2>1. UNCHANGED <<pending, plan>> /\ task[w].pc # "idle"
    BY <1>4 DEF StartRun, ReadDst, planVars
  <2>2. PICK id, r : id = <<task[w].key, task[w].run>> /\ r = RunOf(w)
    OBVIOUS
  <2>3. HasInHand(w, id, r)
    BY <2>1, <2>2 DEF HasInHand, Calm, CalmTask, Rehearsal
  <2>4. /\ r.len # 0 /\ r.len = r.dlen /\ KernelAgrees(r)
        /\ Reaches(r.src, r.sfirst, r.n, r.tail) /\ Reaches(r.dst, r.dfirst, r.n, r.tail)
    BY <2>3, HonestRanges DEF Rehearsal
  <2>5. CASE StartRun(w)
    <3>1. ReadSrc(w, r)
      BY <2>2, <2>4, <2>5 DEF StartRun, Compare, Rehearsal
    <3>2. PICK t : t = [task[w] EXCEPT !.pc = "read_dst", !.since = userOps,
                                       !.buf = ValuesIn(r.src, r.sfirst, r.n)]
      OBVIOUS
    <3>3. task' = [task EXCEPT ![w] = t] /\ stats' = Count({"candidates"})
      BY <2>4, <3>1, <3>2 DEF ReadSrc
    <3>4. t.pc = "read_dst" /\ t.key = task[w].key /\ t.run = task[w].run
      BY <1>1, <3>2 DEF Task
    <3>5. OpenRuns' = OpenRuns
      BY <2>1, <3>3, <3>4, GoingOnOpensNothing
    <3> QED
      BY <1>2, <3>3, <3>5
  <2>6. CASE ReadDst(w)
    <3>1. CalmTask(task[w], r) /\ task[w].pc = "read_dst"
      BY <2>2, <2>6 DEF ReadDst, Calm, Rehearsal
    <3>2. BuffersAgree(w, r)
      BY <2>4, <3>1 DEF CalmTask, KernelAgrees, BuffersAgree
    <3>3. stats' = Saved(r.len, {"verified"}) /\ NextRun(w)
      BY <2>2, <2>4, <2>6, <3>2 DEF ReadDst, Rehearsal
    <3>4. r.len \in Nat
      BY <2>3, RunInHand DEF Request
    <3>5. id \in OpenRuns /\ OpenRuns' = OpenRuns \ {id}
      BY <2>1, <2>2, <3>3, NextRunCloses
    <3>6. stats'.bytes = stats.bytes + r.len
      BY <1>2, <3>3, <3>4
    <3> QED
      BY <2>3, <3>5, <3>6
  <2> QED
    BY <1>4, <2>5, <2>6
<1>5. ~CloneRange(w)
  BY DEF CloneRange, NoFallback
<1>6. ~\E field : IoFault(w, field)
  BY DEF IoFault, Rehearsal
<1>7. \A k \in pending : ~TakeSpecial(w, k)
  BY CalmPathsOpen DEF Rehearsal
<1> QED
  BY <1>3, <1>4, <1>5, <1>6, <1>7 DEF WorkerStep

\* Finitely many files have finitely many chunks to index.
LEMMA LocsAreFinite ==
    ASSUME Inv, SizesHold, IsFiniteSet(DOMAIN files)
    PROVE  IsFiniteSet(IndexedLocs)
<1> DEFINE w == [i \in DOMAIN files |-> Len(disk[files[i].ino])]
           S == Bytes(w, DOMAIN files)
           At(p) == [file |-> p[1], chunk |-> p[2] - 1]
           T == { At(p) : p \in S }
<1>1. GoodSnapshot(files, cache)
  BY DEF Inv, TypeOK, PlanTypeOK
<1>2. \A i \in DOMAIN files : files[i].ino \in DOMAIN disk /\ disk[files[i].ino] \in Seq(Block)
  BY DEF Inv, TypeOK, DiskOK
<1>3. \A i \in DOMAIN files : w[i] \in Nat
  BY <1>2
<1>4. IsFiniteSet(S)
  <2> HIDE DEF w
  <2> QED
    BY <1>3, BytesAreFinite
<1>5. IsFiniteSet(T)
  <2>1. PICK f : f = [p \in S |-> At(p)]
    OBVIOUS
  <2>2. f \in Surjection(S, T)
    BY <2>1 DEF Surjection
  <2> HIDE DEF S, T
  <2> QED
    BY <1>4, <2>2, FS_Surjection
<1>6. ASSUME NEW l \in IndexedLocs PROVE l \in T
  <2>1. l \in Location /\ l.file \in DOMAIN files
    BY <1>1, ChunkLocations DEF IndexedLocs
  <2>2. l.chunk + 1 \in 1 .. w[l.file]
    BY <1>2, <2>1 DEF SizesHold
  <2>3. <<l.file, l.chunk + 1>> \in S
    BY <2>1, <2>2 DEF Bytes
  <2>4. PICK p \in S : p[1] = l.file /\ p[2] = l.chunk + 1
    BY <2>3
  <2>5. At(p) = l
    BY <2>1, <2>4 DEF Location
  <2> QED
    BY <2>4, <2>5
<1>7. IndexedLocs \subseteq T
  BY <1>6
<1> QED
  BY <1>5, <1>7, FS_Subset

\* What the chunk pairs of the index are to give back, each the length of its copy.
PairBytes == [p \in AllPairs |-> LenOf(files, p.dst, p.blksz)]

LEMMA PairsAreFinite ==
    ASSUME Inv, SizesHold, IsFiniteSet(DOMAIN files)
    PROVE  IsFiniteSet(AllPairs) /\ \A p \in AllPairs : PairBytes[p] \in Nat
<1> DEFINE f == [p \in AllPairs |-> p.dst]
<1>1. GoodSnapshot(files, cache) /\ AllPairs = PairsOf(files, cache)
  BY DEF Inv, TypeOK, PlanTypeOK, AllPairs, PairsOf
<1>2. f \in Injection(AllPairs, IndexedLocs)
  <2>1. \A p \in AllPairs : p.dst \in IndexedLocs
    BY PairIsIndexed
  <2>2. \A p, q \in AllPairs : p.dst = q.dst => p = q
    BY <1>1, RolesOfAChunk
  <2> QED
    BY <2>1, <2>2 DEF Injection, IsInjective
<1>3. IsFiniteSet(AllPairs)
  <2> HIDE DEF f
  <2> QED
    BY <1>2, LocsAreFinite, FS_Injection
<1>4. ASSUME NEW p \in AllPairs PROVE PairBytes[p] \in Nat
  <2>1. /\ p.dst.file \in DOMAIN files /\ p.dst.chunk \in Nat /\ p.blksz \in Nat
    BY <1>1, PairTypes DEF Location
  <2>2. files[p.dst.file].size \in Nat /\ p.dst.chunk * p.blksz \in Nat
    BY <1>1, <2>1 DEF GoodSnapshot
  <2>3. LenOf(files, p.dst, p.blksz) \in Nat
    BY <2>1, <2>2 DEF LenOf, chunk_len, LowerOf, SatSub
  <2> QED
    BY <2>3 DEF PairBytes
<1> QED
  BY <1>3, <1>4

\* A run in hand stands for pairs that together are as long as it asks for.
LEMMA BytesOfARun ==
    ASSUME Inv, NEW w \in Workers, NEW id, NEW r, HasInHand(w, id, r)
    PROVE  Total(PairBytes, Covered(id)) = r.len /\ r.len \in Nat
<1>0. PICK n, lens, f : /\ n = r.n
                       /\ lens = [j \in 0 .. n - 1 |-> PairBytes[PairIn(id, j)]]
                       /\ f = [j \in 0 .. n - 1 |-> PairIn(id, j)]
  OBVIOUS
<1>1. /\ r \in Request /\ id \in AllRunIds /\ r.n = RunAt(id).chunks
      /\ r.tail = r.len - (r.n - 1) * r.blksz
  BY RunInHand
<1>2. /\ n \in Nat \ {0} /\ r.n = n
      /\ r.blksz \in Nat \ {0} /\ r.len \in Nat /\ r.tail \in Nat
  BY <1>0, <1>1, TailInHand DEF Request
<1>3. ASSUME NEW j \in 0 .. n - 1
      PROVE  LET p == PairIn(id, j) IN
             /\ p \in AllPairs /\ p.blksz = r.blksz
             /\ p.dst.file = id[1][3] /\ p.dst.chunk + 1 = r.dfirst + (j + 1)
             /\ p.dst.chunk \in Nat
  <2>1. j + 1 \in 1 .. r.n /\ j + 1 - 1 = j
    BY <1>2
  <2> QED
    BY <2>1, PairInHand
<1>4. lens[n - 1] = r.tail
  <2>1. PICK p : p = PairIn(id, n - 1)
    OBVIOUS
  <2>2. p \in AllPairs /\ p.blksz = r.blksz /\ r.tail = LenOf(files, p.dst, r.blksz)
    BY <1>2, <1>3, <2>1, TailInHand
  <2> QED
    BY <1>0, <1>2, <2>1, <2>2 DEF PairBytes
<1>5. ASSUME NEW j \in 0 .. n - 2 PROVE lens[j] = r.blksz
  <2>1. PICK p, q : p = PairIn(id, j) /\ q = PairIn(id, n - 1)
    OBVIOUS
  <2>2. /\ p \in AllPairs /\ q \in AllPairs /\ p.blksz = r.blksz /\ q.blksz = r.blksz
        /\ p.dst.file = q.dst.file /\ p.dst.chunk < q.dst.chunk
        /\ p.dst.chunk \in Nat /\ q.dst.chunk \in Nat
    <3>1. p.dst.chunk + 1 = r.dfirst + (j + 1) /\ q.dst.chunk + 1 = r.dfirst + (n - 1 + 1)
      BY <1>2, <1>3, <2>1
    <3>2. /\ p \in AllPairs /\ q \in AllPairs /\ p.blksz = r.blksz /\ q.blksz = r.blksz
          /\ p.dst.file = q.dst.file /\ p.dst.chunk \in Nat /\ q.dst.chunk \in Nat
      BY <1>2, <1>3, <2>1
    <3>3. r.dfirst \in Nat
      BY <1>1 DEF Request
    <3> QED
      BY <1>2, <3>1, <3>2, <3>3
  <2>3. /\ q.dst.file \in DOMAIN files /\ LenOf(files, q.dst, q.blksz) # 0
        /\ files[q.dst.file].size \in Nat
    BY <2>2, PairLengths DEF Inv, TypeOK, PlanTypeOK, GoodSnapshot
  <2>4. chunk_len(files[q.dst.file], q.dst.chunk, r.blksz) # 0
    BY <2>2, <2>3 DEF LenOf
  <2>5. chunk_len(files[q.dst.file], p.dst.chunk, r.blksz) = r.blksz
    BY <1>2, <2>2, <2>3, <2>4, OnlyTheLastIsShort
  <2>6. LenOf(files, p.dst, p.blksz) = r.blksz
    BY <2>2, <2>5 DEF LenOf
  <2>7. PairBytes[p] = r.blksz
    BY <2>2, <2>6 DEF PairBytes
  <2> QED
    BY <1>0, <1>2, <2>1, <2>7
<1>6. Total(lens, 0 .. n - 1) = (n - 1) * r.blksz + r.tail
  <2>1. PICK b, t : b = r.blksz /\ t = r.tail
    OBVIOUS
  <2>2. n \in Nat \ {0} /\ b \in Nat /\ t \in Nat
    BY <1>2, <2>1
  <2>3. LastOf(lens, n, b, t)
    BY <1>4, <1>5, <2>1 DEF LastOf
  <2>4. Total(lens, 0 .. n - 1) = (n - 1) * b + t
    BY <2>2, <2>3, TotalOfRun, Zenon
  <2> QED
    BY <2>1, <2>4
<1>7. f \in Bijection(0 .. n - 1, Covered(id))
  <2>1. Covered(id) = { PairIn(id, j) : j \in 0 .. n - 1 }
    BY <1>1, <1>2, PairsInRun
  <2>2. ASSUME NEW i \in 0 .. n - 1, NEW j \in 0 .. n - 1, PairIn(id, i) = PairIn(id, j)
        PROVE  i = j
    <3>1. PICK p : p = PairIn(id, i) /\ p = PairIn(id, j)
      BY <2>2
    <3>2. p.dst.chunk + 1 = r.dfirst + (i + 1) /\ p.dst.chunk + 1 = r.dfirst + (j + 1)
      BY <1>3, <3>1
    <3>3. r.dfirst \in Nat /\ i \in Nat /\ j \in Nat
      BY <1>1, <1>2 DEF Request
    <3> QED
      BY <3>2, <3>3
  <2> QED
    BY <1>0, <2>1, <2>2 DEF Bijection, Injection, Surjection, IsInjective
<1>8. IsFiniteSet(0 .. n - 1) /\ \A j \in 0 .. n - 1 : lens[j] \in Nat
  <2>1. 0 \in Int /\ n - 1 \in Int
    BY <1>2
  <2>2. \A j \in 0 .. n - 1 : j \in 0 .. n - 2 \/ j = n - 1
    BY <1>2
  <2> QED
    BY <1>2, <1>4, <1>5, <2>1, <2>2, FS_Interval
<1>9. \A j \in 0 .. n - 1 : PairBytes[f[j]] = lens[j]
  BY <1>0
<1>10. Total(PairBytes, Covered(id)) = Total(lens, 0 .. n - 1)
  <2>1. PICK J, T, v : J = 0 .. n - 1 /\ T = Covered(id) /\ v = PairBytes
    OBVIOUS
  <2>2. /\ f \in Bijection(J, T) /\ IsFiniteSet(J)
        /\ \A j \in J : lens[j] \in Nat /\ v[f[j]] = lens[j]
    BY <1>7, <1>8, <1>9, <2>1
  <2>3. Total(v, T) = Total(lens, J)
    BY <2>2, TotalRenamed
  <2> QED
    BY <2>1, <2>3
<1>11. PICK full : full = (n - 1) * r.blksz
  OBVIOUS
<1>12. full \in Nat /\ r.tail = r.len - full
  <2>1. n - 1 \in Nat
    BY <1>2
  <2> QED
    BY <1>1, <1>2, <1>11, <2>1
<1> QED
  BY <1>2, <1>6, <1>10, <1>11, <1>12

\* The chunk pairs of the runs that are left to do.
OpenPairs == UNION { Covered(id) : id \in OpenRuns }

LEMMA ClosingARun ==
    ASSUME Inv, HonestSnapshot, IsFiniteSet(DOMAIN files), UNCHANGED plan,
           NEW id \in OpenRuns, OpenRuns' = OpenRuns \ {id}
    PROVE  Total(PairBytes, OpenPairs) = Total(PairBytes, Covered(id)) + Total(PairBytes, OpenPairs')
<1>1. OpenRuns \subseteq AllRunIds
  BY DEF OpenRuns
<1>2. \A d : Covered(d)' = Covered(d)
  BY DEF Covered, RunAt
<1>3. OpenPairs' = UNION { Covered(d) : d \in OpenRuns \ {id} }
  BY <1>2 DEF OpenPairs
<1>4. \A d \in AllRunIds \ {id} : Covered(d) \cap Covered(id) = {}
  BY <1>1 DEF Inv, Accounted
<1>5. Covered(id) \subseteq OpenPairs /\ OpenPairs' = OpenPairs \ Covered(id)
  BY <1>1, <1>3, <1>4 DEF OpenPairs
<1>6. OpenPairs \subseteq AllPairs
  BY <1>1, PairsInRun DEF OpenPairs
<1>7. IsFiniteSet(OpenPairs) /\ \A p \in OpenPairs : PairBytes[p] \in Nat
  BY <1>6, PairsAreFinite, FS_Subset DEF HonestSnapshot
<1> QED
  BY <1>5, <1>7, TotalOfRest

\* What a dry run has counted and what the runs left to do stand for are together
\* what all pairs of the index stand for.
Foretold ==
    /\ phase \in {"index", "plan"} => stats.bytes = 0
    /\ Rehearsal /\ phase \in {"clone", "done"} =>
          stats.bytes + Total(PairBytes, OpenPairs) = Total(PairBytes, AllPairs)

LEMMA NextForetells ==
    ASSUME Inv, Calm, opts.dry_run => NoFallback, TasksApart,
           IsFiniteSet(DOMAIN files), Foretold, [Next]_vars
    PROVE  Foretold'
<1>1. ASSUME phase' \in {"index", "plan"} PROVE stats'.bytes = 0
  <2>1. ASSUME NEW w \in Workers, WorkerStep(w) PROVE phase' = "clone"
    BY <2>1 DEF WorkerStep, TakePair, TakeSpecial, StartRun, ReadDst, CloneRange, IoFault, planVars,
                Inv, TypeOK, TasksOK
  <2>2. UserStep => UNCHANGED <<phase, stats>>
    BY DEF UserStep, Overwrite, AppendByte, Shrink, Relink, Trouble, UserActs, planVars, toolVars
  <2>3. Plan => stats' = stats /\ phase \in {"index", "plan"}
    BY DEF Plan, PlanStep, GroupPairs, Coalesce, PlanReady
  <2>4. Finish => phase' = "done"
    BY DEF Finish
  <2>5. UNCHANGED vars => UNCHANGED <<phase, stats>>
    BY DEF vars, planVars, toolVars
  <2>6. stats' = stats /\ phase \in {"index", "plan"}
    BY <1>1, <2>1, <2>2, <2>3, <2>4, <2>5 DEF Next, Returned
  <2> QED
    BY <2>6 DEF Foretold
<1> SUFFICES ASSUME Rehearsal', phase' \in {"clone", "done"}
             PROVE  stats'.bytes + Total(PairBytes', OpenPairs') = Total(PairBytes', AllPairs')
  BY <1>1 DEF Foretold
<1>2. /\ UNCHANGED <<files, cache>> /\ ~UserStep /\ Rehearsal
  <2>1. userOps' = 0 /\ faults' = 0 /\ HonestSnapshot'
    BY DEF Rehearsal
  <2>2. /\ userOps = 0 /\ faults = 0 /\ HonestSnapshot
        /\ UNCHANGED <<files, cache, opts>> /\ ~UserStep
    BY <2>1, UndisturbedSoFar
  <2> QED
    BY <2>2 DEF Rehearsal
<1>3. AllPairs' = AllPairs /\ PairBytes' = PairBytes
  BY <1>2 DEF AllPairs, PairBytes
<1>4. \A d : plan' = plan => Covered(d)' = Covered(d)
  BY DEF Covered, RunAt
<1>5. ASSUME UNCHANGED <<plan, phase, stats>>, OpenRuns' = OpenRuns
      PROVE  stats'.bytes + Total(PairBytes', OpenPairs') = Total(PairBytes', AllPairs')
  <2>1. OpenPairs' = OpenPairs
    BY <1>4, <1>5 DEF OpenPairs
  <2> QED
    BY <1>2, <1>3, <1>5, <2>1 DEF Foretold
<1>6. ASSUME NEW w \in Workers, WorkerStep(w)
      PROVE  stats'.bytes + Total(PairBytes', OpenPairs') = Total(PairBytes', AllPairs')
  <2>1. UNCHANGED <<plan, phase>>
    BY <1>6 DEF WorkerStep, TakePair, TakeSpecial, StartRun, ReadDst, CloneRange, IoFault, planVars
  <2>2. stats.bytes + Total(PairBytes, OpenPairs) = Total(PairBytes, AllPairs)
    BY <1>2, <2>1 DEF Foretold
  <2>3. faults' = 0 /\ NoFallback
    BY <1>2 DEF Rehearsal
  <2>4. CASE OpenRuns' = OpenRuns /\ stats'.bytes = stats.bytes
    <3>1. OpenPairs' = OpenPairs
      BY <1>4, <2>1, <2>4 DEF OpenPairs
    <3> QED
      BY <1>3, <2>2, <2>4, <3>1
  <2>5. CASE \E id, r : /\ HasInHand(w, id, r)
                        /\ id \in OpenRuns /\ OpenRuns' = OpenRuns \ {id}
                        /\ stats'.bytes = stats.bytes + r.len
    <3>1. PICK id, r : /\ HasInHand(w, id, r)
                       /\ id \in OpenRuns /\ OpenRuns' = OpenRuns \ {id}
                       /\ stats'.bytes = stats.bytes + r.len
      BY <2>5
    <3>2. Total(PairBytes, Covered(id)) = r.len /\ r.len \in Nat
      BY <3>1, BytesOfARun
    <3>3. Total(PairBytes, OpenPairs) = Total(PairBytes, Covered(id)) + Total(PairBytes, OpenPairs')
      BY <1>2, <2>1, <3>1, ClosingARun DEF Rehearsal
    <3>4. Total(PairBytes, OpenPairs') \in Nat /\ stats.bytes \in Nat
      <4>1. OpenPairs' \subseteq AllPairs
        <5>1. OpenPairs \subseteq AllPairs
          BY PairsInRun DEF OpenPairs, OpenRuns
        <5>2. OpenPairs' \subseteq OpenPairs
          BY <1>4, <2>1, <3>1 DEF OpenPairs
        <5> QED
          BY <5>1, <5>2
      <4>2. IsFiniteSet(OpenPairs') /\ \A p \in OpenPairs' : PairBytes[p] \in Nat
        BY <1>2, <4>1, PairsAreFinite, FS_Subset DEF Rehearsal, HonestSnapshot
      <4>3. "bytes" \in DOMAIN NoStats
        BY DEF NoStats
      <4> QED
        BY <4>2, <4>3, BytesAreFinite DEF Inv, TypeOK
    <3> QED
      BY <1>3, <2>2, <3>1, <3>2, <3>3, <3>4
  <2> QED
    BY <1>2, <1>6, <2>3, <2>4, <2>5, RehearsedStep
<1>7. ASSUME Plan
      PROVE  stats'.bytes + Total(PairBytes', OpenPairs') = Total(PairBytes', AllPairs')
  <2>1. /\ phase = "plan" /\ pairs = {} /\ UNCHANGED <<plan, stats>>
        /\ pending' = DOMAIN plan
    BY <1>7 DEF Plan, PlanStep, GroupPairs, Coalesce, PlanReady
  <2>2. OpenRuns' = AllRunIds
    <3>1. \A d \in AllRunIds : d[1] \in DOMAIN plan
      BY RunNumbers
    <3>2. AllRunIds' = AllRunIds
      BY <2>1 DEF AllRunIds
    <3> QED
      BY <2>1, <3>1, <3>2 DEF OpenRuns
  <2>3. OpenPairs' = AllPairs
    <3>1. OpenPairs' = UNION { Covered(d) : d \in AllRunIds }
      BY <1>4, <2>1, <2>2 DEF OpenPairs
    <3>2. \A p \in AllPairs : \E id \in AllRunIds : p \in Covered(id)
      BY <2>1 DEF Inv, Accounted
    <3> QED
      BY <3>1, <3>2, PairsInRun
  <2>4. stats'.bytes = 0
    BY <2>1 DEF Foretold
  <2>5. Total(PairBytes, AllPairs) \in Nat
    BY <1>2, PairsAreFinite, BytesAreFinite DEF Rehearsal, HonestSnapshot
  <2> QED
    BY <1>3, <2>3, <2>4, <2>5
<1>8. ASSUME Finish
      PROVE  stats'.bytes + Total(PairBytes', OpenPairs') = Total(PairBytes', AllPairs')
  <2>1. /\ UNCHANGED <<plan, stats, task, pending>> /\ phase = "clone"
    BY <1>8 DEF Finish, toolVars
  <2>2. OpenRuns' = OpenRuns
    BY <2>1 DEF OpenRuns, AllRunIds, InHand
  <2>3. OpenPairs' = OpenPairs
    BY <1>4, <2>1, <2>2 DEF OpenPairs
  <2> QED
    BY <1>2, <1>3, <2>1, <2>3 DEF Foretold
<1>9. ASSUME UNCHANGED vars
      PROVE  stats'.bytes + Total(PairBytes', OpenPairs') = Total(PairBytes', AllPairs')
  <2>1. UNCHANGED <<plan, phase, stats, task, pending>>
    BY <1>9 DEF vars, planVars, toolVars
  <2>2. OpenRuns' = OpenRuns
    BY <2>1 DEF OpenRuns, AllRunIds, InHand
  <2> QED
    BY <1>5, <2>1, <2>2
<1> QED
  BY <1>2, <1>6, <1>7, <1>8, <1>9 DEF Next, Returned

\* The sums of the property, as numbers of bytes.
Sizes == [l \in IndexedLocs |-> BlockAt(l).len]
AllContents == { ContentAt(l) : l \in IndexedLocs }
Lengths == [x \in AllContents |-> x[3]]

LEMMA ContentsAreFinite ==
    ASSUME Inv, HonestSnapshot, IsFiniteSet(DOMAIN files)
    PROVE  /\ IsFiniteSet(IndexedLocs) /\ \A l \in IndexedLocs : Sizes[l] \in Nat
           /\ IsFiniteSet(AllContents) /\ \A x \in AllContents : Lengths[x] \in Nat
<1>1. IsFiniteSet(IndexedLocs)
  BY LocsAreFinite DEF HonestSnapshot
<1>2. \A l \in IndexedLocs : Sizes[l] \in Nat
  BY IndexedBlocks DEF Sizes
<1>3. IsFiniteSet(AllContents)
  <2>1. PICK f : f = [l \in IndexedLocs |-> ContentAt(l)]
    OBVIOUS
  <2>2. f \in Surjection(IndexedLocs, AllContents)
    BY <2>1 DEF Surjection, AllContents
  <2> QED
    BY <1>1, <2>2, FS_Surjection
<1>4. ASSUME NEW x \in AllContents PROVE Lengths[x] \in Nat
  <2>1. PICK l \in IndexedLocs : x = ContentAt(l)
    BY DEF AllContents
  <2>2. x[3] = BlockAt(l).len
    BY <2>1 DEF ContentAt
  <2> QED
    BY <2>2, IndexedBlocks DEF Lengths
<1> QED
  BY <1>1, <1>2, <1>3, <1>4

LEMMA SizesSummed ==
    ASSUME Inv, HonestSnapshot, IsFiniteSet(DOMAIN files)
    PROVE  MapThenSumSet(LAMBDA l : BlockAt(l).len, IndexedLocs) = Total(Sizes, IndexedLocs)
<1> DEFINE Solves(g) == g = [s \in SUBSET IndexedLocs |->
                               IF s = {} THEN 0
                               ELSE BlockAt(CHOOSE l \in s : TRUE).len
                                      + g[s \ {CHOOSE l \in s : TRUE}]]
<1>1. \A g : Solves(g) <=> Unfolds(g, Sizes, IndexedLocs)
  <2> SUFFICES ASSUME NEW g PROVE Solves(g) <=> Unfolds(g, Sizes, IndexedLocs)
    OBVIOUS
  <2> DEFINE c(s) == CHOOSE l \in s : TRUE
             lhs(s) == IF s = {} THEN 0 ELSE BlockAt(CHOOSE l \in s : TRUE).len + g[s \ {c(s)}]
             rhs(s) == IF s = {} THEN 0 ELSE Sizes[c(s)] + g[s \ {c(s)}]
  <2>1. ASSUME NEW s \in SUBSET IndexedLocs PROVE lhs(s) = rhs(s)
    <3>1. s # {} => Sizes[c(s)] = BlockAt(CHOOSE l \in s : TRUE).len
      BY DEF Sizes
    <3> QED
      BY <3>1
  <2>2. Solves(g) <=> g = [s \in SUBSET IndexedLocs |-> lhs(s)]
    OBVIOUS
  <2>3. Unfolds(g, Sizes, IndexedLocs) <=> g = [s \in SUBSET IndexedLocs |-> rhs(s)]
    BY Zenon DEF Unfolds
  <2> HIDE DEF Solves, lhs, rhs
  <2> QED
    BY <2>1, <2>2, <2>3
<1>2. Solves(CHOOSE g : Solves(g))
  <2>1. \E g : Solves(g)
    BY <1>1, RecursionHasASolution, ContentsAreFinite
  <2> QED
    BY <2>1, Zenon
<1>3. (CHOOSE g : Solves(g))[IndexedLocs] = Total(Sizes, IndexedLocs)
  BY <1>1, <1>2, RecursionSums, ContentsAreFinite
<1>4. MapThenSumSet(LAMBDA l : BlockAt(l).len, IndexedLocs) = (CHOOSE g : Solves(g))[IndexedLocs]
  BY DEF MapThenSumSet, MapThenFoldSet
<1> QED
  BY <1>3, <1>4

LEMMA LengthsSummed ==
    ASSUME Inv, HonestSnapshot, IsFiniteSet(DOMAIN files)
    PROVE  MapThenSumSet(LAMBDA x : x[3], AllContents) = Total(Lengths, AllContents)
<1> DEFINE Solves(g) == g = [s \in SUBSET AllContents |->
                               IF s = {} THEN 0
                               ELSE (CHOOSE x \in s : TRUE)[3] + g[s \ {CHOOSE x \in s : TRUE}]]
<1>1. \A g : Solves(g) <=> Unfolds(g, Lengths, AllContents)
  <2> SUFFICES ASSUME NEW g PROVE Solves(g) <=> Unfolds(g, Lengths, AllContents)
    OBVIOUS
  <2> DEFINE c(s) == CHOOSE x \in s : TRUE
             lhs(s) == IF s = {} THEN 0 ELSE (CHOOSE x \in s : TRUE)[3] + g[s \ {c(s)}]
             rhs(s) == IF s = {} THEN 0 ELSE Lengths[c(s)] + g[s \ {c(s)}]
  <2>1. ASSUME NEW s \in SUBSET AllContents PROVE lhs(s) = rhs(s)
    <3>1. s # {} => Lengths[c(s)] = (CHOOSE x \in s : TRUE)[3]
      BY DEF Lengths
    <3> QED
      BY <3>1
  <2>2. Solves(g) <=> g = [s \in SUBSET AllContents |-> lhs(s)]
    OBVIOUS
  <2>3. Unfolds(g, Lengths, AllContents) <=> g = [s \in SUBSET AllContents |-> rhs(s)]
    BY Zenon DEF Unfolds
  <2> HIDE DEF Solves, lhs, rhs
  <2> QED
    BY <2>1, <2>2, <2>3
<1>2. Solves(CHOOSE g : Solves(g))
  <2>1. \E g : Solves(g)
    BY <1>1, RecursionHasASolution, ContentsAreFinite
  <2> QED
    BY <2>1, Zenon
<1>3. (CHOOSE g : Solves(g))[AllContents] = Total(Lengths, AllContents)
  BY <1>1, <1>2, RecursionSums, ContentsAreFinite
<1>4. MapThenSumSet(LAMBDA x : x[3], AllContents) = (CHOOSE g : Solves(g))[AllContents]
  BY DEF MapThenSumSet, MapThenFoldSet
<1> QED
  BY <1>3, <1>4

\* What the pairs stand for is what the index knows twice: the chunks that are no
\* pair's destination are one of each content.
LEMMA PairsAreDuplicates ==
    ASSUME Inv, HonestSnapshot, IsFiniteSet(DOMAIN files)
    PROVE  Total(Sizes, IndexedLocs) = Total(PairBytes, AllPairs) + Total(Lengths, AllContents)
<1> DEFINE Copies == { p.dst : p \in AllPairs }
           Firsts == IndexedLocs \ Copies
<1>1. GoodSnapshot(files, cache) /\ AllPairs = PairsOf(files, cache)
  BY DEF Inv, TypeOK, PlanTypeOK, AllPairs, PairsOf
<1>2. Copies \subseteq IndexedLocs
  BY HonestPair
<1>3. /\ IsFiniteSet(Copies) /\ IsFiniteSet(Firsts)
      /\ Total(Sizes, IndexedLocs) = Total(Sizes, Copies) + Total(Sizes, Firsts)
  <2> HIDE DEF Copies
  <2> QED
    BY <1>2, ContentsAreFinite, TotalOfRest
<1>4. Total(Sizes, Copies) = Total(PairBytes, AllPairs)
  <2>1. PICK f : f = [p \in AllPairs |-> p.dst]
    OBVIOUS
  <2>2. f \in Bijection(AllPairs, Copies)
    <3>1. \A p, q \in AllPairs : p.dst = q.dst => p = q
      BY <1>1, RolesOfAChunk
    <3> QED
      BY <2>1, <3>1 DEF Bijection, Injection, Surjection, IsInjective
  <2>3. ASSUME NEW p \in AllPairs PROVE Sizes[f[p]] = PairBytes[p]
    <3>1. p.dst \in IndexedLocs /\ LenOf(files, p.dst, p.blksz) = BlockAt(p.dst).len
      BY HonestPair, PairLengths DEF Inv, TypeOK
    <3> QED
      BY <2>1, <3>1 DEF Sizes, PairBytes
  <2>4. IsFiniteSet(AllPairs) /\ \A p \in AllPairs : PairBytes[p] \in Nat
    BY PairsAreFinite DEF HonestSnapshot
  <2> HIDE DEF Copies
  <2> QED
    BY <2>2, <2>3, <2>4, TotalRenamed
<1>5. Total(Lengths, AllContents) = Total(Sizes, Firsts)
  <2>1. PICK f : f = [l \in Firsts |-> ContentAt(l)]
    OBVIOUS
  <2>2. f \in [Firsts -> AllContents]
    BY <2>1 DEF AllContents
  <2>3. ASSUME NEW l \in Firsts, NEW m \in Firsts, f[l] = f[m] PROVE l = m
    <3> SUFFICES ASSUME l # m PROVE FALSE
      OBVIOUS
    <3>1. ContentAt(l) = ContentAt(m)
      BY <2>1, <2>3
    <3>2. PICK first : \A x \in {l, m} : x = first \/ \E p \in AllPairs : p.src = first /\ p.dst = x
      BY <3>1, CopiesArePaired
    <3> QED
      BY <3>2
  <2>4. ASSUME NEW x \in AllContents PROVE \E l \in Firsts : f[l] = x
    <3>1. PICK l \in IndexedLocs : x = ContentAt(l)
      BY DEF AllContents
    <3>2. CASE l \in Firsts
      BY <2>1, <3>1, <3>2
    <3>3. CASE l \notin Firsts
      <4>1. PICK p \in AllPairs : p.dst = l
        BY <3>3
      <4>2. /\ p.src \in IndexedLocs
            /\ KeyAt(files, cache, p.src) = KeyAt(files, cache, l)
        BY <4>1, PairIsIndexed
      <4>3. ContentAt(p.src) = x
        BY <3>1, <4>2 DEF HonestSnapshot
      <4>4. p.src \in Firsts
        BY <1>1, <4>2, RolesOfAChunk
      <4> QED
        BY <2>1, <4>3, <4>4
    <3> QED
      BY <3>2, <3>3
  <2>5. f \in Bijection(Firsts, AllContents)
    <3> HIDE DEF Firsts
    <3> QED
      BY <2>2, <2>3, <2>4 DEF Bijection, Injection, Surjection, IsInjective
  <2>6. ASSUME NEW l \in Firsts PROVE Lengths[f[l]] = Sizes[l] /\ Sizes[l] \in Nat
    <3>1. ContentAt(l) \in AllContents /\ ContentAt(l)[3] = BlockAt(l).len
      BY DEF AllContents, ContentAt
    <3> QED
      BY <2>1, <3>1, ContentsAreFinite DEF Lengths, Sizes
  <2> HIDE DEF Firsts
  <2> QED
    BY <1>3, <2>5, <2>6, TotalRenamed
<1> QED
  BY <1>3, <1>4, <1>5

LEMMA DoneForetells ==
    ASSUME Inv, Drained, IsFiniteSet(DOMAIN files), Foretold
    PROVE  DryRunForetells
<1> SUFFICES ASSUME Rehearsal, phase = "done"
             PROVE  stats.bytes = MapThenSumSet(LAMBDA l : BlockAt(l).len, IndexedLocs)
                                    - MapThenSumSet(LAMBDA x : x[3], AllContents)
  BY DEF DryRunForetells, Undisturbed, Rehearsal, AllContents
<1>1. OpenPairs = {}
  <2>1. pending = {}
    BY DEF Drained
  <2>2. \A id : ~InHand(id)
    BY DEF InHand, Inv, TypeOK, TasksOK
  <2> QED
    BY <2>1, <2>2 DEF OpenPairs, OpenRuns
<1>2. stats.bytes + Total(PairBytes, {}) = Total(PairBytes, AllPairs)
  BY <1>1 DEF Foretold
<1>3. "bytes" \in DOMAIN NoStats
  BY DEF NoStats
<1>4. stats.bytes \in Nat /\ Total(PairBytes, {}) = 0
  BY <1>3, TotalOfNone DEF Inv, TypeOK
<1>5. HonestSnapshot
  BY DEF Rehearsal
<1>6. Total(Lengths, AllContents) \in Nat
  BY <1>5, ContentsAreFinite, BytesAreFinite
<1>7. Total(Sizes, IndexedLocs) = Total(PairBytes, AllPairs) + Total(Lengths, AllContents)
  BY <1>5, PairsAreDuplicates
<1>8. stats.bytes = Total(Sizes, IndexedLocs) - Total(Lengths, AllContents)
  BY <1>2, <1>4, <1>6, <1>7
<1>9. /\ MapThenSumSet(LAMBDA l : BlockAt(l).len, IndexedLocs) = Total(Sizes, IndexedLocs)
      /\ MapThenSumSet(LAMBDA x : x[3], AllContents) = Total(Lengths, AllContents)
  BY <1>5, SizesSummed, LengthsSummed
<1> QED
  BY <1>8, <1>9

\* An undisturbed dry run announces what a real one would give back: for any number
\* of files and tasks, what it has counted is the bytes of all indexed chunks less
\* those of one chunk of each content, because every run is counted once, by its
\* length, and the runs cover each chunk that has an earlier equal exactly once.
THEOREM DryRunsForetell ==
    Spec => []DryRunForetells
<1> DEFINE IInv == /\ Inv /\ Calm /\ (opts.dry_run => NoFallback) /\ Drained /\ TasksApart
                   /\ IsFiniteSet(DOMAIN files) /\ Foretold
<1>1. Init => IInv
  <2> SUFFICES ASSUME Init
               PROVE  /\ Calm /\ (opts.dry_run => NoFallback) /\ Drained /\ TasksApart
                      /\ IsFiniteSet(DOMAIN files) /\ Foretold
    BY InitTyped
  <2>1. \A w \in Workers : task[w].pc = "idle"
    BY DEF Init, Idle
  <2>2. stats.bytes = 0
    BY DEF Init, NoStats
  <2>3. IsFiniteSet(DOMAIN files)
    BY FilesAssumption DEF Init
  <2> QED
    BY <2>1, <2>2, <2>3 DEF Init, Calm, NoFallback, Drained, TasksApart, Foretold
<1>2. IInv /\ [Next]_vars => IInv'
  <2> SUFFICES ASSUME IInv, [Next]_vars PROVE IInv'
    OBVIOUS
  <2>1. UNCHANGED <<files, opts>>
    BY InputsStay
  <2>2. (opts.dry_run => NoFallback)'
    BY <2>1, NextNoFallback
  <2> QED
    BY <2>1, <2>2, NextKeepsInv, NextStaysCalm, NextDrained, NextApart, NextForetells
<1>3. IInv => DryRunForetells
  BY DoneForetells
<1> HIDE DEF IInv
<1> QED
  BY <1>1, <1>2, <1>3, PTL DEF Spec

-----------------------------------------------------------------------------
(* Every run is accounted for.                                             *)

Fates == stats.verified + stats.mismatches + stats.errors + stats.busy

\* What counting does to the sum of the four.
LEMMA FatesOfCounts ==
    ASSUME Inv, NEW fields,
           fields \cap {"verified", "mismatches", "errors", "busy"} = {}
    PROVE  /\ stats' = Count(fields) => Fates' = Fates
           /\ \A x \in {"verified", "mismatches", "errors", "busy"} :
                 stats' = Count(fields \cup {x}) => Fates' = Fates + 1
           /\ \A n : stats' = Saved(n, fields \cup {"verified"}) => Fates' = Fates + 1
<1>1. /\ stats \in [DOMAIN NoStats -> Nat]
      /\ "verified" \in DOMAIN NoStats /\ "mismatches" \in DOMAIN NoStats
      /\ "errors" \in DOMAIN NoStats /\ "busy" \in DOMAIN NoStats
  BY DEF Inv, TypeOK, NoStats
<1>2. PICK v, m, e, b \in Nat :
          v = stats.verified /\ m = stats.mismatches /\ e = stats.errors /\ b = stats.busy
  BY <1>1
<1>3. ASSUME stats' = Count(fields) PROVE Fates' = Fates
  <2>1. /\ stats'.verified = v + 0 /\ stats'.mismatches = m + 0
        /\ stats'.errors = e + 0 /\ stats'.busy = b + 0
    BY <1>1, <1>2, <1>3 DEF Count
  <2> QED
    BY <1>2, <2>1 DEF Fates
<1>4. ASSUME NEW x \in {"verified", "mismatches", "errors", "busy"}, NEW c,
             c = Count(fields \cup {x})
      PROVE  /\ c.verified = v + (IF x = "verified" THEN 1 ELSE 0)
             /\ c.mismatches = m + (IF x = "mismatches" THEN 1 ELSE 0)
             /\ c.errors = e + (IF x = "errors" THEN 1 ELSE 0)
             /\ c.busy = b + (IF x = "busy" THEN 1 ELSE 0)
  BY <1>1, <1>2, <1>4 DEF Count
<1>5. ASSUME NEW x \in {"verified", "mismatches", "errors", "busy"},
             stats' = Count(fields \cup {x})
      PROVE  Fates' = Fates + 1
  <2>1. /\ stats'.verified = v + (IF x = "verified" THEN 1 ELSE 0)
        /\ stats'.mismatches = m + (IF x = "mismatches" THEN 1 ELSE 0)
        /\ stats'.errors = e + (IF x = "errors" THEN 1 ELSE 0)
        /\ stats'.busy = b + (IF x = "busy" THEN 1 ELSE 0)
    BY <1>4, <1>5
  <2>2. CASE x = "verified"
    BY <1>2, <2>1, <2>2 DEF Fates
  <2>3. CASE x = "mismatches"
    BY <1>2, <2>1, <2>3 DEF Fates
  <2>4. CASE x = "errors"
    BY <1>2, <2>1, <2>4 DEF Fates
  <2>5. CASE x = "busy"
    BY <1>2, <2>1, <2>5 DEF Fates
  <2> QED
    BY <2>2, <2>3, <2>4, <2>5
<1>6. ASSUME NEW n, stats' = Saved(n, fields \cup {"verified"}) PROVE Fates' = Fates + 1
  <2>1. PICK c : c = Count(fields \cup {"verified"})
    OBVIOUS
  <2>2. /\ c.verified = v + 1 /\ c.mismatches = m + 0 /\ c.errors = e + 0 /\ c.busy = b + 0
    BY <1>4, <2>1
  <2>3. /\ stats'.verified = c.verified /\ stats'.mismatches = c.mismatches
        /\ stats'.errors = c.errors /\ stats'.busy = c.busy
    BY <1>6, <2>1 DEF Saved
  <2> QED
    BY <1>2, <2>2, <2>3 DEF Fates
<1> QED
  BY <1>3, <1>5, <1>6

\* While nobody writes, a step of a task closes one run and counts it once, or
\* neither.
LEMMA ClosingIsCounting ==
    ASSUME Inv, Calm, TasksApart, userOps = 0, SizesHold, NEW w \in Workers, WorkerStep(w)
    PROVE  \/ OpenRuns' = OpenRuns /\ Fates' = Fates
           \/ \E id \in OpenRuns : OpenRuns' = OpenRuns \ {id} /\ Fates' = Fates + 1
<1>1. task[w] \in Task
  BY DEF Inv, TypeOK, TasksOK
<1>2. ASSUME NEW k \in pending, TakePair(w, k)
      PROVE  OpenRuns' = OpenRuns /\ Fates' = Fates
  <2>1. Refusal(k) = "ok"
    BY CalmPathsOpen
  <2>2. stats' = Count({})
    BY <1>2, <2>1 DEF TakePair, Complaint
  <2> QED
    BY <1>2, <2>1, <2>2, TakingOpensNothing, FatesOfCounts
<1>3. PICK id, r : id = <<task[w].key, task[w].run>> /\ r = RunOf(w)
  OBVIOUS
<1>4. ASSUME task[w].pc # "idle"
      PROVE  /\ UNCHANGED <<pending, plan>>
             /\ r.len # 0 /\ r.len = r.dlen
             /\ Reaches(r.src, r.sfirst, r.n, r.tail) /\ Reaches(r.dst, r.dfirst, r.n, r.tail)
  <2>1. HasInHand(w, id, r)
    BY <1>3, <1>4 DEF HasInHand, Calm, CalmTask
  <2>2. UNCHANGED <<pending, plan>>
    BY <1>4 DEF WorkerStep, TakePair, TakeSpecial, StartRun, ReadDst, CloneRange, IoFault, planVars
  <2> QED
    BY <2>1, <2>2, RangesReach
<1>5. ASSUME task[w].pc # "idle", NextRun(w)
      PROVE  id \in OpenRuns /\ OpenRuns' = OpenRuns \ {id}
  BY <1>3, <1>4, <1>5, NextRunCloses
<1>6. ASSUME task[w].pc # "idle", NEW t, task' = [task EXCEPT ![w] = t],
             t.pc # "idle", t.key = task[w].key, t.run = task[w].run
      PROVE  OpenRuns' = OpenRuns
  BY <1>4, <1>6, GoingOnOpensNothing
<1>7. /\ {"candidates"} \cap {"verified", "mismatches", "errors", "busy"} = {}
      /\ {"candidates", "cloned"} \cap {"verified", "mismatches", "errors", "busy"} = {}
      /\ {"cloned"} \cap {"verified", "mismatches", "errors", "busy"} = {}
  OBVIOUS
<1>8. /\ {"candidates", "errors"} = {"candidates"} \cup {"errors"}
      /\ {"candidates", "mismatches"} = {"candidates"} \cup {"mismatches"}
      /\ {"candidates", "verified", "cloned"} = {"candidates", "cloned"} \cup {"verified"}
      /\ {"verified", "cloned"} = {"cloned"} \cup {"verified"}
      /\ {"mismatches"} = {} \cup {"mismatches"} /\ {"verified"} = {} \cup {"verified"}
      /\ {"errors"} = {} \cup {"errors"}
  OBVIOUS
<1>9. ASSUME StartRun(w)
      PROVE  \/ OpenRuns' = OpenRuns /\ Fates' = Fates
             \/ id \in OpenRuns /\ OpenRuns' = OpenRuns \ {id} /\ Fates' = Fates + 1
  <2>1. task[w].pc # "idle"
    BY <1>9 DEF StartRun
  <2>2. IF Compare THEN ReadSrc(w, r) ELSE DedupeRange(w, r)
    BY <1>3, <1>4, <1>9, <2>1 DEF StartRun
  <2>3. CASE Compare
    <3>1. PICK t : t = [task[w] EXCEPT !.pc = "read_dst", !.since = userOps,
                                       !.buf = ValuesIn(r.src, r.sfirst, r.n)]
      OBVIOUS
    <3>2. task' = [task EXCEPT ![w] = t] /\ stats' = Count({"candidates"})
      BY <1>4, <2>1, <2>2, <2>3, <3>1 DEF ReadSrc
    <3>3. t.pc = "read_dst" /\ t.key = task[w].key /\ t.run = task[w].run
      BY <1>1, <3>1 DEF Task
    <3> QED
      BY <1>6, <1>7, <2>1, <3>2, <3>3, FatesOfCounts
  <2>4. CASE ~Compare
    <3>1. /\ NextRun(w)
          /\ \/ stats' = Count({"candidates", "errors"})
             \/ stats' = Count({"candidates", "mismatches"})
             \/ \E n : stats' = Saved(n, {"candidates", "verified", "cloned"})
      BY <2>2, <2>4 DEF DedupeRange
    <3>2. Fates' = Fates + 1
      BY <1>7, <1>8, <3>1, FatesOfCounts
    <3> QED
      BY <1>5, <2>1, <3>1, <3>2
  <2> QED
    BY <2>3, <2>4
<1>10. ASSUME ReadDst(w)
       PROVE  \/ OpenRuns' = OpenRuns /\ Fates' = Fates
              \/ id \in OpenRuns /\ OpenRuns' = OpenRuns \ {id} /\ Fates' = Fates + 1
  <2>1. task[w].pc = "read_dst"
    BY <1>10 DEF ReadDst
  <2>2. \/ stats' = Count({"mismatches"}) /\ NextRun(w)
        \/ \E n : stats' = Saved(n, {"verified"}) /\ NextRun(w)
        \/ UNCHANGED stats /\ task' = [task EXCEPT ![w].pc = "clone"]
    BY <1>3, <1>4, <1>10, <2>1 DEF ReadDst
  <2>3. CASE UNCHANGED stats /\ task' = [task EXCEPT ![w].pc = "clone"]
    <3>1. PICK t : t = [task[w] EXCEPT !.pc = "clone"]
      OBVIOUS
    <3>2. task' = [task EXCEPT ![w] = t]
      BY <2>3, <3>1
    <3>3. t.pc = "clone" /\ t.key = task[w].key /\ t.run = task[w].run
      BY <1>1, <3>1 DEF Task
    <3>4. Fates' = Fates
      BY <2>3 DEF Fates
    <3> QED
      BY <1>6, <2>1, <3>2, <3>3, <3>4
  <2>4. ASSUME NextRun(w), \/ stats' = Count({"mismatches"})
                           \/ \E n : stats' = Saved(n, {"verified"})
        PROVE  Fates' = Fates + 1
    <3>1. {} \cap {"verified", "mismatches", "errors", "busy"} = {}
      OBVIOUS
    <3> QED
      BY <1>8, <2>4, <3>1, FatesOfCounts
  <2> QED
    BY <1>5, <2>1, <2>2, <2>3, <2>4
<1>11. ASSUME CloneRange(w)
       PROVE  id \in OpenRuns /\ OpenRuns' = OpenRuns \ {id} /\ Fates' = Fates + 1
  <2>1. /\ task[w].pc # "idle" /\ NextRun(w)
        /\ (\E n : stats' = Saved(n, {"verified", "cloned"})) \/ stats' = Count({"errors"})
    BY <1>11 DEF CloneRange
  <2>2. Fates' = Fates + 1
    <3>1. {} \cap {"verified", "mismatches", "errors", "busy"} = {}
      OBVIOUS
    <3> QED
      BY <1>7, <1>8, <2>1, <3>1, FatesOfCounts
  <2> QED
    BY <1>5, <2>1, <2>2
<1>12. ASSUME NEW field \in {"errors", "busy"}, IoFault(w, field)
       PROVE  id \in OpenRuns /\ OpenRuns' = OpenRuns \ {id} /\ Fates' = Fates + 1
  <2>1. PICK also : also = IF task[w].pc = "run" THEN {"candidates"} ELSE {}
    OBVIOUS
  <2>2. /\ task[w].pc # "idle" /\ NextRun(w)
        /\ stats' = Count(also \cup {field})
    <3>1. {field} \cup also = also \cup {field}
      OBVIOUS
    <3> QED
      BY <1>12, <2>1, <3>1 DEF IoFault
  <2>3. also \cap {"verified", "mismatches", "errors", "busy"} = {}
    BY <2>1
  <2>4. Fates' = Fates + 1
    BY <2>2, <2>3, FatesOfCounts
  <2> QED
    BY <1>5, <2>2, <2>4
<1> QED
  BY <1>2, <1>9, <1>10, <1>11, <1>12, CalmPathsOpen DEF WorkerStep

\* Finitely many chunk pairs make finitely many runs: no two share one.
LEMMA RunsAreFinite ==
    ASSUME Inv, SizesHold, IsFiniteSet(DOMAIN files), phase # "index"
    PROVE  IsFiniteSet(AllRunIds)
<1> DEFINE f == [id \in AllRunIds |-> PairIn(id, 0)]
<1>1. ASSUME NEW id \in AllRunIds PROVE f[id] \in Covered(id) /\ f[id] \in AllPairs
  <2>1. /\ RunAt(id) \in Run /\ Covered(id) \subseteq AllPairs
        /\ Covered(id) = { PairIn(id, j) : j \in 0 .. RunAt(id).chunks - 1 }
    BY PairsInRun
  <2>2. 0 \in 0 .. RunAt(id).chunks - 1
    BY <2>1 DEF Run
  <2> QED
    BY <2>1, <2>2
<1>2. \A r, s \in AllRunIds : r # s => Covered(r) \cap Covered(s) = {}
  BY DEF Inv, Accounted
<1>3. \A r, s \in AllRunIds : f[r] = f[s] => r = s
  <2> HIDE DEF f
  <2> QED
    BY <1>1, <1>2
<1>4. f \in Injection(AllRunIds, AllPairs)
  <2>1. f \in [AllRunIds -> AllPairs]
    BY <1>1
  <2> HIDE DEF f
  <2> QED
    BY <1>3, <2>1 DEF Injection, IsInjective
<1> HIDE DEF f
<1> QED
  BY <1>4, PairsAreFinite, FS_Injection

\* The runs that have ended and those that have not are all of them.
Counting ==
    /\ phase \in {"index", "plan"} => Fates = 0
    /\ userOps = 0 /\ SizesHold /\ phase \in {"clone", "done"} =>
          Fates + Cardinality(OpenRuns) = Cardinality(AllRunIds)

LEMMA NextCounts ==
    ASSUME Inv, Calm, TasksApart, IsFiniteSet(DOMAIN files), Counting, [Next]_vars
    PROVE  Counting'
<1>1. ASSUME phase' \in {"index", "plan"} PROVE Fates' = 0
  <2>1. ASSUME NEW w \in Workers, WorkerStep(w) PROVE phase' = "clone"
    BY <2>1 DEF WorkerStep, TakePair, TakeSpecial, StartRun, ReadDst, CloneRange, IoFault, planVars,
                Inv, TypeOK, TasksOK
  <2>2. UserStep => UNCHANGED <<phase, stats>>
    BY DEF UserStep, Overwrite, AppendByte, Shrink, Relink, Trouble, UserActs, planVars, toolVars
  <2>3. Plan => stats' = stats /\ phase \in {"index", "plan"}
    BY DEF Plan, PlanStep, GroupPairs, Coalesce, PlanReady
  <2>4. Finish => phase' = "done"
    BY DEF Finish
  <2>5. UNCHANGED vars => UNCHANGED <<phase, stats>>
    BY DEF vars, planVars, toolVars
  <2>6. stats' = stats /\ phase \in {"index", "plan"}
    BY <1>1, <2>1, <2>2, <2>3, <2>4, <2>5 DEF Next, Returned
  <2> QED
    BY <2>6 DEF Counting, Fates
<1> SUFFICES ASSUME userOps' = 0, SizesHold', phase' \in {"clone", "done"}
             PROVE  Fates' + Cardinality(OpenRuns') = Cardinality(AllRunIds')
  BY <1>1 DEF Counting
<1>2. userOps = 0 /\ View(disk') = View(disk)
  BY NextStaysCalm
<1>3. ~UserStep
  BY <1>2, UserStepTouchesOneFile
<1>4. UNCHANGED <<files, cache>>
  BY InputsStay
<1>5. SizesHold
  BY <1>2, <1>4, SizesAreInTheView
<1>6. ASSUME phase # "index"
      PROVE  IsFiniteSet(OpenRuns) /\ Cardinality(OpenRuns) \in Nat /\ Cardinality(AllRunIds) \in Nat
  <2>1. IsFiniteSet(AllRunIds)
    BY <1>5, <1>6, RunsAreFinite
  <2>2. IsFiniteSet(OpenRuns)
    BY <2>1, FS_Subset DEF OpenRuns
  <2> QED
    BY <2>1, <2>2, FS_CardinalityType
<1>7. Fates \in Nat
  BY DEF Fates, Inv, TypeOK, NoStats
<1>8. ASSUME NEW w \in Workers, WorkerStep(w)
      PROVE  Fates' + Cardinality(OpenRuns') = Cardinality(AllRunIds')
  <2>1. UNCHANGED <<plan, phase>>
    BY <1>8 DEF WorkerStep, TakePair, TakeSpecial, StartRun, ReadDst, CloneRange, IoFault, planVars
  <2>2. AllRunIds' = AllRunIds /\ phase # "index"
    BY <2>1 DEF AllRunIds
  <2>3. Fates + Cardinality(OpenRuns) = Cardinality(AllRunIds)
    BY <1>2, <1>5, <2>1 DEF Counting
  <2>4. CASE OpenRuns' = OpenRuns /\ Fates' = Fates
    BY <2>2, <2>3, <2>4
  <2>5. CASE \E id \in OpenRuns : OpenRuns' = OpenRuns \ {id} /\ Fates' = Fates + 1
    <3>1. PICK id \in OpenRuns : OpenRuns' = OpenRuns \ {id} /\ Fates' = Fates + 1
      BY <2>5
    <3>2. Cardinality(OpenRuns \ {id}) = Cardinality(OpenRuns) - 1
      BY <1>6, <2>2, <3>1, FS_RemoveElement
    <3> QED
      BY <1>6, <1>7, <2>2, <2>3, <3>1, <3>2
  <2> QED
    BY <1>2, <1>5, <1>8, <2>4, <2>5, ClosingIsCounting
<1>9. ASSUME Plan PROVE Fates' + Cardinality(OpenRuns') = Cardinality(AllRunIds')
  <2>1. /\ phase = "plan" /\ UNCHANGED <<plan, stats>> /\ pending' = DOMAIN plan
    BY <1>9 DEF Plan, PlanStep, GroupPairs, Coalesce, PlanReady
  <2>2. OpenRuns' = AllRunIds /\ AllRunIds' = AllRunIds
    <3>1. \A d \in AllRunIds : d[1] \in DOMAIN plan
      BY RunNumbers
    <3>2. AllRunIds' = AllRunIds
      BY <2>1 DEF AllRunIds
    <3> QED
      BY <2>1, <3>1, <3>2 DEF OpenRuns
  <2>3. Fates' = 0
    BY <2>1 DEF Counting, Fates
  <2> QED
    BY <1>6, <2>1, <2>2, <2>3
<1>10. ASSUME Finish \/ UNCHANGED vars
       PROVE  Fates' + Cardinality(OpenRuns') = Cardinality(AllRunIds')
  <2>1. UNCHANGED <<plan, stats, task, pending>> /\ phase \in {"clone", "done"}
    BY <1>10 DEF Finish, vars, planVars, toolVars
  <2>2. OpenRuns' = OpenRuns /\ AllRunIds' = AllRunIds /\ Fates' = Fates
    BY <2>1 DEF OpenRuns, AllRunIds, InHand, Fates
  <2> QED
    BY <1>2, <1>5, <2>1, <2>2 DEF Counting
<1> QED
  BY <1>3, <1>8, <1>9, <1>10 DEF Next, Returned

\* A run that fails or mismatches costs itself and no other: for any plan, any
\* number of tasks and any calls that fail in them, as long as nobody writes and
\* stat saw the files as they are, the tasks between them have ended every planned
\* run in exactly one of the four counts of Stats when dedup returns.  Every step
\* that leaves a run closes it and counts it, wherever in the run it failed, and
\* the pair goes on with the next one.
THEOREM EveryRunIsAccounted ==
    Spec => []EveryRunAccounted
<1> DEFINE IInv == /\ Inv /\ Calm /\ Drained /\ TasksApart
                   /\ IsFiniteSet(DOMAIN files) /\ Counting
<1>1. Init => IInv
  <2> SUFFICES ASSUME Init
               PROVE  Calm /\ Drained /\ TasksApart /\ IsFiniteSet(DOMAIN files) /\ Counting
    BY InitTyped
  <2>1. \A w \in Workers : task[w].pc = "idle"
    BY DEF Init, Idle
  <2>2. Fates = 0
    BY DEF Init, NoStats, Fates
  <2>3. IsFiniteSet(DOMAIN files)
    BY FilesAssumption DEF Init
  <2> QED
    BY <2>1, <2>2, <2>3 DEF Init, Calm, Drained, TasksApart, Counting
<1>2. IInv /\ [Next]_vars => IInv'
  <2> SUFFICES ASSUME IInv, [Next]_vars PROVE IInv'
    OBVIOUS
  <2>1. UNCHANGED files
    BY InputsStay
  <2> QED
    BY <2>1, NextKeepsInv, NextStaysCalm, NextDrained, NextApart, NextCounts
<1>3. IInv => EveryRunAccounted
  <2> SUFFICES ASSUME IInv, phase = "done", userOps = 0, SizesHold
               PROVE  Fates = Cardinality(AllRunIds)
    BY DEF EveryRunAccounted, Fates
  <2>1. OpenRuns = {}
    <3>1. pending = {}
      BY DEF Drained
    <3>2. \A id : ~InHand(id)
      BY DEF InHand, Inv, TypeOK, TasksOK
    <3> QED
      BY <3>1, <3>2 DEF OpenRuns
  <2>2. Fates + Cardinality({}) = Cardinality(AllRunIds) /\ Fates \in Nat
    BY <2>1 DEF Counting, Fates, Inv, TypeOK, NoStats
  <2> QED
    BY <2>2, FS_EmptySet
<1> HIDE DEF IInv
<1> QED
  BY <1>1, <1>2, <1>3, PTL DEF Spec

-----------------------------------------------------------------------------
(* What is reported is reclaimed.                                          *)

\* The places that list a block, the bytes they list, and those of the blocks.
Places(d) == UNION { {f} \X DOMAIN d[f] : f \in DOMAIN d }
Listed(d) == [q \in Places(d) |-> d[q[1]][q[2]].len]
Held(d) == [b \in BlocksInUse(d) |-> b.len]

LEMMA PlacesAreFinite ==
    ASSUME PlanTypeOK, DiskOK(files, disk), IsFiniteSet(DOMAIN files)
    PROVE  /\ IsFiniteSet(DOMAIN disk) /\ IsFiniteSet(Places(disk)) /\ IsFiniteSet(BlocksInUse(disk))
           /\ \A q \in Places(disk) : Listed(disk)[q] \in Nat
           /\ \A b \in BlocksInUse(disk) : Held(disk)[b] \in Nat
<1>1. IsFiniteSet(DOMAIN disk)
  <2>1. PICK ino : ino = [i \in DOMAIN files |-> files[i].ino]
    OBVIOUS
  <2>2. ino \in Surjection(DOMAIN files, DOMAIN disk)
    BY <2>1 DEF Surjection, DiskOK
  <2> QED
    BY <2>2, FS_Surjection
<1>2. IsFiniteSet(Places(disk))
  <2>1. PICK w : w = [f \in DOMAIN disk |-> Len(disk[f])]
    OBVIOUS
  <2>2. \A f \in DOMAIN disk : w[f] \in Nat /\ DOMAIN disk[f] = 1 .. w[f]
    BY <2>1, RecSizeType
  <2>3. Places(disk) = Bytes(w, DOMAIN disk)
    BY <2>2 DEF Places, Bytes
  <2> QED
    BY <1>1, <2>2, <2>3, BytesAreFinite
<1>3. \A q \in Places(disk) : /\ q = <<q[1], q[2]>> /\ q[1] \in DOMAIN disk
                              /\ q[2] \in DOMAIN disk[q[1]]
  BY DEF Places
<1>4. ASSUME NEW f \in DOMAIN disk, NEW c \in DOMAIN disk[f] PROVE disk[f][c].len \in Nat
  BY BlockType DEF Block
<1>5. IsFiniteSet(BlocksInUse(disk))
  <2>1. PICK g : g = [q \in Places(disk) |-> disk[q[1]][q[2]]]
    OBVIOUS
  <2>2. \A q \in Places(disk) : g[q] \in BlocksInUse(disk)
    BY <1>3, <2>1 DEF BlocksInUse
  <2>3. ASSUME NEW b \in BlocksInUse(disk) PROVE \E q \in Places(disk) : g[q] = b
    <3>1. PICK f \in DOMAIN disk : \E c \in DOMAIN disk[f] : b = disk[f][c]
      BY DEF BlocksInUse
    <3>2. PICK c \in DOMAIN disk[f] : b = disk[f][c]
      BY <3>1
    <3>3. <<f, c>> \in Places(disk)
      BY DEF Places
    <3> QED
      BY <2>1, <3>2, <3>3
  <2>4. g \in Surjection(Places(disk), BlocksInUse(disk))
    BY <2>1, <2>2, <2>3 DEF Surjection
  <2> QED
    BY <1>2, <2>4, FS_Surjection
<1>6. \A b \in BlocksInUse(disk) : Held(disk)[b] \in Nat
  BY <1>4 DEF BlocksInUse, Held
<1>7. \A q \in Places(disk) : Listed(disk)[q] \in Nat
  BY <1>3, <1>4 DEF Listed
<1> QED
  BY <1>1, <1>2, <1>5, <1>6, <1>7

\* The block at chunk c of file f is listed there only.
Lone(f, c) ==
    \A g \in DOMAIN disk : \A e \in DOMAIN disk[g] : disk[g][e] = disk[f][c] => g = f /\ e = c

\* What each place lists after a clone that extends no file.
LEMMA SharedLists ==
    ASSUME PlanTypeOK, DiskOK(files, disk), NEW r \in Request, Clonable(r),
           Reaches(r.dst, r.dfirst, r.n, r.tail), NEW m \in 1 .. r.n, NEW d, d = Shared(r, m)
    PROVE  /\ DOMAIN d = DOMAIN disk /\ \A f \in DOMAIN disk : DOMAIN d[f] = DOMAIN disk[f]
           /\ r.src \in DOMAIN disk /\ r.dst \in DOMAIN disk
           /\ \A j \in 1 .. m :
                 /\ r.dfirst + j \in DOMAIN disk[r.dst] /\ r.sfirst + j \in DOMAIN disk[r.src]
                 /\ d[r.dst][r.dfirst + j] = disk[r.src][r.sfirst + j]
           /\ \A f \in DOMAIN disk : \A c \in DOMAIN disk[f] :
                 \/ d[f][c] = disk[f][c] /\ \A j \in 1 .. m : f # r.dst \/ c # r.dfirst + j
                 \/ \E j \in 1 .. m : f = r.dst /\ c = r.dfirst + j
           /\ \A i, j \in 1 .. m : r.src = r.dst => r.sfirst + i # r.dfirst + j
<1> DEFINE old == disk[r.dst]
           new == [c \in DOMAIN old |->
                      IF c > r.dfirst /\ c <= r.dfirst + m
                      THEN disk[r.src][r.sfirst + (c - r.dfirst)] ELSE old[c]]
<1>1. /\ r.dfirst \in Nat /\ r.sfirst \in Nat /\ r.n \in Nat /\ m \in 1 .. r.n
      /\ r.src \in DOMAIN disk /\ r.dst \in DOMAIN disk
      /\ old \in Seq(Block) /\ DOMAIN old = 1 .. Len(old) /\ Len(old) \in Nat
  BY RecSizeType DEF Request
<1>0. r.dfirst \in Int /\ r.sfirst \in Int /\ r.n \in Int /\ m \in Int /\ m <= r.n
  BY <1>1
<1>2. d = [disk EXCEPT ![r.dst] = new]
  BY SharedInPlace
<1>3. ASSUME NEW j \in 1 .. m
      PROVE  /\ r.dfirst + j \in DOMAIN old /\ r.sfirst + j \in DOMAIN disk[r.src]
             /\ new[r.dfirst + j] = disk[r.src][r.sfirst + j]
  <2>1. j \in 1 .. r.n
    BY <1>0
  <2>2. r.dfirst + j \in DOMAIN old /\ r.sfirst + j \in DOMAIN disk[r.src]
    BY <2>1, SourceBlocks, TargetBlocks
  <2>3. PICK c : c = r.dfirst + j
    OBVIOUS
  <2>4. c > r.dfirst /\ c <= r.dfirst + m /\ r.sfirst + (c - r.dfirst) = r.sfirst + j
    BY <1>0, <2>3
  <2>5. new[c] = disk[r.src][r.sfirst + j]
    BY <2>2, <2>3, <2>4
  <2> QED
    BY <2>2, <2>3, <2>5
<1>4. ASSUME NEW c \in DOMAIN old
      PROVE  \/ new[c] = old[c] /\ \A j \in 1 .. m : c # r.dfirst + j
             \/ \E j \in 1 .. m : c = r.dfirst + j
  <2>1. CASE c > r.dfirst /\ c <= r.dfirst + m
    <3>1. c - r.dfirst \in 1 .. m /\ c = r.dfirst + (c - r.dfirst)
      BY <1>0, <1>1, <2>1
    <3> QED
      BY <3>1
  <2>2. CASE ~(c > r.dfirst /\ c <= r.dfirst + m)
    <3>1. new[c] = old[c]
      BY <2>2
    <3>2. \A j \in 1 .. m : c # r.dfirst + j
      BY <1>1, <2>2
    <3> QED
      BY <3>1, <3>2
  <2> QED
    BY <2>1, <2>2
<1>5. DOMAIN new = DOMAIN old
  OBVIOUS
<1> HIDE DEF new
<1>6. /\ DOMAIN d = DOMAIN disk /\ d[r.dst] = new
      /\ \A f \in DOMAIN disk \ {r.dst} : d[f] = disk[f]
  BY <1>1, <1>2
<1>7. ASSUME NEW i \in 1 .. m, NEW j \in 1 .. m, r.src = r.dst
      PROVE  r.sfirst + i # r.dfirst + j
  <2>1. r.sfirst + r.n <= r.dfirst \/ r.dfirst + r.n <= r.sfirst
    BY <1>7 DEF Clonable
  <2> QED
    BY <1>0, <2>1
<1>8. ASSUME NEW f \in DOMAIN disk, NEW c \in DOMAIN disk[f]
      PROVE  \/ d[f][c] = disk[f][c] /\ \A j \in 1 .. m : f # r.dst \/ c # r.dfirst + j
             \/ \E j \in 1 .. m : f = r.dst /\ c = r.dfirst + j
  <2>1. CASE f = r.dst
    BY <1>4, <1>6, <2>1
  <2>2. CASE f # r.dst
    BY <1>6, <2>2
  <2> QED
    BY <2>1, <2>2
<1>9. \A f \in DOMAIN disk : DOMAIN d[f] = DOMAIN disk[f]
  BY <1>5, <1>6
<1> QED
  BY <1>1, <1>3, <1>6, <1>7, <1>8, <1>9

\* What a request replaces up to its chunk m.
Replaced(r, m) == { disk[r.dst][r.dfirst + j] : j \in 1 .. m }

\* A clone between equal ranges frees the blocks that only its destination listed,
\* and no others.
LEMMA CloneFrees ==
    ASSUME PlanTypeOK, DiskOK(files, disk), NEW r \in Request, Clonable(r),
           Reaches(r.dst, r.dfirst, r.n, r.tail), KernelAgrees(r),
           NEW m \in 1 .. r.n, NEW d, d = Shared(r, m),
           \A j \in 1 .. m : Lone(r.dst, r.dfirst + j)
    PROVE  /\ Replaced(r, m) \subseteq BlocksInUse(disk)
           /\ BlocksInUse(d) = BlocksInUse(disk) \ Replaced(r, m)
<1>1. /\ DOMAIN d = DOMAIN disk /\ \A f \in DOMAIN disk : DOMAIN d[f] = DOMAIN disk[f]
      /\ r.src \in DOMAIN disk /\ r.dst \in DOMAIN disk
      /\ \A j \in 1 .. m :
            /\ r.dfirst + j \in DOMAIN disk[r.dst] /\ r.sfirst + j \in DOMAIN disk[r.src]
            /\ d[r.dst][r.dfirst + j] = disk[r.src][r.sfirst + j]
      /\ \A f \in DOMAIN disk : \A c \in DOMAIN disk[f] :
            \/ d[f][c] = disk[f][c] /\ \A j \in 1 .. m : f # r.dst \/ c # r.dfirst + j
            \/ \E j \in 1 .. m : f = r.dst /\ c = r.dfirst + j
      /\ \A i, j \in 1 .. m : r.src = r.dst => r.sfirst + i # r.dfirst + j
  BY SharedLists
<1>2. Replaced(r, m) \subseteq BlocksInUse(disk)
  BY <1>1 DEF Replaced, BlocksInUse
<1>3. BlocksInUse(d) \subseteq BlocksInUse(disk)
  BY SharedIsTransparent
<1>4. ASSUME NEW f \in DOMAIN d, NEW c \in DOMAIN d[f], NEW j \in 1 .. m,
             d[f][c] = disk[r.dst][r.dfirst + j]
      PROVE  FALSE
  <2>1. f \in DOMAIN disk /\ c \in DOMAIN disk[f]
    BY <1>1
  <2>2. CASE d[f][c] = disk[f][c] /\ \A i \in 1 .. m : f # r.dst \/ c # r.dfirst + i
    BY <1>4, <2>1, <2>2 DEF Lone
  <2>3. ASSUME NEW i \in 1 .. m, f = r.dst, c = r.dfirst + i PROVE FALSE
    <3>1. /\ disk[r.src][r.sfirst + i] = disk[r.dst][r.dfirst + j]
          /\ r.sfirst + i \in DOMAIN disk[r.src]
      BY <1>1, <1>4, <2>3
    <3>2. r.src = r.dst /\ r.sfirst + i = r.dfirst + j
      BY <1>1, <3>1 DEF Lone
    <3> QED
      BY <1>1, <3>2
  <2> QED
    BY <1>1, <2>1, <2>2, <2>3
<1>5. ASSUME NEW f \in DOMAIN disk, NEW c \in DOMAIN disk[f], disk[f][c] \notin Replaced(r, m)
      PROVE  disk[f][c] \in BlocksInUse(d)
  <2>1. \A j \in 1 .. m : f # r.dst \/ c # r.dfirst + j
    BY <1>5 DEF Replaced
  <2>2. d[f][c] = disk[f][c]
    BY <1>1, <2>1
  <2> QED
    BY <1>1, <2>2 DEF BlocksInUse
<1>6. \A b \in BlocksInUse(d) : b \notin Replaced(r, m)
  BY <1>4 DEF BlocksInUse, Replaced
<1>7. \A b \in BlocksInUse(disk) : b \notin Replaced(r, m) => b \in BlocksInUse(d)
  <2> SUFFICES ASSUME NEW b \in BlocksInUse(disk), b \notin Replaced(r, m) PROVE b \in BlocksInUse(d)
    OBVIOUS
  <2>1. PICK f \in DOMAIN disk : \E c \in DOMAIN disk[f] : b = disk[f][c]
    BY DEF BlocksInUse
  <2> QED
    BY <1>5, <2>1
<1> QED
  BY <1>2, <1>3, <1>6, <1>7

\* A block that is listed in one place only stays so, if the clone neither replaces
\* nor copies it.
LEMMA OthersStayLone ==
    ASSUME PlanTypeOK, DiskOK(files, disk), NEW r \in Request, Clonable(r),
           Reaches(r.dst, r.dfirst, r.n, r.tail), NEW m \in 1 .. r.n, disk' = Shared(r, m),
           NEW f \in DOMAIN disk, NEW c \in DOMAIN disk[f], Lone(f, c),
           \A j \in 1 .. m : f # r.dst \/ c # r.dfirst + j,
           \A j \in 1 .. m : f # r.src \/ c # r.sfirst + j
    PROVE  Lone(f, c)'
<1>1. PICK d : d = disk'
  OBVIOUS
<1>2. /\ DOMAIN d = DOMAIN disk /\ \A g \in DOMAIN disk : DOMAIN d[g] = DOMAIN disk[g]
      /\ r.src \in DOMAIN disk
      /\ \A j \in 1 .. m :
            /\ r.sfirst + j \in DOMAIN disk[r.src]
            /\ d[r.dst][r.dfirst + j] = disk[r.src][r.sfirst + j]
      /\ \A g \in DOMAIN disk : \A e \in DOMAIN disk[g] :
            d[g][e] = disk[g][e] \/ \E j \in 1 .. m : g = r.dst /\ e = r.dfirst + j
  BY <1>1, SharedLists
<1>3. d[f][c] = disk[f][c]
  BY <1>2
<1>4. ASSUME NEW g \in DOMAIN d, NEW e \in DOMAIN d[g], d[g][e] = d[f][c]
      PROVE  g = f /\ e = c
  <2>1. g \in DOMAIN disk /\ e \in DOMAIN disk[g]
    BY <1>2
  <2>2. CASE d[g][e] = disk[g][e]
    BY <1>3, <1>4, <2>1, <2>2 DEF Lone
  <2>3. ASSUME NEW j \in 1 .. m, g = r.dst, e = r.dfirst + j PROVE FALSE
    <3>1. disk[r.src][r.sfirst + j] = disk[f][c] /\ r.sfirst + j \in DOMAIN disk[r.src]
      BY <1>2, <1>3, <1>4, <2>3
    <3>2. r.src = f /\ r.sfirst + j = c
      BY <1>2, <3>1 DEF Lone
    <3> QED
      BY <3>2
  <2> QED
    BY <1>2, <2>1, <2>2, <2>3
<1> QED
  BY <1>1, <1>4 DEF Lone

\* The blocks that a clone replaces hold what bytes_deduped says.
LEMMA BytesReplaced ==
    ASSUME PlanTypeOK, DiskOK(files, disk), NEW r \in Request, Clonable(r),
           Reaches(r.dst, r.dfirst, r.n, r.tail), NEW m \in 1 .. r.n,
           \A j \in 1 .. m : Lone(r.dst, r.dfirst + j),
           r.len = (r.n - 1) * r.blksz + r.tail, r.tail \in Nat \ {0}
    PROVE  /\ r.tail <= r.blksz
           /\ Total(Held(disk), Replaced(r, m)) = BytesDeduped(r, m)
<1>1. PICK lens, f, b : /\ b = r.blksz
                        /\ lens = [j \in 0 .. m - 1 |-> disk[r.dst][r.dfirst + (j + 1)].len]
                        /\ f = [j \in 0 .. m - 1 |-> disk[r.dst][r.dfirst + (j + 1)]]
  OBVIOUS
<1>2. /\ r.n \in Nat \ {0} /\ m \in Nat \ {0} /\ m <= r.n
      /\ r.blksz \in Nat \ {0} /\ r.dfirst \in Nat /\ r.sfirst \in Nat
      /\ r.dst \in DOMAIN disk
  BY DEF Request
<1>3. ASSUME NEW j \in 1 .. r.n
      PROVE  /\ r.dfirst + j \in DOMAIN disk[r.dst]
             /\ disk[r.dst][r.dfirst + j].len \in 1 .. b
             /\ j < r.n \/ r.tail = b => disk[r.dst][r.dfirst + j].len = b
  BY <1>1, SourceBlocks, TargetBlocks
<1>4. disk[r.dst][r.dfirst + r.n].len = r.tail
  <2>1. r.n \in 1 .. r.n
    BY <1>2
  <2>2. CASE r.tail = r.blksz
    BY <1>1, <1>3, <2>1, <2>2
  <2>3. CASE r.tail # r.blksz
    <3>1. ToEof(r.dst, r.dfirst, r.n, r.tail)
      BY <2>3 DEF Clonable
    <3>2. /\ DOMAIN disk[r.dst] = 1 .. Len(disk[r.dst]) /\ Len(disk[r.dst]) \in Nat
          /\ r.dfirst + r.n \in DOMAIN disk[r.dst]
      <4>1. disk[r.dst] \in Seq(Block)
        BY <1>2, RecSizeType
      <4> QED
        BY <1>3, <2>1, <4>1
    <3>3. r.dfirst + r.n = Len(disk[r.dst])
      BY <1>2, <3>1, <3>2 DEF ToEof
    <3>4. disk[r.dst][r.dfirst + r.n].len <= r.tail
      BY <3>1, <3>3 DEF ToEof
    <3>5. r.tail <= disk[r.dst][r.dfirst + r.n].len
      BY DEF Reaches
    <3>6. disk[r.dst][r.dfirst + r.n].len \in Nat
      BY <1>1, <1>2, <1>3, <2>1
    <3> QED
      BY <3>4, <3>5, <3>6
  <2> QED
    BY <2>2, <2>3
<1>5. r.tail \in 1 .. b
  <2>1. r.n \in 1 .. r.n
    BY <1>2
  <2> QED
    BY <1>3, <1>4, <2>1
<1>6. PICK t : t = IF m = r.n THEN r.tail ELSE b
  OBVIOUS
<1>7. LastOf(lens, m, b, t)
  <2>1. ASSUME NEW j \in 0 .. m - 2 PROVE lens[j] = b
    <3>1. j + 1 \in 1 .. r.n /\ j + 1 < r.n /\ j \in 0 .. m - 1
      BY <1>2
    <3> QED
      BY <1>1, <1>3, <3>1
  <2>2. lens[m - 1] = t
    <3>1. m - 1 \in 0 .. m - 1 /\ m - 1 + 1 = m /\ m \in 1 .. r.n
      BY <1>2
    <3>2. lens[m - 1] = disk[r.dst][r.dfirst + m].len
      BY <1>1, <3>1
    <3>3. CASE m = r.n
      BY <1>4, <1>6, <3>2, <3>3
    <3>4. CASE m # r.n
      <4>1. m < r.n
        BY <1>2, <3>4
      <4> QED
        BY <1>3, <1>6, <3>1, <3>2, <3>4, <4>1
    <3> QED
      BY <3>3, <3>4
  <2> QED
    BY <2>1, <2>2 DEF LastOf
<1>8. b \in Nat /\ t \in Nat
  BY <1>1, <1>2, <1>5, <1>6
<1>9. Total(lens, 0 .. m - 1) = (m - 1) * b + t
  <2>1. m \in Nat \ {0} /\ b \in Nat /\ t \in Nat
    BY <1>2, <1>8
  <2> QED
    BY <1>7, <2>1, TotalOfRun, Zenon
<1>10. ASSUME NEW j \in 0 .. m - 1
       PROVE  /\ j + 1 \in 1 .. m /\ r.dfirst + (j + 1) \in DOMAIN disk[r.dst]
              /\ lens[j] \in Nat /\ f[j] \in Replaced(r, m) /\ Held(disk)[f[j]] = lens[j]
  <2>1. j + 1 \in 1 .. m /\ j + 1 \in 1 .. r.n
    BY <1>2
  <2>2. r.dfirst + (j + 1) \in DOMAIN disk[r.dst] /\ disk[r.dst][r.dfirst + (j + 1)].len \in 1 .. b
    BY <1>3, <2>1
  <2>3. f[j] = disk[r.dst][r.dfirst + (j + 1)] /\ lens[j] = f[j].len
    BY <1>1
  <2>4. f[j] \in Replaced(r, m)
    BY <2>1, <2>3 DEF Replaced
  <2>5. f[j] \in BlocksInUse(disk)
    BY <1>2, <2>2, <2>3 DEF BlocksInUse
  <2>6. lens[j] \in Nat
    BY <1>8, <2>2, <2>3
  <2> QED
    BY <2>1, <2>2, <2>3, <2>4, <2>5, <2>6 DEF Held
<1>11. f \in Bijection(0 .. m - 1, Replaced(r, m))
  <2>1. ASSUME NEW i \in 0 .. m - 1, NEW j \in 0 .. m - 1, f[i] = f[j] PROVE i = j
    <3>1. disk[r.dst][r.dfirst + (i + 1)] = disk[r.dst][r.dfirst + (j + 1)]
      BY <1>1, <2>1
    <3>2. r.dfirst + (i + 1) = r.dfirst + (j + 1)
      BY <1>2, <1>10, <3>1 DEF Lone
    <3> QED
      BY <1>2, <3>2
  <2>2. ASSUME NEW x \in Replaced(r, m) PROVE \E j \in 0 .. m - 1 : f[j] = x
    <3>1. PICK j \in 1 .. m : x = disk[r.dst][r.dfirst + j]
      BY DEF Replaced
    <3>2. j - 1 \in 0 .. m - 1 /\ j - 1 + 1 = j
      BY <1>2
    <3> QED
      BY <1>1, <3>1, <3>2
  <2>3. f \in [0 .. m - 1 -> Replaced(r, m)]
    BY <1>1, <1>10
  <2> QED
    BY <2>1, <2>2, <2>3 DEF Bijection, Injection, Surjection, IsInjective
<1>12. Total(Held(disk), Replaced(r, m)) = Total(lens, 0 .. m - 1)
  <2>1. PICK J, T, v : J = 0 .. m - 1 /\ T = Replaced(r, m) /\ v = Held(disk)
    OBVIOUS
  <2>2. IsFiniteSet(J)
    <3>1. 0 \in Int /\ m - 1 \in Int
      BY <1>2
    <3> QED
      BY <2>1, <3>1, FS_Interval
  <2>3. f \in Bijection(J, T) /\ \A j \in J : lens[j] \in Nat /\ v[f[j]] = lens[j]
    BY <1>10, <1>11, <2>1
  <2>4. Total(v, T) = Total(lens, J)
    BY <2>2, <2>3, TotalRenamed
  <2> QED
    BY <2>1, <2>4
<1>13. (m - 1) * b + t = BytesDeduped(r, m)
  <2>1. CASE m = r.n
    <3>1. PICK full, all : full = (m - 1) * b /\ all = m * b
      OBVIOUS
    <3>2. full \in Nat /\ all = full + b
      BY <1>2, <1>8, <3>1
    <3>3. r.len = full + r.tail
      BY <1>1, <2>1, <3>1
    <3>4. BytesDeduped(r, m) = IF all <= r.len THEN all ELSE r.len
      BY <1>1, <3>1 DEF BytesDeduped, LowerOf
    <3>5. r.len <= all /\ r.len \in Nat /\ all \in Nat
      BY <1>5, <1>8, <3>2, <3>3
    <3>6. BytesDeduped(r, m) = r.len
      BY <3>4, <3>5
    <3>7. t = r.tail
      BY <1>6, <2>1
    <3> QED
      BY <3>1, <3>3, <3>6, <3>7
  <2>2. CASE m # r.n
    <3>1. PICK full, rest : full = m * b /\ rest = (r.n - 1 - m) * b
      OBVIOUS
    <3>2. r.n - 1 - m \in Nat
      BY <1>2, <2>2
    <3>3. /\ full \in Nat /\ rest \in Nat /\ (m - 1) * b + b = full
          /\ (r.n - 1) * b = full + rest
      BY <1>2, <1>8, <3>1, <3>2
    <3>4. r.len = full + rest + r.tail
      BY <1>1, <3>3
    <3>5. BytesDeduped(r, m) = LowerOf(full, r.len)
      BY <1>1, <3>1 DEF BytesDeduped
    <3> QED
      BY <1>5, <1>6, <1>8, <2>2, <3>3, <3>4, <3>5 DEF LowerOf
  <2> QED
    BY <2>1, <2>2
<1> QED
  BY <1>1, <1>5, <1>8, <1>9, <1>12, <1>13

LEMMA BytesFreed ==
    ASSUME PlanTypeOK, DiskOK(files, disk), IsFiniteSet(DOMAIN files), NEW r \in Request, Clonable(r),
           Reaches(r.dst, r.dfirst, r.n, r.tail), KernelAgrees(r),
           NEW m \in 1 .. r.n, NEW d, d = Shared(r, m),
           \A j \in 1 .. m : Lone(r.dst, r.dfirst + j),
           r.len = (r.n - 1) * r.blksz + r.tail, r.tail \in Nat \ {0}
    PROVE  /\ BytesDeduped(r, m) \in Nat /\ Total(Held(d), BlocksInUse(d)) \in Nat
           /\ Total(Held(disk), BlocksInUse(disk))
                 = BytesDeduped(r, m) + Total(Held(d), BlocksInUse(d))
<1>1. PICK B, R, C : B = BlocksInUse(disk) /\ R = Replaced(r, m) /\ C = BlocksInUse(d)
  OBVIOUS
<1>2. R \subseteq B /\ C = B \ R
  BY <1>1, CloneFrees
<1>3. IsFiniteSet(B) /\ \A x \in B : Held(disk)[x] \in Nat
  BY <1>1, PlacesAreFinite
<1>4. Total(Held(disk), B) = Total(Held(disk), R) + Total(Held(disk), B \ R)
  BY <1>2, <1>3, TotalOfRest
<1>5. Total(Held(disk), R) = BytesDeduped(r, m)
  BY <1>1, BytesReplaced
<1>6. \A x \in C : Held(disk)[x] = Held(d)[x]
  BY <1>1, <1>2 DEF Held
<1>7. Total(Held(disk), C) = Total(Held(d), C)
  BY <1>6, SameTotal
<1>8. IsFiniteSet(R) /\ IsFiniteSet(C) /\ \A x \in R \cup C : Held(disk)[x] \in Nat
  BY <1>2, <1>3, FS_Subset
<1>9. Total(Held(disk), R) \in Nat /\ Total(Held(disk), C) \in Nat
  BY <1>8, BytesAreFinite
<1> QED
  BY <1>1, <1>2, <1>4, <1>5, <1>7, <1>9

\* A step of a task while nobody writes: nothing, of which it reports nothing, or
\* the clone of the run it was at, of which it reports the length.
LEMMA ReclaimingStep ==
    ASSUME Inv, Calm, TasksApart, userOps = 0, ~opts.dry_run, NEW w \in Workers, WorkerStep(w)
    PROVE  \/ disk' = disk /\ OpenRuns' \subseteq OpenRuns /\ stats'.bytes = stats.bytes
           \/ \E id, r : \E m \in 1 .. r.n :
                 /\ HasInHand(w, id, r) /\ id \in OpenRuns /\ OpenRuns' = OpenRuns \ {id}
                 /\ Clonable(r) /\ Reaches(r.dst, r.dfirst, r.n, r.tail) /\ KernelAgrees(r)
                 /\ disk' = Shared(r, m)
                 /\ stats'.bytes = stats.bytes + BytesDeduped(r, m)
<1>1. /\ stats \in [DOMAIN NoStats -> Nat] /\ task[w] \in Task
      /\ "bytes" \in DOMAIN NoStats
  BY DEF Inv, TypeOK, TasksOK, NoStats
<1>2. ASSUME NEW fields, "bytes" \notin fields
      PROVE  /\ Count(fields).bytes = stats.bytes
             /\ \A n \in Nat : Saved(n, fields).bytes = stats.bytes + n
  BY <1>1, <1>2 DEF Count, Saved
<1>3. ASSUME NEW k \in pending, TakePair(w, k)
      PROVE  disk' = disk /\ OpenRuns' \subseteq OpenRuns /\ stats'.bytes = stats.bytes
  <2>1. OpenRuns' \subseteq OpenRuns
    BY <1>3, TakingOpensNothing
  <2>2. stats' = Count(Complaint(Refusal(k))) /\ disk' = disk
    BY <1>3 DEF TakePair, userVars
  <2>3. "bytes" \notin Complaint(Refusal(k))
    BY DEF Complaint
  <2> QED
    BY <1>2, <2>1, <2>2, <2>3
<1>4. PICK id, r : id = <<task[w].key, task[w].run>> /\ r = RunOf(w)
  OBVIOUS
<1>5. ASSUME task[w].pc # "idle"
      PROVE  /\ HasInHand(w, id, r) /\ CalmTask(task[w], r) /\ UNCHANGED <<pending, plan>>
             /\ r \in Request /\ r.n \in 1 .. r.n /\ r.len = BytesDeduped(r, r.n)
  <2>1. HasInHand(w, id, r) /\ CalmTask(task[w], r)
    BY <1>4, <1>5 DEF HasInHand, Calm, CalmTask
  <2>2. UNCHANGED <<pending, plan>>
    BY <1>5 DEF WorkerStep, TakePair, TakeSpecial, StartRun, ReadDst, CloneRange, IoFault, planVars
  <2>3. /\ r \in Request /\ id \in AllRunIds
        /\ r.len = run_len(files[id[1][2]], r.sfirst, r.n, r.blksz)
    BY <2>1, RunInHand
  <2>4. r.n \in 1 .. r.n
    BY <2>3 DEF Request
  <2>5. PICK all, rest : all = r.n * r.blksz /\ rest = SatSub(files[id[1][2]].size, r.sfirst * r.blksz)
    OBVIOUS
  <2>6. all \in Nat /\ r.len \in Nat
    BY <2>3, <2>5 DEF Request
  <2>7. r.len = IF rest <= all THEN rest ELSE all
    BY <2>3, <2>5 DEF run_len, LowerOf
  <2>8. BytesDeduped(r, r.n) = IF all <= r.len THEN all ELSE r.len
    BY <2>5 DEF BytesDeduped, LowerOf
  <2>9. r.len = BytesDeduped(r, r.n)
    BY <2>6, <2>7, <2>8
  <2> QED
    BY <2>1, <2>2, <2>3, <2>4, <2>9
<1>6. ASSUME task[w].pc # "idle", NextRun(w)
      PROVE  id \in OpenRuns /\ OpenRuns' = OpenRuns \ {id}
  BY <1>4, <1>5, <1>6, NextRunCloses
<1>7. ASSUME task[w].pc # "idle", NEW t, task' = [task EXCEPT ![w] = t],
             t.pc # "idle", t.key = task[w].key, t.run = task[w].run
      PROVE  OpenRuns' = OpenRuns
  BY <1>5, <1>7, GoingOnOpensNothing
<1> DEFINE Nothing == disk' = disk /\ OpenRuns' \subseteq OpenRuns /\ stats'.bytes = stats.bytes
           Clones == \E m \in 1 .. r.n :
                        /\ HasInHand(w, id, r) /\ id \in OpenRuns /\ OpenRuns' = OpenRuns \ {id}
                        /\ Clonable(r) /\ Reaches(r.dst, r.dfirst, r.n, r.tail) /\ KernelAgrees(r)
                        /\ disk' = Shared(r, m)
                        /\ stats'.bytes = stats.bytes + BytesDeduped(r, m)
<1>8. ASSUME task[w].pc # "idle", NextRun(w), disk' = disk,
             stats' = stats \/ \E fields : "bytes" \notin fields /\ stats' = Count(fields)
      PROVE  Nothing
  BY <1>2, <1>6, <1>8
<1>9. ASSUME StartRun(w) PROVE Nothing \/ Clones
  <2>1. task[w].pc = "run"
    BY <1>9 DEF StartRun
  <2>2. CASE NextRun(w) /\ UNCHANGED <<stats, disk>>
    BY <1>8, <2>1, <2>2
  <2>3. CASE ReadSrc(w, r)
    <3>1. PICK t : t = [task[w] EXCEPT !.pc = "read_dst", !.since = userOps,
                                       !.buf = ValuesIn(r.src, r.sfirst, r.n)]
      OBVIOUS
    <3>2. t.pc = "read_dst" /\ t.key = task[w].key /\ t.run = task[w].run
      BY <1>1, <3>1 DEF Task
    <3>3. /\ disk' = disk /\ stats' = Count({"candidates"})
          /\ task' = [task EXCEPT ![w] = t] \/ NextRun(w)
      BY <2>3, <3>1 DEF ReadSrc
    <3>4. OpenRuns' \subseteq OpenRuns
      BY <1>6, <1>7, <2>1, <3>2, <3>3
    <3>5. stats'.bytes = stats.bytes
      BY <1>2, <3>3
    <3> QED
      BY <3>3, <3>4, <3>5
  <2>4. CASE DedupeRange(w, r)
    <3>1. NextRun(w)
      BY <2>4 DEF DedupeRange
    <3>2. CASE stats' = Count({"candidates", "errors"}) /\ UNCHANGED disk
      BY <1>8, <2>1, <3>1, <3>2
    <3>3. CASE stats' = Count({"candidates", "mismatches"}) /\ UNCHANGED disk
      BY <1>8, <2>1, <3>1, <3>3
    <3>4. CASE /\ Clonable(r) /\ Reaches(r.dst, r.dfirst, r.n, r.tail) /\ KernelAgrees(r)
               /\ \E m \in (IF PartialDedupe THEN 1 .. r.n ELSE {r.n}) :
                     /\ disk' = Shared(r, m)
                     /\ stats' = Saved(BytesDeduped(r, m), {"candidates", "verified", "cloned"})
      <4>1. PICK m \in 1 .. r.n :
                /\ disk' = Shared(r, m)
                /\ stats' = Saved(BytesDeduped(r, m), {"candidates", "verified", "cloned"})
        BY <1>5, <2>1, <3>4
      <4>2. BytesDeduped(r, m) \in Nat
        <5>1. m \in Nat /\ r.blksz \in Nat /\ r.len \in Nat
          BY <1>5, <2>1 DEF Request
        <5>2. m * r.blksz \in Nat
          BY <5>1
        <5> QED
          BY <5>1, <5>2 DEF BytesDeduped, LowerOf
      <4>3. stats'.bytes = stats.bytes + BytesDeduped(r, m)
        BY <1>2, <4>1, <4>2
      <4> QED
        BY <1>5, <1>6, <2>1, <3>1, <3>4, <4>1, <4>3
    <3> QED
      BY <2>4, <3>2, <3>3, <3>4 DEF DedupeRange
  <2> QED
    BY <1>4, <1>9, <2>2, <2>3, <2>4 DEF StartRun
<1>10. ASSUME ReadDst(w) PROVE Nothing
  <2>1. task[w].pc # "idle" /\ disk' = disk
    BY <1>10 DEF ReadDst, userVars
  <2>2. PICK t : t = [task[w] EXCEPT !.pc = "clone"]
    OBVIOUS
  <2>3. t.pc = "clone" /\ t.key = task[w].key /\ t.run = task[w].run
    BY <1>1, <2>2 DEF Task
  <2>4. CASE NextRun(w) /\ (stats' = stats \/ stats' = Count({"mismatches"}))
    BY <1>8, <2>1, <2>4
  <2>5. CASE UNCHANGED stats /\ task' = [task EXCEPT ![w] = t]
    BY <1>7, <2>1, <2>3, <2>5
  <2> QED
    BY <1>10, <2>2, <2>4, <2>5 DEF ReadDst
<1>11. ASSUME CloneRange(w) PROVE Nothing \/ Clones
  <2>1. task[w].pc = "clone" /\ NextRun(w)
    BY <1>11 DEF CloneRange
  <2>2. CASE Clonable(r) /\ disk' = Shared(r, r.n) /\ stats' = Saved(r.len, {"verified", "cloned"})
    <3>1. Reaches(r.dst, r.dfirst, r.n, r.tail) /\ KernelAgrees(r)
      BY <1>5, <2>1 DEF CalmTask, KernelAgrees
    <3>2. stats'.bytes = stats.bytes + r.len
      BY <1>2, <1>5, <2>1, <2>2 DEF Request
    <3> QED
      BY <1>5, <1>6, <2>1, <2>2, <3>1, <3>2
  <2>3. CASE UNCHANGED disk /\ stats' = Count({"errors"})
    BY <1>8, <2>1, <2>3
  <2> QED
    BY <1>4, <1>11, <2>2, <2>3 DEF CloneRange
<1>12. ASSUME NEW field \in {"errors", "busy"}, IoFault(w, field) PROVE Nothing
  <2>1. PICK fields : fields = {field} \cup (IF task[w].pc = "run" THEN {"candidates"} ELSE {})
    OBVIOUS
  <2>2. "bytes" \notin fields
    BY <2>1
  <2>3. task[w].pc # "idle" /\ NextRun(w) /\ disk' = disk /\ stats' = Count(fields)
    BY <1>12, <2>1 DEF IoFault, userVars
  <2> QED
    BY <1>8, <2>2, <2>3
<1>13. Nothing \/ Clones
  BY <1>3, <1>9, <1>10, <1>11, <1>12, CalmPathsOpen DEF WorkerStep
<1> QED
  BY <1>13

\* Every file number is an inode of its own, and nothing shares storage.
NoAliases(fl) == \A i, j \in DOMAIN fl : fl[i].ino = fl[j].ino => i = j
Unshared(d) ==
    \A f, g \in DOMAIN d : \A c \in DOMAIN d[f], e \in DOMAIN d[g] :
        d[g][e] = d[f][c] => g = f /\ e = c

\* Nothing else lists the block of a chunk, if the file still has it.
Unique(l) ==
    LET f == files[l.file].ino
    IN  l.chunk + 1 \in DOMAIN disk[f] => Lone(f, l.chunk + 1)

\* A clone reports what it frees, and leaves the copies of the other runs alone.
LEMMA CloneReclaims ==
    ASSUME Inv, NoAliases(files), IsFiniteSet(DOMAIN files), UNCHANGED <<files, plan>>,
           NEW w \in Workers, NEW id, NEW r, HasInHand(w, id, r),
           id \in OpenRuns, OpenRuns' = OpenRuns \ {id},
           Clonable(r), Reaches(r.dst, r.dfirst, r.n, r.tail), KernelAgrees(r),
           NEW m \in 1 .. r.n, disk' = Shared(r, m),
           \A p \in OpenPairs : Unique(p.dst)
    PROVE  /\ \A p \in OpenPairs' : Unique(p.dst)'
           /\ BytesDeduped(r, m) \in Nat /\ Total(Held(disk'), BlocksInUse(disk')) \in Nat
           /\ Total(Held(disk), BlocksInUse(disk))
                 = BytesDeduped(r, m) + Total(Held(disk'), BlocksInUse(disk'))
<1>1. /\ PlanTypeOK /\ DiskOK(files, disk)
      /\ GoodSnapshot(files, cache) /\ AllPairs = PairsOf(files, cache)
  BY DEF Inv, TypeOK, PlanTypeOK, AllPairs, PairsOf
<1>2. /\ r \in Request /\ r.tail = r.len - (r.n - 1) * r.blksz /\ r.tail \in Nat \ {0}
  BY RunInHand, TailInHand
<1>3. r.len = (r.n - 1) * r.blksz + r.tail
  <2>1. PICK full : full = (r.n - 1) * r.blksz
    OBVIOUS
  <2>2. full \in Int /\ r.len \in Int
    BY <1>2, <2>1 DEF Request
  <2> QED
    BY <1>2, <2>1, <2>2
<1>4. ASSUME NEW j \in 1 .. m
      PROVE  \E p \in Covered(id) :
                /\ p \in AllPairs
                /\ p.src \in Location /\ p.dst \in Location
                /\ p.src.file \in DOMAIN files /\ p.dst.file \in DOMAIN files
                /\ files[p.src.file].ino = r.src /\ p.src.chunk + 1 = r.sfirst + j
                /\ files[p.dst.file].ino = r.dst /\ p.dst.chunk + 1 = r.dfirst + j
                /\ r.dfirst + j \in DOMAIN disk[r.dst]
  <2>1. j \in 1 .. r.n
    BY <1>2 DEF Request
  <2>2. PICK p : p = PairIn(id, j - 1)
    OBVIOUS
  <2>3. /\ p \in AllPairs /\ p \in Covered(id)
        /\ files[p.src.file].ino = r.src /\ p.src.chunk + 1 = r.sfirst + j
        /\ files[p.dst.file].ino = r.dst /\ p.dst.chunk + 1 = r.dfirst + j
    BY <2>1, <2>2, PairInHand
  <2>4. /\ p.src \in Location /\ p.dst \in Location
        /\ p.src.file \in DOMAIN files /\ p.dst.file \in DOMAIN files
    BY <1>1, <2>3, PairTypes
  <2>5. r.dfirst + j \in DOMAIN disk[r.dst]
    BY <1>1, <1>2, <2>1, TargetBlocks
  <2> QED
    BY <2>3, <2>4, <2>5
<1>5. OpenRuns \subseteq AllRunIds
  BY DEF OpenRuns
<1>6. ASSUME NEW j \in 1 .. m PROVE Lone(r.dst, r.dfirst + j)
  <2>1. PICK p \in Covered(id) : /\ files[p.dst.file].ino = r.dst /\ p.dst.chunk + 1 = r.dfirst + j
                                 /\ r.dfirst + j \in DOMAIN disk[r.dst]
    BY <1>4
  <2>2. p \in OpenPairs
    BY DEF OpenPairs
  <2>3. Unique(p.dst)
    BY <2>2
  <2> QED
    BY <2>1, <2>3 DEF Unique
<1>7. /\ BytesDeduped(r, m) \in Nat /\ Total(Held(disk'), BlocksInUse(disk')) \in Nat
      /\ Total(Held(disk), BlocksInUse(disk))
            = BytesDeduped(r, m) + Total(Held(disk'), BlocksInUse(disk'))
  BY <1>1, <1>2, <1>3, <1>6, BytesFreed
<1>8. ASSUME NEW q \in OpenPairs' PROVE Unique(q.dst)'
  <2>1. PICK d \in OpenRuns : d # id /\ q \in Covered(d)
    BY DEF OpenPairs, Covered, RunAt
  <2>2. d \in AllRunIds /\ id \in AllRunIds /\ q \in AllPairs /\ q \in OpenPairs
    BY <1>5, <2>1, PairsInRun DEF OpenPairs
  <2>3. q \notin Covered(id)
    BY <2>1, <2>2 DEF Inv, Accounted
  <2>4. q.dst \in Location /\ q.dst.file \in DOMAIN files
    BY <1>1, <2>2, PairTypes
  <2>5. PICK f, c : f = files[q.dst.file].ino /\ c = q.dst.chunk + 1
    OBVIOUS
  <2>6. f \in DOMAIN disk
    BY <1>1, <2>4, <2>5 DEF DiskOK
  <2>7. DOMAIN disk'[f] = DOMAIN disk[f]
    BY <1>1, <1>2, <2>6, SharedLists
  <2>8. c \in DOMAIN disk[f] => Lone(f, c)
    BY <2>2, <2>5 DEF Unique
  <2>9. ASSUME NEW j \in 1 .. m PROVE f # r.dst \/ c # r.dfirst + j
    <3> SUFFICES ASSUME f = r.dst, c = r.dfirst + j PROVE FALSE
      OBVIOUS
    <3>1. PICK p \in Covered(id) :
              /\ p \in AllPairs /\ p.dst \in Location /\ p.dst.file \in DOMAIN files
              /\ files[p.dst.file].ino = r.dst /\ p.dst.chunk + 1 = r.dfirst + j
      BY <1>4
    <3>2. p.dst.file = q.dst.file
      BY <2>4, <2>5, <3>1 DEF NoAliases
    <3>3. p.dst.chunk = q.dst.chunk
      <4>1. p.dst.chunk \in Nat /\ q.dst.chunk \in Nat
        BY <2>4, <3>1 DEF Location
      <4>2. p.dst.chunk + 1 = q.dst.chunk + 1
        BY <2>5, <3>1
      <4> QED
        BY <4>1, <4>2
    <3>4. p.dst = q.dst
      BY <2>4, <3>1, <3>2, <3>3 DEF Location
    <3>5. p = q
      BY <1>1, <2>2, <3>1, <3>4, RolesOfAChunk
    <3> QED
      BY <2>3, <3>1, <3>5
  <2>10. ASSUME NEW j \in 1 .. m PROVE f # r.src \/ c # r.sfirst + j
    <3> SUFFICES ASSUME f = r.src, c = r.sfirst + j PROVE FALSE
      OBVIOUS
    <3>1. PICK p \in Covered(id) :
              /\ p \in AllPairs /\ p.src \in Location /\ p.src.file \in DOMAIN files
              /\ files[p.src.file].ino = r.src /\ p.src.chunk + 1 = r.sfirst + j
      BY <1>4
    <3>2. p.src.file = q.dst.file
      BY <2>4, <2>5, <3>1 DEF NoAliases
    <3>3. p.src.chunk = q.dst.chunk
      <4>1. p.src.chunk \in Nat /\ q.dst.chunk \in Nat
        BY <2>4, <3>1 DEF Location
      <4>2. p.src.chunk + 1 = q.dst.chunk + 1
        BY <2>5, <3>1
      <4> QED
        BY <4>1, <4>2
    <3>4. p.src = q.dst
      BY <2>4, <3>1, <3>2, <3>3 DEF Location
    <3> QED
      BY <1>1, <2>2, <3>1, <3>4, RolesOfAChunk
  <2>11. c \in DOMAIN disk[f] => Lone(f, c)'
    BY <1>1, <1>2, <2>6, <2>8, <2>9, <2>10, OthersStayLone
  <2> QED
    BY <2>5, <2>7, <2>11 DEF Unique
<1> QED
  BY <1>7, <1>8

\* Until a user acts: before the first clone no two places share a block, then none
\* shares what is still to be replaced; and what is reported is what is gone.
Reclaiming ==
    userOps = 0 /\ ~opts.dry_run =>
        /\ phase \in {"index", "plan"} => Unshared(disk)
        /\ phase \in {"clone", "done"} => \A p \in OpenPairs : Unique(p.dst)
        /\ stats.bytes + Total(Held(disk), BlocksInUse(disk)) = Total(Listed(disk), Places(disk))

LEMMA ListedInTheView ==
    ASSUME NEW d, NEW e, View(d) = View(e)
    PROVE  Places(d) = Places(e) /\ Listed(d) = Listed(e)
<1>1. /\ DOMAIN d = DOMAIN e
      /\ \A f \in DOMAIN e :
            /\ DOMAIN d[f] = DOMAIN e[f]
            /\ \A c \in DOMAIN e[f] : d[f][c].val = e[f][c].val /\ d[f][c].len = e[f][c].len
  BY SameView
<1>2. Places(d) = Places(e)
  BY <1>1 DEF Places
<1>3. \A q \in Places(e) : q[1] \in DOMAIN e /\ q[2] \in DOMAIN e[q[1]]
  BY DEF Places
<1>4. \A q \in Places(e) : d[q[1]][q[2]].len = e[q[1]][q[2]].len
  BY <1>1, <1>3
<1> QED
  BY <1>2, <1>4 DEF Listed

\* At first every place has a block of its own.
LEMMA NothingReclaimedYet ==
    ASSUME PlanTypeOK, DiskOK(files, disk), IsFiniteSet(DOMAIN files), Unshared(disk)
    PROVE  Total(Held(disk), BlocksInUse(disk)) = Total(Listed(disk), Places(disk))
<1>1. PICK g : g = [q \in Places(disk) |-> disk[q[1]][q[2]]]
  OBVIOUS
<1>2. \A q \in Places(disk) : /\ q = <<q[1], q[2]>> /\ q[1] \in DOMAIN disk
                              /\ q[2] \in DOMAIN disk[q[1]]
  BY DEF Places
<1>3. \A q \in Places(disk) : g[q] \in BlocksInUse(disk) /\ Held(disk)[g[q]] = Listed(disk)[q]
  BY <1>1, <1>2 DEF BlocksInUse, Held, Listed
<1>4. ASSUME NEW q \in Places(disk), NEW s \in Places(disk), g[q] = g[s] PROVE q = s
  <2>1. disk[q[1]][q[2]] = disk[s[1]][s[2]]
    BY <1>1, <1>4
  <2>2. q[1] = s[1] /\ q[2] = s[2]
    BY <1>2, <2>1 DEF Unshared
  <2> QED
    BY <1>2, <2>2
<1>5. ASSUME NEW b \in BlocksInUse(disk) PROVE \E q \in Places(disk) : g[q] = b
  <2>1. PICK f \in DOMAIN disk : \E c \in DOMAIN disk[f] : b = disk[f][c]
    BY DEF BlocksInUse
  <2>2. PICK c \in DOMAIN disk[f] : b = disk[f][c]
    BY <2>1
  <2>3. <<f, c>> \in Places(disk)
    BY DEF Places
  <2> QED
    BY <1>1, <2>2, <2>3
<1>6. PICK S, T, v, u : /\ S = Places(disk) /\ T = BlocksInUse(disk)
                        /\ v = Held(disk) /\ u = Listed(disk)
  OBVIOUS
<1>7. g \in Bijection(S, T)
  BY <1>1, <1>3, <1>4, <1>5, <1>6 DEF Bijection, Injection, Surjection, IsInjective
<1>8. IsFiniteSet(S) /\ \A q \in S : u[q] \in Nat /\ v[g[q]] = u[q]
  BY <1>3, <1>6, PlacesAreFinite
<1>9. Total(v, T) = Total(u, S)
  BY <1>7, <1>8, TotalRenamed
<1> QED
  BY <1>6, <1>9

LEMMA NextReclaims ==
    ASSUME Inv, Calm, TasksApart, NoAliases(files), IsFiniteSet(DOMAIN files), Reclaiming,
           [Next]_vars
    PROVE  Reclaiming'
<1> SUFFICES ASSUME userOps' = 0, ~opts'.dry_run
             PROVE  /\ phase' \in {"index", "plan"} => Unshared(disk')
                    /\ phase' \in {"clone", "done"} => \A p \in OpenPairs' : Unique(p.dst)'
                    /\ stats'.bytes + Total(Held(disk'), BlocksInUse(disk'))
                          = Total(Listed(disk'), Places(disk'))
  BY DEF Reclaiming
<1>1. userOps = 0 /\ View(disk') = View(disk)
  BY NextStaysCalm
<1>2. ~UserStep
  BY <1>1, UserStepTouchesOneFile
<1>3. UNCHANGED <<files, opts>>
  BY InputsStay
<1>4. Places(disk') = Places(disk) /\ Listed(disk') = Listed(disk)
  BY <1>1, ListedInTheView
<1>5. /\ phase \in {"index", "plan"} => Unshared(disk)
      /\ phase \in {"clone", "done"} => \A p \in OpenPairs : Unique(p.dst)
      /\ stats.bytes + Total(Held(disk), BlocksInUse(disk)) = Total(Listed(disk), Places(disk))
  BY <1>1, <1>3 DEF Reclaiming
<1>6. ASSUME disk' = disk, stats'.bytes = stats.bytes
      PROVE  stats'.bytes + Total(Held(disk'), BlocksInUse(disk'))
                = Total(Listed(disk'), Places(disk'))
  BY <1>5, <1>6
<1>7. ASSUME disk' = disk, plan' = plan, OpenRuns' \subseteq OpenRuns,
             \A p \in OpenPairs : Unique(p.dst)
      PROVE  \A p \in OpenPairs' : Unique(p.dst)'
  <2>1. OpenPairs' \subseteq OpenPairs
    BY <1>7 DEF OpenPairs, Covered, RunAt
  <2> QED
    BY <1>3, <1>7, <2>1 DEF Unique, Lone
<1>8. ASSUME NEW w \in Workers, WorkerStep(w)
      PROVE  /\ \A p \in OpenPairs' : Unique(p.dst)'
             /\ stats'.bytes + Total(Held(disk'), BlocksInUse(disk'))
                   = Total(Listed(disk'), Places(disk'))
  <2>1. plan' = plan /\ phase = "clone"
    BY <1>8 DEF WorkerStep, TakePair, TakeSpecial, StartRun, ReadDst, CloneRange, IoFault, planVars,
                Inv, TypeOK, TasksOK
  <2>2. CASE disk' = disk /\ OpenRuns' \subseteq OpenRuns /\ stats'.bytes = stats.bytes
    BY <1>5, <1>6, <1>7, <2>1, <2>2
  <2>3. ASSUME NEW id, NEW r, NEW m \in 1 .. r.n,
               HasInHand(w, id, r), id \in OpenRuns, OpenRuns' = OpenRuns \ {id},
               Clonable(r), Reaches(r.dst, r.dfirst, r.n, r.tail), KernelAgrees(r),
               disk' = Shared(r, m), stats'.bytes = stats.bytes + BytesDeduped(r, m)
        PROVE  /\ \A p \in OpenPairs' : Unique(p.dst)'
               /\ stats'.bytes + Total(Held(disk'), BlocksInUse(disk'))
                     = Total(Listed(disk'), Places(disk'))
    <3>1. /\ \A p \in OpenPairs' : Unique(p.dst)'
          /\ BytesDeduped(r, m) \in Nat /\ Total(Held(disk'), BlocksInUse(disk')) \in Nat
          /\ Total(Held(disk), BlocksInUse(disk))
                = BytesDeduped(r, m) + Total(Held(disk'), BlocksInUse(disk'))
      BY <1>3, <1>5, <2>1, <2>3, CloneReclaims
    <3>2. stats.bytes \in Nat
      BY DEF Inv, TypeOK, NoStats
    <3>3. stats'.bytes + Total(Held(disk'), BlocksInUse(disk'))
             = stats.bytes + Total(Held(disk), BlocksInUse(disk))
      BY <2>3, <3>1, <3>2
    <3> QED
      BY <1>4, <1>5, <3>1, <3>3
  <2> QED
    BY <1>1, <1>3, <1>8, <2>2, <2>3, ReclaimingStep
<1>9. ASSUME Plan
      PROVE  /\ phase' \in {"index", "plan"} => Unshared(disk')
             /\ phase' \in {"clone", "done"} => \A p \in OpenPairs' : Unique(p.dst)'
             /\ disk' = disk /\ stats' = stats
  <2>1. disk' = disk /\ stats' = stats /\ phase \in {"index", "plan"}
    BY <1>9 DEF Plan, PlanStep, GroupPairs, Coalesce, PlanReady, userVars
  <2>2. Unshared(disk)
    BY <1>5, <2>1
  <2>3. ASSUME phase' \in {"clone", "done"}, NEW p \in OpenPairs' PROVE Unique(p.dst)'
    <3>1. plan' = plan
      BY <1>9, <2>3 DEF Plan, PlanStep, GroupPairs, Coalesce, PlanReady
    <3>2. PICK d \in AllRunIds : p \in Covered(d)
      BY <3>1 DEF OpenPairs, OpenRuns, AllRunIds, Covered, RunAt
    <3>3. p.dst.file \in DOMAIN files
      BY <3>2, PairsInRun, PairTypes DEF Inv, TypeOK, PlanTypeOK, AllPairs, PairsOf
    <3>4. PICK f, c : f = files[p.dst.file].ino /\ c = p.dst.chunk + 1
      OBVIOUS
    <3>5. f \in DOMAIN disk
      BY <3>3, <3>4 DEF Inv, TypeOK, DiskOK
    <3>6. c \in DOMAIN disk[f] => Lone(f, c)
      BY <2>2, <3>5 DEF Unshared, Lone
    <3> QED
      BY <1>3, <2>1, <3>4, <3>6 DEF Unique, Lone
  <2> QED
    BY <2>1, <2>2, <2>3
<1>10. ASSUME Finish \/ UNCHANGED vars
       PROVE  /\ disk' = disk /\ stats' = stats /\ plan' = plan
              /\ OpenRuns' = OpenRuns
              /\ phase' = phase \/ (phase = "clone" /\ phase' = "done")
  BY <1>10 DEF Finish, vars, planVars, userVars, toolVars, OpenRuns, AllRunIds, InHand
<1>11. ASSUME Finish \/ UNCHANGED vars
       PROVE  /\ phase' \in {"index", "plan"} => Unshared(disk')
              /\ phase' \in {"clone", "done"} => \A p \in OpenPairs' : Unique(p.dst)'
              /\ stats'.bytes + Total(Held(disk'), BlocksInUse(disk'))
                    = Total(Listed(disk'), Places(disk'))
  BY <1>5, <1>6, <1>7, <1>10, <1>11
<1>12. ASSUME NEW w \in Workers, WorkerStep(w) PROVE phase' = "clone"
  BY <1>12 DEF WorkerStep, TakePair, TakeSpecial, StartRun, ReadDst, CloneRange, IoFault, planVars,
               Inv, TypeOK, TasksOK
<1> QED
  BY <1>2, <1>6, <1>8, <1>9, <1>11, <1>12 DEF Next, Returned

\* The sums of the property, as numbers of bytes.
LEMMA HeldSummed ==
    ASSUME PlanTypeOK, DiskOK(files, disk), IsFiniteSet(DOMAIN files)
    PROVE  BytesInUse(disk) = Total(Held(disk), BlocksInUse(disk))
<1>1. PICK S, w : S = BlocksInUse(disk) /\ w = Held(disk)
  OBVIOUS
<1>2. IsFiniteSet(S) /\ \A x \in S : w[x] \in Nat
  BY <1>1, PlacesAreFinite
<1> DEFINE Solves(g) == g = [s \in SUBSET S |->
                               IF s = {} THEN 0
                               ELSE (CHOOSE b \in s : TRUE).len + g[s \ {CHOOSE b \in s : TRUE}]]
<1>3. \A g : Solves(g) <=> Unfolds(g, w, S)
  <2> SUFFICES ASSUME NEW g PROVE Solves(g) <=> Unfolds(g, w, S)
    OBVIOUS
  <2> DEFINE c(s) == CHOOSE b \in s : TRUE
             lhs(s) == IF s = {} THEN 0 ELSE (CHOOSE b \in s : TRUE).len + g[s \ {c(s)}]
             rhs(s) == IF s = {} THEN 0 ELSE w[c(s)] + g[s \ {c(s)}]
  <2>1. ASSUME NEW s \in SUBSET S PROVE lhs(s) = rhs(s)
    <3>1. s # {} => w[c(s)] = (CHOOSE b \in s : TRUE).len
      BY <1>1 DEF Held
    <3> QED
      BY <3>1
  <2>2. Solves(g) <=> g = [s \in SUBSET S |-> lhs(s)]
    OBVIOUS
  <2>3. Unfolds(g, w, S) <=> g = [s \in SUBSET S |-> rhs(s)]
    BY Zenon DEF Unfolds
  <2> HIDE DEF Solves, lhs, rhs
  <2> QED
    BY <2>1, <2>2, <2>3
<1>4. Solves(CHOOSE g : Solves(g))
  <2>1. \E g : Solves(g)
    BY <1>2, <1>3, RecursionHasASolution
  <2> QED
    BY <2>1, Zenon
<1>5. (CHOOSE g : Solves(g))[S] = Total(w, S)
  BY <1>2, <1>3, <1>4, RecursionSums
<1>6. BytesInUse(disk) = (CHOOSE g : Solves(g))[S]
  BY <1>1 DEF BytesInUse, MapThenSumSet, MapThenFoldSet
<1> QED
  BY <1>1, <1>5, <1>6

FileLens(f) == [c \in DOMAIN disk[f] |-> disk[f][c].len]

LEMMA FileIsFinite ==
    ASSUME PlanTypeOK, DiskOK(files, disk), NEW f \in DOMAIN disk
    PROVE  IsFiniteSet(DOMAIN disk[f]) /\ \A c \in DOMAIN disk[f] : FileLens(f)[c] \in Nat
<1>1. PICK n : n = Len(disk[f])
  OBVIOUS
<1>2. n \in Nat /\ DOMAIN disk[f] = 1 .. n
  BY <1>1, RecSizeType
<1>3. IsFiniteSet(1 .. n)
  BY <1>2, FS_Interval, 1 \in Int, n \in Int
<1>4. \A c \in DOMAIN disk[f] : disk[f][c].len \in Nat
  BY BlockType DEF Block
<1> QED
  BY <1>2, <1>3, <1>4 DEF FileLens

LEMMA FileSummed ==
    ASSUME PlanTypeOK, DiskOK(files, disk), NEW f \in DOMAIN disk
    PROVE  SumLens(f) = Total(FileLens(f), DOMAIN disk[f])
<1>1. PICK S, w : S = DOMAIN disk[f] /\ w = FileLens(f)
  OBVIOUS
<1>2. IsFiniteSet(S) /\ \A x \in S : w[x] \in Nat
  BY <1>1, FileIsFinite
<1> DEFINE Solves(g) == g = [s \in SUBSET S |->
                               IF s = {} THEN 0
                               ELSE disk[f][CHOOSE e \in s : TRUE].len + g[s \ {CHOOSE e \in s : TRUE}]]
<1>3. \A g : Solves(g) <=> Unfolds(g, w, S)
  <2> SUFFICES ASSUME NEW g PROVE Solves(g) <=> Unfolds(g, w, S)
    OBVIOUS
  <2> DEFINE c(s) == CHOOSE e \in s : TRUE
             lhs(s) == IF s = {} THEN 0 ELSE disk[f][CHOOSE e \in s : TRUE].len + g[s \ {c(s)}]
             rhs(s) == IF s = {} THEN 0 ELSE w[c(s)] + g[s \ {c(s)}]
  <2>1. ASSUME NEW s \in SUBSET S PROVE lhs(s) = rhs(s)
    <3>1. s # {} => w[c(s)] = disk[f][CHOOSE e \in s : TRUE].len
      BY <1>1 DEF FileLens
    <3> QED
      BY <3>1
  <2>2. Solves(g) <=> g = [s \in SUBSET S |-> lhs(s)]
    OBVIOUS
  <2>3. Unfolds(g, w, S) <=> g = [s \in SUBSET S |-> rhs(s)]
    BY Zenon DEF Unfolds
  <2> HIDE DEF Solves, lhs, rhs
  <2> QED
    BY <2>1, <2>2, <2>3
<1>4. Solves(CHOOSE g : Solves(g))
  <2>1. \E g : Solves(g)
    BY <1>2, <1>3, RecursionHasASolution
  <2> QED
    BY <2>1, Zenon
<1>5. (CHOOSE g : Solves(g))[S] = Total(w, S)
  BY <1>2, <1>3, <1>4, RecursionSums
<1>6. SumLens(f) = (CHOOSE g : Solves(g))[S]
  BY <1>1 DEF SumLens, MapThenSumSet, MapThenFoldSet
<1> QED
  BY <1>1, <1>5, <1>6

AllFileLens == [f \in DOMAIN disk |-> SumLens(f)]

LEMMA FilesSummed ==
    ASSUME PlanTypeOK, DiskOK(files, disk), IsFiniteSet(DOMAIN files)
    PROVE  MapThenSumSet(LAMBDA f : SumLens(f), DOMAIN disk) = Total(AllFileLens, DOMAIN disk)
<1>1. PICK S, w : S = DOMAIN disk /\ w = AllFileLens
  OBVIOUS
<1>2. IsFiniteSet(S) /\ \A x \in S : w[x] \in Nat
  <2>1. \A f \in DOMAIN disk : SumLens(f) \in Nat
    BY FileIsFinite, FileSummed, BytesAreFinite
  <2> QED
    BY <1>1, <2>1, PlacesAreFinite DEF AllFileLens
<1> DEFINE Solves(g) == g = [s \in SUBSET S |->
                               IF s = {} THEN 0
                               ELSE SumLens(CHOOSE f \in s : TRUE) + g[s \ {CHOOSE f \in s : TRUE}]]
<1>3. \A g : Solves(g) <=> Unfolds(g, w, S)
  <2> SUFFICES ASSUME NEW g PROVE Solves(g) <=> Unfolds(g, w, S)
    OBVIOUS
  <2> DEFINE c(s) == CHOOSE f \in s : TRUE
             lhs(s) == IF s = {} THEN 0 ELSE SumLens(CHOOSE f \in s : TRUE) + g[s \ {c(s)}]
             rhs(s) == IF s = {} THEN 0 ELSE w[c(s)] + g[s \ {c(s)}]
  <2>1. ASSUME NEW s \in SUBSET S PROVE lhs(s) = rhs(s)
    <3>1. s # {} => w[c(s)] = SumLens(CHOOSE f \in s : TRUE)
      BY <1>1 DEF AllFileLens
    <3> QED
      BY <3>1
  <2>2. Solves(g) <=> g = [s \in SUBSET S |-> lhs(s)]
    OBVIOUS
  <2>3. Unfolds(g, w, S) <=> g = [s \in SUBSET S |-> rhs(s)]
    BY Zenon DEF Unfolds
  <2> HIDE DEF Solves, lhs, rhs
  <2> QED
    BY <2>1, <2>2, <2>3
<1>4. Solves(CHOOSE g : Solves(g))
  <2>1. \E g : Solves(g)
    BY <1>2, <1>3, RecursionHasASolution
  <2> QED
    BY <2>1, Zenon
<1>5. (CHOOSE g : Solves(g))[S] = Total(w, S)
  BY <1>2, <1>3, <1>4, RecursionSums
<1>6. MapThenSumSet(LAMBDA f : SumLens(f), DOMAIN disk) = (CHOOSE g : Solves(g))[S]
  BY <1>1 DEF MapThenSumSet, MapThenFoldSet
<1> QED
  BY <1>1, <1>5, <1>6

\* What the places list is what the files hold.
LEMMA ListedByFile ==
    ASSUME PlanTypeOK, DiskOK(files, disk), IsFiniteSet(DOMAIN files)
    PROVE  Total(Listed(disk), Places(disk)) = Total(AllFileLens, DOMAIN disk)
<1>1. PICK S, w, Q, v : /\ S = DOMAIN disk /\ w = Listed(disk)
                        /\ Q = [f \in S |-> {f} \X DOMAIN disk[f]]
                        /\ v = [f \in S |-> Total(w, Q[f])]
  OBVIOUS
<1>2. IsFiniteSet(S)
  BY <1>1, PlacesAreFinite
<1>3. UNION { Q[f] : f \in S } = Places(disk)
  BY <1>1 DEF Places
<1>4. ASSUME NEW f \in S
      PROVE  /\ IsFiniteSet(Q[f]) /\ \A q \in Q[f] : w[q] \in Nat
             /\ Total(w, Q[f]) = SumLens(f)
  <2>1. PICK D, u, g, R : /\ D = DOMAIN disk[f] /\ u = FileLens(f) /\ R = Q[f]
                          /\ g = [c \in D |-> <<f, c>>]
    OBVIOUS
  <2>2. R = {f} \X D
    BY <1>1, <2>1
  <2>3. R \subseteq Places(disk)
    BY <1>3, <2>1
  <2>4. IsFiniteSet(R) /\ \A q \in R : w[q] \in Nat
    BY <1>1, <2>3, PlacesAreFinite, FS_Subset
  <2>5. IsFiniteSet(D) /\ \A c \in D : u[c] \in Nat
    BY <1>1, <2>1, FileIsFinite
  <2>6. g \in Bijection(D, R)
    <3>1. g \in [D -> R]
      BY <2>1, <2>2
    <3>2. \A c, e \in D : g[c] = g[e] => c = e
      BY <2>1
    <3>3. \A q \in R : \E c \in D : g[c] = q
      BY <2>1, <2>2
    <3> QED
      BY <3>1, <3>2, <3>3 DEF Bijection, Injection, Surjection, IsInjective
  <2>7. \A c \in D : w[g[c]] = u[c]
    BY <1>1, <2>1, <2>2, <2>3 DEF Listed, FileLens
  <2>8. Total(w, R) = Total(u, D)
    BY <2>5, <2>6, <2>7, TotalRenamed
  <2>9. Total(u, D) = SumLens(f)
    BY <1>1, <2>1, FileSummed
  <2> QED
    BY <2>1, <2>4, <2>8, <2>9
<1>5. \A f, g \in S : f # g => Q[f] \cap Q[g] = {}
  BY <1>1
<1>6. Total(w, UNION { Q[f] : f \in S }) = Total(v, S)
  <2>1. \A f \in S : IsFiniteSet(Q[f]) /\ \A q \in Q[f] : w[q] \in Nat
    BY <1>4
  <2>2. Parts(w, S, Q)
    BY <1>5, <2>1, Zenon DEF Parts
  <2>3. PICK U : U = UNION { Q[f] : f \in S }
    OBVIOUS
  <2>4. v = [f \in S |-> Total(w, Q[f])]
    BY <1>1
  <2>5. Total(w, U) = Total(v, S)
    BY <1>2, <2>2, <2>3, <2>4, TotalOfParts
  <2> QED
    BY <2>3, <2>5
<1>7. v = AllFileLens
  BY <1>1, <1>4 DEF AllFileLens
<1> QED
  BY <1>1, <1>3, <1>6, <1>7

\* The report is right, whatever the tasks are at and whatever has failed: as long as
\* no user acts, the bytes that pair has added up are those of the blocks that no file
\* lists any more.  FIDEDUPERANGE may stop short, since bytes_deduped counts only what
\* it has shared; a chunk is never replaced twice, and none that is a source.  Of the
\* inputs it asks that each file number is an inode of its own and that no storage is
\* shared yet, because the code does not look for extents that are shared already.
THEOREM ReportsWhatItReclaims ==
    (\A i \in Inputs : NoAliases(i.files) /\ Unshared(i.disk)) => (Spec => []ReclaimedAsReported)
<1> SUFFICES ASSUME \A i \in Inputs : NoAliases(i.files) /\ Unshared(i.disk)
             PROVE  Spec => []ReclaimedAsReported
  OBVIOUS
<1> DEFINE IInv == /\ Inv /\ Calm /\ TasksApart /\ NoAliases(files)
                   /\ IsFiniteSet(DOMAIN files) /\ Reclaiming
<1>1. Init => IInv
  <2> SUFFICES ASSUME Init PROVE IInv
    OBVIOUS
  <2>1. Inv
    BY InitTyped
  <2>2. \A w \in Workers : task[w].pc = "idle"
    BY DEF Init, Idle
  <2>3. NoAliases(files) /\ Unshared(disk) /\ IsFiniteSet(DOMAIN files)
    BY FilesAssumption DEF Init
  <2>4. Calm /\ TasksApart
    BY <2>2 DEF Init, Calm, TasksApart
  <2>5. stats.bytes = 0 /\ phase = "index"
    BY DEF Init, NoStats
  <2>6. Total(Held(disk), BlocksInUse(disk)) = Total(Listed(disk), Places(disk))
    BY <2>1, <2>3, NothingReclaimedYet DEF Inv, TypeOK
  <2>7. Total(Held(disk), BlocksInUse(disk)) \in Nat
    BY <2>1, <2>3, PlacesAreFinite, BytesAreFinite DEF Inv, TypeOK
  <2>8. Reclaiming
    BY <2>3, <2>5, <2>6, <2>7 DEF Reclaiming
  <2> QED
    BY <2>1, <2>3, <2>4, <2>8
<1>2. IInv /\ [Next]_vars => IInv'
  <2> SUFFICES ASSUME IInv, [Next]_vars PROVE IInv'
    OBVIOUS
  <2>1. UNCHANGED files
    BY InputsStay
  <2> QED
    BY <2>1, NextKeepsInv, NextStaysCalm, NextApart, NextReclaims
<1>3. IInv => ReclaimedAsReported
  <2> SUFFICES ASSUME IInv, userOps = 0, ~opts.dry_run
               PROVE  stats.bytes = MapThenSumSet(LAMBDA f : SumLens(f), DOMAIN disk)
                                      - BytesInUse(disk)
    BY DEF ReclaimedAsReported
  <2>1. PlanTypeOK /\ DiskOK(files, disk) /\ IsFiniteSet(DOMAIN files) /\ stats.bytes \in Nat
    BY DEF Inv, TypeOK, NoStats
  <2>2. stats.bytes + Total(Held(disk), BlocksInUse(disk)) = Total(Listed(disk), Places(disk))
    BY DEF Reclaiming
  <2>3. Total(Held(disk), BlocksInUse(disk)) \in Nat
    BY <2>1, PlacesAreFinite, BytesAreFinite
  <2>4. BytesInUse(disk) = Total(Held(disk), BlocksInUse(disk))
    BY <2>1, HeldSummed
  <2>5. MapThenSumSet(LAMBDA f : SumLens(f), DOMAIN disk) = Total(AllFileLens, DOMAIN disk)
    BY <2>1, FilesSummed
  <2>6. Total(Listed(disk), Places(disk)) = Total(AllFileLens, DOMAIN disk)
    BY <2>1, ListedByFile
  <2>7. stats.bytes = Total(AllFileLens, DOMAIN disk) - Total(Held(disk), BlocksInUse(disk))
    BY <2>1, <2>2, <2>3, <2>6
  <2> QED
    BY <2>4, <2>5, <2>7
<1> HIDE DEF IInv
<1> QED
  BY <1>1, <1>2, <1>3, PTL DEF Spec
=============================================================================
