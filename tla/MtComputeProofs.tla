---------------------------- MODULE MtComputeProofs ----------------------------
(***************************************************************************)
(* Proofs about MtCompute, for any threads, any width of the counters and  *)
(* any set of jobs.                                                        *)
(*                                                                         *)
(* The three theorems come from one reading of the two counters: they      *)
(* stand for the set of pixels handed out so far (Taken).  Whatever the    *)
(* mode, every pixel handed out has been computed, is being computed, or   *)
(* was in a region whose median found no memory;                           *)
(* and, as long as no counter can overflow, it was handed out once.        *)
(***************************************************************************)
EXTENDS MtCompute, SharedLemmas

LEMMA MinOfTwo ==
  ASSUME NEW a \in Int, NEW b \in Int
  PROVE  /\ Min({a, b}) = IF a <= b THEN a ELSE b
         /\ Min({a, b}) \in Int
<1> DEFINE m == IF a <= b THEN a ELSE b
<1>1. m \in {a, b} /\ \A y \in {a, b} : m <= y
  OBVIOUS
<1>2. Min({a, b}) \in {a, b} /\ \A y \in {a, b} : Min({a, b}) <= y
  BY <1>1 DEF Min
<1> QED
  BY <1>2

-----------------------------------------------------------------------------
(* Where the counters are between two steps, and what a job is. *)
JobOK ==
  /\ job.mode \in Mode
  /\ job.height \in 1 .. Word - 1 /\ job.width \in 1 .. Word - 1 /\ job.block \in 1 .. Word - 1

Counters ==
  /\ next_x_block \in 0 .. Word - 1 /\ next_y_block \in 0 .. Word - 1
  /\ job.mode = "row" => next_y_block = 0
  /\ job.mode = "column" => next_x_block = 0
  /\ job.mode \in {"grid", "pixel"} => next_y_block < job.width

LEMMA JobTyped == MtAssumption /\ job \in Jobs => JobOK
<1> SUFFICES ASSUME MtAssumption, job \in Jobs PROVE JobOK
  OBVIOUS
<1>1. job \in [mode : Mode, height : 1 .. Word - 1, width : 1 .. Word - 1, block : 1 .. Word - 1,
              median : BOOLEAN]
  BY DEF MtAssumption
<1> QED
  BY <1>1 DEF JobOK

LEMMA BlockSizeTyped == MtAssumption /\ JobOK => BlockSize \in 1 .. Word - 1
  BY DEF MtAssumption, JobOK, BlockSize

-----------------------------------------------------------------------------
(* The pixels handed out so far, as the counters tell them. *)
Taken(p) ==
  CASE job.mode = "row"    -> p[1] < next_x_block
    [] job.mode = "column" -> p[2] < next_y_block
    [] OTHER -> p[1] < next_x_block \/ (p[1] < next_x_block + BlockSize /\ p[2] < next_y_block)

(* Without an overflow a counter is a multiple of the block size. *)
Aligned(counter) == \E k \in 0 .. Word : counter = k * BlockSize

LEMMA BlockInImage ==
  ASSUME MtAssumption, JobOK, Counters, ~Exhausted
  PROVE  Block.rows \subseteq 0 .. job.height - 1 /\ Block.cols \subseteq 0 .. job.width - 1
<1> DEFINE b == BlockSize
<1>1. b \in 1 .. Word - 1 /\ Word \in Nat
  BY BlockSizeTyped DEF MtAssumption
<1>2. End(next_x_block, b, job.height) \in Int /\ End(next_x_block, b, job.height) <= job.height
  BY <1>1, MinOfTwo DEF End, JobOK, Counters
<1>3. End(next_y_block, b, job.width) \in Int /\ End(next_y_block, b, job.width) <= job.width
  BY <1>1, MinOfTwo DEF End, JobOK, Counters
<1> HIDE DEF b
<1> QED
  BY <1>1, <1>2, <1>3 DEF b, Block, Rect, JobOK, Counters, Mode

(* The pixels of the block are not handed out yet. *)
LEMMA BlockIsNew ==
  ASSUME MtAssumption, JobOK, Counters, NEW p \in Pixel, In(p, Block)
  PROVE  ~Taken(p)
<1> DEFINE b == BlockSize
<1>1. b \in 1 .. Word - 1 /\ Word \in Nat
  BY BlockSizeTyped DEF MtAssumption
<1>2. PICK y \in 0 .. job.height - 1, x \in 0 .. job.width - 1 : p = <<y, x>>
  BY DEF Pixel
<1> HIDE DEF b
<1> QED
  BY <1>1, <1>2 DEF b, Block, Rect, In, Taken, JobOK, Counters, Mode

(* What the counters hand out in a step is the block; and it is all of the *)
(* block when no counter overflows.                                        *)
LEMMA AdvanceTakesBlock ==
  ASSUME MtAssumption, JobOK, Counters, ~Exhausted, Advance, UNCHANGED job, NEW p \in Pixel
  PROVE  /\ Taken(p)' => Taken(p) \/ In(p, Block)
         /\ (Taken(p) \/ In(p, Block)) /\ next_x_block + BlockSize < Word /\ next_y_block + BlockSize < Word
              => Taken(p)'
<1> DEFINE b == BlockSize
           h == job.height
           w == job.width
           wrapped(n) == (n + b) % Word
<1>1. b \in 1 .. Word - 1 /\ Word \in Nat /\ b' = b
  BY BlockSizeTyped DEF MtAssumption, BlockSize
<1>2. PICK y \in 0 .. job.height - 1, x \in 0 .. job.width - 1 : p = <<y, x>>
  BY DEF Pixel
<1>3. ASSUME NEW n \in 0 .. Word - 1
      PROVE  wrapped(n) = IF n + b < Word THEN n + b ELSE n + b - Word
  BY <1>1
<1>4. End(next_x_block, b, h) = IF next_x_block + b <= h THEN next_x_block + b ELSE h
  BY <1>1, MinOfTwo DEF End, JobOK, Counters
<1>5. End(next_y_block, b, w) = IF next_y_block + b <= w THEN next_y_block + b ELSE w
  BY <1>1, MinOfTwo DEF End, JobOK, Counters
<1>6. /\ next_x_block \in 0 .. Word - 1 /\ next_y_block \in 0 .. Word - 1
      /\ h \in 1 .. Word - 1 /\ w \in 1 .. Word - 1
  BY DEF Counters, JobOK
<1>a. /\ wrapped(next_x_block) = IF next_x_block + b < Word THEN next_x_block + b ELSE next_x_block + b - Word
      /\ wrapped(next_y_block) = IF next_y_block + b < Word THEN next_y_block + b ELSE next_y_block + b - Word
  BY <1>3, <1>6
<1> HIDE DEF wrapped
<1>7. CASE job.mode = "row"
  <2>1. next_x_block' = wrapped(next_x_block) /\ next_y_block' = next_y_block
    BY <1>7 DEF Advance, wrapped
  <2>2. /\ Taken(p) <=> (y < next_x_block)
        /\ Taken(p)' <=> (y < next_x_block')
    BY <1>7, <1>2 DEF Taken
  <2>3. In(p, Block) <=> (next_x_block <= y /\ y < next_x_block + b)
    <3>1. Block = Rect(next_x_block, End(next_x_block, b, h), 0, w)
      BY <1>7 DEF Block
    <3> QED
      BY <1>1, <1>2, <1>4, <1>6, <3>1 DEF In, Rect
  <2> QED
    BY <1>1, <1>2, <1>a, <1>6, <2>1, <2>2, <2>3
<1>8. CASE job.mode = "column"
  <2>1. next_y_block' = wrapped(next_y_block)
    BY <1>8 DEF Advance, wrapped
  <2>2. /\ Taken(p) <=> (x < next_y_block)
        /\ Taken(p)' <=> (x < next_y_block')
    BY <1>8, <1>2 DEF Taken
  <2>3. In(p, Block) <=> (next_y_block <= x /\ x < next_y_block + b)
    <3>1. Block = Rect(0, h, next_y_block, End(next_y_block, b, w))
      BY <1>8 DEF Block
    <3> QED
      BY <1>1, <1>2, <1>5, <1>6, <3>1 DEF In, Rect
  <2> QED
    BY <1>1, <1>2, <1>a, <1>6, <2>1, <2>2, <2>3
<1>9. CASE job.mode \in {"grid", "pixel"}
  <2>1. next_y_block < w
    BY <1>9 DEF Counters
  <2>2. CASE wrapped(next_y_block) >= w
    <3>1. next_y_block' = 0 /\ next_x_block' = wrapped(next_x_block)
      BY <1>9, <2>2 DEF Advance, wrapped
    <3>2. /\ Taken(p) <=> (y < next_x_block \/ (y < next_x_block + b /\ x < next_y_block))
          /\ Taken(p)' <=> (y < next_x_block')
      BY <1>1, <1>9, <1>2, <3>1 DEF Taken
    <3>3. In(p, Block) <=> (next_x_block <= y /\ y < next_x_block + b /\ next_y_block <= x /\ x < next_y_block + b)
      BY <1>1, <1>2, <1>4, <1>5, <1>6, <1>9 DEF In, Block, Rect
    <3>4. next_y_block + b >= w
      BY <1>1, <1>a, <1>6, <2>1, <2>2
    <3> QED
      BY <1>1, <1>2, <1>a, <1>6, <3>1, <3>2, <3>3, <3>4
  <2>3. CASE wrapped(next_y_block) < w
    <3>1. next_y_block' = wrapped(next_y_block) /\ next_x_block' = next_x_block
      BY <1>1, <1>a, <1>6, <1>9, <2>3 DEF Advance, wrapped
    <3>2. /\ Taken(p) <=> (y < next_x_block \/ (y < next_x_block + b /\ x < next_y_block))
          /\ Taken(p)' <=> (y < next_x_block \/ (y < next_x_block + b /\ x < next_y_block'))
      BY <1>1, <1>9, <1>2, <3>1 DEF Taken
    <3>3. In(p, Block) <=> (next_x_block <= y /\ y < next_x_block + b /\ next_y_block <= x /\ x < next_y_block + b)
      BY <1>1, <1>2, <1>4, <1>5, <1>6, <1>9 DEF In, Block, Rect
    <3> QED
      BY <1>1, <1>2, <1>a, <1>6, <3>1, <3>2, <3>3
  <2> QED
    BY <1>1, <1>a, <1>6, <2>2, <2>3
<1> QED
  BY <1>7, <1>8, <1>9 DEF JobOK, Mode

LEMMA NoOverflow ==
  ASSUME MtAssumption, JobOK, Counters, ~Exhausted, ~Wraps, NEW counter \in 0 .. Word - 1, Aligned(counter),
         \/ counter = 0
         \/ counter < job.height /\ job.mode # "column"
         \/ counter < job.width /\ job.mode # "row"
  PROVE  counter + BlockSize < Word /\ \E k \in 0 .. Word : counter + BlockSize = k * BlockSize
<1> DEFINE b == BlockSize
<1>1. b \in 1 .. Word - 1 /\ Word \in Nat /\ 0 * b = 0
  BY BlockSizeTyped DEF MtAssumption
<1>2. PICK k \in 0 .. Word : counter = k * b
  BY DEF Aligned
<1>3. (k + 1) * b = k * b + b
  BY <1>1
<1>4. counter + b < Word
  <2>1. CASE counter = 0
    BY <1>1, <2>1
  <2>2. CASE counter < job.height /\ job.mode # "column"
    <3>1. ~Overflows(job.height)
      BY <2>2 DEF Wraps
    <3>2. (k + 1) * b < Word
      <4>1. (k + 1) * b \in Int
        BY <1>1
      <4>2. ~((k + 1) * b >= Word)
        BY <1>2, <2>2, <3>1 DEF Overflows
      <4> QED
        BY <1>1, <4>1, <4>2
    <3> QED
      BY <1>2, <1>3, <3>2
  <2>3. CASE counter < job.width /\ job.mode # "row"
    <3>1. ~Overflows(job.width)
      BY <2>3 DEF Wraps
    <3>2. (k + 1) * b < Word
      <4>1. (k + 1) * b \in Int
        BY <1>1
      <4>2. ~((k + 1) * b >= Word)
        BY <1>2, <2>3, <3>1 DEF Overflows
      <4> QED
        BY <1>1, <4>1, <4>2
    <3> QED
      BY <1>2, <1>3, <3>2
  <2> QED
    BY <2>1, <2>2, <2>3
<1>5. k + 1 <= Word
  <2>1. k < Word
    <3>1. SUFFICES ASSUME k = Word PROVE FALSE
      OBVIOUS
    <3>2. Word * b >= Word
      BY <1>1
    <3> QED
      BY <1>1, <1>2, <1>4, <3>1, <3>2
  <2> QED
    BY <1>1, <2>1
<1> QED
  BY <1>2, <1>3, <1>4, <1>5

-----------------------------------------------------------------------------
Region == [rows : SUBSET Int, cols : SUBSET Int]

Types ==
  /\ job \in Jobs
  /\ pc \in [Threads -> {"none", "take", "compute", "done"}]
  /\ part \in [Threads -> Region]
  /\ \A t \in Threads : part[t].rows \subseteq 0 .. job.height - 1 /\ part[t].cols \subseteq 0 .. job.width - 1
  /\ painted \in [Pixel -> 0 .. 2] /\ skipped \subseteq Pixel
  /\ main \in {"create", "join", "joinFailed", "saved", "failed"}

(* A thread has a region only while it computes; none leaves before all    *)
(* blocks are taken; and the main thread saves after all have left.        *)
Phases ==
  /\ \A t \in Threads : pc[t] # "compute" => part[t] = Nowhere
  /\ \A t \in Threads : pc[t] = "done" => Exhausted
  /\ main \in {"join", "saved"} => Threads # {} /\ \A t \in Threads : pc[t] # "none"
  /\ main = "saved" => \A t \in Threads : pc[t] = "done"

InHand(p) == \E t \in Threads : In(p, part[t])
Covered == \A p \in Pixel : Taken(p) => painted[p] >= 1 \/ InHand(p) \/ p \in skipped

(* A pixel that is computed, or being computed, has been handed out; it is *)
(* one or the other, and in one thread's region.                           *)
Once(p) ==
  /\ painted[p] <= 1
  /\ painted[p] = 1 => Taken(p) /\ ~InHand(p)
  /\ \A t \in Threads : In(p, part[t]) => Taken(p) /\ \A u \in Threads : In(p, part[u]) => u = t
Tiles == ~Wraps =>
  /\ Aligned(next_x_block) /\ Aligned(next_y_block)
  /\ \A p \in Pixel : Once(p)

MtInv == Types /\ Counters /\ Phases /\ Covered /\ Tiles
-----------------------------------------------------------------------------
LEMMA TypesStart == MtAssumption /\ Init => MtInv
<1> SUFFICES ASSUME MtAssumption, Init PROVE MtInv
  OBVIOUS
<1>1. JobOK
  BY JobTyped DEF Init
<1>2. BlockSize \in 1 .. Word - 1 /\ Word \in Nat /\ 0 * BlockSize = 0
  BY <1>1, BlockSizeTyped DEF MtAssumption
<1>3. Nowhere \in Region /\ Nowhere.rows = {} /\ Nowhere.cols = {}
  BY DEF Nowhere, Rect, Region
<1>4. Types /\ Phases
  BY <1>3 DEF Init, Types, Phases
<1>5. Counters
  BY <1>1, <1>2 DEF Init, Counters, JobOK
<1>6. \A p \in Pixel : ~Taken(p) /\ ~InHand(p)
  <2> SUFFICES ASSUME NEW p \in Pixel PROVE ~Taken(p) /\ ~InHand(p)
    OBVIOUS
  <2>1. PICK y \in 0 .. job.height - 1, x \in 0 .. job.width - 1 : p = <<y, x>>
    BY DEF Pixel
  <2>2. ~Taken(p)
    BY <1>1, <1>2, <2>1 DEF Init, Taken, JobOK, Mode
  <2>3. ~InHand(p)
    BY <1>3 DEF Init, InHand, In
  <2> QED
    BY <2>2, <2>3
<1>7. Covered
  BY <1>6 DEF Covered
<1>8. Tiles
  <2>1. Aligned(next_x_block) /\ Aligned(next_y_block)
    BY <1>2 DEF Init, Aligned
  <2>2. ASSUME NEW p \in Pixel PROVE Once(p)
    BY <1>6 DEF Init, Once, InHand
  <2> QED
    BY <2>1, <2>2 DEF Tiles
<1> QED
  BY <1>4, <1>5, <1>7, <1>8 DEF MtInv

(* What the invariant is about, apart from the threads, stays as it is. *)
LEMMA SameJob ==
  ASSUME UNCHANGED job
  PROVE  /\ JobOK <=> JobOK' 
         /\ Pixel' = Pixel /\ (Wraps <=> Wraps') /\ BlockSize' = BlockSize
  BY DEF JobOK, Pixel, Wraps, Overflows, BlockSize

LEMMA SameCounters ==
  ASSUME UNCHANGED <<job, next_x_block, next_y_block>>
  PROVE  /\ \A p : Taken(p)' <=> Taken(p)
         /\ (Aligned(next_x_block))' <=> Aligned(next_x_block)
         /\ (Aligned(next_y_block))' <=> Aligned(next_y_block)
         /\ Exhausted' <=> Exhausted
         /\ Counters' <=> Counters
  BY SameJob DEF Taken, Aligned, Exhausted, Counters, BlockSize

-----------------------------------------------------------------------------
LEMMA TakeBlockKeeps ==
  ASSUME MtAssumption, MtInv, NEW t \in Threads, TakeBlock(t)
  PROVE  MtInv'
<1> DEFINE b == BlockSize
<1>1. JobOK /\ Counters /\ ~Exhausted /\ Advance /\ UNCHANGED <<job, painted, skipped, main>>
  BY JobTyped DEF MtInv, Types, TakeBlock
<1>2. b \in 1 .. Word - 1 /\ Word \in Nat /\ b' = b /\ Pixel' = Pixel /\ JobOK' /\ (Wraps <=> Wraps')
  BY <1>1, BlockSizeTyped, SameJob DEF MtAssumption
<1>3. part' = [part EXCEPT ![t] = Block] /\ pc' = [pc EXCEPT ![t] = "compute"] /\ pc[t] = "take" /\ part[t] = Nowhere
  BY DEF TakeBlock, MtInv, Phases
<1>4. part'[t] = Block /\ \A u \in Threads : u # t => part'[u] = part[u]
  BY <1>3 DEF MtInv, Types
<1>5. \A p : ~In(p, Nowhere)
  BY DEF Nowhere, Rect, In
<1>6. Types'
  <2>1. Block.rows \subseteq 0 .. job.height - 1 /\ Block.cols \subseteq 0 .. job.width - 1
    BY <1>1, BlockInImage
  <2>2. Block \in Region
    <3>1. Block = [rows |-> Block.rows, cols |-> Block.cols]
      BY <1>1 DEF Block, Rect, JobOK, Mode
    <3>2. Block.rows \subseteq Int /\ Block.cols \subseteq Int
      BY <2>1
    <3> QED
      BY <3>1, <3>2 DEF Region
  <2>3. part' \in [Threads -> Region]
    BY <1>3, <2>2 DEF MtInv, Types
  <2>4. \A u \in Threads : part'[u].rows \subseteq 0 .. job.height - 1 /\ part'[u].cols \subseteq 0 .. job.width - 1
    BY <1>4, <2>1 DEF MtInv, Types
  <2>5. pc' \in [Threads -> {"none", "take", "compute", "done"}]
    BY <1>3 DEF MtInv, Types
  <2> QED
    BY <1>1, <1>2, <2>3, <2>4, <2>5 DEF MtInv, Types
<1>7. Counters'
  <2>1. \A n \in 0 .. Word - 1 : (n + b) % Word \in 0 .. Word - 1
    BY <1>2
  <2> HIDE DEF b
  <2>2. /\ (next_x_block + b) % Word \in 0 .. Word - 1
        /\ (next_y_block + b) % Word \in 0 .. Word - 1
    BY <1>1, <2>1 DEF Counters
  <2> QED
    BY <1>1, <1>2, <2>2 DEF Advance, Counters, JobOK, Mode, b
<1>8. Phases'
  BY <1>1, <1>3, <1>4 DEF MtInv, Types, Phases
<1>9. ASSUME NEW p \in Pixel
      PROVE  /\ Taken(p)' => Taken(p) \/ In(p, Block)
             /\ In(p, Block) => ~Taken(p)
             /\ InHand(p)' <=> InHand(p) \/ In(p, Block)
  <2>1. Taken(p)' => Taken(p) \/ In(p, Block)
    BY <1>1, AdvanceTakesBlock
  <2>2. In(p, Block) => ~Taken(p)
    BY <1>1, BlockIsNew
  <2>3. InHand(p)' <=> InHand(p) \/ In(p, Block)
    <3>1. \A u \in Threads : In(p, part'[u]) <=> (In(p, part[u]) \/ (u = t /\ In(p, Block)))
      BY <1>3, <1>4, <1>5
    <3> QED
      BY <3>1 DEF InHand
  <2> QED
    BY <2>1, <2>2, <2>3
<1>10. Covered'
  BY <1>1, <1>2, <1>9 DEF MtInv, Covered
<1>11. Tiles'
  <2> SUFFICES ASSUME ~Wraps
               PROVE  /\ Aligned(next_x_block)' /\ Aligned(next_y_block)'
                      /\ \A p \in Pixel : Once(p)'
    BY <1>2 DEF Tiles
  <2>1. Aligned(next_x_block) /\ Aligned(next_y_block) /\ \A p \in Pixel : Once(p)
    BY DEF MtInv, Tiles
  <2>2. next_x_block + b < Word /\ \E k \in 0 .. Word : next_x_block + b = k * b
    <3>1. next_x_block \in 0 .. Word - 1 /\ (next_x_block = 0 \/ (next_x_block < job.height /\ job.mode # "column"))
      BY <1>1 DEF Counters, Exhausted, JobOK, Mode
    <3> QED
      BY <1>1, <2>1, <3>1, NoOverflow
  <2>3. next_y_block + b < Word /\ \E k \in 0 .. Word : next_y_block + b = k * b
    <3>1. next_y_block \in 0 .. Word - 1 /\ (next_y_block = 0 \/ (next_y_block < job.width /\ job.mode # "row"))
      BY <1>1 DEF Counters, Exhausted, JobOK, Mode
    <3> QED
      BY <1>1, <2>1, <3>1, NoOverflow
  <2>4. /\ (next_x_block + b) % Word = next_x_block + b
        /\ (next_y_block + b) % Word = next_y_block + b
    BY <1>1, <1>2, <2>2, <2>3 DEF Counters
  <2>5. /\ next_x_block' \in {next_x_block, next_x_block + b}
        /\ next_y_block' \in {0, next_y_block, next_y_block + b}
    BY <1>1, <2>4 DEF Advance
  <2>6. Aligned(next_x_block)'
    <3>1. \E k \in 0 .. Word : next_x_block' = k * b
      BY <2>1, <2>2, <2>5 DEF Aligned
    <3> QED
      BY <1>2, <3>1 DEF Aligned
  <2>7. Aligned(next_y_block)'
    <3>1. \E k \in 0 .. Word : 0 = k * b
      <4>1. 0 \in 0 .. Word /\ 0 = 0 * b
        BY <1>2
      <4> QED
        BY <4>1
    <3>2. \E k \in 0 .. Word : next_y_block' = k * b
      <4>1. \E k \in 0 .. Word : next_y_block = k * b
        BY <2>1 DEF Aligned
      <4> HIDE DEF b
      <4> QED
        BY <2>3, <2>5, <3>1, <4>1
    <3> QED
      BY <1>2, <3>2 DEF Aligned
  <2>8. ASSUME NEW p \in Pixel PROVE Once(p)'
    <3>1. Taken(p) \/ In(p, Block) => Taken(p)'
      BY <1>1, <2>2, <2>3, AdvanceTakesBlock
    <3>2. Once(p) /\ (In(p, Block) => ~Taken(p)) /\ (InHand(p)' <=> InHand(p) \/ In(p, Block))
      BY <1>9, <2>1
    <3>3. \A u \in Threads : In(p, part'[u]) <=> (In(p, part[u]) \/ (u = t /\ In(p, Block)))
      BY <1>3, <1>4, <1>5
    <3>4. painted[p]' <= 1 /\ (painted[p]' = 1 => Taken(p)' /\ ~InHand(p)')
      BY <1>1, <3>1, <3>2 DEF Once
    <3>5. \A u \in Threads : In(p, part'[u]) => Taken(p)' /\ \A v \in Threads : In(p, part'[v]) => v = u
      BY <3>1, <3>2, <3>3 DEF Once
    <3> QED
      BY <3>4, <3>5 DEF Once
  <2> QED
    BY <2>6, <2>7, <2>8
<1> QED
  BY <1>6, <1>7, <1>8, <1>10, <1>11 DEF MtInv

(* The regions and the counters tell nothing new when they stay.           *)
LEMMA SameRegions ==
  ASSUME MtInv, UNCHANGED <<job, next_x_block, next_y_block, part, painted, skipped>>
  PROVE  Counters' /\ Covered' /\ Tiles'
<1>1. Pixel' = Pixel /\ (Wraps <=> Wraps')
  BY SameJob
<1>2. /\ \A p : Taken(p)' <=> Taken(p)
      /\ (Aligned(next_x_block))' <=> Aligned(next_x_block)
      /\ (Aligned(next_y_block))' <=> Aligned(next_y_block)
      /\ Counters'
  BY SameCounters DEF MtInv
<1>3. \A p : InHand(p)' <=> InHand(p)
  BY DEF InHand
<1>4. \A p : Once(p)' <=> Once(p)
  BY <1>2, <1>3 DEF Once
<1>5. Covered'
  BY <1>1, <1>2, <1>3 DEF MtInv, Covered
<1>6. Tiles'
  BY <1>1, <1>2, <1>4 DEF MtInv, Tiles
<1> QED
  BY <1>2, <1>5, <1>6

LEMMA ControlKeeps ==
  ASSUME MtInv, UNCHANGED <<job, next_x_block, next_y_block, part, painted, skipped>>,
         pc' \in [Threads -> {"none", "take", "compute", "done"}],
         main' \in {"create", "join", "joinFailed", "saved", "failed"},
         Phases'
  PROVE  MtInv'
<1>1. Counters' /\ Covered' /\ Tiles'
  BY SameRegions
<1>2. Types'
  BY SameJob DEF MtInv, Types
<1> QED
  BY <1>1, <1>2 DEF MtInv

LEMMA LeaveKeeps ==
  ASSUME MtInv, NEW t \in Threads, Leave(t)
  PROVE  MtInv'
<1>1. pc' = [pc EXCEPT ![t] = "done"] /\ UNCHANGED <<job, next_x_block, next_y_block, part, painted, skipped, main>>
  BY DEF Leave
<1>2. pc' \in [Threads -> {"none", "take", "compute", "done"}]
  BY <1>1 DEF MtInv, Types
<1>3. Exhausted' <=> Exhausted
  BY <1>1, SameCounters
<1>4. Phases'
  BY <1>1, <1>3 DEF MtInv, Types, Phases, Leave
<1> QED
  BY <1>1, <1>2, <1>4, ControlKeeps DEF MtInv, Types

LEMMA CreateKeeps ==
  ASSUME MtInv, NEW t \in Threads, Create(t)
  PROVE  MtInv'
<1>1. /\ pc' = [pc EXCEPT ![t] = "take"] /\ pc[t] = "none" /\ main = "create"
      /\ UNCHANGED <<job, next_x_block, next_y_block, part, painted, skipped>>
  BY DEF Create
<1>2. main' = IF \A u \in Threads \ {t} : pc[u] # "none" THEN "join" ELSE main
  BY DEF Create
<1>3. pc' \in [Threads -> {"none", "take", "compute", "done"}]
  BY <1>1 DEF MtInv, Types
<1>4. Exhausted' <=> Exhausted
  BY <1>1, SameCounters
<1>5. Phases'
  BY <1>1, <1>2, <1>4 DEF MtInv, Types, Phases
<1>6. main' \in {"create", "join", "joinFailed", "saved", "failed"}
  BY <1>1, <1>2
<1> QED
  BY <1>1, <1>3, <1>5, <1>6, ControlKeeps

LEMMA MainKeeps ==
  ASSUME MtInv, NoSpecs \/ CreateFails \/ Join \/ UNCHANGED vars
  PROVE  MtInv'
<1>1. UNCHANGED <<job, next_x_block, next_y_block, pc, part, painted, skipped>>
  BY DEF NoSpecs, CreateFails, Join, vars
<1>2. main' \in {"create", "join", "joinFailed", "saved", "failed"}
  BY DEF NoSpecs, CreateFails, Join, vars, MtInv, Types
<1>3. Exhausted' <=> Exhausted
  BY <1>1, SameCounters
<1>4. Phases'
  BY <1>1, <1>3 DEF NoSpecs, CreateFails, Join, AllReturned, vars, MtInv, Phases
<1> QED
  BY <1>1, <1>2, <1>4, ControlKeeps DEF MtInv, Types

LEMMA ComputeKeeps ==
  ASSUME MtInv, NEW t \in Threads, Compute(t)
  PROVE  MtInv'
<1>1. /\ pc[t] = "compute" /\ pc' = [pc EXCEPT ![t] = "take"] /\ part' = [part EXCEPT ![t] = Nowhere]
      /\ painted' = [p \in Pixel |-> IF In(p, part[t]) THEN Min({painted[p] + 1, 2}) ELSE painted[p]]
      /\ UNCHANGED <<job, next_x_block, next_y_block, skipped, main>>
  BY DEF Compute
<1>2. Pixel' = Pixel /\ (Wraps <=> Wraps')
  BY <1>1, SameJob
<1>3. /\ \A p : Taken(p)' <=> Taken(p)
      /\ (Aligned(next_x_block))' <=> Aligned(next_x_block)
      /\ (Aligned(next_y_block))' <=> Aligned(next_y_block)
      /\ Exhausted' <=> Exhausted
      /\ Counters'
  BY <1>1, SameCounters DEF MtInv
<1>4. Nowhere \in Region /\ Nowhere.rows = {} /\ Nowhere.cols = {}
  BY DEF Nowhere, Rect, Region
<1>5. part'[t] = Nowhere /\ \A u \in Threads : u # t => part'[u] = part[u]
  BY <1>1 DEF MtInv, Types
<1>6. ASSUME NEW p \in Pixel
      PROVE  /\ painted'[p] \in 0 .. 2
             /\ In(p, part[t]) => painted'[p] = IF painted[p] = 0 THEN 1 ELSE 2
             /\ ~In(p, part[t]) => painted'[p] = painted[p]
             /\ painted[p] \in 0 .. 2
             /\ \A u \in Threads : In(p, part'[u]) <=> (u # t /\ In(p, part[u]))
  <2>1. painted[p] \in 0 .. 2
    BY DEF MtInv, Types
  <2>2. painted'[p] = IF In(p, part[t]) THEN Min({painted[p] + 1, 2}) ELSE painted[p]
    BY <1>1
  <2>3. Min({painted[p] + 1, 2}) = IF painted[p] = 0 THEN 1 ELSE 2
    BY <2>1, MinOfTwo
  <2>4. \A u \in Threads : In(p, part'[u]) <=> (u # t /\ In(p, part[u]))
    BY <1>4, <1>5 DEF In
  <2> QED
    BY <2>1, <2>2, <2>3, <2>4
<1>7. Types'
  <2>1. painted' \in [Pixel -> 0 .. 2]
    BY <1>1, <1>6
  <2>2. /\ pc' \in [Threads -> {"none", "take", "compute", "done"}]
        /\ part' \in [Threads -> Region]
    BY <1>1, <1>4 DEF MtInv, Types
  <2>3. \A u \in Threads : part'[u].rows \subseteq 0 .. job.height - 1 /\ part'[u].cols \subseteq 0 .. job.width - 1
    BY <1>4, <1>5 DEF MtInv, Types
  <2> QED
    BY <1>1, <1>2, <2>1, <2>2, <2>3 DEF MtInv, Types
<1>8. Phases'
  BY <1>1, <1>3, <1>5 DEF MtInv, Types, Phases
<1>9. Covered'
  <2> SUFFICES ASSUME NEW p \in Pixel, Taken(p), painted'[p] = 0, p \notin skipped PROVE InHand(p)'
    BY <1>1, <1>2, <1>3, <1>6 DEF Covered
  <2>1. ~In(p, part[t]) /\ painted[p] = 0
    BY <1>6
  <2>2. PICK u \in Threads : In(p, part[u])
    BY <2>1 DEF MtInv, Covered, InHand
  <2>3. In(p, part'[u])
    BY <1>6, <2>1, <2>2
  <2> QED
    BY <2>3 DEF InHand
<1>10. Tiles'
  <2> SUFFICES ASSUME ~Wraps, NEW p \in Pixel PROVE Once(p)'
    BY <1>2, <1>3 DEF MtInv, Tiles
  <2>1. Once(p)
    BY DEF MtInv, Tiles
  <2>2. \A u \in Threads : In(p, part'[u]) => Taken(p)' /\ \A v \in Threads : In(p, part'[v]) => v = u
    BY <1>3, <1>6, <2>1 DEF Once
  <2>3. CASE In(p, part[t])
    <3>1. painted[p] = 0 /\ Taken(p) /\ \A u \in Threads : In(p, part[u]) => u = t
      BY <1>6, <2>1, <2>3 DEF Once, InHand
    <3>2. painted'[p] = 1 /\ \A u \in Threads : ~In(p, part'[u])
      BY <1>6, <2>3, <3>1
    <3> QED
      BY <1>3, <2>2, <3>1, <3>2 DEF Once, InHand
  <2>4. CASE ~In(p, part[t])
    <3>1. painted'[p] = painted[p] /\ (InHand(p)' => InHand(p))
      BY <1>6, <2>4 DEF InHand
    <3> QED
      BY <1>3, <2>1, <2>2, <3>1 DEF Once
  <2> QED
    BY <2>3, <2>4
<1> QED
  BY <1>3, <1>7, <1>8, <1>9, <1>10 DEF MtInv

(* A region left out changes hands as a computed one does, and is entered  *)
(* in the history instead.                                                 *)
LEMMA ComputeNothingKeeps ==
  ASSUME MtInv, NEW t \in Threads, ComputeNothing(t)
  PROVE  MtInv'
<1>1. /\ pc[t] = "compute" /\ pc' = [pc EXCEPT ![t] = "take"] /\ part' = [part EXCEPT ![t] = Nowhere]
      /\ skipped' = skipped \union {p \in Pixel : In(p, part[t])}
      /\ UNCHANGED <<job, next_x_block, next_y_block, painted, main>>
  BY DEF ComputeNothing
<1>2. Pixel' = Pixel /\ (Wraps <=> Wraps')
  BY <1>1, SameJob
<1>3. /\ \A p : Taken(p)' <=> Taken(p)
      /\ (Aligned(next_x_block))' <=> Aligned(next_x_block)
      /\ (Aligned(next_y_block))' <=> Aligned(next_y_block)
      /\ Exhausted' <=> Exhausted
      /\ Counters'
  BY <1>1, SameCounters DEF MtInv
<1>4. Nowhere \in Region /\ Nowhere.rows = {} /\ Nowhere.cols = {}
  BY DEF Nowhere, Rect, Region
<1>5. part'[t] = Nowhere /\ \A u \in Threads : u # t => part'[u] = part[u]
  BY <1>1 DEF MtInv, Types
<1>6. \A p : \A u \in Threads : In(p, part'[u]) <=> (u # t /\ In(p, part[u]))
  BY <1>4, <1>5 DEF In
<1>7. Types'
  <2>1. /\ pc' \in [Threads -> {"none", "take", "compute", "done"}]
        /\ part' \in [Threads -> Region]
        /\ skipped' \subseteq Pixel
    BY <1>1, <1>4 DEF MtInv, Types
  <2>2. \A u \in Threads : part'[u].rows \subseteq 0 .. job.height - 1 /\ part'[u].cols \subseteq 0 .. job.width - 1
    BY <1>4, <1>5 DEF MtInv, Types
  <2> QED
    BY <1>1, <1>2, <2>1, <2>2 DEF MtInv, Types
<1>8. Phases'
  BY <1>1, <1>3, <1>5 DEF MtInv, Types, Phases
<1>9. Covered'
  <2> SUFFICES ASSUME NEW p \in Pixel, Taken(p), painted[p] < 1, p \notin skipped' PROVE InHand(p)'
    <3>1. \A p \in Pixel : painted[p] \in 0 .. 2
      BY DEF MtInv, Types
    <3> QED
      BY <1>1, <1>2, <1>3, <3>1 DEF Covered
  <2>1. ~In(p, part[t]) /\ p \notin skipped
    BY <1>1
  <2>2. PICK u \in Threads : In(p, part[u])
    <3>1. painted[p] \in 0 .. 2
      BY DEF MtInv, Types
    <3> QED
      BY <2>1, <3>1 DEF MtInv, Covered, InHand
  <2> QED
    BY <1>6, <2>1, <2>2 DEF InHand
<1>10. Tiles'
  <2> SUFFICES ASSUME ~Wraps, NEW p \in Pixel PROVE Once(p)'
    BY <1>2, <1>3 DEF MtInv, Tiles
  <2>1. Once(p)
    BY DEF MtInv, Tiles
  <2>2. InHand(p)' => InHand(p)
    BY <1>6 DEF InHand
  <2> QED
    BY <1>1, <1>3, <1>6, <2>1, <2>2 DEF Once
<1> QED
  BY <1>3, <1>7, <1>8, <1>9, <1>10 DEF MtInv

LEMMA MtInvariant == Spec => []MtInv
<1>1. MtAssumption
  BY MtAssumption
<1>2. Init => MtInv
  BY <1>1, TypesStart
<1>3. MtInv /\ [Next]_vars => MtInv'
  BY <1>1, TakeBlockKeeps, LeaveKeeps, CreateKeeps, ComputeKeeps, ComputeNothingKeeps, MainKeeps DEF Next, ThreadStep, Over
<1> QED
  BY <1>2, <1>3, PTL DEF Spec

-----------------------------------------------------------------------------
(* The counters stay within their width and the regions within the image,  *)
(* for every geometry and block size, even when a counter overflows        *)
(* (mt-compute.c:10-84).                                                   *)
THEOREM BlocksStayInside == Spec => []TypeOK
<1>1. MtInv => TypeOK
  <2> SUFFICES ASSUME MtInv PROVE TypeOK
    OBVIOUS
  <2>1. \A t \in Threads : part[t].rows \X part[t].cols \subseteq Pixel
    BY DEF MtInv, Types, Pixel
  <2> QED
    BY <2>1 DEF MtInv, Types, Counters, TypeOK
<1> QED
  BY <1>1, MtInvariant, PTL

(* However many threads take blocks, of whatever size: no pixel is         *)
(* computed twice or by two of them, if the image leaves a counter room    *)
(* for one more block (mt-compute.c:17-84, mt-exec.c:40-52).               *)
THEOREM BlocksAreDisjoint == Spec => []ComputedOnce
<1>1. MtInv => ComputedOnce
  <2> SUFFICES ASSUME MtInv, ~Wraps, NEW p \in Pixel
               PROVE  painted[p] + Cardinality({t \in Threads : In(p, part[t])}) <= 1
    BY DEF ComputedOnce
  <2> DEFINE S == {t \in Threads : In(p, part[t])}
  <2>1. Once(p) /\ painted[p] \in 0 .. 2
    BY DEF MtInv, Tiles, Types
  <2>2. CASE S = {}
    BY <2>1, <2>2, FS_EmptySet DEF Once
  <2>3. CASE S # {}
    <3>1. PICK t \in Threads : S = {t} /\ In(p, part[t])
      BY <2>1, <2>3 DEF Once
    <3>2. Cardinality(S) = 1
      BY <3>1, FS_Singleton
    <3>3. painted[p] = 0
      BY <2>1, <3>1 DEF Once, InHand
    <3> QED
      BY <3>2, <3>3
  <2> QED
    BY <2>2, <2>3
<1> QED
  BY <1>1, MtInvariant, PTL

(* What is saved is whole but for the blocks whose median found no memory, *)
(* even when a counter overflows: the threads have then computed pixels    *)
(* twice but have left none out of their own accord (mt-exec.c:40-52,      *)
(* mt-compute.c:17-84, threads-general.c:244-251).                         *)
THEOREM NothingLeftOut == Spec => []SavedComplete
<1>1. MtInv => SavedComplete
  <2> SUFFICES ASSUME MtInv, main = "saved", NEW p \in Pixel
               PROVE  painted[p] >= 1 \/ p \in skipped
    BY DEF SavedComplete
  <2>1. Exhausted /\ \A t \in Threads : part[t] = Nowhere
    BY DEF MtInv, Phases
  <2>2. ~InHand(p)
    BY <2>1 DEF InHand, In, Nowhere, Rect
  <2>3. Taken(p)
    <3>1. PICK y \in 0 .. job.height - 1, x \in 0 .. job.width - 1 : p = <<y, x>>
      BY DEF Pixel
    <3>2. JobOK /\ Counters
      BY JobTyped, MtAssumption DEF MtInv, Types
    <3>3. BlockSize \in Nat /\ Word \in Nat
      BY <3>2, BlockSizeTyped, MtAssumption DEF MtAssumption
    <3> QED
      BY <2>1, <3>1, <3>2, <3>3 DEF Taken, Exhausted, JobOK, Counters, Mode
  <2> QED
    BY <2>2, <2>3 DEF MtInv, Types, Covered
<1> QED
  BY <1>1, MtInvariant, PTL
=============================================================================
