------------------------------ MODULE MtCompute ------------------------------
(***************************************************************************)
(* The multi-threaded computation of one image: execute_mt_computation     *)
(* (backend/cpu/mt/mt-exec.c) starts the threads, which take blocks of the *)
(* image from shared counters (process_by_row, _column, _grid and _pixel   *)
(* of mt-compute.c) until none is left, and joins them; the caller saves   *)
(* the result unless a thread could not be created.  A median that finds   *)
(* no memory for its windows is an error nobody is told of: the thread     *)
(* goes on with the next block, and the image is saved without this one.   *)
(*                                                                         *)
(* The counters are uint16_t: they are kept modulo Word (65536 in the      *)
(* code), and so are the image dimensions.                                 *)
(***************************************************************************)
EXTENDS FiniteSetsExt

CONSTANTS
  Threads,  (* the threads --threadnum asks for                            *)
  Word,     (* the number of values of a counter                           *)
  Jobs      (* the [mode, height, width, block, median] to compute         *)

Mode == {"row", "column", "grid", "pixel"}

ASSUME MtAssumption ==
  /\ IsFiniteSet(Threads)
  /\ Word \in Nat \ {0}
  /\ Jobs \subseteq [mode : Mode, height : 1 .. Word - 1, width : 1 .. Word - 1,
                     block : 1 .. Word - 1, median : BOOLEAN]

VARIABLES
  job,            \* the parameters of this execution
  next_x_block, next_y_block,   \* the shared counters
  pc, part,       \* where each thread is, and the region it took
  painted,        \* how often each pixel was computed: 0, 1, or 2 for more
  skipped,       \* the pixels a median left out: history, for the properties
  main

vars == <<job, next_x_block, next_y_block, pc, part, painted, skipped, main>>

Pixel == (0 .. job.height - 1) \X (0 .. job.width - 1)
Rect(r0, r1, c0, c1) == [rows |-> r0 .. r1 - 1, cols |-> c0 .. c1 - 1]
Nowhere == Rect(0, 0, 0, 0)
In(p, rect) == p[1] \in rect.rows /\ p[2] \in rect.cols

(* A plausible bug: a block is not clipped at the edge of the image. *)
EndUnclipped(start, size, limit) == start + size

End(start, size, limit) == Min({start + size, limit})

-----------------------------------------------------------------------------
(* Nothing is left: the tests before a block is taken. *)
Exhausted ==
  CASE job.mode = "row"    -> next_x_block >= job.height
    [] job.mode = "column" -> next_y_block >= job.width
    [] OTHER -> next_x_block >= job.height \/ next_y_block >= job.width

(* by_pixel is by_grid with blocks of one pixel. *)
BlockSize == IF job.mode = "pixel" THEN 1 ELSE job.block

(* The block the counters stand at, clipped at the image's edge. *)
Block ==
  LET rowEnd == End(next_x_block, BlockSize, job.height)
      colEnd == End(next_y_block, BlockSize, job.width)
  IN CASE job.mode = "row"    -> Rect(next_x_block, rowEnd, 0, job.width)
       [] job.mode = "column" -> Rect(0, job.height, next_y_block, colEnd)
       [] OTHER               -> Rect(next_x_block, rowEnd, next_y_block, colEnd)

(* Plausible bugs: the counter stays where it is; a grid row is left one   *)
(* block early.                                                            *)
NoAdvance == UNCHANGED <<next_x_block, next_y_block>>
AdvanceEarly ==
  LET y == (next_y_block + BlockSize) % Word
      rowDone == job.mode \notin {"row", "column"} /\ y + BlockSize >= job.width
  IN /\ next_y_block' = IF job.mode = "row" THEN next_y_block ELSE IF rowDone THEN 0 ELSE y
     /\ next_x_block' = IF rowDone \/ job.mode = "row"
                          THEN (next_x_block + BlockSize) % Word ELSE next_x_block

(* The counters after the block was taken. *)
Advance ==
  LET y == (next_y_block + BlockSize) % Word
      rowDone == job.mode \notin {"row", "column"} /\ y >= job.width
  IN /\ next_y_block' = IF job.mode = "row" THEN next_y_block ELSE IF rowDone THEN 0 ELSE y
     /\ next_x_block' = IF rowDone \/ job.mode = "row"
                          THEN (next_x_block + BlockSize) % Word ELSE next_x_block

(* process_by_*, one critical section of the block mutex: what follows the *)
(* unlock touches the thread's own spec only.                              *)
TakeBlock(t) ==
  /\ pc[t] = "take" /\ ~Exhausted
  /\ part' = [part EXCEPT ![t] = Block]
  /\ Advance
  /\ pc' = [pc EXCEPT ![t] = "compute"]
  /\ UNCHANGED <<job, painted, skipped, main>>

Leave(t) ==
  /\ pc[t] = "take" /\ Exhausted
  /\ pc' = [pc EXCEPT ![t] = "done"]
  /\ UNCHANGED <<job, next_x_block, next_y_block, part, painted, skipped, main>>

(* filter_part_computation over the region. *)
Compute(t) ==
  /\ pc[t] = "compute"
  /\ painted' = [p \in Pixel |-> IF In(p, part[t]) THEN Min({painted[p] + 1, 2}) ELSE painted[p]]
  /\ part' = [part EXCEPT ![t] = Nowhere]
  /\ pc' = [pc EXCEPT ![t] = "take"]
  /\ UNCHANGED <<job, next_x_block, next_y_block, skipped, main>>

(* apply_median_filter has no memory for its windows: it logs and returns, *)
(* and the thread takes its next block as if nothing had happened.         *)
ComputeNothing(t) ==
  /\ pc[t] = "compute" /\ job.median
  /\ skipped' = skipped \union {p \in Pixel : In(p, part[t])}
  /\ part' = [part EXCEPT ![t] = Nowhere]
  /\ pc' = [pc EXCEPT ![t] = "take"]
  /\ UNCHANGED <<job, next_x_block, next_y_block, painted, main>>

(* init_thread_spec fails for some thread: no thread is created. *)
NoSpecs ==
  /\ main = "create" /\ \A t \in Threads : pc[t] = "none"
  /\ main' = "failed"
  /\ UNCHANGED <<job, next_x_block, next_y_block, pc, part, painted, skipped>>

Create(t) ==
  /\ main = "create" /\ pc[t] = "none"
  /\ pc' = [pc EXCEPT ![t] = "take"]
  /\ main' = IF \A u \in Threads \ {t} : pc[u] # "none" THEN "join" ELSE main
  /\ UNCHANGED <<job, next_x_block, next_y_block, part, painted, skipped>>

(* pthread_create fails: the threads there are do all the work, and the    *)
(* computation counts as failed.                                           *)
CreateFails ==
  /\ main = "create"
  /\ main' = "joinFailed"
  /\ UNCHANGED <<job, next_x_block, next_y_block, pc, part, painted, skipped>>

(* A plausible bug: the result is saved without waiting for the threads.   *)
Detached == TRUE

AllReturned == \A t \in Threads : pc[t] \in {"none", "done"}

(* Every created thread has returned; save_result_image, or not. *)
Join ==
  /\ main \in {"join", "joinFailed"}
  /\ AllReturned
  /\ main' = IF main = "join" THEN "saved" ELSE "failed"
  /\ UNCHANGED <<job, next_x_block, next_y_block, pc, part, painted, skipped>>

Over == main \in {"saved", "failed"} /\ UNCHANGED vars

Init ==
  /\ job \in Jobs
  /\ next_x_block = 0 /\ next_y_block = 0
  /\ pc = [t \in Threads |-> "none"]
  /\ part = [t \in Threads |-> Nowhere]
  /\ painted = [p \in Pixel |-> 0] /\ skipped = {}
  /\ main = "create"

ThreadStep(t) == TakeBlock(t) \/ Leave(t) \/ Compute(t) \/ ComputeNothing(t)

Next ==
  \/ \E t \in Threads : ThreadStep(t) \/ Create(t)
  \/ NoSpecs \/ CreateFails \/ Join \/ Over

Fairness ==
  /\ \A t \in Threads : WF_vars(ThreadStep(t))
  /\ WF_vars((\E t \in Threads : Create(t)) \/ Join)

Spec == Init /\ [][Next]_vars
FairSpec == Spec /\ Fairness

-----------------------------------------------------------------------------
(* A counter can pass the top of its type: the first multiple of the block *)
(* size at or past the edge of the image does not fit.                     *)
Overflows(limit) == \E k \in 0 .. Word : k * BlockSize < limit /\ (k + 1) * BlockSize >= Word
Wraps ==
  \/ job.mode # "column" /\ Overflows(job.height)
  \/ job.mode # "row" /\ Overflows(job.width)

TypeOK ==
  /\ job \in Jobs
  /\ next_x_block \in 0 .. Word - 1 /\ next_y_block \in 0 .. Word - 1
  /\ pc \in [Threads -> {"none", "take", "compute", "done"}]
  /\ \A t \in Threads : part[t].rows \X part[t].cols \subseteq Pixel
  /\ painted \in [Pixel -> 0 .. 2] /\ skipped \subseteq Pixel
  /\ main \in {"create", "join", "joinFailed", "saved", "failed"}

(* The blocks tile the image: no pixel is computed, or being computed, by  *)
(* two threads or twice by one, unless a counter overflows.                *)
ComputedOnce ==
  ~Wraps =>
    \A p \in Pixel : painted[p] + Cardinality({t \in Threads : In(p, part[t])}) <= 1

(* An image is saved only when all of its pixels have been computed, in    *)
(* every mode and for every geometry, even when a counter overflows; the   *)
(* exception are the blocks whose median found no memory, and only those   *)
(* (mt-compute.c:10-84, mt-exec.c:40-52, threads-general.c:244-251).       *)
SavedComplete == main = "saved" => \A p \in Pixel : painted[p] >= 1 \/ p \in skipped

(* The computation ends, unless a counter overflows. *)
Ends == Wraps \/ <>(main \in {"saved", "failed"})
=============================================================================
