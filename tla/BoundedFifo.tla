----------------------------- MODULE BoundedFifo -----------------------------
(***************************************************************************)
(* What struct img_queue promises its callers: a first-in first-out queue  *)
(* bounded by a number of images and by an amount of memory, with the two  *)
(* condition variables its callers sleep on.  The threads of the pipeline  *)
(* (QmtPipeline) are composed over two instances of this module, and       *)
(* ImgQueue, the ring buffer of qmt-queue.c, is shown to implement it.     *)
(*                                                                         *)
(* Each action is one critical section of the queue's mutex: from          *)
(* pthread_mutex_lock (or the return of a wait) to pthread_mutex_unlock    *)
(* (or the next wait).                                                     *)
(***************************************************************************)
EXTENDS Naturals, Sequences

CONSTANTS
  Thread,     (* the threads that call the queue                           *)
  Img,        (* the images that travel through it                         *)
  Mem,        (* [Img -> Nat]: estimate_image_memory of each image, in MB  *)
  Capacity,   (* capacity: the number of slots                             *)
  MaxMem      (* max_mem_usage, in MB                                      *)

VARIABLES
  items,      (* the queued images, oldest first                           *)
  nonFull,    (* the threads asleep on cond_non_full                       *)
  nonEmpty    (* the threads asleep on cond_non_empty                      *)

fifo == <<items, nonFull, nonEmpty>>

(* The memory the queued images are estimated to hold. *)
Load(s) ==
  LET sum[i \in 0 .. Len(s)] == IF i = 0 THEN 0 ELSE sum[i - 1] + Mem[s[i]]
  IN  sum[Len(s)]

(* pthread_cond_signal on a condition variable the threads S sleep on: it  *)
(* wakes one of them, whichever the scheduler picks, if there is one.      *)
Signalled(S) == IF S = {} THEN {S} ELSE {S \ {t} : t \in S}

-----------------------------------------------------------------------------
(* An image that alone exceeds MaxMem is still admitted to an empty queue. *)
MemLimit(x) == items # <<>> /\ Load(items) + Mem[x] > MaxMem

ArrLimit == Len(items) >= Capacity

(* Plausible bugs: the consumers are signalled only when the queue was     *)
(* empty; the producers only when the array was full, or never.            *)
signal_first   == IF items = <<>> THEN nonEmpty' \in Signalled(nonEmpty) ELSE UNCHANGED nonEmpty
signal_if_full == IF ArrLimit THEN nonFull' \in Signalled(nonFull) ELSE UNCHANGED nonFull
signal_nobody  == UNCHANGED nonFull

(* The signal at the end of queue_push, and at the end of queue_pop. *)
signal_non_empty == nonEmpty' \in Signalled(nonEmpty)
signal_non_full  == nonFull' \in Signalled(nonFull)

(* queue_push, the call that inserts. *)
Push(t, x) ==
  /\ t \notin nonFull
  /\ ~MemLimit(x) /\ ~ArrLimit
  /\ items' = Append(items, x)
  /\ signal_non_empty
  /\ UNCHANGED nonFull

(* queue_push, the call (or the wake-up) that finds a limit reached.       *)
PushWait(t, x) ==
  /\ t \notin nonFull
  /\ MemLimit(x) \/ ArrLimit
  /\ nonFull' = nonFull \union {t}
  /\ UNCHANGED <<items, nonEmpty>>

(* queue_pop, the call that takes the oldest image. *)
Pop(t) ==
  /\ t \notin nonEmpty
  /\ items # <<>>
  /\ items' = Tail(items)
  /\ signal_non_full
  /\ UNCHANGED nonEmpty

(* queue_pop on an empty queue: sleep on cond_non_empty. *)
PopWait(t) ==
  /\ t \notin nonEmpty
  /\ items = <<>>
  /\ nonEmpty' = nonEmpty \union {t}
  /\ UNCHANGED <<items, nonFull>>

(* queue_pop on an empty queue when all files are written: it returns NULL *)
(* and the queue is as it was.                                             *)
PopNothing(t) ==
  /\ t \notin nonEmpty
  /\ items = <<>>
  /\ UNCHANGED fifo

(* A plausible bug: pthread_cond_wait, which has no timeout.               *)
NeverTimesOut(t) == FALSE /\ UNCHANGED fifo

(* pthread_cond_timedwait returns ETIMEDOUT. *)
TimedOut(t) ==
  /\ t \in nonEmpty
  /\ nonEmpty' = nonEmpty \ {t}
  /\ UNCHANGED <<items, nonFull>>

(* POSIX lets a wait return with no signal. *)
SpuriousWake(t) ==
  /\ t \in nonFull \union nonEmpty
  /\ nonFull' = nonFull \ {t}
  /\ nonEmpty' = nonEmpty \ {t}
  /\ UNCHANGED items

(* queue_destroy, once nobody calls the queue any more. *)
Destroy == items' = <<>> /\ UNCHANGED <<nonFull, nonEmpty>>

-----------------------------------------------------------------------------
Init == items = <<>> /\ nonFull = {} /\ nonEmpty = {}

Next ==
  \/ \E t \in Thread, x \in Img : Push(t, x) \/ PushWait(t, x)
  \/ \E t \in Thread : Pop(t) \/ PopWait(t) \/ TimedOut(t) \/ SpuriousWake(t)

Spec == Init /\ [][Next]_fifo
=============================================================================
