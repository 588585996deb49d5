------------------------------- MODULE ImgQueue -------------------------------
(***************************************************************************)
(* backend/cpu/qmt/utils/qmt-queue.c: the ring buffer behind both queues   *)
(* of the queue mode, with its memory accounting, its two condition        *)
(* variables and the termination check of queue_pop.                       *)
(*                                                                         *)
(* Around it stand the calls the pipeline makes: producers push images one *)
(* after another; consumers pop, write and count what they popped, until   *)
(* queue_pop returns NULL; then main destroys the queue.                   *)
(***************************************************************************)
EXTENDS Integers, FiniteSets
LOCAL INSTANCE Sequences

CONSTANTS
  Producer, Consumer,  (* the threads that push, the threads that pop      *)
  Img, NoImg,          (* the images; the content of an unused slot        *)
  Mem,                 (* [Img -> Nat]: estimate_image_memory, in MB       *)
  Capacity, MaxMem     (* capacity and max_mem_usage                       *)

ASSUME QueueAssumption ==
  /\ NoImg \notin Img
  /\ Producer \intersect Consumer = {} /\ Consumer # {}
  /\ IsFiniteSet(Producer) /\ IsFiniteSet(Consumer) /\ IsFiniteSet(Img)
  /\ Capacity \in Nat \ {0}
  /\ MaxMem \in Nat
  /\ Mem \in [Img -> Nat \ {0}]

VARIABLES
  images, front, rear, size, current_mem_usage,   \* struct img_queue
  nonFull, nonEmpty,  \* the threads asleep on its condition variables
  live,               \* between queue_init and queue_destroy
  fresh,              \* the images nobody pushed yet
  pushing,            \* the image each producer is inside queue_push with
  popped,             \* the image each consumer got from queue_pop
  returned,           \* the consumers queue_pop returned NULL to
  written_files       \* the counter queue_pop checks

ring   == <<images, front, rear, size, current_mem_usage>>
client == <<fresh, pushing, popped, returned, written_files>>
vars   == <<ring, nonFull, nonEmpty, live, client>>

Slot == 0 .. Capacity - 1
file_count == Cardinality(Img)

Signalled(S) == IF S = {} THEN {S} ELSE {S \ {t} : t \in S}

-----------------------------------------------------------------------------
(* queue_init. *)
Init ==
  /\ images = [s \in Slot |-> NoImg]
  /\ front = 0 /\ rear = 0 /\ size = 0
  /\ current_mem_usage = 0
  /\ nonFull = {} /\ nonEmpty = {}
  /\ live = TRUE
  /\ fresh = Img
  /\ pushing = [p \in Producer |-> NoImg]
  /\ popped = [c \in Consumer |-> NoImg]
  /\ returned = {}
  /\ written_files = 0

(* Plausible bugs: the limit is reached early; it binds an empty queue.    *)
is_mem_limit_early(x) == current_mem_usage + Mem[x] >= MaxMem /\ size > 0
is_mem_limit_always(x) == current_mem_usage + Mem[x] > MaxMem

is_mem_limit(x) == current_mem_usage + Mem[x] > MaxMem /\ size > 0
is_arr_limit == size >= Capacity

(* Plausible bugs: the index does not wrap; it wraps one slot early.       *)
NoWrap(s) == s + 1
WrapEarly(s) == (s + 1) % (Capacity - 1)

NextSlot(s) == (s + 1) % Capacity

(* A plausible bug: the estimate is never given back. *)
UsageKept(x) == current_mem_usage

(* Saturating: never below zero. *)
UsageWithout(x) == IF current_mem_usage >= Mem[x] THEN current_mem_usage - Mem[x] ELSE 0

(* Plausible bugs: the consumers are signalled only when the queue was     *)
(* empty; the producers only when the array was full.                      *)
signal_first   == IF size = 0 THEN nonEmpty' \in Signalled(nonEmpty) ELSE UNCHANGED nonEmpty
signal_if_full == IF is_arr_limit THEN nonFull' \in Signalled(nonFull) ELSE UNCHANGED nonFull

signal_non_empty == nonEmpty' \in Signalled(nonEmpty)
signal_non_full  == nonFull' \in Signalled(nonFull)

(* A plausible bug: files that were popped count as written. *)
AllPopped == fresh = {} /\ \A p \in Producer : pushing[p] = NoImg

(* The termination check of queue_pop. *)
AllWritten == written_files >= file_count

(* A producer calls queue_push with its next image. *)
CallPush(p) ==
  /\ pushing[p] = NoImg
  /\ \E x \in fresh :
       /\ fresh' = fresh \ {x}
       /\ pushing' = [pushing EXCEPT ![p] = x]
  /\ UNCHANGED <<ring, nonFull, nonEmpty, live, popped, returned, written_files>>

(* The thread is inside queue_push and holds, or may take, the mutex. *)
AtPush(p) == pushing[p] # NoImg /\ p \notin nonFull

(* No limit is reached: the image goes to the rear slot, and one consumer  *)
(* is signalled.                                                           *)
queue_push(p) ==
  LET x == pushing[p] IN
  /\ AtPush(p)
  /\ ~is_mem_limit(x) /\ ~is_arr_limit
  /\ images' = [images EXCEPT ![rear] = x]
  /\ rear' = NextSlot(rear)
  /\ size' = size + 1
  /\ current_mem_usage' = current_mem_usage + Mem[x]
  /\ signal_non_empty
  /\ pushing' = [pushing EXCEPT ![p] = NoImg]
  /\ UNCHANGED <<front, nonFull, live, fresh, popped, returned, written_files>>

(* A limit is reached, on entry or after a wake-up: sleep (again). *)
push_wait(p) ==
  /\ AtPush(p)
  /\ is_mem_limit(pushing[p]) \/ is_arr_limit
  /\ nonFull' = nonFull \union {p}
  /\ UNCHANGED <<ring, nonEmpty, live, client>>

(* The thread is inside queue_pop and holds, or may take, the mutex. *)
AtPop(c) == popped[c] = NoImg /\ c \notin returned /\ c \notin nonEmpty

(* The oldest image is taken, its estimate is subtracted (never below      *)
(* zero) and one producer is signalled.  The slot keeps a pointer to a     *)
(* freed queue_img_info, which must never be read: NoImg.                  *)
queue_pop(c) ==
  LET x == images[front] IN
  /\ AtPop(c)
  /\ size > 0
  /\ images' = [images EXCEPT ![front] = NoImg]
  /\ front' = NextSlot(front)
  /\ size' = size - 1
  /\ current_mem_usage' = UsageWithout(x)
  /\ signal_non_full
  /\ popped' = [popped EXCEPT ![c] = x]
  /\ UNCHANGED <<rear, nonEmpty, live, fresh, pushing, returned, written_files>>

(* The queue is empty and all files are written: NULL. *)
pop_null(c) ==
  /\ AtPop(c)
  /\ size = 0
  /\ AllWritten
  /\ returned' = returned \union {c}
  /\ UNCHANGED <<ring, nonFull, nonEmpty, live, fresh, pushing, popped, written_files>>

(* The queue is empty and files are missing: sleep for at most a second.   *)
pop_wait(c) ==
  /\ AtPop(c)
  /\ size = 0
  /\ ~AllWritten
  /\ nonEmpty' = nonEmpty \union {c}
  /\ UNCHANGED <<ring, nonFull, live, client>>

(* ETIMEDOUT: the termination check once more, whatever the queue holds by *)
(* then, or back to the loop.                                              *)
pop_timeout(c) ==
  /\ c \in nonEmpty
  /\ nonEmpty' = nonEmpty \ {c}
  /\ returned' = IF AllWritten THEN returned \union {c} ELSE returned
  /\ UNCHANGED <<ring, nonFull, live, fresh, pushing, popped, written_files>>

(* A wait returns without a signal, as POSIX allows. *)
spurious_wake(t) ==
  /\ t \in nonFull \union nonEmpty
  /\ nonFull' = nonFull \ {t}
  /\ nonEmpty' = nonEmpty \ {t}
  /\ UNCHANGED <<ring, live, client>>

(* The consumer is done with its image and counts it. *)
CountWritten(c) ==
  /\ popped[c] # NoImg
  /\ popped' = [popped EXCEPT ![c] = NoImg]
  /\ written_files' = written_files + 1
  /\ UNCHANGED <<ring, nonFull, nonEmpty, live, fresh, pushing, returned>>

(* queue_destroy, after main has joined the producers and the consumers:   *)
(* whatever is left is drained and freed.                                  *)
queue_destroy ==
  /\ live
  /\ fresh = {} /\ \A p \in Producer : pushing[p] = NoImg
  /\ returned = Consumer
  /\ live' = FALSE
  /\ front' = (front + size) % Capacity
  /\ size' = 0
  /\ current_mem_usage' = 0
  /\ images' = [s \in Slot |-> NoImg]
  /\ UNCHANGED <<rear, nonFull, nonEmpty, client>>

Destroyed == ~live /\ UNCHANGED vars

ProducerStep(p) == CallPush(p) \/ queue_push(p) \/ push_wait(p)
ConsumerStep(c) ==
  queue_pop(c) \/ pop_null(c) \/ pop_wait(c) \/ pop_timeout(c) \/ CountWritten(c)

Next ==
  \/ \E p \in Producer : ProducerStep(p)
  \/ \E c \in Consumer : ConsumerStep(c)
  \/ \E t \in Producer \union Consumer : spurious_wake(t)
  \/ queue_destroy
  \/ Destroyed

(* Every running thread is scheduled, and the one-second timer fires.      *)
Fairness ==
  /\ \A p \in Producer : WF_vars(ProducerStep(p))
  /\ \A c \in Consumer : WF_vars(ConsumerStep(c))
  /\ WF_vars(queue_destroy)

Spec == Init /\ [][Next]_vars
FairSpec == Spec /\ Fairness

-----------------------------------------------------------------------------
(* The queue as its callers see it: the slots from front on. *)
Items == [i \in 1 .. size |-> images[(front + i - 1) % Capacity]]

Fifo == INSTANCE BoundedFifo WITH
  Thread <- Producer \union Consumer, items <- Items

Blocked(p) == is_mem_limit(pushing[p]) \/ is_arr_limit
AwakeProducers == {p \in Producer : AtPush(p)}
AwakeConsumers == {c \in Consumer : AtPop(c)}

TypeOK ==
  /\ images \in [Slot -> Img \union {NoImg}]
  /\ front \in Slot /\ rear \in Slot /\ size \in 0 .. Capacity
  /\ current_mem_usage \in Nat
  /\ nonFull \subseteq Producer /\ nonEmpty \subseteq Consumer
  /\ live \in BOOLEAN
  /\ fresh \subseteq Img
  /\ pushing \in [Producer -> Img \union {NoImg}]
  /\ popped \in [Consumer -> Img \union {NoImg}]
  /\ returned \subseteq Consumer
  /\ written_files \in 0 .. file_count

(* The ring: the size slots from front to rear hold images, every other    *)
(* slot was freed, so queue_pop never follows a stale pointer and          *)
(* queue_push never overwrites a queued image, however the indices wrap.   *)
RingConsistent ==
  /\ rear = (front + size) % Capacity
  /\ \A s \in Slot :
       images[s] # NoImg <=> \E i \in 0 .. size - 1 : s = (front + i) % Capacity

(* current_mem_usage, kept by additions at push and saturating             *)
(* subtractions at pop, is exactly the memory of what is queued, and       *)
(* exceeds the limit only for a single oversized image.                    *)
MemAccounting ==
  /\ current_mem_usage = Fifo!Load(Items)
  /\ current_mem_usage > MaxMem => size = 1

(* One pthread_cond_signal per queue_pop is enough to strand no producer:  *)
(* while producers sleep, the queue is not empty (so that a pop, and with  *)
(* it a signal, is still to come) or one of them is already awake.         *)
NoStrandedProducer == nonFull # {} => size > 0 \/ AwakeProducers # {}

(* One signal per queue_push is enough too: whenever consumers sleep, each *)
(* queued image has an awake consumer coming for it, so the one-second     *)
(* timeout is never what gets an image processed.                          *)
WakeupsSuffice == nonEmpty # {} => size <= Cardinality(AwakeConsumers)

(* queue_push "blocks if the queue is full until space becomes available"  *)
(* (qmt-queue.h): no producer sleeps although its image fits, unless a     *)
(* producer that was woken is still to re-check the limits.                *)
BlockedOnlyWhileFull ==
  nonFull # {} /\ AwakeProducers = {} => \A p \in nonFull : Blocked(p)

(* A consumer told that there is no more work never leaves an image behind *)
(* in the queue, in a producer's hands or in another consumer's.           *)
NullMeansDone ==
  returned # {} =>
    /\ size = 0 /\ fresh = {}
    /\ \A p \in Producer : pushing[p] = NoImg
    /\ \A c \in Consumer : popped[c] = NoImg

(* Every image is popped and counted, every thread returns from the queue  *)
(* and main gets to destroy it.                                            *)
Drains == <>(~live)

(* Every call inserts, or goes to sleep, where the bounded FIFO would with *)
(* the very image of that call.                                            *)
StepsAsCalled ==
  [][\A p \in Producer :
       /\ p \in nonFull' \ nonFull => Fifo!PushWait(p, pushing[p])
       /\ pushing'[p] = NoImg /\ pushing[p] # NoImg => Fifo!Push(p, pushing[p])]_vars

(* The ring buffer implements the bounded FIFO: same order, same limits,   *)
(* same wake-ups.                                                          *)
ImplementsFifo == Fifo!Spec /\ StepsAsCalled
=============================================================================
