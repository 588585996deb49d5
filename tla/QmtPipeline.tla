----------------------------- MODULE QmtPipeline -----------------------------
(***************************************************************************)
(* The queue mode of the CPU backend (backend/cpu/qmt): reader threads     *)
(* load images into the input queue, worker threads filter them into the   *)
(* output queue, writer threads save them and count them, and main         *)
(* creates the threads, joins them and frees the queues.                   *)
(*                                                                         *)
(* The two queues are instances of BoundedFifo.  A thread that is inside   *)
(* queue_push or queue_pop has pc "push" or "pop", and sleeps while it is  *)
(* a member of the queue's nonFull or nonEmpty set.                        *)
(*                                                                         *)
(* An action is what a thread does between two points where another        *)
(* thread can be observed: one critical section of a queue, one atomic     *)
(* operation on read_files or written_files, one file operation.           *)
(***************************************************************************)
EXTENDS Integers, Sequences, FiniteSets

CONSTANTS
  Readers, Workers, Writers,  (* the threads --rww asks for                *)
  FileCnt,                    (* file_cnt                                  *)
  Mem,                        (* [File -> Nat]: image estimates, in MB     *)
  Capacity, MaxMem,           (* --queue-size and --queue-mem              *)
  Faults,                     (* the calls that may fail, see FaultKind    *)
  MaxFaults                   (* how many of them fail in one execution    *)

Thread == Readers \union Workers \union Writers
File   == 0 .. FileCnt - 1
NoFile == -1

(* read:   bmp_img_read fails               (exit)                         *)
(* malloc: no memory for the reader's image (the reader stops reading)     *)
(* node:   no memory in queue_push          (exit)                         *)
(* work:   no memory for the worker, or a failed computation               *)
(* strdup: no memory for the file name in queue_pop                        *)
(* write:  bmp_img_write fails                                             *)
(* create: pthread_create fails                                            *)
FaultKind == {"read", "malloc", "node", "work", "strdup", "write", "create"}

ASSUME PipelineAssumption ==
  /\ Readers # {} /\ Workers # {} /\ Writers # {}
  /\ Readers \intersect Workers = {}
  /\ Readers \intersect Writers = {}
  /\ Workers \intersect Writers = {}
  /\ IsFiniteSet(Readers) /\ IsFiniteSet(Workers) /\ IsFiniteSet(Writers)
  /\ FileCnt \in Nat \ {0}
  /\ Capacity \in Nat \ {0}
  /\ MaxMem \in Nat
  /\ Mem \in [File -> Nat]
  /\ Faults \subseteq FaultKind
  /\ MaxFaults \in Nat

VARIABLES
  read_files, written_files,        \* the two global counters
  inItems, inNonFull, inNonEmpty,   \* input_q
  outItems, outNonFull, outNonEmpty,\* output_q
  pc,        \* where each thread is
  held,      \* the image each thread has in its hands
  main,      \* where main is
  disk,      \* the files whose result is on disk
  faults     \* how many calls have failed

inQ  == <<inItems, inNonFull, inNonEmpty>>
outQ == <<outItems, outNonFull, outNonEmpty>>
vars == <<read_files, written_files, inQ, outQ, pc, held, main, disk, faults>>

InQ == INSTANCE BoundedFifo WITH
  Img <- File, items <- inItems, nonFull <- inNonFull, nonEmpty <- inNonEmpty
OutQ == INSTANCE BoundedFifo WITH
  Img <- File, items <- outItems, nonFull <- outNonFull, nonEmpty <- outNonEmpty

Goto(t, l) == pc' = [pc EXCEPT ![t] = l]
Take(t, f) == held' = [held EXCEPT ![t] = f]
Drop(t) == Take(t, NoFile)

(* One more call fails, if calls of this kind may. *)
Fail(kind) == kind \in Faults /\ faults < MaxFaults /\ faults' = faults + 1

(* Plausible bugs: the list of files ends one late; the pipeline stops     *)
(* when all files have been read; the barrier and the joins do not wait.   *)
ExistsOrNext(i) == i <= FileCnt
AllRead == read_files >= FileCnt
BarrierAlwaysTrips(r) == TRUE
NeverWaits(S) == TRUE

(* There is an i-th input file. *)
Exists(i) == i < FileCnt

(* The termination check of queue_pop and of the writers. *)
AllWritten == written_files >= FileCnt

(* Reader r is the last one the barrier waits for. *)
BarrierTrips(r) == \A s \in Readers \ {r} : pc[s] = "atBarrier"

(* pthread_join on those of the threads S that were created. *)
Joined(S) == \A t \in S : pc[t] \in {"none", "done"}

-----------------------------------------------------------------------------
(* reader_thread *)

(* read_files_local = fetch_add(read_files): an index to read, or an       *)
(* overshoot to take back.                                                 *)
ReaderClaim(r) ==
  /\ pc[r] = "claim"
  /\ read_files' = read_files + 1
  /\ IF Exists(read_files)
       THEN Goto(r, "load") /\ Take(r, read_files)
       ELSE Goto(r, "unclaim") /\ UNCHANGED held
  /\ UNCHANGED <<written_files, inQ, outQ, main, disk, faults>>

ReaderUnclaim(r) ==
  /\ pc[r] = "unclaim"
  /\ read_files' = read_files - 1
  /\ Goto(r, "barrier")
  /\ UNCHANGED <<written_files, inQ, outQ, held, main, disk, faults>>

ReaderLoad(r) ==
  /\ pc[r] = "load"
  /\ Goto(r, "push")
  /\ UNCHANGED <<read_files, written_files, inQ, outQ, held, main, disk, faults>>

(* bmp_img_read fails, or queue_push finds no memory: exit(EXIT_FAILURE).  *)
ReaderExit(r) ==
  /\ \/ pc[r] = "load" /\ Fail("read")
     \/ pc[r] = "push" /\ r \notin inNonFull /\ Fail("node")
  /\ main' = "exit"
  /\ UNCHANGED <<read_files, written_files, inQ, outQ, pc, held, disk>>

(* A plausible bug: the index that is given up is taken back too. *)
ReaderGivesIndexBack(r) ==
  /\ pc[r] = "load" /\ Fail("malloc")
  /\ read_files' = read_files - 1
  /\ Goto(r, "barrier") /\ Drop(r)
  /\ UNCHANGED <<written_files, inQ, outQ, main, disk>>

(* The bmp_img cannot be allocated: the reader leaves its loop for the     *)
(* barrier, and the index it claimed stays claimed.                        *)
ReaderGivesUp(r) ==
  /\ pc[r] = "load" /\ Fail("malloc")
  /\ Goto(r, "barrier") /\ Drop(r)
  /\ UNCHANGED <<read_files, written_files, inQ, outQ, main, disk>>

ReaderPush(r) ==
  /\ pc[r] = "push"
  /\ \/ InQ!Push(r, held[r]) /\ Goto(r, "claim") /\ Drop(r)
     \/ InQ!PushWait(r, held[r]) /\ UNCHANGED <<pc, held>>
  /\ UNCHANGED <<read_files, written_files, outQ, main, disk, faults>>

(* pthread_barrier_wait: the barrier counts the readers that --rww asked   *)
(* for, and the last of them to arrive releases them all.                  *)
ReaderBarrier(r) ==
  /\ pc[r] = "barrier"
  /\ IF BarrierTrips(r)
       THEN pc' = [t \in Thread |-> IF t = r \/ pc[t] = "atBarrier" THEN "signal" ELSE pc[t]]
       ELSE Goto(r, "atBarrier")
  /\ UNCHANGED <<read_files, written_files, inQ, outQ, held, main, disk, faults>>

(* One queue_push per worker of an empty image without a file name.        *)
(* queue_push returns at once when the file name is NULL: nothing is       *)
(* queued, nobody is signalled.                                            *)
ReaderSignal(r) ==
  /\ pc[r] = "signal"
  /\ Goto(r, "done")
  /\ UNCHANGED <<read_files, written_files, inQ, outQ, held, main, disk, faults>>

ReaderStep(r) ==
  \/ ReaderClaim(r) \/ ReaderUnclaim(r) \/ ReaderLoad(r) \/ ReaderPush(r)
  \/ ReaderBarrier(r) \/ ReaderSignal(r)

-----------------------------------------------------------------------------
(* worker_thread *)

WorkerPop(w) ==
  /\ pc[w] = "pop"
  /\ InQ!Pop(w) /\ Take(w, Head(inItems))
  /\ Goto(w, "work")
  /\ UNCHANGED <<read_files, written_files, outQ, main, disk, faults>>

(* The empty queue: NULL and out when all files are written, else asleep.  *)
WorkerPopEmpty(w) ==
  /\ pc[w] = "pop"
  /\ IF AllWritten
       THEN InQ!PopNothing(w) /\ Goto(w, "done")
       ELSE InQ!PopWait(w) /\ UNCHANGED pc
  /\ UNCHANGED <<read_files, written_files, outQ, held, main, disk, faults>>

WorkerTimedOut(w) ==
  /\ pc[w] = "pop"
  /\ InQ!TimedOut(w)
  /\ IF AllWritten THEN Goto(w, "done") ELSE UNCHANGED pc
  /\ UNCHANGED <<read_files, written_files, outQ, held, main, disk, faults>>

(* A plausible bug: the image is handed out and left in the queue. *)
WorkerPopKeeps(w) ==
  /\ pc[w] = "pop" /\ Fail("strdup")
  /\ w \notin inNonEmpty /\ inItems # <<>>
  /\ Take(w, Head(inItems)) /\ Goto(w, "work")
  /\ UNCHANGED <<read_files, written_files, inQ, outQ, main, disk>>

(* queue_pop removes the image, signals, and returns NULL all the same:    *)
(* the image is lost and the worker leaves its loop.                       *)
WorkerPopFails(w) ==
  /\ pc[w] = "pop" /\ Fail("strdup")
  /\ InQ!Pop(w)
  /\ Goto(w, "done")
  /\ UNCHANGED <<read_files, written_files, outQ, held, main, disk>>

(* worker_allocate_resources and worker_process_image. *)
WorkerProcess(w) ==
  /\ pc[w] = "work"
  /\ Goto(w, "push")
  /\ UNCHANGED <<read_files, written_files, inQ, outQ, held, main, disk, faults>>

(* Either of them fails: the image is discarded, the next one is awaited.  *)
WorkerDiscards(w) ==
  /\ pc[w] = "work" /\ Fail("work")
  /\ Goto(w, "pop") /\ Drop(w)
  /\ UNCHANGED <<read_files, written_files, inQ, outQ, main, disk>>

WorkerExit(w) ==
  /\ pc[w] = "push" /\ w \notin outNonFull /\ Fail("node")
  /\ main' = "exit"
  /\ UNCHANGED <<read_files, written_files, inQ, outQ, pc, held, disk>>

(* A plausible bug: a full output queue makes the worker drop its result.  *)
WorkerPushOrDrop(w) ==
  /\ pc[w] = "push"
  /\ \/ OutQ!Push(w, held[w])
     \/ (OutQ!MemLimit(held[w]) \/ OutQ!ArrLimit) /\ UNCHANGED outQ
  /\ Goto(w, "pop") /\ Drop(w)
  /\ UNCHANGED <<read_files, written_files, inQ, main, disk, faults>>

WorkerPush(w) ==
  /\ pc[w] = "push"
  /\ \/ OutQ!Push(w, held[w]) /\ Goto(w, "pop") /\ Drop(w)
     \/ OutQ!PushWait(w, held[w]) /\ UNCHANGED <<pc, held>>
  /\ UNCHANGED <<read_files, written_files, inQ, main, disk, faults>>

WorkerStep(w) ==
  \/ WorkerPop(w) \/ WorkerPopEmpty(w) \/ WorkerTimedOut(w)
  \/ WorkerProcess(w) \/ WorkerPush(w)

-----------------------------------------------------------------------------
(* writer_thread *)

WriterCheck(x) ==
  /\ pc[x] = "check"
  /\ Goto(x, IF AllWritten THEN "done" ELSE "pop")
  /\ UNCHANGED <<read_files, written_files, inQ, outQ, held, main, disk, faults>>

WriterPop(x) ==
  /\ pc[x] = "pop"
  /\ OutQ!Pop(x) /\ Take(x, Head(outItems))
  /\ Goto(x, "write")
  /\ UNCHANGED <<read_files, written_files, inQ, main, disk, faults>>

WriterPopEmpty(x) ==
  /\ pc[x] = "pop"
  /\ IF AllWritten
       THEN OutQ!PopNothing(x) /\ Goto(x, "done")
       ELSE OutQ!PopWait(x) /\ UNCHANGED pc
  /\ UNCHANGED <<read_files, written_files, inQ, held, main, disk, faults>>

WriterTimedOut(x) ==
  /\ pc[x] = "pop"
  /\ OutQ!TimedOut(x)
  /\ IF AllWritten THEN Goto(x, "done") ELSE UNCHANGED pc
  /\ UNCHANGED <<read_files, written_files, inQ, held, main, disk, faults>>

(* A plausible bug: the error path returns without the signal to the       *)
(* producers.                                                              *)
WriterPopFailsQuietly(x) ==
  /\ pc[x] = "pop" /\ Fail("strdup")
  /\ x \notin outNonEmpty /\ outItems # <<>>
  /\ outItems' = Tail(outItems)
  /\ Goto(x, "done")
  /\ UNCHANGED <<read_files, written_files, inQ, outNonFull, outNonEmpty, held, main, disk>>

WriterPopFails(x) ==
  /\ pc[x] = "pop" /\ Fail("strdup")
  /\ OutQ!Pop(x)
  /\ Goto(x, "done")
  /\ UNCHANGED <<read_files, written_files, inQ, held, main, disk>>

(* bmp_img_write: the result is on disk before it is counted. *)
WriterWrite(x) ==
  /\ pc[x] = "write"
  /\ disk' = disk \union {held[x]}
  /\ Goto(x, "count") /\ Drop(x)
  /\ UNCHANGED <<read_files, written_files, inQ, outQ, main, faults>>

(* A plausible bug: the writer counts a file it could not write. *)
WriterDropsAndCounts(x) ==
  /\ pc[x] = "write" /\ Fail("write")
  /\ written_files' = written_files + 1
  /\ Goto(x, "check") /\ Drop(x)
  /\ UNCHANGED <<read_files, inQ, outQ, main, disk>>

(* bmp_img_write fails: the image is freed and never counted. *)
WriterDrops(x) ==
  /\ pc[x] = "write" /\ Fail("write")
  /\ Goto(x, "check") /\ Drop(x)
  /\ UNCHANGED <<read_files, written_files, inQ, outQ, main, disk>>

WriterCount(x) ==
  /\ pc[x] = "count"
  /\ written_files' = written_files + 1
  /\ Goto(x, IF written_files + 1 >= FileCnt THEN "done" ELSE "check")
  /\ UNCHANGED <<read_files, inQ, outQ, held, main, disk, faults>>

WriterStep(x) ==
  \/ WriterCheck(x) \/ WriterPop(x) \/ WriterPopEmpty(x) \/ WriterTimedOut(x)
  \/ WriterWrite(x) \/ WriterCount(x)

-----------------------------------------------------------------------------
(* cpu_process_queue_mode: create_qthreads, join_qthreads, free. *)

After ==
  [createReaders |-> "createWorkers", createWorkers |-> "createWriters",
   createWriters |-> "joinReaders",   joinReaders   |-> "joinWorkers",
   joinWorkers   |-> "joinWriters",   joinWriters   |-> "free"]

Kind(phase) ==
  CASE phase \in {"createReaders", "joinReaders"} -> Readers
    [] phase \in {"createWorkers", "joinWorkers"} -> Workers
    [] phase \in {"createWriters", "joinWriters"} -> Writers

Entry(t) ==
  CASE t \in Readers -> "claim" [] t \in Workers -> "pop" [] t \in Writers -> "check"

Creating == main \in {"createReaders", "createWorkers", "createWriters"}
Joining  == main \in {"joinReaders", "joinWorkers", "joinWriters"}

(* pthread_create: the thread runs from here on; the last one of a kind    *)
(* ends the loop.                                                          *)
MainCreate ==
  /\ Creating
  /\ \E t \in Kind(main) :
       /\ pc[t] = "none"
       /\ Goto(t, Entry(t))
       /\ main' = IF \A u \in Kind(main) \ {t} : pc[u] # "none" THEN After[main] ELSE main
  /\ UNCHANGED <<read_files, written_files, inQ, outQ, held, disk, faults>>

(* pthread_create fails: no more threads of this kind. *)
MainCreateFails ==
  /\ Creating /\ Fail("create")
  /\ main' = After[main]
  /\ UNCHANGED <<read_files, written_files, inQ, outQ, pc, held, disk>>

(* The threads of one kind that were created have all returned. *)
MainJoin ==
  /\ Joining
  /\ Joined(Kind(main))
  /\ main' = After[main]
  /\ UNCHANGED <<read_files, written_files, inQ, outQ, pc, held, disk, faults>>

(* free_qthread_resources: queue_destroy on both queues. *)
MainFree ==
  /\ main = "free"
  /\ InQ!Destroy /\ OutQ!Destroy
  /\ main' = "returned"
  /\ UNCHANGED <<read_files, written_files, pc, held, disk, faults>>

MainStep == MainCreate \/ MainJoin \/ MainFree

(* A wait on a condition variable of either queue returns unsignalled. *)
SpuriousWake(t) ==
  /\ \/ InQ!SpuriousWake(t) /\ UNCHANGED outQ
     \/ OutQ!SpuriousWake(t) /\ UNCHANGED inQ
  /\ UNCHANGED <<read_files, written_files, pc, held, main, disk, faults>>

-----------------------------------------------------------------------------
Init ==
  /\ read_files = 0 /\ written_files = 0
  /\ InQ!Init /\ OutQ!Init
  /\ pc = [t \in Thread |-> "none"]
  /\ held = [t \in Thread |-> NoFile]
  /\ main = "createReaders"
  /\ disk = {}
  /\ faults = 0

Faulty ==
  \/ \E r \in Readers : ReaderExit(r) \/ ReaderGivesUp(r)
  \/ \E w \in Workers : WorkerPopFails(w) \/ WorkerDiscards(w) \/ WorkerExit(w)
  \/ \E x \in Writers : WriterPopFails(x) \/ WriterDrops(x)
  \/ MainCreateFails

Running ==
  \/ \E r \in Readers : ReaderStep(r)
  \/ \E w \in Workers : WorkerStep(w)
  \/ \E x \in Writers : WriterStep(x)
  \/ MainStep
  \/ Faulty
  \/ \E t \in Thread : SpuriousWake(t)

(* The process is over: main returned, or somebody called exit. *)
Over == main \in {"returned", "exit"}

Next ==
  \/ ~Over /\ Running
  \/ Over /\ UNCHANGED vars

(* Every created thread is scheduled, and the one-second timers fire.      *)
Fairness ==
  /\ \A r \in Readers : WF_vars(~Over /\ ReaderStep(r))
  /\ \A w \in Workers : WF_vars(~Over /\ WorkerStep(w))
  /\ \A x \in Writers : WF_vars(~Over /\ WriterStep(x))
  /\ WF_vars(~Over /\ MainStep)

Spec == Init /\ [][Next]_vars
FairSpec == Spec /\ Fairness

-----------------------------------------------------------------------------
ReaderPc == {"none", "claim", "unclaim", "load", "push", "barrier", "atBarrier",
             "signal", "done"}
WorkerPc == {"none", "pop", "work", "push", "done"}
WriterPc == {"none", "check", "pop", "write", "count", "done"}

TypeOK ==
  /\ read_files \in Nat /\ written_files \in Nat
  /\ inItems \in Seq(File) /\ outItems \in Seq(File)
  /\ inNonFull \subseteq Readers /\ inNonEmpty \subseteq Workers
  /\ outNonFull \subseteq Workers /\ outNonEmpty \subseteq Writers
  /\ pc \in [Thread -> ReaderPc \union WorkerPc \union WriterPc]
  /\ \A r \in Readers : pc[r] \in ReaderPc
  /\ \A w \in Workers : pc[w] \in WorkerPc
  /\ \A x \in Writers : pc[x] \in WriterPc
  /\ held \in [Thread -> File \union {NoFile}]
  /\ main \in DOMAIN After \union {"free", "returned", "exit"}
  /\ disk \subseteq File
  /\ faults \in Nat

(* Everywhere the image of file f is. *)
Places(f) ==
  {<<"thread", t>> : t \in {u \in Thread : held[u] = f}}
    \union {<<"in", i>> : i \in {j \in DOMAIN inItems : inItems[j] = f}}
    \union {<<"out", i>> : i \in {j \in DOMAIN outItems : outItems[j] = f}}
    \union {<<"disk", d>> : d \in {e \in disk : e = f}}

Claimed(f) == f < read_files
Lost(f) == Claimed(f) /\ Places(f) = {}

(* The batch of QmtBatch, read off the pipeline. *)
Stage(f) ==
  CASE f \in disk -> "done"
    [] f \notin disk /\ Places(f) # {} -> "open"
    [] Lost(f) -> "lost"
    [] ~Claimed(f) /\ Places(f) = {} -> "todo"
Outcome == IF main \in {"returned", "exit"} THEN main ELSE "running"

Batch == INSTANCE QmtBatch WITH stage <- [f \in File |-> Stage(f)], outcome <- Outcome

(* A file index is handed to one reader, however fetch_add overshoots and  *)
(* fetch_sub takes back, and its image has one owner from then on: no      *)
(* thread frees, filters or writes an image another one has, and nothing   *)
(* is written twice.                                                       *)
OneOwner ==
  \A f \in File : /\ \A a, b \in Places(f) : a = b
                  /\ Places(f) # {} => Claimed(f)

(* Each failed call makes at most one claimed file disappear, and nothing  *)
(* else makes any: not the barrier, nor the termination checks, nor the    *)
(* full queues (qmt-threads.c:48-52, qmt-queue.c:250-258).  Only main's    *)
(* queue_destroy may free images still queued, when a call has failed      *)
(* (qmt-queue.c:90-99); see FreesEmptyQueues.                              *)
NothingLost ==
  Cardinality({f \in File : Lost(f)}) <= faults \/ (main = "returned" /\ faults > 0)

(* written_files lags behind the disk by the writers that have written and *)
(* not yet counted, and by nothing else.                                   *)
CountMatchesDisk ==
  written_files + Cardinality({x \in Writers : pc[x] = "count"}) = Cardinality(disk)

(* A worker or writer that has left its loop left nothing to do: every     *)
(* result is on disk.                                                      *)
LeaveWhenWritten ==
  (\E t \in Workers \union Writers : pc[t] = "done") => disk = File

(* No termination signal can overtake an image: once a reader is past the  *)
(* barrier, no reader has an image in hand, and every file was claimed     *)
(* unless a reader gave up.                                                *)
SignalsAfterImages ==
  (\E r \in Readers : pc[r] \in {"signal", "done"}) =>
    /\ \A r \in Readers : held[r] = NoFile
    /\ faults = 0 => read_files = FileCnt

(* One pthread_cond_signal per queue_pop strands no producer: while some   *)
(* sleep on a queue, it holds an image, whose pop will signal again, or a  *)
(* producer is awake and will push one.                                    *)
NoStrandedReader ==
  inNonFull # {} => inItems # <<>> \/ \E r \in Readers : pc[r] = "push" /\ r \notin inNonFull
NoStrandedWorker ==
  outNonFull # {} => outItems # <<>> \/ \E w \in Workers : pc[w] = "push" /\ w \notin outNonFull

(* One signal per queue_push loses no work: while consumers sleep on a     *)
(* queue, each of its images has an awake consumer inside queue_pop.       *)
WakeupsSuffice ==
  /\ inNonEmpty # {} =>
       Len(inItems) <= Cardinality({w \in Workers : pc[w] = "pop" /\ w \notin inNonEmpty})
  /\ outNonEmpty # {} =>
       Len(outItems) <= Cardinality({x \in Writers : pc[x] = "pop" /\ x \notin outNonEmpty})

(* main frees two empty queues that no thread uses or sleeps on: what      *)
(* queue_destroy would free of a queued input image includes the file name *)
(* that belongs to argv.                                                   *)
FreesEmptyQueues ==
  main = "free" => /\ inItems = <<>> /\ outItems = <<>>
                   /\ inNonFull \union inNonEmpty \union outNonFull \union outNonEmpty = {}

(* The pipeline is a batch: files are claimed in order, each is written at *)
(* most once, and main returns only after all of them are on disk.         *)
ImplementsBatch == Batch!Spec

(* Unless a call fails, the batch completes: main returns from the queue   *)
(* mode, although nobody is told when the last file is written.            *)
Returns == <>(main = "returned" \/ faults > 0)

(* All of the threads S have left their loops before everything was        *)
(* written, and as many calls have failed.                                 *)
AllGaveUp(S) ==
  /\ faults >= Cardinality(S) /\ ~AllWritten
  /\ \A t \in S : pc[t] \in {"barrier", "atBarrier", "signal", "done"}

(* Every reader that was created gets past the barrier and returns, unless *)
(* nobody is left to empty the queues: each worker, or each writer, got    *)
(* the NULL of a name that could not be copied (qmt-queue.c:250-258).      *)
ReadersReturn ==
  \A r \in Readers :
    (pc[r] # "none") ~> ( pc[r] = "done" \/ main = "exit"
                          \/ AllGaveUp(Workers) \/ AllGaveUp(Writers) )

(* The image of f has been handed to the writers. *)
PastWorkers(f) ==
  \/ f \in disk \/ f \in {outItems[i] : i \in DOMAIN outItems}
  \/ \E x \in Writers : held[x] = f

(* What failed calls cost, when all threads could be created.  A failure   *)
(* costs the file it happens to.  One that makes its thread leave its loop *)
(* (no memory for a reader's image, qmt-threads.c:48-52; none for a name   *)
(* in queue_pop, qmt-queue.c:250-258) costs no other file as long as the   *)
(* threads of that kind have not all left so: then, and only then, the     *)
(* files that are not yet past that kind of thread.  Every other file is   *)
(* written.                                                                *)
OthersWritten ==
  \A f \in File :
    <>( \/ f \in disk \/ Lost(f) \/ main = "exit"
        \/ AllGaveUp(Readers) /\ ~Claimed(f)
        \/ AllGaveUp(Workers) /\ ~PastWorkers(f)
        \/ AllGaveUp(Writers) )

(* What qmt-threads.h says: the readers push termination signals after the *)
(* last file, and a worker leaves its loop when it receives one.           *)
WorkersStopAfterReaders ==
  (\A r \in Readers : pc[r] = "done") ~> (\A w \in Workers : pc[w] = "done")
=============================================================================
