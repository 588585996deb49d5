------------------------- MODULE QmtPipelineProofs -------------------------
(***************************************************************************)
(* Theorems about the queue mode for every number of threads and files,    *)
(* every queue limit and every set of calls that may fail.  First the      *)
(* inductive invariant and what follows from it, then the refinement of    *)
(* QmtBatch.                                                               *)
(***************************************************************************)
EXTENDS QmtPipeline, SharedLemmas

(* Who holds an image, and who sleeps: what the pc of a thread says. *)
Hands ==
  /\ \A r \in Readers : held[r] \in File <=> pc[r] \in {"load", "push"}
  /\ \A w \in Workers : held[w] \in File <=> pc[w] \in {"work", "push"}
  /\ \A x \in Writers : held[x] \in File <=> pc[x] = "write"

Asleep ==
  /\ \A r \in inNonFull : pc[r] = "push"
  /\ \A w \in inNonEmpty : pc[w] = "pop"
  /\ \A w \in outNonFull : pc[w] = "push"
  /\ \A x \in outNonEmpty : pc[x] = "pop"

(* read_files passes FileCnt by exactly the readers that are still to take *)
(* their index back.                                                       *)
Unclaimers == {r \in Readers : pc[r] = "unclaim"}
Overshoot ==
  IF Unclaimers = {} THEN read_files <= FileCnt
                     ELSE read_files = FileCnt + Cardinality(Unclaimers)

(* The inductive invariant behind TypeOK. *)
TypeInv == TypeOK /\ Hands /\ Asleep /\ Overshoot

-----------------------------------------------------------------------------
LEMMA FileFacts == File \subseteq Nat /\ NoFile \notin File /\ \A i \in Nat : Exists(i) <=> i \in File
  BY PipelineAssumption DEF PipelineAssumption, File, NoFile, Exists

(* The threads of one kind are not of another. *)
LEMMA Kinds == /\ Readers \intersect Workers = {}
               /\ Readers \intersect Writers = {}
               /\ Workers \intersect Writers = {}
  BY PipelineAssumption DEF PipelineAssumption

LEMMA InSignals ==
  /\ InQ!signal_non_empty => WakesOne(inNonEmpty, inNonEmpty')
  /\ InQ!signal_non_full  => WakesOne(inNonFull, inNonFull')
  BY DEF WakesOne, InQ!signal_non_empty, InQ!signal_non_full, InQ!Signalled

LEMMA OutSignals ==
  /\ OutQ!signal_non_empty => WakesOne(outNonEmpty, outNonEmpty')
  /\ OutQ!signal_non_full  => WakesOne(outNonFull, outNonFull')
  BY DEF WakesOne, OutQ!signal_non_empty, OutQ!signal_non_full, OutQ!Signalled

LEMMA InitTypes == Init => TypeInv
<1> SUFFICES ASSUME Init PROVE TypeInv
  OBVIOUS
<1>1. Hands /\ Asleep
  BY FileFacts DEF Init, Hands, Asleep, Thread, InQ!Init, OutQ!Init
<1>2. TypeOK
  BY FileFacts DEF Init, TypeOK, InQ!Init, OutQ!Init, After, ReaderPc, WorkerPc, WriterPc, Thread
<1>3. Overshoot
  BY PipelineAssumption DEF Init, Overshoot, Unclaimers, PipelineAssumption, Thread
<1> QED
  BY <1>1, <1>2, <1>3 DEF TypeInv

LEMMA ReaderTypes ==
  ASSUME TypeInv, NEW r \in Readers, ReaderStep(r), read_files' \in Nat
  PROVE  (TypeOK /\ Hands /\ Asleep)'
<1> USE FileFacts, Kinds DEF TypeInv, TypeOK, Hands, Asleep, Thread, Goto, Take, Drop,
      ReaderPc, WorkerPc, WriterPc, inQ, outQ
<1>1. CASE ReaderClaim(r)
  <2>1. CASE read_files \in File
    BY <1>1, <2>1 DEF ReaderClaim
  <2>2. CASE read_files \notin File
    BY <1>1, <2>2 DEF ReaderClaim
  <2> QED
    BY <2>1, <2>2
<1>2. CASE ReaderUnclaim(r)
  BY <1>2 DEF ReaderUnclaim
<1>3. CASE ReaderLoad(r)
  BY <1>3 DEF ReaderLoad
<1>4. CASE ReaderPush(r)
  <2> USE DEF ReaderPush
  <2>1. CASE InQ!Push(r, held[r]) /\ Goto(r, "claim") /\ Drop(r)
    <3>1. /\ held[r] \in File /\ inItems' = Append(inItems, held[r])
          /\ inNonEmpty' \subseteq inNonEmpty /\ inNonFull' = inNonFull /\ r \notin inNonFull
      BY <1>4, <2>1, InSignals DEF InQ!Push, WakesOne
    <3>2. inItems' \in Seq(File)
      BY <3>1
    <3> QED
      BY <1>4, <2>1, <3>1, <3>2
  <2>2. CASE InQ!PushWait(r, held[r]) /\ UNCHANGED <<pc, held>>
    BY <1>4, <2>2 DEF InQ!PushWait
  <2> QED
    BY <1>4, <2>1, <2>2
<1>5. CASE ReaderBarrier(r)
  BY <1>5 DEF ReaderBarrier
<1>6. CASE ReaderSignal(r)
  BY <1>6 DEF ReaderSignal
<1> QED
  BY <1>1, <1>2, <1>3, <1>4, <1>5, <1>6 DEF ReaderStep

LEMMA WorkerTypes ==
  ASSUME TypeInv, NEW w \in Workers, WorkerStep(w)
  PROVE  (TypeOK /\ Hands /\ Asleep)'
<1> USE FileFacts, Kinds DEF TypeInv, TypeOK, Hands, Asleep, Thread, Goto, Take, Drop,
      ReaderPc, WorkerPc, WriterPc, inQ, outQ
<1>1. CASE WorkerPop(w)
  BY <1>1, InSignals DEF WorkerPop, InQ!Pop, WakesOne
<1>2. CASE WorkerPopEmpty(w)
  BY <1>2 DEF WorkerPopEmpty, InQ!PopNothing, InQ!PopWait, InQ!fifo
<1>3. CASE WorkerTimedOut(w)
  BY <1>3, SMTT(30) DEF WorkerTimedOut, InQ!TimedOut
<1>4. CASE WorkerProcess(w)
  BY <1>4 DEF WorkerProcess
<1>5. CASE WorkerPush(w)
  <2> USE DEF WorkerPush
  <2>1. CASE OutQ!Push(w, held[w]) /\ Goto(w, "pop") /\ Drop(w)
    <3>1. /\ held[w] \in File /\ outItems' = Append(outItems, held[w])
          /\ outNonEmpty' \subseteq outNonEmpty /\ outNonFull' = outNonFull /\ w \notin outNonFull
      BY <1>5, <2>1, OutSignals DEF OutQ!Push, WakesOne
    <3>2. outItems' \in Seq(File)
      BY <3>1
    <3> QED
      BY <1>5, <2>1, <3>1, <3>2
  <2>2. CASE OutQ!PushWait(w, held[w]) /\ UNCHANGED <<pc, held>>
    BY <1>5, <2>2 DEF OutQ!PushWait
  <2> QED
    BY <1>5, <2>1, <2>2
<1> QED
  BY <1>1, <1>2, <1>3, <1>4, <1>5 DEF WorkerStep

LEMMA WriterTypes ==
  ASSUME TypeInv, NEW x \in Writers, WriterStep(x)
  PROVE  (TypeOK /\ Hands /\ Asleep)'
<1> USE FileFacts, Kinds DEF TypeInv, TypeOK, Hands, Asleep, Thread, Goto, Take, Drop,
      ReaderPc, WorkerPc, WriterPc, inQ, outQ
<1>1. CASE WriterCheck(x)
  BY <1>1 DEF WriterCheck
<1>2. CASE WriterPop(x)
  BY <1>2, OutSignals DEF WriterPop, OutQ!Pop, WakesOne
<1>3. CASE WriterPopEmpty(x)
  BY <1>3 DEF WriterPopEmpty, OutQ!PopNothing, OutQ!PopWait, OutQ!fifo
<1>4. CASE WriterTimedOut(x)
  BY <1>4, SMTT(30) DEF WriterTimedOut, OutQ!TimedOut
<1>5. CASE WriterWrite(x)
  BY <1>5, ZenonT(60) DEF WriterWrite
<1>6. CASE WriterCount(x)
  BY <1>6 DEF WriterCount
<1> QED
  BY <1>1, <1>2, <1>3, <1>4, <1>5, <1>6 DEF WriterStep

LEMMA FaultyTypes ==
  ASSUME TypeInv, Faulty
  PROVE  (TypeOK /\ Hands /\ Asleep)'
<1> USE FileFacts, Kinds DEF TypeInv, TypeOK, Hands, Asleep, Thread, Goto, Take, Drop, Fail,
      ReaderPc, WorkerPc, WriterPc, inQ, outQ
<1>1. ASSUME NEW r \in Readers, ReaderExit(r) \/ ReaderGivesUp(r)
      PROVE  (TypeOK /\ Hands /\ Asleep)'
  <2>1. CASE ReaderExit(r)
    BY <2>1 DEF ReaderExit
  <2>2. CASE ReaderGivesUp(r)
    BY <2>2 DEF ReaderGivesUp
  <2> QED
    BY <1>1, <2>1, <2>2
<1>2. ASSUME NEW w \in Workers, WorkerPopFails(w)
      PROVE  (TypeOK /\ Hands /\ Asleep)'
  <2>1. inItems' \in Seq(File) /\ inNonFull' \subseteq inNonFull
    BY <1>2, InSignals DEF WorkerPopFails, InQ!Pop, WakesOne
  <2> QED
    BY <1>2, <2>1 DEF WorkerPopFails, InQ!Pop
<1>3. ASSUME NEW w \in Workers, WorkerDiscards(w) \/ WorkerExit(w)
      PROVE  (TypeOK /\ Hands /\ Asleep)'
  <2>1. CASE WorkerDiscards(w)
    BY <2>1 DEF WorkerDiscards
  <2>2. CASE WorkerExit(w)
    BY <2>2 DEF WorkerExit
  <2> QED
    BY <1>3, <2>1, <2>2
<1>4. ASSUME NEW x \in Writers, WriterPopFails(x)
      PROVE  (TypeOK /\ Hands /\ Asleep)'
  <2>1. outItems' \in Seq(File) /\ outNonFull' \subseteq outNonFull
    BY <1>4, OutSignals DEF WriterPopFails, OutQ!Pop, WakesOne
  <2> QED
    BY <1>4, <2>1 DEF WriterPopFails, OutQ!Pop
<1>5. ASSUME NEW x \in Writers, WriterDrops(x)
      PROVE  (TypeOK /\ Hands /\ Asleep)'
  BY <1>5 DEF WriterDrops
<1>6. CASE MainCreateFails
  BY <1>6 DEF MainCreateFails, Creating, After
<1> QED
  BY <1>1, <1>2, <1>3, <1>4, <1>5, <1>6 DEF Faulty

LEMMA MainTypes ==
  ASSUME TypeInv, MainStep
  PROVE  (TypeOK /\ Hands /\ Asleep)'
<1> USE FileFacts, Kinds DEF TypeInv, TypeOK, Hands, Asleep, Thread, Goto,
      ReaderPc, WorkerPc, WriterPc, inQ, outQ, After
<1>1. CASE MainCreate
  BY <1>1 DEF MainCreate, Creating, Kind, Entry
<1>2. CASE MainJoin
  BY <1>2 DEF MainJoin, Joining
<1>3. CASE MainFree
  BY <1>3 DEF MainFree, InQ!Destroy, OutQ!Destroy
<1> QED
  BY <1>1, <1>2, <1>3 DEF MainStep

LEMMA SpuriousTypes ==
  ASSUME TypeInv, NEW t \in Thread, SpuriousWake(t)
  PROVE  (TypeOK /\ Hands /\ Asleep)'
  BY DEF TypeInv, TypeOK, Hands, Asleep, SpuriousWake, InQ!SpuriousWake, OutQ!SpuriousWake, inQ, outQ

-----------------------------------------------------------------------------
(* Only ReaderClaim and ReaderUnclaim touch read_files and its overshoot.  *)
ClaimFrame == read_files' = read_files /\ Unclaimers' = Unclaimers

LEMMA ReaderClaimFrame ==
  ASSUME TypeInv, NEW r \in Readers, ReaderStep(r) \/ ReaderExit(r) \/ ReaderGivesUp(r),
         ~ReaderClaim(r), ~ReaderUnclaim(r)
  PROVE  ClaimFrame
  BY DEF TypeInv, TypeOK, Thread, Goto, ClaimFrame, Unclaimers, ReaderStep, ReaderLoad, ReaderPush,
     ReaderBarrier, ReaderSignal, ReaderExit, ReaderGivesUp

LEMMA OthersClaimFrame ==
  ASSUME TypeInv,
         \/ \E w \in Workers : WorkerStep(w) \/ WorkerPopFails(w) \/ WorkerDiscards(w) \/ WorkerExit(w)
         \/ \E x \in Writers : WriterStep(x) \/ WriterPopFails(x) \/ WriterDrops(x)
         \/ MainStep \/ MainCreateFails
         \/ \E t \in Thread : SpuriousWake(t)
         \/ UNCHANGED vars
  PROVE  ClaimFrame
<1> USE Kinds DEF TypeInv, TypeOK, Thread, Goto, ClaimFrame, Unclaimers
<1>1. ASSUME NEW w \in Workers,
             WorkerStep(w) \/ WorkerPopFails(w) \/ WorkerDiscards(w) \/ WorkerExit(w)
      PROVE  ClaimFrame
  BY <1>1 DEF WorkerStep, WorkerPop, WorkerPopEmpty, WorkerTimedOut, WorkerProcess, WorkerPush,
     WorkerPopFails, WorkerDiscards, WorkerExit
<1>2. ASSUME NEW x \in Writers, WriterStep(x) \/ WriterPopFails(x) \/ WriterDrops(x)
      PROVE  ClaimFrame
  BY <1>2 DEF WriterStep, WriterCheck, WriterPop, WriterPopEmpty, WriterTimedOut, WriterWrite,
     WriterCount, WriterPopFails, WriterDrops
<1>3. CASE MainStep \/ MainCreateFails
  BY <1>3 DEF MainStep, MainCreate, MainJoin, MainFree, MainCreateFails, Kind, Entry, Creating
<1>4. CASE (\E t \in Thread : SpuriousWake(t)) \/ UNCHANGED vars
  BY <1>4 DEF SpuriousWake, vars
<1> QED
  BY <1>1, <1>2, <1>3, <1>4

LEMMA UnclaimersFinite == IsFiniteSet(Unclaimers) /\ Cardinality(Unclaimers) \in Nat
  BY PipelineAssumption, FS_Subset, FS_CardinalityType DEF PipelineAssumption, Unclaimers

LEMMA OvershootStep ==
  ASSUME TypeInv, [Next]_vars
  PROVE  Overshoot' /\ read_files' \in Nat
<1> USE PipelineAssumption, FileFacts, UnclaimersFinite
    DEF TypeInv, TypeOK, Overshoot, PipelineAssumption
<1>1. ASSUME NEW r \in Readers, ReaderClaim(r)
      PROVE  Overshoot' /\ read_files' \in Nat
  <2>1. r \notin Unclaimers /\ read_files' = read_files + 1
    BY <1>1 DEF ReaderClaim, Unclaimers
  <2>2. CASE Exists(read_files)
    <3>1. Unclaimers' = Unclaimers
      BY <1>1, <2>2 DEF ReaderClaim, Unclaimers, Goto, Thread
    <3> QED
      BY <2>1, <2>2, <3>1 DEF Exists
  <2>3. CASE ~Exists(read_files)
    <3>1. Unclaimers' = Unclaimers \union {r}
      BY <1>1, <2>3 DEF ReaderClaim, Unclaimers, Goto, Thread
    <3>2. Cardinality(Unclaimers \union {r}) = Cardinality(Unclaimers) + 1
      BY <2>1, FS_AddElement
    <3>3. Unclaimers = {} => Cardinality(Unclaimers) = 0
      BY FS_EmptySet
    <3>4. Unclaimers' # {} /\ Cardinality(Unclaimers') = Cardinality(Unclaimers) + 1
      BY <3>1, <3>2
    <3>5. read_files = FileCnt + Cardinality(Unclaimers)
      BY <2>3, <3>3 DEF Exists
    <3>6. read_files' = FileCnt + Cardinality(Unclaimers')
      BY <2>1, <3>4, <3>5
    <3> QED
      BY <2>1, <3>4, <3>6
  <2> QED
    BY <2>2, <2>3
<1>2. ASSUME NEW r \in Readers, ReaderUnclaim(r)
      PROVE  Overshoot' /\ read_files' \in Nat
  <2>1. r \in Unclaimers /\ read_files' = read_files - 1 /\ Unclaimers' = Unclaimers \ {r}
    BY <1>2 DEF ReaderUnclaim, Unclaimers, Goto, Thread
  <2>2. Cardinality(Unclaimers \ {r}) = Cardinality(Unclaimers) - 1
    BY <2>1, FS_RemoveElement
  <2>3. Unclaimers \ {r} = {} => Cardinality(Unclaimers \ {r}) = 0
    BY FS_EmptySet
  <2>4. Cardinality(Unclaimers \ {r}) \in Nat
    BY FS_Subset, FS_CardinalityType
  <2> QED
    BY <2>1, <2>2, <2>3, <2>4
<1>3. ClaimFrame => Overshoot' /\ read_files' \in Nat
  BY DEF ClaimFrame
<1> QED
  BY <1>1, <1>2, <1>3, ReaderClaimFrame, OthersClaimFrame DEF Next, Running, ReaderStep, Faulty

(* Every step preserves the inductive invariant. *)
LEMMA StepTypes == TypeInv /\ [Next]_vars => TypeInv'
<1> SUFFICES ASSUME TypeInv, [Next]_vars PROVE TypeInv'
  OBVIOUS
<1>1. Overshoot' /\ read_files' \in Nat
  BY OvershootStep
<1>2. (TypeOK /\ Hands /\ Asleep)'
  <2>1. CASE UNCHANGED vars
    BY <2>1 DEF vars, inQ, outQ, TypeInv, TypeOK, Hands, Asleep
  <2>2. CASE Running
    BY <1>1, <2>2, ReaderTypes, WorkerTypes, WriterTypes, FaultyTypes, MainTypes, SpuriousTypes
       DEF Running
  <2> QED
    BY <2>1, <2>2 DEF Next
<1> QED
  BY <1>1, <1>2 DEF TypeInv

LEMMA SpecTypes == Spec => []TypeInv
  BY InitTypes, StepTypes, PTL DEF Spec

(* Every variable of the pipeline keeps its type: above all, read_files,   *)
(* an unsigned size_t, never wraps below zero, although every reader that  *)
(* overshoots adds to it and subtracts from it.                            *)
THEOREM Types == Spec => []TypeOK
  BY SpecTypes, PTL DEF TypeInv

-----------------------------------------------------------------------------
(* main joins the threads kind by kind, and none of a kind it has joined   *)
(* ever runs again.                                                        *)
Stopped(S) == \A t \in S : pc[t] \in {"none", "done"}
JoinOrder ==
  /\ main \in {"joinWorkers", "joinWriters", "free", "returned"} => Stopped(Readers)
  /\ main \in {"joinWriters", "free", "returned"} => Stopped(Workers)
  /\ main \in {"free", "returned"} => Stopped(Writers)

LEMMA JoinOrderStep ==
  ASSUME TypeInv, JoinOrder, [Next]_vars
  PROVE  JoinOrder'
<1> USE Kinds DEF TypeInv, TypeOK, Thread, Goto, JoinOrder, Stopped
<1>1. ASSUME NEW r \in Readers, ReaderStep(r) \/ ReaderExit(r) \/ ReaderGivesUp(r)
      PROVE  JoinOrder'
  BY <1>1 DEF ReaderStep, ReaderClaim, ReaderUnclaim, ReaderLoad, ReaderPush, ReaderBarrier,
     ReaderSignal, ReaderExit, ReaderGivesUp
<1>2. ASSUME NEW w \in Workers,
             WorkerStep(w) \/ WorkerPopFails(w) \/ WorkerDiscards(w) \/ WorkerExit(w)
      PROVE  JoinOrder'
  BY <1>2 DEF WorkerStep, WorkerPop, WorkerPopEmpty, WorkerTimedOut, WorkerProcess, WorkerPush,
     WorkerPopFails, WorkerDiscards, WorkerExit
<1>3. ASSUME NEW x \in Writers, WriterStep(x) \/ WriterPopFails(x) \/ WriterDrops(x)
      PROVE  JoinOrder'
  BY <1>3 DEF WriterStep, WriterCheck, WriterPop, WriterPopEmpty, WriterTimedOut, WriterWrite,
     WriterCount, WriterPopFails, WriterDrops
<1>4. CASE MainStep \/ MainCreateFails
  <2>1. CASE MainCreate \/ MainCreateFails
    <3>1. main \in {"createReaders", "createWorkers", "createWriters"}
      BY <2>1 DEF MainCreate, MainCreateFails, Creating
    <3>2. main' = main \/ main' = After[main]
      BY <2>1 DEF MainCreate, MainCreateFails
    <3>3. main' \notin {"joinWorkers", "joinWriters", "free", "returned"}
      BY <3>1, <3>2 DEF After
    <3> QED
      BY <3>3
  <2>2. CASE MainJoin
    <3>1. main \in {"joinReaders", "joinWorkers", "joinWriters"} /\ main' = After[main] /\ pc' = pc
      BY <2>2 DEF MainJoin, Joining
    <3>2. \A t \in Kind(main) : pc[t] \in {"none", "done"}
      BY <2>2 DEF MainJoin, Joined
    <3>3. CASE main = "joinReaders"
      <4>1. Kind(main) = Readers
        BY <3>3 DEF Kind
      <4>2. main' = "joinWorkers"
        BY <3>1, <3>3 DEF After
      <4>3. Stopped(Readers)
        BY <3>2, <4>1
      <4> QED
        BY <3>1, <3>3, <4>2, <4>3
    <3>4. CASE main = "joinWorkers"
      <4>1. Kind(main) = Workers
        BY <3>4 DEF Kind
      <4>2. main' = "joinWriters"
        BY <3>1, <3>4 DEF After
      <4>3. Stopped(Workers)
        BY <3>2, <4>1
      <4> QED
        BY <3>1, <3>4, <4>2, <4>3
    <3>5. CASE main = "joinWriters"
      <4>1. Kind(main) = Writers
        BY <3>5 DEF Kind
      <4>2. main' = "free"
        BY <3>1, <3>5 DEF After
      <4>3. Stopped(Writers)
        BY <3>2, <4>1
      <4> QED
        BY <3>1, <3>5, <4>2, <4>3
    <3> QED
      BY <3>1, <3>3, <3>4, <3>5
  <2>3. CASE MainFree
    <3>1. main = "free" /\ main' = "returned" /\ pc' = pc
      BY <2>3 DEF MainFree
    <3> QED
      BY <3>1
  <2> QED
    BY <1>4, <2>1, <2>2, <2>3 DEF MainStep
<1>5. CASE (\E t \in Thread : SpuriousWake(t)) \/ UNCHANGED vars
  BY <1>5 DEF SpuriousWake, vars
<1> QED
  BY <1>1, <1>2, <1>3, <1>4, <1>5 DEF Next, Running, Faulty

LEMMA PushLimits ==
  ASSUME TypeInv, NEW f
  PROVE  /\ InQ!MemLimit(f) \/ InQ!ArrLimit => inItems # <<>>
         /\ OutQ!MemLimit(f) \/ OutQ!ArrLimit => outItems # <<>>
  BY PipelineAssumption DEF PipelineAssumption, TypeInv, TypeOK, InQ!MemLimit, InQ!ArrLimit,
     OutQ!MemLimit, OutQ!ArrLimit

NoStranded == NoStrandedReader /\ NoStrandedWorker

LEMMA NoStrandedStep ==
  ASSUME TypeInv, JoinOrder, NoStranded, [Next]_vars
  PROVE  NoStranded'
<1> USE Kinds DEF TypeInv, TypeOK, Asleep, Thread, Goto, inQ, outQ,
      NoStranded, NoStrandedReader, NoStrandedWorker
<1>1. ASSUME NEW r \in Readers, ReaderPush(r)
      PROVE  NoStranded'
  <2>1. inItems' # <<>>
    BY <1>1, PushLimits DEF ReaderPush, InQ!Push, InQ!PushWait
  <2> QED
    BY <1>1, <2>1 DEF ReaderPush
<1>2. ASSUME NEW r \in Readers, ReaderStep(r) \/ ReaderExit(r) \/ ReaderGivesUp(r), ~ReaderPush(r)
      PROVE  NoStranded'
  BY <1>2 DEF ReaderStep, ReaderClaim, ReaderUnclaim, ReaderLoad, ReaderBarrier, ReaderSignal,
     ReaderExit, ReaderGivesUp
<1>3. ASSUME NEW w \in Workers, WorkerPop(w) \/ WorkerPopFails(w)
      PROVE  NoStranded'
  BY <1>3, InSignals DEF WorkerPop, WorkerPopFails, InQ!Pop, WakesOne
<1>4. ASSUME NEW w \in Workers, WorkerPush(w)
      PROVE  NoStranded'
  <2>1. outItems' # <<>>
    BY <1>4, PushLimits DEF WorkerPush, OutQ!Push, OutQ!PushWait
  <2> QED
    BY <1>4, <2>1 DEF WorkerPush
<1>5. ASSUME NEW w \in Workers, WorkerPopEmpty(w) \/ WorkerTimedOut(w) \/ WorkerProcess(w)
                                  \/ WorkerDiscards(w) \/ WorkerExit(w)
      PROVE  NoStranded'
  BY <1>5 DEF WorkerPopEmpty, WorkerTimedOut, WorkerProcess, WorkerDiscards, WorkerExit,
     InQ!PopNothing, InQ!PopWait, InQ!TimedOut, InQ!fifo
<1>6. ASSUME NEW x \in Writers, WriterPop(x) \/ WriterPopFails(x)
      PROVE  NoStranded'
  BY <1>6, OutSignals DEF WriterPop, WriterPopFails, OutQ!Pop, WakesOne
<1>7. ASSUME NEW x \in Writers, WriterStep(x) \/ WriterDrops(x), ~WriterPop(x)
      PROVE  NoStranded'
  BY <1>7 DEF WriterStep, WriterCheck, WriterPopEmpty, WriterTimedOut, WriterWrite, WriterCount,
     WriterDrops, OutQ!PopNothing, OutQ!PopWait, OutQ!TimedOut, OutQ!fifo
<1>8. CASE MainCreate \/ MainJoin \/ MainCreateFails
  BY <1>8 DEF MainCreate, MainJoin, MainCreateFails
<1>9. CASE MainFree
  BY <1>9 DEF MainFree, InQ!Destroy, OutQ!Destroy, JoinOrder, Stopped
<1>10. ASSUME NEW t \in Thread, SpuriousWake(t)
       PROVE  NoStranded'
  BY <1>10 DEF SpuriousWake, InQ!SpuriousWake, OutQ!SpuriousWake
<1>11. CASE UNCHANGED vars
  BY <1>11 DEF vars
<1> QED
  BY <1>1, <1>2, <1>3, <1>4, <1>5, <1>6, <1>7, <1>8, <1>9, <1>10, <1>11
     DEF Next, Running, ReaderStep, WorkerStep, WriterStep, MainStep, Faulty

LEMMA SpecNoStranded == Spec => [](TypeInv /\ JoinOrder /\ NoStranded)
<1>1. Init => JoinOrder /\ NoStranded
  BY DEF Init, JoinOrder, NoStranded, NoStrandedReader, NoStrandedWorker, InQ!Init, OutQ!Init
<1>2. TypeInv /\ JoinOrder /\ NoStranded /\ [Next]_vars => (JoinOrder /\ NoStranded)'
  BY JoinOrderStep, NoStrandedStep
<1> QED
  BY <1>1, <1>2, InitTypes, StepTypes, PTL DEF Spec

(* However many readers sleep on a full input queue, and whatever the      *)
(* sizes of the images, one pthread_cond_signal per queue_pop is enough:   *)
(* the queue is not empty or a reader is awake inside queue_push.          *)
THEOREM ReadersNotStranded == Spec => []NoStrandedReader
  BY SpecNoStranded, PTL DEF NoStranded

(* The same for the workers at the output queue. *)
THEOREM WorkersNotStranded == Spec => []NoStrandedWorker
  BY SpecNoStranded, PTL DEF NoStranded

-----------------------------------------------------------------------------
(* The consumers of each queue that are awake inside queue_pop. *)
AwakeWorkers == {w \in Workers : pc[w] = "pop" /\ w \notin inNonEmpty}
AwakeWriters == {x \in Writers : pc[x] = "pop" /\ x \notin outNonEmpty}

LEMMA AwakeFinite == /\ IsFiniteSet(AwakeWorkers) /\ Cardinality(AwakeWorkers) \in Nat
                     /\ IsFiniteSet(AwakeWriters) /\ Cardinality(AwakeWriters) \in Nat
  BY PipelineAssumption, FS_Subset, FS_CardinalityType
     DEF PipelineAssumption, AwakeWorkers, AwakeWriters

InHarmless == Harmless(Len(inItems), Len(inItems'), inNonEmpty, inNonEmpty', AwakeWorkers, AwakeWorkers')
OutHarmless == Harmless(Len(outItems), Len(outItems'), outNonEmpty, outNonEmpty', AwakeWriters, AwakeWriters')

(* Each queue by itself: one of the four. *)
InWakeups ==
  \/ InHarmless
  \/ PushesOne(Len(inItems), Len(inItems'), inNonEmpty, inNonEmpty', AwakeWorkers, AwakeWorkers')
  \/ PopsOne(Len(inItems), Len(inItems'), inNonEmpty, inNonEmpty', AwakeWorkers, AwakeWorkers')
  \/ Emptied(Len(inItems'))
OutWakeups ==
  \/ OutHarmless
  \/ PushesOne(Len(outItems), Len(outItems'), outNonEmpty, outNonEmpty', AwakeWriters, AwakeWriters')
  \/ PopsOne(Len(outItems), Len(outItems'), outNonEmpty, outNonEmpty', AwakeWriters, AwakeWriters')
  \/ Emptied(Len(outItems'))

LEMMA WakeupsStep ==
  ASSUME TypeInv, [Next]_vars
  PROVE  InWakeups /\ OutWakeups
<1> USE Kinds DEF TypeInv, TypeOK, Asleep, Thread, Goto, inQ, outQ, InHarmless, OutHarmless,
      InWakeups, OutWakeups, AwakeWorkers, AwakeWriters
<1>1. ASSUME NEW r \in Readers, ReaderPush(r)
      PROVE  InWakeups /\ OutWakeups
  <2>1. OutHarmless
    BY <1>1 DEF ReaderPush, Harmless
  <2>2. CASE InQ!Push(r, held[r]) /\ Goto(r, "claim") /\ Drop(r)
    <3>1. Len(inItems') = Len(inItems) + 1
      BY <2>2 DEF InQ!Push
    <3>2. inNonEmpty' # {} => \E t \in inNonEmpty : inNonEmpty' = inNonEmpty \ {t}
      BY <2>2, InSignals DEF InQ!Push, WakesOne
    <3>3. \A w \in Workers : pc'[w] = pc[w]
      BY <2>2
    <3>4. ASSUME NEW t \in inNonEmpty, inNonEmpty' = inNonEmpty \ {t}
          PROVE  t \notin AwakeWorkers /\ AwakeWorkers' = AwakeWorkers \union {t}
      BY <3>3, <3>4
    <3>5. PushesOne(Len(inItems), Len(inItems'), inNonEmpty, inNonEmpty', AwakeWorkers, AwakeWorkers')
      BY <3>1, <3>2, <3>4 DEF PushesOne
    <3> QED
      BY <2>1, <3>5
  <2>3. CASE InQ!PushWait(r, held[r]) /\ UNCHANGED <<pc, held>>
    BY <2>1, <2>3 DEF InQ!PushWait, Harmless
  <2> QED
    BY <1>1, <2>2, <2>3 DEF ReaderPush
<1>2. ASSUME NEW r \in Readers, ReaderStep(r) \/ ReaderExit(r) \/ ReaderGivesUp(r), ~ReaderPush(r)
      PROVE  InWakeups /\ OutWakeups
  <2>1. /\ UNCHANGED <<inQ, outQ>>
        /\ \A t \in Workers \union Writers : pc'[t] = pc[t]
    BY <1>2 DEF ReaderStep, ReaderClaim, ReaderUnclaim, ReaderLoad, ReaderBarrier, ReaderSignal,
       ReaderExit, ReaderGivesUp, WorkerPc, WriterPc
  <2> QED
    BY <2>1 DEF Harmless
<1>3. ASSUME NEW w \in Workers, WorkerPop(w) \/ WorkerPopFails(w)
      PROVE  InWakeups /\ OutWakeups
  <2>1. OutHarmless
    BY <1>3 DEF WorkerPop, WorkerPopFails, Harmless
  <2>2. /\ inItems # <<>> /\ inItems' = Tail(inItems) /\ inNonEmpty' = inNonEmpty
        /\ w \in AwakeWorkers /\ pc'[w] # "pop"
        /\ \A v \in Workers \ {w} : pc'[v] = pc[v]
    BY <1>3 DEF WorkerPop, WorkerPopFails, InQ!Pop
  <2>3. Len(inItems') = Len(inItems) - 1
    BY <2>2
  <2>4. AwakeWorkers' = AwakeWorkers \ {w}
    BY <2>2
  <2> QED
    BY <2>1, <2>2, <2>3, <2>4 DEF PopsOne
<1>4. ASSUME NEW w \in Workers, WorkerPush(w)
      PROVE  InWakeups /\ OutWakeups
  <2>1. InHarmless
    BY <1>4 DEF WorkerPush, Harmless
  <2>2. CASE OutQ!Push(w, held[w]) /\ Goto(w, "pop") /\ Drop(w)
    <3>1. Len(outItems') = Len(outItems) + 1
      BY <2>2 DEF OutQ!Push
    <3>2. outNonEmpty' # {} => \E t \in outNonEmpty : outNonEmpty' = outNonEmpty \ {t}
      BY <2>2, OutSignals DEF OutQ!Push, WakesOne
    <3>3. \A x \in Writers : pc'[x] = pc[x]
      BY <2>2
    <3>4. ASSUME NEW t \in outNonEmpty, outNonEmpty' = outNonEmpty \ {t}
          PROVE  t \notin AwakeWriters /\ AwakeWriters' = AwakeWriters \union {t}
      BY <3>3, <3>4
    <3>5. PushesOne(Len(outItems), Len(outItems'), outNonEmpty, outNonEmpty', AwakeWriters, AwakeWriters')
      BY <3>1, <3>2, <3>4 DEF PushesOne
    <3> QED
      BY <2>1, <3>5
  <2>3. CASE OutQ!PushWait(w, held[w]) /\ UNCHANGED <<pc, held>>
    BY <2>1, <2>3 DEF OutQ!PushWait, Harmless
  <2> QED
    BY <1>4, <2>2, <2>3 DEF WorkerPush
<1>5. ASSUME NEW w \in Workers, WorkerPopEmpty(w)
      PROVE  InWakeups /\ OutWakeups
  <2>1. OutHarmless
    BY <1>5 DEF WorkerPopEmpty, Harmless
  <2>2. inItems' = <<>>
    BY <1>5 DEF WorkerPopEmpty, InQ!PopNothing, InQ!PopWait, InQ!fifo
  <2> QED
    BY <2>1, <2>2 DEF Emptied
<1>6. ASSUME NEW w \in Workers,
             WorkerTimedOut(w) \/ WorkerProcess(w) \/ WorkerDiscards(w) \/ WorkerExit(w)
      PROVE  InWakeups /\ OutWakeups
  BY <1>6 DEF WorkerTimedOut, WorkerProcess, WorkerDiscards, WorkerExit, InQ!TimedOut, Harmless
<1>7. ASSUME NEW x \in Writers, WriterPop(x) \/ WriterPopFails(x)
      PROVE  InWakeups /\ OutWakeups
  <2>1. InHarmless
    BY <1>7 DEF WriterPop, WriterPopFails, Harmless
  <2>2. /\ outItems # <<>> /\ outItems' = Tail(outItems) /\ outNonEmpty' = outNonEmpty
        /\ x \in AwakeWriters /\ pc'[x] # "pop"
        /\ \A y \in Writers \ {x} : pc'[y] = pc[y]
    BY <1>7 DEF WriterPop, WriterPopFails, OutQ!Pop
  <2>3. Len(outItems') = Len(outItems) - 1
    BY <2>2
  <2>4. AwakeWriters' = AwakeWriters \ {x}
    BY <2>2
  <2> QED
    BY <2>1, <2>2, <2>3, <2>4 DEF PopsOne
<1>8. ASSUME NEW x \in Writers, WriterPopEmpty(x)
      PROVE  InWakeups /\ OutWakeups
  <2>1. InHarmless
    BY <1>8 DEF WriterPopEmpty, Harmless
  <2>2. outItems' = <<>>
    BY <1>8 DEF WriterPopEmpty, OutQ!PopNothing, OutQ!PopWait, OutQ!fifo
  <2> QED
    BY <2>1, <2>2 DEF Emptied
<1>9. ASSUME NEW x \in Writers, \/ WriterCheck(x) \/ WriterTimedOut(x) \/ WriterWrite(x)
                                \/ WriterCount(x) \/ WriterDrops(x)
      PROVE  InWakeups /\ OutWakeups
  BY <1>9 DEF WriterCheck, WriterTimedOut, WriterWrite, WriterCount, WriterDrops, OutQ!TimedOut,
     Harmless
<1>10. CASE MainCreate \/ MainJoin \/ MainCreateFails
  BY <1>10 DEF MainCreate, MainJoin, MainCreateFails, Harmless
<1>11. CASE MainFree
  BY <1>11 DEF MainFree, InQ!Destroy, OutQ!Destroy, Emptied
<1>12. ASSUME NEW t \in Thread, SpuriousWake(t)
       PROVE  InWakeups /\ OutWakeups
  BY <1>12 DEF SpuriousWake, InQ!SpuriousWake, OutQ!SpuriousWake, Harmless
<1>13. CASE UNCHANGED vars
  BY <1>13 DEF vars, Harmless
<1> QED
  BY <1>1, <1>2, <1>3, <1>4, <1>5, <1>6, <1>7, <1>8, <1>9, <1>10, <1>11, <1>12, <1>13
     DEF Next, Running, ReaderStep, WorkerStep, WriterStep, MainStep, Faulty

(* One pthread_cond_signal per queue_push loses no wake-up, whatever the   *)
(* number of threads and the mix of signals, timeouts and spurious         *)
(* wake-ups: while consumers sleep on a queue, each of its images has an   *)
(* awake consumer inside queue_pop.                                        *)
THEOREM NoWakeupLost == Spec => []WakeupsSuffice
<1> DEFINE In  == inNonEmpty # {} => Len(inItems) <= Cardinality(AwakeWorkers)
           Out == outNonEmpty # {} => Len(outItems) <= Cardinality(AwakeWriters)
<1>1. Init => In /\ Out
  BY DEF Init, InQ!Init, OutQ!Init
<1>2. ASSUME TypeInv, TypeInv', In, Out, [Next]_vars PROVE In' /\ Out'
  <2>1. /\ Len(inItems) \in Nat /\ Len(inItems') \in Nat
        /\ Len(outItems) \in Nat /\ Len(outItems') \in Nat
    BY <1>2 DEF TypeInv, TypeOK
  <2>2. /\ IsFiniteSet(AwakeWorkers') /\ Cardinality(AwakeWorkers') \in Nat
        /\ IsFiniteSet(AwakeWriters') /\ Cardinality(AwakeWriters') \in Nat
    BY PipelineAssumption, FS_Subset, FS_CardinalityType
       DEF PipelineAssumption, AwakeWorkers, AwakeWriters
  <2>3. InWakeups /\ OutWakeups
    BY <1>2, WakeupsStep
  <2>4. In'
    BY <1>2, <2>1, <2>2, <2>3, AwakeFinite, EnoughAwake DEF InWakeups, InHarmless
  <2>5. Out'
    BY <1>2, <2>1, <2>2, <2>3, AwakeFinite, EnoughAwake DEF OutWakeups, OutHarmless
  <2> QED
    BY <2>4, <2>5
<1>3. In /\ Out => WakeupsSuffice
  BY DEF WakeupsSuffice, AwakeWorkers, AwakeWriters
<1> QED
  BY <1>1, <1>2, <1>3, SpecTypes, StepTypes, PTL DEF Spec

-----------------------------------------------------------------------------
(* OneOwner, place by place: what a queue, the threads and the disk have   *)
(* is pairwise different, and all of it was claimed.                       *)
Elems(s) == {s[i] : i \in 1 .. Len(s)}
Distinct(s) == \A i, j \in 1 .. Len(s) : s[i] = s[j] => i = j

Stored == Elems(inItems) \union Elems(outItems) \union disk

Single ==
  /\ Distinct(inItems) /\ Distinct(outItems)
  /\ Elems(inItems) \intersect Elems(outItems) = {}
  /\ Elems(inItems) \intersect disk = {}
  /\ Elems(outItems) \intersect disk = {}
  /\ \A t, u \in Thread : held[t] = held[u] /\ held[t] # NoFile => t = u
  /\ \A t \in Thread : held[t] \notin Stored
  /\ \A t \in Thread : held[t] < read_files
  /\ \A f \in Stored : f < read_files

LEMMA AppendElems ==
  ASSUME NEW s \in Seq(File), NEW f \in File
  PROVE  /\ Elems(Append(s, f)) = Elems(s) \union {f}
         /\ Distinct(s) /\ f \notin Elems(s) => Distinct(Append(s, f))
  BY DEF Elems, Distinct

LEMMA TailElems ==
  ASSUME NEW s \in Seq(File), s # <<>>, Distinct(s)
  PROVE  /\ Head(s) \in Elems(s) /\ Head(s) \in File
         /\ Elems(Tail(s)) = Elems(s) \ {Head(s)}
         /\ Distinct(Tail(s))
<1>1. Head(s) = s[1] /\ Len(s) >= 1 /\ Len(Tail(s)) = Len(s) - 1
  OBVIOUS
<1>2. \A i \in 1 .. Len(Tail(s)) : Tail(s)[i] = s[i + 1]
  OBVIOUS
<1>3. Distinct(Tail(s))
  BY <1>1, <1>2 DEF Distinct
<1>4. Elems(Tail(s)) \subseteq Elems(s) \ {Head(s)}
  BY <1>1, <1>2 DEF Distinct, Elems
<1>5. ASSUME NEW i \in 1 .. Len(s), s[i] # Head(s)
      PROVE  s[i] \in Elems(Tail(s))
  <2>1. i - 1 \in 1 .. Len(Tail(s)) /\ Tail(s)[i - 1] = s[i]
    BY <1>1, <1>2, <1>5
  <2> QED
    BY <2>1 DEF Elems
<1>6. Elems(s) \ {Head(s)} \subseteq Elems(Tail(s))
  BY <1>5 DEF Elems
<1>7. Head(s) \in Elems(s) /\ Head(s) \in File
  BY <1>1 DEF Elems
<1> QED
  BY <1>3, <1>4, <1>6, <1>7

LEMMA ElemsType == ASSUME NEW s \in Seq(File) PROVE Elems(s) \subseteq File
  BY DEF Elems

LEMMA StoredFiles == TypeInv => Stored \subseteq File /\ NoFile \notin Stored
<1> SUFFICES ASSUME TypeInv PROVE Stored \subseteq File
  BY FileFacts
<1> QED
  BY ElemsType DEF TypeInv, TypeOK, Stored

(* Single is OneOwner. *)
LEMMA SingleOwner == TypeInv /\ Single => OneOwner
<1> SUFFICES ASSUME TypeInv, Single, NEW f \in File
             PROVE  /\ \A a, b \in Places(f) : a = b
                    /\ Places(f) # {} => Claimed(f)
  BY DEF OneOwner
<1> DEFINE T == {u \in Thread : held[u] = f}
           I == {j \in DOMAIN inItems : inItems[j] = f}
           O == {j \in DOMAIN outItems : outItems[j] = f}
           D == {e \in disk : e = f}
<1>1. \A t, u \in T : t = u
  BY FileFacts DEF Single
<1>2. /\ DOMAIN inItems = 1 .. Len(inItems)
      /\ DOMAIN outItems = 1 .. Len(outItems)
  BY DEF TypeInv, TypeOK
<1>3. /\ \A i, j \in I : i = j
      /\ \A i, j \in O : i = j
  BY <1>2 DEF Single, Distinct
<1>4. /\ I # {} => f \in Elems(inItems)
      /\ O # {} => f \in Elems(outItems)
      /\ D # {} => f \in disk
  BY <1>2 DEF Elems
<1>5. /\ T # {} => I = {} /\ O = {} /\ D = {}
      /\ I # {} => O = {} /\ D = {}
      /\ O # {} => D = {}
  BY <1>4 DEF Single, Stored
<1>6. Places(f) = {<<"thread", t>> : t \in T} \union {<<"in", i>> : i \in I}
                    \union {<<"out", i>> : i \in O} \union {<<"disk", d>> : d \in D}
  BY DEF Places
<1>7. T # {} \/ I # {} \/ O # {} \/ D # {} => Claimed(f)
  BY <1>4 DEF Single, Stored, Claimed
<1> HIDE DEF T, I, O
<1>8. \A d, e \in D : d = e
  OBVIOUS
<1> HIDE DEF D
<1> QED
  BY <1>1, <1>3, <1>5, <1>6, <1>7, <1>8

-----------------------------------------------------------------------------
(* No image changes hands, or some images disappear. *)
LEMMA SingleShrinks ==
  ASSUME TypeInv, Single, read_files' = read_files, held' \in [Thread -> File \union {NoFile}],
         \A t \in Thread : held'[t] \in {held[t], NoFile},
         inItems' \in {inItems, <<>>}, outItems' \in {outItems, <<>>}, disk' = disk
  PROVE  Single'
<1>1. NoFile \notin Stored /\ NoFile < read_files
  BY StoredFiles DEF TypeInv, TypeOK, NoFile
<1>2. Elems(<<>>) = {} /\ Distinct(<<>>)
  BY DEF Elems, Distinct
<1>3. /\ Distinct(inItems') /\ Elems(inItems') \in {Elems(inItems), {}}
      /\ Distinct(outItems') /\ Elems(outItems') \in {Elems(outItems), {}}
  BY <1>2 DEF Single
<1> QED
  BY <1>1, <1>3 DEF Single, Stored

LEMMA Numbers ==
  TypeInv => /\ read_files \in Nat /\ Stored \subseteq Nat
             /\ \A t \in Thread : held[t] \in Int /\ held[t] < FileCnt
             /\ \A f \in Stored : f < FileCnt
<1> SUFFICES ASSUME TypeInv PROVE /\ read_files \in Nat
                                  /\ \A t \in Thread : held[t] \in File \union {NoFile}
  BY StoredFiles, PipelineAssumption DEF PipelineAssumption, File, NoFile
<1> QED
  BY DEF TypeInv, TypeOK

LEMMA ClaimSingle ==
  ASSUME TypeInv, Single, NEW r \in Readers, ReaderClaim(r)
  PROVE  Single'
<1>1. /\ Stored' = Stored /\ read_files' = read_files + 1
      /\ inItems' = inItems /\ outItems' = outItems /\ disk' = disk
  BY DEF Stored, ReaderClaim, inQ, outQ
<1>2. /\ \A t \in Thread : held[t] < read_files'
      /\ \A f \in Stored' : f < read_files'
      /\ read_files < read_files'
  BY <1>1, Numbers DEF Single
<1>3. CASE Exists(read_files)
  <2>1. read_files \notin Stored /\ \A t \in Thread : held[t] # read_files
    BY Numbers DEF Single
  <2>2. \A t \in Thread : held'[t] = IF t = r THEN read_files ELSE held[t]
    BY <1>3 DEF ReaderClaim, Take, TypeInv, TypeOK
  <2> QED
    BY <1>1, <1>2, <2>1, <2>2 DEF Single
<1>4. CASE ~Exists(read_files)
  BY <1>1, <1>2, <1>4 DEF Single, ReaderClaim
<1> QED
  BY <1>3, <1>4

LEMMA UnclaimSingle ==
  ASSUME TypeInv, Single, NEW r \in Readers, ReaderUnclaim(r)
  PROVE  Single'
<1>1. read_files >= FileCnt + 1
  <2>1. r \in Unclaimers
    BY DEF Unclaimers, ReaderUnclaim
  <2>2. Cardinality(Unclaimers) # 0
    BY <2>1, UnclaimersFinite, FS_EmptySet
  <2> QED
    BY <2>1, <2>2, UnclaimersFinite, PipelineAssumption
       DEF TypeInv, TypeOK, Overshoot, PipelineAssumption
<1>2. read_files' = read_files - 1 /\ held' = held /\ Stored' = Stored
      /\ inItems' = inItems /\ outItems' = outItems /\ disk' = disk
  BY DEF Stored, ReaderUnclaim, inQ, outQ
<1>3. FileCnt \in Nat
  BY PipelineAssumption DEF PipelineAssumption
<1>4. /\ \A t \in Thread : held[t] < read_files'
      /\ \A f \in Stored : f < read_files'
  BY <1>1, <1>2, <1>3, Numbers
<1> QED
  BY <1>2, <1>4 DEF Single

(* The image in the hands of thread t goes to the end of a queue, or to    *)
(* the disk.                                                               *)
LEMMA InPushSingle ==
  ASSUME TypeInv, Single, NEW t \in Thread, held[t] \in File, Drop(t),
         inItems' = Append(inItems, held[t]), outItems' = outItems, disk' = disk,
         read_files' = read_files
  PROVE  Single'
<1>1. Elems(inItems') = Elems(inItems) \union {held[t]} /\ Distinct(inItems')
  BY AppendElems DEF Single, Stored, TypeInv, TypeOK
<1>2. \A u \in Thread : held'[u] = IF u = t THEN NoFile ELSE held[u]
  BY DEF Drop, Take, TypeInv, TypeOK
<1>3. NoFile # held[t] /\ NoFile \notin Stored /\ NoFile < read_files
  BY FileFacts, StoredFiles DEF TypeInv, TypeOK, NoFile
<1>4. Stored' = Stored \union {held[t]}
  BY <1>1 DEF Stored
<1> QED
  BY <1>1, <1>2, <1>3, <1>4 DEF Single, Stored

LEMMA OutPushSingle ==
  ASSUME TypeInv, Single, NEW t \in Thread, held[t] \in File, Drop(t),
         outItems' = Append(outItems, held[t]), inItems' = inItems, disk' = disk,
         read_files' = read_files
  PROVE  Single'
<1>1. Elems(outItems') = Elems(outItems) \union {held[t]} /\ Distinct(outItems')
  BY AppendElems DEF Single, Stored, TypeInv, TypeOK
<1>2. \A u \in Thread : held'[u] = IF u = t THEN NoFile ELSE held[u]
  BY DEF Drop, Take, TypeInv, TypeOK
<1>3. NoFile # held[t] /\ NoFile \notin Stored /\ NoFile < read_files
  BY FileFacts, StoredFiles DEF TypeInv, TypeOK, NoFile
<1>4. Stored' = Stored \union {held[t]}
  BY <1>1 DEF Stored
<1> QED
  BY <1>1, <1>2, <1>3, <1>4 DEF Single, Stored

LEMMA WriteSingle ==
  ASSUME TypeInv, Single, NEW x \in Writers, WriterWrite(x)
  PROVE  Single' /\ held[x] \notin disk
<1>1. held[x] \in File /\ disk' = disk \union {held[x]}
  BY DEF WriterWrite, TypeInv, Hands
<1>2. \A u \in Thread : held'[u] = IF u = x THEN NoFile ELSE held[u]
  BY DEF WriterWrite, Drop, Take, TypeInv, TypeOK
<1>3. NoFile # held[x] /\ NoFile \notin Stored /\ NoFile < read_files
  BY FileFacts, StoredFiles, <1>1 DEF TypeInv, TypeOK, NoFile
<1>4. Stored' = Stored \union {held[x]}
  BY <1>1 DEF Stored, WriterWrite, inQ, outQ
<1> QED
  BY <1>1, <1>2, <1>3, <1>4 DEF Single, Stored, WriterWrite, inQ, outQ, Thread

(* The oldest image of a queue goes to thread t, or to nobody. *)
LEMMA InPopSingle ==
  ASSUME TypeInv, Single, NEW t \in Thread, held[t] \notin File, inItems # <<>>,
         inItems' = Tail(inItems), Take(t, Head(inItems)) \/ held' = held,
         outItems' = outItems, disk' = disk, read_files' = read_files
  PROVE  Single'
<1>1. /\ Head(inItems) \in Elems(inItems) /\ Head(inItems) \in File
      /\ Elems(inItems') = Elems(inItems) \ {Head(inItems)}
      /\ Distinct(inItems')
  BY TailElems DEF Single, TypeInv, TypeOK
<1>2. held' = held \/ \A u \in Thread : held'[u] = IF u = t THEN Head(inItems) ELSE held[u]
  BY DEF Take, TypeInv, TypeOK
<1>3. Stored' \subseteq Stored /\ Head(inItems) \in Stored /\ Head(inItems) \notin Stored'
  BY <1>1 DEF Stored, Single
<1> QED
  BY <1>1, <1>2, <1>3 DEF Single, Stored

LEMMA OutPopSingle ==
  ASSUME TypeInv, Single, NEW t \in Thread, held[t] \notin File, outItems # <<>>,
         outItems' = Tail(outItems), Take(t, Head(outItems)) \/ held' = held,
         inItems' = inItems, disk' = disk, read_files' = read_files
  PROVE  Single'
<1>1. /\ Head(outItems) \in Elems(outItems) /\ Head(outItems) \in File
      /\ Elems(outItems') = Elems(outItems) \ {Head(outItems)}
      /\ Distinct(outItems')
  BY TailElems DEF Single, TypeInv, TypeOK
<1>2. held' = held \/ \A u \in Thread : held'[u] = IF u = t THEN Head(outItems) ELSE held[u]
  BY DEF Take, TypeInv, TypeOK
<1>3. Stored' \subseteq Stored /\ Head(outItems) \in Stored /\ Head(outItems) \notin Stored'
  BY <1>1 DEF Stored, Single
<1> QED
  BY <1>1, <1>2, <1>3 DEF Single, Stored

LEMMA SingleStep ==
  ASSUME TypeInv, Single, [Next]_vars
  PROVE  Single'
<1> USE Kinds DEF Goto, Drop, Take, Thread, inQ, outQ
<1>0. TypeInv' /\ held' \in [Thread -> File \union {NoFile}]
  BY StepTypes DEF TypeInv, TypeOK
<1>1. ASSUME NEW r \in Readers, ReaderPush(r)
      PROVE  Single'
  <2>1. CASE InQ!Push(r, held[r]) /\ Goto(r, "claim") /\ Drop(r)
    BY <1>1, <2>1, InPushSingle DEF ReaderPush, InQ!Push, TypeInv, Hands
  <2>2. CASE InQ!PushWait(r, held[r]) /\ UNCHANGED <<pc, held>>
    BY <1>0, <1>1, <2>2, SingleShrinks DEF ReaderPush, InQ!PushWait
  <2> QED
    BY <1>1, <2>1, <2>2 DEF ReaderPush
<1>2. ASSUME NEW r \in Readers, \/ ReaderLoad(r) \/ ReaderBarrier(r) \/ ReaderSignal(r)
                                \/ ReaderExit(r) \/ ReaderGivesUp(r)
      PROVE  Single'
  BY <1>0, <1>2, SingleShrinks
     DEF ReaderLoad, ReaderBarrier, ReaderSignal, ReaderExit, ReaderGivesUp
<1>3. ASSUME NEW w \in Workers, WorkerPop(w) \/ WorkerPopFails(w)
      PROVE  Single'
  BY <1>3, InPopSingle DEF WorkerPop, WorkerPopFails, InQ!Pop, TypeInv, Hands
<1>4. ASSUME NEW w \in Workers, WorkerPush(w)
      PROVE  Single'
  <2>1. CASE OutQ!Push(w, held[w]) /\ Goto(w, "pop") /\ Drop(w)
    BY <1>4, <2>1, OutPushSingle DEF WorkerPush, OutQ!Push, TypeInv, Hands
  <2>2. CASE OutQ!PushWait(w, held[w]) /\ UNCHANGED <<pc, held>>
    BY <1>0, <1>4, <2>2, SingleShrinks DEF WorkerPush, OutQ!PushWait
  <2> QED
    BY <1>4, <2>1, <2>2 DEF WorkerPush
<1>5. ASSUME NEW w \in Workers, \/ WorkerPopEmpty(w) \/ WorkerTimedOut(w) \/ WorkerProcess(w)
                                \/ WorkerDiscards(w) \/ WorkerExit(w)
      PROVE  Single'
  BY <1>0, <1>5, SingleShrinks
     DEF WorkerPopEmpty, WorkerTimedOut, WorkerProcess, WorkerDiscards, WorkerExit,
         InQ!PopNothing, InQ!PopWait, InQ!TimedOut, InQ!fifo
<1>6. ASSUME NEW x \in Writers, WriterPop(x) \/ WriterPopFails(x)
      PROVE  Single'
  BY <1>6, OutPopSingle DEF WriterPop, WriterPopFails, OutQ!Pop, TypeInv, Hands
<1>7. ASSUME NEW x \in Writers, \/ WriterCheck(x) \/ WriterPopEmpty(x) \/ WriterTimedOut(x)
                                \/ WriterCount(x) \/ WriterDrops(x)
      PROVE  Single'
  BY <1>0, <1>7, SingleShrinks
     DEF WriterCheck, WriterPopEmpty, WriterTimedOut, WriterCount, WriterDrops,
         OutQ!PopNothing, OutQ!PopWait, OutQ!TimedOut, OutQ!fifo
<1>8. CASE MainStep \/ MainCreateFails
  BY <1>0, <1>8, SingleShrinks
     DEF MainStep, MainCreate, MainJoin, MainFree, MainCreateFails, InQ!Destroy, OutQ!Destroy
<1>9. ASSUME NEW t \in Thread, SpuriousWake(t)
      PROVE  Single'
  BY <1>0, <1>9, SingleShrinks DEF SpuriousWake, InQ!SpuriousWake, OutQ!SpuriousWake
<1>10. CASE UNCHANGED vars
  BY <1>0, <1>10, SingleShrinks DEF vars
<1> QED
  BY <1>1, <1>2, <1>3, <1>4, <1>5, <1>6, <1>7, <1>8, <1>9, <1>10,
     ClaimSingle, UnclaimSingle, WriteSingle
     DEF Next, Running, ReaderStep, WorkerStep, WriterStep, Faulty

LEMMA SpecSingle == Spec => [](TypeInv /\ Single)
<1>1. Init => Single
  <2> SUFFICES ASSUME Init PROVE Single
    OBVIOUS
  <2>1. Elems(<<>>) = {} /\ Distinct(<<>>)
    BY DEF Elems, Distinct
  <2>2. Stored = {}
    BY <2>1 DEF Init, Stored, InQ!Init, OutQ!Init
  <2> QED
    BY <2>1, <2>2 DEF Init, Single, InQ!Init, OutQ!Init, NoFile
<1> QED
  BY <1>1, InitTypes, StepTypes, SingleStep, PTL DEF Spec

(* Whatever the interleaving and whichever calls fail, every image is in   *)
(* at most one place - one pair of hands, one slot of one queue, the disk  *)
(* - and no file index is handed out twice although read_files overshoots  *)
(* and is taken back.                                                      *)
THEOREM SingleOwnership == Spec => []OneOwner
  BY SpecSingle, SingleOwner, PTL

-----------------------------------------------------------------------------
(* written_files, the disk, and the writers between the two. *)
Counting == {x \in Writers : pc[x] = "count"}
CountFrame == written_files' = written_files /\ disk' = disk /\ Counting' = Counting

LEMMA WriterCountFrame ==
  ASSUME TypeInv, NEW x \in Writers, WriterStep(x) \/ WriterPopFails(x) \/ WriterDrops(x),
         ~WriterWrite(x), ~WriterCount(x)
  PROVE  CountFrame
  BY DEF TypeInv, TypeOK, Thread, Goto, CountFrame, Counting, WriterStep, WriterCheck, WriterPop,
     WriterPopEmpty, WriterTimedOut, WriterPopFails, WriterDrops

LEMMA OthersCountFrame ==
  ASSUME TypeInv,
         \/ \E r \in Readers : ReaderStep(r) \/ ReaderExit(r) \/ ReaderGivesUp(r)
         \/ \E w \in Workers : WorkerStep(w) \/ WorkerPopFails(w) \/ WorkerDiscards(w) \/ WorkerExit(w)
         \/ MainStep \/ MainCreateFails
         \/ \E t \in Thread : SpuriousWake(t)
         \/ UNCHANGED vars
  PROVE  CountFrame
<1> USE Kinds DEF TypeInv, TypeOK, Thread, Goto, CountFrame, Counting
<1>1. ASSUME NEW r \in Readers, ReaderStep(r) \/ ReaderExit(r) \/ ReaderGivesUp(r)
      PROVE  CountFrame
  BY <1>1 DEF ReaderStep, ReaderClaim, ReaderUnclaim, ReaderLoad, ReaderPush, ReaderBarrier,
     ReaderSignal, ReaderExit, ReaderGivesUp, WriterPc
<1>2. ASSUME NEW w \in Workers,
             WorkerStep(w) \/ WorkerPopFails(w) \/ WorkerDiscards(w) \/ WorkerExit(w)
      PROVE  CountFrame
  BY <1>2 DEF WorkerStep, WorkerPop, WorkerPopEmpty, WorkerTimedOut, WorkerProcess, WorkerPush,
     WorkerPopFails, WorkerDiscards, WorkerExit
<1>3. CASE MainStep \/ MainCreateFails
  BY <1>3 DEF MainStep, MainCreate, MainJoin, MainFree, MainCreateFails, Kind, Entry, Creating
<1>4. CASE (\E t \in Thread : SpuriousWake(t)) \/ UNCHANGED vars
  BY <1>4 DEF SpuriousWake, vars
<1> QED
  BY <1>1, <1>2, <1>3, <1>4

LEMMA FiniteCounts ==
  /\ IsFiniteSet(Counting) /\ Cardinality(Counting) \in Nat
  /\ IsFiniteSet(File) /\ Cardinality(File) = FileCnt
  /\ TypeInv => IsFiniteSet(disk) /\ Cardinality(disk) \in Nat
<1>1. IsFiniteSet(File) /\ Cardinality(File) = FileCnt
  BY PipelineAssumption, FS_Interval DEF PipelineAssumption, File
<1> QED
  BY <1>1, PipelineAssumption, FS_Subset, FS_CardinalityType
     DEF PipelineAssumption, Counting, TypeInv, TypeOK

LEMMA CountStep ==
  ASSUME TypeInv, Single, CountMatchesDisk, [Next]_vars
  PROVE  CountMatchesDisk'
<1> USE FiniteCounts DEF CountMatchesDisk
<1>1. ASSUME NEW x \in Writers, WriterWrite(x)
      PROVE  CountMatchesDisk'
  <2>1. x \notin Counting /\ Counting' = Counting \union {x} /\ written_files' = written_files
    BY <1>1 DEF WriterWrite, Counting, Goto, TypeInv, TypeOK, Thread
  <2>2. held[x] \notin disk /\ disk' = disk \union {held[x]}
    BY <1>1, WriteSingle DEF WriterWrite
  <2>3. Cardinality(Counting') = Cardinality(Counting) + 1
    BY <2>1, FS_AddElement
  <2>4. Cardinality(disk') = Cardinality(disk) + 1
    BY <2>2, FS_AddElement
  <2>5. written_files + Cardinality(Counting) = Cardinality(disk)
    BY DEF Counting
  <2>6. written_files' + Cardinality(Counting') = Cardinality(disk')
    BY <2>1, <2>3, <2>4, <2>5 DEF TypeInv, TypeOK
  <2> QED
    BY <2>6 DEF Counting
<1>2. ASSUME NEW x \in Writers, WriterCount(x)
      PROVE  CountMatchesDisk'
  <2>1. /\ x \in Counting /\ Counting' = Counting \ {x}
        /\ written_files' = written_files + 1 /\ disk' = disk
    BY <1>2 DEF WriterCount, Counting, Goto, TypeInv, TypeOK, Thread
  <2>2. Cardinality(Counting') = Cardinality(Counting) - 1
    BY <2>1, FS_RemoveElement
  <2>3. written_files + Cardinality(Counting) = Cardinality(disk)
    BY DEF Counting
  <2>4. written_files' + Cardinality(Counting') = Cardinality(disk')
    BY <2>1, <2>2, <2>3 DEF TypeInv, TypeOK
  <2> QED
    BY <2>4 DEF Counting
<1>3. CountFrame => CountMatchesDisk'
  BY DEF CountFrame, Counting
<1> QED
  BY <1>1, <1>2, <1>3, WriterCountFrame, OthersCountFrame DEF Next, Running, WriterStep, Faulty

LEMMA SpecCount == Spec => [](TypeInv /\ Single /\ CountMatchesDisk)
<1>1. Init => CountMatchesDisk
  <2>1. Init => Counting = {} /\ disk = {} /\ written_files = 0
    BY DEF Init, Counting, Thread
  <2> QED
    BY <2>1, FS_EmptySet DEF CountMatchesDisk, Counting
<1>2. TypeInv /\ Single /\ CountMatchesDisk /\ [Next]_vars => CountMatchesDisk'
  BY CountStep
<1> QED
  BY <1>1, <1>2, SpecSingle, PTL DEF Spec

(* written_files counts exactly the results on disk, less the writers that *)
(* have written one and are about to count it.                             *)
THEOREM WrittenCount == Spec => []CountMatchesDisk
  BY SpecCount, PTL

-----------------------------------------------------------------------------
(* A worker or a writer that has returned saw all files written, unless    *)
(* queue_pop failed it.                                                    *)
PopsWork == faults = 0 \/ "strdup" \notin Faults
Left == PopsWork /\ (\E t \in Workers \union Writers : pc[t] = "done") => AllWritten

LEMMA LeftStep ==
  ASSUME TypeInv, Left, [Next]_vars
  PROVE  Left'
<1> USE Kinds, PipelineAssumption
    DEF PipelineAssumption, TypeInv, TypeOK, Thread, Goto, Left, PopsWork, AllWritten, Fail
<1>1. ASSUME NEW r \in Readers, ReaderStep(r) \/ ReaderExit(r) \/ ReaderGivesUp(r)
      PROVE  Left'
  BY <1>1 DEF ReaderStep, ReaderClaim, ReaderUnclaim, ReaderLoad, ReaderPush, ReaderBarrier,
     ReaderSignal, ReaderExit, ReaderGivesUp
<1>2. ASSUME NEW w \in Workers, WorkerStep(w) \/ WorkerDiscards(w) \/ WorkerExit(w)
      PROVE  Left'
  BY <1>2 DEF WorkerStep, WorkerPop, WorkerPopEmpty, WorkerTimedOut, WorkerProcess, WorkerPush,
     WorkerDiscards, WorkerExit
<1>3. ASSUME NEW x \in Writers, WriterStep(x) \/ WriterDrops(x)
      PROVE  Left'
  BY <1>3 DEF WriterStep, WriterCheck, WriterPop, WriterPopEmpty, WriterTimedOut, WriterWrite,
     WriterCount, WriterDrops
<1>4. CASE MainStep \/ MainCreateFails
  BY <1>4 DEF MainStep, MainCreate, MainJoin, MainFree, MainCreateFails, Kind, Entry, Creating
<1>5. ASSUME NEW t \in Thread, WorkerPopFails(t) \/ WriterPopFails(t)
      PROVE  ~PopsWork'
  BY <1>5 DEF WorkerPopFails, WriterPopFails
<1>6. CASE (\E t \in Thread : SpuriousWake(t)) \/ UNCHANGED vars
  BY <1>6 DEF SpuriousWake, vars
<1> QED
  BY <1>1, <1>2, <1>3, <1>4, <1>5, <1>6 DEF Next, Running, Faulty

LEMMA SpecLeft == Spec => [](TypeInv /\ Single /\ CountMatchesDisk /\ Left)
<1>1. Init => Left
  BY DEF Init, Left, Thread
<1>2. TypeInv /\ Left /\ [Next]_vars => Left'
  BY LeftStep
<1> QED
  BY <1>1, <1>2, SpecCount, PTL DEF Spec

LEMMA WrittenOnDisk ==
  ASSUME TypeInv, CountMatchesDisk, AllWritten
  PROVE  disk = File
<1>1. Cardinality(disk) >= FileCnt
  BY FiniteCounts, PipelineAssumption
     DEF PipelineAssumption, CountMatchesDisk, Counting, AllWritten, TypeInv, TypeOK
<1>2. disk \subseteq File /\ Cardinality(disk) <= Cardinality(File)
  BY FiniteCounts, FS_Subset DEF TypeInv, TypeOK
<1> QED
  BY <1>1, <1>2, FiniteCounts, FS_Subset, PipelineAssumption DEF PipelineAssumption

(* Unless queue_pop itself runs out of memory, no worker and no writer     *)
(* returns before every result is on disk, whatever else fails.            *)
THEOREM NobodyLeavesEarly == ASSUME "strdup" \notin Faults PROVE Spec => []LeaveWhenWritten
<1>1. TypeInv /\ CountMatchesDisk /\ Left => LeaveWhenWritten
  BY WrittenOnDisk DEF Left, PopsWork, LeaveWhenWritten
<1> QED
  BY <1>1, SpecLeft, PTL

-----------------------------------------------------------------------------
(* The barrier: the readers pass it together, each with empty hands, after *)
(* the files have run out unless a call failed.                            *)
PastBarrier(r) == pc[r] \in {"signal", "done"}
Together == (\E r \in Readers : PastBarrier(r)) => \A r \in Readers : PastBarrier(r)
FilesRanOut ==
  faults = 0 /\ (\E r \in Readers : pc[r] \in {"barrier", "atBarrier", "signal", "done"})
    => read_files >= FileCnt

LEMMA TogetherStep ==
  ASSUME TypeInv, Together, [Next]_vars
  PROVE  Together'
<1> USE Kinds DEF TypeInv, TypeOK, Thread, Goto, Together, PastBarrier
<1>1. ASSUME NEW r \in Readers, ReaderBarrier(r)
      PROVE  Together'
  BY <1>1 DEF ReaderBarrier, BarrierTrips
<1>2. ASSUME NEW r \in Readers, ReaderStep(r) \/ ReaderExit(r) \/ ReaderGivesUp(r), ~ReaderBarrier(r)
      PROVE  Together'
  BY <1>2 DEF ReaderStep, ReaderClaim, ReaderUnclaim, ReaderLoad, ReaderPush, ReaderSignal,
     ReaderExit, ReaderGivesUp
<1>3. ASSUME NEW w \in Workers,
             WorkerStep(w) \/ WorkerPopFails(w) \/ WorkerDiscards(w) \/ WorkerExit(w)
      PROVE  Together'
  BY <1>3 DEF WorkerStep, WorkerPop, WorkerPopEmpty, WorkerTimedOut, WorkerProcess, WorkerPush,
     WorkerPopFails, WorkerDiscards, WorkerExit
<1>4. ASSUME NEW x \in Writers, WriterStep(x) \/ WriterPopFails(x) \/ WriterDrops(x)
      PROVE  Together'
  BY <1>4 DEF WriterStep, WriterCheck, WriterPop, WriterPopEmpty, WriterTimedOut, WriterWrite,
     WriterCount, WriterPopFails, WriterDrops
<1>5. CASE MainStep \/ MainCreateFails
  BY <1>5 DEF MainStep, MainCreate, MainJoin, MainFree, MainCreateFails, Kind, Entry, Creating
<1>6. CASE (\E t \in Thread : SpuriousWake(t)) \/ UNCHANGED vars
  BY <1>6 DEF SpuriousWake, vars
<1> QED
  BY <1>1, <1>2, <1>3, <1>4, <1>5, <1>6 DEF Next, Running, Faulty

LEMMA RanOutStep ==
  ASSUME TypeInv, FilesRanOut, [Next]_vars
  PROVE  FilesRanOut'
<1> USE Kinds, FileFacts, PipelineAssumption
    DEF PipelineAssumption, TypeInv, TypeOK, Thread, Goto, FilesRanOut, Fail
<1>1. ASSUME NEW r \in Readers, ReaderClaim(r)
      PROVE  FilesRanOut'
  BY <1>1 DEF ReaderClaim, Exists
<1>2. ASSUME NEW r \in Readers, ReaderUnclaim(r)
      PROVE  FilesRanOut'
  <2>1. r \in Unclaimers
    BY <1>2 DEF ReaderUnclaim, Unclaimers
  <2>2. Cardinality(Unclaimers) # 0 /\ Cardinality(Unclaimers) \in Nat
    BY <2>1, UnclaimersFinite, FS_EmptySet
  <2>3. read_files >= FileCnt + 1
    BY <2>1, <2>2 DEF Overshoot
  <2> QED
    BY <1>2, <2>3 DEF ReaderUnclaim
<1>3. ASSUME NEW r \in Readers, \/ ReaderLoad(r) \/ ReaderPush(r) \/ ReaderBarrier(r)
                                \/ ReaderSignal(r) \/ ReaderExit(r) \/ ReaderGivesUp(r)
      PROVE  FilesRanOut'
  BY <1>3 DEF ReaderLoad, ReaderPush, ReaderBarrier, ReaderSignal, ReaderExit, ReaderGivesUp
<1>4. ASSUME NEW w \in Workers,
             WorkerStep(w) \/ WorkerPopFails(w) \/ WorkerDiscards(w) \/ WorkerExit(w)
      PROVE  FilesRanOut'
  BY <1>4 DEF WorkerStep, WorkerPop, WorkerPopEmpty, WorkerTimedOut, WorkerProcess, WorkerPush,
     WorkerPopFails, WorkerDiscards, WorkerExit
<1>5. ASSUME NEW x \in Writers, WriterStep(x) \/ WriterPopFails(x) \/ WriterDrops(x)
      PROVE  FilesRanOut'
  BY <1>5 DEF WriterStep, WriterCheck, WriterPop, WriterPopEmpty, WriterTimedOut, WriterWrite,
     WriterCount, WriterPopFails, WriterDrops
<1>6. CASE MainStep \/ MainCreateFails
  BY <1>6 DEF MainStep, MainCreate, MainJoin, MainFree, MainCreateFails, Kind, Entry, Creating
<1>7. CASE (\E t \in Thread : SpuriousWake(t)) \/ UNCHANGED vars
  BY <1>7 DEF SpuriousWake, vars
<1> QED
  BY <1>1, <1>2, <1>3, <1>4, <1>5, <1>6, <1>7 DEF Next, Running, ReaderStep, Faulty

LEMMA BarrierSignals == TypeInv /\ Together /\ FilesRanOut => SignalsAfterImages
<1> SUFFICES ASSUME TypeInv, FilesRanOut, \A r \in Readers : PastBarrier(r)
             PROVE  /\ \A r \in Readers : held[r] = NoFile
                    /\ faults = 0 => read_files = FileCnt
  BY DEF Together, PastBarrier, SignalsAfterImages
<1>1. \A r \in Readers : held[r] = NoFile
  BY DEF TypeInv, TypeOK, Hands, PastBarrier, Thread
<1>2. Unclaimers = {}
  BY DEF Unclaimers, PastBarrier
<1>3. \E r \in Readers : PastBarrier(r)
  BY PipelineAssumption DEF PipelineAssumption
<1> QED
  BY <1>1, <1>2, <1>3, PipelineAssumption
     DEF PipelineAssumption, TypeInv, TypeOK, Overshoot, FilesRanOut, PastBarrier

(* No reader gets past the barrier, and so none sends a termination        *)
(* signal, while a reader has an image in hand; and if no call failed, all *)
(* files have been claimed by then.                                        *)
THEOREM BarrierOrdersSignals == Spec => []SignalsAfterImages
<1>1. Init => Together /\ FilesRanOut
  BY DEF Init, Together, PastBarrier, FilesRanOut, Thread
<1>2. Spec => [](Together /\ FilesRanOut)
  BY <1>1, SpecTypes, TogetherStep, RanOutStep, PTL DEF Spec
<1> QED
  BY <1>2, SpecTypes, BarrierSignals, PTL

-----------------------------------------------------------------------------
(* The batch of QmtBatch: no more images are lost than calls fail, main frees *)
(* two empty queues, and every step of the pipeline is a step of the batch *)
(* or none at all.                                                         *)

(* Every thread is created, and none leaves queue_pop without reason:      *)
(* nothing has failed yet, or what may fail is none of the two.            *)
Reliable == faults = 0 \/ ("strdup" \notin Faults /\ "create" \notin Faults)

AllCreated ==
  Reliable /\ main \in {"createWriters", "joinReaders", "joinWorkers", "joinWriters",
                        "free", "returned"}
    => \A w \in Workers : pc[w] # "none"

(* The image of file f is in somebody's hands, in a queue or on disk. *)
InHands(f) == \E t \in Thread : held[t] = f
Present(f) == InHands(f) \/ f \in Stored

(* The claimed files that are missing: no more than calls have failed,     *)
(* until main frees the queues after a failure.                            *)
Missing == {f \in File : Claimed(f) /\ ~Present(f)}
Kept == Cardinality(Missing) <= faults \/ (main = "returned" /\ faults > 0)

BatchInv == TypeInv /\ Single /\ CountMatchesDisk /\ Left /\ JoinOrder /\ AllCreated

-----------------------------------------------------------------------------
LEMMA AllCreatedStep ==
  ASSUME TypeInv, AllCreated, [Next]_vars
  PROVE  AllCreated'
<1> USE Kinds DEF TypeInv, TypeOK, Thread, Goto, AllCreated, Reliable, Fail
<1>1. ASSUME NEW r \in Readers, ReaderStep(r) \/ ReaderExit(r) \/ ReaderGivesUp(r)
      PROVE  AllCreated'
  BY <1>1 DEF ReaderStep, ReaderClaim, ReaderUnclaim, ReaderLoad, ReaderPush, ReaderBarrier,
     ReaderSignal, ReaderExit, ReaderGivesUp, WorkerPc
<1>2. ASSUME NEW w \in Workers,
             WorkerStep(w) \/ WorkerPopFails(w) \/ WorkerDiscards(w) \/ WorkerExit(w)
      PROVE  AllCreated'
  BY <1>2 DEF WorkerStep, WorkerPop, WorkerPopEmpty, WorkerTimedOut, WorkerProcess, WorkerPush,
     WorkerPopFails, WorkerDiscards, WorkerExit
<1>3. ASSUME NEW x \in Writers, WriterStep(x) \/ WriterPopFails(x) \/ WriterDrops(x)
      PROVE  AllCreated'
  BY <1>3 DEF WriterStep, WriterCheck, WriterPop, WriterPopEmpty, WriterTimedOut, WriterWrite,
     WriterCount, WriterPopFails, WriterDrops
<1>4. CASE MainCreate
  BY <1>4 DEF MainCreate, Creating, Kind, Entry, After
<1>5. CASE MainJoin \/ MainFree \/ MainCreateFails
  BY <1>5 DEF MainJoin, MainFree, MainCreateFails, Joining, After
<1>6. CASE (\E t \in Thread : SpuriousWake(t)) \/ UNCHANGED vars
  BY <1>6 DEF SpuriousWake, vars
<1> QED
  BY <1>1, <1>2, <1>3, <1>4, <1>5, <1>6 DEF Next, Running, MainStep, Faulty

LEMMA SpecBatchInv == Spec => []BatchInv
<1>1. Init => JoinOrder /\ AllCreated
  BY DEF Init, JoinOrder, AllCreated
<1>2. TypeInv /\ JoinOrder /\ AllCreated /\ [Next]_vars => (JoinOrder /\ AllCreated)'
  BY JoinOrderStep, AllCreatedStep
<1> QED
  BY <1>1, <1>2, SpecLeft, PTL DEF Spec, BatchInv

(* When main frees the queues of a reliable run, a worker has seen all     *)
(* files written.                                                          *)
LEMMA AllOnDisk ==
  ASSUME BatchInv, Reliable, main \in {"free", "returned"}
  PROVE  disk = File
<1>1. PICK w \in Workers : TRUE
  BY PipelineAssumption DEF PipelineAssumption
<1>2. pc[w] = "done"
  BY <1>1 DEF BatchInv, JoinOrder, Stopped, AllCreated
<1> QED
  BY <1>1, <1>2, WrittenOnDisk DEF BatchInv, Left, PopsWork, Reliable

LEMMA NoElems == ASSUME NEW s \in Seq(File), Elems(s) = {} PROVE s = <<>>
<1>1. Len(s) = 0
  <2> SUFFICES ASSUME Len(s) # 0 PROVE FALSE
    OBVIOUS
  <2>1. s[1] \in Elems(s)
    BY DEF Elems
  <2> QED
    BY <2>1
<1> QED
  BY <1>1

(* Unless queue_pop runs out of memory or pthread_create fails, main frees *)
(* two queues that are empty and that no thread sleeps on, whatever else   *)
(* fails: queue_destroy never meets an image or a waiter.                  *)
THEOREM DestroysNothing ==
  ASSUME "strdup" \notin Faults, "create" \notin Faults
  PROVE  Spec => []FreesEmptyQueues
<1>1. ASSUME BatchInv PROVE FreesEmptyQueues
  <2> SUFFICES ASSUME main = "free"
               PROVE  /\ inItems = <<>> /\ outItems = <<>>
                      /\ inNonFull \union inNonEmpty \union outNonFull \union outNonEmpty = {}
    BY DEF FreesEmptyQueues
  <2>1. disk = File
    BY <1>1, AllOnDisk DEF Reliable
  <2>2. Elems(inItems) = {} /\ Elems(outItems) = {}
    BY <1>1, <2>1, StoredFiles DEF BatchInv, Single, Stored
  <2>3. inItems = <<>> /\ outItems = <<>>
    BY <1>1, <2>2, NoElems DEF BatchInv, TypeInv, TypeOK
  <2>4. inNonFull \union inNonEmpty \union outNonFull \union outNonEmpty = {}
    BY <1>1 DEF BatchInv, TypeInv, TypeOK, Asleep, JoinOrder, Stopped
  <2> QED
    BY <2>3, <2>4
<1> QED
  BY <1>1, SpecBatchInv, PTL

-----------------------------------------------------------------------------
(* What the steps do to the presence of each file. *)
Stays(f) == Present(f)' <=> Present(f)

LEMMA HandsIdle == held' = held /\ Stored' = Stored => \A f : Stays(f)
  BY DEF Stays, Present, InHands

LEMMA InElems ==
  TypeInv /\ Single =>
    /\ \A f \in File : Elems(Append(inItems, f)) = Elems(inItems) \union {f}
    /\ inItems # <<>> => /\ Head(inItems) \in File
                         /\ Elems(inItems) = Elems(Tail(inItems)) \union {Head(inItems)}
  BY AppendElems, TailElems DEF TypeInv, TypeOK, Single

LEMMA OutElems ==
  TypeInv /\ Single =>
    /\ \A f \in File : Elems(Append(outItems, f)) = Elems(outItems) \union {f}
    /\ outItems # <<>> => /\ Head(outItems) \in File
                          /\ Elems(outItems) = Elems(Tail(outItems)) \union {Head(outItems)}
  BY AppendElems, TailElems DEF TypeInv, TypeOK, Single

(* An image that goes from a thread's hands into a queue or to the disk,   *)
(* or from a queue into empty hands, stays present.                        *)
LEMMA HandedOver ==
  ASSUME TypeInv, NEW t \in Thread, held[t] \in File, Drop(t),
         Stored' = Stored \union {held[t]}
  PROVE  \A f \in File : Stays(f)
<1>1. \A u \in Thread : held'[u] = IF u = t THEN NoFile ELSE held[u]
  BY DEF Drop, Take, TypeInv, TypeOK
<1> QED
  BY <1>1, FileFacts DEF Stays, Present, InHands

LEMMA TakenOver ==
  ASSUME TypeInv, NEW t \in Thread, held[t] \notin File, NEW g \in File, Take(t, g),
         Stored' \subseteq Stored, Stored = Stored' \union {g}
  PROVE  \A f \in File : Stays(f)
<1>1. \A u \in Thread : held'[u] = IF u = t THEN g ELSE held[u]
  BY DEF Take, TypeInv, TypeOK
<1> QED
  BY <1>1 DEF Stays, Present, InHands

(* A thread that gives up its image makes it, and no other, disappear. *)
LEMMA Dropped ==
  ASSUME TypeInv, Single, NEW t \in Thread, held[t] \in File, Drop(t), Stored' = Stored
  PROVE  \A f \in File : Present(f)' <=> Present(f) /\ f # held[t]
<1>1. \A u \in Thread : held'[u] = IF u = t THEN NoFile ELSE held[u]
  BY DEF Drop, Take, TypeInv, TypeOK
<1> QED
  BY <1>1, FileFacts DEF Present, InHands, Single

(* A claim makes the claimed file, and no other, appear. *)
LEMMA ClaimedFile ==
  ASSUME TypeInv, NEW r \in Readers, ReaderClaim(r), Exists(read_files)
  PROVE  /\ read_files \in File /\ read_files' = read_files + 1
         /\ \A f \in File : Present(f)' <=> Present(f) \/ f = read_files
<1>1. \A u \in Thread : held'[u] = IF u = r THEN read_files ELSE held[u]
  BY DEF ReaderClaim, Take, TypeInv, TypeOK
<1>2. held[r] \notin File /\ r \in Thread
  BY DEF ReaderClaim, TypeInv, Hands, Thread
<1>3. Stored' = Stored
  BY DEF ReaderClaim, Stored, inQ, outQ
<1>4. read_files \in File /\ read_files' = read_files + 1
  BY FileFacts DEF ReaderClaim, TypeInv, TypeOK
<1> QED
  BY <1>1, <1>2, <1>3, <1>4 DEF Present, InHands

(* An index that is taken back is none of a file. *)
LEMMA UnclaimedFile ==
  ASSUME TypeInv, NEW r \in Readers, ReaderUnclaim(r)
  PROVE  read_files' >= FileCnt /\ read_files >= FileCnt
<1>1. r \in Unclaimers
  BY DEF Unclaimers, ReaderUnclaim
<1>2. Cardinality(Unclaimers) # 0
  BY <1>1, UnclaimersFinite, FS_EmptySet
<1> QED
  BY <1>1, <1>2, UnclaimersFinite, PipelineAssumption
     DEF TypeInv, TypeOK, Overshoot, PipelineAssumption, ReaderUnclaim

-----------------------------------------------------------------------------
(* The steps that leave the batch as it is: every file is as present, as   *)
(* claimed and as written as before, and main has not ended.               *)
Quiet ==
  /\ \A f \in File : Stays(f) /\ (Claimed(f)' <=> Claimed(f))
  /\ disk' = disk
  /\ main' \notin {"returned", "exit"}

LEMMA ReaderQuiet ==
  ASSUME TypeInv, Single, ~Over, NEW r \in Readers, ReaderStep(r),
         ~(ReaderClaim(r) /\ Exists(read_files))
  PROVE  Quiet /\ faults' = faults
<1> USE DEF Quiet, Claimed, Over, inQ, outQ, Stored
<1>0. FileCnt \in Nat /\ \A f \in File : f \in Nat /\ f < FileCnt
  BY PipelineAssumption DEF PipelineAssumption, File
<1>1. CASE ReaderClaim(r)
  BY <1>0, <1>1, HandsIdle DEF ReaderClaim, Exists, TypeInv, TypeOK
<1>2. CASE ReaderUnclaim(r)
  <2>1. read_files' >= FileCnt /\ read_files >= FileCnt /\ read_files' \in Int
    BY <1>2, UnclaimedFile DEF ReaderUnclaim, TypeInv, TypeOK
  <2> QED
    BY <1>0, <1>2, <2>1, HandsIdle DEF ReaderUnclaim, TypeInv, TypeOK
<1>3. CASE ReaderPush(r)
  <2>1. CASE InQ!Push(r, held[r]) /\ Goto(r, "claim") /\ Drop(r)
    <3>1. held[r] \in File /\ r \in Thread
      BY <1>3 DEF ReaderPush, TypeInv, Hands, Thread
    <3>2. Stored' = Stored \union {held[r]}
      BY <1>3, <2>1, <3>1, InElems DEF ReaderPush, InQ!Push
    <3> QED
      BY <1>3, <2>1, <3>1, <3>2, HandedOver DEF ReaderPush
  <2>2. CASE InQ!PushWait(r, held[r]) /\ UNCHANGED <<pc, held>>
    BY <1>3, <2>2, HandsIdle DEF ReaderPush, InQ!PushWait
  <2> QED
    BY <1>3, <2>1, <2>2 DEF ReaderPush
<1>4. CASE ReaderLoad(r) \/ ReaderBarrier(r) \/ ReaderSignal(r)
  BY <1>4, HandsIdle DEF ReaderLoad, ReaderBarrier, ReaderSignal
<1> QED
  BY <1>1, <1>2, <1>3, <1>4 DEF ReaderStep

LEMMA WorkerQuiet ==
  ASSUME TypeInv, Single, ~Over, NEW w \in Workers, WorkerStep(w)
  PROVE  Quiet /\ faults' = faults
<1> USE DEF Quiet, Claimed, Over, inQ, outQ, Stored
<1>1. CASE WorkerPop(w)
  <2>1. held[w] \notin File /\ w \in Thread
    BY <1>1 DEF WorkerPop, TypeInv, Hands, Thread
  <2>2. /\ Stored' \subseteq Stored /\ Stored = Stored' \union {Head(inItems)}
        /\ Head(inItems) \in File
    BY <1>1, InElems DEF WorkerPop, InQ!Pop
  <2> QED
    BY <1>1, <2>1, <2>2, TakenOver DEF WorkerPop
<1>2. CASE WorkerPopEmpty(w) \/ WorkerTimedOut(w) \/ WorkerProcess(w)
  BY <1>2, HandsIdle DEF WorkerPopEmpty, WorkerTimedOut, WorkerProcess, InQ!PopNothing, InQ!PopWait,
     InQ!TimedOut, InQ!fifo
<1>3. CASE WorkerPush(w)
  <2>1. CASE OutQ!Push(w, held[w]) /\ Goto(w, "pop") /\ Drop(w)
    <3>1. held[w] \in File /\ w \in Thread
      BY <1>3 DEF WorkerPush, TypeInv, Hands, Thread
    <3>2. Stored' = Stored \union {held[w]}
      BY <1>3, <2>1, <3>1, OutElems DEF WorkerPush, OutQ!Push
    <3> QED
      BY <1>3, <2>1, <3>1, <3>2, HandedOver DEF WorkerPush
  <2>2. CASE OutQ!PushWait(w, held[w]) /\ UNCHANGED <<pc, held>>
    BY <1>3, <2>2, HandsIdle DEF WorkerPush, OutQ!PushWait
  <2> QED
    BY <1>3, <2>1, <2>2 DEF WorkerPush
<1> QED
  BY <1>1, <1>2, <1>3 DEF WorkerStep

LEMMA WriterQuiet ==
  ASSUME TypeInv, Single, ~Over, NEW x \in Writers, WriterStep(x), ~WriterWrite(x)
  PROVE  Quiet /\ faults' = faults
<1> USE DEF Quiet, Claimed, Over, inQ, outQ, Stored
<1>1. CASE WriterPop(x)
  <2>1. held[x] \notin File /\ x \in Thread
    BY <1>1 DEF WriterPop, TypeInv, Hands, Thread
  <2>2. /\ Stored' \subseteq Stored /\ Stored = Stored' \union {Head(outItems)}
        /\ Head(outItems) \in File
    BY <1>1, OutElems DEF WriterPop, OutQ!Pop
  <2> QED
    BY <1>1, <2>1, <2>2, TakenOver DEF WriterPop
<1>2. CASE WriterPopEmpty(x) \/ WriterTimedOut(x) \/ WriterCheck(x) \/ WriterCount(x)
  BY <1>2, HandsIdle DEF WriterPopEmpty, WriterTimedOut, WriterCheck, WriterCount, OutQ!PopNothing,
     OutQ!PopWait, OutQ!TimedOut, OutQ!fifo
<1> QED
  BY <1>1, <1>2 DEF WriterStep

(* bmp_img_write: the file stays present and is on disk from now on. *)
LEMMA WriteStep ==
  ASSUME TypeInv, NEW x \in Writers, WriterWrite(x)
  PROVE  /\ held[x] \in File /\ disk' = disk \union {held[x]}
         /\ \A f \in File : Stays(f) /\ (Claimed(f)' <=> Claimed(f))
<1>1. held[x] \in File /\ x \in Thread /\ disk' = disk \union {held[x]}
  BY DEF WriterWrite, TypeInv, Hands, Thread
<1>2. Stored' = Stored \union {held[x]}
  BY <1>1 DEF WriterWrite, Stored, inQ, outQ
<1> QED
  BY <1>1, <1>2, HandedOver DEF WriterWrite, Claimed

LEMMA MainQuiet ==
  ASSUME TypeInv, ~Over, \/ MainCreate \/ MainJoin
                         \/ \E t \in Thread : SpuriousWake(t)
  PROVE  Quiet /\ faults' = faults
<1> USE DEF Quiet, Claimed, Over, inQ, outQ, Stored
<1>1. CASE MainCreate \/ MainJoin
  BY <1>1, HandsIdle DEF MainCreate, MainJoin, Creating, Joining, After
<1>2. CASE \E t \in Thread : SpuriousWake(t)
  BY <1>2, HandsIdle DEF SpuriousWake, InQ!SpuriousWake, OutQ!SpuriousWake
<1> QED
  BY <1>1, <1>2

-----------------------------------------------------------------------------
LEMMA FreeKeeps ==
  ASSUME BatchInv, Reliable, MainFree
  PROVE  disk = File /\ disk' = disk /\ \A f \in File : Present(f)' /\ Present(f)
<1>1. disk = File /\ disk' = disk
  BY AllOnDisk DEF MainFree
<1> QED
  BY <1>1 DEF Present, Stored

LEMMA MissingFinite ==
  IsFiniteSet(File) /\ Missing \subseteq File /\ IsFiniteSet(Missing) /\ Cardinality(Missing) \in Nat
<1>1. IsFiniteSet(File)
  BY PipelineAssumption, FS_Interval DEF PipelineAssumption, File
<1> QED
  BY <1>1, FS_Subset, FS_CardinalityType DEF Missing

(* A step that makes at most one file disappear adds one missing file at   *)
(* most, and one that makes none disappear adds none.                      *)
LEMMA MissingGrows ==
  ASSUME NEW g, Missing' \subseteq Missing \union {g}
  PROVE  Cardinality(Missing') <= Cardinality(Missing) + 1
<1>1. IsFiniteSet(Missing) /\ Cardinality(Missing) \in Nat
  BY MissingFinite
<1> DEFINE more == Missing \union {g}
<1>2. /\ IsFiniteSet(more)
      /\ Cardinality(more) = IF g \in Missing THEN Cardinality(Missing) ELSE Cardinality(Missing) + 1
  BY <1>1, FS_AddElement
<1>3. Cardinality(Missing') <= Cardinality(more) /\ Cardinality(Missing') \in Nat
  BY <1>2, FS_Subset, FS_CardinalityType
<1> HIDE DEF more
<1> QED
  BY <1>1, <1>2, <1>3

LEMMA MissingShrinks ==
  ASSUME Missing' \subseteq Missing
  PROVE  Cardinality(Missing') <= Cardinality(Missing)
  BY MissingFinite, FS_Subset

(* The steps of Faulty: at most the image that a thread held, or took from *)
(* a queue, is missing from then on.                                       *)
LEMMA FaultyMissing ==
  ASSUME TypeInv, Single, Faulty
  PROVE  /\ faults' = faults + 1
         /\ \E g : Missing' \subseteq Missing \union {g}
<1>0. faults' = faults + 1
  BY DEF Faulty, Fail, ReaderExit, ReaderGivesUp, WorkerPopFails, WorkerDiscards, WorkerExit,
     WriterPopFails, WriterDrops, MainCreateFails
<1>1. ASSUME NEW t \in Thread, held[t] \in File, Drop(t), Stored' = Stored, read_files' = read_files
      PROVE  Missing' \subseteq Missing \union {held[t]}
  BY <1>1, Dropped DEF Missing, Claimed
<1>2. ASSUME NEW r \in Readers, ReaderGivesUp(r) PROVE \E g : Missing' \subseteq Missing \union {g}
  <2>1. r \in Thread /\ held[r] \in File
    BY <1>2 DEF ReaderGivesUp, TypeInv, Hands, Thread
  <2>2. Stored' = Stored
    BY <1>2 DEF ReaderGivesUp, Stored, inQ, outQ
  <2> QED
    BY <1>1, <1>2, <2>1, <2>2 DEF ReaderGivesUp
<1>3. ASSUME NEW w \in Workers, WorkerDiscards(w) PROVE \E g : Missing' \subseteq Missing \union {g}
  <2>1. w \in Thread /\ held[w] \in File
    BY <1>3 DEF WorkerDiscards, TypeInv, Hands, Thread
  <2>2. Stored' = Stored
    BY <1>3 DEF WorkerDiscards, Stored, inQ, outQ
  <2> QED
    BY <1>1, <1>3, <2>1, <2>2 DEF WorkerDiscards
<1>4. ASSUME NEW x \in Writers, WriterDrops(x) PROVE \E g : Missing' \subseteq Missing \union {g}
  <2>1. x \in Thread /\ held[x] \in File
    BY <1>4 DEF WriterDrops, TypeInv, Hands, Thread
  <2>2. Stored' = Stored
    BY <1>4 DEF WriterDrops, Stored, inQ, outQ
  <2> QED
    BY <1>1, <1>4, <2>1, <2>2 DEF WriterDrops
<1>5. ASSUME NEW w \in Workers, WorkerPopFails(w) PROVE Missing' \subseteq Missing \union {Head(inItems)}
  <2>1. Stored = Stored' \union {Head(inItems)} /\ held' = held /\ read_files' = read_files
    BY <1>5, InElems DEF WorkerPopFails, InQ!Pop, Stored, outQ
  <2> QED
    BY <2>1 DEF Missing, Claimed, Present, InHands
<1>6. ASSUME NEW x \in Writers, WriterPopFails(x) PROVE Missing' \subseteq Missing \union {Head(outItems)}
  <2>1. Stored = Stored' \union {Head(outItems)} /\ held' = held /\ read_files' = read_files
    BY <1>6, OutElems DEF WriterPopFails, OutQ!Pop, Stored, inQ
  <2> QED
    BY <2>1 DEF Missing, Claimed, Present, InHands
<1>7. ASSUME \/ \E r \in Readers : ReaderExit(r)
             \/ \E w \in Workers : WorkerExit(w)
             \/ MainCreateFails
      PROVE  Missing' = Missing
  <2>1. held' = held /\ Stored' = Stored /\ read_files' = read_files
    BY <1>7 DEF ReaderExit, WorkerExit, MainCreateFails, Stored, inQ, outQ
  <2> QED
    BY <2>1 DEF Missing, Claimed, Present, InHands
<1> QED
  BY <1>0, <1>2, <1>3, <1>4, <1>5, <1>6, <1>7 DEF Faulty

LEMMA KeptStep ==
  ASSUME BatchInv, Kept, [Next]_vars
  PROVE  Kept'
<1> USE DEF BatchInv
<1>0. faults \in Nat /\ Cardinality(Missing) \in Nat /\ Cardinality(Missing') \in Nat
  <2>1. IsFiniteSet(File)
    BY MissingFinite
  <2>2. Missing' \subseteq File
    BY DEF Missing, File
  <2>3. Cardinality(Missing') \in Nat
    <3>1. IsFiniteSet(Missing')
      BY <2>1, <2>2, FS_Subset
    <3> QED
      BY <3>1, FS_CardinalityType
  <2>4. faults \in Nat
    BY DEF TypeInv, TypeOK
  <2> QED
    BY <2>3, <2>4, MissingFinite
<1>1. ASSUME ~Over, faults' = faults, Missing' \subseteq Missing PROVE Kept'
  BY <1>0, <1>1, MissingShrinks DEF Kept, Over
<1>2. ASSUME ~Over, Quiet, faults' = faults PROVE Kept'
  BY <1>1, <1>2 DEF Quiet, Stays, Missing
<1>3. ASSUME ~Over, NEW r \in Readers, ReaderClaim(r), Exists(read_files) PROVE Kept'
  <2>1. faults' = faults
    BY <1>3 DEF ReaderClaim
  <2>2. \A f \in File : f \in Nat /\ (Claimed(f)' => Claimed(f) \/ f = read_files)
    BY <1>3, ClaimedFile, FileFacts DEF Claimed, TypeInv, TypeOK
  <2> QED
    BY <1>1, <1>3, <2>1, <2>2, ClaimedFile DEF Missing
<1>4. ASSUME ~Over, NEW x \in Writers, WriterWrite(x) PROVE Kept'
  BY <1>1, <1>4, WriteStep DEF Stays, WriterWrite, Missing
<1>5. ASSUME ~Over, MainFree PROVE Kept'
  <2>1. faults' = faults /\ main' = "returned"
    BY <1>5 DEF MainFree
  <2>2. CASE faults > 0
    BY <2>1, <2>2 DEF Kept
  <2>3. CASE faults = 0
    BY <1>1, <1>5, <2>1, <2>3, FreeKeeps DEF Reliable, Missing
  <2> QED
    BY <1>0, <2>2, <2>3
<1>6. ASSUME ~Over, Faulty PROVE Kept'
  <2>1. PICK g : Missing' \subseteq Missing \union {g}
    BY <1>6, FaultyMissing
  <2> QED
    BY <1>0, <1>6, <2>1, FaultyMissing, MissingGrows DEF Kept, Over
<1>7. CASE UNCHANGED vars
  <2>1. held' = held /\ Stored' = Stored /\ UNCHANGED <<faults, read_files, main>>
    BY <1>7 DEF vars, Stored, inQ, outQ
  <2>2. Missing' = Missing
    BY <2>1 DEF Missing, Claimed, Present, InHands
  <2> QED
    BY <2>1, <2>2 DEF Kept
<1> QED
  BY <1>2, <1>3, <1>4, <1>5, <1>6, <1>7, ReaderQuiet, WorkerQuiet, WriterQuiet, MainQuiet
     DEF Next, Running, MainStep

LEMMA PlacesPresent ==
  TypeInv => \A f \in File : Places(f) # {} <=> Present(f)
<1> SUFFICES ASSUME TypeInv, NEW f \in File PROVE Places(f) # {} <=> Present(f)
  OBVIOUS
<1>1. DOMAIN inItems = 1 .. Len(inItems) /\ DOMAIN outItems = 1 .. Len(outItems)
  BY DEF TypeInv, TypeOK
<1>2. /\ f \in Elems(inItems) <=> \E i \in DOMAIN inItems : inItems[i] = f
      /\ f \in Elems(outItems) <=> \E i \in DOMAIN outItems : outItems[i] = f
  BY <1>1 DEF Elems
<1> QED
  BY <1>2 DEF Places, Present, InHands, Stored

(* Whatever the interleaving, no more claimed images have disappeared than *)
(* calls have failed: neither the barrier, nor the termination checks, nor *)
(* a full queue loses one.  Once a call has failed, and then only, main    *)
(* may free the queues with images in them.                                *)
THEOREM NoImageDisappears == Spec => []NothingLost
<1>1. Init => Kept
  <2> SUFFICES ASSUME Init PROVE Cardinality(Missing) <= faults
    BY DEF Kept
  <2>1. \A f \in File : ~Claimed(f)
    BY FileFacts DEF Init, Claimed
  <2>2. Missing = {} /\ faults = 0
    BY <2>1 DEF Init, Missing
  <2> QED
    BY <2>2, FS_EmptySet
<1>2. BatchInv /\ Kept /\ [Next]_vars => Kept'
  BY KeptStep
<1>3. TypeInv /\ Kept => NothingLost
  <2> SUFFICES ASSUME TypeInv, Kept PROVE NothingLost
    OBVIOUS
  <2>1. Missing = {f \in File : Lost(f)}
    BY PlacesPresent DEF Missing, Lost
  <2> QED
    BY <2>1 DEF Kept, NothingLost
<1> QED
  BY <1>1, <1>2, <1>3, SpecBatchInv, PTL DEF Spec, BatchInv

-----------------------------------------------------------------------------
(* The batch: the stage of a file, by its presence. *)
Phase(f) ==
  IF f \in disk THEN "done"
  ELSE IF Present(f) THEN "open"
  ELSE IF Claimed(f) THEN "lost" ELSE "todo"

StageMap == [f \in File |-> Stage(f)]
PhaseMap == [f \in File |-> Phase(f)]

LEMMA StageByPresence == TypeInv => StageMap = PhaseMap
<1> SUFFICES ASSUME TypeInv, NEW f \in File PROVE Stage(f) = Phase(f)
  BY DEF StageMap, PhaseMap
<1>1. Places(f) # {} <=> Present(f)
  BY PlacesPresent
<1>2. f \in disk => Present(f)
  BY DEF Present, Stored
<1> QED
  BY <1>1, <1>2 DEF Stage, Phase, Lost

LEMMA BatchFile == Batch!File = File
  BY DEF Batch!File, File

(* One file changes its stage, and main goes on. *)
LEMMA BatchMove ==
  ASSUME TypeInv, TypeInv', ~Over, main' \notin {"returned", "exit"},
         NEW f \in File, NEW from, NEW to, Phase(f) = from, Phase(f)' = to,
         \A g \in File \ {f} : Phase(g)' = Phase(g)
  PROVE  Batch!Move(f, from, to)
<1>1. StageMap = PhaseMap /\ (StageMap = PhaseMap)'
  BY StageByPresence, PTL
<1>2. PhaseMap[f] = from /\ PhaseMap' = [PhaseMap EXCEPT ![f] = to]
  BY DEF PhaseMap
<1>3. Outcome = "running" /\ Outcome' = "running"
  BY DEF Over, Outcome
<1> QED
  BY <1>1, <1>2, <1>3 DEF Batch!Move, StageMap

(* No file changes its stage. *)
LEMMA BatchStages ==
  ASSUME TypeInv, TypeInv', \A f \in File : Phase(f)' = Phase(f)
  PROVE  StageMap' = StageMap
<1>1. StageMap = PhaseMap /\ (StageMap = PhaseMap)'
  BY StageByPresence, PTL
<1> QED
  BY <1>1 DEF PhaseMap

LEMMA BatchQuiet ==
  ASSUME TypeInv, TypeInv', ~Over, Quiet
  PROVE  UNCHANGED Batch!batch
<1>1. StageMap' = StageMap
  BY BatchStages DEF Phase, Quiet, Stays
<1>2. Outcome' = Outcome
  BY DEF Over, Quiet, Outcome
<1> QED
  BY <1>1, <1>2 DEF Batch!batch, StageMap

(* A reader claims the next file: all before it were claimed. *)
LEMMA BatchClaim ==
  ASSUME TypeInv, TypeInv', Single, ~Over, NEW r \in Readers, ReaderClaim(r), Exists(read_files)
  PROVE  Batch!Next
<1>1. PICK f \in File : f = read_files
  BY ClaimedFile
<1>2. /\ f \in Nat /\ ~Present(f) /\ ~Claimed(f) /\ f \notin disk
      /\ Claimed(f)' /\ f \notin disk' /\ main' = main
  BY <1>1, Numbers, ClaimedFile DEF Single, Present, InHands, Claimed, Stored, ReaderClaim
<1>3. Present(f)' /\ \A g \in File \ {f} : Stays(g) /\ (Claimed(g)' <=> Claimed(g))
  <2>1. \A g \in File : g \in Nat
    BY FileFacts
  <2> QED
    BY <1>1, <2>1, ClaimedFile DEF Stays, Claimed
<1>4. Phase(f) = "todo" /\ Phase(f)' = "open"
  BY <1>2, <1>3 DEF Phase
<1>5. \A g \in File \ {f} : Phase(g)' = Phase(g)
  BY <1>3 DEF Phase, Stays, ReaderClaim
<1>6. Batch!Move(f, "todo", "open")
  BY <1>2, <1>4, <1>5, BatchMove DEF Over
<1>7. \A g \in 0 .. f - 1 : StageMap[g] # "todo"
  <2>1. \A g \in 0 .. f - 1 : g \in File /\ Claimed(g)
    BY <1>1, <1>2, PipelineAssumption DEF File, Claimed, PipelineAssumption
  <2>2. \A g \in 0 .. f - 1 : PhaseMap[g] # "todo"
    BY <2>1 DEF PhaseMap, Phase
  <2> QED
    BY <2>2, StageByPresence
<1> QED
  BY <1>6, <1>7, BatchFile DEF Batch!Next, Batch!Claim, StageMap

(* The image is written: its file is done. *)
LEMMA BatchFinish ==
  ASSUME TypeInv, TypeInv', Single, ~Over, NEW x \in Writers, WriterWrite(x)
  PROVE  Batch!Next
<1>1. PICK f \in File : f = held[x]
  BY WriteStep
<1>2. Present(f) /\ f \notin disk /\ main' = main /\ x \in Thread
  BY <1>1, WriteSingle DEF Present, InHands, WriterWrite, Thread
<1>3. Phase(f) = "open" /\ Phase(f)' = "done"
  BY <1>1, <1>2, WriteStep DEF Phase
<1>4. \A g \in File \ {f} : Phase(g)' = Phase(g)
  BY <1>1, WriteStep DEF Phase, Stays
<1>5. Batch!Move(f, "open", "done")
  BY <1>2, <1>3, <1>4, BatchMove DEF Over
<1> QED
  BY <1>5, BatchFile DEF Batch!Next, Batch!Finish

(* A thread discards the image in its hands: its file is lost. *)
LEMMA BatchLose ==
  ASSUME TypeInv, TypeInv', Single, ~Over, NEW t \in Thread, held[t] \in File, Drop(t),
         UNCHANGED <<read_files, inItems, outItems, disk, main>>
  PROVE  Batch!Next
<1>1. PICK f \in File : f = held[t]
  OBVIOUS
<1>2. \A g \in File : Present(g)' <=> Present(g) /\ g # f
  <2>1. Stored' = Stored
    BY DEF Stored
  <2> QED
    BY <1>1, <2>1, Dropped
<1>3. Present(f) /\ f \notin disk /\ Claimed(f)
  BY <1>1 DEF Present, InHands, Single, Claimed, Stored
<1>4. Phase(f) = "open" /\ Phase(f)' = "lost"
  BY <1>2, <1>3 DEF Phase, Claimed
<1>5. \A g \in File \ {f} : Phase(g)' = Phase(g)
  BY <1>2 DEF Phase, Claimed
<1>6. Batch!Move(f, "open", "lost")
  BY <1>4, <1>5, BatchMove DEF Over
<1> QED
  BY <1>6, BatchFile DEF Batch!Next, Batch!Lose

(* main frees the queues and returns: every file is done. *)
LEMMA BatchReturn ==
  ASSUME BatchInv, TypeInv', Reliable, ~Over, MainFree
  PROVE  Batch!Next
<1>1. disk = File /\ disk' = disk
  BY FreeKeeps
<1>2. StageMap' = StageMap
  BY <1>1, BatchStages DEF Phase, BatchInv
<1>3. \A f \in File : StageMap[f] = "done"
  BY <1>1, StageByPresence DEF PhaseMap, Phase, BatchInv
<1>4. Outcome = "running" /\ Outcome' = "returned"
  BY DEF MainFree, Outcome
<1> QED
  BY <1>2, <1>3, <1>4, BatchFile DEF Batch!Next, Batch!Return, Batch!End, StageMap

(* Somebody calls exit: no file changes its stage. *)
LEMMA BatchExit ==
  ASSUME TypeInv, TypeInv', ~Over, main' = "exit",
         UNCHANGED <<read_files, inItems, outItems, held, disk>>
  PROVE  Batch!Next
<1>1. Stored' = Stored
  BY DEF Stored
<1>2. StageMap' = StageMap
  BY <1>1, HandsIdle, BatchStages DEF Phase, Stays, Claimed
<1>3. Outcome = "running" /\ Outcome' = "exit"
  BY DEF Over, Outcome
<1> QED
  BY <1>2, <1>3 DEF Batch!Next, Batch!Exit, Batch!End, StageMap

(* Every step of the pipeline is a step of the batch, or none. *)
LEMMA BatchStep ==
  ASSUME "strdup" \notin Faults, "create" \notin Faults,
         BatchInv, TypeInv', [Next]_vars
  PROVE  [Batch!Next]_(Batch!batch)
<1> USE DEF BatchInv
<1>1. CASE UNCHANGED vars
  <2>1. \A f \in File : Phase(f)' = Phase(f)
    <3>1. Stored' = Stored /\ UNCHANGED <<read_files, disk, held>>
      BY <1>1 DEF vars, Stored, inQ, outQ
    <3> QED
      BY <3>1, HandsIdle DEF Phase, Stays, Claimed
  <2>2. StageMap' = StageMap /\ Outcome' = Outcome
    BY <1>1, <2>1, BatchStages DEF vars, Outcome
  <2> QED
    BY <2>2 DEF Batch!batch, StageMap
<1>2. ASSUME ~Over, NEW r \in Readers, ReaderStep(r)
      PROVE  [Batch!Next]_(Batch!batch)
  BY <1>2, ReaderQuiet, BatchQuiet, BatchClaim
<1>3. ASSUME ~Over, NEW w \in Workers, WorkerStep(w)
      PROVE  [Batch!Next]_(Batch!batch)
  BY <1>3, WorkerQuiet, BatchQuiet
<1>4. ASSUME ~Over, NEW x \in Writers, WriterStep(x)
      PROVE  [Batch!Next]_(Batch!batch)
  BY <1>4, WriterQuiet, BatchQuiet, BatchFinish
<1>5. CASE ~Over /\ (MainStep \/ \E t \in Thread : SpuriousWake(t))
  BY <1>5, MainQuiet, BatchQuiet, BatchReturn DEF MainStep, Reliable
<1>6. ASSUME ~Over, Faulty
      PROVE  [Batch!Next]_(Batch!batch)
  <2>1. ASSUME NEW r \in Readers, ReaderExit(r) PROVE Batch!Next
    BY <1>6, <2>1, BatchExit DEF ReaderExit, inQ, outQ
  <2>2. ASSUME NEW w \in Workers, WorkerExit(w) PROVE Batch!Next
    BY <1>6, <2>2, BatchExit DEF WorkerExit, inQ, outQ
  <2>3. ASSUME NEW r \in Readers, ReaderGivesUp(r) PROVE Batch!Next
    <3>1. r \in Thread /\ held[r] \in File
      BY <2>3 DEF ReaderGivesUp, TypeInv, Hands, Thread
    <3> QED
      BY <1>6, <2>3, <3>1, BatchLose DEF ReaderGivesUp, inQ, outQ
  <2>4. ASSUME NEW w \in Workers, WorkerDiscards(w) PROVE Batch!Next
    <3>1. w \in Thread /\ held[w] \in File
      BY <2>4 DEF WorkerDiscards, TypeInv, Hands, Thread
    <3> QED
      BY <1>6, <2>4, <3>1, BatchLose DEF WorkerDiscards, inQ, outQ
  <2>5. ASSUME NEW x \in Writers, WriterDrops(x) PROVE Batch!Next
    <3>1. x \in Thread /\ held[x] \in File
      BY <2>5 DEF WriterDrops, TypeInv, Hands, Thread
    <3> QED
      BY <1>6, <2>5, <3>1, BatchLose DEF WriterDrops, inQ, outQ
  <2> QED
    BY <1>6, <2>1, <2>2, <2>3, <2>4, <2>5
       DEF Faulty, WorkerPopFails, WriterPopFails, MainCreateFails, Fail
<1> QED
  BY <1>1, <1>2, <1>3, <1>4, <1>5, <1>6 DEF Next, Running

(* The pipeline is a batch, unless queue_pop runs out of memory or         *)
(* pthread_create fails: files are claimed in the order of the command     *)
(* line, each is written at most once, and main returns only when every    *)
(* one of them is on disk.                                                 *)
THEOREM BatchRefinement ==
  ASSUME "strdup" \notin Faults, "create" \notin Faults
  PROVE  Spec => ImplementsBatch
<1>1. ASSUME Init PROVE Batch!Init
  <2>1. TypeInv /\ disk = {} /\ read_files = 0 /\ Stored = {}
    BY <1>1, InitTypes DEF Init, Stored, Elems, InQ!Init, OutQ!Init
  <2>2. \A f \in File : Phase(f) = "todo"
    BY <1>1, <2>1, FileFacts DEF Init, Phase, Present, InHands, Claimed
  <2>3. StageMap = [f \in File |-> "todo"]
    BY <2>1, <2>2, StageByPresence DEF PhaseMap
  <2>4. Outcome = "running"
    BY <1>1 DEF Init, Outcome
  <2> QED
    BY <2>3, <2>4, BatchFile DEF Batch!Init, StageMap
<1>2. BatchInv /\ TypeInv' /\ [Next]_vars => [Batch!Next]_(Batch!batch)
  BY BatchStep
<1> QED
  BY <1>1, <1>2, SpecBatchInv, SpecTypes, PTL DEF Spec, Batch!Spec, ImplementsBatch
=============================================================================
