---------------------------- MODULE ProgramProofs ----------------------------
(***************************************************************************)
(* Theorems about a process from main to its exit, for every command line, *)
(* every input file and any number of failing calls: what it gives to the  *)
(* computations, what it crashes of, what it leaves behind and what it     *)
(* writes to the log.                                                      *)
(*                                                                         *)
(* Then, from the bytes of the input file to those of the output: what is  *)
(* read is the picture, what is computed of it is the filter's result at   *)
(* every pixel, and what is written shows that.                            *)
(***************************************************************************)
EXTENDS Program, KernelsProofs, SequenceTheorems

-----------------------------------------------------------------------------
(* The inductive invariant: what the place in main says of the arguments,  *)
(* of what is allocated, of MPI and of the time.                           *)
Parsing == {"filters", "noFilters", "create", "noBackend"}
Running == {"show", "run", "gpu", "mpi", "compute", "save", "release", "finish", "destroy"}

Understood ==
  /\ pc \in Parsing => Accepted(asked) /\ args = Parsed(asked)
  /\ pc \in Running => Accepted(asked) /\ Verifies(Parsed(asked)) /\ args = Verified(Parsed(asked))
  /\ pc \in {"gpu", "mpi", "compute", "save"} => ~args.queue
  /\ pc = "gpu" => args.backend = "gpu"
  /\ pc = "mpi" => args.mpi /\ world.size > 1 /\ args.backend = "cpu"

Base == {"args", "names", "filters"}
Kept == Base \union BackendObjects

Owned ==
  /\ pc = "parse" => owned = {"args"}
  /\ pc = "filters" => owned = {"args", "names"}
  /\ pc = "noFilters" => owned = {"names"} /\ "memory" \in faults
  /\ pc \in {"create", "noBackend", "exit"} => owned = Base
  /\ pc \in {"show", "run", "destroy"} => owned = Kept
  /\ pc \in {"gpu", "mpi", "compute", "save"} => owned = Kept \union {"spec"}
  /\ pc = "release" => owned = Kept \/ owned = Kept \union {"spec"}
  /\ pc = "finish" => owned = Kept \/ (args.backend = "gpu" /\ ~world.opencl /\ "backend" \notin owned)
  /\ pc = "done" => owned = {}

InMpi ==
  /\ pc \in Parsing \union {"parse"} => mpi = "out"
  /\ pc \in Running => mpi = IF args.backend = "cpu" /\ args.mpi THEN "in" ELSE "out"
  /\ pc \in {"exit", "done"} => mpi \in {"out", "done"}

(* A time has been measured of an image that is on disk, or would be; the  *)
(* other processes of a job leave the writing to rank 0.                   *)
Measured ==
  /\ pc \in Parsing \union {"parse", "show", "run", "gpu", "mpi", "compute"} => time = "none"
  /\ pc \in {"release", "finish"} /\ time = "some" =>
       args.queue \/ saved # None \/ "write" \in faults \/ (mpi = "in" /\ world.rank # 0)

Logged == logged # None => pc \in {"destroy", "exit", "done"}

Control == case \in Cases /\ Understood /\ Owned /\ InMpi /\ Measured /\ Logged

-----------------------------------------------------------------------------
(* What the arguments become.                                              *)
LEMMA ParsedArguments ==
  ASSUME NEW a
  PROVE  /\ Parsed(a).backend = a.backend /\ Parsed(a).queue = a.queue /\ Parsed(a).mpi = a.mpi
         /\ Parsed(a).filter = a.filter
         /\ Parsed(a).mode = IF a.mode = NotGiven THEN -1 ELSE ModeNumber[a.mode]
         /\ Parsed(a).block = Word8(Given(a.block, 0))
         /\ Parsed(a).byte = IF a.queue THEN Word8(a.rww[3]) ELSE Word8(Given(a.threadnum, 0))
         /\ Parsed(a).readers = IF a.queue THEN a.rww[1] ELSE 0
         /\ Parsed(a).workers = IF a.queue THEN a.rww[2] ELSE 0
         /\ Parsed(a).files = a.files /\ Parsed(a).log = a.log
  BY DEF Parsed, Default

LEMMA VerifiedArguments ==
  ASSUME NEW a, NEW v, v = Verified(Parsed(a))
  PROVE  /\ v.backend = a.backend /\ v.queue = a.queue /\ v.mpi = a.mpi /\ v.filter = a.filter
         /\ v.mode = IF Parsed(a).mode < 1 THEN ModeNumber.by_row ELSE Parsed(a).mode
         /\ v.block = Word8(Given(a.block, 0))
         /\ v.byte = IF a.queue THEN Word8(a.rww[3]) ELSE Word8(Given(a.threadnum, 0))
         /\ v.readers = Parsed(a).readers /\ v.workers = Parsed(a).workers
         /\ v.files = a.files /\ v.log = a.log
  BY DEF Verified, Parsed, Default

LEMMA ControlInit == Init => Control
  BY DEF Init, Control, Understood, Owned, InMpi, Measured, Logged, Parsing, Running

(* What a step leaves alone.                                               *)
Same == UNCHANGED <<case, args>>

LEMMA SameWorld ==
  ASSUME Same
  PROVE  /\ asked' = asked /\ world' = world /\ args' = args /\ BackendObjects' = BackendObjects /\ Kept' = Kept
  BY DEF Same, asked, world, BackendObjects, Kept

LEMMA UnderstoodNext == ASSUME Control, [Next]_vars PROVE Understood' /\ case' \in Cases
<1> USE DEF Control, Understood, Parsing, Running
<1>1. CASE Parse
  BY <1>1 DEF Parse, Frees, Goto, asked
<1>2. CASE ParseSearchesTooFar \/ ParseWithoutNames \/ SetupFilters \/ SetupFiltersFails \/ GiveUp
  BY <1>2 DEF ParseSearchesTooFar, ParseWithoutNames, SetupFilters, SetupFiltersFails, GiveUp, Frees, Goto, asked
<1>3. CASE CreateBackend
  <2>1. CASE Verifies(args)
    <3>1. args' = Verified(args) /\ pc' = "show" /\ case' = case /\ pc = "create"
      BY <1>3, <2>1 DEF CreateBackend, Goto
    <3> QED
      BY <2>1, <3>1 DEF asked
  <2>2. CASE ~Verifies(args)
    BY <1>3, <2>2 DEF CreateBackend, Goto, asked
  <2> QED
    BY <2>1, <2>2
<1>4. CASE CreateBackendFails \/ Show
  BY <1>4 DEF CreateBackendFails, Show, Goto, asked
<1>5. CASE RunQueue
  BY <1>5 DEF RunQueue, Goto, asked
<1>6. CASE SetupImage
  <2>1. asked.backend \in {"cpu", "gpu"} /\ pc = "run" /\ Same /\ ~args.queue
    BY <1>6, ProgramAssumption DEF SetupImage, asked, Same
  <2>2. args.backend \in {"cpu", "gpu"}
    BY <2>1, VerifiedArguments
  <2>3. /\ pc' \in {"crashed", "release", "gpu", "mpi", "compute"}
        /\ pc' = "gpu" => args.backend = "gpu"
        /\ pc' = "mpi" => args.backend # "gpu" /\ args.mpi /\ world.size > 1
    BY <1>6 DEF SetupImage, Goto
  <2> QED
    BY <2>1, <2>2, <2>3, SameWorld DEF Same
<1>7. CASE SetupImageFails \/ Save \/ Release
  BY <1>7 DEF SetupImageFails, Save, Release, Frees, Goto, asked
<1>8. CASE RunMpi
  BY <1>8 DEF RunMpi, Goto, asked
<1>9. CASE Compute
  <2>1. Same /\ pc = "compute" /\ pc' \in {"crashed", "waits", "save", "release"}
    BY <1>9 DEF Compute, Goto, Same
  <2> QED
    BY <2>1, SameWorld DEF Same
<1>10. CASE ComputeOnGpu
  <2>1. Same /\ pc = "gpu" /\ pc' \in {"crashed", "finish", "save", "release"}
    BY <1>10 DEF ComputeOnGpu, OpenCL, Frees, Goto, Same
  <2> QED
    BY <2>1, SameWorld DEF Same
<1>11. CASE Finish \/ Destroy \/ Exit
  BY <1>11 DEF Finish, Destroy, Exit, Frees, Goto, asked
<1>12. CASE UNCHANGED vars
  BY <1>12 DEF vars, asked, world
<1> QED
  BY <1>1, <1>2, <1>3, <1>4, <1>5, <1>6, <1>7, <1>8, <1>9, <1>10, <1>11, <1>12 DEF Next, Step, Terminated

(* Nothing is freed that is not there, but where it is known.              *)
LEMMA OwnedNext == ASSUME Control, [Next]_vars PROVE Owned'
<1> USE DEF Control, Owned
<1>1. CASE Parse \/ ParseSearchesTooFar \/ ParseWithoutNames
  BY <1>1 DEF Parse, ParseSearchesTooFar, ParseWithoutNames, Frees, Goto
<1>2. CASE SetupFilters
  BY <1>2 DEF SetupFilters, Goto, Base
<1>3. CASE SetupFiltersFails
  <2>1. faults' = faults \union {"memory"} /\ pc = "filters"
    BY <1>3 DEF SetupFiltersFails, Fault
  <2> QED
    BY <1>3, <2>1 DEF SetupFiltersFails, Frees, Goto
<1>4. CASE GiveUp \/ CreateBackendFails
  BY <1>4 DEF GiveUp, CreateBackendFails, Frees, Goto
<1>5. CASE CreateBackend
  <2>1. CASE Verifies(args)
    <3>1. pc' = "show" /\ owned' = Base \union BackendObjects /\ args.backend = args'.backend
      <4>1. args = Parsed(asked)
        BY <1>5 DEF CreateBackend, Understood, Parsing
      <4>2. args' = Verified(Parsed(asked))
        BY <1>5, <2>1, <4>1 DEF CreateBackend
      <4>3. args'.backend = asked.backend
        BY <4>2, VerifiedArguments
      <4>4. args.backend = asked.backend
        BY <4>1, ParsedArguments
      <4> QED
        BY <1>5, <2>1, <4>3, <4>4, ZenonT(60) DEF CreateBackend, Goto
    <3>2. owned' = Kept'
      BY <3>1 DEF Kept, BackendObjects
    <3> QED
      BY <3>1, <3>2
  <2>2. CASE ~Verifies(args)
    BY <1>5, <2>2 DEF CreateBackend, Goto
  <2> QED
    BY <2>1, <2>2
<1>6. ASSUME Same, Show \/ RunQueue PROVE Owned'
  <2>1. Kept' = Kept /\ args' = args /\ world' = world
    BY <1>6, SameWorld
  <2>2. owned' = owned /\ pc \in {"show", "run"} /\ pc' \in {"run", "crashed", "waits", "finish", "failed"}
    BY <1>6 DEF Show, RunQueue, Goto
  <2>3. pc = "show" => pc' # "finish"
    BY <1>6 DEF Show, RunQueue, Goto
  <2> QED
    BY <2>1, <2>2, <2>3
<1>7. ASSUME Same, SetupImage \/ SetupImageFails PROVE Owned'
  <2>1. Kept' = Kept /\ pc = "run"
    BY <1>7, SameWorld DEF SetupImage, SetupImageFails
  <2>2. \/ pc' \in {"crashed", "release"} /\ owned' = owned
        \/ pc' \in {"gpu", "mpi", "compute"} /\ owned' = owned \union {"spec"}
    BY <1>7 DEF SetupImage, SetupImageFails, Goto
  <2> QED
    BY <2>1, <2>2
<1>8. ASSUME Same, RunMpi \/ Compute \/ Save PROVE Owned'
  <2>1. Kept' = Kept /\ pc \in {"mpi", "compute", "save"} /\ owned' = owned
    BY <1>8, SameWorld DEF RunMpi, Compute, Save
  <2>2. pc' \in {"compute", "save", "release", "failed", "crashed", "waits"}
    BY <1>8 DEF RunMpi, Compute, Save, Goto
  <2> QED
    BY <2>1, <2>2
<1>9. ASSUME Same, ComputeOnGpu PROVE Owned'
  <2>1. /\ Kept' = Kept /\ args' = args /\ world' = world /\ pc = "gpu" /\ owned = Kept \union {"spec"}
        /\ args.backend = "gpu"
    BY <1>9, SameWorld DEF ComputeOnGpu, Understood
  <2>2. CASE world.opencl
    <3>1. owned' = owned /\ pc' \in {"save", "release"}
      BY <1>9, <2>2 DEF ComputeOnGpu, OpenCL, Goto
    <3> QED
      BY <2>1, <3>1
  <2>3. CASE ~world.opencl
    <3>1. pc' \in {"finish", "crashed"} /\ (pc' = "finish" => "backend" \notin owned')
      BY <1>9, <2>3 DEF ComputeOnGpu, Frees, Goto
    <3> QED
      BY <2>1, <2>3, <3>1
  <2> QED
    BY <2>2, <2>3
<1>10. ASSUME Same, Release PROVE Owned'
  <2>1. Kept' = Kept /\ pc = "release" /\ "spec" \notin Kept
    BY <1>10, SameWorld DEF Release, Kept, Base, BackendObjects
  <2>2. pc' = "finish" /\ owned' = owned \ {"spec"}
    BY <1>10 DEF Release, Frees, Goto
  <2>3. owned' = Kept
    BY <2>1, <2>2
  <2> QED
    BY <2>1, <2>2, <2>3
<1>11. ASSUME Same, Finish PROVE Owned'
  <2>1. Kept' = Kept /\ pc = "finish" /\ owned' = owned
    BY <1>11, SameWorld DEF Finish
  <2>2. pc' \in {"destroy", "crashed"} /\ (pc' = "destroy" => "backend" \in owned)
    BY <1>11 DEF Finish, Goto
  <2> QED
    BY <2>1, <2>2
<1>12. ASSUME Same, Destroy PROVE Owned'
  <2>1. pc = "destroy" /\ BackendObjects \subseteq owned
    BY <1>12 DEF Destroy, Kept
  <2>2. pc' = "exit" /\ owned' = owned \ BackendObjects
    BY <1>12, <2>1 DEF Destroy, Frees, Goto
  <2>3. owned' = Base
    BY <2>1, <2>2 DEF Kept, Base, BackendObjects
  <2> QED
    BY <2>2, <2>3
<1>13. ASSUME Same, Exit PROVE Owned'
  BY <1>13 DEF Exit, Frees, Goto, Base
<1>14. ASSUME UNCHANGED vars PROVE Owned'
  <2>1. pc' = pc /\ owned' = owned /\ faults' = faults /\ Same
    BY <1>14 DEF vars, Same
  <2> QED
    BY <2>1, SameWorld
<1>15. Show \/ RunQueue \/ SetupImage \/ SetupImageFails \/ RunMpi \/ Compute \/ ComputeOnGpu \/ Save \/ Release
         \/ Finish \/ Destroy \/ Exit => Same
  BY DEF Show, RunQueue, SetupImage, SetupImageFails, RunMpi, Compute, ComputeOnGpu, Save, Release, Finish,
     Destroy, Exit, Same
<1> HIDE DEF Control, Owned
<1> QED
  BY <1>1, <1>2, <1>3, <1>4, <1>5, <1>6, <1>7, <1>8, <1>9, <1>10, <1>11, <1>12, <1>13, <1>14, <1>15
     DEF Next, Step, Terminated

LEMMA InMpiNext == ASSUME Control, [Next]_vars PROVE InMpi'
<1> USE DEF Control, InMpi, Parsing, Running
<1>1. CASE Parse \/ ParseSearchesTooFar \/ ParseWithoutNames
  BY <1>1 DEF Parse, ParseSearchesTooFar, ParseWithoutNames, Frees, Goto
<1>2. CASE SetupFilters \/ SetupFiltersFails \/ GiveUp \/ CreateBackendFails
  BY <1>2 DEF SetupFilters, SetupFiltersFails, GiveUp, CreateBackendFails, Frees, Goto
<1>3. CASE CreateBackend
  <2>1. CASE Verifies(args)
    <3>1. args = Parsed(asked) /\ args' = Verified(Parsed(asked))
      BY <1>3, <2>1 DEF CreateBackend, Understood
    <3>a. args.backend = asked.backend /\ args.mpi = asked.mpi
      BY <3>1, ParsedArguments
    <3>b. args'.backend = asked.backend /\ args'.mpi = asked.mpi
      BY <3>1, VerifiedArguments
    <3>2. args'.backend = args.backend /\ args'.mpi = args.mpi
      BY <3>a, <3>b
    <3>3. pc' = "show" /\ mpi' = (IF args.backend = "cpu" /\ args.mpi THEN "in" ELSE mpi) /\ mpi = "out"
      BY <1>3, <2>1 DEF CreateBackend, Goto
    <3> QED
      BY <3>2, <3>3
  <2>2. CASE ~Verifies(args)
    BY <1>3, <2>2 DEF CreateBackend, Goto
  <2> QED
    BY <2>1, <2>2
<1>4. ASSUME Show \/ RunQueue \/ SetupImage \/ SetupImageFails \/ RunMpi \/ Save \/ Release \/ Finish
      PROVE  /\ mpi' = mpi /\ args' = args /\ pc \in Running
             /\ pc' \in Running \union {"crashed", "waits", "failed"}
  BY <1>4 DEF Show, RunQueue, SetupImage, SetupImageFails, RunMpi, Save, Release, Finish, Frees, Goto
<1>5. ASSUME Compute \/ ComputeOnGpu
      PROVE  /\ mpi' = mpi /\ args' = args /\ pc \in Running
             /\ pc' \in Running \union {"crashed", "waits", "failed"}
  BY <1>5 DEF Compute, ComputeOnGpu, OpenCL, Frees, Goto
<1>6. CASE Destroy
  BY <1>6 DEF Destroy, Frees, Goto
<1>7. CASE Exit
  BY <1>7 DEF Exit, Frees, Goto
<1>8. CASE UNCHANGED vars
  BY <1>8 DEF vars
<1>9. ASSUME mpi' = mpi, args' = args, pc \in Running, pc' \in Running \union {"crashed", "waits", "failed"}
      PROVE  InMpi'
  BY <1>9
<1> HIDE DEF Control, InMpi, Parsing, Running
<1> QED
  BY <1>1, <1>2, <1>3, <1>4, <1>5, <1>6, <1>7, <1>8, <1>9 DEF Next, Step, Terminated

LEMMA WritesAFile == ASSUME NEW h, NEW w, NEW img PROVE bmp_img_write(h, w, img) # None
<1> DEFINE file == bmp_img_write(h, w, img)
<1>1. DOMAIN file = {"h", "w", "bytes"}
  BY DEF bmp_img_write
<1>2. DOMAIN None = {}
  BY DEF None
<1> QED
  BY <1>1, <1>2

LEMMA MeasuredNext == ASSUME Control, [Next]_vars PROVE Measured'
<1> USE DEF Control, Measured, Parsing
<1>1. CASE Parse \/ ParseSearchesTooFar \/ ParseWithoutNames
  BY <1>1 DEF Parse, ParseSearchesTooFar, ParseWithoutNames, Frees, Goto
<1>2. CASE SetupFilters \/ SetupFiltersFails \/ GiveUp \/ CreateBackend \/ CreateBackendFails
  BY <1>2 DEF SetupFilters, SetupFiltersFails, GiveUp, CreateBackend, CreateBackendFails, Frees, Goto
<1>3. CASE Show
  BY <1>3 DEF Show, Goto
<1>4. CASE RunQueue
  <2>1. pc' \in {"waits", "finish", "crashed", "failed"} /\ args' = args /\ args.queue
    BY <1>4 DEF RunQueue, Goto
  <2> QED
    BY <2>1
<1>5. CASE SetupImage \/ SetupImageFails
  <2>1. pc = "run" /\ time' = time /\ pc' \in {"crashed", "release", "gpu", "mpi", "compute"}
    BY <1>5 DEF SetupImage, SetupImageFails, Goto
  <2> QED
    BY <2>1
<1>6. CASE RunMpi
  <2>1. mpi = "in" /\ mpi' = mpi /\ world' = world
    BY <1>6 DEF RunMpi, Understood, InMpi, Running, world
  <2>2. ASSUME time' = "some", pc' = "release" PROVE world.rank # 0 \/ saved' # None \/ "write" \in faults'
    BY <1>6, <2>2, WritesAFile DEF RunMpi, Goto, Fault
  <2>3. /\ pc' \in {"release", "compute", "failed", "crashed"}
        /\ pc' = "compute" => time' = time /\ time = "none"
    BY <1>6 DEF RunMpi, Goto
  <2> QED
    BY <2>1, <2>2, <2>3
<1>7. CASE Compute
  <2>1. pc' \in {"crashed", "waits", "save", "release"} /\ (pc' = "release" => time' = time) /\ time = "none"
    BY <1>7 DEF Compute, Goto
  <2> QED
    BY <2>1
<1>8. CASE ComputeOnGpu
  <2>1. /\ pc' \in {"crashed", "finish", "save", "release"} /\ time = "none"
        /\ pc' \in {"finish", "release"} => time' = time
    BY <1>8 DEF ComputeOnGpu, OpenCL, Frees, Goto
  <2> QED
    BY <2>1
<1>9. CASE Save
  <2>1. pc' = "release" /\ (saved' # None \/ "write" \in faults')
    BY <1>9, WritesAFile DEF Save, Goto, Fault
  <2> QED
    BY <2>1
<1>10. CASE Release
  BY <1>10 DEF Release, Frees, Goto, world
<1>11. CASE Finish \/ Destroy \/ Exit
  BY <1>11 DEF Finish, Destroy, Exit, Frees, Goto
<1>12. CASE UNCHANGED vars
  BY <1>12 DEF vars, world
<1> HIDE DEF Control, Measured, Parsing
<1> QED
  BY <1>1, <1>2, <1>3, <1>4, <1>5, <1>6, <1>7, <1>8, <1>9, <1>10, <1>11, <1>12 DEF Next, Step, Terminated

LEMMA LoggedNext == ASSUME Control, [Next]_vars PROVE Logged'
<1> USE DEF Control, Logged
<1>1. CASE Parse \/ ParseSearchesTooFar \/ ParseWithoutNames \/ SetupFilters \/ SetupFiltersFails \/ GiveUp
        \/ CreateBackend \/ CreateBackendFails \/ Show
  BY <1>1 DEF Parse, ParseSearchesTooFar, ParseWithoutNames, SetupFilters, SetupFiltersFails, GiveUp,
     CreateBackend, CreateBackendFails, Show
<1>2. CASE RunQueue \/ SetupImage \/ SetupImageFails \/ RunMpi \/ Compute \/ ComputeOnGpu \/ Save \/ Release
  BY <1>2 DEF RunQueue, SetupImage, SetupImageFails, RunMpi, Compute, ComputeOnGpu, Save, Release
<1>3. CASE Finish
  BY <1>3 DEF Finish, Goto
<1>4. CASE Destroy
  <2>1. pc = "destroy" /\ BackendObjects \subseteq owned
    BY <1>4 DEF Destroy, Owned, Kept
  <2> QED
    BY <1>4, <2>1 DEF Destroy, Frees, Goto
<1>5. CASE Exit
  BY <1>5 DEF Exit, Owned, Base, Frees, Goto
<1>6. CASE UNCHANGED vars
  BY <1>6 DEF vars
<1> HIDE DEF Control, Logged
<1> QED
  BY <1>1, <1>2, <1>3, <1>4, <1>5, <1>6 DEF Next, Step, Terminated

(* What main has, and where it is: no object is freed that is not there,   *)
(* but where a known error lets it.                                        *)
THEOREM ControlHolds == Spec => []Control
<1>1. Control /\ [Next]_vars => Control'
  BY UnderstoodNext, OwnedNext, InMpiNext, MeasuredNext, LoggedNext DEF Control
<1> QED
  BY ControlInit, <1>1, PTL DEF Spec

-----------------------------------------------------------------------------
(* A process that gets to the end of main has freed what it had, once, and *)
(* has left MPI if it was in it (LeavesNothing).                           *)
THEOREM NothingIsLeft == Spec => []LeavesNothing
<1>1. Control => LeavesNothing
  BY DEF Control, Owned, InMpi, LeavesNothing
<1> QED
  BY ControlHolds, <1>1, PTL

-----------------------------------------------------------------------------
(* The numbers in the width of their fields.                               *)
LEMMA Widths ==
  ASSUME NEW n \in Int
  PROVE  /\ Word8(n) \in 0 .. 255 /\ Int8(n) \in -128 .. 127
         /\ Int8(Word8(n)) = Int8(n)
         /\ Int8(n) > 0 => Int8(n) = n % 256
         /\ n \in 0 .. 255 => Word8(n) = n
  BY DEF Word8, Int8

LEMMA AtLeastOne == ASSUME NEW n \in 1 .. 255 PROVE n > 0
  OBVIOUS

LEMMA NumbersTyped ==
  ASSUME case \in Cases
  PROVE  /\ asked.block \in Int \union {NotGiven} /\ asked.threadnum \in Int \union {NotGiven}
         /\ Given(asked.block, 0) \in Int /\ Given(asked.threadnum, 0) \in Int
<1>1. asked.block \in Int \union {NotGiven} /\ asked.threadnum \in Int \union {NotGiven}
  BY ProgramAssumption DEF asked
<1> QED
  BY <1>1 DEF Given

(* The threads the byte of the union stands for.                           *)
LEMMA ThreadsAsked ==
  ASSUME case \in Cases, Accepted(asked), ~asked.queue, NEW v, v = Verified(Parsed(asked))
  PROVE  /\ asked.threadnum = NotGiven => threadnum(v) = 0
         /\ asked.threadnum # NotGiven =>
              threadnum(v) > 0 /\ threadnum(v) \in Int /\ threadnum(v) = asked.threadnum % 256
<1>1. v.byte = Word8(Given(asked.threadnum, 0))
  BY VerifiedArguments
<1>2. asked.threadnum # NotGiven => asked.threadnum \in Int /\ Int8(asked.threadnum) > 0
  BY NumbersTyped DEF Accepted, NormalOk
<1>3. CASE asked.threadnum = NotGiven
  <2>1. v.byte = 0
    BY <1>1, <1>3 DEF Given, Word8
  <2> QED
    BY <1>3, <2>1 DEF threadnum, Int8
<1>4. CASE asked.threadnum # NotGiven
  <2>1. threadnum(v) = Int8(Word8(asked.threadnum))
    BY <1>1, <1>4 DEF Given, threadnum
  <2>2. threadnum(v) = Int8(asked.threadnum) /\ Int8(asked.threadnum) \in Int
    BY <1>2, <1>4, <2>1, Widths
  <2> QED
    BY <1>2, <1>4, <2>2, Widths
<1> QED
  BY <1>3, <1>4

LEMMA BlockIsPositive ==
  ASSUME case \in Cases, Verifies(Parsed(asked)), NEW v, v = Verified(Parsed(asked))
  PROVE  v.block \in 1 .. 255
<1>1. v.block = Word8(Given(asked.block, 0)) /\ Parsed(asked).block = Word8(Given(asked.block, 0))
  BY VerifiedArguments, ParsedArguments
<1>2. v.block # 0
  BY <1>1 DEF Verifies
<1>3. v.block \in 0 .. 255
  BY <1>1, NumbersTyped, Widths
<1> QED
  BY <1>2, <1>3

LEMMA ModeIsOne ==
  ASSUME Accepted(asked), NEW v, v = Verified(Parsed(asked))
  PROVE  v.mode \in 0 .. 3
<1> DEFINE m == Parsed(asked).mode
<1>1. m = -1 \/ m \in 0 .. 3
  <2>1. asked.mode \in DOMAIN ModeNumber \union {NotGiven}
    BY DEF Accepted, MandatoryOk
  <2>2. \A name \in DOMAIN ModeNumber : ModeNumber[name] \in 0 .. 3
    BY DEF ModeNumber
  <2> QED
    BY <2>1, <2>2, ParsedArguments
<1>2. v.mode = IF m < 1 THEN 0 ELSE m
  BY VerifiedArguments DEF ModeNumber
<1> HIDE DEF m
<1> QED
  BY <1>1, <1>2

(* What is accepted is what the computations take for granted              *)
(* (AcceptedIsRunnable): whatever is typed, a block, the threads that were *)
(* asked for or one, and for the queues three files and each kind of       *)
(* thread, although the writers and the threads share a byte.              *)
THEOREM WhatRunsIsRunnable == Spec => []AcceptedIsRunnable
<1>1. Control => AcceptedIsRunnable
  <2> SUFFICES ASSUME Control PROVE AcceptedIsRunnable
    OBVIOUS
  <2>0. case \in Cases
    BY DEF Control
  <2>1. ASSUME pc \in Running
        PROVE  Accepted(asked) /\ Verifies(Parsed(asked)) /\ args = Verified(Parsed(asked))
    BY <2>1 DEF Control, Understood
  <2>2. ASSUME pc \in {"compute", "mpi", "gpu"}
        PROVE  args.block \in 1 .. 255 /\ args.filter # NotGiven /\ args.mode \in 0 .. 3
    <3>1. Accepted(asked) /\ Verifies(Parsed(asked)) /\ args = Verified(Parsed(asked))
      BY <2>1, <2>2 DEF Running
    <3>a. args.filter = asked.filter
      BY <3>1, VerifiedArguments
    <3>b. Parsed(asked).filter = asked.filter
      BY ParsedArguments
    <3>2. args.filter # NotGiven
      BY <3>1, <3>a, <3>b DEF Verifies
    <3> QED
      BY <2>0, <3>1, <3>2, BlockIsPositive, ModeIsOne
  <2>3. ASSUME pc = "compute"
        PROVE  LET threads == ThreadsOf(args, world.size)
               IN  \/ args.mpi /\ world.size > 1 /\ threads = 1
                   \/ threads = (Given(asked.threadnum, 1) % 256)
    <3>1. Accepted(asked) /\ args = Verified(Parsed(asked)) /\ ~args.queue
      BY <2>1, <2>3 DEF Running, Control, Understood
    <3>2. ~asked.queue
      BY <3>1, VerifiedArguments
    <3>3. /\ asked.threadnum = NotGiven => threadnum(args) = 0
          /\ asked.threadnum # NotGiven => threadnum(args) > 0 /\ threadnum(args) = asked.threadnum % 256
      BY <2>0, <3>1, <3>2, ThreadsAsked
    <3> QED
      BY <3>3 DEF ThreadsOf, Given
  <2>4. ASSUME pc = "run", args.queue
        PROVE  /\ args.files > 2 /\ args.readers > 0 /\ args.workers > 0 /\ writer_cnt(args) > 0
               /\ args.readers = asked.rww[1] /\ args.workers = asked.rww[2] /\ writer_cnt(args) = asked.rww[3]
    <3>1. Accepted(asked) /\ Verifies(Parsed(asked)) /\ args = Verified(Parsed(asked))
      BY <2>1, <2>4 DEF Running
    <3>a. args.queue = asked.queue /\ args.files = asked.files
      BY <3>1, VerifiedArguments
    <3>b. Parsed(asked).queue = asked.queue /\ Parsed(asked).files = asked.files
      BY ParsedArguments
    <3>2. asked.queue /\ \A i \in 1 .. 3 : asked.rww[i] \in 1 .. 255
      BY <2>4, <3>1, <3>a DEF Accepted, QueueOk
    <3>c. Parsed(asked).readers = asked.rww[1] /\ Parsed(asked).workers = asked.rww[2]
      BY <3>2, ParsedArguments
    <3>3. asked.rww[1] \in 1 .. 255 /\ asked.rww[2] \in 1 .. 255 /\ asked.rww[3] \in 1 .. 255
      <4>1. 1 \in 1 .. 3 /\ 2 \in 1 .. 3 /\ 3 \in 1 .. 3
        OBVIOUS
      <4> QED
        BY <3>2, <4>1, Zenon
    <3>4. args.readers = asked.rww[1] /\ args.workers = asked.rww[2] /\ args.byte = Word8(asked.rww[3])
      <4>1. /\ args.readers = Parsed(asked).readers /\ args.workers = Parsed(asked).workers
            /\ args.byte = IF asked.queue THEN Word8(asked.rww[3]) ELSE Word8(Given(asked.threadnum, 0))
        BY <3>1, VerifiedArguments
      <4> QED
        BY <3>2, <3>c, <4>1
    <3>5. args.byte = asked.rww[3]
      BY <3>3, <3>4, Widths
    <3>6. args.files > 2
      BY <3>1, <3>2, <3>a, <3>b DEF Verifies
    <3>7. writer_cnt(args) = asked.rww[3]
      BY <3>5 DEF writer_cnt
    <3>8. args.readers > 0 /\ args.workers > 0 /\ writer_cnt(args) > 0
      <4>1. asked.rww[1] > 0 /\ asked.rww[2] > 0 /\ asked.rww[3] > 0
        BY <3>3, AtLeastOne, Zenon
      <4> QED
        BY <3>4, <3>7, <4>1, Zenon
    <3> QED
      BY <3>4, <3>6, <3>7, <3>8, Zenon
  <2> QED
    BY <2>2, <2>3, <2>4 DEF AcceptedIsRunnable
<1> QED
  BY ControlHolds, <1>1, PTL

-----------------------------------------------------------------------------
(* Nothing is freed twice, and no memory that is not there is used, but    *)
(* where it is known (CrashesForAReason).  A step that crashes leaves the  *)
(* reason where it can be seen.                                            *)
Reason ==
  \/ "memory" \in faults
  \/ args.backend = "gpu" /\ ~world.opencl
  \/ SearchesTooFar(asked) \/ Overruns
  \/ TopDown(world.file) \/ SmallForTheMedian
  \/ args.mpi /\ TransposedTooWide

LEMMA ReasonStays == ASSUME Same, faults' = faults PROVE Reason' <=> Reason
<1>1. asked' = asked /\ world' = world /\ args' = args
  BY SameWorld
<1>2. Dim' = Dim
  BY <1>1 DEF Dim
<1> QED
  BY <1>1, <1>2 DEF Reason, Overruns, SmallForTheMedian, TransposedTooWide

LEMMA SomeThread == ASSUME Control, pc = "compute", NEW size PROVE ~(ThreadsOf(args, size) < 1)
<1>1. case \in Cases /\ Accepted(asked) /\ args = Verified(Parsed(asked)) /\ ~args.queue
  BY DEF Control, Understood, Running
<1>2. ~asked.queue
  BY <1>1, VerifiedArguments
<1>3. threadnum(args) = 0 \/ (threadnum(args) \in Int /\ threadnum(args) > 0)
  BY <1>1, <1>2, ThreadsAsked
<1> QED
  BY <1>3 DEF ThreadsOf

LEMMA CrashStep == ASSUME Control, pc # "crashed", Next, pc' = "crashed" PROVE Reason'
<1> USE DEF Control
<1>1. ASSUME Fault("memory") PROVE Reason'
  BY <1>1 DEF Fault, Reason
<1>2. ASSUME Same, faults' = faults, Reason PROVE Reason'
  BY <1>2, ReasonStays
<1>3. ~Parse
  BY DEF Parse, Frees, Goto, Owned
<1>4. CASE ParseSearchesTooFar
  BY <1>2, <1>4 DEF ParseSearchesTooFar, Same, Reason
<1>5. CASE ParseWithoutNames \/ SetupImageFails
  BY <1>1, <1>5 DEF ParseWithoutNames, SetupImageFails
<1>6. ~SetupFilters /\ ~CreateBackend /\ ~CreateBackendFails /\ ~Save
  BY DEF SetupFilters, CreateBackend, CreateBackendFails, Save, Goto
<1>7. CASE SetupFiltersFails
  BY <1>1, <1>7 DEF SetupFiltersFails
<1>8. CASE GiveUp
  <2>1. pc = "noBackend" => pc' = "failed"
    BY <1>8 DEF GiveUp, Owned, Base, Frees, Goto
  <2>2. pc = "noFilters" => "memory" \in faults
    BY DEF Owned
  <2>3. Same /\ faults' = faults /\ pc \in {"noFilters", "noBackend"}
    BY <1>8 DEF GiveUp, Same
  <2> QED
    BY <1>2, <2>1, <2>2, <2>3 DEF Reason
<1>9. CASE Show
  BY <1>2, <1>9 DEF Show, Goto, Same, Reason
<1>10. CASE RunQueue
  BY <1>1, <1>10 DEF RunQueue, Goto
<1>11. CASE SetupImage
  <2>1. TopDown(world.file) /\ Same /\ faults' = faults
    BY <1>11 DEF SetupImage, Goto, Same
  <2> QED
    BY <1>2, <2>1 DEF Reason
<1>12. CASE RunMpi
  <2>1. TransposedTooWide /\ Same /\ faults' = faults /\ args.mpi
    BY <1>12 DEF RunMpi, Goto, Same, Understood
  <2> QED
    BY <1>2, <2>1 DEF Reason
<1>13. CASE Compute
  <2>1. SmallForTheMedian /\ Same /\ faults' = faults
    <3>1. pc = "compute" /\ ~(ThreadsOf(args, world.size) < 1)
      BY <1>13, SomeThread DEF Compute
    <3> QED
      BY <1>13, <3>1 DEF Compute, Goto, Same
  <2> QED
    BY <1>2, <2>1 DEF Reason
<1>14. ~ComputeOnGpu
  BY DEF ComputeOnGpu, OpenCL, Frees, Goto, Owned, Kept, Understood, BackendObjects
<1>15. ~Release
  BY DEF Release, Frees, Goto
<1>16. CASE Finish
  <2>1. pc = "finish" /\ "backend" \notin owned /\ Same /\ faults' = faults
    BY <1>16 DEF Finish, Goto, Same
  <2>2. args.backend = "gpu" /\ ~world.opencl
    BY <2>1 DEF Owned, Kept, BackendObjects
  <2> QED
    BY <1>2, <2>1, <2>2 DEF Reason
<1>17. ~Destroy
  <2>1. pc = "destroy" => BackendObjects \subseteq owned
    BY DEF Owned, Kept
  <2> QED
    BY <2>1 DEF Destroy, Frees, Goto
<1>18. ~Exit
  BY DEF Exit, Frees, Goto, Owned, Base
<1>19. ~Terminated
  BY DEF Terminated, vars
<1> QED
  BY <1>3, <1>4, <1>5, <1>6, <1>7, <1>8, <1>9, <1>10, <1>11, <1>12, <1>13, <1>14, <1>15, <1>16, <1>17, <1>18,
     <1>19 DEF Next, Step

LEMMA CrashedIsOver == ASSUME pc = "crashed", [Next]_vars PROVE UNCHANGED vars
  BY DEF Next, Step, Terminated, Parse, ParseSearchesTooFar, ParseWithoutNames, SetupFilters, SetupFiltersFails,
     GiveUp, CreateBackend, CreateBackendFails, Show, RunQueue, SetupImage, SetupImageFails, RunMpi, Compute,
     ComputeOnGpu, Save, Release, Finish, Destroy, Exit

(* Nothing is freed twice or used after it was freed, except where it is   *)
(* known (CrashesForAReason).                                              *)
THEOREM CrashesAreKnown == Spec => []CrashesForAReason
<1> DEFINE Inv == pc = "crashed" => Reason
<1>1. Init => Inv
  BY DEF Init
<1>2. ASSUME Control, Inv, [Next]_vars PROVE Inv'
  <2>1. CASE UNCHANGED vars
    <3>1. pc' = pc /\ Same /\ faults' = faults
      BY <2>1 DEF vars, Same
    <3> QED
      BY <1>2, <3>1, ReasonStays
  <2>2. CASE ~UNCHANGED vars
    <3>1. pc # "crashed" /\ Next
      BY <1>2, <2>2, CrashedIsOver
    <3> QED
      BY <1>2, <3>1, CrashStep
  <2> QED
    BY <2>1, <2>2
<1>3. Inv => CrashesForAReason
  BY DEF CrashesForAReason, Reason
<1> HIDE DEF Inv
<1> QED
  BY ControlHolds, <1>1, <1>2, <1>3, PTL DEF Spec

-----------------------------------------------------------------------------
(* The log.                                                                *)
LEMMA LogInit == Init => LogIsTrue
  BY DEF Init, LogIsTrue

(* The line is written once, at the end, and nothing it speaks of changes. *)
LEMMA LogFinish == ASSUME Control, Finish PROVE LogIsTrue'
<1> USE DEF Control
<1>1. CASE logged' = None
  BY <1>1 DEF LogIsTrue
<1>2. CASE logged' # None
  <2>1. logged = None
    BY DEF Finish, Logged
  <2>2. /\ pc = "finish" /\ "backend" \in owned /\ time = "some" /\ LoggingRank = 0
        /\ logged' = [threads |-> threadnum(args), block |-> args.block]
        /\ Same /\ mpi' = mpi /\ saved' = saved /\ faults' = faults
    BY <1>2, <2>1 DEF Finish, Same
  <2>3. asked' = asked /\ world' = world /\ args' = args
    BY <2>2, SameWorld
  <2>4. Accepted(asked) /\ Verifies(Parsed(asked)) /\ args = Verified(Parsed(asked)) /\ case \in Cases
    BY <2>2 DEF Understood, Running
  <2>5. mpi \in {"in", "out"} /\ (mpi = "in" => args.backend = "cpu")
    BY <2>2 DEF InMpi, Running
  <2>6. mpi = "in" => world.rank = 0
    <3>1. owned = Kept
      BY <2>2 DEF Owned
    <3>2. mpi = "in" => "data" \in owned
      BY <2>5, <3>1 DEF Kept, BackendObjects
    <3> QED
      BY <2>2, <3>2 DEF LoggingRank
  <2>7. args.queue \/ saved # None \/ "write" \in faults
    BY <2>2, <2>6 DEF Measured
  <2>8. logged'.block > 0
    <3>1. args.block \in 1 .. 255
      BY <2>4, BlockIsPositive
    <3> QED
      BY <2>2, <3>1
  <2>9. ASSUME asked.threadnum # NotGiven PROVE logged'.threads = asked.threadnum % 256
    <3>1. ~asked.queue
      BY <2>4, <2>9 DEF Accepted, QueueOk
    <3>2. threadnum(args) = asked.threadnum % 256
      BY <2>4, <2>9, <3>1, ThreadsAsked
    <3> QED
      BY <2>2, <3>2
  <2> QED
    BY <2>2, <2>3, <2>5, <2>6, <2>7, <2>8, <2>9 DEF LogIsTrue
<1> QED
  BY <1>1, <1>2

LEMMA LogNext == ASSUME Control, LogIsTrue, [Next]_vars PROVE LogIsTrue'
<1>1. CASE Finish
  BY <1>1, LogFinish
<1>3. CASE UNCHANGED vars
  BY <1>3 DEF vars, LogIsTrue, asked, world
<1>4. CASE Destroy \/ Exit
  <2>1. /\ Same /\ saved' = saved /\ logged' = logged /\ faults' = faults
        /\ mpi' = mpi \/ (mpi = "in" /\ mpi' = "done")
    BY <1>4 DEF Destroy, Exit, Same
  <2> QED
    BY <2>1, SameWorld DEF LogIsTrue
<1>5. CASE ~Finish /\ ~Destroy /\ ~Exit /\ ~UNCHANGED vars
  <2>1. logged' = logged
    BY <1>5 DEF Next, Step, Terminated, Parse, ParseSearchesTooFar, ParseWithoutNames, SetupFilters,
     SetupFiltersFails, GiveUp, CreateBackend, CreateBackendFails, Show, RunQueue, SetupImage, SetupImageFails,
     RunMpi, Compute, ComputeOnGpu, Save, Release
  <2>2. pc \notin {"destroy", "exit", "done"}
    BY <1>5 DEF Next, Step, Terminated, Parse, ParseSearchesTooFar, ParseWithoutNames, SetupFilters,
     SetupFiltersFails, GiveUp, CreateBackend, CreateBackendFails, Show, RunQueue, SetupImage, SetupImageFails,
     RunMpi, Compute, ComputeOnGpu, Save, Release
  <2>3. logged' = None
    BY <2>1, <2>2 DEF Control, Logged
  <2> QED
    BY <2>3 DEF LogIsTrue
<1> QED
  BY <1>1, <1>3, <1>4, <1>5

(* One process of a job writes to the log, and only of an image that was   *)
(* saved, unless writing it failed without a word; a thread count that was *)
(* given is the one logged (LogIsTrue).                                    *)
THEOREM TheLogIsTrue == Spec => []LogIsTrue
  BY ControlHolds, LogInit, LogNext, PTL DEF Spec

-----------------------------------------------------------------------------
(* The pictures.  A file that can be read to the end has a byte for each   *)
(* pixel, where its rows say.                                              *)
Readable(file) == file \in BmpFile /\ ~TopDown(file) /\ Complete(file)
InPicture(y, x, h, w) == y \in 0 .. h - 1 /\ x \in 0 .. w - 1
PlaceInFile(h, w, y, x) == (h - 1 - y) * RowBytes(w) + PixelBytes * x + 1

LEMMA RowSize ==
  ASSUME NEW w \in Nat
  PROVE  RowBytes(w) \in Nat /\ RowPadding(w) \in 0 .. 3 /\ RowBytes(w) = 3 * w + RowPadding(w)
  BY DEF RowBytes, RowPadding, PixelBytes

LEMMA LessProduct ==
  ASSUME NEW a \in Nat, NEW b \in Nat, NEW c \in Nat, a <= b
  PROVE  a * c \in Nat /\ b * c \in Nat /\ a * c <= b * c
  OBVIOUS

LEMMA ElementOf == ASSUME NEW S, NEW s \in Seq(S), NEW i \in 1 .. Len(s) PROVE s[i] \in S
  OBVIOUS

LEMMA LastPixel ==
  ASSUME NEW n \in Nat, NEW p \in Nat, NEW q \in Nat, NEW r \in Nat, NEW g \in 0 .. 3, NEW w \in Nat,
         NEW x \in 0 .. w - 1, p <= q, r = 3 * w + g,
         NEW o, o = q + r, n >= o - g
  PROVE  p + 3 * x + 1 \in 1 .. n
  OBVIOUS

LEMMA PixelInFile ==
  ASSUME NEW file, Readable(file), NEW y, NEW x, InPicture(y, x, file.h, file.w)
  PROVE  /\ file.h \in Nat \ {0} /\ file.w \in Nat \ {0}
         /\ PlaceInFile(file.h, file.w, y, x) \in 1 .. Len(file.bytes)
         /\ Shown(file, y, x) = file.bytes[PlaceInFile(file.h, file.w, y, x)]
         /\ Shown(file, y, x) \in 0 .. 255
<1> DEFINE h == file.h
           w == file.w
           b == file.bytes
           r == RowBytes(w)
           i == PlaceInFile(h, w, y, x)
<1>1. h \in Int /\ w \in Nat /\ b \in Seq(0 .. 255) /\ Len(b) \in Nat
  BY DEF Readable, BmpFile
<1>2. y \in 0 .. h - 1 /\ x \in 0 .. w - 1 /\ h \in Nat \ {0} /\ w \in Nat \ {0}
  BY <1>1 DEF InPicture
<1>3. Len(b) >= r * h - RowPadding(w)
  BY <1>1, <1>2 DEF Readable, Complete
<1>4. i = (h - 1 - y) * r + 3 * x + 1 /\ Shown(file, y, x) = b[i]
  BY DEF Shown, PlaceInFile, PixelBytes
<1>5. r \in Nat /\ RowPadding(w) \in 0 .. 3 /\ r = 3 * w + RowPadding(w)
  BY <1>1, RowSize
<1> HIDE DEF h, w, b, r, i
<1> DEFINE p == (h - 1 - y) * r
           q == (h - 1) * r
           o == r * h
<1>6. p \in Nat /\ q \in Nat /\ p <= q
  <2>1. h - 1 - y \in Nat /\ h - 1 \in Nat /\ h - 1 - y <= h - 1
    BY <1>2
  <2> QED
    BY <1>5, <2>1, LessProduct
<1>7. o = q + r
  BY <1>2, <1>5
<1> HIDE DEF p, q
<1>8. i \in 1 .. Len(b)
  <2>1. i = p + 3 * x + 1 /\ Len(b) >= o - RowPadding(w)
    BY <1>3, <1>4 DEF p
  <2> HIDE DEF o
  <2> QED
    <3> DEFINE g == RowPadding(w)
    <3>1. Len(b) >= o - g
      BY <2>1
    <3>2. g \in 0 .. 3 /\ r = 3 * w + g /\ w \in Nat /\ x \in 0 .. w - 1
      BY <1>2, <1>5
    <3> HIDE DEF g
    <3>3. p + 3 * x + 1 \in 1 .. Len(b)
      BY <1>1, <1>5, <1>6, <1>7, <3>1, <3>2, LastPixel
    <3> QED
      BY <2>1, <3>3
<1>9. b[i] \in 0 .. 255
  BY <1>1, <1>8, ElementOf
<1>10. Shown(file, y, x) = b[i] /\ Shown(file, y, x) \in 0 .. 255
  BY <1>4, <1>9
<1> QED
  BY <1>2, <1>8, <1>10 DEF h, w, b, i

LEMMA ReadsWhatIsShown ==
  ASSUME NEW file, Readable(file), NEW y, NEW x, InPicture(y, x, file.h, file.w)
  PROVE  bmp_img_read(file)[y][x] = Shown(file, y, x)
<1> DEFINE m == (file.h - 1 - y) * RowBytes(file.w) + 1
           n == Len(file.bytes)
           j == PixelBytes * x + 1
<1>1. PlaceInFile(file.h, file.w, y, x) \in 1 .. n /\ file.h \in Nat \ {0} /\ file.w \in Nat \ {0}
  BY PixelInFile
<1>2. y \in 0 .. file.h - 1 /\ x \in 0 .. file.w - 1 /\ file.bytes \in Seq(0 .. 255) /\ n \in Nat
  BY DEF InPicture, Readable, BmpFile
<1>3. RowBytes(file.w) \in Nat /\ file.h - 1 - y \in Nat
  <2>1. file.w \in Nat /\ file.h - 1 - y \in Nat
    BY <1>1, <1>2
  <2> QED
    BY <2>1, RowSize
<1>4. m \in Nat \ {0} /\ j \in Nat \ {0} /\ PlaceInFile(file.h, file.w, y, x) = m + j - 1
  <2>1. (file.h - 1 - y) * RowBytes(file.w) \in Nat
    BY <1>3, LessProduct
  <2>2. PixelBytes * x \in Nat
    BY <1>2 DEF PixelBytes
  <2> QED
    BY <2>1, <2>2 DEF PlaceInFile
<1>5. bmp_img_read(file)[y][x] = SubSeq(file.bytes, m, n)[j]
  BY <1>2 DEF bmp_img_read
<1>6. Shown(file, y, x) = file.bytes[m + j - 1]
  BY <1>4, PixelInFile
<1> HIDE DEF m, n, j
<1>7. \A i \in m .. n : file.bytes[i] \in 0 .. 255
  <2>1. \A i \in m .. n : i \in 1 .. Len(file.bytes)
    BY <1>2, <1>4 DEF n
  <2> QED
    BY <1>2, <2>1, ElementOf
<1>8. j \in 1 .. n - m + 1
  BY <1>1, <1>2, <1>4
<1>9. SubSeq(file.bytes, m, n)[j] = file.bytes[m + j - 1]
  <2>1. m \in Int /\ n \in Int
    BY <1>2, <1>4
  <2>2. \A i \in 1 .. n - m + 1 : SubSeq(file.bytes, m, n)[i] = file.bytes[m + i - 1]
    BY <1>7, <2>1, SubSeqProperties
  <2> QED
    BY <1>8, <2>2
<1> QED
  BY <1>5, <1>6, <1>9

(* What is written shows the image.                                        *)
RowOf(w, row) == [n \in 1 .. RowBytes(w) |-> IF n > PixelBytes * w THEN 0 ELSE row[(n - 1) \div PixelBytes]]

LEMMA ShowsWhatIsWritten ==
  ASSUME NEW h \in Nat, NEW w \in Nat, NEW img, \A y, x \in Int : InPicture(y, x, h, w) => img[y][x] \in Int,
         NEW y, NEW x, InPicture(y, x, h, w)
  PROVE  Shown(bmp_img_write(h, w, img), y, x) = img[y][x]
<1> DEFINE r == RowBytes(w)
           rows == [i \in 1 .. h |-> RowOf(w, img[h - i])]
           o == [i \in 0 .. h |-> i * r]
           j == h - y
           k == 3 * x + 1
<1>1. y \in 0 .. h - 1 /\ x \in 0 .. w - 1 /\ h \in Nat \ {0} /\ y \in Int /\ x \in Int
  BY DEF InPicture
<1>2. r \in Nat /\ RowPadding(w) \in 0 .. 3 /\ r = 3 * w + RowPadding(w)
  BY RowSize
<1>3. bmp_img_write(h, w, img) = [h |-> h, w |-> w, bytes |-> FlattenSeq(rows)]
  BY DEF bmp_img_write, RowOf
<1>4. Shown(bmp_img_write(h, w, img), y, x) = FlattenSeq(rows)[(h - 1 - y) * r + 3 * x + 1]
  BY <1>3 DEF Shown, PixelBytes
<1> HIDE DEF r
<1>5. ASSUME NEW i \in 1 .. h PROVE rows[i] \in Seq(Int) /\ Len(rows[i]) = r
  <2> DEFINE s == RowOf(w, img[h - i])
  <2>1. s = [n \in 1 .. r |-> IF n > 3 * w THEN 0 ELSE img[h - i][(n - 1) \div 3]]
    BY DEF RowOf, PixelBytes, r
  <2>2. ASSUME NEW n \in 1 .. r PROVE s[n] \in Int
    <3>1. CASE n > 3 * w
      BY <2>1, <3>1
    <3>2. CASE ~(n > 3 * w)
      <4>1. (n - 1) \div 3 \in 0 .. w - 1 /\ h - i \in 0 .. h - 1
        BY <1>2, <3>2
      <4>2. InPicture(h - i, (n - 1) \div 3, h, w) /\ h - i \in Int /\ (n - 1) \div 3 \in Int
        BY <4>1 DEF InPicture
      <4>3. img[h - i][(n - 1) \div 3] \in Int
        BY <4>2
      <4> QED
        BY <2>1, <3>2, <4>3
    <3> QED
      BY <3>1, <3>2
  <2>3. s = [n \in 1 .. r |-> s[n]]
    BY <2>1
  <2> HIDE DEF s
  <2>4. s \in [1 .. r -> Int]
    BY <2>2, <2>3
  <2>5. s \in Seq(Int) /\ Len(s) = r
    BY <1>2, <2>4
  <2> QED
    BY <2>5 DEF s
<1>6. rows \in [1 .. h -> Seq(Int)]
  BY <1>5
<1>7. rows[j] = RowOf(w, img[y]) /\ j \in 1 .. h
  <2>1. j \in 1 .. h /\ h - j = y
    BY <1>1
  <2> QED
    BY <2>1
<1>8. k \in 1 .. r /\ ~(k > PixelBytes * w) /\ (k - 1) \div PixelBytes = x
  BY <1>1, <1>2 DEF PixelBytes
<1>9. rows[j][k] = img[y][x]
  BY <1>7, <1>8 DEF RowOf, r
<1>10. o \in [0 .. h -> Nat]
  <2>1. \A i \in 0 .. h : i * r \in Nat
    BY <1>2
  <2> QED
    BY <2>1
<1>11. Offsets(o, Lengths(rows, h), h)
  <2>1. o[0] = 0
    BY <1>2
  <2>2. ASSUME NEW i \in 1 .. h PROVE o[i] = o[i - 1] + Lengths(rows, h)[i]
    <3>1. Lengths(rows, h)[i] = r
      BY <1>5 DEF Lengths
    <3>2. o[i] = i * r /\ o[i - 1] = (i - 1) * r
      OBVIOUS
    <3>3. i * r = (i - 1) * r + r
      BY <1>2
    <3> QED
      BY <3>1, <3>2, <3>3
  <2> QED
    BY <2>1, <2>2 DEF Offsets
<1>12. o[j - 1] = (h - 1 - y) * r
  <2>1. j - 1 = h - 1 - y /\ j - 1 \in 0 .. h
    BY <1>1
  <2> QED
    BY <2>1
<1> HIDE DEF rows, o, j, k
<1>13. Placed(FlattenSeq(rows), rows, o, h)
  BY <1>1, <1>6, <1>10, <1>11, Flattened
<1>14. FlattenSeq(rows)[o[j - 1] + k] = rows[j][k]
  <2>1. k \in 1 .. Len(rows[j])
    BY <1>5, <1>7, <1>8
  <2> QED
    BY <1>7, <1>13, <2>1 DEF Placed
<1>15. o[j - 1] + k = (h - 1 - y) * r + 3 * x + 1
  <2>1. (h - 1 - y) * r \in Int
    BY <1>1, <1>2
  <2> QED
    BY <1>1, <1>12, <2>1 DEF k
<1> QED
  BY <1>4, <1>9, <1>14, <1>15

-----------------------------------------------------------------------------
(* The linear filters.  The nearest place within is the one clamped to.    *)
LEMMA NearestIsClamp ==
  ASSUME NEW n \in Nat \ {0}, NEW i \in Int
  PROVE  Nearest(i, n) = Clamp(i, n) /\ Clamp(i, n) \in 0 .. n - 1
<1> DEFINE c == Clamp(i, n)
           best(j) == \A m \in 0 .. n - 1 : Abs(i - j) <= Abs(i - m)
<1>1. c \in 0 .. n - 1
  BY ClampInRange
<1>2. \A m \in 0 .. n - 1 : Abs(i - c) <= Abs(i - m)
  BY DEF Clamp, Abs
<1>3. ASSUME NEW j \in 0 .. n - 1, Abs(i - j) <= Abs(i - c) PROVE j = c
  BY <1>3 DEF Clamp, Abs
<1>4. ASSUME NEW j \in 0 .. n - 1, best(j) PROVE j = c
  BY <1>1, <1>3, <1>4
<1>5. Nearest(i, n) = CHOOSE j \in 0 .. n - 1 : best(j)
  BY DEF Nearest
<1>6. best(c)
  BY <1>2
<1> HIDE DEF c, best
<1> QED
  BY <1>1, <1>4, <1>5, <1>6 DEF c

(* The sum around a pixel, term by term.                                   *)
Names(h, w)   == Image(h, w, LAMBDA y, x : <<y, x>>)
Channel(file) == [p \in (0 .. file.h - 1) \X (0 .. file.w - 1) |-> bmp_img_read(file)[p[1]][p[2]]]
Seen(file, k, y, x) ==
  [t \in Taps(k) |-> Weight(k, t) * Beyond(file, y + t[1] - Padding(k), x + t[2] - Padding(k))]

LEMMA WeightedAdds ==
  ASSUME NEW file, NEW k, NEW y, NEW x, IsFiniteSet(Taps(k)), Seen(file, k, y, x) \in [Taps(k) -> Int]
  PROVE  \E F : Adds(F, Taps(k), Seen(file, k, y, x)) /\ Weighted(file, k, y, x) = F[Taps(k)]
<1> DEFINE T == Taps(k)
           term(t) == k.at[t[1]][t[2]] * Beyond(file, y + t[1] - Padding(k), x + t[2] - Padding(k))
           Iter(F) == F = [s \in SUBSET T |->
             IF s = {} THEN 0 ELSE term(CHOOSE e \in s : TRUE) + F[s \ {CHOOSE e \in s : TRUE}]]
           h == CHOOSE F : Iter(F)
<1>1. Weighted(file, k, y, x) = h[T]
  BY DEF Weighted, Taps, MapThenSumSet, MapThenFoldSet
<1>2. ASSUME NEW F PROVE Iter(F) <=> Adds(F, T, Seen(file, k, y, x))
  <2>1. ASSUME NEW s \in SUBSET T, s # {}
        PROVE  Seen(file, k, y, x)[AnyOf(s)] = term(CHOOSE e \in s : TRUE)
    <3>1. AnyOf(s) \in T
      BY <2>1 DEF AnyOf
    <3> QED
      BY <3>1 DEF Seen, Weight, AnyOf
  <2> HIDE DEF term
  <2>2. [s \in SUBSET T |->
             IF s = {} THEN 0 ELSE term(CHOOSE e \in s : TRUE) + F[s \ {CHOOSE e \in s : TRUE}]]
        = [s \in SUBSET T |-> IF s = {} THEN 0 ELSE Seen(file, k, y, x)[AnyOf(s)] + F[s \ {AnyOf(s)}]]
    BY <2>1 DEF AnyOf
  <2> QED
    BY <2>2 DEF Adds
<1> HIDE DEF term
<1>3. PICK F : Adds(F, T, Seen(file, k, y, x))
  BY AddsExists
<1>4. Iter(F)
  BY <1>2, <1>3
<1>5. Iter(h)
  <2> HIDE DEF Iter
  <2> QED
    BY <1>4
<1>6. Adds(h, T, Seen(file, k, y, x))
  <2> HIDE DEF h
  <2> QED
    BY <1>2, <1>5
<1> QED
  BY <1>1, <1>6

LEMMA NamesShape ==
  ASSUME NEW h, NEW w
  PROVE  Shaped(Names(h, w), h, w) /\ \A y \in 0 .. h - 1, x \in 0 .. w - 1 : Names(h, w)[y][x] = <<y, x>>
  BY DEF Names, Image, Shaped

LEMMA WeightedIsSummed ==
  ASSUME NEW file, Readable(file), NEW k, Tabled(k), NEW y, NEW x, InPicture(y, x, file.h, file.w)
  PROVE  /\ Dot(apply_filter(k, Names(file.h, file.w))[y][x], Channel(file)) = Weighted(file, k, y, x)
         /\ Weighted(file, k, y, x) \in Int
<1> DEFINE h == file.h
           w == file.w
           u == Under(k, Names(h, w), h, w, y, x)
           v == Channel(file)
           T == Taps(k)
<1>1. h \in Nat \ {0} /\ w \in Nat \ {0} /\ w \in Nat /\ y \in 0 .. h - 1 /\ x \in 0 .. w - 1
  <2>1. h \in Nat \ {0} /\ w \in Nat \ {0}
    BY PixelInFile
  <2> QED
    BY <2>1 DEF InPicture
<1>2. apply_filter(k, Names(h, w))[y][x] = Weights(k, u)
  <2>1. apply_filter(k, Names(h, w)) = Applied(k, Names(h, w), h, w)
    BY <1>1, NamesShape, AppliedTo
  <2> QED
    BY <1>1, <2>1 DEF Applied
<1>3. k.size \in Nat /\ IsFiniteSet(T) /\ \A t \in T : Weight(k, t) \in Int
  <2>1. k.size \in Nat /\ Table(k.size, k.at)
    BY DEF Tabled, Symmetric
  <2>2. \A t \in T : Weight(k, t) \in Int
    BY <2>1, MirroredTap DEF Weight, Table
  <2> QED
    BY <2>1, <2>2, TapsFinite
<1>4. ASSUME NEW t \in T
      PROVE  /\ v[u[t]] = Beyond(file, y + t[1] - Padding(k), x + t[2] - Padding(k))
             /\ v[u[t]] \in Int
  <2> DEFINE i == y + t[1] - Padding(k)
             j == x + t[2] - Padding(k)
             c == Clamp(i, h)
             d == Clamp(j, w)
  <2>1. i \in Int /\ j \in Int
    <3>1. t[1] \in 0 .. k.size - 1 /\ t[2] \in 0 .. k.size - 1
      BY MirroredTap
    <3>2. Padding(k) \in Int
      BY <1>3 DEF Padding
    <3> QED
      BY <1>1, <1>3, <3>1, <3>2
  <2>2. u[t] = Names(h, w)[c][d]
    BY DEF Under
  <2> HIDE DEF i, j, u
  <2>3. c \in 0 .. h - 1 /\ d \in 0 .. w - 1 /\ Nearest(i, h) = c /\ Nearest(j, w) = d
    BY <1>1, <2>1, NearestIsClamp
  <2>4. u[t] = <<c, d>>
    BY <2>2, <2>3, NamesShape
  <2> HIDE DEF c, d
  <2>5. v[u[t]] = bmp_img_read(file)[c][d]
    BY <2>3, <2>4 DEF Channel
  <2>6. InPicture(c, d, file.h, file.w)
    BY <2>3 DEF InPicture
  <2>7. bmp_img_read(file)[c][d] = Shown(file, c, d) /\ Shown(file, c, d) \in 0 .. 255
    BY <2>6, ReadsWhatIsShown, PixelInFile
  <2>8. Beyond(file, i, j) = Shown(file, c, d)
    BY <2>3 DEF Beyond
  <2> QED
    BY <2>5, <2>7, <2>8 DEF i, j
<1>5. UnderTaps(k, u, v) = Seen(file, k, y, x) /\ Seen(file, k, y, x) \in [T -> Int]
  <2> HIDE DEF u, v
  <2>1. UnderTaps(k, u, v) = Seen(file, k, y, x)
    BY <1>4 DEF UnderTaps, Seen
  <2>2. \A t \in T : Weight(k, t) * v[u[t]] \in Int
    BY <1>3, <1>4
  <2>3. UnderTaps(k, u, v) \in [T -> Int]
    BY <2>2 DEF UnderTaps
  <2> QED
    BY <2>1, <2>3
<1>6. u = [t \in T |-> u[t]]
  BY DEF Under
<1> HIDE DEF u, v
<1>7. PICK F : Adds(F, T, Seen(file, k, y, x)) /\ Weighted(file, k, y, x) = F[T]
  BY <1>3, <1>5, WeightedAdds
<1>8. Dot(Weights(k, u), v) = F[T] /\ F[T] \in Int
  BY <1>3, <1>4, <1>5, <1>6, <1>7, DotOverTaps
<1> QED
  BY <1>2, <1>7, <1>8 DEF v

(* The sum, rounded and kept within a byte, is the result; what the GPU    *)
(* makes of it is the result or one less.                                  *)
LEMMA ClampedByte ==
  ASSUME NEW e \in Int
  PROVE  /\ Clamp(e, 256) \in 0 .. 255
         /\ e < 0 => Clamp(e, 256) = 0
         /\ e >= 256 => Clamp(e, 256) = 255
         /\ e >= 0 /\ e < 256 => Clamp(e, 256) = e
  BY DEF Clamp

LEMMA RoundedIsResult ==
  ASSUME NEW k, Tabled(k), NEW acc \in Int, NEW v, v = Clamp(k.bias + Round(acc, k.den), Byte)
  PROVE  IsResult(v, k, acc) /\ v \in Int
<1> DEFINE d == k.den
           b == k.bias
           q == acc \div d
           m == acc % d
           r == Round(acc, d)
           e == b + r
           bd == b * d
           qd == q * d
           ed == e * d
           twice == 2 * (acc + b * d)
<1>1. d \in Nat \ {0} /\ b \in Int
  BY DEF Tabled
<1>2. /\ q \in Int /\ m \in 0 .. d - 1 /\ acc = q * d + m
      /\ r = IF acc < 0 THEN (IF 2 * m <= d THEN q ELSE q + 1) ELSE (IF 2 * m < d THEN q ELSE q + 1)
  <2>1. Rounded(acc, d, q, m)
    BY <1>1, RoundsToNearest
  <2> HIDE DEF d, q, m
  <2> QED
    BY <2>1 DEF Rounded
<1>3. v = Clamp(e, 256)
  BY DEF Byte
<1>a. acc = qd + m /\ twice = 2 * (acc + bd)
  BY <1>2
<1>4. /\ IsResult(v, k, acc) <=> \/ v = 0 /\ twice <= d
                                 \/ v = 255 /\ twice >= 509 * d
                                 \/ v \in 0 .. 255 /\ Abs(twice - 2 * v * d) <= d
  BY DEF IsResult
<1> HIDE DEF d, b, q, m, r, twice
<1>5. e \in Int /\ bd \in Int /\ qd \in Int /\ (r = q \/ r = q + 1) /\ r \in Int
  BY <1>1, <1>2
<1>6. ed = bd + qd \/ ed = bd + qd + d
  <2>1. CASE r = q
    BY <1>1, <1>2, <1>5, <2>1
  <2>2. CASE r = q + 1
    BY <1>1, <1>2, <1>5, <2>2
  <2> QED
    BY <1>5, <2>1, <2>2
<1>7. /\ r = q => ed = bd + qd
      /\ r = q + 1 => ed = bd + qd + d
  BY <1>1, <1>2, <1>5
<1>8. /\ e < 0 => ed <= -d
      /\ e >= 256 => ed >= 256 * d
      /\ ed \in Int
  <2> HIDE DEF e
  <2>1. ed \in Int
    BY <1>1, <1>5
  <2>2. ASSUME e < 0 PROVE ed <= -d
    BY <1>1, <1>5, <2>2
  <2>3. ASSUME e >= 256 PROVE ed >= 256 * d
    BY <1>1, <1>5, <2>3
  <2> QED
    BY <2>1, <2>2, <2>3
<1>b. 2 * e * d = 2 * ed
  BY <1>1, <1>5
<1> HIDE DEF e, bd, qd, ed
<1>9. twice \in Int /\ twice - 2 * ed <= d /\ -d <= twice - 2 * ed
  <2>1. CASE r = q
    <3>1. 2 * m <= d
      BY <1>1, <1>2, <1>5, <2>1
    <3> QED
      BY <1>1, <1>2, <1>a, <1>5, <1>7, <1>8, <2>1, <3>1
  <2>2. CASE r = q + 1
    <3>1. 2 * m >= d
      BY <1>1, <1>2, <1>5, <2>2
    <3> QED
      BY <1>1, <1>2, <1>a, <1>5, <1>7, <1>8, <2>2, <3>1
  <2> QED
    BY <1>5, <2>1, <2>2
<1>10. CASE e < 0
  <2>1. v = 0
    BY <1>3, <1>5, <1>10, ClampedByte
  <2>2. twice <= d
    BY <1>1, <1>8, <1>9, <1>10
  <2> QED
    BY <1>4, <2>1, <2>2
<1>11. CASE e >= 256
  <2>1. v = 255
    BY <1>3, <1>5, <1>11, ClampedByte
  <2>2. twice >= 509 * d
    BY <1>1, <1>8, <1>9, <1>11
  <2> QED
    BY <1>4, <2>1, <2>2
<1>12. CASE e >= 0 /\ e < 256
  <2>1. v = e /\ v \in 0 .. 255
    BY <1>3, <1>5, <1>12, ClampedByte
  <2>2. Abs(twice - 2 * ed) <= d
    BY <1>1, <1>8, <1>9 DEF Abs
  <2>3. Abs(twice - 2 * v * d) <= d
    BY <1>b, <2>1, <2>2
  <2> QED
    BY <1>4, <2>1, <2>3
<1> QED
  BY <1>5, <1>10, <1>11, <1>12

LEMMA GpuIsNear ==
  ASSUME NEW k, Tabled(k), NEW acc \in Int, NEW below, NEW v,
         v = Clamp(k.bias + (acc \div k.den)
                     - (IF below /\ k.den > 1 /\ acc > 0 /\ acc % k.den = 0 THEN 1 ELSE 0), Byte)
  PROVE  v \in Int /\ \E d \in {-1, 0, 1} : IsResult(v + d, k, acc)
<1> DEFINE d == k.den
           q == acc \div d
           m == acc % d
           r == Round(acc, d)
           g == IF below /\ d > 1 /\ acc > 0 /\ m = 0 THEN q - 1 ELSE q
<1>1. d \in Nat \ {0} /\ k.bias \in Int
  BY DEF Tabled
<1>2. /\ q \in Int /\ m \in 0 .. d - 1
      /\ r = IF acc < 0 THEN (IF 2 * m <= d THEN q ELSE q + 1) ELSE (IF 2 * m < d THEN q ELSE q + 1)
  <2>1. Rounded(acc, d, q, m)
    BY <1>1, RoundsToNearest
  <2> HIDE DEF d, q, m
  <2> QED
    BY <2>1 DEF Rounded
<1>3. v = Clamp(k.bias + g, 256)
  BY <1>1, <1>2 DEF Byte
<1> HIDE DEF d, q, m, r
<1>4. g \in Int /\ r \in Int /\ (r = g \/ r = g + 1)
  BY <1>1, <1>2
<1> HIDE DEF g
<1>5. k.bias + g \in Int /\ k.bias + r \in Int /\ (k.bias + r = k.bias + g \/ k.bias + r = k.bias + g + 1)
  BY <1>1, <1>4
<1>6. Clamp(k.bias + r, 256) = v \/ Clamp(k.bias + r, 256) = v + 1
  BY <1>3, <1>5, ClampMoves
<1>7. v \in Int
  BY <1>3, <1>5, ClampedByte
<1>8. IsResult(Clamp(k.bias + r, 256), k, acc)
  BY RoundedIsResult DEF Byte, r, d
<1>9. v + 0 = v
  BY <1>7
<1>10. IsResult(v + 0, k, acc) \/ IsResult(v + 1, k, acc)
  BY <1>6, <1>8, <1>9
<1> QED
  BY <1>7, <1>10

-----------------------------------------------------------------------------
(* What is saved is right.  The pixels along the way: the picture read,    *)
(* the image that is to be saved, and the file.                            *)
Right(v, y, x) ==
  LET k == FilterByName[args.filter]
  IN  IF args.backend = "gpu" THEN \E d \in {-1, 0, 1} : IsResult(v + d, k, Weighted(world.file, k, y, x))
      ELSE IF args.filter = "mm" THEN IsMedian(v, MedianSize, world.file, y, x)
      ELSE IsResult(v, k, Weighted(world.file, k, y, x))

Excepted == SmallForTheMedian \/ (args.filter = "mm" /\ "memory" \in faults)

RightImage(img) ==
  Fits /\ ~Excepted =>
    \A y \in 0 .. Dim.h - 1, x \in 0 .. Dim.w - 1 : img[y][x] \in Int /\ Right(img[y][x], y, x)
RightFile(file) ==
  Fits /\ ~Excepted =>
    /\ file.h = world.file.h /\ file.w = world.file.w
    /\ \A y \in 0 .. file.h - 1, x \in 0 .. file.w - 1 : Right(Shown(file, y, x), y, x)

HasPicture == ~TopDown(world.file) /\ Complete(world.file) /\ input = bmp_img_read(world.file)
GpuIsLinear == args.backend = "gpu" => args.filter # "mm"

Pixels ==
  /\ pc \in {"gpu", "mpi", "compute", "save"} => HasPicture
  /\ pc = "compute" => args.backend = "cpu"
  /\ pc = "save" => RightImage(output) /\ GpuIsLinear
  /\ pc \in Parsing \union {"parse"} => saved = None
  /\ saved # None => RightFile(saved) /\ GpuIsLinear

(* The filter is one with a table, or the median.                          *)
LEMMA FilterIsKnown ==
  ASSUME Control, pc \in Running
  PROVE  args.filter = "mm" \/ args.filter \in DOMAIN FilterByName
<1>1. Accepted(asked) /\ Verifies(Parsed(asked)) /\ args = Verified(Parsed(asked))
  BY DEF Control, Understood
<1>2. args.filter = asked.filter
  BY <1>1, VerifiedArguments
<1>3. Parsed(asked).filter = asked.filter
  BY ParsedArguments
<1>4. asked.filter # NotGiven /\ asked.filter \in Filters \union {NotGiven}
  BY <1>1, <1>3 DEF Verifies, Accepted, MandatoryOk
<1>5. DOMAIN FilterByName = {"bb", "mb", "gb", "co", "sh", "em", "gg", "mg", "bo"}
  BY DEF FilterByName
<1> HIDE DEF FilterByName
<1> QED
  BY <1>2, <1>4, <1>5 DEF Filters

(* The dimensions are those of the file, if they fit into their 16 bits.   *)
LEMMA FileIsRead ==
  ASSUME case \in Cases, HasPicture
  PROVE  Readable(world.file) /\ world.file.h \in Nat /\ world.file.w \in Nat
<1>1. world.file \in BmpFile
  BY ProgramAssumption DEF world
<1> QED
  BY <1>1 DEF HasPicture, Readable, BmpFile, TopDown

LEMMA DimensionsFit ==
  ASSUME world.file.h \in Nat, world.file.w \in Nat, Fits
  PROVE  Dim.h = world.file.h /\ Dim.w = world.file.w
<1>1. DimWord \in Nat \ {0}
  BY ProgramAssumption
<1>2. \A n \in Nat : n < DimWord => n % DimWord = n
  BY <1>1
<1> QED
  BY <1>2 DEF Fits, Dim

(* The median of a pixel.                                                  *)
LEMMA ShowsNumbers ==
  ASSUME NEW file, Readable(file), NEW y, NEW x, InPicture(y, x, file.h, file.w)
  PROVE  Shown(file, y, x) \in Int
<1>1. Shown(file, y, x) \in 0 .. 255
  BY PixelInFile
<1> QED
  BY <1>1

LEMMA MedianIsRight ==
  ASSUME NEW file, Readable(file), NEW n \in Nat, n % 2 = 1, NEW img, Shaped(img, file.h, file.w),
         \A i \in 0 .. file.h - 1, j \in 0 .. file.w - 1 : img[i][j] = bmp_img_read(file)[i][j],
         NEW y, NEW x, InPicture(y, x, file.h, file.w), NEW v, v = MedianValues(n, img)[y][x]
  PROVE  v \in Int /\ IsMedian(v, n, file, y, x)
<1> DEFINE h == file.h
           w == file.w
           seen == Near(n, img, h, w, y, x)
<1>1. h \in Nat \ {0} /\ w \in Nat \ {0} /\ y \in 0 .. h - 1 /\ x \in 0 .. w - 1 /\ y \in Int /\ x \in Int
  <2>1. h \in Nat \ {0} /\ w \in Nat \ {0}
    BY PixelInFile
  <2> QED
    BY <2>1 DEF InPicture
<1>2. ASSUME NEW i \in 0 .. h - 1, NEW j \in 0 .. w - 1
      PROVE  img[i][j] = Shown(file, i, j) /\ img[i][j] \in Int
  <2>1. InPicture(i, j, file.h, file.w)
    BY DEF InPicture
  <2>2. Shown(file, i, j) \in Int
    BY <2>1, ShowsNumbers
  <2>3. img[i][j] = Shown(file, i, j)
    BY <2>1, ReadsWhatIsShown
  <2> QED
    BY <2>2, <2>3
<1>3. v \in Int /\ Middle(Reach(n), seen, (n * n) \div 2, v)
  <2> HIDE DEF h, w
  <2>1. Shaped(img, h, w)
    BY DEF h, w
  <2> QED
    BY <1>1, <1>2, <2>1, MedianIsTheMiddle
<1>4. ASSUME NEW t \in Reach(n) PROVE seen[t] = Around(file, y + t[1], x + t[2])
  <2>1. y + t[1] \in Int /\ x + t[2] \in Int
    BY <1>1, InReach
  <2>2. (y + t[1]) % h \in 0 .. h - 1 /\ (x + t[2]) % w \in 0 .. w - 1
    BY <1>1, <2>1, Wraps
  <2>3. seen[t] = img[(y + t[1]) % h][(x + t[2]) % w]
    BY DEF Near, Wrapped
  <2>4. seen[t] = Shown(file, (y + t[1]) % h, (x + t[2]) % w)
    BY <1>2, <2>2, <2>3
  <2> QED
    BY <2>4 DEF Around
<1>5. /\ Less(Reach(n), seen, v) = {t \in Reach(n) : Around(file, y + t[1], x + t[2]) < v}
      /\ NoMore(Reach(n), seen, v) = {t \in Reach(n) : Around(file, y + t[1], x + t[2]) <= v}
  <2> HIDE DEF seen
  <2> QED
    BY <1>4 DEF Less, NoMore
<1>6. Reach(n) = ((-(n \div 2)) .. n \div 2) \X ((-(n \div 2)) .. n \div 2)
  BY DEF Reach, Half
<1> HIDE DEF seen
<1>7. IsMedian(v, n, file, y, x)
  BY <1>3, <1>5, <1>6 DEF IsMedian, IsMiddle, Middle
<1> QED
  BY <1>3, <1>7

(* The filters over the picture, pixel by pixel.                           *)
Pictured == Fits /\ case \in Cases /\ HasPicture
Sum(k, y, x) == Dot(apply_filter(k, Names(Dim.h, Dim.w))[y][x], Channel(world.file))

LEMMA PictureIs ==
  ASSUME Pictured
  PROVE  /\ Readable(world.file) /\ Dim.h = world.file.h /\ Dim.w = world.file.w
         /\ Dim.h \in Nat /\ Dim.w \in Nat /\ input = bmp_img_read(world.file)
  BY FileIsRead, DimensionsFit DEF Pictured, HasPicture

LEMMA SumIsWeighted ==
  ASSUME Pictured, args.filter \in DOMAIN FilterByName, NEW y, NEW x, InPicture(y, x, Dim.h, Dim.w)
  PROVE  LET k == FilterByName[args.filter]
         IN  Tabled(k) /\ Sum(k, y, x) = Weighted(world.file, k, y, x) /\ Sum(k, y, x) \in Int
<1> DEFINE k == FilterByName[args.filter]
<1>1. Tabled(k)
  BY TablesAre
<1> HIDE DEF k
<1>2. Sum(k, y, x) = Weighted(world.file, k, y, x) /\ Weighted(world.file, k, y, x) \in Int
  BY <1>1, PictureIs, WeightedIsSummed DEF Sum
<1> QED
  BY <1>1, <1>2 DEF k

ChannelRead == [p \in (0 .. Dim.h - 1) \X (0 .. Dim.w - 1) |-> input[p[1]][p[2]]]

LEMMA ChannelIsRead == ASSUME Pictured PROVE ChannelRead = Channel(world.file)
  BY PictureIs DEF ChannelRead, Channel

OnGpu(below) == ByLinear(LAMBDA c, channel : GpuValue(FilterByName[args.filter], c, channel, below))

LEMMA FilteredByLinear ==
  ASSUME args.filter # "mm", ~(Dim.h = 0 \/ Dim.w = 0), NEW y, NEW x, InPicture(y, x, Dim.h, Dim.w)
  PROVE  LET k == FilterByName[args.filter]
         IN  Filtered[y][x] = Value(k, apply_filter(k, Names(Dim.h, Dim.w))[y][x], ChannelRead)
  BY DEF Filtered, ByLinear, Image, Names, ChannelRead, InPicture

LEMMA GpuByLinear ==
  ASSUME NEW below, NEW y, NEW x, InPicture(y, x, Dim.h, Dim.w)
  PROVE  LET k == FilterByName[args.filter]
         IN  OnGpu(below)[y][x] = GpuValue(k, apply_filter(k, Names(Dim.h, Dim.w))[y][x], ChannelRead, below)
  BY DEF OnGpu, ByLinear, Image, Names, ChannelRead, InPicture

LEMMA FilteredIsRight ==
  ASSUME Control, pc \in Running, Pictured, args.backend = "cpu", NEW y, NEW x, InPicture(y, x, Dim.h, Dim.w)
  PROVE  Filtered[y][x] \in Int /\ Right(Filtered[y][x], y, x)
<1>1. Dim.h \in Nat /\ Dim.w \in Nat /\ ~(Dim.h = 0 \/ Dim.w = 0)
  <2>1. Dim.h \in Nat /\ Dim.w \in Nat /\ y \in 0 .. Dim.h - 1 /\ x \in 0 .. Dim.w - 1
    BY PictureIs DEF InPicture
  <2> QED
    BY <2>1
<1>2. CASE args.filter = "mm"
  <2> DEFINE img == Image(Dim.h, Dim.w, LAMBDA i, j : input[i][j])
  <2>1. Filtered[y][x] = MedianValues(MedianSize, img)[y][x]
    BY <1>1, <1>2 DEF Filtered
  <2>2. /\ Shaped(img, world.file.h, world.file.w)
        /\ \A i \in 0 .. world.file.h - 1, j \in 0 .. world.file.w - 1 :
             img[i][j] = bmp_img_read(world.file)[i][j]
    BY PictureIs DEF Image, Shaped
  <2>3. InPicture(y, x, world.file.h, world.file.w) /\ Readable(world.file)
    BY PictureIs
  <2>4. MedianSize \in Nat /\ MedianSize % 2 = 1
    BY ProgramAssumption
  <2> HIDE DEF img
  <2>5. Filtered[y][x] \in Int /\ IsMedian(Filtered[y][x], MedianSize, world.file, y, x)
    BY <2>1, <2>2, <2>3, <2>4, MedianIsRight
  <2> QED
    BY <1>2, <2>5 DEF Right
<1>3. CASE args.filter # "mm"
  <2> DEFINE k == FilterByName[args.filter]
  <2>1. args.filter \in DOMAIN FilterByName
    BY <1>3, FilterIsKnown
  <2>2. Tabled(k) /\ Sum(k, y, x) = Weighted(world.file, k, y, x) /\ Sum(k, y, x) \in Int
    BY <2>1, SumIsWeighted
  <2>3. Filtered[y][x] = Value(k, apply_filter(k, Names(Dim.h, Dim.w))[y][x], Channel(world.file))
    BY <1>1, <1>3, FilteredByLinear, ChannelIsRead
  <2> HIDE DEF k
  <2>4. Filtered[y][x] = Clamp(k.bias + Round(Sum(k, y, x), k.den), Byte)
    BY <2>3 DEF Value, Sum, Dot
  <2>5. Filtered[y][x] \in Int /\ IsResult(Filtered[y][x], k, Sum(k, y, x))
    BY <2>2, <2>4, RoundedIsResult
  <2> QED
    BY <1>3, <2>2, <2>5 DEF Right, k
<1> QED
  BY <1>2, <1>3

LEMMA GpuIsRight ==
  ASSUME Control, pc \in Running, Pictured, args.backend = "gpu", args.filter # "mm", NEW below,
         NEW y, NEW x, InPicture(y, x, Dim.h, Dim.w)
  PROVE  OnGpu(below)[y][x] \in Int /\ Right(OnGpu(below)[y][x], y, x)
<1> DEFINE k == FilterByName[args.filter]
           v == OnGpu(below)[y][x]
<1>1. args.filter \in DOMAIN FilterByName
  BY FilterIsKnown
<1>2. Tabled(k) /\ Sum(k, y, x) = Weighted(world.file, k, y, x) /\ Sum(k, y, x) \in Int
  BY <1>1, SumIsWeighted
<1>3. v = GpuValue(k, apply_filter(k, Names(Dim.h, Dim.w))[y][x], Channel(world.file), below)
  BY GpuByLinear, ChannelIsRead
<1> HIDE DEF k, v
<1>4. v = Clamp(k.bias + (Sum(k, y, x) \div k.den)
            - (IF below /\ k.den > 1 /\ Sum(k, y, x) > 0 /\ Sum(k, y, x) % k.den = 0 THEN 1 ELSE 0), Byte)
  BY <1>3 DEF GpuValue, Sum, Dot
<1>5. v \in Int /\ \E d \in {-1, 0, 1} : IsResult(v + d, k, Sum(k, y, x))
  BY <1>2, <1>4, GpuIsNear
<1> QED
  BY <1>2, <1>5 DEF Right, k, v

LEMMA RightPixels ==
  ASSUME Control, pc \in Running, HasPicture, args.backend = "cpu"
  PROVE  RightImage(Filtered)
<1> SUFFICES ASSUME Fits, NEW y \in 0 .. Dim.h - 1, NEW x \in 0 .. Dim.w - 1
             PROVE  Filtered[y][x] \in Int /\ Right(Filtered[y][x], y, x)
  BY DEF RightImage
<1>1. Pictured /\ InPicture(y, x, Dim.h, Dim.w)
  BY DEF Control, Pictured, InPicture
<1> QED
  BY <1>1, FilteredIsRight

LEMMA RightPixelsOnGpu ==
  ASSUME Control, pc \in Running, HasPicture, args.backend = "gpu", args.filter # "mm", NEW below
  PROVE  RightImage(OnGpu(below))
<1> SUFFICES ASSUME Fits, NEW y \in 0 .. Dim.h - 1, NEW x \in 0 .. Dim.w - 1
             PROVE  OnGpu(below)[y][x] \in Int /\ Right(OnGpu(below)[y][x], y, x)
  BY DEF RightImage
<1>1. Pictured /\ InPicture(y, x, Dim.h, Dim.w)
  BY DEF Control, Pictured, InPicture
<1> QED
  BY <1>1, GpuIsRight

LEMMA WrittenIsRight ==
  ASSUME case \in Cases, HasPicture, NEW img, RightImage(img)
  PROVE  RightFile(bmp_img_write(Dim.h, Dim.w, img))
<1> DEFINE file == bmp_img_write(Dim.h, Dim.w, img)
<1> SUFFICES ASSUME Fits, ~Excepted
             PROVE  /\ file.h = world.file.h /\ file.w = world.file.w
                    /\ \A y \in 0 .. file.h - 1, x \in 0 .. file.w - 1 : Right(Shown(file, y, x), y, x)
  BY DEF RightFile
<1>1. Dim.h = world.file.h /\ Dim.w = world.file.w /\ Dim.h \in Nat /\ Dim.w \in Nat
  BY PictureIs DEF Pictured
<1>2. file.h = Dim.h /\ file.w = Dim.w
  BY DEF bmp_img_write
<1>3. ASSUME NEW y \in 0 .. Dim.h - 1, NEW x \in 0 .. Dim.w - 1 PROVE Right(Shown(file, y, x), y, x)
  <2>1. \A i, j \in Int : InPicture(i, j, Dim.h, Dim.w) => img[i][j] \in Int
    BY DEF InPicture, RightImage
  <2>2. InPicture(y, x, Dim.h, Dim.w)
    BY DEF InPicture
  <2>3. Shown(file, y, x) = img[y][x]
    BY <1>1, <2>1, <2>2, ShowsWhatIsWritten
  <2>4. Right(img[y][x], y, x)
    BY DEF RightImage
  <2> QED
    BY <2>3, <2>4
<1> HIDE DEF file
<1> QED
  BY <1>1, <1>2, <1>3

(* The picture and what is right for it do not change on the way; a        *)
(* failure more only excepts more.                                         *)
LEMMA ExceptedStays ==
  ASSUME Same, faults \subseteq faults'
  PROVE  (Fits' <=> Fits) /\ Dim' = Dim /\ world' = world /\ args' = args /\ (Excepted => Excepted')
<1>1. case' = case /\ args' = args
  BY DEF Same
<1>2. world' = world
  BY <1>1 DEF world
<1>3. Dim' = Dim /\ (Fits' <=> Fits)
  BY <1>2 DEF Dim, Fits
<1>4. SmallForTheMedian' <=> SmallForTheMedian
  BY <1>1, <1>3 DEF SmallForTheMedian
<1> QED
  BY <1>1, <1>2, <1>3, <1>4 DEF Excepted

LEMMA RightStays ==
  ASSUME Same, faults \subseteq faults'
  PROVE  /\ RightFile(saved') => RightFile(saved)'
         /\ RightImage(output') => RightImage(output)'
<1>1. (Fits' <=> Fits) /\ Dim' = Dim /\ world' = world /\ args' = args /\ (Excepted => Excepted')
  BY ExceptedStays
<1>2. ASSUME RightFile(saved') PROVE RightFile(saved)'
  BY <1>1, <1>2 DEF RightFile, Right
<1>3. ASSUME RightImage(output') PROVE RightImage(output)'
  BY <1>1, <1>3 DEF RightImage, Right
<1> QED
  BY <1>2, <1>3

LEMMA SavedStays ==
  ASSUME Pixels, Same, faults \subseteq faults', saved' = saved
  PROVE  saved' # None => RightFile(saved)' /\ GpuIsLinear'
<1>1. ASSUME saved' # None PROVE RightFile(saved') /\ GpuIsLinear
  BY <1>1 DEF Pixels
<1>2. GpuIsLinear => GpuIsLinear'
  BY DEF Same, GpuIsLinear
<1> QED
  BY <1>1, <1>2, RightStays

LEMMA PictureStays == ASSUME HasPicture, Same, input' = input PROVE HasPicture'
<1>1. world' = world
  BY DEF Same, world
<1> QED
  BY <1>1 DEF HasPicture

LEMMA BackendIsKnown ==
  ASSUME Control, pc \in Running
  PROVE  args.backend \in {"cpu", "gpu"}
<1>1. args = Verified(Parsed(asked)) /\ case \in Cases
  BY DEF Control, Understood
<1>2. args.backend = asked.backend
  BY <1>1, VerifiedArguments, ParsedArguments
<1> QED
  BY <1>1, <1>2, ProgramAssumption DEF asked

LEMMA PixelsInit == Init => Pixels
  BY DEF Init, Pixels, Parsing

(* The steps, each with what it disturbs: the picture, the result or the   *)
(* file.                                                                   *)
Shows == {"gpu", "mpi", "compute", "save"}

LEMMA PixelsElsewhere ==
  ASSUME Pixels, Same, faults \subseteq faults', saved' = saved,
         pc \notin Parsing \union {"parse"}, pc' \notin Parsing \union {"parse"} \union Shows
  PROVE  Pixels'
  BY SavedStays DEF Pixels, Shows

LEMMA PixelsParsing ==
  ASSUME Control, Pixels, pc \in Parsing \union {"parse"}, [Next]_vars
  PROVE  Pixels'
<1>1. saved' = saved /\ pc' \in Parsing \union {"parse", "failed", "crashed", "show"}
  <2>1. CASE Parse \/ ParseSearchesTooFar \/ ParseWithoutNames
    BY <2>1 DEF Parse, ParseSearchesTooFar, ParseWithoutNames, Frees, Goto, Parsing
  <2>2. CASE SetupFilters \/ SetupFiltersFails \/ GiveUp
    BY <2>2 DEF SetupFilters, SetupFiltersFails, GiveUp, Frees, Goto, Parsing
  <2>3. CASE CreateBackend \/ CreateBackendFails
    BY <2>3 DEF CreateBackend, CreateBackendFails, Goto, Parsing
  <2>4. CASE UNCHANGED vars
    BY <2>4 DEF vars
  <2>5. pc \notin {"show", "run", "gpu", "mpi", "compute", "save", "release", "finish", "destroy", "exit",
                   "done", "failed", "crashed", "waits"}
    BY DEF Parsing
  <2> QED
    BY <2>1, <2>2, <2>3, <2>4, <2>5 DEF Next, Step, Show, RunQueue, SetupImage, SetupImageFails, RunMpi, Compute,
       ComputeOnGpu, Save, Release, Finish, Destroy, Exit, Terminated, Over
<1>2. saved = None /\ None' = None
  BY DEF Pixels, None
<1> QED
  BY <1>1, <1>2 DEF Pixels, Parsing

LEMMA PixelsSetup == ASSUME Control, Pixels, SetupImage PROVE Pixels'
<1>1. Same /\ faults' = faults /\ saved' = saved /\ pc = "run"
  BY DEF SetupImage, Same
<1>2. CASE pc' \notin Shows
  <2>1. pc' \notin Parsing \union {"parse"} /\ pc \notin Parsing \union {"parse"}
    BY DEF SetupImage, Goto, Parsing
  <2> QED
    BY <1>1, <1>2, <2>1, PixelsElsewhere
<1>3. CASE pc' \in Shows
  <2>1. /\ ~TopDown(world.file) /\ Complete(world.file) /\ input' = bmp_img_read(world.file)
        /\ pc' = IF args.backend = "gpu" THEN "gpu"
                 ELSE IF args.mpi /\ world.size > 1 THEN "mpi" ELSE "compute"
    BY <1>3 DEF SetupImage, Goto, Shows
  <2>2. HasPicture'
    BY <1>1, <2>1 DEF HasPicture, world, Same
  <2>3. pc' = "compute" => args'.backend = "cpu"
    <3>1. args.backend \in {"cpu", "gpu"}
      BY <1>1, BackendIsKnown DEF Running
    <3> QED
      BY <1>1, <2>1, <3>1 DEF Same
  <2>4. pc' \notin Parsing \union {"parse", "save"}
    BY <2>1 DEF Parsing
  <2>5. saved' # None' => RightFile(saved)' /\ GpuIsLinear'
    BY <1>1, SavedStays DEF None
  <2> QED
    BY <2>2, <2>3, <2>4, <2>5 DEF Pixels
<1> QED
  BY <1>2, <1>3

LEMMA PixelsMpi == ASSUME Control, Pixels, RunMpi PROVE Pixels'
<1>1. Same /\ faults \subseteq faults' /\ pc = "mpi" /\ input' = input
  BY DEF RunMpi, Same, Fault
<1>2. args.backend = "cpu" /\ HasPicture
  BY <1>1 DEF Control, Understood, Pixels
<1>3. pc' \in {"release", "compute", "failed", "crashed"}
  BY DEF RunMpi, Goto
<1>4. saved' # None' => RightFile(saved)' /\ GpuIsLinear'
  <2>1. CASE saved' = saved
    BY <1>1, <2>1, SavedStays DEF None
  <2>2. CASE saved' = bmp_img_write(Dim.h, Dim.w, Filtered)
    <3>1. RightImage(Filtered)
      BY <1>1, <1>2, RightPixels DEF Running
    <3>2. RightFile(bmp_img_write(Dim.h, Dim.w, Filtered))
      BY <1>2, <3>1, WrittenIsRight DEF Control
    <3>3. RightFile(saved)'
      BY <1>1, <2>2, <3>2, RightStays
    <3>4. GpuIsLinear'
      BY <1>1, <1>2 DEF GpuIsLinear, Same
    <3> QED
      BY <3>3, <3>4
  <2> QED
    BY <2>1, <2>2 DEF RunMpi
<1>5. HasPicture' /\ args'.backend = "cpu"
  BY <1>1, <1>2, PictureStays DEF Same
<1> QED
  BY <1>3, <1>4, <1>5 DEF Pixels, Parsing

LEMMA PixelsCompute == ASSUME Control, Pixels, Compute PROVE Pixels'
<1>1. Same /\ faults \subseteq faults' /\ pc = "compute" /\ input' = input /\ saved' = saved
  BY DEF Compute, Same, Fault
<1>2. args.backend = "cpu" /\ HasPicture
  BY <1>1 DEF Pixels
<1>3. pc' \in {"save", "release", "crashed", "waits"}
  BY DEF Compute, Goto
<1>4. ASSUME pc' = "save" PROVE RightImage(output)'
  <2>1. CASE output' = Filtered
    <3>1. RightImage(Filtered)
      BY <1>1, <1>2, RightPixels DEF Running
    <3> QED
      BY <1>1, <2>1, <3>1, RightStays
  <2>2. CASE args.filter = "mm" /\ (SmallForTheMedian \/ "memory" \in faults')
    <3>1. Excepted'
      <4>1. SmallForTheMedian => Excepted'
        BY <1>1, ExceptedStays DEF Excepted
      <4> QED
        BY <1>1, <2>2, <4>1 DEF Excepted, Same
    <3> QED
      BY <3>1 DEF RightImage
  <2> QED
    BY <1>4, <2>1, <2>2 DEF Compute, Goto, Fault
<1>5. saved' # None' => RightFile(saved)' /\ GpuIsLinear'
  BY <1>1, SavedStays DEF None
<1>6. HasPicture' /\ GpuIsLinear'
  BY <1>1, <1>2, PictureStays DEF GpuIsLinear, Same
<1> QED
  BY <1>3, <1>4, <1>5, <1>6 DEF Pixels, Parsing

LEMMA PixelsGpu == ASSUME Control, Pixels, ComputeOnGpu PROVE Pixels'
<1>1. Same /\ faults \subseteq faults' /\ pc = "gpu" /\ input' = input /\ saved' = saved
  BY DEF ComputeOnGpu, OpenCL, Same, Fault
<1>2. args.backend = "gpu" /\ HasPicture
  BY <1>1 DEF Control, Understood, Pixels
<1>3. pc' \in {"save", "release", "crashed", "finish"}
  BY DEF ComputeOnGpu, OpenCL, Frees, Goto
<1>4. ASSUME pc' = "save" PROVE RightImage(output)' /\ args.filter # "mm"
  <2>1. ~RefusedByGpu /\ \E below \in BOOLEAN : output' = OnGpu(below)
    BY <1>4 DEF ComputeOnGpu, OpenCL, Frees, Goto, OnGpu
  <2>2. args.filter # "mm"
    BY <2>1 DEF RefusedByGpu
  <2>3. PICK below \in BOOLEAN : output' = OnGpu(below)
    BY <2>1
  <2>4. RightImage(OnGpu(below))
    BY <1>1, <1>2, <2>2, RightPixelsOnGpu DEF Running
  <2> QED
    BY <1>1, <2>2, <2>3, <2>4, RightStays
<1>5. saved' # None' => RightFile(saved)' /\ GpuIsLinear'
  BY <1>1, SavedStays DEF None
<1>6. HasPicture' /\ (args.filter # "mm" => GpuIsLinear')
  BY <1>1, <1>2, PictureStays DEF GpuIsLinear, Same
<1> QED
  BY <1>3, <1>4, <1>5, <1>6 DEF Pixels, Parsing

LEMMA PixelsSave == ASSUME Control, Pixels, Save PROVE Pixels'
<1>1. Same /\ faults \subseteq faults' /\ pc = "save" /\ pc' = "release"
  BY DEF Save, Same, Fault, Goto
<1>2. HasPicture /\ RightImage(output) /\ GpuIsLinear
  BY <1>1 DEF Pixels
<1>3. saved' # None' => RightFile(saved)' /\ GpuIsLinear'
  <2>1. CASE saved' = saved
    BY <1>1, <2>1, SavedStays DEF None
  <2>2. CASE saved' = bmp_img_write(Dim.h, Dim.w, output)
    <3>1. RightFile(bmp_img_write(Dim.h, Dim.w, output))
      BY <1>2, WrittenIsRight DEF Control
    <3>2. RightFile(saved)' /\ GpuIsLinear'
      BY <1>1, <1>2, <2>2, <3>1, RightStays DEF GpuIsLinear, Same
    <3> QED
      BY <3>2
  <2> QED
    BY <2>1, <2>2 DEF Save
<1> QED
  BY <1>1, <1>3 DEF Pixels, Parsing

LEMMA PixelsNext == ASSUME Control, Pixels, [Next]_vars PROVE Pixels'
<1>1. CASE pc \in Parsing \union {"parse"}
  BY <1>1, PixelsParsing
<1>2. CASE pc \notin Parsing \union {"parse"}
  <2>1. CASE Show \/ RunQueue \/ SetupImageFails \/ Release \/ Finish \/ Destroy \/ Exit
    <3>1. Same /\ faults \subseteq faults' /\ saved' = saved
      BY <2>1 DEF Show, RunQueue, SetupImageFails, Release, Finish, Destroy, Exit, Same, Fault
    <3>2. pc' \in {"run", "waits", "finish", "crashed", "failed", "release", "destroy", "exit", "done"}
      BY <2>1 DEF Show, RunQueue, SetupImageFails, Release, Finish, Destroy, Exit, Frees, Goto
    <3>3. pc' \notin Parsing \union {"parse"} \union Shows
      BY <3>2 DEF Parsing, Shows
    <3> QED
      BY <1>2, <3>1, <3>3, PixelsElsewhere
  <2>2. CASE SetupImage \/ RunMpi \/ Compute \/ ComputeOnGpu \/ Save
    BY <2>2, PixelsSetup, PixelsMpi, PixelsCompute, PixelsGpu, PixelsSave
  <2>3. CASE UNCHANGED vars
    <3>1. Same /\ faults' = faults /\ saved' = saved /\ input' = input /\ pc' = pc /\ output' = output
      BY <2>3 DEF vars, Same
    <3>2. saved' # None' => RightFile(saved)' /\ GpuIsLinear'
      BY <3>1, SavedStays DEF None
    <3>3. pc \in Shows => HasPicture'
      BY <3>1, PictureStays DEF Pixels, Shows
    <3>4. pc = "save" => RightImage(output)' /\ GpuIsLinear'
      BY <3>1, RightStays DEF Pixels, GpuIsLinear, Same
    <3> QED
      BY <1>2, <3>1, <3>2, <3>3, <3>4 DEF Pixels, Same, Shows
  <2>4. ~(Parse \/ ParseSearchesTooFar \/ ParseWithoutNames \/ SetupFilters \/ SetupFiltersFails \/ GiveUp
          \/ CreateBackend \/ CreateBackendFails)
    BY <1>2 DEF Parse, ParseSearchesTooFar, ParseWithoutNames, SetupFilters, SetupFiltersFails, GiveUp,
       CreateBackend, CreateBackendFails, Parsing
  <2> QED
    BY <2>1, <2>2, <2>3, <2>4 DEF Next, Step, Terminated
<1> QED
  BY <1>1, <1>2

(* What is read, what is computed of it and what is written of that        *)
(* (Pixels).                                                               *)
THEOREM PixelsHold == Spec => []Pixels
<1>1. Control /\ Pixels /\ [Next]_vars => Pixels'
  BY PixelsNext
<1> QED
  BY PixelsInit, ControlHolds, <1>1, PTL DEF Spec

(* The file the CPU backend writes shows the filter's result for every     *)
(* place of the input's picture (SavedIsFiltered).                         *)
THEOREM TheFilteredIsSaved == Spec => []SavedIsFiltered
<1>1. Pixels => SavedIsFiltered
  <2> SUFFICES ASSUME Pixels, args.backend = "cpu", ~Excepted, saved # None, Fits
               PROVE  /\ saved.h = world.file.h /\ saved.w = world.file.w
                      /\ \A y \in 0 .. saved.h - 1, x \in 0 .. saved.w - 1 :
                           IF args.filter = "mm" THEN IsMedian(Shown(saved, y, x), MedianSize, world.file, y, x)
                           ELSE LET k == FilterByName[args.filter]
                                IN  IsResult(Shown(saved, y, x), k, Weighted(world.file, k, y, x))
    BY DEF SavedIsFiltered, ForSaved, Excepted
  <2>1. RightFile(saved)
    BY DEF Pixels
  <2> QED
    BY <2>1 DEF RightFile, Right
<1> QED
  BY PixelsHold, <1>1, PTL

(* The file the GPU backend writes is within one step of a channel of it   *)
(* (GpuCloseToCpu).                                                        *)
THEOREM TheGpuIsClose == Spec => []GpuCloseToCpu
<1>1. Pixels => GpuCloseToCpu
  <2> SUFFICES ASSUME Pixels, args.backend = "gpu", saved # None, Fits
               PROVE  /\ saved.h = world.file.h /\ saved.w = world.file.w
                      /\ \A y \in 0 .. saved.h - 1, x \in 0 .. saved.w - 1 :
                           LET k == FilterByName[args.filter]
                           IN  \E d \in {-1, 0, 1} :
                                 IsResult(Shown(saved, y, x) + d, k, Weighted(world.file, k, y, x))
    BY DEF GpuCloseToCpu, ForSaved
  <2>1. RightFile(saved) /\ GpuIsLinear
    BY DEF Pixels
  <2>2. ~Excepted
    BY <2>1 DEF GpuIsLinear, Excepted, SmallForTheMedian
  <2> QED
    BY <2>1, <2>2 DEF RightFile, Right
<1> QED
  BY PixelsHold, <1>1, PTL
=============================================================================
