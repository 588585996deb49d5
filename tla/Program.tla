------------------------------- MODULE Program -------------------------------
(***************************************************************************)
(* One process from main to its exit (bmp-conv.c): the command line, the   *)
(* backend, the image, the computation, the result, the log, and what is   *)
(* freed on each of the ways out.                                          *)
(*                                                                         *)
(* The computations are those of the other modules, seen from outside:     *)
(* QmtPipeline and MpiRun by what they promise (QmtBatch, MpiJob), the     *)
(* threads of MtCompute by the image they complete.                        *)
(***************************************************************************)
EXTENDS Arguments, Bitmap

CONSTANTS
  Cases,        (* [asked, world]: a command line, and where it is run     *)
  DimWord,      (* 2^16 in the code: the values of struct img_dim          *)
  MedianSize,   (* 15 in the code                                          *)
  NameLength,   (* of the file names                                       *)
  GroupLimit,   (* the work items in a work group of the GPU               *)
  Faults, MaxFaults

(* memory: an allocation or a thread; write: bmp_img_write; device: a call *)
(* of OpenCL; clock: no positive time is measured; job: the MPI job or a   *)
(* thread of the queues fails.                                             *)
FaultKind == {"memory", "write", "device", "clock", "job"}

(* A world has the rank and number of processes, whether OpenCL was        *)
(* compiled in, and the input file; one that is not there has no bytes.    *)

ASSUME ProgramAssumption ==
  /\ DimWord \in Nat \ {0} /\ GroupLimit \in Nat /\ NameLength \in Nat
  /\ MedianSize \in Nat /\ MedianSize % 2 = 1
  /\ Faults \subseteq FaultKind /\ MaxFaults \in Nat
  /\ \A c \in Cases :
       /\ c.asked.backend \in {"cpu", "gpu"}
       /\ c.asked.block \in Int \union {NotGiven} /\ c.asked.threadnum \in Int \union {NotGiven}
       /\ c.world.rank < c.world.size /\ c.world.file \in BmpFile
       /\ c.asked.mpi /\ c.world.size > 1 => c.asked.filter # "mm" /\ c.world.file.h > 0

VARIABLES
  case,      \* what was typed, and where
  pc,        \* the place in main
  args,      \* struct p_args
  owned,     \* what is allocated and not freed
  mpi,       \* "out", "in" from MPI_Init on, "done" from MPI_Finalize on
  input,     \* the pixels of the image read
  output,    \* the pixels of the result
  time,      \* the time measured: "none" if it is not positive
  saved,     \* the file written
  logged,    \* the line of the timing log
  faults     \* the failures so far

vars == <<case, pc, args, owned, mpi, input, output, time, saved, logged, faults>>

asked == case.asked
world == case.world
None  == <<>>

Init ==
  /\ case \in Cases
  /\ pc = "parse" /\ args = Default /\ owned = {"args"}
  /\ mpi = "out" /\ input = None /\ output = None /\ time = "none" /\ saved = None /\ logged = None
  /\ faults = {}

Goto(place) == pc' = place
Fault(kind) == kind \in Faults /\ Cardinality(faults) < MaxFaults /\ faults' = faults \union {kind}

(* free and use: of what is not there, they end the process.               *)
Frees(objects, place) ==
  IF objects \subseteq owned
  THEN owned' = owned \ objects /\ Goto(place)
  ELSE UNCHANGED owned /\ Goto("crashed")

-----------------------------------------------------------------------------
(* parse_args.  When it fails, main frees the arguments.                   *)
Parse ==
  /\ pc = "parse"
  /\ IF Accepted(asked)
     THEN /\ args' = Parsed(asked)
          /\ owned' = owned \union {"names"}
          /\ Goto("filters")
     ELSE /\ Frees({"args"}, "failed")
          /\ UNCHANGED args
  /\ UNCHANGED <<case, mpi, input, output, time, saved, logged, faults>>

ParseSearchesTooFar ==
  /\ pc = "parse" /\ SearchesTooFar(asked)
  /\ Goto("crashed")
  /\ UNCHANGED <<case, args, owned, mpi, input, output, time, saved, logged, faults>>

(* There is no room for the names, which is only logged.                   *)
ParseWithoutNames ==
  /\ pc = "parse" /\ Fault("memory")
  /\ \/ Goto("crashed") /\ UNCHANGED owned
     \/ ~Accepted(asked) /\ Frees({"args"}, "failed")
  /\ UNCHANGED <<case, args, mpi, input, output, time, saved, logged>>

SetupFilters ==
  /\ pc = "filters"
  /\ owned' = owned \union {"filters"}
  /\ Goto("create")
  /\ UNCHANGED <<case, args, mpi, input, output, time, saved, logged, faults>>

(* setup_filters frees the arguments when it fails, and so does main then; *)
(* init_filters ends the process.                                          *)
SetupFiltersFails ==
  /\ pc = "filters" /\ Fault("memory")
  /\ \/ Frees({"args"}, "noFilters")
     \/ Goto("failed") /\ UNCHANGED owned
  /\ UNCHANGED <<case, args, mpi, input, output, time, saved, logged>>

GiveUp ==
  /\ pc \in {"noFilters", "noBackend"}
  /\ Frees(IF pc = "noFilters" THEN {"args"} ELSE {"filters", "args"}, "failed")
  /\ UNCHANGED <<case, args, mpi, input, output, time, saved, logged, faults>>

(* compute_backend_create with cpu_init or gpu_init.                       *)
BackendObjects == IF args.backend = "cpu" THEN {"backend", "data"} ELSE {"backend"}
CreateBackend ==
  /\ pc = "create"
  /\ IF Verifies(args)
     THEN /\ args' = Verified(args)
          /\ owned' = owned \union BackendObjects
          /\ mpi' = IF args.backend = "cpu" /\ args.mpi THEN "in" ELSE mpi
          /\ Goto("show")
     ELSE /\ Goto("noBackend")
          /\ UNCHANGED <<args, owned, mpi>>
  /\ UNCHANGED <<case, input, output, time, saved, logged, faults>>

CreateBackendFails ==
  /\ pc = "create" /\ Fault("memory")
  /\ Goto("noBackend")
  /\ UNCHANGED <<case, args, owned, mpi, input, output, time, saved, logged>>

(* cli_st_display_init: too many names do not fit into their buffer.       *)
Overruns == ListedBytes(args.files, NameLength) > ListSize
Show ==
  /\ pc = "show"
  /\ \/ Goto("run")
     \/ Overruns /\ Goto("crashed")
  /\ UNCHANGED <<case, args, owned, mpi, input, output, time, saved, logged, faults>>

-----------------------------------------------------------------------------
(* cpu_process_queue_mode.  With queues of no capacity it never returns; a *)
(* queue without memory is used all the same.  A file that cannot be read  *)
(* ends the process; one that cannot be written, and a reader that cannot  *)
(* be created, leave it waiting (QmtPipeline).                             *)
RunQueue ==
  /\ pc = "run" /\ args.queue
  /\ \/ args.capacity = 0 /\ Goto("waits") /\ UNCHANGED <<time, faults>>
     \/ args.capacity > 0 /\ Goto("finish") /\ time' = "some" /\ UNCHANGED faults
     \/ Fault("memory") /\ pc' \in {"finish", "crashed"} /\ UNCHANGED time
     \/ Fault("clock") /\ Goto("finish") /\ UNCHANGED time
     \/ Fault("job") /\ pc' \in {"failed", "waits"} /\ UNCHANGED time
  /\ UNCHANGED <<case, args, owned, mpi, input, output, saved, logged>>

(* init_dimensions keeps 16 bits of each dimension.                        *)
Dim == [h |-> world.file.h % DimWord, w |-> world.file.w % DimWord]

(* setup_img_spec.                                                         *)
SetupImage ==
  /\ pc = "run" /\ ~args.queue
  /\ IF TopDown(world.file)
     THEN Goto("crashed") /\ UNCHANGED <<owned, input>>
     ELSE IF ~Complete(world.file)
     THEN Goto("release") /\ UNCHANGED <<owned, input>>
     ELSE /\ input' = bmp_img_read(world.file)
          /\ owned' = owned \union {"spec"}
          /\ Goto(IF args.backend = "gpu" THEN "gpu"
                  ELSE IF args.mpi /\ world.size > 1 THEN "mpi" ELSE "compute")
  /\ UNCHANGED <<case, args, mpi, output, time, saved, logged, faults>>

(* No memory for the image: what bmp_img_alloc gets is used unseen.        *)
SetupImageFails ==
  /\ pc = "run" /\ ~args.queue /\ Fault("memory")
  /\ pc' \in {"release", "crashed"}
  /\ UNCHANGED <<case, args, owned, mpi, input, output, time, saved, logged>>

(* filter_part_computation over the whole image.                           *)
ByLinear(value(_, _)) ==
  LET k == FilterByName[args.filter]
      combined == apply_filter(k, Image(Dim.h, Dim.w, LAMBDA y, x : <<y, x>>))
      channel  == [p \in (0 .. Dim.h - 1) \X (0 .. Dim.w - 1) |-> input[p[1]][p[2]]]
  IN  Image(Dim.h, Dim.w, LAMBDA y, x : value(combined[y][x], channel))
Filtered ==
  IF Dim.h = 0 \/ Dim.w = 0 THEN Image(Dim.h, Dim.w, LAMBDA y, x : 0)
  ELSE IF args.filter = "mm" THEN MedianValues(MedianSize, Image(Dim.h, Dim.w, LAMBDA y, x : input[y][x]))
  ELSE ByLinear(LAMBDA c, channel : Value(FilterByName[args.filter], c, channel))

(* Where the median wraps to a negative place.                             *)
SmallForTheMedian ==
  /\ args.filter = "mm" /\ Dim.h > 0 /\ Dim.w > 0
  /\ Dim.h < MedianSize \div 2 \/ Dim.w < MedianSize \div 2

(* execute_mpi_computation: the promise of MpiJob, with the exceptions of  *)
(* MpiRun.  A job that has taken no measurable time goes on with a         *)
(* computation of its own.                                                 *)
TransposedTooWide == args.mode = ModeNumber.by_column /\ Dim.w > Dim.h
RunMpi ==
  /\ pc = "mpi"
  /\ \/ /\ args.mode \in {ModeNumber.by_row, ModeNumber.by_column}
        /\ saved' = IF world.rank = 0 THEN bmp_img_write(Dim.h, Dim.w, Filtered) ELSE saved
        /\ \/ time' = "some" /\ Goto("release") /\ UNCHANGED faults
           \/ Fault("clock") /\ Goto("compute") /\ UNCHANGED time
     \/ Fault("write") /\ time' = "some" /\ Goto("release") /\ UNCHANGED saved
     \/ Fault("job") /\ Goto("failed") /\ UNCHANGED <<time, saved>>
     \/ /\ args.mode \notin {ModeNumber.by_row, ModeNumber.by_column}
        /\ Goto("failed") /\ UNCHANGED <<time, saved, faults>>
     \/ TransposedTooWide /\ Goto("crashed") /\ UNCHANGED <<time, saved, faults>>
  /\ UNCHANGED <<case, args, owned, mpi, input, output, logged>>

(* Byte is the value of a pixel that nobody computed.                      *)
Uncomputed == Image(Dim.h, Dim.w, LAMBDA y, x : Byte)

(* execute_st_computation and execute_mt_computation.  The median without  *)
(* memory for its windows returns as if it had computed its region.        *)
Compute ==
  /\ pc = "compute"
  /\ LET threads == ThreadsOf(args, world.size)
     IN  IF threads < 1
         THEN Goto("crashed") /\ UNCHANGED <<output, time, faults>>
         ELSE IF threads > 1 /\ args.block = 0 /\ args.mode # ModeNumber.by_pixel
         THEN Goto("waits") /\ UNCHANGED <<output, time, faults>>
         ELSE \/ /\ ~SmallForTheMedian
                 /\ output' = Filtered /\ time' = "some" /\ Goto("save") /\ UNCHANGED faults
              \/ /\ args.filter = "mm"
                 /\ (SmallForTheMedian /\ UNCHANGED faults) \/ Fault("memory")
                 /\ output' = Uncomputed /\ time' = "some" /\ Goto("save")
              \/ SmallForTheMedian /\ Goto("crashed") /\ UNCHANGED <<output, time, faults>>
              \/ /\ \E kind \in {"memory", "clock"} : Fault(kind)
                 /\ Goto("release") /\ UNCHANGED <<output, time>>
  /\ UNCHANGED <<case, args, owned, mpi, input, saved, logged>>

(* opencl_execute_basic_computation: the median has no table of weights,   *)
(* and a block may be more than the device takes as one group.             *)
RefusedByGpu == args.filter = "mm" \/ args.block * args.block > GroupLimit \/ Dim.h * Dim.w = 0
OpenCL ==
  \/ /\ ~RefusedByGpu
     /\ \E below \in BOOLEAN :
          output' = ByLinear(LAMBDA c, channel : GpuValue(FilterByName[args.filter], c, channel, below))
     /\ time' = "some" /\ Goto("save") /\ UNCHANGED faults
  \/ /\ IF RefusedByGpu THEN UNCHANGED faults ELSE \E kind \in {"memory", "device", "clock"} : Fault(kind)
     /\ Goto("release") /\ UNCHANGED <<output, time>>

(* gpu_process_non_queue_mode: without OpenCL it frees the backend and     *)
(* returns.                                                                *)
ComputeOnGpu ==
  /\ pc = "gpu"
  /\ IF world.opencl THEN OpenCL /\ UNCHANGED owned
                     ELSE Frees({"backend"}, "finish") /\ UNCHANGED <<output, time, faults>>
  /\ UNCHANGED <<case, args, mpi, input, saved, logged>>

(* save_result_image does not look at the result of bmp_img_write.         *)
Save ==
  /\ pc = "save"
  /\ \/ saved' = bmp_img_write(Dim.h, Dim.w, output) /\ UNCHANGED faults
     \/ Fault("write") /\ UNCHANGED saved
  /\ Goto("release")
  /\ UNCHANGED <<case, args, owned, mpi, input, output, time, logged>>

Release ==
  /\ pc = "release"
  /\ Frees(owned \intersect {"spec"}, "finish")
  /\ UNCHANGED <<case, args, mpi, input, output, time, saved, logged, faults>>

-----------------------------------------------------------------------------
(* A plausible bug: every process of a job takes itself for the first.     *)
EveryRankLogs == 0

(* cpu_get_logging_rank and gpu_get_logging_rank.                          *)
LoggingRank == IF mpi = "in" /\ "data" \in owned THEN world.rank ELSE 0

(* cli_st_display_finish looks at the backend; write_logs writes the       *)
(* thread count of the arguments.                                          *)
Finish ==
  /\ pc = "finish"
  /\ Goto(IF "backend" \in owned THEN "destroy" ELSE "crashed")
  /\ logged' = IF "backend" \in owned /\ time = "some" /\ LoggingRank = 0 /\ args.log
               THEN [threads |-> threadnum(args), block |-> args.block] ELSE logged
  /\ UNCHANGED <<case, args, owned, mpi, input, output, time, saved, faults>>

(* A plausible bug: the cleanup of a job that has no data left behind is   *)
(* skipped, MPI_Finalize with it.                                          *)
DestroyWithoutCleanup ==
  /\ pc = "destroy"
  /\ Frees(BackendObjects, "exit")
  /\ UNCHANGED <<case, args, mpi, input, output, time, saved, logged, faults>>

(* compute_backend_destroy with cpu_cleanup or gpu_cleanup.                *)
Destroy ==
  /\ pc = "destroy"
  /\ Frees(BackendObjects, "exit")
  /\ mpi' = IF mpi = "in" THEN "done" ELSE mpi
  /\ UNCHANGED <<case, args, input, output, time, saved, logged, faults>>

Exit ==
  /\ pc = "exit"
  /\ Frees({"filters", "names", "args"}, "done")
  /\ UNCHANGED <<case, args, mpi, input, output, time, saved, logged, faults>>

Over == pc \in {"done", "failed", "crashed"}
Terminated == (Over \/ pc = "waits") /\ UNCHANGED vars

Step ==
  \/ Parse \/ ParseSearchesTooFar \/ ParseWithoutNames
  \/ SetupFilters \/ SetupFiltersFails \/ GiveUp
  \/ CreateBackend \/ CreateBackendFails \/ Show
  \/ RunQueue \/ SetupImage \/ SetupImageFails \/ RunMpi \/ Compute \/ ComputeOnGpu
  \/ Save \/ Release \/ Finish \/ Destroy \/ Exit

Next == Step \/ Terminated
Spec == Init /\ [][Next]_vars
FairSpec == Spec /\ WF_vars(Step)

-----------------------------------------------------------------------------
(* What a BMP file shows at a place, and beyond its edge.                  *)
Shown(file, y, x) == file.bytes[(file.h - 1 - y) * RowBytes(file.w) + PixelBytes * x + 1]
Nearest(i, n) == CHOOSE j \in 0 .. n - 1 : \A m \in 0 .. n - 1 : Abs(i - j) <= Abs(i - m)
Beyond(file, y, x) == Shown(file, Nearest(y, file.h), Nearest(x, file.w))
Around(file, y, x) == Shown(file, y % file.h, x % file.w)

(* The weighted sum around a pixel, and v as its result in a byte.         *)
Weighted(file, k, y, x) ==
  MapThenSumSet(LAMBDA t : k.at[t[1]][t[2]] * Beyond(file, y + t[1] - Padding(k), x + t[2] - Padding(k)),
                (0 .. k.size - 1) \X (0 .. k.size - 1))
IsResult(v, k, acc) ==
  LET twice == 2 * (acc + k.bias * k.den)
  IN  \/ v = 0 /\ twice <= k.den
      \/ v = 255 /\ twice >= 509 * k.den
      \/ v \in 0 .. 255 /\ Abs(twice - 2 * v * k.den) <= k.den
IsMiddle(v, n, seen(_, _)) ==
  LET taps == ((-(n \div 2)) .. n \div 2) \X ((-(n \div 2)) .. n \div 2)
  IN  /\ Cardinality({t \in taps : seen(t[1], t[2]) < v}) <= (n * n) \div 2
      /\ Cardinality({t \in taps : seen(t[1], t[2]) <= v}) > (n * n) \div 2
IsMedian(v, n, file, y, x) == IsMiddle(v, n, LAMBDA i, j : Around(file, y + i, x + j))

Fits == world.file.h < DimWord /\ world.file.w < DimWord
ForSaved(good(_, _, _)) ==
  saved # None /\ Fits =>
    /\ saved.h = world.file.h /\ saved.w = world.file.w
    /\ \A y \in 0 .. saved.h - 1, x \in 0 .. saved.w - 1 : good(Shown(saved, y, x), y, x)

(* The file the CPU backend writes shows, at every place, the filter's     *)
(* result for that place of the picture in the input file: neither the     *)
(* order of the rows, nor their padding, nor an edge, nor the selection of *)
(* the median gets in between (libbmp.c:125-205, threads-general.c:168-286,*)
(* utils.c:27-52).  Beyond the edge a linear filter sees the nearest pixel *)
(* and the median the opposite edge (threads-general.c:262-263; Filters.md *)
(* speaks of clamping for all filters).  Known to be excepted: the median  *)
(* of an image smaller than half its window, and the median without memory *)
(* for a window, which saves what the memory of the result held before.    *)
SavedIsFiltered ==
  args.backend = "cpu" /\ ~SmallForTheMedian /\ ~(args.filter = "mm" /\ "memory" \in faults) => ForSaved(LAMBDA v, y, x :
    IF args.filter = "mm" THEN IsMedian(v, MedianSize, world.file, y, x)
    ELSE LET k == FilterByName[args.filter] IN IsResult(v, k, Weighted(world.file, k, y, x)))

(* The GPU's result may differ from it by one step of a channel, no more   *)
(* (mw-kernels.cl:56-58).                                                  *)
GpuCloseToCpu ==
  args.backend = "gpu" => ForSaved(LAMBDA v, y, x :
    LET k == FilterByName[args.filter]
    IN  \E d \in {-1, 0, 1} : IsResult(v + d, k, Weighted(world.file, k, y, x)))

(* What is accepted is what the computations take for granted: a block,    *)
(* threads as many as were asked for (in a byte) or one, three or more     *)
(* files and a thread of each kind for the queues (args-parse.c:56-60,     *)
(* 97-107,154-163, cpu-backend.c:30-51,88-95,120-125).                     *)
AcceptedIsRunnable ==
  /\ pc \in {"compute", "mpi", "gpu"} =>
       args.block \in 1 .. 255 /\ args.filter # NotGiven /\ args.mode \in 0 .. 3
  /\ pc = "compute" =>
       LET threads == ThreadsOf(args, world.size)
       IN  \/ args.mpi /\ world.size > 1 /\ threads = 1
           \/ threads = (Given(asked.threadnum, 1) % 256)
  /\ pc = "run" /\ args.queue =>
       /\ args.files > 2 /\ args.readers > 0 /\ args.workers > 0 /\ writer_cnt(args) > 0
       /\ args.readers = asked.rww[1] /\ args.workers = asked.rww[2] /\ writer_cnt(args) = asked.rww[3]

(* Nothing is freed twice or used after it was freed, and no memory that   *)
(* is not there is used, except where it is known: the arguments after a   *)
(* failed allocation, the backend of a GPU that was not compiled in, an    *)
(* unknown mode, many names, images stored top down, images small for the  *)
(* median, images wider than high in by_column mode with MPI.              *)
CrashesForAReason ==
  pc = "crashed" =>
    \/ "memory" \in faults
    \/ args.backend = "gpu" /\ ~world.opencl
    \/ SearchesTooFar(asked) \/ Overruns
    \/ TopDown(world.file) \/ SmallForTheMedian
    \/ args.mpi /\ TransposedTooWide

(* A process that gets to the end of main has freed what it had, once, and *)
(* has left MPI if it was in it (bmp-conv.c:70-84, cpu-backend.c:213-226). *)
LeavesNothing == pc = "done" => owned = {} /\ mpi # "in"

(* One process of a job writes to the log, and only of an image that was   *)
(* saved, unless writing it failed without a word; a thread count that was *)
(* given is the one logged (bmp-conv.c:70-75, cpu-backend.c:148-164).      *)
LogIsTrue ==
  logged # None =>
    /\ mpi \in {"in", "done"} => world.rank = 0
    /\ args.queue \/ saved # None \/ "write" \in faults
    /\ logged.block > 0
    /\ asked.threadnum # NotGiven => logged.threads = asked.threadnum % 256

(* The process ends, except with queues that have no room for an image     *)
(* (args-parse.c:81) or whose threads fail.                                *)
Ends == asked.capacity = 0 \/ <>(Over \/ (args.queue /\ "job" \in faults))
=============================================================================
