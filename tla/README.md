# A TLA+ model of bmp-conv

bmp-conv applies convolution filters to BMP images: on one thread, on several
threads per image, on a pipeline of threads for a batch of images, over MPI, or
on a GPU. This directory models it in TLA+, from the command line to the file
that is written, checks it with TLC on small instances and proves with TLAPS, for
instances of every size, all of the safety properties that TLC checks and the
four refinements, some under a hypothesis that section 4 names.
Source paths below are relative to the repository; `PROJECT.json` maps every
definition to the lines it models.

## 1. The system

| Component | State | Operations | Talks to |
|---|---|---|---|
| **image queue** `src/backend/cpu/qmt/utils/qmt-queue.c` | ring of `queue_img_info`, `front`, `rear`, `size`, `current_mem_usage`, a mutex, `cond_non_full`, `cond_non_empty` | `queue_init`, `queue_push`, `queue_pop`, `queue_destroy` | called by all pipeline threads; reads `written_files` |
| **queue-mode threads** `qmt/qmt-threads.c` | globals `read_files`, `written_files`; per thread its place in the loop and the image in its hands | `reader_thread`, `worker_thread`, `writer_thread` | two queues, the barrier, the disk |
| **queue-mode orchestration** `qmt/qmt-exec.c`, `cpu/cpu-backend.c` | thread arrays and how many of them exist, barrier, queues | `allocate_qthread_resources`, `create_qthreads`, `join_qthreads`, `free_qthread_resources` | creates and joins the threads |
| **multi-threaded computation** `mt/mt-compute.c`, `mt/mt-exec.c` | `st_next_x_block`, `st_next_y_block` (`uint16_t`), the mutex, each thread's region | `process_by_row/column/grid/pixel`, `sthread_function`, `execute_mt_computation` | filter kernels; its caller saves the image |
| **single-threaded computation** `st/st-exec.c` | none | one call of the kernels | filter kernels |
| **filter kernels** `utils/threads-general.c`, `filters.c`, `utils.c` | the table of the filters; else pure over an image | `apply_filter`, `apply_median_filter`, `selectKth` | all backends |
| **MPI computation** `cpu/mpi/**` | per rank: its share, its halo, its buffers; rank 0: counts and displacements, the image | distribute, broadcast, scatter, compute, gather, save; abort | ranks, through collective calls |
| **arguments** `utils/args-parse.c` | `struct p_args`, with a union of `threadnum` and the queue-mode counts | parse, verify | every component's parameters |
| **backend lifecycle** `compute-backend.c`, `bmp-conv.c`, `cpu-backend.c` | the backend, its operations, its data; `MPI_Init` and `MPI_Finalize` | create, init, run, cleanup, destroy | main, CPU and GPU backends |
| **GPU backend** `backend/gpu/**` | OpenCL objects | set up, launch, read back | OpenCL |
| **BMP library** `libbmp/` | none | read and write an image file | every mode |
| **display, logger, timing logs** `utils/cli.c`, `logger/`, `utils/utils.c` | an error list, callbacks, files | log, append | all |

### The pipeline (queue mode)

    files --> readers --input_q--> workers --output_q--> writers --> disk
                 |                    |                     |
             read_files          (both poll)  <----- written_files

A reader claims the next file with `fetch_add` on `read_files` (and takes an
overshoot back with `fetch_sub`), loads it and pushes it. A worker pops it,
filters it and pushes the result. A writer pops the result, writes it and counts
it in `written_files`. When there are no more files the readers meet at a barrier
and push termination signals, which `queue_push` silently drops because they have
no file name. So the counter is the only way the pipeline ends: `queue_pop`
returns NULL on an empty queue once `written_files >= file_cnt`, which it tests on
entry, after each wake-up and after each one-second timeout. `main` joins readers,
workers and writers in this order and destroys the queues.

### An MPI job

    rank 0:   read - transpose? - bcast - prepare - bcast - scatter - filter - gather - transpose? - save - bcast time
    others:                       bcast -           bcast - scatter - filter - gather -              bcast time

Every rank works out its own share of the rows and the halo around it; rank 0 works
out the same for all of them again, in another function, for the counts it scatters
and gathers by. `by_column` is `by_row` on the transposed image. A call that fails
ends in `MPI_Abort`, on most paths.

### What is hard here, and what correctness means

* *image queue*: two limits (slots and memory), images of different sizes, one
  `pthread_cond_signal` per operation, timed waits, spurious wake-ups, a
  termination answer that depends on a counter outside the mutex. It must be a
  FIFO within its limits, must strand no thread, and may answer NULL only when
  nothing is left.
* *threads*: interleaved claims, overshooting counters, write-then-count, and
  failures that lose one image. Each image must have one owner, the counter must
  agree with the disk, nobody may leave early. A failure may cost the file it happens
  to; if it makes the last thread of a kind leave its loop, also the files that are not
  yet past that kind of thread.
* *orchestration*: threads that cannot be created, a barrier sized before they
  are, queues freed at the end that must be empty by then.
* *multi-threaded computation*: 16-bit counters near their top, a pair of counters
  that move together, clipping at the edges, a join that must precede the save.
* *MPI*: two independent computations of the same distribution that must agree,
  halos at the image's edges and around processes without rows, a transposition and
  its inverse, failures of one rank between collective calls. The image saved must
  be the one every other mode would save, and no process may be left waiting.
* *kernels and files*: edges, row order and padding, rounding and clamping, a
  selection algorithm that recurses on relative ranks. The file written must show the
  filter's result for the picture in the file read.
* *lifecycle, arguments*: who frees what on each error path; whether what the parser
  accepts is what the computations take for granted; which process logs, and what.

`PROJECT.json` lists the hazards at their lines with the properties that cover them.
Smaller ones that are read off the code at a glance are not listed there: the barrier
is destroyed twice (`qmt-exec.c:155`); ranks are counted in an `int8_t`
(`phases.c:85`) and passed as `uint8_t` (`mpi-exec.c:251`); dimensions are cut to 16 bits
(`threads-general.c:101`; `Program` models it); the factors of the two large Gaussian
kernels are 1/771 and 1/213 where their tables sum up to 1349 and 227
(`filters.c:127`; `Kernels` has the code's factors).

Where the documents disagree among themselves the model follows the code.
`docs/Filters.md:44` says that edges are clamped; the linear filters do that, the median
wraps around (`threads-general.c:262`), as its header says (`threads-general.h:97`);
`SavedIsFiltered` of `Program` states the wrap-around. `docs/Filters.md:19,37` calls
`mg` a hybrid of a median and a Gaussian and non-linear; the code applies one more table
of weights (`threads-general.c:316`, "Medium Gaussian Blur" at `filters.c:55`), and so
does the model. The comments at `filter-comp.c:17` and `threads-general.h:80` speak of a
wrap-around in the linear filters; each is corrected to clamping a few lines below
(`filter-comp.c:20`, `threads-general.h:84`).

## 2. Modules

| Module | Models | Composition |
|---|---|---|
| `BoundedFifo` | what the queue promises: a bounded FIFO with two condition variables | abstract specification of `ImgQueue`; building block of `QmtPipeline` |
| `ImgQueue` | `qmt-queue.c`: ring indices, memory account, waits, timeouts, destruction | implements `BoundedFifo` (`ImplementsFifo`) |
| `QmtBatch` | what the queue mode promises of a batch of files | abstract specification of `QmtPipeline` |
| `QmtPipeline` | `qmt-threads.c`, `qmt-exec.c`, queue mode of `cpu-backend.c` | two instances of `BoundedFifo`; implements `QmtBatch` (`ImplementsBatch`) |
| `MtCompute` | `mt-compute.c`, `mt-exec.c` | stands alone |
| `Kernels` | `filters.c`, the filters of `threads-general.c`, `selectKth`, the GPU kernel's arithmetic | pure; used by `MpiRun` and `Bitmap` |
| `MpiDistribution` | `mpi/utils/utils.c`: shares, halos, counts, displacements | pure; extended by `MpiRun` |
| `MpiJob` | what the MPI mode promises | abstract specification of `MpiRun` |
| `MpiRun` | `mpi-exec.c`, `comm/`, `compute/`: the ranks and their collective calls | extends `MpiDistribution` and `Kernels`; implements `MpiJob` (`ImplementsMpiJob`) |
| `Arguments` | `args-parse.c`, the backends' verification, `cpu_init`'s thread count | pure; extended by `Program` |
| `Bitmap` | `libbmp.c`: pixels in a file, both ways | extends `Kernels` |
| `Program` | `bmp-conv.c`, `compute-backend.c`, `cpu-backend.c`, `gpu-backend.c`, the GPU execution, `st-exec.c`, the display's and the log's part in them | extends `Arguments` and `Bitmap`; takes the queue and MPI modes by what `QmtBatch` and `MpiJob` promise |
| `MCImgQueue`, `MCQmt`, `MCMtCompute`, `MCMpiRun`, `MCProgram` | the instances TLC checks | extend the modules above |
| `ImgQueueProofs`, `QmtPipelineProofs`, `MtComputeProofs`, `ProgramProofs` | theorems about the module of that name | extend it; all use `SharedLemmas` |
| `MpiDistributionProofs`, `KernelsProofs` | theorems about the pure operators of these modules | extend them; the second is used by `ProgramProofs` |
| `MpiRunProofs` | theorems about `MpiRun` | extends it and the two above |
| `SharedLemmas` | lemmas about natural numbers, recursive functions, wake-ups, sums and concatenations that several of them need | no model |

The pipeline is checked over `BoundedFifo` and not over the ring: that is sound
because every step of the ring is a step of the FIFO, which the first run checks and
`FifoRefinement` proves.

**State and granularity.** An action is what a thread does between two points
where another thread can see it: one critical section of a queue's mutex (from lock
or wake-up to unlock or the next wait), one atomic operation on a counter, one file
operation. A thread inside `queue_push` or `queue_pop` has `pc` `"push"` or `"pop"`;
it sleeps while it is in the queue's `nonFull` or `nonEmpty` set. A signal removes
one arbitrary member; the thread then competes for the mutex and tests its condition
again, as the code's loops do. The counters are sequentially consistent in the
model; the code's `__atomic` operations and the mutexes order them at least as far
as the properties need.

**Correspondence.**

* `ReaderClaim`, `ReaderUnclaim`: `fetch_add`, and `fetch_sub` when it overshot.
  `ReaderLoad`, `ReaderPush`: `bmp_img_read` and `queue_push`. `ReaderBarrier`,
  `ReaderSignal`: `pthread_barrier_wait` and the signals that are dropped.
* `WorkerPop`, `WorkerPopEmpty`, `WorkerTimedOut`: the ways out of `queue_pop`;
  `WorkerProcess`, `WorkerPush`: resources and filter, then the output queue.
* `WriterCheck`, `WriterPop*`, `WriterTimedOut`, `WriterWrite`, `WriterCount`: the
  loop of `writer_thread`, with the write and the count as two steps.
* `MainCreate`, `MainJoin`, `MainFree`: `cpu_process_queue_mode`.
* Failures (`Faults` names the kinds that may happen, `MaxFaults` how many):
  `ReaderExit` and `WorkerExit` are the calls of `exit(EXIT_FAILURE)`;
  `ReaderGivesUp`, `WorkerDiscards`, `WriterDrops` lose one image; `WorkerPopFails`
  and `WriterPopFails` are `strdup` failing after the image was taken, which loses the image
  and ends the thread's loop, as `ReaderGivesUp` does;
  `MainCreateFails` is `pthread_create` failing.
* `MtCompute`: `TakeBlock` is one critical section of `process_by_*`, `Leave` its
  empty answer, `Compute` the filter over the region, `ComputeNothing` the median that
  finds no memory for its windows and leaves the region as it was (`threads-general.c:244-251`),
  `Create`, `CreateFails`, `NoSpecs`, `Join` the steps of `execute_mt_computation`. `painted`
  and `skipped` are history: how often a pixel was computed, which ones were left out.
* `MpiRun`: `pc` is the stage a rank goes on from (`Stages`). `Setup` and `SetupFails`
  are `setup_img_spec` in every process; `Rank0Initialize` and `Initialize` the first
  broadcast; `Rank0Prepare` and `Prepare` transposition, second broadcast, counts and
  packing; `Scatter`, `Compute`, `Gather`, `Rank0Gather` the phases of that name;
  `Rank0Save` and `ReceiveTime` the end, `Finalize` is `MPI_Finalize`. A rank that dies is
  `"aborted"` (it called `MPI_Abort`) or `"crashed"`, and `Killed` is the process
  manager ending the others. Ranks share nothing, so one step is all a rank
  does between two collective calls. Pixels are the names of their places: an
  output pixel is a `Combination`, the weight with which it takes each source pixel,
  and two ways of computing an image agree on all pictures if they agree on these.
* `Program`: `pc` is the place in `main`; `owned` the objects allocated and not freed,
  and `Frees` what frees them or ends the process when they are not there. One
  action per function `main` or a backend calls, with its failures beside it.
  Here pixels are values and files have bytes.

Operators with a comment "A plausible bug" are not part of the model: no action
uses them. They are alternatives with which each property was seen to fail.

## 3. Runs

| Run | Instance | Distinct states | Checks |
|---|---|---|---|
| `ImgQueue_mixed` | 3 producers, 2 consumers, 4 images of 1, 1, 3 and 5 MB, 2 slots, 4 MB | 8,675 | `TypeOK`, `RingConsistent`, `MemAccounting`, `NoStrandedProducer`, `WakeupsSuffice`, `NullMeansDone`, `ImplementsFifo`, `Drains` |
| `ImgQueue_asleep` | images of 1, 1, 3 and 5 MB, 3 slots | violation | `BlockedOnlyWhileFull` |
| `QmtPipeline_safety` | 2 readers, 2 workers, 2 writers, 4 files, 2 slots, up to two failures of `pthread_create` or `strdup` | 623 thousand | `TypeOK`, `NothingLost`, `SignalsAfterImages`, `NoStrandedReader`, `NoStrandedWorker`, `WakeupsSuffice` |
| `QmtPipeline_faults` | 2/2/2, 3 files, 2 slots, up to two failures that lose an image or end the process | 121 thousand | `OneOwner`, `CountMatchesDisk`, `LeaveWhenWritten`, `FreesEmptyQueues`, `ImplementsBatch` |
| `QmtPipeline_live` | 2 readers, 1 worker, 2 writers, 3 files, 1 slot, up to two failures that lose an image | 151 thousand | `Returns`, `ReadersReturn`, `OthersWritten` |
| `QmtPipeline_signals` | 1 reader, 2 workers, 1 writer, one failed write | violation | `WorkersStopAfterReaders` |
| `QmtPipeline_create` | 2 readers, 1 worker, 1 writer, one failed `pthread_create` | violation | `ReadersReturn` |
| `MtCompute_modes` | 3 threads, counters of three bits, images up to 7 x 5, every mode, a linear filter and the median | 401 thousand | `TypeOK`, `ComputedOnce`, `SavedComplete`, `Ends` |
| `MpiRun_modes` | 2 to 4 ranks, images from 0 to 5 rows, both modes, kernels 3x3 and 5x5, up to one failing call | 11,666 | `TypeOK`, `SavedIsFiltered`, `CountsAgree`, `DiesForAReason`, `NobodyLeavesEarly`, `EveryRankEnds`, `ImplementsMpiJob` |
| `MpiRun_median` | 2 and 3 ranks, the median | violation | `SavedIsFiltered` |
| `MpiRun_setup` | 3 ranks, the input file on some nodes only | violation | `EveryRankEnds` |
| `Program` | 870 pairs of a command line and a place to run it, up to one failing call | 36,260 | `SavedIsFiltered`, `GpuCloseToCpu`, `AcceptedIsRunnable`, `CrashesForAReason`, `LeavesNothing`, `LogIsTrue`, `Ends` |

**Failures and what they cost.** In the pipeline `NothingLost` says that no more
images are missing than calls have failed, as long as `main` has not freed the
queues. `OthersWritten` says which files a failure costs in the end. That a call
fails is not the whole of it: a reader without memory for its image leaves its loop
(`qmt-threads.c:48-52`), and so does a worker or a writer to whom `queue_pop` cannot
copy a name (`qmt-queue.c:250-258`). While another thread of the kind is left, the
failure costs its own file. When none is left, what is not yet past that kind of
thread is lost with it: the files no reader has claimed, the images no worker has
handed on, everything not yet on disk. With one reader, worker or writer one failure
does that. Without workers, or without writers, the queues before them fill up and
the readers sleep for ever: that is what `ReadersReturn` excepts. In `MtCompute` an
image may be saved with blocks missing, those whose median found no memory;
`SavedComplete` says that no other pixel is missing.

**Bounds.** Three files are the fewest the queue mode is given by `cpu_verify_args`.
Two threads of a kind make every race between equals possible; three producers are
needed for one to be woken, one to sleep on and one to take the room. One or two
slots make both limits bind, also on both queues at once, and let the indices wrap
several times. The images are of different sizes and one exceeds the memory limit
alone, so that the exception for an empty queue is taken. Two failures are enough
for one failure to happen while another is being dealt with, and for all readers,
the only worker or all writers to have left their loops in `QmtPipeline_live`, which
is what the exceptions of `ReadersReturn` and `OthersWritten` are for. The block
counters have three bits instead of sixteen: the height, the width and the block
size reach from 1 to the largest value, so counters that wrap occur. The MPI jobs
have fewer rows than ranks, as many and more, and halos narrower and wider than a
share, so that a halo spans several ranks and reaches both edges at once; one of the
kernels is not symmetric to a half turn (`"em"`), so that a row taken for another or
an image turned around shows. The command lines of `Program` lie on both sides of
every bound the parser has; its images have all four paddings, one row, one column
and no pixel in the file, and the median is tried on every image of 2 x 3 pixels
with three values. Scaled down are the values of a `uint32_t` (65536) and of a
dimension (8), the number of files (6), the length of names (10) and the median's
window (5 in `Program`, 3 in `MpiRun`). One failing call is enough where every
execution ends soon after the first. The instances of the two pipeline runs without
fairness are reduced by the symmetry of threads of a kind; no run with a liveness
property is.

**Deadlock** is checked, with a self-loop for the end of the process, except in
four runs whose executions really stop: in `QmtPipeline_safety` and
`QmtPipeline_create` a reader waits for ever at a barrier sized for threads that do not
exist, in `MpiRun_median` and `MpiRun_setup` ranks of a job that has lost one wait in a
collective call. `MpiRun_modes` and `Program` check deadlock: their ends are steps.

**Fairness.** `FairSpec` has weak fairness for each thread that was created and for
`main`: a runnable thread is eventually run. The timer is part of it: a thread asleep
in `pthread_cond_timedwait` can always time out, and its one-second deadline does
pass. Weak fairness of a thread's steps also says that a thread waiting for a
mutex eventually gets it, which POSIX does not promise but every scheduler of the
platforms in question delivers in effect, the critical sections being short.
`MpiRun` asks only that some rank that can go on does (`WF_vars(\E r : Step(r))`: each step
takes a rank further and none goes back), `Program` that the process runs.
Nothing is assumed of failures and spurious wake-ups.

### What the violations show

1. *The termination signals are never queued* (`WorkersStopAfterReaders`,
   `qmt-queue.c:129`). A termination signal has no file name and `queue_push`
   drops what has none. Without failures the counter ends the pipeline all the
   same (`Returns`); after one failed write the workers and writers poll for ever.
2. *The barrier is sized before the threads exist* (`ReadersReturn` under a
   `pthread_create` failure, `qmt-exec.c:113`).
3. *One signal, different sizes* (`BlockedOnlyWhileFull`, `qmt-queue.c:266`). A
   producer may sleep on although there is room for its image. This delays and does
   not block: `NoStrandedProducer` and `Drains` hold.
4. *The median over MPI* (`SavedIsFiltered`, `filter-comp.c:177`). It starts from the
   local row of a rank where the linear filters start from the global one, so all ranks
   but the first filter other rows, or what lies behind their buffer.
5. *Every rank reads the image* (`EveryRankEnds`, `cpu-backend.c:129`). `setup_img_spec` is
   called by all of them before the mode is looked at. Where a node has no copy of the
   file its processes leave for `MPI_Finalize`, and the job never ends.

The passing properties name the cases the code is known not to handle, each at its
place: `CrashesForAReason` (the arguments freed twice after a failed allocation, the
backend of a GPU that is not compiled in, a mode table without an end, a list of names
longer than its buffer, images stored top down, images smaller than half of the
median's window, images wider than high in `by_column` mode with MPI), `DiesForAReason` (the
same of a job), the two properties named `SavedIsFiltered` (the median without memory for
its windows, which goes on as if it had computed its rows) and `SavedComplete` (the same,
block by block).

## 4. Theorems

All of them hold for every value of the constants the module's assumption admits: any
numbers of threads, files and processes, any sizes of images (over MPI: with rows and columns of fewer
than 65536 bytes), queues and counters, any command line, any number of failing calls.

| Module | Theorem | Property | Hypothesis |
|---|---|---|---|
| `ImgQueueProofs` | `QueueTypes` | `TypeOK` | |
| | `RingNeverTears` | `RingConsistent` | |
| | `MemoryIsAccounted` | `MemAccounting` | |
| | `ProducersNotStranded` | `NoStrandedProducer` | |
| | `ConsumersNotStranded` | `WakeupsSuffice` | |
| | `NullIsTheEnd` | `NullMeansDone` | |
| | `FifoRefinement` | `ImplementsFifo` | |
| `QmtPipelineProofs` | `Types` | `TypeOK` | |
| | `ReadersNotStranded`, `WorkersNotStranded` | `NoStrandedReader`, `NoStrandedWorker` | |
| | `NoWakeupLost` | `WakeupsSuffice` | |
| | `SingleOwnership` | `OneOwner` | |
| | `WrittenCount` | `CountMatchesDisk` | |
| | `NoImageDisappears` | `NothingLost` | |
| | `BarrierOrdersSignals` | `SignalsAfterImages` | |
| | `NobodyLeavesEarly` | `LeaveWhenWritten` | `strdup` does not fail |
| | `DestroysNothing` | `FreesEmptyQueues` | nor does `pthread_create` |
| | `BatchRefinement` | `ImplementsBatch` | the same |
| `MtComputeProofs` | `BlocksStayInside` | `TypeOK` | |
| | `BlocksAreDisjoint` | `ComputedOnce` | |
| | `NothingLeftOut` | `SavedComplete` | |
| `MpiDistributionProofs` | `SharesTile` | every row is in exactly one share | |
| | `HaloIsSent` | what is sent is what the receiver reckons with, and is enough | |
| `KernelsProofs` | `TransposeCommutes` | transposing before and after a filter changes nothing | a table that is its own transpose |
| | `SelectsTheKth` | `selectKth` returns the element of the rank asked for | |
| | `MedianIsTheMiddle` | the median filter gives the middle of the values around a pixel | an odd window |
| `MpiRunProofs` | `StagesAndShares` | `TypeOK` | |
| | `SharesAgree` | `CountsAgree` | |
| | `GatherComesFirst` | `NobodyLeavesEarly` | |
| | `NothingMisplaced` | `DiesForAReason` | a linear filter |
| | `EveryPixelIsRight` | `SavedIsFiltered` | a linear filter |
| | `MpiJobRefinement` | `ImplementsMpiJob` | a linear filter |
| `ProgramProofs` | `NothingIsLeft` | `LeavesNothing` | |
| | `WhatRunsIsRunnable` | `AcceptedIsRunnable` | |
| | `CrashesAreKnown` | `CrashesForAReason` | |
| | `TheLogIsTrue` | `LogIsTrue` | |
| | `TheFilteredIsSaved` | `SavedIsFiltered` | |
| | `TheGpuIsClose` | `GpuCloseToCpu` | |

**Assumptions.** `SharedLemmas`, `Kernels` and `MpiDistribution` have none. The others
have one each, evaluated by TLC in every run of its module:

* `QueueAssumption`: producers, consumers and images are finite, nobody is both a producer
  and a consumer, there is a consumer (`--rww` takes no zero), the capacity is not zero,
  an image has a size.
* `PipelineAssumption`: the kinds of thread are finite, not empty and disjoint, and the
  numbers are numbers (`FileCnt` and `Capacity` not zero). A capacity of zero is what
  the parser does not refuse (`args-parse.c:81`); nothing is ever queued then.
* `MtAssumption`: the threads are finite (the code counts them in a byte) and a job's
  height, width and block are in the range of a counter and not zero.
* `MpiAssumption`: two processes or more, rows narrower than the 16 bits of the
  broadcast stride, a filter and a mode of those the parser knows.
* `ArgumentsAssumption`, `ProgramAssumption`: the widths are not zero, `atoi` gives
  numbers, `--backend` is one of two, a process's rank is below the number of processes,
  the input is any header with a width that is not negative and any bytes (`BmpFile`), the
  median's window is odd (the code's 15), and the restriction of section 5 on MPI with the
  median.

The hypotheses about `strdup` and `pthread_create` are there because the code does not
handle these failures: `QmtPipeline_create` shows one, and `strdup` failing in `queue_pop`
gives a thread the NULL that means the end. Both may still fail in all the theorems
without the hypothesis. The linear filter excludes the median over MPI, which the run
`MpiRun_median` shows to be wrong.

**The arguments.** Hardly any of the properties is inductive as it stands. Each
strengthening was checked by TLC on the instances of section 3 before it was proved.

*The ring* (`QueueInv`). `RingConsistent` is inductive with the types. What is missing
for `size` and the counts to stay in range is `Supply`: the images to be pushed, being
pushed, queued, popped and counted are never more than the files. It also gives
`NullMeansDone`: when `Counted` says that all files are written, there is nothing
left for any other place. `MemAccounting` compares the account with the recursive
function `Load`; the lemmas `LoadAppend` and `LoadTail` say what a push and a pop do
to it. `FifoRefinement` maps the ring to the sequence of the slots from `front` on
(`ItemsPush`, `ItemsPop`: the only place where the arithmetic of the indices matters) and
shows for each action that it is the FIFO's, with the caller it has in the code.

*Wake-ups*, of the ring and of the pipeline. `WakeupsSuffice` counts: as long as somebody
sleeps, there are no more images than awake threads inside the call. Each step is one of
four kinds (`Harmless`, `PushesOne`, `PopsOne`, `Emptied`), and `EnoughAwake` of
`SharedLemmas` shows once that each kind keeps the count.

*The pipeline* (`BatchInv` and what it is made of).

* `TypeInv` adds to `TypeOK` what threads have in their hands at each place
  (`Hands`), that only threads inside the call sleep on a queue (`Asleep`), and
  `Overshoot`: `read_files` exceeds the number of files by at most the readers
  that are still to take their claim back. Without `Overshoot` nothing says that
  `fetch_sub` leaves a natural number.
* `NoStranded` needs `JoinOrder`: `main` empties the queues only after the producers
  have been joined, so none is asleep then. A push limit implies a queue that is not
  empty (`PushLimits`), because the memory limit does not bind an empty queue.
* `Single` says of each thread's image, each queue and the disk that they are
  pairwise disjoint and without repetition, and that all are below
  `read_files`. `OneOwner` follows. The lemmas `AppendElems` and `TailElems` say what
  a push and a pop do to the elements of a queue.
* `CountMatchesDisk` is inductive relative to `Single`: a write adds a new element
  to the disk because its owner had it alone.
* `LeaveWhenWritten` follows from the count (`Left`): a thread that left saw the
  counter at the number of files, and the counter never exceeds the disk.
* `SignalsAfterImages` needs `Together` (if one reader is past the barrier, all have
  arrived) and `FilesRanOut` (a reader at the barrier, without failures, found no file).
* `FreesEmptyQueues` and the refinement need `AllCreated`: `main` joins threads that
  exist, so that a worker that is joined has seen everything written; with `Single` the
  queues can then hold nothing.
* `NothingLost` is `Kept`: the claimed files that are present nowhere (`Missing`) are no more
  than the failures. Every step but a failure leaves the places together as they were
  (`HandedOver`, `TakenOver`), and a failure adds one file at most (`MissingGrows`,
  `FaultyMissing`).
* The refinement: a file is `"open"` while it is present and not on disk. The lemmas
  `BatchClaim`, `BatchFinish`, `BatchLose`, `BatchReturn` and `BatchExit` are the steps of
  `QmtBatch`; what is left is a stutter (`BatchQuiet`).

*Blocks of pixels* (`MtInv`). `Taken` reads the two counters as the set of pixels
handed out. `AdvanceTakesBlock` says that advancing them adds the block just taken;
`Covered`, that everything handed out is computed, in hand or skipped, holds even when a counter
overflows and goes back, because the set then only shrinks. `Tiles`, that it was handed
out once, needs the counters to be multiples of the block (`Aligned`) and no overflow.

*An MPI job* (`Control`, `Buffers`, `Data`). `Control` says what rank 0 has broadcast and
counted at each stage (`Root`), that a rank's share is worked out from the last
geometry it was told (`Told`), what a rank without the file does to the others (`Absent`),
and in which order they leave (`Leaving`). From it and `SharesTile` and
`HaloIsSent`, two facts about division with remainder, follow `CountsAgree` and that the
bytes scattered and gathered are the rows meant (`Displacements`, `RowsArePacked`,
`UnpackedAt`). `Data` then says that a rank's input is its `Piece` of the image, its output
its `Part` of the filtered one, and the saved image the filtered one. In `by_column` mode
this takes `TransposeCommutes`: the tables of `filters.c` are symmetric, and a sum does
not depend on the order of its terms (`AddsAnyOrder`). For the refinement, `Together` says
that nobody is dead once rank 0 has the result. A job is decided when rank 0 has been
through everything, or when no rank has the image: a rank 0 that alone lacks the file
decides nothing, since the others may yet die and take it with them.

*The program* (`Control` of `ProgramProofs`). At each place of `main`: whether
the arguments are those parsed or those verified (`Understood`), exactly which objects
are allocated (`Owned`), whether MPI is initialised (`InMpi`), that what is measured was
saved (`Measured`), and when the log has been written (`Logged`).

*The file that is saved* (`Pixels` of `ProgramProofs`). `SavedIsFiltered` and
`GpuCloseToCpu` speak of the end only; `Pixels` says what holds on the way: `input` is the
picture from the bytes on (`HasPicture`), what is to be saved has the right pixels
(`RightImage`), and so has the file (`RightFile`). The cases the properties except are
those a failure can still add to (`Excepted`), so a result without values is never in the
way. The steps rest on four facts about data, each for every size and content:

* `ReadsWhatIsShown` and `ShowsWhatIsWritten`: a pixel read, and a pixel written, is the byte
  at its place counted from the last row with the padding (`PixelInFile`: the place is in
  the file although the padding of the last row may be missing). Writing concatenates rows;
  `Placed` of `SharedLemmas` says where each byte of a concatenation is.
* `WeightedIsSummed`: a combination of pixel names, multiplied with the pixels, is the
  weighted sum under the taps with each tap's place moved to the nearest edge
  (`NearestIsClamp`). A name may be under several taps, so a sum over names is a sum over
  taps regrouped (`Regrouped`).
* `RoundedIsResult`, `GpuIsNear`: rounding half away from zero is at most half a unit off,
  clamping does not change that, and cutting off is the rounded value or one less
  (`RoundsToNearest`, `ClampMoves`).
* `MedianIsTheMiddle`: see below.

*The selection of the median* (`KernelsProofs`). What `selectKth` returns is at the `k`-th
place of some rearrangement of its range with nothing greater before it and nothing less
after it (`Selects`). `insert`, `sort` and `partition` only swap within the range, so what
they return is a rearrangement (`Rearranged`); the sort orders it (`SortSorts`), the
partition divides it at the pivot (`Divided`). The rank in the part `selectKth` goes on with
is the rank in the whole less what is before that part, and a rearrangement of the part is
one of the whole (`CallNarrows`); the range gets shorter with each call. The property
`IsMedian` (`IsMiddle`, taken around the edges) counts instead, so that it says the same when values repeat: at most half of the
window is less, more than half is not greater (`SelectedInTheMiddle`). `WindowIsListed` goes
from the window, an array filled row by row, to the taps around a pixel.

**Induction over data.** The library's induction theorems take an operator and cannot be
instantiated by the provers here. Where a theorem needs what a recursive function of the
model returns for every input (`Load`, the displacements, the community modules' folds
behind the sums and concatenations), the lemmas of `SharedLemmas` stand in: `Least` and
`SmallestSet`, every set of numbers (of finite sets) that is not empty has a least
element; `Recursion`, a function defined step by step exists; and `MeasuredRecursion` and
`MeasuredInduction`, the same for functions that call themselves on arguments with a
smaller measure, which is what `insert`, `sort`, `partition` and `selectKth` do.

**Only model-checked.**

* All liveness properties (`Drains`, `Returns`, `ReadersReturn`, `OthersWritten`, `Ends`,
  `EveryRankEnds`): `ENABLED` and fairness are outside what the prover covers.
* The median over MPI, which is wrong.
* That the images the threads and the processes compute for `Program` are the ones `MtCompute`
  and `MpiRun` compute: `Program` takes their promises for granted, `SavedComplete` and
  `ImplementsMpiJob`, which are proved in modules of their own.

## 5. Abstractions, and what is not modelled

* Images are their file's index; an image's memory estimate is a constant. The image is
  not touched between its push and its pop, so both take the same estimate, and the result
  of the filter has the size of its input, so both queues do.
* `queue_pop`'s return on an error of `pthread_cond_timedwait` other than a timeout
  is left out: with a valid mutex and a valid time there is none. Images in
  `QmtPipeline` are not empty: a file whose header says zero pixels gives an image that
  a worker takes for a termination signal (`qmt-threads.c:120`).
* Of `allocate_qthread_resources` only what a failure leads to is modelled (`Program`): a
  queue without its array, which is used all the same. What its error path frees, and the
  second destruction of the barrier, are not modelled.
* Log messages and formatting have no part in any property, nor have the lines the queue
  mode's threads write to the log; the one line of the other modes is in `Program`.
* File names popped from the output queue, and on some failing paths of the parser, are
  not freed: no property is about leaks but `LeavesNothing`, which is about the way through
  `main`.
* The three channels of a pixel are read, filtered and written alike; one stands for them.
  Of a header only the dimensions are looked at, as in the code; a negative width, for which
  there is no memory, is left out.
* `MpiRun`: allocations are one failing call per stage. A file that is missing stands for
  every failure of `setup_img_spec`. Images are narrower than 65536 bytes and jobs have
  fewer than 128 processes; for more the code's narrow types go wrong as section 1 says.
  C's wrap of a negative row in the median of an image smaller than half its window is
  not modelled; `MpiRun_median` has larger ones.
* `bmp_img_write` does not look at what `fwrite` returns (`libbmp.c:152-155`): on a full disk it
  leaves a file cut short and reports success, and the file is counted as written. In
  `WriterWrite` and `bmp_img_write` a write succeeds or fails as a whole.
* A worker of the queue mode whose median finds no memory hands on an image that is not
  filtered. `QmtPipeline` does not look into images; `Program` has the case for one image.
* `Program`: the name of the output file, `--queue-mem`, options given twice and builds
  without MPI are left out. The queue mode is taken by `QmtBatch`'s promise and MPI
  by `MpiJob`'s, the median with MPI being excluded by an assumption because the promise
  does not hold for it (`MpiRun_median`). `Ends` excepts queues of capacity zero, which the
  parser accepts and which no image ever fits into (`args-parse.c:81`; no property covers that
  hazard), and queues whose threads
  fail. `MPI_Finalize` is taken to return:
  whether it does is `MpiRun`'s question. With `-mpi` and `-queue` together each process runs the
  queues for itself, and the files they share are not modelled.
* GPU: the set-up calls of OpenCL are one step that succeeds or fails; what they
  leak is not modelled. The kernel's `float` is modelled by the two values a quotient that
  is whole may come out as.
* The display's log callback, which appends to a list without a lock, the third-party
  logger, the barrier for platforms without one, and the tests, plots and container files
  are not modelled.

## 6. Plan

Done, in this order: the queue and its contract, the pipeline over it, its abstract
batch, the multi-threaded computation, the pipeline's invariants proved; the distribution
of an MPI job, the job with its collective calls and its contract, the kernels and the files,
the arguments, and the program that puts them together; then the proofs of the ring and its
refinement, and of the program's control; the selection of the median; and the file that
is saved. Left:

1. The log callback under concurrent calls.
2. The failure path of `allocate_qthread_resources`.
3. The row stride that is broadcast in 16 bits, for images wider than that.
