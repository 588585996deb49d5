------------------------------- MODULE MpiRun -------------------------------
(***************************************************************************)
(* The MPI mode of the CPU backend (backend/cpu/mpi): the processes of     *)
(* one job go through the same collective calls, rank 0 as the root of     *)
(* each.  It reads the image, broadcasts its geometry twice, scatters the  *)
(* rows with their halos, gathers the filtered rows, saves the image and   *)
(* broadcasts the time.  In by_column mode it transposes the image before  *)
(* it distributes the rows and transposes the result back.                 *)
(*                                                                         *)
(* Processes share nothing, so what one does between two collective calls  *)
(* is one step.  The root of MPI_Bcast and MPI_Scatterv, and the others in *)
(* MPI_Gatherv, may go on before their partners have taken part;           *)
(* MPI_Finalize waits for everyone.  MPI's default error handler ends the  *)
(* job, so the calls return only MPI_SUCCESS.                              *)
(*                                                                         *)
(* Pixels are the names of their places in the file (see Kernels): what    *)
(* is saved tells from which pixels, and how, each output pixel was made.  *)
(***************************************************************************)
EXTENDS MpiDistribution, Kernels

CONSTANTS
  Jobs,         (* the inputs: processes, height, width, mode, filter and  *)
                (* the processes on whose node the image file is missing   *)
  MedianSize,   (* 15 in the code                                          *)
  Faults,       (* the calls that may fail, see FaultKind                  *)
  MaxFaults     (* how many of them fail in one execution                  *)

(* call:  an allocation, or the read by rank 0                             *)
(* write: bmp_img_write, whose result nobody looks at                      *)
FaultKind == {"call", "write"}

ASSUME MpiAssumption ==
  /\ \A j \in Jobs :
       /\ j.size \in Nat \ {0, 1} /\ j.h \in Nat /\ j.w \in Nat \ {0}
       /\ j.mode \in {"by_row", "by_column", "by_grid", "by_pixel"}
       /\ j.filter \in DOMAIN FilterByName \union {"mm"}
       /\ j.missing \subseteq 0 .. j.size - 1
       /\ j.w * BytesPerPixel < Word16 /\ j.h * BytesPerPixel < Word16
  /\ MedianSize \in Nat /\ MedianSize % 2 = 1
  /\ Faults \subseteq FaultKind
  /\ MaxFaults \in Nat

VARIABLES
  job,       \* the arguments every process was started with
  pc,        \* where each process is
  comm,      \* comm_data of each process: geometry and the two shares
  meta,      \* the geometries rank 0 has broadcast
  img,       \* the image in rank 0's memory
  arrays,    \* rank 0's counts and displacements
  packed,    \* rank 0's send buffer, row by row
  input,     \* the rows each process received
  output,    \* the rows each process has computed
  result,    \* the output image in rank 0's memory
  saved,     \* the image on disk
  faults     \* how many calls have failed

vars == <<job, pc, comm, meta, img, arrays, packed, input, output, result, saved, faults>>

Rank == 0 .. job.size - 1
None == <<>>
Dead == {"aborted", "crashed", "killed"}

(* The order of the stages; pc is where a process is going on from.        *)
Stages == <<"setup", "init", "bcast", "scatter", "compute", "gather", "final", "finalize", "ended">>
Reached(r, stage) ==
  \E i, j \in DOMAIN Stages : Stages[i] = stage /\ Stages[j] = pc[r] /\ i <= j

Source(j) == Image(j.h, j.w, LAMBDA y, x : <<y, x>>)
IsMedian  == job.filter = "mm"
KernelUsed == IF IsMedian THEN Window(MedianSize) ELSE FilterByName[job.filter]
Halo      == HaloSize(KernelUsed.size)
ByColumn  == job.mode = "by_column"

(* What the other CPU modes make of the image.                             *)
Expected == [j \in {i \in Jobs : i.h > 0} |->
  IF j.filter = "mm" THEN apply_median_filter(MedianSize, Source(j))
                     ELSE apply_filter(FilterByName[j.filter], Source(j))]
Filtered == Expected[job]

-----------------------------------------------------------------------------
Init ==
  /\ job \in Jobs
  /\ pc = [r \in Rank |-> "setup"]
  /\ comm = [r \in Rank |-> None]
  /\ meta = <<>> /\ img = None /\ arrays = None /\ packed = None
  /\ input = [r \in Rank |-> None]
  /\ output = [r \in Rank |-> None]
  /\ result = None /\ saved = None
  /\ faults = 0

Goto(r, stage) == pc' = [pc EXCEPT ![r] = stage]
Die(r, how) == Goto(r, how) /\ UNCHANGED <<job, comm, meta, img, arrays, packed, input, output, result, saved>>
Fault(kind) == kind \in Faults /\ faults < MaxFaults /\ faults' = faults + 1

(* cpu_process_non_queue_mode sets up the image of every process, rank 0   *)
(* or not, before it looks at the mode.                                    *)
Setup(r) ==
  /\ pc[r] = "setup" /\ r \notin job.missing
  /\ Goto(r, "init")
  /\ UNCHANGED <<job, comm, meta, img, arrays, packed, input, output, result, saved, faults>>

(* A process that cannot read the file takes part in no collective call:   *)
(* it returns, and goes on to cpu_cleanup and MPI_Finalize.                *)
SetupFails(r) ==
  /\ pc[r] = "setup" /\ r \in job.missing
  /\ Goto(r, "quit")
  /\ UNCHANGED <<job, comm, meta, img, arrays, packed, input, output, result, saved, faults>>

(* execute_mpi_computation: by_grid and by_pixel are not distributed.      *)
Unsupported(r) ==
  /\ pc[r] = "init" /\ job.mode \notin {"by_row", "by_column"}
  /\ Die(r, "aborted") /\ UNCHANGED faults

Runs(r, stage) == pc[r] = stage /\ job.mode \in {"by_row", "by_column"}

Geometry(h, w) == [h |-> h % Word16, w |-> w % Word16, stride |-> (w * BytesPerPixel) % Word16]
Distribution(r, g) ==
  LET share == Share(r, job.size, g.h)
  IN  [geo |-> g, my |-> share, send |-> WithHalo(share, Halo, g.h)]

(* mpi_rank0_initialize.  An image without rows is freed there and again   *)
(* by the caller.                                                          *)
Rank0Initialize ==
  /\ Runs(0, "init") /\ job.h > 0
  /\ img' = Source(job)
  /\ result' = Image(job.h, job.w, LAMBDA y, x : None)
  /\ meta' = <<Geometry(job.h, job.w)>>
  /\ comm' = [comm EXCEPT ![0] = Distribution(0, Geometry(job.h, job.w))]
  /\ Goto(0, "bcast")
  /\ UNCHANGED <<job, arrays, packed, input, output, saved, faults>>

Rank0FreesTwice ==
  /\ Runs(0, "init") /\ job.h = 0
  /\ \E how \in {"crashed", "aborted"} : Die(0, how)
  /\ UNCHANGED faults

Initialize(r) ==
  /\ r # 0 /\ Runs(r, "init") /\ Len(meta) >= 1
  /\ comm' = [comm EXCEPT ![r] = Distribution(r, meta[1])]
  /\ Goto(r, "bcast")
  /\ UNCHANGED <<job, meta, img, arrays, packed, input, output, result, saved, faults>>

(* mpi_rank0_pack_data_for_scatter: the rows of all processes in a row.    *)
PackedRows(a, rows, stride) ==
  FlattenSeq([i \in 1 .. job.size |->
    [k \in 1 .. a.sendcounts[i - 1] \div stride |-> rows[a.origdispls[i - 1] \div stride + k - 1]]])

PacksTooFar(a, g) ==
  \E r \in Rank : a.origdispls[r] \div g.stride + a.sendcounts[r] \div g.stride > g.h

(* What a failure of rank 0 at this stage comes to: in by_column mode it   *)
(* frees an image whose pixels it has set to NULL.                         *)
PreparingFails == IF ByColumn THEN "crashed" ELSE "aborted"

(* Rank 0 transposes the image, broadcasts the geometry again, computes    *)
(* the counts of everybody and packs the rows.                             *)
Rank0Prepare ==
  /\ Runs(0, "bcast")
  /\ LET rows == IF ByColumn THEN Transposed(img) ELSE img
         g    == IF ByColumn THEN Geometry(job.w, job.h) ELSE comm[0].geo
         a    == CommArrays(job.size, Halo, g.h, g.stride)
     IN  IF PacksTooFar(a, g)
         THEN Die(0, PreparingFails)
         ELSE /\ Goto(0, "scatter")
              /\ img' = rows
              /\ meta' = Append(meta, g)
              /\ comm' = [comm EXCEPT ![0] = Distribution(0, g)]
              /\ arrays' = a
              /\ packed' = PackedRows(a, rows, g.stride)
              /\ UNCHANGED <<job, input, output, result, saved>>
  /\ UNCHANGED faults

Prepare(r) ==
  /\ r # 0 /\ Runs(r, "bcast") /\ Len(meta) >= 2
  /\ comm' = [comm EXCEPT ![r] = Distribution(r, meta[2])]
  /\ Goto(r, "scatter")
  /\ UNCHANGED <<job, meta, img, arrays, packed, input, output, result, saved, faults>>

Bytes(r, rows) == rows * comm[r].geo.stride

(* mpi_phase_scatter_data: a process that is sent more than it has room    *)
(* for ends the job; what it is not sent stays as malloc left it.          *)
Scatter(r) ==
  /\ Runs(r, "scatter")
  /\ r = 0 \/ Reached(0, "compute")
  /\ LET room == comm[r].send.num
         sent == arrays.sendcounts[r] \div comm[r].geo.stride
     IN  IF arrays.sendcounts[r] > Bytes(r, room)
         THEN Die(r, "aborted")
         ELSE /\ Goto(r, "compute")
              /\ input' = [input EXCEPT ![r] = [k \in 0 .. room - 1 |->
                   IF k < sent THEN packed[arrays.displs[r] \div comm[r].geo.stride + k + 1]
                               ELSE [x \in 0 .. comm[r].geo.w - 1 |-> None]]]
              /\ UNCHANGED <<job, comm, meta, img, arrays, packed, output, result, saved>>
  /\ UNCHANGED faults

(* The local row a tap of mpi_apply_filter reads, and the one a tap of     *)
(* mpi_apply_median_filter reads: it wraps, and starts from the local row  *)
(* y where the other starts from the global one.                           *)
LocalRow(r, y, fy) ==
  IF IsMedian
  THEN ((y + fy - Halo + comm[r].geo.h) % comm[r].geo.h) - comm[r].send.start
  ELSE Clamp(comm[r].my.start + y + fy - Padding(KernelUsed), comm[r].geo.h) - comm[r].send.start

LocalColumn(r, x, fx) ==
  IF IsMedian
  THEN (x + fx - Halo + comm[r].geo.w) % comm[r].geo.w
  ELSE Clamp(x + fx - Padding(KernelUsed), comm[r].geo.w)

OutOfBounds(r) ==
  \E y \in 0 .. comm[r].my.num - 1, fy \in 0 .. KernelUsed.size - 1 :
    LocalRow(r, y, fy) \notin 0 .. comm[r].send.num - 1

Region(r) ==
  Image(comm[r].my.num, comm[r].geo.w, LAMBDA y, x :
    Combination(KernelUsed, LAMBDA fy, fx :
      LET row == LocalRow(r, y, fy)
      IN  IF row \in DOMAIN input[r] THEN input[r][row][LocalColumn(r, x, fx)] ELSE None))

(* mpi_rank0_reinit_buffer_for_gather frees as many rows as the image has  *)
(* columns: in an image wider than high it frees what was never allocated. *)
FreesTooMuch(r) == r = 0 /\ ByColumn /\ job.w > job.h

(* mpi_compute_local_region.  The linear filters look before they read     *)
(* outside the buffer and end the job; the median does not look.           *)
Compute(r) ==
  /\ Runs(r, "compute")
  /\ \/ IF OutOfBounds(r) /\ ~IsMedian
        THEN Die(r, "aborted")
        ELSE /\ Goto(r, "gather")
             /\ output' = [output EXCEPT ![r] = Region(r)]
             /\ UNCHANGED <<job, comm, meta, img, arrays, packed, input, result, saved>>
     \/ /\ (OutOfBounds(r) /\ IsMedian) \/ FreesTooMuch(r)
        /\ Die(r, "crashed")
  /\ UNCHANGED faults

(* The median without memory for its windows: the process goes on to send  *)
(* rows that it has not computed.                                          *)
ComputeNothing(r) ==
  /\ Runs(r, "compute") /\ IsMedian /\ comm[r].my.num > 0
  /\ Fault("call")
  /\ Goto(r, "gather")
  /\ output' = [output EXCEPT ![r] = Image(comm[r].my.num, comm[r].geo.w, LAMBDA y, x : None)]
  /\ UNCHANGED <<job, comm, meta, img, arrays, packed, input, result, saved>>

(* mpi_phase_gather_data.                                                  *)
Gather(r) ==
  /\ r # 0 /\ Runs(r, "gather")
  /\ Goto(r, "final")
  /\ UNCHANGED <<job, comm, meta, img, arrays, packed, input, output, result, saved, faults>>

(* A plausible bug: rows unpacked where they were taken from, halo and all.*)
UnpackedAtSource ==
  LET g == comm[0].geo
      from(r) == arrays.origdispls[r] \div g.stride
      sender(y) == {r \in Rank : from(r) <= y /\ y < from(r) + comm[r].my.num}
  IN  [y \in 0 .. g.h - 1 |->
         IF sender(y) = {} THEN [x \in 0 .. g.w - 1 |-> None]
         ELSE LET r == CHOOSE q \in sender(y) : TRUE IN output[r][y - from(r)]]

(* mpi_rank0_unpack_data: the received rows at their displacements.        *)
Unpacked ==
  LET g == comm[0].geo
      from(r) == arrays.recvdispls[r] \div g.stride
      rows(r) == arrays.recvcounts[r] \div g.stride
      sender(y) == {r \in Rank : from(r) <= y /\ y < from(r) + rows(r)}
  IN  [y \in 0 .. g.h - 1 |->
         IF sender(y) = {} THEN [x \in 0 .. g.w - 1 |-> None]
         ELSE LET r == CHOOSE q \in sender(y) : TRUE IN output[r][y - from(r)]]

Rank0Gather ==
  /\ Runs(0, "gather")
  /\ \A r \in Rank \ {0} : Reached(r, "final")
  /\ IF \E r \in Rank : Bytes(r, comm[r].my.num) # arrays.recvcounts[r]
     THEN Die(0, "aborted")
     ELSE /\ Goto(0, "final")
          /\ result' = IF ByColumn THEN Transposed(Unpacked) ELSE Unpacked
          /\ packed' = None
          /\ input' = [r \in Rank |-> None]
          /\ output' = [r \in Rank |-> None]
          /\ UNCHANGED <<job, comm, meta, img, arrays, saved>>
  /\ UNCHANGED faults

(* mpi_rank0_finalize_and_save, and the broadcast of the time.             *)
Rank0Save ==
  /\ Runs(0, "final")
  /\ \/ saved' = result /\ UNCHANGED faults
     \/ UNCHANGED saved /\ Fault("write")
  /\ Goto(0, "finalize")
  /\ UNCHANGED <<job, comm, meta, img, arrays, packed, input, output, result>>

(* A plausible bug: a process goes on without the time.                    *)
ReceiveNoTime(r) ==
  /\ r # 0 /\ Runs(r, "final")
  /\ Goto(r, "finalize")
  /\ UNCHANGED <<job, comm, meta, img, arrays, packed, input, output, result, saved, faults>>

ReceiveTime(r) ==
  /\ r # 0 /\ Runs(r, "final") /\ Reached(0, "finalize")
  /\ Goto(r, "finalize")
  /\ UNCHANGED <<job, comm, meta, img, arrays, packed, input, output, result, saved, faults>>

(* cpu_cleanup: MPI_Finalize.                                              *)
Finalize(r) ==
  /\ pc[r] \in {"finalize", "quit"}
  /\ \A q \in Rank : Reached(q, "finalize") \/ pc[q] = "quit"
  /\ Goto(r, "ended")
  /\ UNCHANGED <<job, comm, meta, img, arrays, packed, input, output, result, saved, faults>>

(* A plausible bug: a process returns on a failure and aborts nothing.     *)
CallFailsQuietly(r) ==
  /\ \E stage \in {"init", "scatter"} : Runs(r, stage)
  /\ Fault("call")
  /\ Goto(r, "quit")
  /\ UNCHANGED <<job, comm, meta, img, arrays, packed, input, output, result, saved>>

(* A call fails and the process calls MPI_Abort, if it gets that far: when *)
(* rank 0 cannot transpose the result back it frees it twice, and it does  *)
(* not look whether it got memory for origdispls.                          *)
CallFails(r) ==
  /\ \/ \E stage \in {"init", "scatter"} : Runs(r, stage)
     \/ r = 0 /\ \E stage \in {"bcast", "gather"} : Runs(r, stage)
     \/ r = 0 /\ ByColumn /\ Runs(r, "compute")
  /\ Fault("call")
  /\ \/ Die(r, IF pc[r] = "bcast" THEN PreparingFails ELSE "aborted")
     \/ (pc[r] = "bcast" \/ (ByColumn /\ pc[r] = "gather")) /\ Die(r, "crashed")

(* The process manager ends the processes of a job one of which is dead.   *)
Killed(r) ==
  /\ pc[r] \notin Dead /\ \E q \in Rank : pc[q] \in Dead
  /\ Die(r, "killed") /\ UNCHANGED faults

Step(r) ==
  \/ Setup(r) \/ SetupFails(r) \/ Unsupported(r) \/ Initialize(r) \/ Prepare(r) \/ Scatter(r)
  \/ Compute(r) \/ Gather(r) \/ ReceiveTime(r) \/ Finalize(r) \/ Killed(r)
  \/ r = 0 /\ (Rank0Initialize \/ Rank0FreesTwice \/ Rank0Prepare \/ Rank0Gather \/ Rank0Save)

Ended == \A r \in Rank : pc[r] \in Dead \union {"ended"}
Terminated == Ended /\ UNCHANGED vars

Next == \/ \E r \in Rank : Step(r) \/ CallFails(r) \/ ComputeNothing(r)
        \/ Terminated

Spec == Init /\ [][Next]_vars

(* Every step takes a process further, so it is enough that the processes  *)
(* that can go on are not all left alone.                                  *)
FairSpec == Spec /\ WF_vars(\E r \in Rank : Step(r))

-----------------------------------------------------------------------------
(* Processes are at some stage or dead; each knows its share once it has   *)
(* the geometry, and holds no row it was not sent.                         *)
TypeOK ==
  /\ pc \in [Rank -> Dead \union {"quit"} \union {Stages[i] : i \in DOMAIN Stages}]
  /\ \A r \in Rank : comm[r] # None =>
       /\ comm[r].my.start + comm[r].my.num <= comm[r].geo.h
       /\ comm[r].send.start + comm[r].send.num <= comm[r].geo.h
       /\ DOMAIN input[r] \subseteq 0 .. comm[r].send.num - 1
       /\ DOMAIN output[r] \subseteq 0 .. comm[r].my.num - 1
  /\ Len(meta) <= 2
  /\ saved # None => DOMAIN saved = 0 .. job.h - 1
  /\ faults \in 0 .. MaxFaults

(* What is saved is what the other modes of the CPU backend would save: no *)
(* row is missing, doubled, or made from rows the rank did not have, and   *)
(* transposing back and forth leaves no trace (mpi-exec.c:29-119,143-249). *)
(* Known to be excepted: the median without memory for its windows.        *)
Lost == IsMedian /\ faults > 0
SavedIsFiltered == saved # None /\ ~Lost => saved = Filtered

(* Rank 0 works out the shares of all processes a second time, for the     *)
(* scatter and the gather: they must be what each process has worked out   *)
(* for itself, or MPI truncates a message (utils.c:196-271, data-          *)
(* transfer.c:36,91).                                                      *)
CountsAgree ==
  \A r \in Rank : arrays # None /\ Reached(r, "scatter") =>
    /\ arrays.sendcounts[r] = Bytes(r, comm[r].send.num)
    /\ arrays.origdispls[r] = Bytes(r, comm[r].send.start)
    /\ arrays.recvcounts[r] = Bytes(r, comm[r].my.num)
    /\ arrays.recvdispls[r] = Bytes(r, comm[r].my.start)

(* Nothing but a failing call ends a job, except an image that has no rows,*)
(* a mode that is not distributed, and, in by_column mode, an image wider  *)
(* than high: in particular no check of a row's place ever fires           *)
(* (filter-comp.c:89, rank0-proc.c:112,160) and no message is truncated.   *)
DiesForAReason ==
  (\E r \in Rank : pc[r] \in Dead) =>
    \/ faults > 0 \/ job.h = 0
    \/ job.mode \in {"by_grid", "by_pixel"}
    \/ ByColumn /\ job.w > job.h

(* A process is in its last stage only if rank 0 has received the rows of  *)
(* all of them: no broadcast of the time, and no MPI_Finalize, overtakes   *)
(* the gather (phases.c:117-131).                                          *)
NobodyLeavesEarly ==
  (\E r \in Rank : pc[r] \in {"finalize", "ended"}) =>
    \A r \in Rank : pc[r] \in {"final", "quit", "finalize", "ended"} \union Dead

(* Whatever fails, no process is left waiting in a collective call: all    *)
(* end, together or by MPI_Abort (mpi-types.h:11-16).                      *)
EveryRankEnds == <>Ended

(* The processes together are the job MpiJob describes.  It is decided     *)
(* when rank 0 has been through everything, or when nobody has the image.  *)
Abstractly ==
  [r \in Rank |-> CASE pc[r] = "ended" -> "left" [] pc[r] \in Dead -> "dead" [] OTHER -> "running"]
Decided == Reached(0, "finalize") \/ \A r \in Rank : pc[r] \in {"quit", "ended"}
OnDisk  == IF saved = None THEN "nothing" ELSE IF saved = Filtered THEN "filtered" ELSE "garbled"
J == INSTANCE MpiJob WITH
  rank <- Rank, decided <- Decided, state <- Abstractly, lost <- Lost, file <- OnDisk
ImplementsMpiJob == J!Spec
=============================================================================
