----------------------------- MODULE MpiRunProofs -----------------------------
(***************************************************************************)
(* Theorems about the MPI mode for any number of processes, any image      *)
(* geometry: what every process works out for itself is what rank 0 works  *)
(* out for it, and nobody leaves before the result is gathered.  For every *)
(* linear filter, no check of a row's place ever fires, what is saved is   *)
(* the filtered image, and the processes implement the job of MpiJob.      *)
(***************************************************************************)
EXTENDS MpiRun, MpiDistributionProofs, KernelsProofs

-----------------------------------------------------------------------------
(* The displacements in the packed buffer are offsets of rows.             *)
RowCounts(size, halo, h) == [i \in 1 .. size |-> SendRange(i - 1, size, halo, h).num]

InBytes(displs, o, size, stride) == \A r \in 0 .. size - 1 : displs[r] = o[r] * stride

LEMMA Displacements ==
  ASSUME NEW size \in Nat \ {0}, NEW h \in Nat, NEW halo \in Nat, NEW stride \in Nat \ {0}
  PROVE  /\ RowCounts(size, halo, h) \in [1 .. size -> Nat]
         /\ \E o \in [0 .. size -> Nat] :
              /\ Offsets(o, RowCounts(size, halo, h), size)
              /\ InBytes(CommArrays(size, halo, h, stride).displs, o, size, stride)
<1> DEFINE len == RowCounts(size, halo, h)
<1>0. len \in [1 .. size -> Nat]
  <2>1. ASSUME NEW i \in 1 .. size PROVE SendRange(i - 1, size, halo, h).num \in Nat
    <3>1. i - 1 \in 0 .. size - 1
      OBVIOUS
    <3> QED
      BY <3>1, HaloIsSent
  <2> QED
    BY <2>1 DEF RowCounts
<1> DEFINE rank == 0 .. size - 1
           sendcounts == [r \in rank |-> SendRange(r, size, halo, h).num * stride]
           Sums(f) == f = [r \in 0 .. size |-> IF r = 0 THEN 0 ELSE f[r - 1] + sendcounts[r - 1]]
           offset == CHOOSE f : Sums(f)
           a == CommArrays(size, halo, h, stride)
           step == [i \in 1 .. size |-> [x \in Nat |-> x + len[i]]]
<1>1. a.displs = [r \in rank |-> offset[r]]
  BY DEF CommArrays
<1>5. \A i \in 1 .. size : sendcounts[i - 1] = len[i] * stride
  BY DEF RowCounts
<1> HIDE DEF sendcounts, a, len
<1>2. step \in [1 .. size -> [Nat -> Nat]] /\ \A i \in 1 .. size, x \in Nat : step[i][x] = x + len[i]
  BY <1>0
<1> HIDE DEF step
<1>3. PICK o \in [0 .. size -> Nat] : Iterates(o, size, 0, step)
  BY <1>2, Recursion
<1>4. Offsets(o, len, size)
  <2>1. \A i \in 1 .. size : o[i] = step[i][o[i - 1]] /\ o[i - 1] \in Nat
    BY <1>3 DEF Iterates
  <2> QED
    BY <1>2, <1>3, <2>1 DEF Offsets, Iterates
<1> DEFINE g == [r \in 0 .. size |-> o[r] * stride]
<1>6. Sums(g)
  <2>1. ASSUME NEW r \in 0 .. size PROVE g[r] = IF r = 0 THEN 0 ELSE g[r - 1] + sendcounts[r - 1]
    <3>1. CASE r = 0
      <4>1. o[0] = 0 /\ 0 * stride = 0 /\ 0 \in 0 .. size
        BY <1>4 DEF Offsets
      <4> QED
        BY <3>1, <4>1
    <3>2. CASE r # 0
      <4>1. r \in 1 .. size /\ r - 1 \in 0 .. size
        BY <3>2
      <4>2. o[r] = o[r - 1] + len[r] /\ o[r - 1] \in Nat /\ len[r] \in Nat
        BY <1>0, <1>4, <4>1 DEF Offsets
      <4>3. (o[r - 1] + len[r]) * stride = o[r - 1] * stride + len[r] * stride
        BY <4>2
      <4>4. g[r] = o[r] * stride /\ g[r - 1] = o[r - 1] * stride /\ sendcounts[r - 1] = len[r] * stride
        BY <1>5, <4>1
      <4> HIDE DEF g
      <4> QED
        BY <3>2, <4>2, <4>3, <4>4
    <3> QED
      BY <3>1, <3>2
  <2>2. g = [r \in 0 .. size |-> g[r]]
    OBVIOUS
  <2> HIDE DEF g
  <2> QED
    BY <2>1, <2>2
<1>7. Sums(offset)
  <2> HIDE DEF g
  <2> QED
    BY <1>6
<1> HIDE DEF offset
<1>8. \A r \in 0 .. size : offset[r] = o[r] * stride
  <2> DEFINE T == {r \in 0 .. size : offset[r] # g[r]}
  <2>1. T = {}
    <3> SUFFICES ASSUME T # {} PROVE FALSE
      OBVIOUS
    <3>1. T \subseteq Nat
      OBVIOUS
    <3>2. PICK j \in T : \A i \in T : j <= i
      <4> HIDE DEF T
      <4> QED
        BY <3>1, Least
    <3>3. j \in 0 .. size /\ offset[j] # g[j]
      BY <3>2
    <3>4. j # 0 => j - 1 \in 0 .. size /\ offset[j - 1] = g[j - 1]
      <4>1. j # 0 => j - 1 \in 0 .. size /\ j - 1 \notin T
        <5> HIDE DEF T
        <5> QED
          BY <3>2, <3>3
      <4> QED
        BY <4>1
    <3> HIDE DEF T, g
    <3>5. g[j] = (IF j = 0 THEN 0 ELSE g[j - 1] + sendcounts[j - 1])
      BY <1>6, <3>3
    <3>6. offset[j] = (IF j = 0 THEN 0 ELSE offset[j - 1] + sendcounts[j - 1])
      BY <1>7, <3>3
    <3> QED
      BY <3>3, <3>4, <3>5, <3>6
  <2>2. ASSUME NEW r \in 0 .. size PROVE offset[r] = o[r] * stride
    <3>1. g[r] = o[r] * stride
      OBVIOUS
    <3>2. offset[r] = g[r]
      <4> HIDE DEF g
      <4> QED
        BY <2>1
    <3> QED
      BY <3>1, <3>2
  <2> QED
    BY <2>2
<1>9. ASSUME NEW r \in rank PROVE a.displs[r] = o[r] * stride
  <2>1. a.displs[r] = offset[r] /\ r \in 0 .. size
    BY <1>1
  <2> QED
    BY <1>8, <2>1
<1>10. len \in [1 .. size -> Nat] /\ \E f \in [0 .. size -> Nat] : Offsets(f, len, size) /\ InBytes(a.displs, f, size, stride)
  <2>1. InBytes(a.displs, o, size, stride)
    BY <1>9 DEF InBytes
  <2> QED
    BY <1>0, <1>4, <2>1
<1> QED
  BY <1>10 DEF len, a

LEMMA SequenceOf ==
  ASSUME NEW R, NEW l \in Nat, NEW s \in [1 .. l -> R]
  PROVE  s \in Seq(R) /\ Len(s) = l
  OBVIOUS

LEMMA CountsInRows ==
  ASSUME NEW size \in Nat \ {0}, NEW h \in Nat, NEW halo \in Nat, NEW stride \in Nat \ {0}, NEW r \in 0 .. size - 1
  PROVE  /\ CommArrays(size, halo, h, stride).sendcounts[r] \div stride = SendRange(r, size, halo, h).num
         /\ CommArrays(size, halo, h, stride).origdispls[r] \div stride = SendRange(r, size, halo, h).start
  BY Arrays

RangeOfRows(size, halo, h, stride, r) ==
  /\ CommArrays(size, halo, h, stride).sendcounts[r] \div stride = SendRange(r, size, halo, h).num
  /\ CommArrays(size, halo, h, stride).origdispls[r] \div stride = SendRange(r, size, halo, h).start

LEMMA CountsARange ==
  ASSUME NEW size \in Nat \ {0}, NEW h \in Nat, NEW halo \in Nat, NEW stride \in Nat \ {0}, NEW r \in 0 .. size - 1
  PROVE  RangeOfRows(size, halo, h, stride, r)
  BY CountsInRows DEF RangeOfRows

Processes(n) == n = job.size

(* What a rank is sent is what its counts and displacements say: the rows  *)
(* of its range.                                                           *)
LEMMA RowsArePacked ==
  ASSUME NEW h \in Nat, NEW halo \in Nat, NEW stride \in Nat \ {0}, NEW rows,
         NEW n \in Nat \ {0}, Processes(n), NEW r \in 0 .. n - 1
  PROVE  LET a == CommArrays(n, halo, h, stride)
         IN  \A k \in 0 .. SendRange(r, n, halo, h).num - 1 :
               PackedRows(a, rows, stride)[a.displs[r] \div stride + k + 1] = rows[SendRange(r, n, halo, h).start + k]
<1> DEFINE range(i) == SendRange(i, n, halo, h)
           a == CommArrays(n, halo, h, stride)
           seqs == [i \in 1 .. n |-> [m \in 1 .. range(i - 1).num |-> rows[range(i - 1).start + m - 1]]]
           R == {rows[y] : y \in 0 .. h - 1}
           X == Seq(R)
<1>1. ASSUME NEW i \in 1 .. n
      PROVE  /\ range(i - 1) \in [start : Nat, num : Nat] /\ range(i - 1).start + range(i - 1).num <= h
             /\ a.sendcounts[i - 1] \div stride = range(i - 1).num
             /\ a.origdispls[i - 1] \div stride = range(i - 1).start
  <2>1. ASSUME NEW j \in 0 .. n - 1
        PROVE  /\ range(j) \in [start : Nat, num : Nat] /\ range(j).start + range(j).num <= h
               /\ a.sendcounts[j] \div stride = range(j).num
               /\ a.origdispls[j] \div stride = range(j).start
    <3>1. range(j) \in [start : Nat, num : Nat] /\ range(j).start + range(j).num <= h
      BY HaloIsSent
    <3>2. a.sendcounts[j] \div stride = range(j).num /\ a.origdispls[j] \div stride = range(j).start
      BY CountsInRows
    <3> QED
      BY <3>1, <3>2
  <2>2. i - 1 \in 0 .. n - 1
    OBVIOUS
  <2> HIDE DEF a, range
  <2> QED
    BY <2>1, <2>2
<1> HIDE DEF a, range
<1>2. PackedRows(a, rows, stride) = FlattenSeq(seqs)
  <2>1. [i \in 1 .. n |-> [m \in 1 .. a.sendcounts[i - 1] \div stride |-> rows[a.origdispls[i - 1] \div stride + m - 1]]] = seqs
    BY <1>1
  <2> HIDE DEF seqs
  <2> QED
    BY <2>1 DEF PackedRows, Processes
<1>3. ASSUME NEW i \in 1 .. n PROVE seqs[i] \in X /\ Len(seqs[i]) = range(i - 1).num
  <2> DEFINE s == seqs[i]
             l == range(i - 1).num
  <2>1. s = [m \in 1 .. l |-> rows[range(i - 1).start + m - 1]] /\ l \in Nat
    BY <1>1
  <2>2. \A m \in 1 .. l : range(i - 1).start + m - 1 \in 0 .. h - 1
    BY <1>1
  <2>3. \A m \in 1 .. l : rows[range(i - 1).start + m - 1] \in R
    BY <2>2
  <2> HIDE DEF s, l, R, seqs
  <2>4. s \in [1 .. l -> R]
    BY <2>1, <2>3
  <2>5. s \in Seq(R) /\ Len(s) = l
    BY <2>1, <2>4, SequenceOf
  <2> QED
    BY <2>5 DEF s, l
<1>4. seqs \in [1 .. n -> X]
  <2>1. seqs = [i \in 1 .. n |-> seqs[i]]
    OBVIOUS
  <2> HIDE DEF seqs, X
  <2> QED
    BY <1>3, <2>1
<1>5. Lengths(seqs, n) = RowCounts(n, halo, h)
  <2> HIDE DEF seqs
  <2> QED
    BY <1>3 DEF Lengths, RowCounts, range
<1> HIDE DEF R
<1>6. PICK o \in [0 .. n -> Nat] :
        /\ Offsets(o, RowCounts(n, halo, h), n)
        /\ InBytes(a.displs, o, n, stride)
  <2> HIDE DEF seqs
  <2> QED
    BY Displacements DEF a
<1>7. Placed(FlattenSeq(seqs), seqs, o, n)
  <2> HIDE DEF seqs
  <2> QED
    BY <1>4, <1>5, <1>6, Flattened
<1>8. a.displs[r] \div stride = o[r]
  <2>1. a.displs[r] = o[r] * stride /\ o[r] \in Nat
    BY <1>6 DEF InBytes
  <2> QED
    BY <2>1, RowsOfBytes
<1> SUFFICES ASSUME NEW k \in 0 .. SendRange(r, n, halo, h).num - 1
             PROVE  PackedRows(a, rows, stride)[a.displs[r] \div stride + k + 1] = rows[SendRange(r, n, halo, h).start + k]
  BY DEF a
<1>9. r + 1 \in 1 .. n /\ (r + 1) - 1 = r /\ range(r).num \in Nat /\ k + 1 \in 1 .. range(r).num
  <2>1. r + 1 \in 1 .. n /\ (r + 1) - 1 = r
    OBVIOUS
  <2>2. range(r).num \in Nat
    BY <1>1, <2>1
  <2>3. k \in 0 .. range(r).num - 1
    BY DEF range
  <2> QED
    BY <2>1, <2>2, <2>3
<1>10. FlattenSeq(seqs)[o[r] + (k + 1)] = seqs[r + 1][k + 1]
  <2>1. Len(seqs[r + 1]) = range(r).num
    BY <1>3, <1>9
  <2> HIDE DEF seqs
  <2>2. FlattenSeq(seqs)[o[(r + 1) - 1] + (k + 1)] = seqs[r + 1][k + 1]
    BY <1>7, <1>9, <2>1 DEF Placed
  <2> QED
    BY <1>9, <2>2
<1>11. seqs[r + 1][k + 1] = rows[range(r).start + k]
  <2>1. seqs[r + 1][k + 1] = rows[range(r).start + (k + 1) - 1] /\ range(r).start \in Nat
    BY <1>1, <1>9
  <2>2. range(r).start + (k + 1) - 1 = range(r).start + k
    BY <2>1
  <2> QED
    BY <2>1, <2>2
<1>12. o[r] + k + 1 = o[r] + (k + 1)
  OBVIOUS
<1> HIDE DEF seqs
<1> QED
  BY <1>2, <1>8, <1>10, <1>11, <1>12 DEF a, range

-----------------------------------------------------------------------------
(* Where a process can be, and the stages from one on.                     *)
Places  == Dead \union {"quit"} \union {Stages[i] : i \in DOMAIN Stages}
Knowing == {"scatter", "compute", "gather", "final", "finalize"}

LEMMA PlacesAre ==
  Places = {"setup", "init", "bcast", "scatter", "compute", "gather", "final", "finalize", "ended",
            "quit", "aborted", "crashed", "killed"}
<1>1. DOMAIN Stages = {1, 2, 3, 4, 5, 6, 7, 8, 9}
  BY DEF Stages
<1>2. {Stages[i] : i \in DOMAIN Stages}
        = {"setup", "init", "bcast", "scatter", "compute", "gather", "final", "finalize", "ended"}
  BY <1>1 DEF Stages
<1> QED
  BY <1>2 DEF Places, Dead

LEMMA StagesInOrder ==
  ASSUME NEW r
  PROVE  /\ Reached(r, "scatter") <=> (pc[r] \in Knowing \union {"ended"})
         /\ Reached(r, "compute") <=> (pc[r] \in {"compute", "gather", "final", "finalize", "ended"})
         /\ Reached(r, "final") <=> (pc[r] \in {"final", "finalize", "ended"})
         /\ Reached(r, "finalize") <=> (pc[r] \in {"finalize", "ended"})
<1>1. /\ Stages[1] = "setup" /\ Stages[2] = "init" /\ Stages[3] = "bcast" /\ Stages[4] = "scatter"
      /\ Stages[5] = "compute" /\ Stages[6] = "gather" /\ Stages[7] = "final" /\ Stages[8] = "finalize"
      /\ Stages[9] = "ended" /\ DOMAIN Stages = 1 .. 9
  BY DEF Stages
<1> HIDE DEF Stages
<1>2. \A i \in DOMAIN Stages : i = 1 \/ i = 2 \/ i = 3 \/ i = 4 \/ i = 5 \/ i = 6 \/ i = 7 \/ i = 8 \/ i = 9
  BY <1>1
<1>3. Reached(r, "scatter") <=> (pc[r] \in Knowing \union {"ended"})
  BY <1>1, <1>2 DEF Reached, Knowing
<1>4. Reached(r, "compute") <=> (pc[r] \in {"compute", "gather", "final", "finalize", "ended"})
  BY <1>1, <1>2 DEF Reached
<1>5. Reached(r, "final") <=> (pc[r] \in {"final", "finalize", "ended"})
  BY <1>1, <1>2 DEF Reached
<1>6. Reached(r, "finalize") <=> (pc[r] \in {"finalize", "ended"})
  BY <1>1, <1>2 DEF Reached
<1> QED
  BY <1>3, <1>4, <1>5, <1>6

(* The geometry the processes are told first and the one they go on with:  *)
(* in by_column mode that of the transposed image.                         *)
First  == Geometry(job.h, job.w)
Second == IF ByColumn THEN Geometry(job.w, job.h) ELSE First
Counts == CommArrays(job.size, Halo, Second.h, Second.stride)

LEMMA NothingTruncated ==
  ASSUME NEW h \in Nat, NEW w \in Nat, w * BytesPerPixel < Word16, h * BytesPerPixel < Word16
  PROVE  Geometry(h, w) = [h |-> h, w |-> w, stride |-> w * 3]
<1>1. h < 65536 /\ w < 65536 /\ w * 3 \in Nat /\ w * 3 < 65536
  BY DEF BytesPerPixel, Word16
<1>2. h % 65536 = h /\ w % 65536 = w /\ (w * 3) % 65536 = w * 3
  BY <1>1
<1> QED
  BY <1>2 DEF Geometry, BytesPerPixel, Word16

LEMMA KernelSizes ==
  ASSUME NEW f \in DOMAIN FilterByName
  PROVE  FilterByName[f].size \in {3, 5, 9, 15}
<1>1. motion_blur.size = 9 /\ med_gaus.size = 9
  BY DEF motion_blur, med_gaus, Kernel
<1>2. blur.size = 5 /\ gaus_blur.size = 5 /\ emboss.size = 5
  BY DEF blur, gaus_blur, emboss, Kernel
<1>3. conv.size = 3 /\ sharpen.size = 3
  BY DEF conv, sharpen, Kernel
<1>4. box_blur.size = 15 /\ big_gaus.size = 15
  BY DEF box_blur, big_gaus, Kernel
<1> QED
  BY <1>1, <1>2, <1>3, <1>4 DEF FilterByName

LEMMA JobGeometry ==
  ASSUME job \in Jobs
  PROVE  /\ job.size \in Nat \ {0} /\ 0 \in Rank /\ job.h \in Nat /\ job.w \in Nat \ {0} /\ Halo \in Nat
         /\ First = [h |-> job.h, w |-> job.w, stride |-> job.w * 3]
         /\ Second = IF ByColumn THEN [h |-> job.w, w |-> job.h, stride |-> job.h * 3] ELSE First
         /\ job.missing \subseteq Rank
<1>1. /\ job.size \in Nat \ {0} /\ job.h \in Nat /\ job.w \in Nat \ {0} /\ job.missing \subseteq Rank
      /\ job.w * BytesPerPixel < Word16 /\ job.h * BytesPerPixel < Word16
      /\ job.filter \in DOMAIN FilterByName \union {"mm"} /\ MedianSize \in Nat
  BY MpiAssumption DEF Rank
<1>2. KernelUsed.size \in Nat
  <2>1. Window(MedianSize).size = MedianSize
    BY DEF Window, Kernel
  <2>2. job.filter # "mm" => FilterByName[job.filter].size \in Nat
    BY <1>1, KernelSizes
  <2> QED
    BY <1>1, <2>1, <2>2 DEF KernelUsed, IsMedian
<1>3. Halo \in Nat
  BY <1>2 DEF Halo, HaloSize
<1> QED
  BY <1>1, <1>3, NothingTruncated DEF First, Second, Rank

-----------------------------------------------------------------------------
(* The inductive invariant of the control.  What rank 0 has broadcast and  *)
(* counted follows from where it is.                                       *)
Types ==
  /\ job \in Jobs
  /\ pc \in [Rank -> Places]
  /\ comm = [r \in Rank |-> comm[r]]
  /\ faults \in 0 .. MaxFaults

Root ==
  /\ meta \in {<<>>, <<First>>, <<First, Second>>}
  /\ meta # <<>> => job.h > 0 /\ job.mode \in {"by_row", "by_column"}
  /\ arrays # None => arrays = Counts /\ meta = <<First, Second>>
  /\ pc[0] \in {"setup", "init"} \/ 0 \in job.missing => meta = <<>>
  /\ pc[0] = "bcast" => meta = <<First>>
  /\ pc[0] \in Knowing => arrays = Counts /\ meta = <<First, Second>>

(* What a process has worked out is what it was told last.                 *)
Told ==
  \A r \in Rank :
    /\ comm[r] \in {None, Distribution(r, First), Distribution(r, Second)}
    /\ comm[r] # None => meta # <<>>
    /\ pc[r] = "bcast" => comm[r] = Distribution(r, First) /\ meta # <<>>
    /\ pc[r] \in Knowing => comm[r] = Distribution(r, Second) /\ meta = <<First, Second>>
    /\ pc[r] = "ended" /\ r \notin job.missing => comm[r] = Distribution(r, Second)

(* A process without the file takes no part, and rank 0 then never gets    *)
(* past the gather.                                                        *)
Absent ==
  \A r \in Rank :
    /\ r \in job.missing => pc[r] \in {"setup", "quit", "ended"} \union Dead
    /\ r \notin job.missing => pc[r] # "quit"
    /\ r \in job.missing => pc[0] \notin {"final", "finalize"}
    /\ \A q \in Rank : r \in job.missing /\ pc[q] = "ended" => 0 \in job.missing

(* Rank 0 is the first to leave, and finishes with everybody.              *)
Leaving ==
  /\ (pc[0] = "final" \/ \E r \in Rank : pc[r] = "finalize") =>
       \A q \in Rank : pc[q] \in {"final", "finalize", "ended"} \union Dead
  /\ (\E r \in Rank : pc[r] = "ended") =>
       \A q \in Rank : pc[q] \in {"finalize", "quit", "ended"} \union Dead

Control == Types /\ Root /\ Told /\ Absent /\ Leaving

LEMMA SameJob ==
  ASSUME job' = job
  PROVE  /\ Rank' = Rank /\ First' = First /\ Second' = Second /\ Counts' = Counts
         /\ \A r : /\ Distribution(r, First)' = Distribution(r, First)
                   /\ Distribution(r, Second)' = Distribution(r, Second)
<1>1. First' = First /\ Second' = Second /\ Halo' = Halo /\ job' = job
  BY DEF First, Second, ByColumn, Halo, KernelUsed, IsMedian
<1> QED
  BY <1>1 DEF Rank, Counts, Distribution

LEMMA ControlInit == Init => Control
<1> SUFFICES ASSUME Init PROVE Control
  OBVIOUS
<1>1. 0 \in Rank /\ job \in Jobs /\ MaxFaults \in Nat
  BY JobGeometry, MpiAssumption DEF Init
<1>2. \A r \in Rank : pc[r] = "setup" /\ comm[r] = None
  BY DEF Init
<1>3. Types
  BY <1>1, PlacesAre DEF Types, Init
<1>4. Root
  BY <1>1, <1>2 DEF Root, Init, Knowing
<1>5. Told
  BY <1>2 DEF Told, Knowing
<1>6. Absent /\ Leaving
  BY <1>1, <1>2 DEF Absent, Leaving
<1> QED
  BY <1>3, <1>4, <1>5, <1>6 DEF Control

(* A process that dies.                                                    *)
LEMMA Death ==
  ASSUME Control, NEW r \in Rank, NEW how \in Dead, Die(r, how), faults' \in 0 .. MaxFaults
  PROVE  Control'
<1>1. /\ job' = job /\ comm' = comm /\ meta' = meta /\ arrays' = arrays
      /\ pc' = [pc EXCEPT ![r] = how] /\ pc \in [Rank -> Places] /\ 0 \in Rank
  BY JobGeometry DEF Die, Goto, Control, Types
<1>2. how \in {"aborted", "crashed", "killed"}
  BY DEF Dead
<1>3. pc'[r] = how /\ \A q \in Rank : q # r => pc'[q] = pc[q]
  BY <1>1
<1>4. Types'
  BY <1>1, <1>2, SameJob, PlacesAre DEF Control, Types
<1>5. Root'
  BY <1>1, <1>2, <1>3, SameJob DEF Control, Root, Knowing
<1>6. Told'
  BY <1>1, <1>2, <1>3, SameJob DEF Control, Told, Knowing
<1>7. Absent'
  BY <1>1, <1>2, <1>3, SameJob DEF Control, Absent, Dead
<1>8. Leaving'
  BY <1>1, <1>2, <1>3, SameJob DEF Control, Leaving, Dead
<1> QED
  BY <1>4, <1>5, <1>6, <1>7, <1>8 DEF Control

(* A process that goes on by itself.                                       *)
Quietly(from, to) ==
  \/ from = "setup" /\ to = "init"
  \/ from = "scatter" /\ to = "compute"
  \/ from = "compute" /\ to = "gather"

LEMMA Progress ==
  ASSUME Control, NEW r \in Rank, r \notin job.missing, NEW to,
         Quietly(pc[r], to) \/ (r # 0 /\ pc[r] = "gather" /\ to = "final"), Goto(r, to),
         UNCHANGED <<job, comm, meta, arrays>>, faults' \in 0 .. MaxFaults
  PROVE  Control'
<1>1. /\ job' = job /\ comm' = comm /\ meta' = meta /\ arrays' = arrays
      /\ pc' = [pc EXCEPT ![r] = to] /\ pc \in [Rank -> Places] /\ 0 \in Rank
  BY JobGeometry DEF Goto, Control, Types
<1>2. /\ \/ pc[r] = "setup" /\ to = "init"
         \/ pc[r] = "scatter" /\ to = "compute"
         \/ pc[r] = "compute" /\ to = "gather"
         \/ r # 0 /\ pc[r] = "gather" /\ to = "final"
  BY DEF Quietly
<1>3. pc'[r] = to /\ \A q \in Rank : q # r => pc'[q] = pc[q]
  BY <1>1
<1>4. Types'
  BY <1>1, <1>2, SameJob, PlacesAre DEF Control, Types
<1>5. Root'
  BY <1>1, <1>2, <1>3, SameJob DEF Control, Root, Knowing
<1>6. Told'
  BY <1>1, <1>2, <1>3, SameJob, ZenonT(90) DEF Control, Told, Knowing
<1>7. Absent'
  BY <1>1, <1>2, <1>3, SameJob DEF Control, Absent, Dead
<1>8. Leaving'
  BY <1>1, <1>2, <1>3, SameJob DEF Control, Leaving, Dead
<1> QED
  BY <1>4, <1>5, <1>6, <1>7, <1>8 DEF Control

LEMMA ControlSetupFails == ASSUME Control, NEW r \in Rank, SetupFails(r) PROVE Control'
<1>1. /\ job' = job /\ comm' = comm /\ meta' = meta /\ arrays' = arrays /\ faults' = faults
      /\ pc' = [pc EXCEPT ![r] = "quit"] /\ pc \in [Rank -> Places] /\ 0 \in Rank
      /\ pc[r] = "setup" /\ r \in job.missing
  BY JobGeometry DEF SetupFails, Goto, Control, Types
<1>3. pc'[r] = "quit" /\ \A q \in Rank : q # r => pc'[q] = pc[q]
  BY <1>1
<1>4. Types'
  BY <1>1, SameJob, PlacesAre DEF Control, Types
<1>5. Root'
  BY <1>1, <1>3, SameJob DEF Control, Root, Knowing
<1>6. Told'
  BY <1>1, <1>3, SameJob DEF Control, Told, Knowing
<1>7. Absent'
  BY <1>1, <1>3, SameJob DEF Control, Absent, Dead
<1>8. Leaving'
  BY <1>1, <1>3, SameJob DEF Control, Leaving, Dead
<1> QED
  BY <1>4, <1>5, <1>6, <1>7, <1>8 DEF Control

LEMMA ControlRank0Initialize == ASSUME Control, Rank0Initialize PROVE Control'
<1>1. /\ job' = job /\ meta' = <<First>> /\ arrays' = arrays /\ faults' = faults
      /\ comm' = [comm EXCEPT ![0] = Distribution(0, First)] /\ comm = [r \in Rank |-> comm[r]]
      /\ pc' = [pc EXCEPT ![0] = "bcast"] /\ pc \in [Rank -> Places] /\ 0 \in Rank
      /\ pc[0] = "init" /\ job.h > 0 /\ job.mode \in {"by_row", "by_column"}
  BY JobGeometry DEF Rank0Initialize, Runs, First, Goto, Control, Types
<1>2. /\ pc'[0] = "bcast" /\ \A q \in Rank : q # 0 => pc'[q] = pc[q]
      /\ comm'[0] = Distribution(0, First) /\ \A q \in Rank : q # 0 => comm'[q] = comm[q]
  BY <1>1
<1>3. meta = <<>> /\ arrays = None /\ 0 \notin job.missing
  <2>1. 0 \notin job.missing
    BY <1>1 DEF Control, Absent, Dead
  <2>2. meta = <<>> /\ <<>> # <<First, Second>>
    BY <1>1 DEF Control, Root
  <2> QED
    BY <2>1, <2>2 DEF Control, Root
<1>4. Types'
  <2>1. comm' = [r \in Rank |-> comm'[r]]
    BY <1>1
  <2> QED
    BY <1>1, <2>1, SameJob, PlacesAre DEF Control, Types
<1>5. Root'
  BY <1>1, <1>2, <1>3, SameJob DEF Control, Root, Knowing
<1>6. Told'
  <2>1. <<First>> # <<>> /\ <<First, Second>> # <<>>
    OBVIOUS
  <2>2. \A r \in Rank : r # 0 => pc[r] # "bcast" /\ pc[r] \notin Knowing
    BY <1>3, <2>1 DEF Control, Told
  <2>3. ASSUME NEW r \in Rank
        PROVE  /\ comm'[r] \in {None, Distribution(r, First), Distribution(r, Second)}
               /\ comm'[r] # None => meta' # <<>>
               /\ pc'[r] = "bcast" => comm'[r] = Distribution(r, First) /\ meta' # <<>>
               /\ pc'[r] \in Knowing => comm'[r] = Distribution(r, Second) /\ meta' = <<First, Second>>
               /\ pc'[r] = "ended" /\ r \notin job.missing => comm'[r] = Distribution(r, Second)
    <3>1. CASE r = 0
      BY <1>1, <1>2, <2>1, <3>1 DEF Knowing
    <3>2. CASE r # 0
      BY <1>1, <1>2, <2>1, <2>2, <3>2 DEF Control, Told, Knowing
    <3> QED
      BY <3>1, <3>2
  <2> QED
    BY <1>1, <2>3, SameJob DEF Told
<1>7. Absent'
  BY <1>1, <1>2, <1>3, SameJob DEF Control, Absent, Dead
<1>8. Leaving'
  BY <1>1, <1>2, SameJob DEF Control, Leaving, Dead
<1> QED
  BY <1>4, <1>5, <1>6, <1>7, <1>8 DEF Control

LEMMA ControlInitialize == ASSUME Control, NEW r \in Rank, Initialize(r) PROVE Control'
<1>1. /\ job' = job /\ meta' = meta /\ arrays' = arrays /\ faults' = faults
      /\ comm = [q \in Rank |-> comm[q]] /\ comm' = [comm EXCEPT ![r] = Distribution(r, meta[1])]
      /\ pc' = [pc EXCEPT ![r] = "bcast"] /\ pc \in [Rank -> Places] /\ 0 \in Rank
      /\ r # 0 /\ pc[r] = "init" /\ Len(meta) >= 1
  BY JobGeometry DEF Initialize, Runs, Goto, Control, Types
<1>2. meta # <<>> /\ meta[1] = First
  <2>1. Len(<<>>) = 0 /\ <<First>>[1] = First /\ <<First, Second>>[1] = First
    OBVIOUS
  <2> QED
    BY <1>1, <2>1 DEF Control, Root
<1>3. /\ pc'[r] = "bcast" /\ \A q \in Rank : q # r => pc'[q] = pc[q]
      /\ comm'[r] = Distribution(r, First) /\ \A q \in Rank : q # r => comm'[q] = comm[q]
  BY <1>1, <1>2
<1>4. Types'
  <2>1. comm' = [q \in Rank |-> comm'[q]]
    BY <1>1
  <2> QED
    BY <1>1, <2>1, SameJob, PlacesAre DEF Control, Types
<1>5. Root'
  BY <1>1, <1>3, SameJob DEF Control, Root, Knowing
<1>6. Told'
  BY <1>1, <1>2, <1>3, SameJob DEF Control, Told, Knowing
<1>7. Absent'
  BY <1>1, <1>3, SameJob DEF Control, Absent, Dead
<1>8. Leaving'
  BY <1>1, <1>3, SameJob DEF Control, Leaving, Dead
<1> QED
  BY <1>4, <1>5, <1>6, <1>7, <1>8 DEF Control

LEMMA ControlPrepare == ASSUME Control, NEW r \in Rank, Prepare(r) PROVE Control'
<1>1. /\ job' = job /\ meta' = meta /\ arrays' = arrays /\ faults' = faults
      /\ comm = [q \in Rank |-> comm[q]] /\ comm' = [comm EXCEPT ![r] = Distribution(r, meta[2])]
      /\ pc' = [pc EXCEPT ![r] = "scatter"] /\ pc \in [Rank -> Places] /\ 0 \in Rank
      /\ r # 0 /\ pc[r] = "bcast" /\ Len(meta) >= 2
  BY JobGeometry DEF Prepare, Runs, Goto, Control, Types
<1>2. meta = <<First, Second>> /\ meta[2] = Second /\ meta # <<>>
  <2>1. Len(<<>>) = 0 /\ Len(<<First>>) = 1 /\ Len(<<First, Second>>) = 2 /\ <<First, Second>>[2] = Second
    OBVIOUS
  <2>2. meta \in {<<>>, <<First>>, <<First, Second>>}
    BY DEF Control, Root
  <2> QED
    BY <1>1, <2>1, <2>2
<1>3. /\ pc'[r] = "scatter" /\ \A q \in Rank : q # r => pc'[q] = pc[q]
      /\ comm'[r] = Distribution(r, Second) /\ \A q \in Rank : q # r => comm'[q] = comm[q]
  BY <1>1, <1>2
<1>4. Types'
  <2>1. comm' = [q \in Rank |-> comm'[q]]
    BY <1>1
  <2> QED
    BY <1>1, <2>1, SameJob, PlacesAre DEF Control, Types
<1>5. Root'
  BY <1>1, <1>3, SameJob DEF Control, Root, Knowing
<1>6. Told'
  BY <1>1, <1>2, <1>3, SameJob DEF Control, Told, Knowing
<1>7. Absent'
  BY <1>1, <1>3, SameJob DEF Control, Absent, Dead
<1>8. Leaving'
  BY <1>1, <1>3, SameJob DEF Control, Leaving, Dead
<1> QED
  BY <1>4, <1>5, <1>6, <1>7, <1>8 DEF Control

LEMMA Appending ==
  ASSUME NEW X, NEW s \in Seq(X), NEW b \in X
  PROVE  /\ Append(s, b) \in Seq(X) /\ Len(Append(s, b)) = Len(s) + 1
         /\ Append(s, b)[Len(s) + 1] = b /\ \A i \in 1 .. Len(s) : Append(s, b)[i] = s[i]
  OBVIOUS

LEMMA AppendingKeeps ==
  ASSUME NEW X, NEW s \in Seq(X), NEW b \in X, NEW i \in 1 .. Len(s)
  PROVE  Append(s, b)[i] = s[i]
  BY Appending

LEMMA AppendedToOne == ASSUME NEW a, NEW b PROVE Append(<<a>>, b) = <<a, b>>
<1> DEFINE X == {a, b}
           s == <<a>>
           t == <<a, b>>
           q == Append(s, b)
<1>1. s \in Seq(X) /\ b \in X /\ Len(s) = 1 /\ s[1] = a
  OBVIOUS
<1>2. t = [i \in 1 .. 2 |-> t[i]] /\ t[1] = a /\ t[2] = b
  OBVIOUS
<1> HIDE DEF s, t, X
<1>3. q \in Seq(X) /\ Len(q) = Len(s) + 1 /\ q[Len(s) + 1] = b /\ \A i \in 1 .. Len(s) : q[i] = s[i]
  <2>1. q \in Seq(X) /\ Len(q) = Len(s) + 1 /\ q[Len(s) + 1] = b
    BY <1>1, Appending
  <2>2. ASSUME NEW i \in 1 .. Len(s) PROVE q[i] = s[i]
    BY <1>1, AppendingKeeps
  <2> QED
    BY <2>1, <2>2
<1> HIDE DEF q
<1>4. q[1] = a
  BY <1>1, <1>3
<1>5. Len(s) + 1 = 2
  BY <1>1
<1>6. q[2] = b /\ Len(q) = 2
  BY <1>3, <1>5
<1>7. q = [i \in 1 .. 2 |-> q[i]]
  <2>1. q \in Seq(X)
    BY <1>3
  <2>2. q = [i \in 1 .. Len(q) |-> q[i]]
    BY <2>1
  <2> QED
    BY <1>6, <2>2
<1>8. \A i \in 1 .. 2 : q[i] = t[i]
  BY <1>2, <1>4, <1>6
<1>9. q = t
  BY <1>2, <1>7, <1>8
<1> QED
  BY <1>9 DEF q, s, t

(* What rank 0 prepares, when it does not die of it.                       *)
LEMMA Preparing ==
  ASSUME Control, Rank0Prepare
  PROVE  \/ Die(0, PreparingFails) /\ PacksTooFar(Counts, Second)
         \/ /\ Goto(0, "scatter") /\ ~PacksTooFar(Counts, Second)
            /\ img' = IF ByColumn THEN Transposed(img) ELSE img
            /\ meta' = <<First, Second>>
            /\ comm' = [comm EXCEPT ![0] = Distribution(0, Second)]
            /\ arrays' = Counts
            /\ packed' = PackedRows(Counts, IF ByColumn THEN Transposed(img) ELSE img, Second.stride)
            /\ UNCHANGED <<job, input, output, result, saved>>
<1>1. 0 \in Rank /\ pc[0] = "bcast"
  BY JobGeometry DEF Control, Types, Rank0Prepare, Runs
<1>2. comm[0] = Distribution(0, First) /\ meta = <<First>>
  BY <1>1 DEF Control, Told, Root
<1>3. (IF ByColumn THEN Geometry(job.w, job.h) ELSE comm[0].geo) = Second
  BY <1>2 DEF Second, Distribution
<1>4. Append(<<First>>, Second) = <<First, Second>>
  BY AppendedToOne
<1> QED
  BY <1>2, <1>3, <1>4 DEF Rank0Prepare, Counts

LEMMA ControlRank0Prepare ==
  ASSUME Control, pc[0] = "bcast", Goto(0, "scatter"), meta' = <<First, Second>>, arrays' = Counts,
         comm' = [comm EXCEPT ![0] = Distribution(0, Second)], job' = job, faults' = faults
  PROVE  Control'
<1>1. /\ comm = [q \in Rank |-> comm[q]]
      /\ pc' = [pc EXCEPT ![0] = "scatter"] /\ pc \in [Rank -> Places] /\ 0 \in Rank
  BY JobGeometry DEF Goto, Control, Types
<1>2. /\ meta = <<First>> /\ meta # <<>> /\ meta' # <<>> /\ meta # <<First, Second>>
      /\ job.h > 0 /\ job.mode \in {"by_row", "by_column"} /\ 0 \notin job.missing
  <2>1. <<First>> # <<>> /\ <<First>> # <<First, Second>> /\ <<First, Second>> # <<>>
    <3>1. Len(<<First>>) = 1 /\ Len(<<First, Second>>) = 2 /\ Len(<<>>) = 0
      OBVIOUS
    <3> QED
      BY <3>1
  <2> QED
    BY <2>1 DEF Control, Root
<1>3. /\ pc'[0] = "scatter" /\ \A q \in Rank : q # 0 => pc'[q] = pc[q]
      /\ comm'[0] = Distribution(0, Second) /\ \A q \in Rank : q # 0 => comm'[q] = comm[q]
  BY <1>1
<1>4. Types'
  <2>1. comm' = [q \in Rank |-> comm'[q]]
    BY <1>1
  <2> QED
    BY <1>1, <2>1, SameJob, PlacesAre DEF Control, Types
<1>5. Root'
  BY <1>1, <1>2, <1>3, SameJob DEF Control, Root, Knowing
<1>6. Told'
  BY <1>1, <1>2, <1>3, SameJob, ZenonT(90) DEF Control, Told, Knowing
<1>7. Absent'
  BY <1>1, <1>3, SameJob DEF Control, Absent, Dead
<1>8. Leaving'
  BY <1>1, <1>3, SameJob DEF Control, Leaving, Dead
<1> QED
  BY <1>4, <1>5, <1>6, <1>7, <1>8 DEF Control

(* Rank 0 has the rows of everybody: nobody is missing, and everybody is   *)
(* done but for the time.                                                  *)
LEMMA ControlRank0Gather ==
  ASSUME Control, pc[0] = "gather", Goto(0, "final"), \A r \in Rank \ {0} : Reached(r, "final"),
         UNCHANGED <<job, comm, meta, arrays, faults>>
  PROVE  Control'
<1>1. /\ job' = job /\ comm' = comm /\ meta' = meta /\ arrays' = arrays /\ faults' = faults
      /\ pc' = [pc EXCEPT ![0] = "final"] /\ pc \in [Rank -> Places] /\ 0 \in Rank
  BY JobGeometry DEF Goto, Control, Types
<1>2. \A r \in Rank : r # 0 => pc[r] \in {"final", "finalize", "ended"}
  BY StagesInOrder
<1>3. pc'[0] = "final" /\ \A q \in Rank : q # 0 => pc'[q] = pc[q]
  BY <1>1
<1>4. Types'
  BY <1>1, SameJob, PlacesAre DEF Control, Types
<1>5. Root'
  BY <1>1, <1>3, SameJob DEF Control, Root, Knowing
<1>6. Told'
  BY <1>1, <1>3, SameJob DEF Control, Told, Knowing
<1>7. Absent'
  <2>1. 0 \notin job.missing
    BY <1>1 DEF Control, Absent, Dead
  <2>2. \A r \in Rank : r \notin job.missing
    BY <1>1, <1>2, <2>1 DEF Control, Absent, Dead
  <2> QED
    BY <1>1, <1>3, <2>2, SameJob DEF Control, Absent, Dead
<1>8. Leaving'
  BY <1>1, <1>2, <1>3, SameJob DEF Control, Leaving, Dead
<1> QED
  BY <1>4, <1>5, <1>6, <1>7, <1>8 DEF Control

(* Rank 0 sends the time, and the others receive it.                       *)
LEMMA ControlTime ==
  ASSUME Control, NEW r \in Rank, pc[r] = "final", Goto(r, "finalize"), r = 0 \/ Reached(0, "finalize"),
         UNCHANGED <<job, comm, meta, arrays>>, faults' \in 0 .. MaxFaults
  PROVE  Control'
<1>1. /\ job' = job /\ comm' = comm /\ meta' = meta /\ arrays' = arrays
      /\ pc' = [pc EXCEPT ![r] = "finalize"] /\ pc \in [Rank -> Places] /\ 0 \in Rank
  BY JobGeometry DEF Goto, Control, Types
<1>2. r = 0 \/ pc[0] = "finalize"
  <2>1. r = 0 \/ pc[0] \in {"finalize", "ended"}
    BY StagesInOrder
  <2> QED
    BY <1>1, <2>1 DEF Control, Leaving, Dead
<1>3. pc'[r] = "finalize" /\ \A q \in Rank : q # r => pc'[q] = pc[q]
  BY <1>1
<1>4. Types'
  BY <1>1, SameJob, PlacesAre DEF Control, Types
<1>5. Root'
  BY <1>1, <1>3, SameJob DEF Control, Root, Knowing
<1>6. Told'
  BY <1>1, <1>3, SameJob DEF Control, Told, Knowing
<1>7. Absent'
  BY <1>1, <1>2, <1>3, SameJob DEF Control, Absent, Dead
<1>8. Leaving'
  BY <1>1, <1>2, <1>3, SameJob DEF Control, Leaving, Dead
<1> QED
  BY <1>4, <1>5, <1>6, <1>7, <1>8 DEF Control

LEMMA ControlFinalize == ASSUME Control, NEW r \in Rank, Finalize(r) PROVE Control'
<1>1. /\ job' = job /\ comm' = comm /\ meta' = meta /\ arrays' = arrays /\ faults' = faults
      /\ pc' = [pc EXCEPT ![r] = "ended"] /\ pc \in [Rank -> Places] /\ 0 \in Rank
      /\ pc[r] \in {"finalize", "quit"}
  BY JobGeometry DEF Finalize, Goto, Control, Types
<1>2. \A q \in Rank : pc[q] \in {"finalize", "ended", "quit"}
  BY StagesInOrder DEF Finalize
<1>3. pc'[r] = "ended" /\ \A q \in Rank : q # r => pc'[q] = pc[q]
  BY <1>1
<1>4. Types'
  BY <1>1, SameJob, PlacesAre DEF Control, Types
<1>5. Root'
  BY <1>1, <1>3, SameJob DEF Control, Root, Knowing
<1>6. Told'
  <2>1. pc[r] = "quit" => r \in job.missing
    BY DEF Control, Absent
  <2> QED
    BY <1>1, <1>3, <2>1, SameJob DEF Control, Told, Knowing
<1>7. Absent'
  <2>1. ASSUME NEW q \in Rank, q \in job.missing PROVE 0 \in job.missing
    BY <1>1, <1>2, <2>1 DEF Control, Absent
  <2> QED
    BY <1>1, <1>3, <2>1, SameJob DEF Control, Absent, Dead
<1>8. Leaving'
  BY <1>1, <1>2, <1>3, SameJob DEF Control, Leaving, Dead
<1> QED
  BY <1>4, <1>5, <1>6, <1>7, <1>8 DEF Control

LEMMA ControlDies ==
  ASSUME Control, NEW r \in Rank, NEW how \in Dead, Die(r, how), faults' = faults \/ \E kind : Fault(kind)
  PROVE  Control'
<1>1. faults' \in 0 .. MaxFaults
  BY MpiAssumption DEF Fault, Control, Types
<1> QED
  BY <1>1, Death

LEMMA ControlUnchanged == ASSUME Control, UNCHANGED vars PROVE Control'
<1>1. /\ job' = job /\ pc' = pc /\ comm' = comm /\ meta' = meta /\ arrays' = arrays /\ faults' = faults
  BY DEF vars
<1>2. Types' /\ Root'
  BY <1>1, SameJob DEF Control, Types, Root
<1>3. Told' /\ Absent' /\ Leaving'
  BY <1>1, SameJob DEF Control, Told, Absent, Leaving
<1> QED
  BY <1>2, <1>3 DEF Control

LEMMA ControlNext == ASSUME Control, Next PROVE Control'
<1> USE DEF Control
<1>1. /\ 0 \in Rank /\ faults \in 0 .. MaxFaults /\ MaxFaults \in Nat
      /\ PreparingFails \in Dead /\ "aborted" \in Dead /\ "crashed" \in Dead /\ "killed" \in Dead
  BY JobGeometry, MpiAssumption DEF Types, PreparingFails, Dead
<1>2. ASSUME NEW r \in Rank, pc[r] \in {"scatter", "compute", "gather"} PROVE r \notin job.missing
  BY <1>2 DEF Absent, Dead
<1>3. ASSUME NEW r \in Rank, Setup(r) PROVE Control'
  <2>1. /\ r \notin job.missing /\ Quietly(pc[r], "init") /\ Goto(r, "init") /\ faults' \in 0 .. MaxFaults
        /\ UNCHANGED <<job, comm, meta, arrays>>
    BY <1>1, <1>3 DEF Setup, Quietly
  <2> QED
    BY <2>1, Progress
<1>4. ASSUME NEW r \in Rank, SetupFails(r) PROVE Control'
  BY <1>4, ControlSetupFails
<1>5. ASSUME NEW r \in Rank, Unsupported(r) PROVE Control'
  BY <1>1, <1>5, ControlDies DEF Unsupported
<1>6. ASSUME NEW r \in Rank, Initialize(r) PROVE Control'
  BY <1>6, ControlInitialize
<1>7. ASSUME NEW r \in Rank, Prepare(r) PROVE Control'
  BY <1>7, ControlPrepare
<1>8. ASSUME NEW r \in Rank, Scatter(r) PROVE Control'
  <2>1. pc[r] = "scatter" /\ r \notin job.missing /\ faults' = faults
    BY <1>2, <1>8 DEF Scatter, Runs
  <2>2. CASE Die(r, "aborted")
    BY <1>1, <2>1, <2>2, ControlDies
  <2>3. CASE Goto(r, "compute") /\ UNCHANGED <<job, comm, meta, arrays>>
    BY <1>1, <2>1, <2>3, Progress DEF Quietly
  <2> QED
    BY <1>8, <2>2, <2>3 DEF Scatter
<1>9. ASSUME NEW r \in Rank, Compute(r) PROVE Control'
  <2>1. pc[r] = "compute" /\ r \notin job.missing /\ faults' = faults
    BY <1>2, <1>9 DEF Compute, Runs
  <2>2. CASE \E how \in Dead : Die(r, how)
    BY <1>1, <2>1, <2>2, ControlDies
  <2>3. CASE Goto(r, "gather") /\ UNCHANGED <<job, comm, meta, arrays>>
    BY <1>1, <2>1, <2>3, Progress DEF Quietly
  <2> QED
    BY <1>1, <1>9, <2>2, <2>3 DEF Compute
<1>10. ASSUME NEW r \in Rank, Gather(r) PROVE Control'
  <2>1. r \notin job.missing
    BY <1>2, <1>10 DEF Gather, Runs
  <2> QED
    BY <1>1, <1>10, <2>1, Progress DEF Gather, Runs
<1>11. ASSUME NEW r \in Rank, ReceiveTime(r) PROVE Control'
  BY <1>1, <1>11, ControlTime DEF ReceiveTime, Runs
<1>12. ASSUME NEW r \in Rank, Finalize(r) PROVE Control'
  BY <1>12, ControlFinalize
<1>13. ASSUME NEW r \in Rank, Killed(r) PROVE Control'
  BY <1>1, <1>13, ControlDies DEF Killed
<1>14. CASE Rank0Initialize
  BY <1>14, ControlRank0Initialize
<1>15. CASE Rank0FreesTwice
  BY <1>1, <1>15, ControlDies DEF Rank0FreesTwice
<1>16. CASE Rank0Prepare
  <2>1. pc[0] = "bcast" /\ faults' = faults
    BY <1>16 DEF Rank0Prepare, Runs
  <2>2. CASE Die(0, PreparingFails)
    BY <1>1, <2>1, <2>2, ControlDies
  <2>3. CASE ~Die(0, PreparingFails)
    BY <1>16, <2>1, <2>3, Preparing, ControlRank0Prepare
  <2> QED
    BY <2>2, <2>3
<1>17. CASE Rank0Gather
  <2>1. CASE Die(0, "aborted")
    BY <1>1, <1>17, <2>1, ControlDies DEF Rank0Gather
  <2>2. CASE Goto(0, "final") /\ UNCHANGED <<job, comm, meta, arrays, faults>>
    BY <1>17, <2>2, ControlRank0Gather DEF Rank0Gather, Runs
  <2> QED
    BY <1>17, <2>1, <2>2 DEF Rank0Gather
<1>18. CASE Rank0Save
  <2>1. faults' \in 0 .. MaxFaults
    BY <1>1, <1>18 DEF Rank0Save, Fault
  <2> QED
    BY <1>1, <1>18, <2>1, ControlTime DEF Rank0Save, Runs
<1>19. ASSUME NEW r \in Rank, CallFails(r) PROVE Control'
  <2>1. PICK how \in Dead : Die(r, how)
    BY <1>1, <1>19 DEF CallFails
  <2>2. Fault("call")
    BY <1>19 DEF CallFails
  <2> QED
    BY <2>1, <2>2, ControlDies
<1>20. ASSUME NEW r \in Rank, ComputeNothing(r) PROVE Control'
  <2>0. pc[r] = "compute" /\ Fault("call")
    BY <1>20 DEF ComputeNothing, Runs
  <2>1. pc[r] = "compute" /\ r \notin job.missing /\ faults' \in 0 .. MaxFaults
    BY <1>1, <1>2, <2>0 DEF Fault
  <2> QED
    BY <1>20, <2>1, Progress DEF ComputeNothing, Quietly
<1>21. CASE Terminated
  BY <1>21, ControlUnchanged DEF Terminated
<1> QED
  BY <1>3, <1>4, <1>5, <1>6, <1>7, <1>8, <1>9, <1>10, <1>11, <1>12, <1>13, <1>14, <1>15, <1>16, <1>17,
     <1>18, <1>19, <1>20, <1>21 DEF Next, Step

(* A process has the share rank 0 worked out for it by the time it needs   *)
(* it, and the processes go through the stages in the order of the         *)
(* collective calls.                                                       *)
THEOREM ControlHolds == Spec => []Control
<1>1. Control /\ [Next]_vars => Control'
  BY ControlNext, ControlUnchanged
<1> QED
  BY ControlInit, <1>1, PTL DEF Spec

-----------------------------------------------------------------------------
(* The row a tap of a linear filter reads is one the process has.          *)
LEMMA TapInRange ==
  ASSUME NEW n \in Nat \ {0}, NEW h \in Nat, NEW halo \in Nat, NEW r \in 0 .. n - 1,
         NEW y \in 0 .. Share(r, n, h).num - 1, NEW fy \in 0 .. 2 * halo
  PROVE  LET i == Clamp(Share(r, n, h).start + y + fy - halo, h)
         IN  /\ Share(r, n, h).start + y \in 0 .. h - 1 /\ i \in 0 .. h - 1
             /\ i - SendRange(r, n, halo, h).start \in 0 .. SendRange(r, n, halo, h).num - 1
<1> DEFINE share == Share(r, n, h)
           send == SendRange(r, n, halo, h)
           Y == share.start + y
           i == Clamp(Y + fy - halo, h)
<1>1. share.start \in Nat /\ share.num \in Nat /\ share.start + share.num <= h
  BY ShareInImage
<1>2. send.start \in Nat /\ send.num \in Nat
  BY HaloIsSent
<1>3. ASSUME NEW u \in 0 .. h - 1, NEW v \in 0 .. h - 1, Holds(share, u), u - halo <= v, v <= u + halo
      PROVE  Holds(send, v)
  BY <1>3, HaloIsSent
<1>4. y \in Nat /\ y < share.num
  BY <1>1
<1> HIDE DEF share, send
<1>5. Y \in 0 .. h - 1 /\ Holds(share, Y)
  BY <1>1, <1>4 DEF Holds
<1>6. i \in 0 .. h - 1 /\ Y - halo <= i /\ i <= Y + halo
  BY <1>5 DEF Clamp
<1>7. Holds(send, i)
  BY <1>3, <1>5, <1>6
<1>8. i - send.start \in 0 .. send.num - 1
  BY <1>2, <1>6, <1>7 DEF Holds
<1> QED
  BY <1>5, <1>6, <1>8 DEF share, send

(* What a process knows that goes on with the second geometry.             *)
Knows(r) ==
  /\ job.size \in Nat \ {0} /\ Halo \in Nat /\ Second.h \in Nat \ {0} /\ Second.w \in Nat \ {0}
  /\ Second.stride \in Nat \ {0} /\ r \in 0 .. job.size - 1
  /\ comm[r].geo = Second /\ comm[r].my = Share(r, job.size, Second.h)
  /\ comm[r].send = SendRange(r, job.size, Halo, Second.h)

LEMMA KnowingOnes ==
  ASSUME Control, NEW r \in Rank, comm[r] = Distribution(r, Second), meta # <<>>
  PROVE  Knows(r)
<1>1. job.h > 0 /\ job \in Jobs
  BY DEF Control, Root, Types
<1>2. /\ job.size \in Nat \ {0} /\ Halo \in Nat /\ Second.h \in Nat \ {0} /\ Second.w \in Nat \ {0}
      /\ Second.stride \in Nat \ {0} /\ r \in 0 .. job.size - 1
  <2>1. /\ job.size \in Nat \ {0} /\ Halo \in Nat /\ job.h \in Nat \ {0} /\ job.w \in Nat \ {0}
        /\ First = [h |-> job.h, w |-> job.w, stride |-> job.w * 3]
        /\ Second = IF ByColumn THEN [h |-> job.w, w |-> job.h, stride |-> job.h * 3] ELSE First
    BY <1>1, JobGeometry
  <2>2. job.h * 3 \in Nat \ {0} /\ job.w * 3 \in Nat \ {0}
    BY <2>1
  <2>3. /\ Second.h \in Nat \ {0} /\ Second.w \in Nat \ {0} /\ Second.stride \in Nat \ {0}
    BY <2>1, <2>2
  <2> QED
    BY <2>1, <2>3 DEF Rank
<1>3. Second.h \in Nat
  BY <1>2
<1>4. SentAsNeeded(r, job.size, Halo, Second.h)
  BY <1>2, <1>3, RangeSent
<1> QED
  BY <1>2, <1>4 DEF Distribution, Knows, SentAsNeeded

LEMMA CountsKnown ==
  ASSUME NEW r, Knows(r)
  PROVE  /\ Counts.sendcounts[r] = Bytes(r, comm[r].send.num) /\ Counts.origdispls[r] = Bytes(r, comm[r].send.start)
         /\ Counts.recvcounts[r] = Bytes(r, comm[r].my.num) /\ Counts.recvdispls[r] = Bytes(r, comm[r].my.start)
<1> DEFINE n == job.size
           halo == Halo
           h == Second.h
           stride == Second.stride
<1>1. n \in Nat \ {0} /\ h \in Nat /\ halo \in Nat /\ stride \in Nat \ {0} /\ r \in 0 .. n - 1
  BY DEF Knows
<1> HIDE DEF n, h, halo, stride
<1>2. /\ CommArrays(n, halo, h, stride).sendcounts[r] = SendRange(r, n, halo, h).num * stride
      /\ CommArrays(n, halo, h, stride).origdispls[r] = SendRange(r, n, halo, h).start * stride
      /\ CommArrays(n, halo, h, stride).recvcounts[r] = Share(r, n, h).num * stride
      /\ CommArrays(n, halo, h, stride).recvdispls[r] = Share(r, n, h).start * stride
  BY <1>1 DEF CommArrays
<1> QED
  BY <1>2 DEF Counts, n, h, halo, stride, Knows, Bytes

LEMMA CountsInRowsKnown ==
  ASSUME NEW r, Knows(r)
  PROVE  /\ Counts.sendcounts[r] \div Second.stride = comm[r].send.num
         /\ Counts.origdispls[r] \div Second.stride = comm[r].send.start
         /\ Counts.recvcounts[r] \div Second.stride = comm[r].my.num
         /\ Counts.recvdispls[r] \div Second.stride = comm[r].my.start
<1> DEFINE n == job.size
           halo == Halo
           h == Second.h
           stride == Second.stride
<1>1. n \in Nat \ {0} /\ h \in Nat /\ halo \in Nat /\ stride \in Nat \ {0} /\ r \in 0 .. n - 1
  BY DEF Knows
<1> HIDE DEF n, h, halo, stride
<1>2. /\ CommArrays(n, halo, h, stride).sendcounts[r] \div stride = SendRange(r, n, halo, h).num
      /\ CommArrays(n, halo, h, stride).origdispls[r] \div stride = SendRange(r, n, halo, h).start
      /\ CommArrays(n, halo, h, stride).recvcounts[r] \div stride = Share(r, n, h).num
      /\ CommArrays(n, halo, h, stride).recvdispls[r] \div stride = Share(r, n, h).start
  BY <1>1, Arrays
<1> QED
  BY <1>2 DEF Counts, n, h, halo, stride, Knows

(* What every process works out for itself is what rank 0 works out for it *)
(* for the scatter and the gather (CountsAgree).                           *)
THEOREM SharesAgree == Spec => []CountsAgree
<1>1. Control => CountsAgree
  <2> SUFFICES ASSUME Control, NEW r \in Rank, arrays # None, Reached(r, "scatter")
               PROVE  /\ arrays.sendcounts[r] = Bytes(r, comm[r].send.num)
                      /\ arrays.origdispls[r] = Bytes(r, comm[r].send.start)
                      /\ arrays.recvcounts[r] = Bytes(r, comm[r].my.num)
                      /\ arrays.recvdispls[r] = Bytes(r, comm[r].my.start)
    BY DEF CountsAgree
  <2>1. arrays = Counts /\ meta = <<First, Second>> /\ job.h > 0
    <3>1. <<First, Second>> # <<>>
      OBVIOUS
    <3> QED
      BY <3>1 DEF Control, Root
  <2>2. comm[r] = Distribution(r, Second)
    <3>1. pc[r] \in Knowing \union {"ended"}
      BY StagesInOrder
    <3>2. CASE pc[r] \in Knowing
      BY <3>2 DEF Control, Told
    <3>3. CASE pc[r] = "ended"
      <4>1. 0 \notin job.missing
        <5>1. <<First, Second>> # <<>>
          OBVIOUS
        <5> QED
          BY <2>1, <5>1 DEF Control, Root
      <4>2. r \notin job.missing
        BY <3>3, <4>1 DEF Control, Absent
      <4> QED
        BY <3>3, <4>2 DEF Control, Told
    <3> QED
      BY <3>1, <3>2, <3>3
  <2>3. Knows(r)
    <3>1. <<First, Second>> # <<>>
      OBVIOUS
    <3> QED
      BY <2>1, <2>2, <3>1, KnowingOnes
  <2> QED
    BY <2>1, <2>3, CountsKnown
<1> QED
  BY ControlHolds, <1>1, PTL

(* No broadcast of the time, and no MPI_Finalize, overtakes the gather     *)
(* (NobodyLeavesEarly).                                                    *)
THEOREM GatherComesFirst == Spec => []NobodyLeavesEarly
<1>1. Control => NobodyLeavesEarly
  BY DEF Control, Leaving, NobodyLeavesEarly
<1> QED
  BY ControlHolds, <1>1, PTL

-----------------------------------------------------------------------------
(* Nothing but a failing call, an image that is not distributed and the    *)
(* error of by_column mode ends a job.  That the filter has a kernel is a  *)
(* hypothesis: the median may read rows that its process was not sent, and *)
(* a job may die of it.                                                    *)
LEMMA LinearKernel ==
  ASSUME job \in Jobs, ~IsMedian
  PROVE  /\ ~IsMedian /\ KernelUsed = FilterByName[job.filter] /\ job.filter \in DOMAIN FilterByName
         /\ KernelUsed.size \in Nat /\ KernelUsed.size = 2 * Halo + 1
         /\ Padding(KernelUsed) = Halo /\ Halo \in Nat
<1>1. job.filter # "mm" /\ job.filter \in DOMAIN FilterByName
  BY MpiAssumption DEF IsMedian
<1>2. ~IsMedian /\ KernelUsed = FilterByName[job.filter]
  BY <1>1 DEF IsMedian, KernelUsed
<1>3. KernelUsed.size \in {3, 5, 9, 15}
  BY <1>1, <1>2, KernelSizes
<1>4. Halo = KernelUsed.size \div 2 /\ Padding(KernelUsed) = KernelUsed.size \div 2
  BY DEF Halo, HaloSize, Padding
<1>5. Halo \in Nat /\ KernelUsed.size = 2 * Halo + 1
  BY <1>3, <1>4
<1> QED
  BY <1>1, <1>2, <1>3, <1>4, <1>5

LEMMA NoTapOutside ==
  ASSUME job \in Jobs, ~IsMedian, NEW r, Knows(r)
  PROVE  ~OutOfBounds(r)
<1> DEFINE n == job.size
           h == Second.h
           halo == Halo
<1>1. /\ n \in Nat \ {0} /\ h \in Nat /\ halo \in Nat /\ r \in 0 .. n - 1
      /\ comm[r].geo.h = h /\ comm[r].my = Share(r, n, h) /\ comm[r].send = SendRange(r, n, halo, h)
  BY DEF Knows
<1>2. KernelUsed.size - 1 = 2 * halo /\ Padding(KernelUsed) = halo /\ ~IsMedian
  BY LinearKernel
<1> HIDE DEF n, h, halo
<1>3. ASSUME NEW y \in 0 .. comm[r].my.num - 1, NEW fy \in 0 .. KernelUsed.size - 1
      PROVE  LocalRow(r, y, fy) \in 0 .. comm[r].send.num - 1
  <2>1. y \in 0 .. Share(r, n, h).num - 1 /\ fy \in 0 .. 2 * halo
    BY <1>1, <1>2
  <2>2. Clamp(Share(r, n, h).start + y + fy - halo, h) - SendRange(r, n, halo, h).start
          \in 0 .. SendRange(r, n, halo, h).num - 1
    BY <1>1, <2>1, TapInRange
  <2>3. LocalRow(r, y, fy) = Clamp(Share(r, n, h).start + y + fy - halo, h) - SendRange(r, n, halo, h).start
    BY <1>1, <1>2 DEF LocalRow
  <2> QED
    BY <1>1, <2>2, <2>3
<1> QED
  BY <1>3 DEF OutOfBounds

LEMMA PacksNothingTooFar ==
  ASSUME job \in Jobs, job.h > 0
  PROVE  ~PacksTooFar(Counts, Second)
<1> DEFINE n == job.size
           h == Second.h
           halo == Halo
           stride == Second.stride
<1>1. n \in Nat \ {0} /\ h \in Nat /\ halo \in Nat /\ stride \in Nat \ {0}
  BY JobGeometry
<1>2. Counts = CommArrays(n, halo, h, stride) /\ Rank = 0 .. n - 1
  BY DEF Counts, Rank
<1> HIDE DEF n, h, halo, stride
<1>3. ASSUME NEW r \in 0 .. n - 1
      PROVE  CommArrays(n, halo, h, stride).origdispls[r] \div stride
               + CommArrays(n, halo, h, stride).sendcounts[r] \div stride <= h
  <2>1. /\ CommArrays(n, halo, h, stride).origdispls[r] \div stride = SendRange(r, n, halo, h).start
        /\ CommArrays(n, halo, h, stride).sendcounts[r] \div stride = SendRange(r, n, halo, h).num
    BY <1>1, CountsInRows
  <2>2. /\ SendRange(r, n, halo, h) \in [start : Nat, num : Nat]
        /\ SendRange(r, n, halo, h).start + SendRange(r, n, halo, h).num <= h
    BY <1>1, HaloIsSent
  <2> QED
    BY <1>1, <2>1, <2>2
<1>4. ASSUME NEW r \in Rank PROVE ~(Counts.origdispls[r] \div Second.stride + Counts.sendcounts[r] \div Second.stride > Second.h)
  <2>1. Counts.origdispls[r] \div stride + Counts.sendcounts[r] \div stride <= h
    BY <1>2, <1>3
  <2>2. /\ Counts.origdispls[r] \div stride \in Nat /\ Counts.sendcounts[r] \div stride \in Nat
    <3>1. r \in 0 .. n - 1
      BY <1>2
    <3>2. /\ Counts.origdispls[r] \div stride = SendRange(r, n, halo, h).start
          /\ Counts.sendcounts[r] \div stride = SendRange(r, n, halo, h).num
      <4>1. RangeOfRows(n, halo, h, stride, r)
        BY <1>1, <3>1, CountsARange
      <4> QED
        BY <1>2, <4>1 DEF RangeOfRows
    <3>3. SentAsNeeded(r, n, halo, h)
      BY <1>1, <3>1, RangeSent
    <3> QED
      BY <3>2, <3>3 DEF SentAsNeeded
  <2> QED
    BY <1>1, <2>1, <2>2 DEF h, stride
<1> QED
  BY <1>4 DEF PacksTooFar

LEMMA ReasonInit == Init => DiesForAReason
  BY DEF Init, DiesForAReason, Dead

(* Where a process can be that is past the second broadcast.               *)
LEMMA KnowsWhere ==
  ASSUME Control, NEW r \in Rank, pc[r] \in Knowing
  PROVE  Knows(r) /\ meta = <<First, Second>>
<1>1. comm[r] = Distribution(r, Second) /\ meta = <<First, Second>>
  BY DEF Control, Told
<1>2. meta # <<>>
  BY <1>1
<1> QED
  BY <1>1, <1>2, KnowingOnes

(* Nobody is sent more than it has room for.                               *)
LEMMA NothingTooLong ==
  ASSUME NEW r, Knows(r)
  PROVE  ~(Counts.sendcounts[r] > Bytes(r, comm[r].send.num))
<1> DEFINE n == job.size
           h == Second.h
           halo == Halo
<1>1. n \in Nat \ {0} /\ h \in Nat /\ halo \in Nat /\ r \in 0 .. n - 1 /\ comm[r].send = SendRange(r, n, halo, h)
  BY DEF Knows
<1> HIDE DEF n, h, halo
<1>2. comm[r].send.num \in Nat /\ comm[r].geo.stride \in Nat
  <2>1. SendRange(r, n, halo, h) \in [start : Nat, num : Nat]
    BY <1>1, HaloIsSent
  <2> QED
    BY <1>1, <2>1 DEF Knows
<1>3. Bytes(r, comm[r].send.num) \in Nat
  BY <1>2 DEF Bytes
<1> QED
  BY <1>3, CountsKnown

(* The rows rank r is sent, and those it is not.                           *)
Receives(r) ==
  [k \in 0 .. comm[r].send.num - 1 |->
     IF k < Counts.sendcounts[r] \div comm[r].geo.stride
     THEN packed[Counts.displs[r] \div comm[r].geo.stride + k + 1]
     ELSE [x \in 0 .. comm[r].geo.w - 1 |-> None]]

LEMMA ScatterSucceeds ==
  ASSUME Control, NEW r \in Rank, Scatter(r)
  PROVE  /\ pc[r] = "scatter" /\ pc[0] \in {"scatter", "compute", "gather"} /\ Knows(r)
         /\ Goto(r, "compute") /\ input' = [input EXCEPT ![r] = Receives(r)]
         /\ UNCHANGED <<job, comm, meta, img, arrays, packed, output, result, saved, faults>>
<1>1. pc[r] = "scatter" /\ (r = 0 \/ Reached(0, "compute")) /\ 0 \in Rank
  BY JobGeometry DEF Scatter, Runs, Control, Types
<1>2. pc[0] \in {"scatter", "compute", "gather"}
  <2>1. r = 0 \/ pc[0] \in {"compute", "gather", "final", "finalize", "ended"}
    BY <1>1, StagesInOrder
  <2> QED
    BY <1>1, <2>1 DEF Control, Leaving, Dead
<1>3. Knows(r)
  BY <1>1, KnowsWhere DEF Knowing
<1>4. arrays = Counts
  BY <1>2 DEF Control, Root, Knowing
<1>5. ~(arrays.sendcounts[r] > Bytes(r, comm[r].send.num))
  BY <1>3, <1>4, NothingTooLong
<1>6. /\ Goto(r, "compute") /\ faults' = faults
      /\ UNCHANGED <<job, comm, meta, img, arrays, packed, output, result, saved>>
  BY <1>5 DEF Scatter
<1>7. input' = [input EXCEPT ![r] = Receives(r)]
  BY <1>4, <1>5 DEF Scatter, Receives
<1> QED
  BY <1>1, <1>2, <1>3, <1>6, <1>7

LEMMA EverybodyKnows ==
  ASSUME Control, pc[0] = "gather", \A r \in Rank \ {0} : Reached(r, "final")
  PROVE  /\ arrays = Counts
         /\ \A r \in Rank : Knows(r) /\ (r # 0 => pc[r] \in {"final", "finalize"})
<1>1. arrays = Counts
  BY DEF Control, Root, Knowing
<1>2. ASSUME NEW r \in Rank, r # 0 PROVE pc[r] \in {"final", "finalize"}
  <2>1. pc[r] \in {"final", "finalize", "ended"} /\ 0 \in Rank
    BY <1>2, StagesInOrder, JobGeometry DEF Control, Types
  <2> QED
    BY <2>1 DEF Control, Leaving, Dead
<1>3. ASSUME NEW r \in Rank PROVE Knows(r)
  BY <1>2, KnowsWhere DEF Knowing
<1> QED
  BY <1>1, <1>2, <1>3

(* What rank 0 gathers fits.                                               *)
LEMMA GatherSucceeds ==
  ASSUME Control, Rank0Gather
  PROVE  /\ pc[0] = "gather" /\ Goto(0, "final")
         /\ arrays = Counts /\ \A r \in Rank : Knows(r) /\ (r # 0 => pc[r] \in {"final", "finalize"})
         /\ result' = (IF ByColumn THEN Transposed(Unpacked) ELSE Unpacked)
         /\ packed' = None
         /\ input' = [r \in Rank |-> None]
         /\ output' = [r \in Rank |-> None]
         /\ UNCHANGED <<job, comm, meta, img, arrays, saved, faults>>
<1>1. pc[0] = "gather" /\ \A r \in Rank \ {0} : Reached(r, "final")
  BY DEF Rank0Gather, Runs
<1>2. arrays = Counts /\ \A r \in Rank : Knows(r) /\ (r # 0 => pc[r] \in {"final", "finalize"})
  BY <1>1, EverybodyKnows
<1>3. \A r \in Rank : Bytes(r, comm[r].my.num) = arrays.recvcounts[r]
  BY <1>2, CountsKnown
<1> QED
  BY <1>1, <1>2, <1>3 DEF Rank0Gather

LEMMA JobStays ==
  ASSUME [Next]_vars, faults \in Nat
  PROVE  job' = job /\ faults' \in Nat /\ faults' >= faults
<1>1. CASE UNCHANGED vars
  BY <1>1 DEF vars
<1>2. ASSUME NEW r \in Rank, Step(r) PROVE job' = job /\ faults' \in Nat /\ faults' >= faults
  <2>1. job' = job /\ (faults' = faults \/ faults' = faults + 1)
    BY <1>2 DEF Step, Setup, SetupFails, Unsupported, Initialize, Prepare, Scatter, Compute, Gather, ReceiveTime,
      Finalize, Killed, Rank0Initialize, Rank0FreesTwice, Rank0Prepare, Rank0Gather, Rank0Save, Fault, Die
  <2> QED
    BY <2>1
<1>3. ASSUME NEW r \in Rank, CallFails(r) \/ ComputeNothing(r) PROVE job' = job /\ faults' \in Nat /\ faults' >= faults
  <2>1. job' = job /\ faults' = faults + 1
    BY <1>3 DEF CallFails, ComputeNothing, Fault, Die
  <2> QED
    BY <2>1
<1> QED
  BY <1>1, <1>2, <1>3 DEF Next, Terminated

LEMMA SameFilter == ASSUME Control, [Next]_vars PROVE IsMedian' = IsMedian
<1>1. faults \in Nat
  BY MpiAssumption DEF Control, Types
<1>2. job' = job
  BY <1>1, JobStays
<1> QED
  BY <1>2 DEF IsMedian

LEMMA ReasonNext ==
  ASSUME Control, ~IsMedian, DiesForAReason, [Next]_vars
  PROVE  DiesForAReason'
<1> DEFINE Reason == \/ faults > 0
                     \/ job.h = 0
                     \/ job.mode \in {"by_grid", "by_pixel"}
                     \/ (ByColumn /\ job.w > job.h)
           Alive == \A q \in Rank : pc[q] \notin Dead
<1>1. /\ job \in Jobs /\ faults \in Nat /\ pc \in [Rank -> Places] /\ 0 \in Rank
      /\ job.mode \in {"by_row", "by_column", "by_grid", "by_pixel"} /\ job.h \in Nat
  BY MpiAssumption, JobGeometry DEF Control, Types
<1>2. job' = job /\ faults' \in Nat /\ faults' >= faults /\ Rank' = Rank
  BY <1>1, JobStays, SameJob
<1>3. (DiesForAReason <=> (Alive \/ Reason)) /\ (Reason => Reason')
  BY <1>1, <1>2 DEF DiesForAReason, ByColumn
<1>4. DiesForAReason' <=> (Alive' \/ Reason')
  BY DEF DiesForAReason, ByColumn
<1> SUFFICES ASSUME ~Reason, Alive PROVE Alive' \/ Reason'
  BY <1>3, <1>4
<1>5. job.h > 0 /\ job.mode \in {"by_row", "by_column"} /\ ~(ByColumn /\ job.w > job.h)
  BY <1>1
<1>6. ASSUME NEW r \in Rank, NEW to, Goto(r, to), to \notin Dead PROVE Alive'
  BY <1>1, <1>2, <1>6 DEF Goto
<1>7. ASSUME NEW r \in Rank, Scatter(r) PROVE Alive'
  <2>1. Goto(r, "compute")
    BY <1>7, ScatterSucceeds
  <2> QED
    BY <1>6, <2>1 DEF Dead
<1>8. ASSUME NEW r \in Rank, Compute(r) PROVE Alive'
  <2>1. Knows(r)
    BY <1>8, KnowsWhere DEF Compute, Runs, Knowing
  <2>2. ~OutOfBounds(r) /\ ~IsMedian
    BY <1>1, <2>1, NoTapOutside, LinearKernel
  <2>3. Goto(r, "gather")
    BY <1>5, <1>8, <2>2 DEF Compute, FreesTooMuch
  <2> QED
    BY <1>6, <2>3 DEF Dead
<1>9. CASE Rank0Prepare
  <2>1. Goto(0, "scatter")
    BY <1>1, <1>5, <1>9, Preparing, PacksNothingTooFar
  <2> QED
    BY <1>1, <1>6, <2>1 DEF Dead
<1>10. CASE Rank0Gather
  BY <1>1, <1>6, <1>10, GatherSucceeds DEF Dead
<1>11. ASSUME NEW r \in Rank,
              Setup(r) \/ SetupFails(r) \/ Initialize(r) \/ Prepare(r) \/ Gather(r) \/ ReceiveTime(r) \/ Finalize(r)
       PROVE  Alive'
  <2>1. \E to \in {"init", "quit", "bcast", "scatter", "final", "finalize", "ended"} : Goto(r, to)
    BY <1>11 DEF Setup, SetupFails, Initialize, Prepare, Gather, ReceiveTime, Finalize
  <2> QED
    BY <1>6, <2>1 DEF Dead
<1>12. CASE Rank0Initialize \/ Rank0Save
  <2>1. \E to \in {"bcast", "finalize"} : Goto(0, to)
    BY <1>12 DEF Rank0Initialize, Rank0Save
  <2> QED
    BY <1>1, <1>6, <2>1 DEF Dead
<1>13. ASSUME NEW r \in Rank, CallFails(r) \/ ComputeNothing(r) PROVE Reason'
  <2>1. faults' = faults + 1
    BY <1>13 DEF CallFails, ComputeNothing, Fault
  <2> QED
    BY <1>1, <2>1
<1>14. ~Rank0FreesTwice /\ \A r \in Rank : ~Unsupported(r) /\ ~Killed(r)
  BY <1>1, <1>5 DEF Rank0FreesTwice, Unsupported, Killed
<1>15. CASE UNCHANGED vars
  BY <1>2, <1>15 DEF vars
<1> HIDE DEF Reason, Alive
<1> QED
  BY <1>7, <1>8, <1>9, <1>10, <1>11, <1>12, <1>13, <1>14, <1>15 DEF Next, Step, Terminated

(* No check of a row's place fires and no message is truncated             *)
(* (DiesForAReason), for the filters that have a kernel.                   *)
THEOREM NothingMisplaced == Spec => [](~IsMedian => DiesForAReason)
<1> DEFINE Inv == ~IsMedian => DiesForAReason
<1>1. Init => Inv
  BY ReasonInit
<1>2. Control /\ Inv /\ [Next]_vars => Inv'
  BY ReasonNext, SameFilter
<1>3. Inv => (~IsMedian => DiesForAReason)
  OBVIOUS
<1> HIDE DEF Inv
<1> QED
  BY ControlHolds, <1>1, <1>2, <1>3, PTL DEF Spec

-----------------------------------------------------------------------------
(* What lies under the taps of a process, and the rows it makes of them.   *)
Tapped(r, y, x) ==
  [t \in Taps(KernelUsed) |->
     LET row == LocalRow(r, y, t[1])
     IN  IF row \in DOMAIN input[r] THEN input[r][row][LocalColumn(r, x, t[2])] ELSE None]

LEMMA RegionRows ==
  ASSUME NEW r
  PROVE  Region(r) = [y \in 0 .. comm[r].my.num - 1 |->
                        [x \in 0 .. comm[r].geo.w - 1 |-> Weights(KernelUsed, Tapped(r, y, x))]]
  BY DEF Region, Image, Combination, Tapped

UnpackedFrom(r) == arrays.recvdispls[r] \div comm[0].geo.stride
UnpackedNum(r)  == arrays.recvcounts[r] \div comm[0].geo.stride
Sender(y)       == {r \in Rank : UnpackedFrom(r) <= y /\ y < UnpackedFrom(r) + UnpackedNum(r)}
NoRow           == [x \in 0 .. comm[0].geo.w - 1 |-> None]
UnpackedRow(y)  == IF Sender(y) = {} THEN NoRow ELSE LET r == CHOOSE q \in Sender(y) : TRUE IN output[r][y - UnpackedFrom(r)]

LEMMA UnpackedRows == Unpacked = [y \in 0 .. comm[0].geo.h - 1 |-> UnpackedRow(y)]
  BY DEF Unpacked, UnpackedRow, Sender, UnpackedFrom, UnpackedNum, NoRow

(* The row of the whole image that comes to lie at y is one somebody sent. *)
LEMMA UnpackedAt ==
  ASSUME arrays = Counts, 0 \in Rank, \A r \in Rank : Knows(r), NEW y \in 0 .. Second.h - 1
  PROVE  \E r \in Rank : /\ y - comm[r].my.start \in 0 .. comm[r].my.num - 1
                         /\ Unpacked[y] = output[r][y - comm[r].my.start]
<1> DEFINE n == job.size
           h == Second.h
<1>1. n \in Nat \ {0} /\ h \in Nat /\ comm[0].geo = Second /\ Rank = 0 .. n - 1
  BY DEF Knows, Rank
<1>2. ASSUME NEW r \in Rank
      PROVE  /\ UnpackedFrom(r) = comm[r].my.start /\ UnpackedNum(r) = comm[r].my.num
             /\ comm[r].my = Share(r, n, h)
  BY <1>1, <1>2, CountsInRowsKnown DEF Knows, UnpackedFrom, UnpackedNum
<1>3. Unpacked[y] = UnpackedRow(y)
  BY <1>1, UnpackedRows
<1> HIDE DEF n, h
<1>4. y \in 0 .. h - 1
  BY DEF h
<1>5. PICK s \in 0 .. n - 1 : Holds(Share(s, n, h), y)
  BY <1>1, <1>4, SharesTile
<1>6. s \in Sender(y)
  BY <1>1, <1>2, <1>5 DEF Holds, Sender
<1> DEFINE r == CHOOSE q \in Sender(y) : TRUE
<1>7. r \in Sender(y)
  BY <1>6
<1>8. r \in Rank /\ UnpackedFrom(r) <= y /\ y < UnpackedFrom(r) + UnpackedNum(r)
  BY <1>7 DEF Sender
<1>9. Unpacked[y] = output[r][y - UnpackedFrom(r)]
  BY <1>3, <1>6 DEF UnpackedRow
<1> HIDE DEF r
<1>10. /\ UnpackedFrom(r) = comm[r].my.start /\ UnpackedNum(r) = comm[r].my.num
       /\ UnpackedFrom(r) \in Nat /\ UnpackedNum(r) \in Nat
  <2>1. Share(r, n, h) \in [start : Nat, num : Nat]
    BY <1>1, <1>8, ShareInImage
  <2> QED
    BY <1>2, <1>8, <2>1
<1>11. y - UnpackedFrom(r) \in 0 .. UnpackedNum(r) - 1
  BY <1>4, <1>8, <1>10
<1> QED
  BY <1>8, <1>9, <1>10, <1>11

LEMMA UnpackedShape ==
  ASSUME arrays = Counts, 0 \in Rank, \A r \in Rank : Knows(r) /\ Shaped(output[r], comm[r].my.num, Second.w)
  PROVE  Shaped(Unpacked, Second.h, Second.w)
<1>1. comm[0].geo = Second
  BY DEF Knows
<1>2. Unpacked = [y \in 0 .. Second.h - 1 |-> Unpacked[y]]
  BY <1>1, UnpackedRows
<1>3. ASSUME NEW y \in 0 .. Second.h - 1 PROVE Unpacked[y] = [x \in 0 .. Second.w - 1 |-> Unpacked[y][x]]
  <2>1. PICK r \in Rank : /\ y - comm[r].my.start \in 0 .. comm[r].my.num - 1
                          /\ Unpacked[y] = output[r][y - comm[r].my.start]
    BY UnpackedAt
  <2>2. Shaped(output[r], comm[r].my.num, Second.w)
    OBVIOUS
  <2> DEFINE k == y - comm[r].my.start
  <2>3. output[r][k] = [x \in 0 .. Second.w - 1 |-> output[r][k][x]]
    <3>1. k \in 0 .. comm[r].my.num - 1
      BY <2>1
    <3> HIDE DEF k
    <3> QED
      BY <2>2, <3>1 DEF Shaped
  <2> QED
    BY <2>1, <2>3
<1> QED
  BY <1>2, <1>3 DEF Shaped

-----------------------------------------------------------------------------
(* The buffers: nobody has rows before they are sent, or more than there   *)
(* is room for; until rank 0 has gathered them the computed rows are there.*)
Early    == {"setup", "init", "bcast", "scatter"}
Serving  == {"scatter", "compute", "gather"}
Done     == {"gather", "final", "finalize"}

Buffers ==
  /\ input = [r \in Rank |-> input[r]] /\ output = [r \in Rank |-> output[r]]
  /\ \A r \in Rank :
       /\ pc[r] \in Early => input[r] = None /\ output[r] = None
       /\ comm[r] # None => DOMAIN input[r] \subseteq 0 .. comm[r].send.num - 1
       /\ comm[r] # None => DOMAIN output[r] \subseteq 0 .. comm[r].my.num - 1
       /\ pc[0] \in Serving /\ pc[r] \in Done => Shaped(output[r], comm[r].my.num, Second.w)
  /\ pc[0] = "final" => DOMAIN result = 0 .. job.h - 1
  /\ saved # None => DOMAIN saved = 0 .. job.h - 1

LEMMA BuffersInit == Init => Buffers
<1> SUFFICES ASSUME Init PROVE Buffers
  OBVIOUS
<1>1. \A r \in Rank : pc[r] = "setup" /\ comm[r] = None /\ input[r] = None /\ output[r] = None
  BY DEF Init
<1>2. 0 \in Rank
  BY JobGeometry DEF Init
<1>3. input = [r \in Rank |-> input[r]] /\ output = [r \in Rank |-> output[r]] /\ saved = None
  BY DEF Init
<1> QED
  BY <1>1, <1>2, <1>3 DEF Buffers, Done

(* A step that leaves the buffers alone.                                   *)
LEMMA BuffersKept ==
  ASSUME Control, Buffers, NEW r \in Rank, NEW to, Goto(r, to),
         \/ to = "init" /\ pc[r] = "setup"
         \/ to \in Dead \union {"quit", "ended"}
         \/ r # 0 /\ to = "final" /\ pc[r] = "gather"
         \/ to = "finalize" /\ pc[r] = "final",
         UNCHANGED <<job, comm, input, output, result>>, saved' = saved \/ (r = 0 /\ pc[0] = "final" /\ saved' = result)
  PROVE  Buffers'
<1>1. /\ pc' = [pc EXCEPT ![r] = to] /\ pc \in [Rank -> Places] /\ 0 \in Rank
      /\ job' = job /\ comm' = comm /\ input' = input /\ output' = output /\ result' = result
      /\ Rank' = Rank /\ Second' = Second
  BY JobGeometry, SameJob DEF Goto, Control, Types
<1>2. pc'[r] = to /\ \A q \in Rank : q # r => pc'[q] = pc[q]
  BY <1>1
<1>3. \/ to = "init" /\ pc[r] = "setup"
      \/ to \in {"aborted", "crashed", "killed", "quit", "ended"}
      \/ r # 0 /\ to = "final" /\ pc[r] = "gather"
      \/ to = "finalize" /\ pc[r] = "final"
  BY DEF Dead
<1>4. ASSUME NEW q \in Rank
      PROVE  /\ pc'[q] \in Early => pc[q] \in Early
             /\ pc'[0] \in Serving /\ pc'[q] \in Done => pc[0] \in Serving /\ pc[q] \in Done
             /\ pc'[0] = "final" => pc[0] = "final"
  BY <1>1, <1>2, <1>3 DEF Early, Serving, Done
<1>5. saved' # None => DOMAIN saved' = 0 .. job.h - 1
  BY DEF Buffers
<1> QED
  BY <1>1, <1>4, <1>5 DEF Buffers

(* A step in which a process learns its share.                             *)
LEMMA BuffersShared ==
  ASSUME Control, Buffers, NEW r \in Rank, NEW to \in {"bcast", "scatter"}, Goto(r, to), NEW d,
         comm' = [comm EXCEPT ![r] = d],
         pc[r] \in Early, (r = 0 /\ to = "scatter") => \A q \in Rank : pc[q] \notin Done,
         UNCHANGED <<job, input, output, saved>>, r = 0 \/ result' = result
  PROVE  Buffers'
<1>1. /\ pc' = [pc EXCEPT ![r] = to] /\ pc \in [Rank -> Places] /\ 0 \in Rank
      /\ job' = job /\ input' = input /\ output' = output /\ saved' = saved
      /\ Rank' = Rank /\ Second' = Second /\ comm = [q \in Rank |-> comm[q]]
  BY JobGeometry, SameJob DEF Goto, Control, Types
<1>2. pc'[r] = to /\ \A q \in Rank : q # r => pc'[q] = pc[q] /\ comm'[q] = comm[q]
  BY <1>1
<1>3. input[r] = None /\ output[r] = None /\ DOMAIN None = {}
  BY DEF Buffers, None
<1>4. ASSUME NEW q \in Rank
      PROVE  /\ pc'[q] \in Early => pc[q] \in Early
             /\ pc'[0] \in Serving /\ pc'[q] \in Done => pc[0] \in Serving /\ pc[q] \in Done /\ q # r
             /\ pc'[0] = "final" => pc[0] = "final" /\ r # 0
  BY <1>1, <1>2 DEF Early, Serving, Done
<1> QED
  BY <1>1, <1>2, <1>3, <1>4 DEF Buffers

LEMMA BuffersRank0Gather ==
  ASSUME Control, Buffers, Rank0Gather
  PROVE  Buffers'
<1>1. /\ pc' = [pc EXCEPT ![0] = "final"] /\ pc \in [Rank -> Places] /\ 0 \in Rank
      /\ job' = job /\ comm' = comm /\ saved' = saved /\ Rank' = Rank
      /\ input' = [r \in Rank |-> None] /\ output' = [r \in Rank |-> None] /\ pc[0] = "gather"
  BY JobGeometry, SameJob, GatherSucceeds DEF Goto, Control, Types
<1>2. /\ arrays = Counts /\ \A r \in Rank : Knows(r) /\ pc[r] \in Done
      /\ result' = IF ByColumn THEN Transposed(Unpacked) ELSE Unpacked
  BY <1>1, GatherSucceeds DEF Done
<1>3. \A r \in Rank : Knows(r) /\ Shaped(output[r], comm[r].my.num, Second.w)
  BY <1>1, <1>2 DEF Buffers, Serving
<1>4. Shaped(Unpacked, Second.h, Second.w)
  BY <1>1, <1>2, <1>3, UnpackedShape
<1>5. DOMAIN result' = 0 .. job.h - 1
  <2>1. Second.h \in Nat \ {0} /\ Second.w \in Nat
    BY <1>1, <1>2 DEF Knows
  <2>2. CASE ByColumn
    <3>1. Shaped(Transposed(Unpacked), Second.w, Second.h)
      BY <1>4, <2>1, TransposedShape
    <3>2. Second.w = job.h
      BY <2>2, JobGeometry DEF Control, Types
    <3> QED
      BY <1>2, <2>2, <3>1, <3>2 DEF Shaped
  <2>3. CASE ~ByColumn
    <3>1. Second.h = job.h
      BY <2>3, JobGeometry DEF Control, Types
    <3> QED
      BY <1>2, <1>4, <2>3, <3>1 DEF Shaped
  <2> QED
    BY <2>2, <2>3
<1>6. pc'[0] = "final" /\ DOMAIN None = {}
  BY <1>1 DEF None
<1>7. \A r \in Rank : input'[r] = None /\ output'[r] = None
  BY <1>1
<1>8. input' = [r \in Rank |-> input'[r]] /\ output' = [r \in Rank |-> output'[r]]
  BY <1>1
<1>9. saved' # None => DOMAIN saved' = 0 .. job.h - 1
  BY <1>1 DEF Buffers
<1> QED
  BY <1>1, <1>5, <1>6, <1>7, <1>8, <1>9 DEF Buffers, Serving

LEMMA BuffersScatter ==
  ASSUME Control, Buffers, NEW r \in Rank, Scatter(r)
  PROVE  Buffers'
<1>1. /\ pc' = [pc EXCEPT ![r] = "compute"] /\ pc \in [Rank -> Places] /\ 0 \in Rank
      /\ job' = job /\ comm' = comm /\ output' = output /\ saved' = saved /\ result' = result
      /\ Rank' = Rank /\ Second' = Second /\ input' = [input EXCEPT ![r] = Receives(r)]
      /\ pc[r] = "scatter" /\ pc[0] \in Serving
  BY JobGeometry, SameJob, ScatterSucceeds DEF Goto, Control, Types, Serving
<1>2. /\ pc'[r] = "compute" /\ \A q \in Rank : q # r => pc'[q] = pc[q] /\ input'[q] = input[q]
      /\ input'[r] = Receives(r) /\ input' = [q \in Rank |-> input'[q]]
  BY <1>1 DEF Buffers
<1>3. DOMAIN input'[r] = 0 .. comm[r].send.num - 1
  BY <1>2 DEF Receives
<1>4. ASSUME NEW q \in Rank
      PROVE  /\ pc'[q] \in Early => pc[q] \in Early /\ q # r
             /\ pc'[0] \in Serving /\ pc'[q] \in Done => pc[0] \in Serving /\ pc[q] \in Done
             /\ pc'[0] # "final"
  BY <1>1, <1>2 DEF Early, Serving, Done
<1> QED
  BY <1>1, <1>2, <1>3, <1>4 DEF Buffers

(* A step in which a process makes its rows.                               *)
LEMMA BuffersComputed ==
  ASSUME Control, Buffers, NEW r \in Rank, pc[r] = "compute", Goto(r, "gather"),
         NEW rows, Shaped(rows, comm[r].my.num, comm[r].geo.w), output' = [output EXCEPT ![r] = rows],
         UNCHANGED <<job, comm, input, result, saved>>
  PROVE  Buffers'
<1>1. /\ pc' = [pc EXCEPT ![r] = "gather"] /\ pc \in [Rank -> Places] /\ 0 \in Rank
      /\ job' = job /\ comm' = comm /\ input' = input /\ saved' = saved /\ result' = result
      /\ Rank' = Rank /\ Second' = Second
  BY JobGeometry, SameJob DEF Goto, Control, Types
<1>2. /\ pc'[r] = "gather" /\ \A q \in Rank : q # r => pc'[q] = pc[q] /\ output'[q] = output[q]
      /\ output'[r] = rows /\ output' = [q \in Rank |-> output'[q]]
  BY <1>1 DEF Buffers
<1>3. comm[r].geo = Second
  BY KnowsWhere DEF Knowing, Knows
<1>4. DOMAIN rows = 0 .. comm[r].my.num - 1
  BY DEF Shaped
<1>5. ASSUME NEW q \in Rank
      PROVE  /\ pc'[q] \in Early => pc[q] \in Early /\ q # r
             /\ pc'[0] \in Serving /\ pc'[q] \in Done => pc[0] \in Serving /\ (pc[q] \in Done \/ q = r)
             /\ pc'[0] = "final" => pc[0] = "final"
  BY <1>1, <1>2 DEF Early, Serving, Done
<1> QED
  BY <1>1, <1>2, <1>3, <1>4, <1>5 DEF Buffers

LEMMA BuffersDie ==
  ASSUME Control, Buffers, NEW r \in Rank, NEW how \in Dead, Die(r, how)
  PROVE  Buffers'
<1>1. /\ Goto(r, how) /\ how \in Dead \union {"quit", "ended"}
      /\ UNCHANGED <<job, comm, input, output, result>> /\ saved' = saved
  BY DEF Die
<1> QED
  BY <1>1, BuffersKept

LEMMA BuffersNext == ASSUME Control, Buffers, [Next]_vars PROVE Buffers'
<1>0. 0 \in Rank /\ PreparingFails \in Dead /\ "aborted" \in Dead /\ "crashed" \in Dead /\ "killed" \in Dead
  BY JobGeometry DEF Control, Types, PreparingFails, Dead
<1>1. ASSUME NEW r \in Rank, Setup(r) \/ SetupFails(r) \/ Gather(r) \/ ReceiveTime(r) \/ Finalize(r) PROVE Buffers'
  <2>1. /\ UNCHANGED <<job, comm, input, output, result>> /\ saved' = saved
        /\ \E to : /\ Goto(r, to)
                   /\ \/ to = "init" /\ pc[r] = "setup"
                      \/ to \in Dead \union {"quit", "ended"}
                      \/ r # 0 /\ to = "final" /\ pc[r] = "gather"
                      \/ to = "finalize" /\ pc[r] = "final"
    BY <1>1 DEF Setup, SetupFails, Gather, ReceiveTime, Finalize, Runs
  <2> QED
    BY <2>1, BuffersKept
<1>2. ASSUME NEW r \in Rank, Unsupported(r) \/ Killed(r) \/ CallFails(r) PROVE Buffers'
  <2>1. \E how \in Dead : Die(r, how)
    BY <1>0, <1>2 DEF Unsupported, Killed, CallFails
  <2> QED
    BY <2>1, BuffersDie
<1>3. ASSUME NEW r \in Rank, Initialize(r) PROVE Buffers'
  <2>1. /\ Goto(r, "bcast") /\ r # 0 /\ pc[r] \in Early /\ comm' = [comm EXCEPT ![r] = Distribution(r, meta[1])]
        /\ UNCHANGED <<job, input, output, saved>> /\ result' = result
    BY <1>3 DEF Initialize, Runs, Early
  <2> QED
    BY <2>1, BuffersShared
<1>4. ASSUME NEW r \in Rank, Prepare(r) PROVE Buffers'
  <2>1. /\ Goto(r, "scatter") /\ r # 0 /\ pc[r] \in Early /\ comm' = [comm EXCEPT ![r] = Distribution(r, meta[2])]
        /\ UNCHANGED <<job, input, output, saved>> /\ result' = result
    BY <1>4 DEF Prepare, Runs, Early
  <2> QED
    BY <2>1, BuffersShared
<1>5. ASSUME NEW r \in Rank, Scatter(r) PROVE Buffers'
  BY <1>5, BuffersScatter
<1>6. ASSUME NEW r \in Rank, Compute(r) PROVE Buffers'
  <2>1. pc[r] = "compute"
    BY <1>6 DEF Compute, Runs
  <2>2. CASE \E how \in Dead : Die(r, how)
    BY <2>2, BuffersDie
  <2>3. CASE ~\E how \in Dead : Die(r, how)
    <3>1. /\ Goto(r, "gather") /\ output' = [output EXCEPT ![r] = Region(r)]
          /\ UNCHANGED <<job, comm, input, result, saved>>
      BY <1>0, <1>6, <2>3 DEF Compute
    <3>2. Shaped(Region(r), comm[r].my.num, comm[r].geo.w)
      BY RegionRows DEF Shaped
    <3> QED
      BY <2>1, <3>1, <3>2, BuffersComputed
  <2> QED
    BY <2>2, <2>3
<1>7. ASSUME NEW r \in Rank, ComputeNothing(r) PROVE Buffers'
  <2> DEFINE rows == Image(comm[r].my.num, comm[r].geo.w, LAMBDA y, x : None)
  <2>1. Shaped(rows, comm[r].my.num, comm[r].geo.w)
    <3>1. rows = [y \in 0 .. comm[r].my.num - 1 |-> [x \in 0 .. comm[r].geo.w - 1 |-> None]]
      BY DEF Image
    <3> QED
      BY <3>1 DEF Shaped
  <2>2. /\ pc[r] = "compute" /\ Goto(r, "gather") /\ output' = [output EXCEPT ![r] = rows]
        /\ UNCHANGED <<job, comm, input, result, saved>>
    BY <1>7 DEF ComputeNothing, Runs
  <2> HIDE DEF rows
  <2> QED
    BY <2>1, <2>2, BuffersComputed
<1>8. CASE Rank0Initialize
  <2>1. /\ Goto(0, "bcast") /\ pc[0] \in Early /\ comm' = [comm EXCEPT ![0] = Distribution(0, Geometry(job.h, job.w))]
        /\ UNCHANGED <<job, input, output, saved>>
    BY <1>8 DEF Rank0Initialize, Runs, Early
  <2> QED
    BY <1>0, <2>1, BuffersShared
<1>9. CASE Rank0FreesTwice
  <2>1. \E how \in Dead : Die(0, how)
    BY <1>0, <1>9 DEF Rank0FreesTwice
  <2> QED
    BY <1>0, <2>1, BuffersDie
<1>10. CASE Rank0Prepare
  <2>1. CASE Die(0, PreparingFails)
    BY <1>0, <2>1, BuffersDie
  <2>2. CASE ~Die(0, PreparingFails)
    <3>1. /\ Goto(0, "scatter") /\ comm' = [comm EXCEPT ![0] = Distribution(0, Second)]
          /\ UNCHANGED <<job, input, output, saved>> /\ result' = result
      BY <1>10, <2>2, Preparing
    <3>2. pc[0] = "bcast"
      BY <1>10 DEF Rank0Prepare, Runs
    <3>3. \A q \in Rank : pc[q] \notin Done
      <4>1. meta = <<First>> /\ <<First>> # <<First, Second>>
        <5>1. Len(<<First>>) = 1 /\ Len(<<First, Second>>) = 2
          OBVIOUS
        <5> QED
          BY <3>2, <5>1 DEF Control, Root
      <4> QED
        BY <4>1 DEF Control, Told, Knowing, Done
    <3> QED
      BY <1>0, <3>1, <3>2, <3>3, BuffersShared DEF Early
  <2> QED
    BY <2>1, <2>2
<1>11. CASE Rank0Gather
  BY <1>11, BuffersRank0Gather
<1>12. CASE Rank0Save
  <2>1. /\ Goto(0, "finalize") /\ pc[0] = "final" /\ UNCHANGED <<job, comm, input, output, result>>
        /\ saved' = saved \/ saved' = result
    BY <1>12 DEF Rank0Save, Runs
  <2> QED
    BY <1>0, <2>1, BuffersKept
<1>13. CASE UNCHANGED vars
  <2>1. /\ job' = job /\ pc' = pc /\ comm' = comm /\ input' = input /\ output' = output /\ result' = result
        /\ saved' = saved /\ Rank' = Rank /\ Second' = Second
    BY <1>13, SameJob DEF vars
  <2> QED
    BY <2>1 DEF Buffers
<1> QED
  BY <1>1, <1>2, <1>3, <1>4, <1>5, <1>6, <1>7, <1>8, <1>9, <1>10, <1>11, <1>12, <1>13 DEF Next, Step, Terminated

(* Every process is at a stage of its own, or dead, and holds no row it    *)
(* was not sent (TypeOK).                                                  *)
THEOREM StagesAndShares == Spec => []TypeOK
<1>1. Control /\ Buffers /\ [Next]_vars => Buffers'
  BY BuffersNext
<1>2. Control /\ Buffers => TypeOK
  <2> SUFFICES ASSUME Control, Buffers PROVE TypeOK
    OBVIOUS
  <2>1. pc \in [Rank -> Dead \union {"quit"} \union {Stages[i] : i \in DOMAIN Stages}] /\ faults \in 0 .. MaxFaults
    BY DEF Control, Types, Places
  <2>2. ASSUME NEW r \in Rank, comm[r] # None
        PROVE  /\ comm[r].my.start + comm[r].my.num <= comm[r].geo.h
               /\ comm[r].send.start + comm[r].send.num <= comm[r].geo.h
    <3>1. PICK g \in {First, Second} : comm[r] = Distribution(r, g)
      BY <2>2 DEF Control, Told
    <3> DEFINE n == job.size
               h == g.h
               halo == Halo
    <3>2. n \in Nat \ {0} /\ h \in Nat /\ halo \in Nat /\ r \in 0 .. n - 1
      BY <3>1, JobGeometry DEF Control, Types, Rank
    <3>3. comm[r].my = Share(r, n, h) /\ comm[r].send = WithHalo(Share(r, n, h), halo, h) /\ comm[r].geo.h = h
      BY <3>1 DEF Distribution
    <3> HIDE DEF n, h, halo
    <3>4. Share(r, n, h).start + Share(r, n, h).num <= h
      BY <3>2, ShareInImage
    <3>5. WithHalo(Share(r, n, h), halo, h).start + WithHalo(Share(r, n, h), halo, h).num <= h
      <4>1. SendRange(r, n, halo, h).start + SendRange(r, n, halo, h).num <= h
        BY <3>2, HaloIsSent
      <4>2. SendRange(r, n, halo, h) = WithHalo(Share(r, n, h), halo, h)
        BY <3>2, HaloIsSent
      <4> QED
        BY <4>1, <4>2
    <3> QED
      BY <3>3, <3>4, <3>5
  <2>3. ASSUME NEW r \in Rank, comm[r] # None
        PROVE  DOMAIN input[r] \subseteq 0 .. comm[r].send.num - 1 /\ DOMAIN output[r] \subseteq 0 .. comm[r].my.num - 1
    BY <2>3 DEF Buffers
  <2>4. Len(meta) <= 2
    <3>1. Len(<<>>) = 0 /\ Len(<<First>>) = 1 /\ Len(<<First, Second>>) = 2
      OBVIOUS
    <3> QED
      BY <3>1 DEF Control, Root
  <2>5. saved # None => DOMAIN saved = 0 .. job.h - 1
    BY DEF Buffers
  <2> QED
    BY <2>1, <2>2, <2>3, <2>4, <2>5 DEF TypeOK
<1> QED
  BY ControlHolds, BuffersInit, <1>1, <1>2, PTL DEF Spec

-----------------------------------------------------------------------------
(* The contents of the buffers: the rows of the image, of the transposed   *)
(* one in by_column mode, and what the filter makes of them.               *)
Rows     == IF ByColumn THEN Transposed(Source(job)) ELSE Source(job)
Whole    == apply_filter(KernelUsed, Rows)
Piece(r) == [k \in 0 .. comm[r].send.num - 1 |-> Rows[comm[r].send.start + k]]
Part(r)  == [k \in 0 .. comm[r].my.num - 1 |-> Whole[comm[r].my.start + k]]

Data ==
  /\ pc[0] = "bcast" => img = Source(job)
  /\ pc[0] \in Serving => packed = PackedRows(Counts, Rows, Second.stride)
  /\ \A r \in Rank :
       /\ pc[r] = "compute" => input[r] = Piece(r)
       /\ pc[0] \in Serving /\ pc[r] \in Done => output[r] = Part(r)
  /\ pc[0] = "final" => result = Filtered
  /\ saved # None => saved = Filtered

LEMMA RowsShaped ==
  ASSUME job \in Jobs, job.h > 0
  PROVE  /\ Shaped(Source(job), job.h, job.w) /\ Shaped(Rows, Second.h, Second.w)
         /\ Second.h \in Nat \ {0} /\ Second.w \in Nat \ {0}
<1>1. /\ job.h \in Nat \ {0} /\ job.w \in Nat \ {0}
      /\ Second.h = (IF ByColumn THEN job.w ELSE job.h) /\ Second.w = (IF ByColumn THEN job.h ELSE job.w)
  BY JobGeometry
<1>2. Shaped(Source(job), job.h, job.w)
  BY DEF Source, Image, Shaped
<1> DEFINE h == job.h
           w == job.w
           s == Source(job)
<1>3. h \in Nat \ {0} /\ w \in Nat \ {0} /\ Shaped(s, h, w)
  BY <1>1, <1>2
<1> HIDE DEF h, w, s
<1>4. Shaped(Transposed(s), w, h)
  BY <1>3, TransposedShape
<1> QED
  BY <1>1, <1>3, <1>4 DEF Rows, h, w, s

LEMMA WholeShaped ==
  ASSUME job \in Jobs, job.h > 0
  PROVE  Whole = Applied(KernelUsed, Rows, Second.h, Second.w) /\ Shaped(Whole, Second.h, Second.w)
<1> DEFINE h == Second.h
           w == Second.w
           k == KernelUsed
<1>1. h \in Nat \ {0} /\ w \in Nat \ {0} /\ Shaped(Rows, h, w)
  BY RowsShaped
<1> HIDE DEF h, w, k
<1>2. apply_filter(k, Rows) = Applied(k, Rows, h, w) /\ Shaped(apply_filter(k, Rows), h, w)
  BY <1>1, AppliedTo
<1> QED
  BY <1>2 DEF h, w, k, Whole

(* The result in by_column mode is the transposed one.                     *)
LEMMA WholeIsFiltered ==
  ASSUME job \in Jobs, job.h > 0, ~IsMedian
  PROVE  Filtered = IF ByColumn THEN Transposed(Whole) ELSE Whole
<1> DEFINE h == job.h
           w == job.w
           s == Source(job)
           k == KernelUsed
<1>1. h \in Nat \ {0} /\ w \in Nat \ {0} /\ Shaped(s, h, w)
  BY JobGeometry, RowsShaped
<1>2. Symmetric(k)
  BY LinearKernel, TablesSymmetric
<1>3. Filtered = apply_filter(k, s)
  <2>1. job.filter # "mm" /\ k = FilterByName[job.filter]
    BY LinearKernel DEF IsMedian
  <2>2. job \in {i \in Jobs : i.h > 0}
    OBVIOUS
  <2> HIDE DEF k
  <2> QED
    BY <2>1, <2>2 DEF Filtered, Expected
<1>4. Whole = apply_filter(k, IF ByColumn THEN Transposed(s) ELSE s)
  BY DEF Whole, Rows
<1> HIDE DEF h, w, s, k
<1>5. Transposed(apply_filter(k, Transposed(s))) = apply_filter(k, s)
  BY <1>1, <1>2, TransposeCommutes
<1> QED
  BY <1>3, <1>4, <1>5

(* A process receives the rows of its range.                               *)
LEMMA ReceivesPiece ==
  ASSUME NEW r, Knows(r), packed = PackedRows(Counts, Rows, Second.stride)
  PROVE  Receives(r) = Piece(r)
<1> DEFINE n == job.size
           h == Second.h
           halo == Halo
           stride == Second.stride
           rows == Rows
           a == CommArrays(n, halo, h, stride)
           range == SendRange(r, n, halo, h)
<1>1. /\ n \in Nat \ {0} /\ h \in Nat /\ halo \in Nat /\ stride \in Nat \ {0} /\ r \in 0 .. n - 1
      /\ comm[r].send = range /\ comm[r].geo.stride = stride /\ Counts = a
      /\ packed = PackedRows(a, rows, stride)
  BY DEF Knows, Counts
<1>2. Processes(n)
  BY DEF Processes
<1>3. Counts.sendcounts[r] \div Second.stride = comm[r].send.num
  BY CountsInRowsKnown
<1> HIDE DEF n, h, halo, stride, rows
<1>4. \A k \in 0 .. range.num - 1 : PackedRows(a, rows, stride)[a.displs[r] \div stride + k + 1] = rows[range.start + k]
  BY <1>1, <1>2, RowsArePacked
<1>5. a.sendcounts[r] \div stride = range.num /\ range.num \in Nat
  <2>1. range \in [start : Nat, num : Nat]
    BY <1>1, HaloIsSent
  <2> QED
    BY <1>1, <1>3, <2>1 DEF stride
<1> HIDE DEF a, range
<1>6. Receives(r) = [k \in 0 .. range.num - 1 |->
                       IF k < a.sendcounts[r] \div stride THEN packed[a.displs[r] \div stride + k + 1]
                       ELSE [x \in 0 .. comm[r].geo.w - 1 |-> None]]
  BY <1>1 DEF Receives
<1>7. \A k \in 0 .. range.num - 1 : k < a.sendcounts[r] \div stride
  BY <1>5
<1>8. Receives(r) = [k \in 0 .. range.num - 1 |-> rows[range.start + k]]
  BY <1>1, <1>4, <1>6, <1>7
<1>9. Piece(r) = [k \in 0 .. range.num - 1 |-> rows[range.start + k]]
  BY <1>1 DEF Piece, rows
<1> QED
  BY <1>8, <1>9

(* The rows under the taps of a process are those of the whole image.      *)
LEMMA TappedIsUnder ==
  ASSUME job \in Jobs, ~IsMedian, NEW r, Knows(r), input[r] = Piece(r),
         NEW y \in 0 .. comm[r].my.num - 1, NEW x
  PROVE  Tapped(r, y, x) = Under(KernelUsed, Rows, Second.h, Second.w, comm[r].my.start + y, x)
<1> DEFINE n == job.size
           h == Second.h
           halo == Halo
           k == KernelUsed
           start == comm[r].my.start
           send == comm[r].send
<1>1. /\ n \in Nat \ {0} /\ h \in Nat /\ halo \in Nat /\ r \in 0 .. n - 1
      /\ comm[r].geo = Second /\ comm[r].my = Share(r, n, h) /\ comm[r].send = SendRange(r, n, halo, h)
  BY DEF Knows
<1>2. k.size = 2 * halo + 1 /\ Padding(k) = halo /\ ~IsMedian
  BY LinearKernel
<1>3. DOMAIN input[r] = 0 .. send.num - 1 /\ \A i \in 0 .. send.num - 1 : input[r][i] = Rows[send.start + i]
  BY DEF Piece
<1>4. send.start \in Nat
  <2> HIDE DEF n, h, halo
  <2>1. SendRange(r, n, halo, h) \in [start : Nat, num : Nat]
    BY <1>1, HaloIsSent
  <2> QED
    BY <1>1, <2>1
<1>5. ASSUME NEW t \in Taps(k)
      PROVE  /\ LocalRow(r, y, t[1]) \in 0 .. send.num - 1
             /\ send.start + LocalRow(r, y, t[1]) = Clamp(start + y + t[1] - Padding(k), h)
             /\ LocalColumn(r, x, t[2]) = Clamp(x + t[2] - Padding(k), Second.w)
  <2>1. t[1] \in 0 .. 2 * halo /\ t[2] \in 0 .. 2 * halo
    <3> HIDE DEF k, halo
    <3>1. t[1] \in 0 .. k.size - 1 /\ t[2] \in 0 .. k.size - 1
      BY MirroredTap
    <3>2. k.size - 1 = 2 * halo
      BY <1>1, <1>2
    <3> QED
      BY <3>1, <3>2
  <2> DEFINE i == Clamp(start + y + t[1] - Padding(k), h)
  <2>2. LocalRow(r, y, t[1]) = i - send.start /\ LocalColumn(r, x, t[2]) = Clamp(x + t[2] - Padding(k), Second.w)
    BY <1>1, <1>2 DEF LocalRow, LocalColumn
  <2> HIDE DEF n, h, halo, k
  <2>3. y \in 0 .. Share(r, n, h).num - 1
    BY <1>1
  <2>4. /\ Clamp(Share(r, n, h).start + y + t[1] - halo, h) \in 0 .. h - 1
        /\ Clamp(Share(r, n, h).start + y + t[1] - halo, h) - SendRange(r, n, halo, h).start
             \in 0 .. SendRange(r, n, halo, h).num - 1
    BY <1>1, <2>1, <2>3, TapInRange
  <2>5. i \in 0 .. h - 1 /\ i - send.start \in 0 .. send.num - 1
    BY <1>1, <1>2, <2>4
  <2> HIDE DEF i, send
  <2>6. send.start + (i - send.start) = i
    BY <1>4, <2>5
  <2> QED
    BY <2>2, <2>5, <2>6 DEF i
<1>6. ASSUME NEW t \in Taps(k)
      PROVE  (LET row == LocalRow(r, y, t[1])
              IN  IF row \in DOMAIN input[r] THEN input[r][row][LocalColumn(r, x, t[2])] ELSE None)
             = Rows[Clamp(start + y + t[1] - Padding(k), h)][Clamp(x + t[2] - Padding(k), Second.w)]
  <2> HIDE DEF n, h, halo, k, start, send
  <2> QED
    BY <1>3, <1>5
<1> QED
  BY <1>6 DEF Tapped, Under

LEMMA RegionIsPart ==
  ASSUME job \in Jobs, job.h > 0, ~IsMedian, NEW r, Knows(r), input[r] = Piece(r)
  PROVE  Region(r) = Part(r)
<1> DEFINE n == job.size
           h == Second.h
           my == comm[r].my
           under(y, x) == Under(KernelUsed, Rows, h, Second.w, my.start + y, x)
<1>1. /\ n \in Nat \ {0} /\ h \in Nat /\ r \in 0 .. n - 1 /\ comm[r].geo = Second /\ my = Share(r, n, h)
  BY DEF Knows
<1>2. Region(r) = [y \in 0 .. my.num - 1 |-> [x \in 0 .. Second.w - 1 |-> Weights(KernelUsed, under(y, x))]]
  <2>1. Region(r) = [y \in 0 .. my.num - 1 |-> [x \in 0 .. Second.w - 1 |-> Weights(KernelUsed, Tapped(r, y, x))]]
    BY <1>1, RegionRows
  <2>2. \A y \in 0 .. my.num - 1, x \in 0 .. Second.w - 1 : Tapped(r, y, x) = under(y, x)
    BY TappedIsUnder
  <2> HIDE DEF under, my, h
  <2> QED
    BY <2>1, <2>2
<1>3. ASSUME NEW y \in 0 .. my.num - 1
      PROVE  Whole[my.start + y] = [x \in 0 .. Second.w - 1 |-> Weights(KernelUsed, under(y, x))]
  <2>1. my.start + y \in 0 .. h - 1
    <3> HIDE DEF n, h, my
    <3>1. Share(r, n, h) \in [start : Nat, num : Nat] /\ Share(r, n, h).start + Share(r, n, h).num <= h
      BY <1>1, ShareInImage
    <3> QED
      BY <1>1, <3>1
  <2> QED
    BY <2>1, WholeShaped DEF Applied
<1> HIDE DEF under, my, h
<1> QED
  BY <1>2, <1>3 DEF Part, my

(* What rank 0 gathers is the whole of it.                                 *)
LEMMA UnpackedIsWhole ==
  ASSUME job \in Jobs, job.h > 0, arrays = Counts, 0 \in Rank, \A r \in Rank : Knows(r) /\ output[r] = Part(r)
  PROVE  Unpacked = Whole
<1>1. comm[0].geo = Second
  BY DEF Knows
<1>2. Unpacked = [y \in 0 .. Second.h - 1 |-> Unpacked[y]]
  BY <1>1, UnpackedRows
<1>3. Whole = [y \in 0 .. Second.h - 1 |-> Whole[y]]
  BY WholeShaped DEF Shaped
<1>4. ASSUME NEW y \in 0 .. Second.h - 1 PROVE Unpacked[y] = Whole[y]
  <2>1. PICK r \in Rank : /\ y - comm[r].my.start \in 0 .. comm[r].my.num - 1
                          /\ Unpacked[y] = output[r][y - comm[r].my.start]
    BY UnpackedAt
  <2> DEFINE start == comm[r].my.start
             k == y - start
  <2>2. start \in Nat /\ y \in Nat
    <3>1. Share(r, job.size, Second.h) \in [start : Nat, num : Nat]
      BY ShareInImage DEF Knows
    <3>2. Second.h \in Nat
      BY DEF Knows
    <3> QED
      BY <3>1, <3>2 DEF Knows
  <2>3. start + k = y
    <3> HIDE DEF start
    <3> QED
      BY <2>2
  <2>4. output[r][k] = Whole[start + k]
    BY <2>1 DEF Part
  <2> QED
    BY <2>1, <2>3, <2>4
<1> QED
  BY <1>2, <1>3, <1>4

LEMMA DataInit == Init => Data
<1> SUFFICES ASSUME Init PROVE Data
  OBVIOUS
<1>1. \A r \in Rank : pc[r] = "setup"
  BY DEF Init
<1>2. 0 \in Rank /\ saved = None
  BY JobGeometry DEF Init
<1> QED
  BY <1>1, <1>2 DEF Data, Serving, Done

LEMMA SameData ==
  ASSUME job' = job
  PROVE  Rows' = Rows /\ Whole' = Whole /\ Filtered' = Filtered /\ Source(job)' = Source(job)
<1>1. ByColumn' = ByColumn /\ KernelUsed' = KernelUsed /\ Source(job)' = Source(job)
  BY DEF ByColumn, KernelUsed, IsMedian
<1>2. Filtered' = Filtered
  BY DEF Filtered
<1>3. Rows' = Rows
  BY <1>1 DEF Rows
<1>4. Whole' = Whole
  BY <1>1, <1>3 DEF Whole
<1> QED
  BY <1>1, <1>2, <1>3, <1>4

(* A step that leaves the contents alone.                                  *)
LEMMA DataKept ==
  ASSUME Control, Data, NEW r \in Rank, NEW to, Goto(r, to),
         \/ to = "init" /\ pc[r] = "setup"
         \/ to \in Dead \union {"quit", "ended"}
         \/ r # 0 /\ to = "final" /\ pc[r] = "gather"
         \/ to = "finalize" /\ pc[r] = "final",
         UNCHANGED <<job, comm, img, packed, input, output, result>>,
         saved' = saved \/ (r = 0 /\ pc[0] = "final" /\ saved' = result)
  PROVE  Data'
<1>1. /\ pc' = [pc EXCEPT ![r] = to] /\ pc \in [Rank -> Places] /\ 0 \in Rank
      /\ job' = job /\ comm' = comm /\ input' = input /\ output' = output /\ result' = result
      /\ img' = img /\ packed' = packed
  BY JobGeometry DEF Goto, Control, Types
<1>2. /\ Rank' = Rank /\ Second' = Second /\ Counts' = Counts
      /\ Rows' = Rows /\ Whole' = Whole /\ Filtered' = Filtered /\ Source(job)' = Source(job)
  BY <1>1, SameJob, SameData
<1>3. pc'[r] = to /\ \A q \in Rank : q # r => pc'[q] = pc[q]
  BY <1>1
<1>4. \/ to = "init" /\ pc[r] = "setup"
      \/ to \in {"aborted", "crashed", "killed", "quit", "ended"}
      \/ r # 0 /\ to = "final" /\ pc[r] = "gather"
      \/ to = "finalize" /\ pc[r] = "final"
  BY DEF Dead
<1>5. ASSUME NEW q \in Rank
      PROVE  /\ pc'[q] = "compute" => pc[q] = "compute"
             /\ pc'[0] \in Serving => pc[0] \in Serving
             /\ pc'[q] \in Done => pc[q] \in Done
             /\ pc'[0] = "bcast" => pc[0] = "bcast"
             /\ pc'[0] = "final" => pc[0] = "final"
  BY <1>1, <1>3, <1>4 DEF Serving, Done
<1>6. saved' # None => saved' = Filtered
  BY DEF Data
<1>7. /\ \A q \in Rank : Piece(q)' = Piece(q) /\ Part(q)' = Part(q)
      /\ PackedRows(Counts, Rows, Second.stride)' = PackedRows(Counts, Rows, Second.stride)
  BY <1>1, <1>2 DEF Piece, Part, PackedRows
<1> QED
  BY <1>1, <1>2, <1>5, <1>6, <1>7 DEF Data

(* A step in which a process learns its share; rank 0 reads the image or   *)
(* packs it.                                                               *)
LEMMA DataShared ==
  ASSUME Control, Data, NEW r \in Rank, NEW to \in {"bcast", "scatter"}, Goto(r, to), NEW d,
         comm' = [comm EXCEPT ![r] = d],
         UNCHANGED <<job, input, output, saved>>,
         \/ r # 0 /\ UNCHANGED <<img, packed, result>>
         \/ r = 0 /\ to = "bcast" /\ img' = Source(job)
         \/ /\ r = 0 /\ to = "scatter" /\ packed' = PackedRows(Counts, Rows, Second.stride)
            /\ \A q \in Rank : pc[q] \notin Done
  PROVE  Data'
<1>1. /\ pc' = [pc EXCEPT ![r] = to] /\ pc \in [Rank -> Places] /\ 0 \in Rank
      /\ job' = job /\ input' = input /\ output' = output /\ saved' = saved
      /\ comm = [q \in Rank |-> comm[q]]
  BY JobGeometry DEF Goto, Control, Types
<1>2. /\ Rank' = Rank /\ Second' = Second /\ Counts' = Counts
      /\ Rows' = Rows /\ Whole' = Whole /\ Filtered' = Filtered /\ Source(job)' = Source(job)
  BY <1>1, SameJob, SameData
<1>3. pc'[r] = to /\ \A q \in Rank : q # r => pc'[q] = pc[q] /\ comm'[q] = comm[q]
  BY <1>1
<1>4. \A q \in Rank : q # r => Piece(q)' = Piece(q) /\ Part(q)' = Part(q)
  BY <1>2, <1>3 DEF Piece, Part
<1>5. PackedRows(Counts, Rows, Second.stride)' = PackedRows(Counts, Rows, Second.stride)
  BY <1>1, <1>2 DEF PackedRows
<1>6. ASSUME NEW q \in Rank
      PROVE  /\ pc'[q] = "compute" => input'[q] = Piece(q)'
             /\ pc'[0] \in Serving /\ pc'[q] \in Done => output'[q] = Part(q)'
  <2>1. pc'[q] = "compute" => q # r /\ pc[q] = "compute"
    BY <1>3
  <2>2. pc'[q] \in Done => q # r /\ pc[q] \in Done
    BY <1>3 DEF Done
  <2>3. pc'[0] \in Serving /\ pc'[q] \in Done => pc[0] \in Serving
    BY <1>1, <1>3, <2>2 DEF Serving
  <2> QED
    BY <1>1, <1>4, <2>1, <2>2, <2>3 DEF Data
<1>7. pc'[0] \in Serving => packed' = PackedRows(Counts, Rows, Second.stride)
  BY <1>1, <1>3 DEF Data, Serving
<1>8. (pc'[0] = "bcast" => img' = Source(job)) /\ (pc'[0] = "final" => result' = Filtered)
  BY <1>1, <1>3 DEF Data
<1> QED
  BY <1>1, <1>2, <1>5, <1>6, <1>7, <1>8 DEF Data

LEMMA DataScatter ==
  ASSUME Control, Buffers, Data, NEW r \in Rank, Scatter(r)
  PROVE  Data'
<1>1. /\ pc' = [pc EXCEPT ![r] = "compute"] /\ pc \in [Rank -> Places] /\ 0 \in Rank
      /\ job' = job /\ comm' = comm /\ output' = output /\ saved' = saved /\ result' = result
      /\ img' = img /\ packed' = packed /\ input' = [input EXCEPT ![r] = Receives(r)]
      /\ pc[r] = "scatter" /\ pc[0] \in Serving /\ Knows(r)
  BY JobGeometry, ScatterSucceeds DEF Goto, Control, Types, Serving
<1>2. /\ Rank' = Rank /\ Second' = Second /\ Counts' = Counts
      /\ Rows' = Rows /\ Whole' = Whole /\ Filtered' = Filtered /\ Source(job)' = Source(job)
  BY <1>1, SameJob, SameData
<1>3. /\ pc'[r] = "compute" /\ \A q \in Rank : q # r => pc'[q] = pc[q] /\ input'[q] = input[q]
      /\ input'[r] = Receives(r)
  BY <1>1 DEF Buffers
<1>4. \A q \in Rank : Piece(q)' = Piece(q) /\ Part(q)' = Part(q)
  BY <1>1, <1>2 DEF Piece, Part
<1>5. PackedRows(Counts, Rows, Second.stride)' = PackedRows(Counts, Rows, Second.stride)
  BY <1>1, <1>2 DEF PackedRows
<1>6. Receives(r) = Piece(r)
  BY <1>1, ReceivesPiece DEF Data
<1>7. ASSUME NEW q \in Rank
      PROVE  /\ pc'[q] = "compute" => input'[q] = Piece(q)'
             /\ pc'[0] \in Serving /\ pc'[q] \in Done => output'[q] = Part(q)'
  <2>1. pc'[q] \in Done => pc[q] \in Done
    BY <1>3 DEF Done
  <2> QED
    BY <1>1, <1>3, <1>4, <1>6, <2>1 DEF Data
<1>8. /\ pc'[0] # "bcast" /\ pc'[0] # "final"
      /\ pc'[0] \in Serving => packed' = PackedRows(Counts, Rows, Second.stride)
  BY <1>1, <1>3 DEF Data, Serving
<1> QED
  BY <1>1, <1>2, <1>5, <1>7, <1>8 DEF Data

LEMMA DataCompute ==
  ASSUME Control, Buffers, Data, ~IsMedian, NEW r \in Rank, pc[r] = "compute", Goto(r, "gather"),
         output' = [output EXCEPT ![r] = Region(r)], UNCHANGED <<job, comm, img, packed, input, result, saved>>
  PROVE  Data'
<1>1. /\ pc' = [pc EXCEPT ![r] = "gather"] /\ pc \in [Rank -> Places] /\ 0 \in Rank /\ job \in Jobs
      /\ job' = job /\ comm' = comm /\ input' = input /\ saved' = saved /\ result' = result
      /\ img' = img /\ packed' = packed
  BY JobGeometry DEF Goto, Control, Types
<1>2. /\ Rank' = Rank /\ Second' = Second /\ Counts' = Counts
      /\ Rows' = Rows /\ Whole' = Whole /\ Filtered' = Filtered /\ Source(job)' = Source(job)
  BY <1>1, SameJob, SameData
<1>3. /\ pc'[r] = "gather" /\ \A q \in Rank : q # r => pc'[q] = pc[q] /\ output'[q] = output[q]
      /\ output'[r] = Region(r)
  BY <1>1 DEF Buffers
<1>4. /\ \A q \in Rank : Piece(q)' = Piece(q) /\ Part(q)' = Part(q)
      /\ PackedRows(Counts, Rows, Second.stride)' = PackedRows(Counts, Rows, Second.stride)
  BY <1>1, <1>2 DEF Piece, Part, PackedRows
<1>5. Region(r) = Part(r)
  <2>1. Knows(r) /\ meta # <<>>
    BY KnowsWhere DEF Knowing
  <2>2. job.h > 0
    BY <2>1 DEF Control, Root
  <2>3. input[r] = Piece(r)
    BY DEF Data
  <2> QED
    BY <1>1, <2>1, <2>2, <2>3, RegionIsPart
<1>6. ASSUME NEW q \in Rank
      PROVE  /\ pc'[q] = "compute" => input'[q] = Piece(q)'
             /\ pc'[0] \in Serving /\ pc'[q] \in Done => output'[q] = Part(q)'
  <2>1. pc'[0] \in Serving => pc[0] \in Serving
    BY <1>1, <1>3 DEF Serving
  <2> QED
    BY <1>1, <1>3, <1>4, <1>5, <2>1 DEF Data
<1>7. /\ pc'[0] = "bcast" => pc[0] = "bcast"
      /\ pc'[0] = "final" => pc[0] = "final"
      /\ pc'[0] \in Serving => pc[0] \in Serving
  BY <1>1, <1>3 DEF Serving
<1> QED
  BY <1>1, <1>2, <1>4, <1>6, <1>7 DEF Data

LEMMA DataRank0Gather ==
  ASSUME Control, Data, ~IsMedian, Rank0Gather
  PROVE  Data'
<1>1. /\ pc' = [pc EXCEPT ![0] = "final"] /\ pc \in [Rank -> Places] /\ 0 \in Rank /\ job \in Jobs
      /\ job' = job /\ saved' = saved /\ pc[0] = "gather" /\ arrays = Counts
      /\ result' = IF ByColumn THEN Transposed(Unpacked) ELSE Unpacked
  BY JobGeometry, GatherSucceeds DEF Goto, Control, Types
<1>2. \A r \in Rank : Knows(r) /\ pc[r] \in Done
  BY <1>1, GatherSucceeds DEF Done
<1>3. Rank' = Rank /\ Filtered' = Filtered
  BY <1>1, SameJob, SameData
<1>4. \A r \in Rank : output[r] = Part(r)
  BY <1>1, <1>2 DEF Data, Serving
<1>5. job.h > 0
  <2>1. meta # <<>>
    BY <1>1, KnowsWhere DEF Knowing
  <2> QED
    BY <2>1 DEF Control, Root
<1>6. Unpacked = Whole
  BY <1>1, <1>2, <1>4, <1>5, UnpackedIsWhole
<1>7. result' = Filtered
  BY <1>1, <1>5, <1>6, WholeIsFiltered
<1>8. pc'[0] = "final" /\ \A q \in Rank : pc'[q] # "compute"
  BY <1>1, <1>2 DEF Done
<1>9. saved' # None => saved' = Filtered
  BY <1>1 DEF Data
<1> QED
  BY <1>3, <1>7, <1>8, <1>9 DEF Data, Serving

LEMMA DataNext == ASSUME Control, Buffers, Data, ~IsMedian, [Next]_vars PROVE Data'
<1>0. /\ 0 \in Rank /\ PreparingFails \in Dead /\ "aborted" \in Dead /\ "crashed" \in Dead /\ "killed" \in Dead
      /\ job \in Jobs
  BY JobGeometry DEF Control, Types, PreparingFails, Dead
<1>1. ASSUME NEW r \in Rank, Setup(r) \/ SetupFails(r) \/ Gather(r) \/ ReceiveTime(r) \/ Finalize(r) PROVE Data'
  <2>1. /\ UNCHANGED <<job, comm, img, packed, input, output, result>> /\ saved' = saved
        /\ \E to : /\ Goto(r, to)
                   /\ \/ to = "init" /\ pc[r] = "setup"
                      \/ to \in Dead \union {"quit", "ended"}
                      \/ r # 0 /\ to = "final" /\ pc[r] = "gather"
                      \/ to = "finalize" /\ pc[r] = "final"
    BY <1>1 DEF Setup, SetupFails, Gather, ReceiveTime, Finalize, Runs
  <2> QED
    BY <2>1, DataKept
<1>2. ASSUME NEW r \in Rank, NEW how \in Dead, Die(r, how) PROVE Data'
  <2>1. Goto(r, how) /\ UNCHANGED <<job, comm, img, packed, input, output, result>> /\ saved' = saved
    BY <1>2 DEF Die
  <2> QED
    BY <2>1, DataKept
<1>3. ASSUME NEW r \in Rank, Unsupported(r) \/ Killed(r) \/ CallFails(r) PROVE Data'
  BY <1>0, <1>2, <1>3 DEF Unsupported, Killed, CallFails
<1>4. ASSUME NEW r \in Rank, Initialize(r) PROVE Data'
  <2>1. /\ Goto(r, "bcast") /\ r # 0 /\ comm' = [comm EXCEPT ![r] = Distribution(r, meta[1])]
        /\ UNCHANGED <<job, input, output, saved>> /\ UNCHANGED <<img, packed, result>>
    BY <1>4 DEF Initialize
  <2> QED
    BY <2>1, DataShared
<1>5. ASSUME NEW r \in Rank, Prepare(r) PROVE Data'
  <2>1. /\ Goto(r, "scatter") /\ r # 0 /\ comm' = [comm EXCEPT ![r] = Distribution(r, meta[2])]
        /\ UNCHANGED <<job, input, output, saved>> /\ UNCHANGED <<img, packed, result>>
    BY <1>5 DEF Prepare
  <2> QED
    BY <2>1, DataShared
<1>6. ASSUME NEW r \in Rank, Scatter(r) PROVE Data'
  BY <1>6, DataScatter
<1>7. ASSUME NEW r \in Rank, Compute(r) PROVE Data'
  <2>1. pc[r] = "compute"
    BY <1>7 DEF Compute, Runs
  <2>2. CASE \E how \in Dead : Die(r, how)
    BY <1>2, <2>2
  <2>3. CASE ~\E how \in Dead : Die(r, how)
    <3>1. /\ Goto(r, "gather") /\ output' = [output EXCEPT ![r] = Region(r)]
          /\ UNCHANGED <<job, comm, img, packed, input, result, saved>>
      BY <1>0, <1>7, <2>3 DEF Compute
    <3> QED
      BY <2>1, <3>1, DataCompute
  <2> QED
    BY <2>2, <2>3
<1>8. \A r \in Rank : ~ComputeNothing(r)
  BY <1>0, LinearKernel DEF ComputeNothing
<1>9. CASE Rank0Initialize
  <2>1. /\ Goto(0, "bcast") /\ comm' = [comm EXCEPT ![0] = Distribution(0, Geometry(job.h, job.w))]
        /\ UNCHANGED <<job, input, output, saved>> /\ img' = Source(job)
    BY <1>9 DEF Rank0Initialize
  <2> QED
    BY <1>0, <2>1, DataShared
<1>10. CASE Rank0FreesTwice
  BY <1>0, <1>2, <1>10 DEF Rank0FreesTwice
<1>11. CASE Rank0Prepare
  <2>1. CASE Die(0, PreparingFails)
    BY <1>0, <1>2, <2>1
  <2>2. CASE ~Die(0, PreparingFails)
    <3>1. pc[0] = "bcast"
      BY <1>11 DEF Rank0Prepare, Runs
    <3>2. img = Source(job)
      BY <3>1 DEF Data
    <3>3. /\ Goto(0, "scatter") /\ comm' = [comm EXCEPT ![0] = Distribution(0, Second)]
          /\ UNCHANGED <<job, input, output, saved>>
          /\ packed' = PackedRows(Counts, Rows, Second.stride)
      BY <1>11, <2>2, <3>2, Preparing DEF Rows
    <3>4. \A q \in Rank : pc[q] \notin Done
      <4>1. meta = <<First>> /\ <<First>> # <<First, Second>>
        <5>1. Len(<<First>>) = 1 /\ Len(<<First, Second>>) = 2
          OBVIOUS
        <5> QED
          BY <3>1, <5>1 DEF Control, Root
      <4> QED
        BY <4>1 DEF Control, Told, Knowing, Done
    <3> QED
      BY <1>0, <3>3, <3>4, DataShared
  <2> QED
    BY <2>1, <2>2
<1>12. CASE Rank0Gather
  BY <1>12, DataRank0Gather
<1>13. CASE Rank0Save
  <2>1. /\ Goto(0, "finalize") /\ pc[0] = "final" /\ UNCHANGED <<job, comm, img, packed, input, output, result>>
        /\ saved' = saved \/ saved' = result
    BY <1>13 DEF Rank0Save, Runs
  <2> QED
    BY <1>0, <2>1, DataKept
<1>14. CASE UNCHANGED vars
  <2>1. /\ job' = job /\ pc' = pc /\ comm' = comm /\ input' = input /\ output' = output /\ result' = result
        /\ saved' = saved /\ img' = img /\ packed' = packed
    BY <1>14 DEF vars
  <2>2. /\ Rank' = Rank /\ Second' = Second /\ Counts' = Counts
        /\ Rows' = Rows /\ Whole' = Whole /\ Filtered' = Filtered /\ Source(job)' = Source(job)
    BY <2>1, SameJob, SameData
  <2>3. /\ \A q \in Rank : Piece(q)' = Piece(q) /\ Part(q)' = Part(q)
        /\ PackedRows(Counts, Rows, Second.stride)' = PackedRows(Counts, Rows, Second.stride)
    BY <2>1, <2>2 DEF Piece, Part, PackedRows
  <2> QED
    BY <2>1, <2>2, <2>3 DEF Data
<1> QED
  BY <1>1, <1>3, <1>4, <1>5, <1>6, <1>7, <1>8, <1>9, <1>10, <1>11, <1>12, <1>13, <1>14 DEF Next, Step, Terminated

(* What is saved is what the other modes of the CPU backend would save:    *)
(* for every image, number of processes and linear filter no row is        *)
(* missing, doubled or made from rows its rank did not have, and the two   *)
(* transpositions of by_column mode leave no trace (SavedIsFiltered).      *)
THEOREM EveryPixelIsRight == Spec => [](~IsMedian => SavedIsFiltered)
<1> DEFINE Inv == ~IsMedian => Data
<1>1. Control /\ Buffers /\ [Next]_vars => Buffers'
  BY BuffersNext
<1>2. Init => Inv
  BY DataInit
<1>3. Control /\ Buffers /\ Inv /\ [Next]_vars => Inv'
  BY DataNext, SameFilter
<1>4. Inv => (~IsMedian => SavedIsFiltered)
  BY DEF Data, SavedIsFiltered
<1> HIDE DEF Inv
<1> QED
  BY ControlHolds, BuffersInit, <1>1, <1>2, <1>3, <1>4, PTL DEF Spec

-----------------------------------------------------------------------------
(* The refinement: what a step does to a process, to the image on disk and *)
(* to the job, in place of what it does to the buffers.                    *)
Onward(from, to) ==
  \/ Quietly(from, to)
  \/ from = "init" /\ to = "bcast"
  \/ from = "bcast" /\ to = "scatter"

Mortal == {"init", "bcast", "scatter", "compute", "gather"}

GoesOn(r)    == \E to : Goto(r, to) /\ (Onward(pc[r], to) \/ (r # 0 /\ pc[r] = "gather" /\ to = "final"))
Dies(r)      == /\ \E how \in Dead : Goto(r, how)
                /\ pc[r] \in Mortal \/ (pc[r] \notin Dead /\ \E q \in Rank : pc[q] \in Dead)
GivesUp(r)   == pc[r] = "setup" /\ r \in job.missing /\ Goto(r, "quit")
HasAll       == pc[0] = "gather" /\ Goto(0, "final") /\ \A r \in Rank \ {0} : Reached(r, "final")
Times(r)     == r # 0 /\ pc[r] = "final" /\ Reached(0, "finalize") /\ Goto(r, "finalize")
Finishes(r)  == /\ pc[r] \in {"finalize", "quit"} /\ Goto(r, "ended")
                /\ \A q \in Rank : Reached(q, "finalize") \/ pc[q] = "quit"
Saves        == pc[0] = "final" /\ Goto(0, "finalize") /\ (saved' = saved \/ saved' = result)

LEMMA KindsOfSteps ==
  ASSUME Control, ~IsMedian, [Next]_vars
  PROVE  /\ job' = job
         /\ \/ Saves
            \/ /\ saved' = saved
               /\ \/ pc' = pc
                  \/ HasAll
                  \/ \E r \in Rank : GoesOn(r) \/ Dies(r) \/ GivesUp(r) \/ Times(r) \/ Finishes(r)
<1> DEFINE Moves == \E r \in Rank : GoesOn(r) \/ Dies(r) \/ GivesUp(r) \/ Times(r) \/ Finishes(r)
           Goal == \/ Saves
                   \/ (saved' = saved /\ (pc' = pc \/ HasAll \/ Moves))
<1>1. /\ 0 \in Rank /\ job \in Jobs /\ faults \in Nat
      /\ PreparingFails \in Dead /\ "aborted" \in Dead /\ "crashed" \in Dead /\ "killed" \in Dead
  BY JobGeometry, MpiAssumption DEF Control, Types, PreparingFails, Dead
<1>2. job' = job
  BY <1>1, JobStays
<1> SUFFICES Goal
  BY <1>2
<1>3. ASSUME NEW r \in Rank, GoesOn(r) \/ Dies(r) \/ GivesUp(r) \/ Times(r) \/ Finishes(r), saved' = saved
      PROVE  Goal
  BY <1>3
<1>a. Saves \/ (HasAll /\ saved' = saved) \/ (pc' = pc /\ saved' = saved) => Goal
  OBVIOUS
<1> HIDE DEF Goal
<1>4. ASSUME NEW r \in Rank, pc[r] \in Mortal, NEW how \in Dead, Die(r, how) PROVE Goal
  <2>1. Dies(r) /\ saved' = saved
    BY <1>4 DEF Die, Dies
  <2> QED
    BY <1>3, <2>1
<1>5. ASSUME NEW r \in Rank, Setup(r) PROVE Goal
  <2>1. GoesOn(r) /\ saved' = saved
    BY <1>5 DEF Setup, GoesOn, Onward, Quietly
  <2> QED
    BY <1>3, <2>1
<1>6. ASSUME NEW r \in Rank, SetupFails(r) PROVE Goal
  BY <1>3, <1>6 DEF SetupFails, GivesUp
<1>7. ASSUME NEW r \in Rank, Unsupported(r) PROVE Goal
  BY <1>1, <1>4, <1>7 DEF Unsupported, Mortal
<1>8. ASSUME NEW r \in Rank, Initialize(r) \/ Prepare(r) PROVE Goal
  <2>1. GoesOn(r) /\ saved' = saved
    BY <1>8 DEF Initialize, Prepare, Runs, GoesOn, Onward
  <2> QED
    BY <1>3, <2>1
<1>9. ASSUME NEW r \in Rank, Scatter(r) PROVE Goal
  <2>1. pc[r] = "scatter"
    BY <1>9 DEF Scatter, Runs
  <2>2. CASE Die(r, "aborted")
    BY <1>1, <1>4, <2>1, <2>2 DEF Mortal
  <2>3. CASE Goto(r, "compute") /\ saved' = saved
    <3>1. GoesOn(r)
      BY <2>1, <2>3 DEF GoesOn, Onward, Quietly
    <3> QED
      BY <1>3, <2>3, <3>1
  <2> QED
    BY <1>9, <2>2, <2>3 DEF Scatter
<1>10. ASSUME NEW r \in Rank, Compute(r) PROVE Goal
  <2>1. pc[r] = "compute"
    BY <1>10 DEF Compute, Runs
  <2>2. CASE \E how \in Dead : Die(r, how)
    BY <1>4, <2>1, <2>2 DEF Mortal
  <2>3. CASE Goto(r, "gather") /\ saved' = saved
    <3>1. GoesOn(r)
      BY <2>1, <2>3 DEF GoesOn, Onward, Quietly
    <3> QED
      BY <1>3, <2>3, <3>1
  <2> QED
    BY <1>1, <1>10, <2>2, <2>3 DEF Compute
<1>11. ASSUME NEW r \in Rank, Gather(r) PROVE Goal
  <2>1. GoesOn(r) /\ saved' = saved
    BY <1>11 DEF Gather, Runs, GoesOn
  <2> QED
    BY <1>3, <2>1
<1>12. ASSUME NEW r \in Rank, ReceiveTime(r) PROVE Goal
  BY <1>3, <1>12 DEF ReceiveTime, Runs, Times
<1>13. ASSUME NEW r \in Rank, Finalize(r) PROVE Goal
  BY <1>3, <1>13 DEF Finalize, Finishes
<1>14. ASSUME NEW r \in Rank, Killed(r) PROVE Goal
  <2>1. Dies(r) /\ saved' = saved
    BY <1>1, <1>14 DEF Killed, Die, Dies
  <2> QED
    BY <1>3, <2>1
<1>15. CASE Rank0Initialize
  <2>1. GoesOn(0) /\ saved' = saved
    BY <1>15 DEF Rank0Initialize, Runs, GoesOn, Onward
  <2> QED
    BY <1>1, <1>3, <2>1
<1>16. CASE Rank0FreesTwice
  BY <1>1, <1>4, <1>16 DEF Rank0FreesTwice, Runs, Mortal
<1>17. CASE Rank0Prepare
  <2>1. pc[0] = "bcast"
    BY <1>17 DEF Rank0Prepare, Runs
  <2>2. CASE Die(0, PreparingFails)
    BY <1>1, <1>4, <2>1, <2>2 DEF Mortal
  <2>3. CASE ~Die(0, PreparingFails)
    <3>1. Goto(0, "scatter") /\ saved' = saved
      BY <1>17, <2>3, Preparing
    <3>2. GoesOn(0)
      BY <2>1, <3>1 DEF GoesOn, Onward
    <3> QED
      BY <1>1, <1>3, <3>1, <3>2
  <2> QED
    BY <2>2, <2>3
<1>18. CASE Rank0Gather
  <2>1. pc[0] = "gather" /\ \A r \in Rank \ {0} : Reached(r, "final")
    BY <1>18 DEF Rank0Gather, Runs
  <2>2. CASE Die(0, "aborted")
    BY <1>1, <1>4, <2>1, <2>2 DEF Mortal
  <2>3. CASE Goto(0, "final") /\ saved' = saved
    BY <1>a, <2>1, <2>3 DEF HasAll
  <2> QED
    BY <1>18, <2>2, <2>3 DEF Rank0Gather
<1>19. CASE Rank0Save
  BY <1>a, <1>19 DEF Rank0Save, Runs, Saves
<1>20. ASSUME NEW r \in Rank, CallFails(r) PROVE Goal
  <2>1. pc[r] \in Mortal /\ \E how \in Dead : Die(r, how)
    BY <1>1, <1>20 DEF CallFails, Runs, Mortal
  <2> QED
    BY <1>4, <2>1
<1>21. \A r \in Rank : ~ComputeNothing(r)
  BY DEF ComputeNothing
<1>22. CASE UNCHANGED vars
  BY <1>a, <1>22 DEF vars
<1> QED
  BY <1>5, <1>6, <1>7, <1>8, <1>9, <1>10, <1>11, <1>12, <1>13, <1>14, <1>15, <1>16, <1>17, <1>18, <1>19,
     <1>20, <1>21, <1>22 DEF Next, Step, Terminated

(* Once rank 0 has gathered the result nobody is dead, and nobody dies.    *)
Together ==
  (pc[0] = "final" \/ \E r \in Rank : pc[r] \in {"finalize", "ended"}) => \A q \in Rank : pc[q] \notin Dead

LEMMA TogetherInit == Init => Together
<1>1. Init => job \in Jobs
  BY DEF Init
<1>2. Init => 0 \in Rank /\ \A r \in Rank : pc[r] = "setup"
  BY <1>1, JobGeometry DEF Init
<1> QED
  BY <1>2 DEF Together, Dead

LEMMA TogetherNext == ASSUME Control, Together, ~IsMedian, [Next]_vars PROVE Together'
<1>1. 0 \in Rank /\ pc \in [Rank -> Places]
  BY JobGeometry DEF Control, Types
<1>2. job' = job /\ Rank' = Rank
  BY KindsOfSteps, SameJob
<1>3. ASSUME NEW r \in Rank, NEW to, Goto(r, to)
      PROVE  pc'[r] = to /\ \A q \in Rank : q # r => pc'[q] = pc[q]
  BY <1>1, <1>3 DEF Goto
<1>4. ASSUME NEW r \in Rank, NEW to, Goto(r, to), to \notin Dead \union {"finalize", "ended"}, r # 0 \/ to # "final"
      PROVE  Together'
  BY <1>1, <1>2, <1>3, <1>4 DEF Together
<1>5. ASSUME NEW r \in Rank, GoesOn(r) PROVE Together'
  <2>1. PICK to : Goto(r, to) /\ (Onward(pc[r], to) \/ (r # 0 /\ pc[r] = "gather" /\ to = "final"))
    BY <1>5 DEF GoesOn
  <2>2. to \notin Dead \union {"finalize", "ended"} /\ (r # 0 \/ to # "final")
    BY <2>1 DEF Onward, Quietly, Dead
  <2> QED
    BY <1>4, <2>1, <2>2
<1>6. ASSUME NEW r \in Rank, GivesUp(r) PROVE Together'
  BY <1>4, <1>6 DEF GivesUp, Dead
<1>7. ASSUME NEW r \in Rank, Dies(r) PROVE Together'
  <2>1. ~(pc[0] = "final" \/ \E q \in Rank : pc[q] \in {"finalize", "ended"})
    <3>1. CASE pc[r] \in Mortal
      BY <3>1 DEF Control, Leaving, Mortal, Dead
    <3>2. CASE pc[r] \notin Mortal
      BY <1>7, <3>2 DEF Dies, Together
    <3> QED
      BY <3>1, <3>2
  <2>2. PICK how \in Dead : Goto(r, how)
    BY <1>7 DEF Dies
  <2> QED
    BY <1>1, <1>2, <1>3, <2>1, <2>2 DEF Together, Dead
<1>8. CASE HasAll
  <2>1. \A q \in Rank \ {0} : pc[q] \in {"final", "finalize", "ended"}
    BY <1>8, StagesInOrder DEF HasAll
  <2> QED
    BY <1>1, <1>2, <1>3, <1>8, <2>1 DEF HasAll, Together, Dead
<1>9. ASSUME NEW r \in Rank, Times(r) PROVE Together'
  <2>1. pc[0] \in {"finalize", "ended"}
    BY <1>9, StagesInOrder DEF Times
  <2> QED
    BY <1>1, <1>2, <1>3, <1>9, <2>1 DEF Times, Together, Dead
<1>10. ASSUME NEW r \in Rank, Finishes(r) PROVE Together'
  <2>1. \A q \in Rank : pc[q] \in {"finalize", "ended", "quit"}
    BY <1>10, StagesInOrder DEF Finishes
  <2> QED
    BY <1>1, <1>2, <1>3, <1>10, <2>1 DEF Finishes, Together, Dead
<1>11. CASE Saves
  BY <1>1, <1>2, <1>3, <1>11 DEF Saves, Together, Dead
<1>12. CASE pc' = pc
  BY <1>2, <1>12 DEF Together
<1> QED
  BY <1>5, <1>6, <1>7, <1>8, <1>9, <1>10, <1>11, <1>12, KindsOfSteps

-----------------------------------------------------------------------------
Look(p) == CASE p = "ended" -> "left" [] p \in Dead -> "dead" [] OTHER -> "running"

LEMMA LooksLike ==
  ASSUME NEW p
  PROVE  /\ Look(p) = "left" <=> p = "ended"
         /\ Look(p) = "dead" <=> p \in Dead
         /\ Look(p) = "running" <=> p \notin Dead \union {"ended"}
<1>1. CASE p = "ended"
  <2>1. Look(p) = "left" /\ p \notin Dead
    BY <1>1 DEF Look, Dead
  <2> QED
    BY <1>1, <2>1
<1>2. CASE p \in Dead
  <2>1. Look(p) = "dead" /\ p # "ended"
    BY <1>2 DEF Look, Dead
  <2> QED
    BY <1>2, <2>1
<1>3. CASE p \notin Dead \union {"ended"}
  <2>1. Look(p) = "running"
    BY <1>3 DEF Look
  <2> QED
    BY <1>3, <2>1
<1> QED
  BY <1>1, <1>2, <1>3

Over(p0, all) == p0 \in {"finalize", "ended"} \/ all

LEMMA DecidedIs ==
  /\ Decided \in BOOLEAN /\ Decided' \in BOOLEAN
  /\ Decided <=> Over(pc[0], \A r \in Rank : pc[r] \in {"quit", "ended"})
  /\ Decided' <=> Over(pc'[0], \A r \in Rank' : pc'[r] \in {"quit", "ended"})
<1>1. ASSUME NEW p
      PROVE  (\E i, j \in DOMAIN Stages : Stages[i] = "finalize" /\ Stages[j] = p /\ i <= j)
               <=> p \in {"finalize", "ended"}
  <2>1. /\ Stages[1] = "setup" /\ Stages[2] = "init" /\ Stages[3] = "bcast" /\ Stages[4] = "scatter"
        /\ Stages[5] = "compute" /\ Stages[6] = "gather" /\ Stages[7] = "final" /\ Stages[8] = "finalize"
        /\ Stages[9] = "ended" /\ DOMAIN Stages = 1 .. 9
    BY DEF Stages
  <2> HIDE DEF Stages
  <2>2. \A i \in DOMAIN Stages :
          i = 1 \/ i = 2 \/ i = 3 \/ i = 4 \/ i = 5 \/ i = 6 \/ i = 7 \/ i = 8 \/ i = 9
    BY <2>1
  <2> QED
    BY <2>1, <2>2
<1>2. Decided <=> Over(pc[0], \A r \in Rank : pc[r] \in {"quit", "ended"})
  BY <1>1 DEF Decided, Reached, Over
<1>3. Decided' <=> Over(pc'[0], \A r \in Rank' : pc'[r] \in {"quit", "ended"})
  BY <1>1 DEF Decided, Reached, Over
<1>4. Decided \in BOOLEAN /\ Decided' \in BOOLEAN
  BY DEF Decided
<1> QED
  BY <1>2, <1>3, <1>4

(* Every step is one of MpiJob's, or none.                                 *)
LEMMA JobStep ==
  ASSUME Control, Together, Data, Data', ~IsMedian, [Next]_vars
  PROVE  [J!Next]_(J!mpiJob)
<1>1. 0 \in Rank /\ pc \in [Rank -> Places]
  BY JobGeometry DEF Control, Types
<1>2. job' = job /\ Rank' = Rank /\ Filtered' = Filtered /\ Lost = FALSE /\ Lost' = FALSE
  BY KindsOfSteps, SameJob, SameData DEF Lost, IsMedian
<1>3. OnDisk' \in {"filtered", "nothing"} /\ (saved' = saved => OnDisk' = OnDisk)
  <2>1. saved' = None \/ saved' = Filtered'
    BY DEF Data
  <2> QED
    BY <1>2, <2>1 DEF OnDisk
<1>4. ASSUME NEW r \in Rank, NEW to, Goto(r, to)
      PROVE  /\ pc'[r] = to /\ \A q \in Rank : q # r => pc'[q] = pc[q]
             /\ Abstractly' = [Abstractly EXCEPT ![r] = Look(to)]
  <2>1. pc'[r] = to /\ \A q \in Rank : q # r => pc'[q] = pc[q]
    BY <1>1, <1>4 DEF Goto
  <2>2. Abstractly = [q \in Rank |-> Look(pc[q])] /\ Abstractly' = [q \in Rank |-> Look(pc'[q])]
    BY <1>2 DEF Abstractly, Look
  <2> QED
    BY <2>1, <2>2
<1>5. /\ Abstractly = [r \in Rank |-> Abstractly[r]]
      /\ \A r \in Rank : Abstractly[r] = Look(pc[r])
  BY DEF Abstractly, Look
<1>6. ASSUME NEW r \in Rank, NEW to, Goto(r, to), pc[r] \notin Dead \union {"ended"}, to \notin Dead \union {"ended"}
      PROVE  Abstractly' = Abstractly
  <2>1. Abstractly[r] = Look(to)
    BY <1>5, <1>6, LooksLike
  <2> QED
    BY <1>4, <1>5, <1>6, <2>1
<1>7. ASSUME NEW r \in Rank, NEW to, Goto(r, to), pc[r] \notin {"finalize", "quit", "ended"},
             to \notin {"finalize", "quit", "ended"}
      PROVE  Decided' <=> Decided
  BY <1>1, <1>2, <1>4, <1>7, DecidedIs DEF Over
<1>8. ASSUME Abstractly' = Abstractly, Decided' <=> Decided, saved' = saved PROVE UNCHANGED J!mpiJob
  <2>1. Decided' = Decided
    BY <1>8, DecidedIs
  <2> QED
    BY <1>2, <1>3, <1>8, <2>1 DEF J!mpiJob
<1>9. ASSUME Abstractly' = Abstractly, ~Decided, Decided', pc[0] \notin Dead \union {"ended"},
             \A r \in Rank : pc[r] # "ended"
      PROVE  J!Next
  <2>1. Abstractly[0] = "running" /\ \A r \in Rank : Abstractly[r] # "left"
    BY <1>1, <1>5, <1>9, LooksLike
  <2>2. J!Decide
    BY <1>2, <1>3, <1>9, <2>1, DecidedIs DEF J!Decide
  <2> QED
    BY <1>2, <2>2 DEF J!Next
<1>10. ASSUME NEW r \in Rank, GoesOn(r), saved' = saved PROVE UNCHANGED J!mpiJob
  <2>1. PICK to : Goto(r, to) /\ (Onward(pc[r], to) \/ (r # 0 /\ pc[r] = "gather" /\ to = "final"))
    BY <1>10 DEF GoesOn
  <2>2. /\ pc[r] \notin Dead \union {"finalize", "quit", "ended"}
        /\ to \notin Dead \union {"finalize", "quit", "ended"}
    BY <2>1 DEF Onward, Quietly, Dead
  <2>3. Abstractly' = Abstractly /\ (Decided' <=> Decided)
    BY <1>6, <1>7, <2>1, <2>2
  <2> QED
    BY <1>8, <1>10, <2>3
<1>11. ASSUME NEW r \in Rank, Dies(r), saved' = saved PROVE J!Next
  <2>1. PICK how \in Dead : Goto(r, how)
    BY <1>11 DEF Dies
  <2>2. how \notin {"finalize", "quit", "ended"} /\ Look(how) = "dead"
    BY LooksLike DEF Dead
  <2>3. /\ pc[r] \notin Dead \union {"ended"} /\ (Decided' <=> Decided)
        /\ \A q \in Rank : pc[q] # "ended"
    <3>1. CASE pc[r] \in Mortal
      <4>1. pc[r] \notin Dead \union {"finalize", "quit", "ended"} /\ \A q \in Rank : pc[q] # "ended"
        BY <3>1 DEF Mortal, Dead, Control, Leaving
      <4> QED
        BY <1>7, <2>1, <2>2, <4>1
    <3>2. CASE pc[r] \notin Mortal
      <4>1. pc[r] \notin Dead /\ \E q \in Rank : pc[q] \in Dead
        BY <1>11, <3>2 DEF Dies
      <4>2. \A q \in Rank : pc[q] \notin {"finalize", "ended"}
        BY <4>1 DEF Together
      <4>3. ~Decided
        BY <1>1, <4>1, <4>2, DecidedIs DEF Over, Dead
      <4>4. ~Decided'
        BY <1>1, <1>2, <1>4, <2>1, <2>2, <4>2, DecidedIs DEF Over
      <4> QED
        BY <4>1, <4>2, <4>3, <4>4
    <3> QED
      BY <3>1, <3>2
  <2>4. Abstractly[r] = "running" /\ \A q \in Rank : Abstractly[q] # "left"
    BY <1>5, <2>3, LooksLike
  <2>5. Abstractly' = [Abstractly EXCEPT ![r] = "dead"] /\ Decided' = Decided
    BY <1>4, <2>1, <2>2, <2>3, DecidedIs
  <2>6. J!Die(r)
    BY <1>2, <1>3, <1>11, <2>4, <2>5 DEF J!Die
  <2> QED
    BY <1>2, <2>6 DEF J!Next
<1>12. ASSUME NEW r \in Rank, GivesUp(r), saved' = saved PROVE [J!Next]_(J!mpiJob)
  <2>1. pc[r] = "setup" /\ Goto(r, "quit") /\ pc'[r] = "quit"
    BY <1>4, <1>12 DEF GivesUp
  <2>2. Abstractly' = Abstractly
    BY <1>6, <2>1 DEF Dead
  <2>3. \A q \in Rank : pc[q] # "ended"
    BY <2>1 DEF Control, Leaving, Dead
  <2>4. Decided => Decided'
    BY <1>1, <1>2, <1>4, <2>1, DecidedIs DEF Over
  <2>5. ~Decided /\ Decided' => pc[0] \notin Dead \union {"ended"}
    BY <1>1, <1>2, <1>4, <2>1, <2>3, DecidedIs DEF Over, Dead
  <2> QED
    BY <1>8, <1>9, <1>12, <2>2, <2>3, <2>4, <2>5
<1>13. ASSUME HasAll, saved' = saved PROVE UNCHANGED J!mpiJob
  <2>1. pc[0] = "gather" /\ Goto(0, "final")
    BY <1>13 DEF HasAll
  <2>2. Abstractly' = Abstractly /\ (Decided' <=> Decided)
    BY <1>1, <1>6, <1>7, <2>1 DEF Dead
  <2> QED
    BY <1>8, <1>13, <2>2
<1>14. ASSUME NEW r \in Rank, Times(r), saved' = saved PROVE UNCHANGED J!mpiJob
  <2>1. r # 0 /\ pc[r] = "final" /\ Goto(r, "finalize") /\ pc[0] \in {"finalize", "ended"}
    BY <1>14, StagesInOrder DEF Times
  <2>2. Abstractly' = Abstractly
    BY <1>6, <2>1 DEF Dead
  <2>3. Decided /\ Decided'
    BY <1>1, <1>4, <2>1, DecidedIs DEF Over
  <2> QED
    BY <1>8, <1>14, <2>2, <2>3
<1>15. ASSUME NEW r \in Rank, Finishes(r), saved' = saved PROVE J!Next
  <2>1. /\ pc[r] \in {"finalize", "quit"} /\ Goto(r, "ended")
        /\ \A q \in Rank : pc[q] \in {"finalize", "ended", "quit"}
    BY <1>15, StagesInOrder DEF Finishes
  <2>2. pc[0] = "quit" => \A q \in Rank : pc[q] \in {"quit", "ended"}
    BY <1>1, <2>1 DEF Control, Leaving, Dead
  <2>3. Decided /\ Decided'
    BY <1>1, <1>2, <1>4, <2>1, <2>2, DecidedIs DEF Over
  <2>4. Abstractly[r] = "running" /\ \A q \in Rank : Abstractly[q] # "dead"
    BY <1>5, <2>1, LooksLike DEF Dead
  <2>5. Abstractly' = [Abstractly EXCEPT ![r] = "left"]
    BY <1>4, <2>1, LooksLike
  <2>6. J!Leave(r)
    BY <1>2, <1>3, <1>15, <2>3, <2>4, <2>5, DecidedIs DEF J!Leave
  <2> QED
    BY <1>2, <2>6 DEF J!Next
<1>16. ASSUME Saves PROVE J!Next
  <2>1. pc[0] = "final" /\ Goto(0, "finalize") /\ pc'[0] = "finalize"
    BY <1>1, <1>4, <1>16 DEF Saves
  <2>2. Abstractly' = Abstractly
    BY <1>1, <1>6, <2>1 DEF Dead
  <2>3. \A q \in Rank : pc[q] # "ended"
    BY <1>1, <2>1 DEF Control, Leaving, Dead
  <2>4. ~Decided /\ Decided'
    BY <1>1, <2>1, DecidedIs DEF Over
  <2> QED
    BY <1>9, <2>1, <2>2, <2>3, <2>4 DEF Dead
<1>17. ASSUME pc' = pc, saved' = saved PROVE UNCHANGED J!mpiJob
  <2>1. Abstractly' = Abstractly
    BY <1>2, <1>17 DEF Abstractly
  <2>2. Decided' <=> Decided
    BY <1>2, <1>17, DecidedIs
  <2> QED
    BY <1>8, <1>17, <2>1, <2>2
<1> QED
  BY <1>10, <1>11, <1>12, <1>13, <1>14, <1>15, <1>16, <1>17, KindsOfSteps

(* The processes together are the job MpiJob describes: the image is       *)
(* written at most once and whole, a process leaves only when the job is   *)
(* decided, and nobody leaves a job somebody has died in                   *)
(* (ImplementsMpiJob).                                                     *)
THEOREM MpiJobRefinement == Spec /\ ~IsMedian => ImplementsMpiJob
<1>1. ASSUME Init PROVE J!Init
  <2>1. job \in Jobs /\ saved = None /\ faults = 0 /\ pc = [r \in Rank |-> "setup"]
    BY <1>1 DEF Init
  <2>2. 0 \in Rank
    BY <2>1, JobGeometry
  <2>3. ~Decided
    BY <2>1, <2>2, DecidedIs DEF Over
  <2>4. Abstractly = [r \in Rank |-> "running"]
    BY <2>1 DEF Abstractly, Dead
  <2>5. OnDisk = "nothing" /\ Lost = FALSE
    BY <2>1 DEF OnDisk, Lost
  <2> QED
    BY <2>2, <2>3, <2>4, <2>5, DecidedIs DEF J!Init
<1> DEFINE Inv == ~IsMedian /\ Together /\ Data
<1>2. Init /\ ~IsMedian => Inv
  BY TogetherInit, DataInit
<1>3. Control /\ Buffers /\ Inv /\ [Next]_vars => Inv'
  BY TogetherNext, DataNext, SameFilter
<1>4. Control /\ Inv /\ Inv' /\ [Next]_vars => [J!Next]_(J!mpiJob)
  BY JobStep
<1>5. Control /\ Buffers /\ [Next]_vars => Buffers'
  BY BuffersNext
<1> HIDE DEF Inv
<1> QED
  BY ControlHolds, BuffersInit, <1>1, <1>2, <1>3, <1>4, <1>5, PTL DEF Spec, J!Spec, ImplementsMpiJob
=============================================================================
