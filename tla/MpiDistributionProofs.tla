------------------------- MODULE MpiDistributionProofs -------------------------
(***************************************************************************)
(* What the row distribution of the MPI mode computes, for every image,    *)
(* every number of processes and every halo: the shares tile the image,    *)
(* the range rank 0 sends is the one a process works out for itself, and   *)
(* it holds every row the process will read.                               *)
(***************************************************************************)
EXTENDS MpiDistribution, SharedLemmas

LEMMA DivMod ==
  ASSUME NEW h \in Nat, NEW n \in Nat \ {0}
  PROVE  h \div n \in Nat /\ h % n \in 0 .. n - 1 /\ h = n * (h \div n) + (h % n)
  OBVIOUS

LEMMA TimesMonotone ==
  ASSUME NEW a \in Nat, NEW b \in Nat, NEW q \in Nat, a <= b
  PROVE  a * q \in Nat /\ b * q \in Nat /\ a * q <= b * q
  OBVIOUS

LEMMA TimesNext ==
  ASSUME NEW a \in Nat, NEW q \in Nat
  PROVE  a * q \in Nat /\ (a + 1) * q = a * q + q
  OBVIOUS

(* Counts are kept in bytes: rows come back unharmed.                      *)
LEMMA RowsOfBytes ==
  ASSUME NEW rows \in Nat, NEW stride \in Nat \ {0}
  PROVE  rows * stride \in Nat /\ (rows * stride) \div stride = rows
  OBVIOUS

-----------------------------------------------------------------------------
(* Where the share of a rank begins. *)
Start(rank, size, h) == rank * (h \div size) + (IF rank < h % size THEN rank ELSE h % size)

LEMMA Starts ==
  ASSUME NEW size \in Nat \ {0}, NEW h \in Nat
  PROVE  /\ \A r \in 0 .. size : Start(r, size, h) \in 0 .. h
         /\ Start(0, size, h) = 0 /\ Start(size, size, h) = h
         /\ \A r \in 0 .. size - 1 :
              /\ Start(r + 1, size, h) \in Nat
              /\ Start(r, size, h) <= Start(r + 1, size, h)
              /\ Share(r, size, h) = [start |-> Start(r, size, h), num |-> Start(r + 1, size, h) - Start(r, size, h)]
<1> DEFINE q == h \div size
           m == h % size
<1>1. q \in Nat /\ m \in 0 .. size - 1 /\ h = size * q + m
  BY DivMod
<1> HIDE DEF q, m
<1>2. ASSUME NEW r \in 0 .. size PROVE r * q \in Nat /\ r * q <= size * q
  BY <1>1, TimesMonotone
<1>3. \A r \in 0 .. size : Start(r, size, h) = r * q + (IF r < m THEN r ELSE m)
  BY DEF Start, q, m
<1>4. 0 * q = 0
  BY <1>1
<1>5. ASSUME NEW r \in 0 .. size - 1 PROVE r + 1 \in 0 .. size /\ r \in 0 .. size /\ (r + 1) * q = r * q + q
  BY <1>1, TimesNext
<1>6. \A r \in 0 .. size : Start(r, size, h) \in 0 .. h
  <2> SUFFICES ASSUME NEW r \in 0 .. size PROVE Start(r, size, h) \in 0 .. h
    OBVIOUS
  <2>1. r * q \in Nat /\ r * q <= size * q /\ size * q \in Nat
    BY <1>1, <1>2
  <2> QED
    BY <1>1, <1>3, <2>1
<1>7. Start(0, size, h) = 0 /\ Start(size, size, h) = h
  BY <1>1, <1>3, <1>4
<1>8. ASSUME NEW r \in 0 .. size - 1
      PROVE  /\ Start(r + 1, size, h) \in Nat
             /\ Start(r, size, h) <= Start(r + 1, size, h)
             /\ Share(r, size, h) = [start |-> Start(r, size, h), num |-> Start(r + 1, size, h) - Start(r, size, h)]
  <2>1. /\ Start(r, size, h) = r * q + (IF r < m THEN r ELSE m)
        /\ Start(r + 1, size, h) = r * q + q + (IF r + 1 < m THEN r + 1 ELSE m)
        /\ r * q \in Nat
    BY <1>2, <1>3, <1>5
  <2>2. Share(r, size, h) = [start |-> r * q + (IF r < m THEN r ELSE m), num |-> q + (IF r < m THEN 1 ELSE 0)]
    BY DEF Share, q, m
  <2>3. Start(r + 1, size, h) - Start(r, size, h) = q + (IF r < m THEN 1 ELSE 0)
    BY <1>1, <2>1
  <2> QED
    BY <1>1, <2>1, <2>2, <2>3
<1> QED
  BY <1>6, <1>7, <1>8

LEMMA StartsInOrder ==
  ASSUME NEW size \in Nat \ {0}, NEW h \in Nat, NEW a \in 0 .. size, NEW b \in 0 .. size, a <= b
  PROVE  Start(a, size, h) <= Start(b, size, h)
<1> DEFINE q == h \div size
           m == h % size
<1>1. q \in Nat /\ m \in 0 .. size - 1
  BY DivMod
<1> HIDE DEF q, m
<1>2. a * q \in Nat /\ b * q \in Nat /\ a * q <= b * q
  BY <1>1, TimesMonotone
<1>3. /\ Start(a, size, h) = a * q + (IF a < m THEN a ELSE m)
      /\ Start(b, size, h) = b * q + (IF b < m THEN b ELSE m)
  BY DEF Start, q, m
<1> QED
  BY <1>1, <1>2, <1>3

-----------------------------------------------------------------------------
Holds(range, y) == range.start <= y /\ y < range.start + range.num

(* The shares tile the image: every row is computed by one process, and by *)
(* no other, whether there are more rows than processes or fewer           *)
(* (mpi_calculate_row_distribution and _column_distribution).              *)
THEOREM SharesTile ==
  ASSUME NEW size \in Nat \ {0}, NEW h \in Nat
  PROVE  /\ \A y \in 0 .. h - 1 : \E r \in 0 .. size - 1 :
              /\ Holds(Share(r, size, h), y)
              /\ \A s \in 0 .. size - 1 : Holds(Share(s, size, h), y) => s = r
         /\ \A r \in 0 .. size - 1 : \A y \in Nat : Holds(Share(r, size, h), y) => y < h
<1> DEFINE S(r) == Start(r, size, h)
<1>1. /\ \A r \in 0 .. size : S(r) \in 0 .. h
      /\ S(0) = 0 /\ S(size) = h
  BY Starts
<1>2. ASSUME NEW r \in 0 .. size - 1, NEW y \in Nat
      PROVE  Holds(Share(r, size, h), y) <=> S(r) <= y /\ y < S(r + 1)
  <2>1. /\ r + 1 \in 0 .. size /\ r \in 0 .. size
        /\ Share(r, size, h) = [start |-> S(r), num |-> S(r + 1) - S(r)]
    BY Starts
  <2>2. S(r) \in 0 .. h /\ S(r + 1) \in 0 .. h
    BY <1>1, <2>1
  <2> HIDE DEF S
  <2> QED
    BY <2>1, <2>2 DEF Holds
<1>3. \A a, b \in 0 .. size : a <= b => S(a) <= S(b)
  BY StartsInOrder
<1> HIDE DEF S
<1>4. ASSUME NEW y \in 0 .. h - 1
      PROVE  \E r \in 0 .. size - 1 :
               /\ Holds(Share(r, size, h), y)
               /\ \A s \in 0 .. size - 1 : Holds(Share(s, size, h), y) => s = r
  <2> DEFINE After == {n \in 0 .. size : y < S(n)}
  <2>1. size \in After /\ After \subseteq Nat
    BY <1>1
  <2>2. PICK n \in After : \A k \in After : n <= k
    BY <2>1, Least
  <2>3. n \in 1 .. size /\ n - 1 \in 0 .. size - 1 /\ n - 1 \notin After
    BY <1>1, <2>2
  <2>4. S(n - 1) <= y /\ y < S(n)
    BY <1>1, <2>2, <2>3
  <2>5. Holds(Share(n - 1, size, h), y)
    BY <1>2, <2>3, <2>4
  <2>6. ASSUME NEW s \in 0 .. size - 1, Holds(Share(s, size, h), y) PROVE s = n - 1
    <3>1. S(s) <= y /\ y < S(s + 1) /\ s + 1 \in 0 .. size /\ s \in 0 .. size
      BY <1>2, <2>6
    <3>2. n <= s + 1
      BY <2>2, <3>1
    <3>3. ~(n <= s)
      BY <1>1, <1>3, <2>3, <2>4, <3>1
    <3> QED
      BY <2>3, <3>2, <3>3
  <2> QED
    BY <2>3, <2>5, <2>6
<1>5. ASSUME NEW r \in 0 .. size - 1, NEW y \in Nat, Holds(Share(r, size, h), y) PROVE y < h
  <2>1. y < S(r + 1) /\ r + 1 \in 0 .. size
    BY <1>2, <1>5
  <2> QED
    BY <1>1, <2>1
<1> QED
  BY <1>4, <1>5

LEMMA ShareInImage ==
  ASSUME NEW size \in Nat \ {0}, NEW h \in Nat, NEW r \in 0 .. size - 1
  PROVE  /\ Share(r, size, h) \in [start : Nat, num : Nat]
         /\ Share(r, size, h).start + Share(r, size, h).num <= h
<1>1. /\ Start(r, size, h) \in 0 .. h /\ Start(r + 1, size, h) \in 0 .. h
      /\ Start(r, size, h) <= Start(r + 1, size, h)
      /\ Share(r, size, h) = [start |-> Start(r, size, h), num |-> Start(r + 1, size, h) - Start(r, size, h)]
  <2>1. r + 1 \in 0 .. size /\ r \in 0 .. size
    OBVIOUS
  <2> QED
    BY <2>1, Starts
<1> QED
  BY <1>1

(* The two computations of what a process needs agree, and it is enough:   *)
(* the range sent lies in the image and holds every row of the image that  *)
(* is within the halo of a row of the share (mpi_verify_distribution_range *)
(* and mpi_setup_scatter_gather_row_arrays).                               *)
THEOREM HaloIsSent ==
  ASSUME NEW size \in Nat \ {0}, NEW h \in Nat, NEW halo \in Nat, NEW r \in 0 .. size - 1
  PROVE  /\ SendRange(r, size, halo, h) = WithHalo(Share(r, size, h), halo, h)
         /\ SendRange(r, size, halo, h) \in [start : Nat, num : Nat]
         /\ SendRange(r, size, halo, h).start + SendRange(r, size, halo, h).num <= h
         /\ \A y, i \in 0 .. h - 1 :
              Holds(Share(r, size, h), y) /\ y - halo <= i /\ i <= y + halo => Holds(SendRange(r, size, halo, h), i)
<1> DEFINE share == Share(r, size, h)
<1>1. share.start \in Nat /\ share.num \in Nat /\ share.start + share.num <= h
  BY ShareInImage
<1> HIDE DEF share
<1>2. /\ SendRange(r, size, halo, h) =
           LET first == IF share.start - halo < 0 THEN 0 ELSE share.start - halo
               after == IF share.start + share.num + halo > h THEN h ELSE share.start + share.num + halo
           IN  [start |-> first, num |-> after - first]
  BY DEF SendRange, share
<1>3. SendRange(r, size, halo, h) = WithHalo(share, halo, h)
  BY <1>1, <1>2 DEF WithHalo
<1>4. /\ SendRange(r, size, halo, h) \in [start : Nat, num : Nat]
      /\ SendRange(r, size, halo, h).start + SendRange(r, size, halo, h).num <= h
  BY <1>1, <1>2
<1>5. \A y, i \in 0 .. h - 1 :
        Holds(share, y) /\ y - halo <= i /\ i <= y + halo => Holds(SendRange(r, size, halo, h), i)
  BY <1>1, <1>2 DEF Holds
<1> QED
  BY <1>3, <1>4, <1>5 DEF share

SentAsNeeded(r, size, halo, h) ==
  /\ SendRange(r, size, halo, h) = WithHalo(Share(r, size, h), halo, h)
  /\ SendRange(r, size, halo, h).start \in Nat /\ SendRange(r, size, halo, h).num \in Nat

LEMMA RangeSent ==
  ASSUME NEW size \in Nat \ {0}, NEW h \in Nat, NEW halo \in Nat, NEW r \in 0 .. size - 1
  PROVE  SentAsNeeded(r, size, halo, h)
<1>1. SendRange(r, size, halo, h) \in [start : Nat, num : Nat]
  BY HaloIsSent
<1> QED
  BY <1>1, HaloIsSent DEF SentAsNeeded

(* The counts and displacements, back in rows; and the packed buffer.      *)
LEMMA Arrays ==
  ASSUME NEW size \in Nat \ {0}, NEW h \in Nat, NEW halo \in Nat, NEW stride \in Nat \ {0}, NEW r \in 0 .. size - 1
  PROVE  LET a == CommArrays(size, halo, h, stride)
         IN  /\ a.sendcounts[r] = SendRange(r, size, halo, h).num * stride
             /\ a.origdispls[r] = SendRange(r, size, halo, h).start * stride
             /\ a.recvcounts[r] = Share(r, size, h).num * stride
             /\ a.recvdispls[r] = Share(r, size, h).start * stride
             /\ a.sendcounts[r] \div stride = SendRange(r, size, halo, h).num
             /\ a.origdispls[r] \div stride = SendRange(r, size, halo, h).start
             /\ a.recvcounts[r] \div stride = Share(r, size, h).num
             /\ a.recvdispls[r] \div stride = Share(r, size, h).start
<1> DEFINE a == CommArrays(size, halo, h, stride)
<1>1. /\ a.sendcounts[r] = SendRange(r, size, halo, h).num * stride
      /\ a.origdispls[r] = SendRange(r, size, halo, h).start * stride
      /\ a.recvcounts[r] = Share(r, size, h).num * stride
      /\ a.recvdispls[r] = Share(r, size, h).start * stride
  BY DEF CommArrays
<1>2. /\ SendRange(r, size, halo, h).num \in Nat /\ SendRange(r, size, halo, h).start \in Nat
      /\ Share(r, size, h).num \in Nat /\ Share(r, size, h).start \in Nat
  BY HaloIsSent, ShareInImage
<1> HIDE DEF a
<1> QED
  BY <1>1, <1>2, RowsOfBytes DEF a
=============================================================================
