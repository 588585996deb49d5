---------------------------- MODULE ImgQueueProofs ----------------------------
(***************************************************************************)
(* Theorems about the ring buffer for every capacity, every memory limit,  *)
(* every number of producers and consumers and all image sizes: what its   *)
(* fields say is true, nobody is stranded, and it implements the bounded   *)
(* FIFO that the pipeline is composed of.                                  *)
(***************************************************************************)
EXTENDS ImgQueue, Sequences, SharedLemmas

-----------------------------------------------------------------------------
(* Load is a recursive function: f holds the sums of the first i estimates *)
(* of s, for each i up to n.                                               *)
Sums(f, s, n) == f = [i \in 0 .. n |-> IF i = 0 THEN 0 ELSE f[i - 1] + Mem[s[i]]]

LEMMA SumsExist ==
  ASSUME NEW s \in Seq(Img), NEW n \in 0 .. Len(s)
  PROVE  \E f : Sums(f, s, n)
<1> DEFINE T == {k \in 0 .. n : ~\E f : Sums(f, s, k)}
<1>0. n \in 0 .. n
  OBVIOUS
<1> SUFFICES ASSUME T # {} PROVE FALSE
  BY <1>0
<1>1. T \subseteq Nat
  OBVIOUS
<1>2. PICK m \in T : \A k \in T : m <= k
  BY <1>1, Least
<1>3. CASE m = 0
  <2>1. Sums([i \in 0 .. 0 |-> 0], s, 0)
    BY DEF Sums
  <2> QED
    BY <1>2, <1>3, <2>1
<1>4. CASE m # 0
  <2>1. m - 1 \in 0 .. n /\ m - 1 \notin T
    BY <1>2, <1>4
  <2>2. PICK g : Sums(g, s, m - 1)
    BY <2>1
  <2> DEFINE f == [i \in 0 .. m |-> IF i = m THEN g[m - 1] + Mem[s[m]] ELSE g[i]]
  <2>3. Sums(f, s, m)
    <3>1. \A i \in 0 .. m - 1 : g[i] = IF i = 0 THEN 0 ELSE g[i - 1] + Mem[s[i]]
      BY <1>1, <2>1, <2>2 DEF Sums
    <3>2. ASSUME NEW i \in 0 .. m PROVE f[i] = IF i = 0 THEN 0 ELSE f[i - 1] + Mem[s[i]]
      <4>1. m \in Nat /\ i \in Nat
        BY <1>1
      <4>2. CASE i = m
        BY <1>4, <4>1, <4>2
      <4>3. CASE i # m
        <5>1. i \in 0 .. m - 1 /\ (i # 0 => i - 1 \in 0 .. m - 1)
          BY <4>1, <4>3
        <5>2. f[i] = g[i] /\ (i # 0 => f[i - 1] = g[i - 1])
          BY <4>1, <4>3, <5>1
        <5> QED
          BY <3>1, <5>1, <5>2
      <4> QED
        BY <4>2, <4>3
    <3> HIDE DEF f
    <3>3. f = [i \in 0 .. m |-> f[i]]
      BY DEF f
    <3> QED
      BY <3>2, <3>3 DEF Sums
  <2> QED
    BY <1>2, <2>3
<1> QED
  BY <1>3, <1>4

(* Where two sequences agree, so do their sums. *)
LEMMA SumsAgree ==
  ASSUME NEW s, NEW t, NEW f, NEW g, NEW n \in Nat, NEW m \in Nat,
         Sums(f, s, n), Sums(g, t, m),
         NEW k \in Nat, k <= n, k <= m, \A i \in 1 .. k : s[i] = t[i]
  PROVE  f[k] = g[k]
<1> DEFINE T == {i \in 0 .. k : f[i] # g[i]}
<1> SUFFICES ASSUME T # {} PROVE FALSE
  OBVIOUS
<1>1. T \subseteq Nat
  OBVIOUS
<1>2. PICK j \in T : \A i \in T : j <= i
  BY <1>1, Least
<1>3. f[j] = (IF j = 0 THEN 0 ELSE f[j - 1] + Mem[s[j]])
  BY DEF Sums
<1>4. g[j] = (IF j = 0 THEN 0 ELSE g[j - 1] + Mem[t[j]])
  BY DEF Sums
<1>5. j # 0 => f[j - 1] = g[j - 1]
  BY <1>2
<1> QED
  BY <1>2, <1>3, <1>4, <1>5

LEMMA SumsNat ==
  ASSUME NEW s \in Seq(Img), NEW f, NEW n \in 0 .. Len(s), Sums(f, s, n), NEW k \in 0 .. n
  PROVE  f[k] \in Nat
<1> DEFINE T == {i \in 0 .. n : f[i] \notin Nat}
<1> SUFFICES ASSUME T # {} PROVE FALSE
  OBVIOUS
<1>1. T \subseteq Nat
  OBVIOUS
<1>2. PICK j \in T : \A i \in T : j <= i
  BY <1>1, Least
<1>3. f[j] = (IF j = 0 THEN 0 ELSE f[j - 1] + Mem[s[j]])
  BY DEF Sums
<1>4. j # 0 => f[j - 1] \in Nat /\ Mem[s[j]] \in Nat
  BY <1>2, QueueAssumption DEF QueueAssumption
<1> QED
  BY <1>2, <1>3, <1>4

LEMMA LoadSums ==
  ASSUME NEW s \in Seq(Img)
  PROVE  \E f : Sums(f, s, Len(s)) /\ Fifo!Load(s) = f[Len(s)]
<1>1. \E f : Sums(f, s, Len(s))
  BY SumsExist
<1> DEFINE h == CHOOSE f : f = [i \in 0 .. Len(s) |-> IF i = 0 THEN 0 ELSE f[i - 1] + Mem[s[i]]]
<1>2. Sums(h, s, Len(s))
  BY <1>1 DEF Sums
<1>3. Fifo!Load(s) = h[Len(s)]
  BY DEF Fifo!Load
<1> QED
  BY <1>2, <1>3

LEMMA LoadNat == ASSUME NEW s \in Seq(Img) PROVE Fifo!Load(s) \in Nat
  BY LoadSums, SumsNat

LEMMA LoadEmpty == Fifo!Load(<<>>) = 0
<1>1. <<>> \in Seq(Img) /\ Len(<<>>) = 0
  OBVIOUS
<1>2. PICK f : Sums(f, <<>>, 0) /\ Fifo!Load(<<>>) = f[0]
  BY <1>1, LoadSums
<1> QED
  BY <1>2 DEF Sums

LEMMA LoadAppend ==
  ASSUME NEW s \in Seq(Img), NEW x \in Img
  PROVE  Fifo!Load(Append(s, x)) = Fifo!Load(s) + Mem[x]
<1> DEFINE t == Append(s, x)
           n == Len(s)
<1>1. /\ t \in Seq(Img) /\ Len(t) = n + 1 /\ t[n + 1] = x /\ n \in Nat
      /\ \A i \in 1 .. n : t[i] = s[i]
  OBVIOUS
<1> HIDE DEF t
<1>2. PICK f : Sums(f, s, n) /\ Fifo!Load(s) = f[n]
  BY LoadSums
<1>3. PICK g : Sums(g, t, n + 1) /\ Fifo!Load(t) = g[n + 1]
  BY <1>1, LoadSums
<1>4. g[n] = f[n]
  BY <1>1, <1>2, <1>3, SumsAgree
<1>5. g[n + 1] = g[n] + Mem[x]
  BY <1>1, <1>3 DEF Sums
<1> QED
  BY <1>2, <1>3, <1>4, <1>5 DEF t

(* What is loaded without the oldest image, by undoing its push. *)
LEMMA LoadTail ==
  ASSUME NEW s \in Seq(Img), s # <<>>
  PROVE  Fifo!Load(s) = Mem[Head(s)] + Fifo!Load(Tail(s))
<1> DEFINE t == Tail(s)
           n == Len(t)
<1>1. /\ t \in Seq(Img) /\ n \in Nat /\ Len(s) = n + 1 /\ s[1] = Head(s)
      /\ \A i \in 1 .. n : t[i] = s[i + 1]
      /\ Head(s) \in Img /\ Mem[Head(s)] \in Nat
  BY QueueAssumption DEF QueueAssumption
<1> HIDE DEF t
<1>2. PICK f : Sums(f, s, n + 1) /\ Fifo!Load(s) = f[n + 1]
  BY <1>1, LoadSums
<1>3. PICK g : Sums(g, t, n) /\ Fifo!Load(t) = g[n]
  BY <1>1, LoadSums
<1> DEFINE T == {i \in 0 .. n : f[i + 1] # Mem[Head(s)] + g[i]}
<1>4. T = {}
  <2> SUFFICES ASSUME T # {} PROVE FALSE
    OBVIOUS
  <2>1. T \subseteq Nat
    BY <1>1
  <2>2. PICK j \in T : \A i \in T : j <= i
    BY <2>1, Least
  <2>3. j \in Nat /\ j \in 0 .. n /\ j + 1 \in 0 .. n + 1
    BY <1>1, <2>2
  <2>4. f[j + 1] = f[j] + Mem[s[j + 1]]
    BY <1>2, <2>3 DEF Sums
  <2>5. CASE j = 0
    <3>1. f[0] = 0 /\ g[0] = 0
      BY <1>1, <1>2, <1>3 DEF Sums
    <3> QED
      BY <1>1, <2>2, <2>4, <2>5, <3>1
  <2>6. CASE j # 0
    <3>1. j - 1 \in 0 .. n /\ j - 1 \notin T
      BY <1>1, <2>2, <2>3, <2>6
    <3>2. f[j] = Mem[Head(s)] + g[j - 1]
      BY <2>3, <3>1
    <3>3. g[j] = g[j - 1] + Mem[t[j]] /\ t[j] = s[j + 1]
      BY <1>1, <1>3, <2>3, <2>6, SMTT(30) DEF Sums
    <3>4. t[j] \in Img /\ Mem[t[j]] \in Nat
      BY <1>1, <2>3, <2>6, QueueAssumption, SMTT(30) DEF QueueAssumption
    <3>5. g[j - 1] \in Nat
      BY <1>1, <1>3, <3>1, SumsNat, SMTT(30)
    <3> QED
      BY <1>1, <2>2, <2>4, <3>2, <3>3, <3>4, <3>5
  <2> QED
    BY <2>5, <2>6
<1>5. f[n + 1] = Mem[Head(s)] + g[n]
  BY <1>1, <1>4
<1> QED
  BY <1>2, <1>3, <1>5 DEF t

-----------------------------------------------------------------------------
(* The slot i steps after slot f, around the ring. *)
At(f, i) == (f + i) % Capacity

LEMMA AtIs ==
  ASSUME NEW f \in Slot, NEW i \in 0 .. Capacity
  PROVE  At(f, i) = IF f + i < Capacity THEN f + i ELSE f + i - Capacity
  BY QueueAssumption DEF QueueAssumption, Slot, At

LEMMA AtFacts ==
  ASSUME NEW f \in Slot
  PROVE  /\ Capacity \in Nat \ {0} /\ f \in Nat /\ f < Capacity
         /\ \A i \in 0 .. Capacity : At(f, i) \in Slot
         /\ At(f, 0) = f /\ NextSlot(f) = At(f, 1) /\ NextSlot(f) \in Slot
         /\ \A i \in 0 .. Capacity - 1 : /\ NextSlot(At(f, i)) = At(f, i + 1)
                                         /\ At(NextSlot(f), i) = At(f, i + 1)
         /\ \A i, j \in 0 .. Capacity - 1 : At(f, i) = At(f, j) => i = j
<1>1. Capacity \in Nat \ {0} /\ f \in Nat /\ f < Capacity
  BY QueueAssumption DEF QueueAssumption, Slot
<1>2. \A g \in Slot, i \in 0 .. Capacity :
         At(g, i) = IF g + i < Capacity THEN g + i ELSE g + i - Capacity
  BY AtIs
<1>3. \A g \in Slot : NextSlot(g) = At(g, 1)
  BY DEF NextSlot, At
<1>4. \A g \in Slot, i \in 0 .. Capacity : At(g, i) \in Slot
  BY <1>1, <1>2 DEF Slot
<1>5. At(f, 0) = f /\ NextSlot(f) = At(f, 1) /\ NextSlot(f) \in Slot
  BY <1>1, <1>2, <1>3, <1>4 DEF Slot
<1>6. ASSUME NEW i \in 0 .. Capacity - 1
      PROVE  NextSlot(At(f, i)) = At(f, i + 1) /\ At(NextSlot(f), i) = At(f, i + 1)
  <2>1. i \in 0 .. Capacity /\ i + 1 \in 0 .. Capacity /\ 1 \in 0 .. Capacity
    BY <1>1
  <2>2. At(f, i) \in Slot
    BY <1>4, <2>1
  <2>3. NextSlot(At(f, i)) = At(At(f, i), 1)
    BY <1>3, <2>2
  <2>4. At(f, 1) \in Slot
    BY <1>4, <2>1
  <2>5. At(f, i) \in Nat /\ At(f, 1) \in Nat
    BY <1>1, <2>2, <2>4 DEF Slot
  <2> QED
    BY <1>1, <1>2, <1>5, <2>1, <2>2, <2>3, <2>4, <2>5
<1>7. \A i, j \in 0 .. Capacity - 1 : At(f, i) = At(f, j) => i = j
  BY <1>1, <1>2
<1> QED
  BY <1>1, <1>4, <1>5, <1>6, <1>7

(* RingConsistent, in these terms. *)
Used(f, n) == {At(f, i) : i \in 0 .. n - 1}

LEMMA RingIs ==
  TypeOK => ( RingConsistent <=>
                /\ rear = At(front, size)
                /\ \A s \in Slot : images[s] # NoImg <=> s \in Used(front, size) )
  BY DEF RingConsistent, At, Used

LEMMA UsedFacts ==
  ASSUME NEW f \in Slot, NEW n \in Nat, n <= Capacity
  PROVE  /\ n < Capacity => Used(f, n + 1) = Used(f, n) \union {At(f, n)} /\ At(f, n) \notin Used(f, n)
         /\ n > 0 => /\ f \in Used(f, n)
                     /\ Used(NextSlot(f), n - 1) = Used(f, n) \ {f}
                     /\ At(NextSlot(f), n - 1) = At(f, n)
         /\ Used(f, 0) = {}
<1>1. Capacity \in Nat \ {0} /\ At(f, 0) = f
  BY AtFacts
<1>2. ASSUME n < Capacity
      PROVE  Used(f, n + 1) = Used(f, n) \union {At(f, n)} /\ At(f, n) \notin Used(f, n)
  <2>1. Used(f, n + 1) = Used(f, n) \union {At(f, n)}
    BY DEF Used
  <2>2. At(f, n) \notin Used(f, n)
    BY <1>1, <1>2, AtFacts DEF Used
  <2> QED
    BY <2>1, <2>2
<1>3. ASSUME n > 0
      PROVE  /\ f \in Used(f, n)
             /\ Used(NextSlot(f), n - 1) = Used(f, n) \ {f}
             /\ At(NextSlot(f), n - 1) = At(f, n)
  <2>1. f \in Used(f, n)
    BY <1>1, <1>3 DEF Used
  <2>2. \A i \in 0 .. n - 1 : At(NextSlot(f), i) = At(f, i + 1)
    BY <1>1, AtFacts
  <2>3. \A i \in 1 .. n - 1 : At(f, i) # f
    BY <1>1, AtFacts
  <2>4. Used(NextSlot(f), n - 1) = {At(f, i + 1) : i \in 0 .. n - 2}
    BY <1>3, <2>2 DEF Used
  <2>5. {At(f, i + 1) : i \in 0 .. n - 2} = {At(f, i) : i \in 1 .. n - 1}
    <3>1. \A i \in 0 .. n - 2 : i + 1 \in 1 .. n - 1
      OBVIOUS
    <3>2. \A i \in 1 .. n - 1 : i - 1 \in 0 .. n - 2 /\ i = (i - 1) + 1
      OBVIOUS
    <3> QED
      BY <3>1, <3>2
  <2>6. {At(f, i) : i \in 1 .. n - 1} = Used(f, n) \ {f}
    <3>1. \A i \in 0 .. n - 1 : i = 0 \/ i \in 1 .. n - 1
      OBVIOUS
    <3> QED
      BY <1>1, <2>3, <3>1 DEF Used
  <2>7. n - 1 \in 0 .. n - 1
    BY <1>3
  <2> QED
    BY <2>1, <2>2, <2>4, <2>5, <2>6, <2>7
<1>4. Used(f, 0) = {}
  BY DEF Used
<1> QED
  BY <1>2, <1>3, <1>4

-----------------------------------------------------------------------------
(* Who sleeps is inside the call that sleeps; whom queue_pop sent away has *)
(* no image.                                                               *)
Sleepers ==
  /\ \A p \in nonFull : pushing[p] # NoImg
  /\ \A c \in nonEmpty : popped[c] = NoImg /\ c \notin returned
  /\ \A c \in returned : popped[c] = NoImg

(* Where the images are: to be pushed, being pushed, queued, popped or     *)
(* counted.  Together they are never more than the files.                  *)
Pushers == {p \in Producer : pushing[p] # NoImg}
Poppers == {c \in Consumer : popped[c] # NoImg}
Supply ==
  Cardinality(fresh) + Cardinality(Pushers) + size + Cardinality(Poppers) + written_files
    <= file_count

(* NULL is the end: nobody gets it before all files are written. *)
Counted == returned # {} => AllWritten

QueueInv == TypeOK /\ RingConsistent /\ Sleepers /\ Supply /\ Counted

LEMMA Finite ==
  /\ file_count \in Nat
  /\ IsFiniteSet(Pushers) /\ Cardinality(Pushers) \in Nat
  /\ IsFiniteSet(Poppers) /\ Cardinality(Poppers) \in Nat
  /\ TypeOK => IsFiniteSet(fresh) /\ Cardinality(fresh) \in Nat
  BY QueueAssumption, FS_Subset, FS_CardinalityType
     DEF QueueAssumption, file_count, Pushers, Poppers, TypeOK

LEMMA Images ==
  /\ NoImg \notin Img
  /\ \A x \in Img : Mem[x] \in Nat \ {0}
  /\ Producer \intersect Consumer = {}
  BY QueueAssumption DEF QueueAssumption

LEMMA Signals ==
  /\ signal_non_empty => nonEmpty' \subseteq nonEmpty
  /\ signal_non_full => nonFull' \subseteq nonFull
  BY DEF signal_non_empty, signal_non_full, Signalled

(* The oldest image is one. *)
LEMMA Oldest ==
  ASSUME TypeOK, RingConsistent, size > 0
  PROVE  images[front] \in Img
<1>1. front \in Slot /\ size \in Nat /\ size <= Capacity
  BY QueueAssumption DEF QueueAssumption, TypeOK
<1>2. front \in Used(front, size)
  BY <1>1, UsedFacts
<1> QED
  BY <1>1, <1>2, RingIs DEF TypeOK

LEMMA InitQueue == Init => QueueInv
<1> SUFFICES ASSUME Init PROVE QueueInv
  OBVIOUS
<1>1. Capacity \in Nat \ {0} /\ 0 \in Slot
  BY QueueAssumption DEF QueueAssumption, Slot
<1>2. TypeOK
  BY <1>1, Finite DEF Init, TypeOK
<1>3. RingConsistent
  BY <1>1, <1>2, RingIs, UsedFacts, AtFacts DEF Init
<1>4. Sleepers /\ Counted
  BY DEF Init, Sleepers, Counted
<1>5. Supply
  <2>1. Pushers = {} /\ Poppers = {} /\ fresh = Img /\ size = 0 /\ written_files = 0
    BY DEF Init, Pushers, Poppers
  <2>2. Cardinality({}) = 0
    BY FS_EmptySet
  <2> QED
    BY <2>1, <2>2, Finite DEF Supply, file_count
<1> QED
  BY <1>2, <1>3, <1>4, <1>5 DEF QueueInv

-----------------------------------------------------------------------------
LEMMA SupplyStep ==
  ASSUME QueueInv, [Next]_vars
  PROVE  Supply'
<1> USE Finite, Images DEF QueueInv, ring, client
<1>1. ASSUME NEW p \in Producer, CallPush(p)
      PROVE  Supply'
  <2>1. PICK x \in fresh : fresh' = fresh \ {x} /\ pushing' = [pushing EXCEPT ![p] = x]
    BY <1>1 DEF CallPush
  <2>2. p \notin Pushers /\ Pushers' = Pushers \union {p}
    BY <1>1, <2>1 DEF CallPush, Pushers, TypeOK
  <2>3. Cardinality(fresh') = Cardinality(fresh) - 1
    BY <2>1, FS_RemoveElement
  <2>4. Cardinality(Pushers') = Cardinality(Pushers) + 1
    BY <2>2, FS_AddElement
  <2>5. size' = size /\ Poppers' = Poppers /\ written_files' = written_files
    BY <1>1 DEF CallPush, Poppers
  <2> QED
    BY <2>3, <2>4, <2>5 DEF Supply, TypeOK, file_count
<1>2. ASSUME NEW p \in Producer, queue_push(p)
      PROVE  Supply'
  <2>1. p \in Pushers /\ Pushers' = Pushers \ {p}
    BY <1>2 DEF queue_push, AtPush, Pushers, TypeOK
  <2>2. Cardinality(Pushers') = Cardinality(Pushers) - 1
    BY <2>1, FS_RemoveElement
  <2>3. size' = size + 1 /\ Poppers' = Poppers /\ written_files' = written_files /\ fresh' = fresh
    BY <1>2 DEF queue_push, Poppers
  <2> QED
    BY <2>2, <2>3 DEF Supply, TypeOK, file_count
<1>3. ASSUME NEW c \in Consumer, queue_pop(c)
      PROVE  Supply'
  <2>1. c \notin Poppers /\ Poppers' = Poppers \union {c}
    BY <1>3, Oldest DEF queue_pop, AtPop, Poppers, TypeOK
  <2>2. Cardinality(Poppers') = Cardinality(Poppers) + 1
    BY <2>1, FS_AddElement
  <2>3. size' = size - 1 /\ Pushers' = Pushers /\ written_files' = written_files /\ fresh' = fresh
    BY <1>3 DEF queue_pop, Pushers
  <2> QED
    BY <2>2, <2>3 DEF Supply, TypeOK, file_count
<1>4. ASSUME NEW c \in Consumer, CountWritten(c)
      PROVE  Supply'
  <2>1. c \in Poppers /\ Poppers' = Poppers \ {c}
    BY <1>4 DEF CountWritten, Poppers, TypeOK
  <2>2. Cardinality(Poppers') = Cardinality(Poppers) - 1
    BY <2>1, FS_RemoveElement
  <2>3. size' = size /\ Pushers' = Pushers /\ written_files' = written_files + 1 /\ fresh' = fresh
    BY <1>4 DEF CountWritten, Pushers
  <2> QED
    BY <2>2, <2>3 DEF Supply, TypeOK, file_count
<1>5. CASE queue_destroy
  <2>1. /\ size' = 0 /\ Pushers' = Pushers /\ written_files' = written_files /\ fresh' = fresh
        /\ Poppers' = Poppers
    BY <1>5 DEF queue_destroy, Pushers, Poppers
  <2> QED
    BY <2>1 DEF Supply, TypeOK, file_count
<1>6. UNCHANGED <<size, client>> => Supply'
  BY DEF Supply, Pushers, Poppers, file_count
<1>7. ASSUME NEW c \in Consumer, pop_null(c) \/ pop_timeout(c)
      PROVE  Supply'
  BY <1>7 DEF pop_null, pop_timeout, Supply, Pushers, Poppers, file_count
<1> QED
  BY <1>1, <1>2, <1>3, <1>4, <1>5, <1>6, <1>7
     DEF Next, ProducerStep, ConsumerStep, push_wait, pop_wait, spurious_wake, Destroyed, vars

LEMMA RingStep ==
  ASSUME TypeOK, RingConsistent, TypeOK', [Next]_vars
  PROVE  RingConsistent'
<1> DEFINE Ring == /\ rear = At(front, size)
                   /\ \A s \in Slot : images[s] # NoImg <=> s \in Used(front, size)
<1>0. /\ front \in Slot /\ rear \in Slot /\ size \in Nat /\ size <= Capacity /\ Capacity \in Nat \ {0}
      /\ Ring
  BY RingIs, QueueAssumption DEF QueueAssumption, TypeOK
<1> SUFFICES Ring'
  BY RingIs, PTL
<1>1. ASSUME NEW p \in Producer, queue_push(p)
      PROVE  Ring'
  <2>1. /\ images' = [images EXCEPT ![rear] = pushing[p]] /\ pushing[p] \in Img
        /\ rear' = NextSlot(rear) /\ size' = size + 1 /\ front' = front /\ size < Capacity
    BY <1>0, <1>1 DEF queue_push, AtPush, TypeOK, is_arr_limit
  <2>2. At(front, size + 1) = NextSlot(rear)
    <3>1. size \in 0 .. Capacity - 1
      BY <1>0, <2>1
    <3>2. \A i \in 0 .. Capacity - 1 : NextSlot(At(front, i)) = At(front, i + 1)
      BY <1>0, AtFacts
    <3> QED
      BY <1>0, <3>1, <3>2
  <2>3. Used(front, size + 1) = Used(front, size) \union {rear}
    BY <1>0, <2>1, UsedFacts
  <2>4. \A s \in Slot : images'[s] # NoImg <=> s \in Used(front, size) \union {rear}
    BY <1>0, <2>1, Images DEF TypeOK
  <2> QED
    BY <2>1, <2>2, <2>3, <2>4
<1>2. ASSUME NEW c \in Consumer, queue_pop(c)
      PROVE  Ring'
  <2>1. /\ images' = [images EXCEPT ![front] = NoImg]
        /\ front' = NextSlot(front) /\ size' = size - 1 /\ rear' = rear /\ size > 0
    BY <1>2 DEF queue_pop
  <2>2. /\ Used(NextSlot(front), size - 1) = Used(front, size) \ {front}
        /\ At(NextSlot(front), size - 1) = At(front, size)
    BY <1>0, <2>1, UsedFacts
  <2>3. \A s \in Slot : images'[s] # NoImg <=> s \in Used(front, size) \ {front}
    BY <1>0, <2>1 DEF TypeOK
  <2> QED
    BY <1>0, <2>1, <2>2, <2>3
<1>3. CASE queue_destroy
  <2>1. images' = [s \in Slot |-> NoImg] /\ front' = At(front, size) /\ size' = 0 /\ rear' = rear
    BY <1>3 DEF queue_destroy, At
  <2>2. At(rear, 0) = rear /\ Used(rear, 0) = {}
    BY <1>0, AtFacts, UsedFacts
  <2> QED
    BY <1>0, <2>1, <2>2
<1>4. UNCHANGED ring => Ring'
  BY <1>0 DEF ring
<1> QED
  BY <1>1, <1>2, <1>3, <1>4
     DEF Next, ProducerStep, ConsumerStep, CallPush, push_wait, pop_null, pop_wait, pop_timeout,
         CountWritten, spurious_wake, Destroyed, vars, ring

LEMMA TypeStep ==
  ASSUME QueueInv, [Next]_vars, Supply'
  PROVE  TypeOK'
<1> USE Images DEF QueueInv, TypeOK
<1>0. written_files' \in Nat => written_files' \in 0 .. file_count
  <2>1. /\ fresh' \subseteq Img => Cardinality(fresh') \in Nat
        /\ Cardinality(Pushers') \in Nat /\ Cardinality(Poppers') \in Nat
        /\ file_count' = file_count /\ file_count \in Nat
    BY QueueAssumption, FS_Subset, FS_CardinalityType
       DEF QueueAssumption, Pushers, Poppers, file_count
  <2>2. fresh' \subseteq fresh
    BY DEF Next, ProducerStep, ConsumerStep, CallPush, queue_push, push_wait, queue_pop, pop_null,
       pop_wait, pop_timeout, CountWritten, spurious_wake, queue_destroy, Destroyed, vars, client
  <2>3. size' \in Nat
    BY QueueAssumption
       DEF QueueAssumption, Next, ProducerStep, ConsumerStep, CallPush, queue_push, push_wait,
       queue_pop, pop_null, pop_wait, pop_timeout, CountWritten, spurious_wake, queue_destroy,
       Destroyed, vars, ring, client
  <2> QED
    BY <2>1, <2>2, <2>3 DEF Supply
<1>1. ASSUME NEW p \in Producer, CallPush(p)
      PROVE  TypeOK'
  BY <1>1 DEF CallPush, ring
<1>2. ASSUME NEW p \in Producer, queue_push(p)
      PROVE  TypeOK'
  <2>1. pushing[p] \in Img /\ size' \in 0 .. Capacity /\ rear' \in Slot
    BY <1>2, AtFacts, QueueAssumption DEF QueueAssumption, queue_push, AtPush, is_arr_limit
  <2> QED
    BY <1>2, <2>1, Signals DEF queue_push
<1>3. ASSUME NEW p \in Producer, push_wait(p)
      PROVE  TypeOK'
  BY <1>3 DEF push_wait, ring, client
<1>4. ASSUME NEW c \in Consumer, queue_pop(c)
      PROVE  TypeOK'
  <2>1. images[front] \in Img /\ size' \in 0 .. Capacity /\ front' \in Slot
    BY <1>4, Oldest, AtFacts, QueueAssumption DEF QueueAssumption, queue_pop
  <2>2. current_mem_usage' \in Nat
    BY <1>4, <2>1 DEF queue_pop, UsageWithout
  <2> QED
    BY <1>4, <2>1, <2>2, Signals DEF queue_pop
<1>5. ASSUME NEW c \in Consumer, pop_null(c) \/ pop_wait(c) \/ pop_timeout(c)
      PROVE  TypeOK'
  BY <1>5 DEF pop_null, pop_wait, pop_timeout, ring, client
<1>6. ASSUME NEW c \in Consumer, CountWritten(c)
      PROVE  TypeOK'
  <2>1. written_files' \in 0 .. file_count
    BY <1>0, <1>6 DEF CountWritten
  <2> QED
    BY <1>6, <2>1 DEF CountWritten, ring, file_count
<1>7. ASSUME NEW t, spurious_wake(t)
      PROVE  TypeOK'
  BY <1>7 DEF spurious_wake, ring, client
<1>8. CASE queue_destroy
  <2>1. front' = At(front, size) /\ At(front, size) \in Slot
    BY <1>8, AtFacts DEF queue_destroy, At
  <2>2. 0 \in 0 .. Capacity
    BY QueueAssumption DEF QueueAssumption
  <2> QED
    BY <1>8, <2>1, <2>2 DEF queue_destroy, client
<1>9. CASE UNCHANGED vars
  BY <1>9 DEF vars, ring, client
<1> QED
  BY <1>1, <1>2, <1>3, <1>4, <1>5, <1>6, <1>7, <1>8, <1>9
     DEF Next, ProducerStep, ConsumerStep, Destroyed

LEMMA SleepersStep ==
  ASSUME QueueInv, [Next]_vars
  PROVE  Sleepers' /\ Counted'
<1> USE Images DEF QueueInv, TypeOK, Sleepers, Counted, AllWritten, file_count, ring, client
<1>1. ASSUME NEW p \in Producer, CallPush(p) \/ push_wait(p)
      PROVE  Sleepers' /\ Counted'
  BY <1>1 DEF CallPush, push_wait, AtPush
<1>2. ASSUME NEW p \in Producer, queue_push(p)
      PROVE  Sleepers' /\ Counted'
  BY <1>2, Signals DEF queue_push, AtPush
<1>3. ASSUME NEW c \in Consumer, queue_pop(c)
      PROVE  Sleepers' /\ Counted'
  BY <1>3, Signals DEF queue_pop, AtPop
<1>4. ASSUME NEW c \in Consumer, pop_null(c) \/ pop_wait(c) \/ pop_timeout(c)
      PROVE  Sleepers' /\ Counted'
  BY <1>4 DEF pop_null, pop_wait, pop_timeout, AtPop
<1>5. ASSUME NEW c \in Consumer, CountWritten(c)
      PROVE  Sleepers' /\ Counted'
  BY <1>5, Finite DEF CountWritten
<1>6. CASE queue_destroy \/ (\E t \in Producer \union Consumer : spurious_wake(t)) \/ UNCHANGED vars
  BY <1>6 DEF queue_destroy, spurious_wake, vars
<1> QED
  BY <1>1, <1>2, <1>3, <1>4, <1>5, <1>6 DEF Next, ProducerStep, ConsumerStep, Destroyed

LEMMA QueueStep == QueueInv /\ [Next]_vars => QueueInv'
  BY SupplyStep, TypeStep, RingStep, SleepersStep DEF QueueInv

LEMMA SpecQueue == Spec => []QueueInv
  BY InitQueue, QueueStep, PTL DEF Spec

(* Every field of the queue keeps its range: size never wraps below zero   *)
(* or exceeds the capacity, the indices stay inside the ring, and no file  *)
(* is counted twice.                                                       *)
THEOREM QueueTypes == Spec => []TypeOK
  BY SpecQueue, PTL DEF QueueInv

(* For every capacity and every number of threads, the slots in use are    *)
(* the size slots from front on: queue_pop never follows the pointer of a  *)
(* freed slot, queue_push never overwrites a queued image.                 *)
THEOREM RingNeverTears == Spec => []RingConsistent
  BY SpecQueue, PTL DEF QueueInv

(* queue_pop returns NULL only when there is nothing left anywhere: in the *)
(* queue, with a producer, with another consumer.                          *)
THEOREM NullIsTheEnd == Spec => []NullMeansDone
<1>1. ASSUME QueueInv PROVE NullMeansDone
  <2> SUFFICES ASSUME returned # {}
               PROVE  size = 0 /\ fresh = {} /\ Pushers = {} /\ Poppers = {}
    BY DEF NullMeansDone, Pushers, Poppers
  <2>1. /\ Cardinality(fresh) = 0 /\ Cardinality(Pushers) = 0
        /\ Cardinality(Poppers) = 0 /\ size = 0
    BY <1>1, Finite DEF QueueInv, Supply, Counted, AllWritten, TypeOK
  <2> QED
    BY <1>1, <2>1, Finite, FS_EmptySet DEF QueueInv
<1> QED
  BY <1>1, SpecQueue, PTL

-----------------------------------------------------------------------------
(* The queue as its callers see it. *)
ImageAt(i) == images[At(front, i - 1)]

LEMMA ItemsAre == Items = [i \in 1 .. size |-> ImageAt(i)]
<1> SUFFICES Items = [i \in 1 .. size |-> images[(front + (i - 1)) % Capacity]]
  BY DEF ImageAt, At
<1> QED
  BY DEF Items

LEMMA ItemsType ==
  TypeOK /\ RingConsistent => Items \in Seq(Img) /\ Len(Items) = size /\ size \in Nat
<1> SUFFICES ASSUME TypeOK, RingConsistent
             PROVE  Items \in Seq(Img) /\ Len(Items) = size /\ size \in Nat
  OBVIOUS
<1>1. size \in Nat /\ size <= Capacity /\ front \in Slot
  BY QueueAssumption DEF QueueAssumption, TypeOK
<1>2. ASSUME NEW i \in 1 .. size PROVE ImageAt(i) \in Img
  <2>1. i - 1 \in 0 .. size - 1 /\ i - 1 \in 0 .. Capacity
    BY <1>1, QueueAssumption DEF QueueAssumption
  <2>2. At(front, i - 1) \in Used(front, size) /\ At(front, i - 1) \in Slot
    BY <1>1, <2>1, AtFacts DEF Used
  <2> QED
    BY <2>2, RingIs DEF ImageAt, TypeOK
<1>3. [i \in 1 .. size |-> ImageAt(i)] \in Seq(Img)
  BY <1>1, <1>2
<1> QED
  BY <1>1, <1>3, ItemsAre

LEMMA ItemsEmpty == TypeOK /\ RingConsistent => (Items = <<>> <=> size = 0)
<1> SUFFICES ASSUME TypeOK, RingConsistent PROVE Items = <<>> <=> size = 0
  OBVIOUS
<1> QED
  BY ItemsType

LEMMA ItemsSame == UNCHANGED <<images, front, size>> => Items' = Items
  BY DEF Items

LEMMA SeqIs == ASSUME NEW S, NEW s \in Seq(S) PROVE s = [i \in 1 .. Len(s) |-> s[i]]
  OBVIOUS

(* The slots in use are different ones. *)
LEMMA SlotsDiffer ==
  ASSUME NEW f \in Slot
  PROVE  /\ \A i, j \in 0 .. Capacity - 1 : At(f, i) = At(f, j) => i = j
         /\ \A i \in 0 .. Capacity - 1 : At(f, i) \in Slot
         /\ \A i \in 0 .. Capacity - 1 : At(NextSlot(f), i) = At(f, i + 1)
         /\ At(f, 0) = f
<1>1. \A i \in 0 .. Capacity - 1 : i \in 0 .. Capacity
  BY AtFacts
<1>2. \A i \in 0 .. Capacity : At(f, i) \in Slot
  BY AtFacts
<1>3. \A i \in 0 .. Capacity - 1 : At(f, i) \in Slot
  BY <1>1, <1>2
<1>4. \A i \in 0 .. Capacity - 1 : At(NextSlot(f), i) = At(f, i + 1)
  BY AtFacts
<1>5. At(f, 0) = f /\ \A i, j \in 0 .. Capacity - 1 : At(f, i) = At(f, j) => i = j
  BY AtFacts
<1> QED
  BY <1>3, <1>4, <1>5

(* queue_push appends its image, whichever slot it goes to. *)
LEMMA ItemsPush ==
  ASSUME TypeOK, RingConsistent, NEW p \in Producer, queue_push(p)
  PROVE  Items' = Append(Items, pushing[p]) /\ pushing[p] \in Img
<1> DEFINE x == pushing[p]
<1>1. /\ images' = [images EXCEPT ![rear] = x] /\ x \in Img /\ size < Capacity
      /\ size' = size + 1 /\ front' = front /\ front \in Slot /\ rear \in Slot /\ size \in Nat
      /\ rear = At(front, size) /\ Capacity \in Nat
  BY RingIs, QueueAssumption
     DEF QueueAssumption, queue_push, AtPush, TypeOK, is_arr_limit
<1> HIDE DEF x
<1>2. \A i \in 1 .. size : At(front, i - 1) # rear /\ At(front, i - 1) \in Slot
  <2>1. \A i \in 1 .. size : i - 1 \in 0 .. Capacity - 1 /\ i - 1 # size
    BY <1>1
  <2>2. size \in 0 .. Capacity - 1
    BY <1>1
  <2> QED
    BY <1>1, <2>1, <2>2, SlotsDiffer
<1>3. \A i \in 1 .. size : ImageAt(i)' = ImageAt(i)
  BY <1>1, <1>2 DEF ImageAt, TypeOK
<1>4. ASSUME NEW i \in 1 .. size + 1 PROVE ImageAt(i)' = Append(Items, x)[i]
  <2>1. CASE i \in 1 .. size
    <3>1. Append(Items, x)[i] = Items[i]
      BY <2>1, ItemsType
    <3> QED
      BY <1>3, <2>1, <3>1, ItemsAre
  <2>2. CASE i = size + 1
    <3>1. Append(Items, x)[i] = x
      BY <2>2, ItemsType
    <3>2. ImageAt(i)' = images'[At(front, size)]
      BY <1>1, <2>2 DEF ImageAt
    <3> QED
      BY <1>1, <3>1, <3>2 DEF TypeOK
  <2>3. i \in 1 .. size \/ i = size + 1
    BY <1>1
  <2> QED
    BY <2>1, <2>2, <2>3
<1>5. Append(Items, x) = [i \in 1 .. size + 1 |-> Append(Items, x)[i]]
  <2>1. Append(Items, x) \in Seq(Img) /\ Len(Append(Items, x)) = size + 1
    BY <1>1, ItemsType
  <2> QED
    BY <2>1, SeqIs
<1>6. Items' = [i \in 1 .. size + 1 |-> ImageAt(i)']
  <2>1. (Items = [i \in 1 .. size |-> ImageAt(i)])'
    BY ItemsAre, PTL
  <2> QED
    BY <1>1, <2>1
<1>7. Items' = [i \in 1 .. size + 1 |-> Append(Items, x)[i]]
  BY <1>4, <1>6
<1> QED
  BY <1>1, <1>5, <1>7 DEF x

(* queue_pop takes the oldest image and leaves the others in their order.  *)
LEMMA ItemsPop ==
  ASSUME TypeOK, RingConsistent, NEW c \in Consumer, queue_pop(c)
  PROVE  /\ Items # <<>> /\ Head(Items) = images[front] /\ images[front] \in Img
         /\ Items' = Tail(Items)
<1>1. /\ images' = [images EXCEPT ![front] = NoImg] /\ size > 0 /\ size <= Capacity
      /\ size' = size - 1 /\ front' = NextSlot(front) /\ front \in Slot /\ size \in Nat
      /\ Capacity \in Nat /\ images[front] \in Img
  BY Oldest, QueueAssumption DEF QueueAssumption, queue_pop, TypeOK
<1>2. /\ \A i \in 1 .. size - 1 : /\ At(NextSlot(front), i - 1) = At(front, i)
                                  /\ At(front, i) # front /\ At(front, i) \in Slot
      /\ At(front, 0) = front
  <2>1. \A i \in 1 .. size - 1 : /\ i - 1 \in 0 .. Capacity - 1 /\ i \in 0 .. Capacity - 1
                                 /\ i # 0 /\ (i - 1) + 1 = i
    BY <1>1
  <2>2. 0 \in 0 .. Capacity - 1
    BY <1>1
  <2>3. At(front, 0) = front
    BY <1>1, SlotsDiffer
  <2>4. ASSUME NEW i \in 1 .. size - 1
        PROVE  /\ At(NextSlot(front), i - 1) = At(front, i)
               /\ At(front, i) # front /\ At(front, i) \in Slot
    BY <1>1, <2>1, <2>2, <2>3, SlotsDiffer
  <2> QED
    BY <2>3, <2>4
<1>3. \A i \in 1 .. size - 1 : ImageAt(i)' = images[At(front, i)]
  BY <1>1, <1>2 DEF ImageAt, TypeOK
<1>4. /\ Items \in Seq(Img) /\ Len(Items) = size
      /\ \A i \in 1 .. size : Items[i] = images[At(front, i - 1)]
  BY ItemsType, ItemsAre DEF ImageAt
<1>5. /\ Len(Tail(Items)) = size - 1 /\ Tail(Items) \in Seq(Img)
      /\ \A i \in 1 .. size - 1 : Tail(Items)[i] = Items[i + 1]
      /\ Head(Items) = Items[1] /\ Items # <<>>
  BY <1>1, <1>4
<1>6. \A i \in 1 .. size - 1 : ImageAt(i)' = Tail(Items)[i]
  <2>1. \A i \in 1 .. size - 1 : i + 1 \in 1 .. size /\ (i + 1) - 1 = i
    BY <1>1
  <2> QED
    BY <1>3, <1>4, <1>5, <2>1
<1>7. Items' = [i \in 1 .. size - 1 |-> ImageAt(i)']
  <2>1. (Items = [i \in 1 .. size |-> ImageAt(i)])'
    BY ItemsAre, PTL
  <2> QED
    BY <1>1, <2>1
<1>8. Items' = [i \in 1 .. size - 1 |-> Tail(Items)[i]]
  BY <1>6, <1>7
<1>9. Tail(Items) = [i \in 1 .. size - 1 |-> Tail(Items)[i]]
  BY <1>5, SeqIs
<1>10. Head(Items) = images[front]
  <2>1. 1 \in 1 .. size /\ 1 - 1 = 0
    BY <1>1
  <2> QED
    BY <1>2, <1>4, <1>5, <2>1
<1> QED
  BY <1>1, <1>5, <1>8, <1>9, <1>10

(* The steps that leave what is queued, and who sleeps, alone. *)
Rings == UNCHANGED <<Items, size, current_mem_usage>>

LEMMA RingsIdle == UNCHANGED ring => Rings
  BY ItemsSame DEF Rings, ring

(* When main destroys the queue, all consumers got NULL: it is empty.      *)
LEMMA DestroyEmpty ==
  ASSUME QueueInv, queue_destroy
  PROVE  size = 0 /\ size' = 0 /\ Items = <<>> /\ Items' = <<>>
<1>1. returned # {}
  BY QueueAssumption DEF QueueAssumption, queue_destroy
<1>2. size = 0
  BY <1>1, Finite DEF QueueInv, Supply, Counted, AllWritten, TypeOK
<1>3. size' = 0
  BY DEF queue_destroy
<1>4. Items = <<>> /\ Items' = <<>>
  BY <1>2, <1>3 DEF Items
<1> QED
  BY <1>2, <1>3, <1>4

LEMMA MemStep ==
  ASSUME QueueInv, MemAccounting, [Next]_vars
  PROVE  MemAccounting'
<1> USE DEF QueueInv
<1>1. ASSUME NEW p \in Producer, queue_push(p)
      PROVE  MemAccounting'
  <2>1. Items' = Append(Items, pushing[p]) /\ pushing[p] \in Img
    BY <1>1, ItemsPush
  <2>2. Fifo!Load(Items') = Fifo!Load(Items) + Mem[pushing[p]]
    BY <2>1, ItemsType, LoadAppend
  <2>3. /\ current_mem_usage' = current_mem_usage + Mem[pushing[p]] /\ size' = size + 1
        /\ ~(current_mem_usage + Mem[pushing[p]] > MaxMem /\ size > 0)
    BY <1>1 DEF queue_push, is_mem_limit
  <2>4. size \in Nat
    BY ItemsType
  <2> QED
    BY <2>2, <2>3, <2>4 DEF MemAccounting
<1>2. ASSUME NEW c \in Consumer, queue_pop(c)
      PROVE  MemAccounting'
  <2>1. /\ Items # <<>> /\ Head(Items) = images[front] /\ images[front] \in Img
        /\ Items' = Tail(Items)
    BY <1>2, ItemsPop
  <2>2. Items \in Seq(Img) /\ Len(Items) = size /\ Items' \in Seq(Img) /\ Len(Items') = size - 1
    BY <2>1, ItemsType
  <2>3. Fifo!Load(Items) = Mem[images[front]] + Fifo!Load(Items')
    BY <2>1, <2>2, LoadTail
  <2>4. Fifo!Load(Items') \in Nat /\ Mem[images[front]] \in Nat
    BY <2>1, <2>2, LoadNat, Images
  <2>5. current_mem_usage' = Fifo!Load(Items') /\ size' = size - 1
    BY <1>2, <2>3, <2>4 DEF queue_pop, UsageWithout, MemAccounting
  <2>6. size = 1 => Fifo!Load(Items') = 0
    <3>1. size = 1 => Items' = <<>>
      BY <2>2
    <3> QED
      BY <3>1, LoadEmpty
  <2>7. current_mem_usage > MaxMem => size = 1
    BY DEF MemAccounting
  <2> QED
    BY <2>3, <2>4, <2>5, <2>6, <2>7, QueueAssumption DEF QueueAssumption, MemAccounting
<1>3. CASE queue_destroy
  BY <1>3, DestroyEmpty, LoadEmpty, QueueAssumption DEF QueueAssumption, MemAccounting, queue_destroy
<1>4. Rings => MemAccounting'
  <2> HAVE Rings
  <2>1. Fifo!Load(Items)' = Fifo!Load(Items)
    BY DEF Rings, Fifo!Load
  <2> QED
    BY <2>1 DEF MemAccounting, Rings
<1> QED
  BY <1>1, <1>2, <1>3, <1>4, RingsIdle
     DEF Next, ProducerStep, ConsumerStep, CallPush, push_wait, pop_null, pop_wait, pop_timeout,
         CountWritten, spurious_wake, Destroyed, vars

LEMMA SpecMem == Spec => [](QueueInv /\ MemAccounting)
<1>1. Init => MemAccounting
  <2> SUFFICES ASSUME Init PROVE MemAccounting
    OBVIOUS
  <2>1. Items = <<>>
    BY InitQueue, ItemsEmpty DEF Init, QueueInv
  <2> QED
    BY <2>1, LoadEmpty, QueueAssumption DEF Init, MemAccounting, QueueAssumption
<1> QED
  BY <1>1, SpecQueue, MemStep, PTL DEF Spec

(* current_mem_usage is exactly what the queued images are estimated to    *)
(* take: the saturating subtraction of queue_pop never saturates, and only *)
(* a single oversized image takes the usage over max_mem_usage.            *)
THEOREM MemoryIsAccounted == Spec => []MemAccounting
  BY SpecMem, PTL

-----------------------------------------------------------------------------
(* However many producers sleep on a full queue, one signal per queue_pop  *)
(* is enough: there is an image whose pop will signal again, or one of     *)
(* them is awake.                                                          *)
THEOREM ProducersNotStranded == Spec => []NoStrandedProducer
<1>1. Init => NoStrandedProducer
  BY DEF Init, NoStrandedProducer
<1>2. ASSUME QueueInv, QueueInv', NoStrandedProducer, [Next]_vars PROVE NoStrandedProducer'
  <2> USE <1>2 DEF QueueInv, TypeOK, NoStrandedProducer, AwakeProducers, AtPush, Sleepers, ring, client
  <2>1. ASSUME NEW p \in Producer, queue_push(p)
        PROVE  NoStrandedProducer'
    BY <2>1 DEF queue_push
  <2>2. ASSUME NEW p \in Producer, push_wait(p)
        PROVE  NoStrandedProducer'
    BY <2>2, QueueAssumption DEF QueueAssumption, push_wait, is_mem_limit, is_arr_limit
  <2>3. ASSUME NEW p \in Producer, CallPush(p)
        PROVE  NoStrandedProducer'
    <3>1. PICK x \in fresh : pushing' = [pushing EXCEPT ![p] = x]
      BY <2>3 DEF CallPush
    <3> QED
      BY <2>3, <3>1, Images DEF CallPush
  <2>4. ASSUME NEW c \in Consumer, queue_pop(c)
        PROVE  NoStrandedProducer'
    <3>1. pushing' = pushing /\ nonFull # {} => \E t \in nonFull : nonFull' = nonFull \ {t}
      BY <2>4 DEF queue_pop, signal_non_full, Signalled
    <3>2. pushing' = pushing /\ nonFull' \subseteq nonFull
      BY <2>4, Signals DEF queue_pop
    <3> QED
      BY <3>1, <3>2
  <2>5. ASSUME NEW c \in Consumer,
               pop_null(c) \/ pop_wait(c) \/ pop_timeout(c) \/ CountWritten(c)
        PROVE  NoStrandedProducer'
    BY <2>5 DEF pop_null, pop_wait, pop_timeout, CountWritten
  <2>6. CASE queue_destroy
    BY <2>6 DEF queue_destroy
  <2>7. ASSUME NEW t \in Producer \union Consumer, spurious_wake(t)
        PROVE  NoStrandedProducer'
    BY <2>7 DEF spurious_wake
  <2>8. CASE UNCHANGED vars
    BY <2>8 DEF vars
  <2> QED
    BY <2>1, <2>2, <2>3, <2>4, <2>5, <2>6, <2>7, <2>8
       DEF Next, ProducerStep, ConsumerStep, Destroyed
<1> QED
  BY <1>1, <1>2, SpecQueue, QueueStep, PTL DEF Spec

(* The consumers: one of the four steps of SharedLemmas. *)
Wakeups ==
  \/ Harmless(size, size', nonEmpty, nonEmpty', AwakeConsumers, AwakeConsumers')
  \/ PushesOne(size, size', nonEmpty, nonEmpty', AwakeConsumers, AwakeConsumers')
  \/ PopsOne(size, size', nonEmpty, nonEmpty', AwakeConsumers, AwakeConsumers')
  \/ Emptied(size')

LEMMA WakeupsStep ==
  ASSUME QueueInv, [Next]_vars
  PROVE  Wakeups
<1> USE Images DEF QueueInv, TypeOK, Sleepers, AwakeConsumers, AtPop, Wakeups, ring, client
<1>1. ASSUME NEW p \in Producer, queue_push(p)
      PROVE  Wakeups
  <2>1. size' = size + 1 /\ popped' = popped /\ returned' = returned
    BY <1>1 DEF queue_push
  <2>2. nonEmpty' # {} => \E t \in nonEmpty : nonEmpty' = nonEmpty \ {t}
    BY <1>1 DEF queue_push, signal_non_empty, Signalled
  <2>3. ASSUME NEW t \in nonEmpty, nonEmpty' = nonEmpty \ {t}
        PROVE  t \notin AwakeConsumers /\ AwakeConsumers' = AwakeConsumers \union {t}
    BY <2>1, <2>3
  <2> QED
    BY <2>1, <2>2, <2>3 DEF PushesOne
<1>2. ASSUME NEW p \in Producer, CallPush(p) \/ push_wait(p)
      PROVE  Wakeups
  BY <1>2 DEF CallPush, push_wait, Harmless
<1>3. ASSUME NEW c \in Consumer, queue_pop(c)
      PROVE  Wakeups
  <2>1. /\ size' = size - 1 /\ nonEmpty' = nonEmpty /\ returned' = returned
        /\ c \in AwakeConsumers /\ popped' = [popped EXCEPT ![c] = images[front]]
        /\ images[front] # NoImg
    BY <1>3, Oldest DEF queue_pop
  <2>2. AwakeConsumers' = AwakeConsumers \ {c}
    BY <2>1
  <2> QED
    BY <2>1, <2>2 DEF PopsOne
<1>4. ASSUME NEW c \in Consumer, pop_null(c) \/ pop_wait(c)
      PROVE  Wakeups
  BY <1>4 DEF pop_null, pop_wait, Emptied
<1>5. ASSUME NEW c \in Consumer, pop_timeout(c) \/ CountWritten(c)
      PROVE  Wakeups
  BY <1>5 DEF pop_timeout, CountWritten, Harmless
<1>6. CASE queue_destroy
  BY <1>6 DEF queue_destroy, Emptied
<1>7. CASE (\E t \in Producer \union Consumer : spurious_wake(t)) \/ UNCHANGED vars
  BY <1>7 DEF spurious_wake, vars, Harmless
<1> QED
  BY <1>1, <1>2, <1>3, <1>4, <1>5, <1>6, <1>7 DEF Next, ProducerStep, ConsumerStep, Destroyed

(* One signal per queue_push is enough too: while consumers sleep, each    *)
(* queued image has an awake consumer coming for it, whatever the mix of   *)
(* signals, timeouts and spurious wake-ups.                                *)
THEOREM ConsumersNotStranded == Spec => []WakeupsSuffice
<1>1. Init => WakeupsSuffice
  BY DEF Init, WakeupsSuffice
<1>2. ASSUME QueueInv, QueueInv', WakeupsSuffice, [Next]_vars PROVE WakeupsSuffice'
  <2>1. /\ IsFiniteSet(AwakeConsumers) /\ Cardinality(AwakeConsumers) \in Nat
        /\ IsFiniteSet(AwakeConsumers') /\ Cardinality(AwakeConsumers') \in Nat
    BY QueueAssumption, FS_Subset, FS_CardinalityType DEF QueueAssumption, AwakeConsumers
  <2>2. size \in Nat /\ size' \in Nat
    BY <1>2 DEF QueueInv, TypeOK
  <2> QED
    BY <1>2, <2>1, <2>2, WakeupsStep, EnoughAwake DEF Wakeups, WakeupsSuffice
<1> QED
  BY <1>1, <1>2, SpecQueue, QueueStep, PTL DEF Spec

-----------------------------------------------------------------------------
(* The ring buffer and the bounded FIFO reach their limits together. *)
LEMMA SameLimits ==
  ASSUME QueueInv, MemAccounting, NEW x \in Img
  PROVE  /\ is_mem_limit(x) <=> Fifo!MemLimit(x)
         /\ is_arr_limit <=> Fifo!ArrLimit
<1>1. Len(Items) = size /\ size \in Nat /\ (Items = <<>> <=> size = 0)
  BY ItemsType, ItemsEmpty DEF QueueInv
<1> QED
  BY <1>1 DEF MemAccounting, is_mem_limit, is_arr_limit, Fifo!MemLimit, Fifo!ArrLimit

LEMMA SameSignals ==
  /\ signal_non_empty => Fifo!signal_non_empty
  /\ signal_non_full => Fifo!signal_non_full
  BY DEF signal_non_empty, signal_non_full, Signalled,
         Fifo!signal_non_empty, Fifo!signal_non_full, Fifo!Signalled

LEMMA PushIsPush ==
  ASSUME QueueInv, MemAccounting, NEW p \in Producer, queue_push(p)
  PROVE  pushing[p] \in Img /\ Fifo!Push(p, pushing[p])
<1>1. Items' = Append(Items, pushing[p]) /\ pushing[p] \in Img
  BY ItemsPush DEF QueueInv
<1> QED
  BY <1>1, SameLimits, SameSignals DEF queue_push, AtPush, Fifo!Push

LEMMA WaitIsWait ==
  ASSUME QueueInv, MemAccounting, NEW p \in Producer, push_wait(p)
  PROVE  pushing[p] \in Img /\ Fifo!PushWait(p, pushing[p])
<1>1. pushing[p] \in Img
  BY DEF push_wait, AtPush, QueueInv, TypeOK
<1> QED
  BY <1>1, SameLimits, ItemsSame DEF push_wait, AtPush, ring, Fifo!PushWait

(* Every step of the ring buffer and its callers is a step of the bounded  *)
(* FIFO, or none.                                                          *)
LEMMA FifoStep ==
  ASSUME QueueInv, MemAccounting, [Next]_vars
  PROVE  [Fifo!Next]_(Fifo!fifo)
<1> DEFINE Idle == UNCHANGED Fifo!fifo
<1>0. UNCHANGED <<ring, nonFull, nonEmpty>> => Idle
  BY ItemsSame DEF ring, Fifo!fifo
<1>1. ASSUME NEW p \in Producer, queue_push(p) \/ push_wait(p)
      PROVE  Fifo!Next
  BY <1>1, PushIsPush, WaitIsWait DEF Fifo!Next
<1>2. ASSUME NEW c \in Consumer, queue_pop(c)
      PROVE  Fifo!Next
  <2>1. Items # <<>> /\ Items' = Tail(Items)
    BY <1>2, ItemsPop DEF QueueInv
  <2>2. Fifo!Pop(c)
    BY <1>2, <2>1, SameSignals DEF queue_pop, AtPop, Fifo!Pop
  <2> QED
    BY <2>2 DEF Fifo!Next
<1>3. ASSUME NEW c \in Consumer, pop_wait(c)
      PROVE  Fifo!Next
  <2>1. Fifo!PopWait(c)
    BY <1>3, ItemsEmpty, ItemsSame DEF QueueInv, pop_wait, AtPop, ring, Fifo!PopWait
  <2> QED
    BY <2>1 DEF Fifo!Next
<1>4. ASSUME NEW c \in Consumer, pop_timeout(c)
      PROVE  Fifo!Next
  <2>1. Fifo!TimedOut(c)
    BY <1>4, ItemsSame DEF pop_timeout, ring, Fifo!TimedOut
  <2> QED
    BY <2>1 DEF Fifo!Next
<1>5. ASSUME NEW t \in Producer \union Consumer, spurious_wake(t)
      PROVE  Fifo!Next
  <2>1. Fifo!SpuriousWake(t)
    BY <1>5, ItemsSame DEF spurious_wake, ring, Fifo!SpuriousWake
  <2> QED
    BY <2>1 DEF Fifo!Next
<1>6. CASE queue_destroy
  BY <1>6, DestroyEmpty DEF queue_destroy, Fifo!fifo
<1>7. ASSUME NEW t, CallPush(t) \/ pop_null(t) \/ CountWritten(t)
      PROVE  Idle
  BY <1>0, <1>7 DEF CallPush, pop_null, CountWritten
<1>8. UNCHANGED vars => Idle
  BY <1>0 DEF vars
<1> QED
  BY <1>1, <1>2, <1>3, <1>4, <1>5, <1>6, <1>7, <1>8
     DEF Next, ProducerStep, ConsumerStep, Destroyed

(* A producer falls asleep, or leaves queue_push, as the FIFO would with   *)
(* the image of that very call.                                            *)
LEMMA CalledStep ==
  ASSUME QueueInv, MemAccounting, [Next]_vars, NEW p \in Producer
  PROVE  /\ p \in nonFull' \ nonFull => Fifo!PushWait(p, pushing[p])
         /\ pushing'[p] = NoImg /\ pushing[p] # NoImg => Fifo!Push(p, pushing[p])
<1> USE Images, Signals DEF QueueInv, TypeOK
<1>1. p \in nonFull' \ nonFull => push_wait(p)
  BY DEF Next, ProducerStep, ConsumerStep, CallPush, queue_push, push_wait, queue_pop, pop_null,
     pop_wait, pop_timeout, CountWritten, spurious_wake, queue_destroy, Destroyed, vars
<1>2. pushing'[p] = NoImg /\ pushing[p] # NoImg => queue_push(p)
  <2>1. ASSUME NEW q \in Producer, CallPush(q)
        PROVE  ~(pushing'[p] = NoImg /\ pushing[p] # NoImg)
    BY <2>1 DEF CallPush
  <2>2. ASSUME NEW q \in Producer, queue_push(q), q # p
        PROVE  pushing'[p] = pushing[p]
    BY <2>2 DEF queue_push
  <2> QED
    BY <2>1, <2>2
       DEF Next, ProducerStep, ConsumerStep, push_wait, queue_pop, pop_null,
       pop_wait, pop_timeout, CountWritten, spurious_wake, queue_destroy, Destroyed, vars, client
<1> QED
  BY <1>1, <1>2, PushIsPush, WaitIsWait

(* The ring buffer implements the bounded FIFO, whatever its capacity, its *)
(* memory limit and the threads around it: same order, same limits, same   *)
(* wake-ups, each call with its own image.  This is what QmtPipeline, made *)
(* of two bounded FIFOs, takes for granted about qmt-queue.c.              *)
THEOREM FifoRefinement == Spec => ImplementsFifo
<1>1. Init => Fifo!Init
  <2> SUFFICES ASSUME Init PROVE Fifo!Init
    OBVIOUS
  <2>1. Items = <<>>
    BY InitQueue, ItemsEmpty DEF Init, QueueInv
  <2> QED
    BY <2>1 DEF Init, Fifo!Init
<1>2. QueueInv /\ MemAccounting /\ [Next]_vars => [Fifo!Next]_(Fifo!fifo)
  BY FifoStep
<1> DEFINE Called == \A p \in Producer :
       /\ p \in nonFull' \ nonFull => Fifo!PushWait(p, pushing[p])
       /\ pushing'[p] = NoImg /\ pushing[p] # NoImg => Fifo!Push(p, pushing[p])
<1>3. QueueInv /\ MemAccounting /\ [Next]_vars => [Called]_vars
  BY CalledStep
<1>4. Spec => Fifo!Spec
  BY <1>1, <1>2, SpecMem, PTL DEF Spec, Fifo!Spec
<1>5. Spec => StepsAsCalled
  BY <1>3, SpecMem, PTL DEF Spec, StepsAsCalled
<1> QED
  BY <1>4, <1>5, PTL DEF ImplementsFifo
=============================================================================
