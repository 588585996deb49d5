---------------------------- MODULE SharedLemmas ----------------------------
(***************************************************************************)
(* Facts that several of the proof modules rest on: the least element of a *)
(* set of numbers, and what follows from it for functions that call        *)
(* themselves on something smaller: that they exist and what all their     *)
(* values have in common, without an induction principle over operators;   *)
(* what the signals of a condition variable do to the threads that wait    *)
(* for images; that a sum does not depend on the order of its terms, and   *)
(* how sums are split and scaled; and where the parts of a flattened       *)
(* sequence are.                                                           *)
(***************************************************************************)
EXTENDS Integers, FiniteSets, SequencesExt, FiniteSetTheorems, WellFoundedInduction, TLAPS

LEMMA Least ==
  ASSUME NEW S, S \subseteq Nat, S # {}
  PROVE  \E m \in S : \A n \in S : m <= n
<1> DEFINE R == {ss \in Nat \X Nat : ss[1] < ss[2]}
<1>1. IsWellFoundedOn(R, Nat)
  BY NatLessThanWellFounded DEF OpToRel
<1>2. ASSUME NEW m \in S, NEW n \in S, <<n, m>> \notin R PROVE m <= n
  <2>1. m \in Nat /\ n \in Nat
    OBVIOUS
  <2>2. <<n, m>> \in Nat \X Nat
    BY <2>1
  <2>3. ~(n < m)
    BY <1>2, <2>2
  <2> QED
    BY <2>1, <2>3
<1> HIDE DEF R
<1>3. PICK m \in S : \A n \in S : <<n, m>> \notin R
  BY <1>1, WFMin
<1> QED
  BY <1>2, <1>3

(* A function may be defined by recursion on a number up to n.             *)
Iterates(f, n, a, step) == f[0] = a /\ \A i \in 1 .. n : f[i] = step[i][f[i - 1]]

LEMMA Recursion ==
  ASSUME NEW n \in Nat, NEW X, NEW a \in X, NEW step \in [1 .. n -> [X -> X]]
  PROVE  \E f \in [0 .. n -> X] : Iterates(f, n, a, step)
<1> DEFINE Defines(f, k) == f \in [0 .. k -> X] /\ f[0] = a /\ \A i \in 1 .. k : f[i] = step[i][f[i - 1]]
           T == {k \in 0 .. n : ~\E f : Defines(f, k)}
<1> SUFFICES ASSUME T # {} PROVE FALSE
  <2>1. n \in 0 .. n /\ (n \notin T => \E f : Defines(f, n))
    OBVIOUS
  <2> HIDE DEF T
  <2> QED
    BY <2>1 DEF Iterates
<1>1. T \subseteq Nat
  OBVIOUS
<1>2. PICK m \in T : \A k \in T : m <= k
  BY <1>1, Least
<1>3. CASE m = 0
  <2> DEFINE c == [i \in 0 .. 0 |-> a]
  <2>1. c \in [0 .. m -> X] /\ c[0] = a
    BY <1>3
  <2>2. \A i \in 1 .. m : FALSE
    BY <1>3
  <2> HIDE DEF c
  <2>3. Defines(c, m)
    BY <2>1, <2>2
  <2>4. ~\E f : Defines(f, m)
    BY <1>2
  <2> QED
    BY <2>3, <2>4
<1>4. CASE m # 0
  <2>1. m \in 1 .. n /\ m - 1 \in 0 .. n
    BY <1>2, <1>4
  <2>2. PICK g : Defines(g, m - 1)
    <3> HIDE DEF T
    <3>1. m - 1 \notin T
      BY <1>2, <2>1
    <3> QED
      BY <2>1, <3>1 DEF T
  <2> DEFINE v == step[m][g[m - 1]]
             f == [i \in 0 .. m |-> IF i = m THEN v ELSE g[i]]
  <2>3. v \in X
    BY <2>1, <2>2
  <2> HIDE DEF v
  <2>4. f \in [0 .. m -> X] /\ f[0] = a
    BY <2>1, <2>2, <2>3
  <2>5. ASSUME NEW i \in 1 .. m PROVE f[i] = step[i][f[i - 1]]
    <3>1. f[i - 1] = g[i - 1] /\ f[m] = v
      BY <2>1
    <3>2. CASE i = m
      BY <3>1, <3>2 DEF v
    <3>3. CASE i # m
      BY <2>1, <2>2, <3>1, <3>3
    <3> QED
      BY <3>2, <3>3
  <2> QED
    BY <1>2, <2>4, <2>5
<1> QED
  BY <1>3, <1>4

(* A function may be defined by recursion on values with a measure m, when *)
(* it needs itself only where the measure is less.                         *)
Bounded(D, m, step, F, n) == \A c \in D : m[c] < n => F[c] = step[F][c]
AgreeBelow(D, m, F, G, n) == \A d \in D : m[d] < n => F[d] = G[d]
NeedsBelow(D, V, m, step) ==
  \A F, G \in [D -> V], c \in D : AgreeBelow(D, m, F, G, m[c]) => step[F][c] = step[G][c]
HasFixpoint(D, V, step) == \E F \in [D -> V] : F = step[F]

LEMMA MeasuredRecursion ==
  ASSUME NEW D, NEW V, NEW v \in V, NEW m \in [D -> Nat], NEW step \in [[D -> V] -> [D -> V]],
         NeedsBelow(D, V, m, step)
  PROVE  HasFixpoint(D, V, step)
<1> USE DEF NeedsBelow, HasFixpoint
<1> DEFINE X == [D -> V]
           A(n) == {F \in X : Bounded(D, m, step, F, n)}
<1>1. ASSUME NEW n \in Nat PROVE A(n) # {}
  <2> DEFINE None == {i \in Nat : A(i) = {}}
  <2> SUFFICES ASSUME None # {} PROVE FALSE
    OBVIOUS
  <2>1. PICK i \in None : \A j \in None : i <= j
    <3>1. None \subseteq Nat
      OBVIOUS
    <3> HIDE DEF None
    <3> QED
      BY <3>1, Least
  <2>2. i \in Nat /\ A(i) = {}
    BY <2>1
  <2>3. i # 0
    <3> DEFINE constant == [d \in D |-> v]
    <3>1. constant \in X /\ \A c \in D : ~(m[c] < 0)
      OBVIOUS
    <3> HIDE DEF constant
    <3>2. constant \in A(0)
      BY <3>1 DEF Bounded
    <3> QED
      BY <2>2, <3>2
  <2>4. i - 1 \in Nat /\ A(i - 1) # {}
    <3>1. i - 1 \in Nat /\ ~(i <= i - 1)
      BY <2>2, <2>3
    <3>2. i - 1 \notin None
      <4> HIDE DEF None
      <4> QED
        BY <2>1, <3>1
    <3> QED
      BY <3>1, <3>2
  <2>5. PICK F \in X : Bounded(D, m, step, F, i - 1)
    BY <2>4
  <2>6. step[F] \in X
    OBVIOUS
  <2>7. ASSUME NEW c \in D, m[c] < i PROVE step[F][c] = step[step[F]][c]
    <3>1. AgreeBelow(D, m, F, step[F], m[c])
      <4>1. ASSUME NEW d \in D, m[d] < m[c] PROVE F[d] = step[F][d]
        <5>1. m[d] \in Nat /\ m[c] \in Nat
          OBVIOUS
        <5>2. m[d] < i - 1
          BY <2>2, <2>7, <4>1, <5>1
        <5> QED
          BY <2>5, <5>2 DEF Bounded
      <4> QED
        BY <4>1 DEF AgreeBelow
    <3> QED
      BY <2>6, <3>1
  <2>8. step[F] \in A(i)
    BY <2>6, <2>7 DEF Bounded
  <2> QED
    BY <2>2, <2>8
<1>2. ASSUME NEW n \in Nat, NEW F \in A(n), NEW G \in A(n) PROVE AgreeBelow(D, m, F, G, n)
  <2> DEFINE Bad == {c \in D : m[c] < n /\ F[c] # G[c]}
             M == {m[c] : c \in Bad}
  <2> SUFFICES ASSUME Bad # {} PROVE FALSE
    BY DEF AgreeBelow
  <2>1. M \subseteq Nat /\ M # {}
    <3>1. \A c \in Bad : m[c] \in Nat
      OBVIOUS
    <3> HIDE DEF Bad
    <3> QED
      BY <3>1
  <2>2. PICK l \in M : \A o \in M : l <= o
    <3> HIDE DEF M
    <3> QED
      BY <2>1, Least
  <2>3. PICK c \in Bad : l = m[c]
    BY <2>2
  <2>4. c \in D /\ m[c] < n /\ F[c] # G[c] /\ m[c] \in Nat
    BY <2>3
  <2>5. AgreeBelow(D, m, F, G, m[c])
    <3>1. ASSUME NEW d \in D, m[d] < m[c], F[d] # G[d] PROVE FALSE
      <4>1. m[d] \in Nat /\ m[d] < n
        BY <2>4, <3>1
      <4>2. m[d] \in M
        BY <3>1, <4>1
      <4> HIDE DEF M
      <4>3. l <= m[d]
        BY <2>2, <4>2
      <4> QED
        BY <2>3, <2>4, <3>1, <4>1, <4>3
    <3> QED
      BY <3>1 DEF AgreeBelow
  <2>6. step[F][c] = step[G][c]
    BY <2>4, <2>5
  <2>7. F[c] = step[F][c] /\ G[c] = step[G][c]
    BY <2>4 DEF Bounded
  <2> QED
    BY <2>4, <2>6, <2>7
<1> DEFINE Pick(n) == CHOOSE F : F \in A(n)
           H == [c \in D |-> Pick(m[c] + 1)[c]]
<1>3. ASSUME NEW n \in Nat PROVE Pick(n) \in A(n) /\ Pick(n) \in X /\ Bounded(D, m, step, Pick(n), n)
  <2>1. Pick(n) \in A(n)
    <3> HIDE DEF A
    <3> QED
      BY <1>1
  <2> HIDE DEF Pick
  <2> QED
    BY <2>1
<1>4. ASSUME NEW n \in Nat, NEW l \in Nat, n <= l PROVE Pick(l) \in A(n)
  <2>1. Pick(l) \in X /\ Bounded(D, m, step, Pick(l), l)
    BY <1>3
  <2> HIDE DEF Pick
  <2>2. \A c \in D : m[c] < n => m[c] < l
    BY <1>4
  <2> QED
    BY <2>1, <2>2 DEF Bounded
<1> HIDE DEF Pick
<1>5. ASSUME NEW c \in D PROVE Pick(m[c] + 1)[c] \in V
  BY <1>3
<1>6. H \in X
  BY <1>5
<1>7. ASSUME NEW c \in D PROVE H[c] = step[H][c]
  <2> DEFINE n == m[c]
             F == Pick(n + 1)
  <2>1. n \in Nat /\ n + 1 \in Nat /\ n < n + 1
    OBVIOUS
  <2>2. F \in X /\ Bounded(D, m, step, F, n + 1) /\ H[c] = F[c]
    <3>1. H[c] = F[c]
      OBVIOUS
    <3> HIDE DEF H, X, n
    <3> QED
      BY <1>3, <2>1, <3>1
  <2>3. F[c] = step[F][c]
    <3> HIDE DEF F
    <3> QED
      BY <2>1, <2>2 DEF Bounded
  <2>4. AgreeBelow(D, m, F, H, n)
    <3>1. ASSUME NEW d \in D, m[d] < n PROVE F[d] = H[d]
      <4> DEFINE l == m[d]
                 G == Pick(l + 1)
      <4>1. l \in Nat /\ l + 1 \in Nat /\ l < l + 1 /\ l + 1 <= n + 1
        BY <2>1, <3>1
      <4>2. G \in A(l + 1) /\ F \in A(l + 1)
        <5> HIDE DEF A, l, n
        <5> QED
          BY <1>3, <1>4, <2>1, <4>1
      <4>3. AgreeBelow(D, m, F, G, l + 1)
        <5> HIDE DEF A, F, G, l
        <5> QED
          BY <1>2, <4>1, <4>2
      <4>4. H[d] = G[d]
        OBVIOUS
      <4> HIDE DEF F, G, H
      <4> QED
        BY <4>1, <4>3, <4>4 DEF AgreeBelow
    <3> QED
      BY <3>1 DEF AgreeBelow
  <2>5. step[F][c] = step[H][c]
    <3> HIDE DEF F, H
    <3> QED
      BY <1>6, <2>2, <2>4
  <2> QED
    BY <2>2, <2>3, <2>5
<1> HIDE DEF H
<1>8. step[H] \in X
  BY <1>6
<1>9. H = step[H]
  BY <1>6, <1>7, <1>8
<1> QED
  BY <1>6, <1>9

(* What holds of a value when it holds of those of a lesser measure, holds *)
(* of all: the values it holds of are G.                                   *)
LEMMA MeasuredInduction ==
  ASSUME NEW D, NEW m \in [D -> Nat], NEW G,
         \A c \in D : (\A d \in D : m[d] < m[c] => d \in G) => c \in G
  PROVE  \A c \in D : c \in G
<1> DEFINE Bad == {c \in D : c \notin G}
           M == {m[c] : c \in Bad}
<1> SUFFICES ASSUME Bad # {} PROVE FALSE
  OBVIOUS
<1>1. M \subseteq Nat /\ M # {}
  <2>1. \A c \in Bad : m[c] \in Nat
    OBVIOUS
  <2> HIDE DEF Bad
  <2> QED
    BY <2>1
<1>2. PICK l \in M : \A o \in M : l <= o
  <2> HIDE DEF M
  <2> QED
    BY <1>1, Least
<1>3. PICK c \in Bad : l = m[c]
  BY <1>2
<1>4. c \in D /\ c \notin G /\ m[c] \in Nat
  BY <1>3
<1>5. ASSUME NEW d \in D, m[d] < m[c], d \notin G PROVE FALSE
  <2>1. m[d] \in M /\ m[d] \in Nat
    BY <1>5
  <2> HIDE DEF M, Bad
  <2>2. m[c] <= m[d]
    BY <1>2, <1>3, <2>1
  <2> QED
    BY <1>4, <1>5, <2>1, <2>2
<1> QED
  BY <1>4, <1>5

-----------------------------------------------------------------------------
(* What a signal does to the set S of sleepers. *)
WakesOne(S, T) == T \subseteq S /\ (S # {} => \E t \in S : T = S \ {t})

(* What a step does to the n images of a queue, the consumers S asleep on  *)
(* it and its awake consumers A.  Nothing is queued and nobody awake goes; *)
(* a push wakes one, if there is one; a pop takes one image and one awake  *)
(* consumer; or the queue is empty.                                        *)
Harmless(n, m, S, T, A, B) == m = n /\ T \subseteq S /\ A \subseteq B
PushesOne(n, m, S, T, A, B) ==
  m = n + 1 /\ (T # {} => \E t \in S : T = S \ {t} /\ t \notin A /\ B = A \union {t})
PopsOne(n, m, S, T, A, B) == m = n - 1 /\ T = S /\ \E t \in A : B = A \ {t}
Emptied(m) == m = 0

LEMMA EnoughAwake ==
  ASSUME NEW n \in Nat, NEW m \in Nat, NEW S, NEW T, NEW A, NEW B,
         IsFiniteSet(A), IsFiniteSet(B), Cardinality(A) \in Nat, Cardinality(B) \in Nat,
         S # {} => n <= Cardinality(A),
         \/ Harmless(n, m, S, T, A, B) \/ PushesOne(n, m, S, T, A, B)
         \/ PopsOne(n, m, S, T, A, B) \/ Emptied(m)
  PROVE  T # {} => m <= Cardinality(B)
<1> SUFFICES ASSUME T # {} PROVE m <= Cardinality(B)
  OBVIOUS
<1>1. CASE Harmless(n, m, S, T, A, B)
  <2>1. Cardinality(A) <= Cardinality(B) /\ S # {}
    BY <1>1, FS_Subset DEF Harmless
  <2> QED
    BY <1>1, <2>1 DEF Harmless
<1>2. CASE PushesOne(n, m, S, T, A, B)
  <2>1. PICK t \in S : t \notin A /\ B = A \union {t}
    BY <1>2 DEF PushesOne
  <2>2. Cardinality(B) = Cardinality(A) + 1
    BY <2>1, FS_AddElement
  <2> QED
    BY <1>2, <2>1, <2>2 DEF PushesOne
<1>3. CASE PopsOne(n, m, S, T, A, B)
  <2>1. PICK t \in A : B = A \ {t}
    BY <1>3 DEF PopsOne
  <2>2. Cardinality(B) = Cardinality(A) - 1
    BY <2>1, FS_RemoveElement
  <2> QED
    BY <1>3, <2>1, <2>2 DEF PopsOne
<1>4. CASE Emptied(m)
  BY <1>4 DEF Emptied
<1> QED
  BY <1>1, <1>2, <1>3, <1>4

-----------------------------------------------------------------------------
(* Sums over finite sets.  A set that is smallest among some subsets of a  *)
(* finite set.                                                             *)
LEMMA OneLess ==
  ASSUME NEW S, IsFiniteSet(S), NEW T \in SUBSET S, NEW x \in T
  PROVE  /\ Cardinality(T) \in Nat /\ Cardinality(T \ {x}) \in Nat
         /\ Cardinality(T \ {x}) = Cardinality(T) - 1
         /\ Cardinality(T) <= Cardinality(S) /\ Cardinality(S) \in Nat
<1>1. IsFiniteSet(T) /\ Cardinality(T) <= Cardinality(S)
  BY FS_Subset
<1>2. IsFiniteSet(T \ {x}) /\ Cardinality(T \ {x}) = Cardinality(T) - 1
  BY <1>1, FS_RemoveElement
<1> QED
  BY <1>1, <1>2, FS_CardinalityType

LEMMA SmallestSet ==
  ASSUME NEW S, IsFiniteSet(S), NEW Bad \in SUBSET (SUBSET S), Bad # {}
  PROVE  \E T \in Bad : \A x \in T : T \ {x} \notin Bad
<1> DEFINE C == {Cardinality(T) : T \in Bad}
<1>1. C # {} /\ C \subseteq Nat
  <2>1. \A T \in Bad : Cardinality(T) \in Nat
    BY FS_Subset, FS_CardinalityType
  <2> QED
    BY <2>1
<1>2. PICK c \in C : \A d \in C : c <= d
  <2> HIDE DEF C
  <2> QED
    BY <1>1, Least
<1>3. PICK T \in Bad : c = Cardinality(T)
  BY <1>2
<1>4. ASSUME NEW x \in T, T \ {x} \in Bad PROVE FALSE
  <2>1. Cardinality(T \ {x}) \in C
    BY <1>4
  <2> HIDE DEF C
  <2>2. Cardinality(T) <= Cardinality(T \ {x})
    BY <1>2, <1>3, <2>1
  <2>3. T \in SUBSET S
    BY <1>3
  <2> QED
    BY <1>4, <2>2, <2>3, OneLess
<1> QED
  BY <1>3, <1>4

(* The sum of f over the subsets of S, taking the elements as they come.   *)
AnyOf(s) == CHOOSE e \in s : TRUE
Adds(F, S, f) == F = [s \in SUBSET S |-> IF s = {} THEN 0 ELSE f[AnyOf(s)] + F[s \ {AnyOf(s)}]]

LEMMA AddsExists ==
  ASSUME NEW S, IsFiniteSet(S), NEW f \in [S -> Int]
  PROVE  \E F : Adds(F, S, f)
<1> DEFINE n == Cardinality(S)
           X == [SUBSET S -> Int]
           zero == [s \in SUBSET S |-> 0]
           more(F) == [s \in SUBSET S |-> IF s = {} THEN 0 ELSE f[AnyOf(s)] + F[s \ {AnyOf(s)}]]
           step == [i \in 1 .. n |-> [F \in X |-> more(F)]]
<1>1. n \in Nat
  BY FS_CardinalityType
<1>2. \A s \in SUBSET S : s # {} => AnyOf(s) \in s /\ s \ {AnyOf(s)} \in SUBSET S
  BY DEF AnyOf
<1>3. ASSUME NEW F \in X PROVE more(F) \in X
  <2>1. \A s \in SUBSET S : s # {} => f[AnyOf(s)] \in Int /\ F[s \ {AnyOf(s)}] \in Int
    BY <1>2
  <2>2. \A s \in SUBSET S : (IF s = {} THEN 0 ELSE f[AnyOf(s)] + F[s \ {AnyOf(s)}]) \in Int
    BY <2>1
  <2> QED
    BY <2>2
<1>4. zero \in X
  OBVIOUS
<1>5. step \in [1 .. n -> [X -> X]] /\ \A i \in 1 .. n, F \in X : step[i][F] = more(F)
  <2> HIDE DEF X, more, n
  <2> QED
    BY <1>3
<1> HIDE DEF X, step, zero
<1>6. PICK g \in [0 .. n -> X] : Iterates(g, n, zero, step)
  <2> HIDE DEF n
  <2> QED
    BY <1>1, <1>4, <1>5, Recursion
<1>7. \A i \in 1 .. n : g[i] = more(g[i - 1]) /\ g[i - 1] \in X
  <2> HIDE DEF n, more
  <2>1. \A i \in 1 .. n : g[i] = step[i][g[i - 1]] /\ g[i - 1] \in X
    BY <1>1, <1>6 DEF Iterates
  <2> QED
    BY <1>5, <2>1
<1> DEFINE H == [s \in SUBSET S |-> g[Cardinality(s)][s]]
<1>8. ASSUME NEW s \in SUBSET S
      PROVE  H[s] = IF s = {} THEN 0 ELSE f[AnyOf(s)] + H[s \ {AnyOf(s)}]
  <2>1. CASE s = {}
    <3>1. Cardinality(s) = 0
      BY <2>1, FS_EmptySet
    <3>2. g[0] = zero
      BY <1>6 DEF Iterates
    <3> QED
      BY <2>1, <3>1, <3>2 DEF zero
  <2>2. CASE s # {}
    <3> DEFINE x == AnyOf(s)
               c == Cardinality(s)
    <3>1. x \in s /\ s \ {x} \in SUBSET S
      BY <1>2, <2>2
    <3>2. c \in Nat /\ Cardinality(s \ {x}) = c - 1 /\ c - 1 \in Nat /\ c <= n /\ n \in Nat
      <4> HIDE DEF x
      <4> QED
        BY <3>1, OneLess
    <3>3. c \in 1 .. n
      <4> HIDE DEF c, n
      <4> QED
        BY <3>2
    <3>4. g[c] = more(g[c - 1])
      BY <1>7, <3>3
    <3>5. more(g[c - 1])[s] = f[x] + g[c - 1][s \ {x}]
      BY <2>2
    <3>6. H[s] = g[c][s] /\ H[s \ {x}] = g[c - 1][s \ {x}]
      BY <3>1, <3>2
    <3> QED
      BY <2>2, <3>4, <3>5, <3>6
  <2> QED
    BY <2>1, <2>2
<1>9. H = [s \in SUBSET S |-> H[s]]
  OBVIOUS
<1> HIDE DEF H
<1>10. Adds(H, S, f)
  BY <1>8, <1>9 DEF Adds
<1> QED
  BY <1>10

LEMMA AddsNone ==
  ASSUME NEW S, NEW f, NEW F, Adds(F, S, f), NEW T \in SUBSET S, T = {}
  PROVE  F[T] = 0
  BY DEF Adds

LEMMA AddsOne ==
  ASSUME NEW S, NEW f, NEW F, Adds(F, S, f), NEW T \in SUBSET S, T # {}
  PROVE  AnyOf(T) \in T /\ T \ {AnyOf(T)} \in SUBSET S /\ F[T] = f[AnyOf(T)] + F[T \ {AnyOf(T)}]
<1>1. AnyOf(T) \in T
  BY DEF AnyOf
<1>2. F[T] = IF T = {} THEN 0 ELSE f[AnyOf(T)] + F[T \ {AnyOf(T)}]
  BY DEF Adds
<1> QED
  BY <1>1, <1>2

LEMMA AddsInt ==
  ASSUME NEW S, IsFiniteSet(S), NEW f \in [S -> Int], NEW F, Adds(F, S, f), NEW T \in SUBSET S
  PROVE  F[T] \in Int
<1> DEFINE Bad == {U \in SUBSET S : F[U] \notin Int}
<1> SUFFICES ASSUME Bad # {} PROVE FALSE
  OBVIOUS
<1>1. Bad \in SUBSET (SUBSET S)
  OBVIOUS
<1>2. PICK U \in Bad : \A x \in U : U \ {x} \notin Bad
  <2> HIDE DEF Bad
  <2> QED
    BY <1>1, SmallestSet
<1>3. U \in SUBSET S /\ F[U] \notin Int
  BY <1>2
<1>4. U # {} /\ AnyOf(U) \in U /\ U \ {AnyOf(U)} \in SUBSET S /\ F[U] = f[AnyOf(U)] + F[U \ {AnyOf(U)}]
  <2>1. U = {} => F[U] = 0
    BY <1>3, AddsNone
  <2>2. U # {}
    BY <1>3, <2>1
  <2> QED
    BY <1>3, <2>2, AddsOne
<1>5. U \ {AnyOf(U)} \notin Bad
  <2> HIDE DEF Bad
  <2> QED
    BY <1>2, <1>4
<1>6. F[U \ {AnyOf(U)}] \in Int
  BY <1>4, <1>5
<1> QED
  BY <1>3, <1>4, <1>6

(* The order in which the elements come makes no difference.               *)
OneMore(F, f, T, x) == F[T] = f[x] + F[T \ {x}]

LEMMA AddsAnyOrder ==
  ASSUME NEW S, IsFiniteSet(S), NEW f \in [S -> Int], NEW F, Adds(F, S, f), NEW T \in SUBSET S, NEW x \in T
  PROVE  OneMore(F, f, T, x)
<1> DEFINE Bad == {U \in SUBSET S : \E u \in U : F[U] # f[u] + F[U \ {u}]}
<1> SUFFICES ASSUME Bad # {} PROVE FALSE
  BY DEF OneMore
<1>1. Bad \in SUBSET (SUBSET S)
  OBVIOUS
<1>2. PICK U \in Bad : \A v \in U : U \ {v} \notin Bad
  <2> HIDE DEF Bad
  <2> QED
    BY <1>1, SmallestSet
<1>3. PICK u \in U : F[U] # f[u] + F[U \ {u}]
  BY <1>2
<1>4. U \in SUBSET S
  BY <1>2
<1> DEFINE y == AnyOf(U)
<1>5. y \in U /\ F[U] = f[y] + F[U \ {y}]
  <2>1. U # {}
    BY <1>3
  <2> QED
    BY <1>4, <2>1, AddsOne
<1>6. \A v \in U : \A w \in U \ {v} : F[U \ {v}] = f[w] + F[(U \ {v}) \ {w}]
  <2>1. \A v \in U : U \ {v} \notin Bad
    <3> HIDE DEF Bad
    <3> QED
      BY <1>2
  <2>2. \A v \in U : U \ {v} \in SUBSET S
    BY <1>4
  <2> QED
    BY <2>1, <2>2
<1> HIDE DEF Bad, y
<1>7. y # u
  BY <1>3, <1>5
<1>8. F[U \ {y}] = f[u] + F[(U \ {y}) \ {u}] /\ F[U \ {u}] = f[y] + F[(U \ {u}) \ {y}]
  BY <1>3, <1>5, <1>6, <1>7
<1>9. (U \ {y}) \ {u} = (U \ {u}) \ {y} /\ (U \ {u}) \ {y} \in SUBSET S
  BY <1>4
<1>10. f[u] \in Int /\ f[y] \in Int /\ F[(U \ {u}) \ {y}] \in Int
  BY <1>3, <1>4, <1>5, <1>9, AddsInt
<1> DEFINE a == f[u]
           b == f[y]
           c == F[(U \ {u}) \ {y}]
<1>11. F[U \ {y}] = a + c /\ F[U \ {u}] = b + c /\ F[U] = b + F[U \ {y}] /\ F[U] # a + F[U \ {u}]
  BY <1>3, <1>5, <1>8, <1>9
<1>12. b + (a + c) = a + (b + c)
  BY <1>10
<1> HIDE DEF a, b, c
<1> QED
  BY <1>11, <1>12

(* Nor does it matter what the elements are called.                        *)
Renamed(T, s) == {s[x] : x \in T}

LEMMA AddsRenamed ==
  ASSUME NEW S, NEW R, IsFiniteSet(S), NEW s \in [S -> R], \A x, y \in S : s[x] = s[y] => x = y,
         \A z \in R : \E x \in S : s[x] = z,
         NEW f \in [S -> Int], NEW g \in [R -> Int], \A x \in S : f[x] = g[s[x]],
         NEW F, Adds(F, S, f), NEW H, Adds(H, R, g)
  PROVE  F[S] = H[R]
<1>1. IsFiniteSet(R) /\ R = Renamed(S, s)
  <2>1. s \in Surjection(S, R)
    BY DEF Surjection
  <2> QED
    BY <2>1, FS_Surjection DEF Renamed
<1> DEFINE Bad == {T \in SUBSET S : F[T] # H[Renamed(T, s)]}
<1> SUFFICES ASSUME Bad # {} PROVE FALSE
  <2>1. S \notin Bad => F[S] = H[R]
    BY <1>1
  <2> HIDE DEF Bad
  <2> QED
    BY <2>1
<1>2. Bad \in SUBSET (SUBSET S)
  OBVIOUS
<1>3. PICK T \in Bad : \A x \in T : T \ {x} \notin Bad
  <2> HIDE DEF Bad
  <2> QED
    BY <1>2, SmallestSet
<1>4. T \in SUBSET S /\ F[T] # H[Renamed(T, s)]
  BY <1>3
<1>5. Renamed(T, s) \in SUBSET R
  BY <1>4 DEF Renamed
<1>6. CASE T = {}
  <2>1. Renamed(T, s) = {}
    BY <1>6 DEF Renamed
  <2> QED
    BY <1>4, <1>5, <1>6, <2>1, AddsNone
<1>7. CASE T # {}
  <2>1. PICK x \in T : TRUE
    BY <1>7
  <2>2. F[T \ {x}] = H[Renamed(T \ {x}, s)]
    <3>1. T \ {x} \notin Bad /\ T \ {x} \in SUBSET S
      <4> HIDE DEF Bad
      <4> QED
        BY <1>3, <1>4
    <3> QED
      BY <3>1
  <2>3. Renamed(T \ {x}, s) = Renamed(T, s) \ {s[x]} /\ s[x] \in Renamed(T, s)
    BY <1>4 DEF Renamed
  <2>4. F[T] = f[x] + F[T \ {x}]
    BY <1>4, AddsAnyOrder DEF OneMore
  <2>5. H[Renamed(T, s)] = g[s[x]] + H[Renamed(T, s) \ {s[x]}]
    <3> DEFINE U == Renamed(T, s)
               z == s[x]
    <3>1. IsFiniteSet(R) /\ U \in SUBSET R /\ z \in U
      BY <1>1, <1>5, <2>3
    <3> HIDE DEF Bad, U, z
    <3>2. OneMore(H, g, U, z)
      BY <3>1, AddsAnyOrder
    <3> QED
      BY <3>2 DEF OneMore, U, z
  <2> QED
    BY <1>4, <2>2, <2>3, <2>4, <2>5
<1> QED
  BY <1>6, <1>7

(* The sum over two sets that have nothing in common.                      *)
LEMMA AddsUnion ==
  ASSUME NEW S, IsFiniteSet(S), NEW f \in [S -> Int], NEW F, Adds(F, S, f),
         NEW A \in SUBSET S, NEW B \in SUBSET S, A \intersect B = {}
  PROVE  F[A \union B] = F[A] + F[B]
<1> DEFINE Bad == {T \in SUBSET B : F[A \union T] # F[A] + F[T]}
<1> SUFFICES ASSUME Bad # {} PROVE FALSE
  <2>1. B \in SUBSET B /\ (B \notin Bad => F[A \union B] = F[A] + F[B])
    OBVIOUS
  <2> HIDE DEF Bad
  <2> QED
    BY <2>1
<1>1. Bad \in SUBSET (SUBSET B) /\ IsFiniteSet(B)
  BY FS_Subset
<1>2. PICK T \in Bad : \A x \in T : T \ {x} \notin Bad
  <2> HIDE DEF Bad
  <2> QED
    BY <1>1, SmallestSet
<1>3. T \in SUBSET B /\ T \in SUBSET S /\ F[A \union T] # F[A] + F[T]
  BY <1>2
<1>4. T # {}
  <2>1. ASSUME T = {} PROVE F[A \union T] = F[A] + F[T]
    <3>1. F[T] = 0
      BY <1>3, <2>1, AddsNone
    <3>2. F[A \union T] = F[A]
      <4>1. A \union T = A
        BY <2>1
      <4> QED
        BY <4>1
    <3>3. F[A] \in Int
      BY AddsInt
    <3> QED
      BY <3>1, <3>2, <3>3, Z3
  <2> QED
    BY <1>3, <2>1
<1>5. PICK x \in T : TRUE
  BY <1>4
<1>6. F[A \union (T \ {x})] = F[A] + F[T \ {x}]
  <2>1. T \ {x} \notin Bad /\ T \ {x} \in SUBSET B
    <3> HIDE DEF Bad
    <3> QED
      BY <1>2, <1>3
  <2> QED
    BY <2>1
<1>7. F[T] = f[x] + F[T \ {x}]
  BY <1>3, AddsAnyOrder DEF OneMore
<1>8. F[A \union T] = f[x] + F[A \union (T \ {x})]
  <2> DEFINE U == A \union T
  <2>1. U \in SUBSET S /\ x \in U /\ U \ {x} = A \union (T \ {x})
    BY <1>3
  <2> HIDE DEF U
  <2>2. OneMore(F, f, U, x)
    BY <2>1, AddsAnyOrder
  <2> QED
    BY <2>1, <2>2 DEF OneMore, U
<1>9. F[A] \in Int /\ F[T \ {x}] \in Int /\ f[x] \in Int
  <2>1. T \ {x} \in SUBSET S /\ x \in S
    BY <1>3
  <2> QED
    BY <2>1, AddsInt
<1> QED
  BY <1>3, <1>6, <1>7, <1>8, <1>9

(* A factor of all the terms is a factor of the sum.                       *)
LEMMA AddsScaled ==
  ASSUME NEW S, IsFiniteSet(S), NEW f \in [S -> Int], NEW F, Adds(F, S, f),
         NEW g \in [S -> Int], NEW G, Adds(G, S, g),
         NEW a \in Int, NEW A \in SUBSET S, \A x \in A : g[x] = f[x] * a
  PROVE  G[A] = F[A] * a
<1> DEFINE Bad == {T \in SUBSET A : G[T] # F[T] * a}
<1> SUFFICES ASSUME Bad # {} PROVE FALSE
  <2>1. A \in SUBSET A /\ (A \notin Bad => G[A] = F[A] * a)
    OBVIOUS
  <2> HIDE DEF Bad
  <2> QED
    BY <2>1
<1>1. Bad \in SUBSET (SUBSET A) /\ IsFiniteSet(A)
  BY FS_Subset
<1>2. PICK T \in Bad : \A x \in T : T \ {x} \notin Bad
  <2> HIDE DEF Bad
  <2> QED
    BY <1>1, SmallestSet
<1>3. T \in SUBSET A /\ T \in SUBSET S /\ G[T] # F[T] * a
  BY <1>2
<1>4. T # {}
  <2>1. T = {} => F[T] = 0 /\ G[T] = 0
    BY <1>3, AddsNone
  <2> QED
    BY <1>3, <2>1
<1>5. PICK x \in T : TRUE
  BY <1>4
<1>6. G[T \ {x}] = F[T \ {x}] * a
  <2>1. T \ {x} \notin Bad /\ T \ {x} \in SUBSET A
    <3> HIDE DEF Bad
    <3> QED
      BY <1>2, <1>3
  <2> QED
    BY <2>1
<1>7. F[T] = f[x] + F[T \ {x}] /\ G[T] = g[x] + G[T \ {x}]
  BY <1>3, AddsAnyOrder DEF OneMore
<1>8. F[T \ {x}] \in Int /\ f[x] \in Int /\ g[x] = f[x] * a
  <2>1. T \ {x} \in SUBSET S /\ x \in S
    BY <1>3
  <2> QED
    BY <1>3, <2>1, AddsInt
<1>9. (f[x] + F[T \ {x}]) * a = f[x] * a + F[T \ {x}] * a
  BY <1>8
<1> QED
  BY <1>3, <1>6, <1>7, <1>8, <1>9

(* The sum is one, whatever the function that is defined by recursion.     *)
LEMMA AddsSame ==
  ASSUME NEW S, IsFiniteSet(S), NEW f \in [S -> Int], NEW F, Adds(F, S, f), NEW G, Adds(G, S, f)
  PROVE  F[S] = G[S]
<1>1. \A x \in S : f[x] = f[x] * 1
  OBVIOUS
<1>2. S \in SUBSET S
  OBVIOUS
<1>3. G[S] = F[S] * 1
  BY <1>1, <1>2, AddsScaled
<1>4. F[S] \in Int
  BY <1>2, AddsInt
<1> QED
  BY <1>3, <1>4

(* The sum over a part, as one of its own.                                 *)
LEMMA AddsPart ==
  ASSUME NEW S, IsFiniteSet(S), NEW f \in [S -> Int], NEW F, Adds(F, S, f),
         NEW T \in SUBSET S, NEW g \in [T -> Int], \A x \in T : g[x] = f[x], NEW G, Adds(G, T, g)
  PROVE  G[T] = F[T]
<1> DEFINE H == [s \in SUBSET T |-> F[s]]
<1>1. IsFiniteSet(T)
  BY FS_Subset
<1>2. ASSUME NEW s \in SUBSET T
      PROVE  H[s] = IF s = {} THEN 0 ELSE g[AnyOf(s)] + H[s \ {AnyOf(s)}]
  <2>1. s \in SUBSET S
    OBVIOUS
  <2>2. CASE s = {}
    BY <2>1, <2>2, AddsNone
  <2>3. CASE s # {}
    <3>1. AnyOf(s) \in s /\ F[s] = f[AnyOf(s)] + F[s \ {AnyOf(s)}]
      BY <2>1, <2>3, AddsOne
    <3>2. H[s] = F[s] /\ H[s \ {AnyOf(s)}] = F[s \ {AnyOf(s)}] /\ g[AnyOf(s)] = f[AnyOf(s)]
      BY <3>1
    <3> QED
      BY <2>3, <3>1, <3>2
  <2> QED
    BY <2>2, <2>3
<1>3. H = [s \in SUBSET T |-> H[s]] /\ H[T] = F[T]
  OBVIOUS
<1> HIDE DEF H
<1>4. Adds(H, T, g)
  BY <1>2, <1>3 DEF Adds
<1>5. G[T] = H[T]
  BY <1>1, <1>4, AddsSame
<1> QED
  BY <1>3, <1>5

(* The terms of a sum over S put together by what u says of them.          *)
Group(S, u, p) == {x \in S : u[x] = p}
Groups(S, u, Q) == {x \in S : u[x] \in Q}

LEMMA Regrouped ==
  ASSUME NEW S, IsFiniteSet(S), NEW P, IsFiniteSet(P), NEW u \in [S -> P],
         NEW f \in [S -> Int], NEW F, Adds(F, S, f), NEW v \in [P -> Int],
         NEW g \in [S -> Int], \A x \in S : g[x] = f[x] * v[u[x]], NEW G, Adds(G, S, g),
         NEW c \in [P -> Int], \A p \in P : c[p] = F[Group(S, u, p)] * v[p], NEW C, Adds(C, P, c)
  PROVE  C[P] = G[S]
<1> DEFINE Bad == {Q \in SUBSET P : C[Q] # G[Groups(S, u, Q)]}
<1> SUFFICES ASSUME Bad # {} PROVE FALSE
  <2>1. P \in SUBSET P /\ (P \notin Bad => C[P] = G[Groups(S, u, P)])
    OBVIOUS
  <2>2. Groups(S, u, P) = S
    BY DEF Groups
  <2> HIDE DEF Bad
  <2> QED
    BY <2>1, <2>2
<1>1. Bad \in SUBSET (SUBSET P)
  OBVIOUS
<1>2. PICK Q \in Bad : \A p \in Q : Q \ {p} \notin Bad
  <2> HIDE DEF Bad
  <2> QED
    BY <1>1, SmallestSet
<1>3. Q \in SUBSET P /\ C[Q] # G[Groups(S, u, Q)]
  BY <1>2
<1>4. Q # {}
  <2>1. ASSUME Q = {} PROVE C[Q] = 0 /\ G[Groups(S, u, Q)] = 0
    <3>1. Groups(S, u, Q) = {} /\ {} \in SUBSET S
      BY <2>1 DEF Groups
    <3>2. G[{}] = 0
      BY <3>1, AddsNone
    <3> QED
      BY <1>3, <2>1, <3>1, <3>2, AddsNone
  <2> QED
    BY <1>3, <2>1
<1>5. PICK p \in Q : TRUE
  BY <1>4
<1> DEFINE A == Group(S, u, p)
           B == Groups(S, u, Q \ {p})
<1>6. C[Q \ {p}] = G[B]
  <2>1. Q \ {p} \notin Bad /\ Q \ {p} \in SUBSET P
    <3> HIDE DEF Bad
    <3> QED
      BY <1>2, <1>3
  <2> QED
    BY <2>1
<1>7. C[Q] = c[p] + C[Q \ {p}] /\ c[p] = F[A] * v[p] /\ v[p] \in Int
  BY <1>3, AddsAnyOrder DEF OneMore
<1>8. /\ A \in SUBSET S /\ B \in SUBSET S /\ A \intersect B = {}
      /\ Groups(S, u, Q) = A \union B /\ \A x \in A : u[x] = p
  BY DEF Group, Groups
<1> HIDE DEF A, B, Bad
<1>9. G[A \union B] = G[A] + G[B]
  BY <1>8, AddsUnion
<1>10. G[A] = F[A] * v[p]
  <2> DEFINE a == v[p]
  <2>1. a \in Int /\ \A x \in A : g[x] = f[x] * a
    BY <1>7, <1>8
  <2> HIDE DEF a
  <2>2. G[A] = F[A] * a
    BY <1>8, <2>1, AddsScaled
  <2> QED
    BY <2>2 DEF a
<1>11. C[Q] = G[A] + G[B]
  BY <1>6, <1>7, <1>10
<1>12. G[Groups(S, u, Q)] = G[A] + G[B]
  BY <1>8, <1>9
<1> QED
  BY <1>3, <1>11, <1>12

-----------------------------------------------------------------------------
(* FlattenSeq is a recursive function.                                     *)
Joins(f, seqs, n) == \A i \in 1 .. n : f[i] = IF i = 1 THEN seqs[i] ELSE f[i - 1] \o seqs[i]

LEMMA FlattenJoins ==
  ASSUME NEW R, NEW n \in Nat \ {0}, NEW seqs \in [1 .. n -> Seq(R)]
  PROVE  \E f : Joins(f, seqs, n) /\ FlattenSeq(seqs) = f[n]
<1> DEFINE Flat(f) == f = [i \in 1 .. n |-> IF i = 1 THEN seqs[i] ELSE f[i - 1] \o seqs[i]]
           h == CHOOSE f : Flat(f)
           X == Seq(R)
           none == <<>>
           step == [i \in 1 .. n |-> [x \in X |-> x \o seqs[i]]]
<1>1. seqs \in Seq(Seq(R)) /\ Len(seqs) = n
  OBVIOUS
<1>2. FlattenSeq(seqs) = h[n]
  BY <1>1 DEF FlattenSeq
<1>3. none \in X /\ none \o seqs[1] = seqs[1]
  OBVIOUS
<1>4. step \in [1 .. n -> [X -> X]]
  <2>1. \A i \in 1 .. n, x \in X : x \o seqs[i] \in X
    OBVIOUS
  <2> HIDE DEF X
  <2> QED
    BY <2>1
<1>5. \A i \in 1 .. n, x \in X : step[i][x] = x \o seqs[i]
  OBVIOUS
<1> HIDE DEF step, X, none
<1>6. PICK g \in [0 .. n -> X] : Iterates(g, n, none, step)
  BY <1>3, <1>4, Recursion
<1>7. ASSUME NEW i \in 1 .. n PROVE g[i] = IF i = 1 THEN seqs[i] ELSE g[i - 1] \o seqs[i]
  <2>1. g[i] = step[i][g[i - 1]] /\ g[i - 1] \in X
    BY <1>6 DEF Iterates
  <2>2. g[i] = g[i - 1] \o seqs[i]
    BY <1>5, <2>1
  <2>3. g[0] = none /\ (i = 1 => g[i - 1] = g[0])
    BY <1>6 DEF Iterates
  <2>4. i = 1 => g[i] = seqs[i]
    BY <1>3, <2>2, <2>3
  <2> QED
    BY <2>2, <2>4
<1> DEFINE f == [i \in 1 .. n |-> g[i]]
<1>8. ASSUME NEW i \in 1 .. n PROVE f[i] = IF i = 1 THEN seqs[i] ELSE f[i - 1] \o seqs[i]
  <2>1. i # 1 => f[i - 1] = g[i - 1]
    OBVIOUS
  <2>2. f[i] = g[i]
    OBVIOUS
  <2> QED
    BY <1>7, <2>1, <2>2
<1>9. f = [i \in 1 .. n |-> f[i]]
  OBVIOUS
<1> HIDE DEF f
<1>10. Flat(f)
  BY <1>8, <1>9
<1>11. Flat(h)
  BY <1>10
<1> HIDE DEF h
<1>12. Joins(h, seqs, n)
  BY <1>11 DEF Joins
<1> QED
  BY <1>2, <1>12

(* Where the elements of seqs begin in a row, with their lengths len.      *)
Offsets(o, len, n) == o[0] = 0 /\ \A i \in 1 .. n : o[i] = o[i - 1] + len[i]

LEMMA OffsetsGrow ==
  ASSUME NEW n \in Nat, NEW o \in [0 .. n -> Nat], NEW len \in [1 .. n -> Nat], Offsets(o, len, n),
         NEW i \in 0 .. n, NEW j \in 0 .. n, i <= j
  PROVE  o[i] <= o[j]
<1> DEFINE U == {m \in i .. n : o[m] < o[i]}
<1>0. o[i] \in Nat /\ o[j] \in Nat /\ j \in i .. n
  OBVIOUS
<1>a. ~(o[i] <= o[j]) => j \in U
  BY <1>0
<1> SUFFICES ASSUME U # {} PROVE FALSE
  <2> HIDE DEF U
  <2> QED
    BY <1>a
<1>1. U \subseteq Nat
  OBVIOUS
<1>2. PICK m \in U : \A l \in U : m <= l
  <2> HIDE DEF U
  <2> QED
    BY <1>1, Least
<1>3. m \in 0 .. n /\ m >= i /\ o[m] < o[i]
  BY <1>2
<1>4. m # i /\ m - 1 \in i .. n /\ m \in 1 .. n
  <2>1. m # i
    BY <1>0, <1>3
  <2> QED
    BY <1>3, <2>1
<1>5. m - 1 \notin U
  <2> HIDE DEF U
  <2> QED
    BY <1>2, <1>4
<1>6. ~(o[m - 1] < o[i])
  BY <1>4, <1>5
<1>7. o[m] = o[m - 1] + len[m] /\ len[m] \in Nat /\ o[m - 1] \in Nat /\ o[i] \in Nat
  BY <1>4 DEF Offsets
<1> DEFINE a == o[m]
           b == o[m - 1]
           c == o[i]
           l == len[m]
<1>8. a < c /\ ~(b < c) /\ a = b + l /\ l \in Nat /\ b \in Nat /\ c \in Nat
  BY <1>3, <1>6, <1>7
<1> HIDE DEF a, b, c, l
<1> QED
  BY <1>8

LEMMA Concatenation ==
  ASSUME NEW R, NEW s \in Seq(R), NEW u \in Seq(R)
  PROVE  /\ s \o u \in Seq(R) /\ Len(s \o u) = Len(s) + Len(u)
         /\ \A k \in 1 .. Len(s) : (s \o u)[k] = s[k]
         /\ \A k \in 1 .. Len(u) : (s \o u)[Len(s) + k] = u[k]
<1>1. s \o u \in Seq(R) /\ Len(s \o u) = Len(s) + Len(u) /\ Len(s) \in Nat /\ Len(u) \in Nat
  OBVIOUS
<1>2. \A k \in 1 .. Len(s) : (s \o u)[k] = s[k]
  BY <1>1
<1>3. ASSUME NEW k \in 1 .. Len(u) PROVE (s \o u)[Len(s) + k] = u[k]
  <2>1. Len(s) + k \in 1 .. Len(s) + Len(u) /\ ~(Len(s) + k <= Len(s)) /\ Len(s) + k - Len(s) = k
    BY <1>1
  <2> QED
    BY <2>1
<1> QED
  BY <1>1, <1>2, <1>3

Appended(s, u, t) ==
  /\ Len(t) = Len(s) + Len(u)
  /\ \A k \in 1 .. Len(s) : t[k] = s[k]
  /\ \A k \in 1 .. Len(u) : t[Len(s) + k] = u[k]

LEMMA ConcatenationJoins ==
  ASSUME NEW R, NEW s \in Seq(R), NEW u \in Seq(R)
  PROVE  s \o u \in Seq(R) /\ Appended(s, u, s \o u)
  BY Concatenation DEF Appended

(* The elements of seqs up to the j-th lie in s where o says.              *)
Placed(s, seqs, o, j) == \A i \in 1 .. j : \A k \in 1 .. Len(seqs[i]) : s[o[i - 1] + k] = seqs[i][k]
Lengths(seqs, n) == [i \in 1 .. n |-> Len(seqs[i])]

LEMMA PlacedOneMore ==
  ASSUME NEW R, NEW n \in Nat, NEW seqs \in [1 .. n -> Seq(R)],
         NEW o \in [0 .. n -> Nat], Offsets(o, Lengths(seqs, n), n),
         NEW j \in 1 .. n, NEW s \in Seq(R), Len(s) = o[j - 1], Placed(s, seqs, o, j - 1)
  PROVE  s \o seqs[j] \in Seq(R) /\ Len(s \o seqs[j]) = o[j] /\ Placed(s \o seqs[j], seqs, o, j)
<1>1. ASSUME NEW i \in 1 .. n
      PROVE  /\ seqs[i] \in Seq(R) /\ Len(seqs[i]) \in Nat /\ Lengths(seqs, n)[i] = Len(seqs[i])
             /\ o[i] = o[i - 1] + Len(seqs[i]) /\ o[i - 1] \in Nat /\ o[i] \in Nat
  BY DEF Offsets, Lengths
<1>2. Lengths(seqs, n) \in [1 .. n -> Nat]
  BY <1>1 DEF Lengths
<1> DEFINE t == s \o seqs[j]
<1>3. /\ t \in Seq(R) /\ Len(t) = o[j]
      /\ \A k \in 1 .. Len(s) : t[k] = s[k]
      /\ \A k \in 1 .. Len(seqs[j]) : t[o[j - 1] + k] = seqs[j][k]
  <2> DEFINE u == seqs[j]
  <2>1. u \in Seq(R) /\ o[j] = Len(s) + Len(u) /\ seqs[j] = u /\ t = s \o u
    BY <1>1
  <2> HIDE DEF t, u
  <2>2. s \o u \in Seq(R) /\ Appended(s, u, s \o u)
    BY <2>1, ConcatenationJoins
  <2> QED
    BY <2>1, <2>2 DEF Appended
<1> HIDE DEF t
<1>4. ASSUME NEW i \in 1 .. j, NEW k \in 1 .. Len(seqs[i]) PROVE t[o[i - 1] + k] = seqs[i][k]
  <2>1. CASE i = j
    BY <1>3, <2>1
  <2>2. CASE i # j
    <3>1. i \in 1 .. j - 1 /\ i \in 1 .. n /\ i \in 0 .. n /\ j - 1 \in 0 .. n /\ i <= j - 1
      BY <2>2
    <3>2. o[i] <= o[j - 1] /\ o[j - 1] \in Nat
      BY <1>1, <1>2, <3>1, OffsetsGrow
    <3>3. o[i] = o[i - 1] + Len(seqs[i]) /\ o[i - 1] \in Nat /\ Len(seqs[i]) \in Nat
      BY <1>1, <3>1
    <3>4. o[i - 1] + k \in 1 .. Len(s)
      <4> DEFINE a == o[i - 1]
                 b == o[i]
                 l == Len(seqs[i])
                 m == Len(s)
      <4>1. a \in Nat /\ l \in Nat /\ b = a + l /\ b <= m /\ m \in Nat /\ k \in 1 .. l
        BY <3>2, <3>3
      <4> HIDE DEF a, b, l, m
      <4>2. a + k \in 1 .. m
        BY <4>1
      <4> QED
        BY <4>2 DEF a, m
    <3>5. s[o[i - 1] + k] = seqs[i][k]
      BY <3>1 DEF Placed
    <3> QED
      BY <1>3, <3>4, <3>5
  <2> QED
    BY <2>1, <2>2
<1> QED
  BY <1>3, <1>4 DEF Placed, t

LEMMA Flattened ==
  ASSUME NEW R, NEW n \in Nat \ {0}, NEW seqs \in [1 .. n -> Seq(R)],
         NEW o \in [0 .. n -> Nat], Offsets(o, Lengths(seqs, n), n)
  PROVE  Placed(FlattenSeq(seqs), seqs, o, n)
<1>1. PICK f : Joins(f, seqs, n) /\ FlattenSeq(seqs) = f[n]
  BY FlattenJoins
<1> DEFINE Good(j) == f[j] \in Seq(R) /\ Len(f[j]) = o[j] /\ Placed(f[j], seqs, o, j)
           T == {j \in 1 .. n : ~Good(j)}
<1> SUFFICES ASSUME T # {} PROVE FALSE
  <2>1. n \in 1 .. n /\ (n \notin T => Placed(f[n], seqs, o, n))
    OBVIOUS
  <2> HIDE DEF T
  <2> QED
    BY <1>1, <2>1
<1>2. T \subseteq Nat
  OBVIOUS
<1>3. PICK j \in T : \A i \in T : j <= i
  <2> HIDE DEF T
  <2> QED
    BY <1>2, Least
<1>4. j \in 1 .. n /\ ~Good(j)
  BY <1>3
<1>5. ASSUME NEW i \in 1 .. n, i < j PROVE Good(i)
  <2>1. i \notin T
    <3> HIDE DEF T
    <3> QED
      BY <1>3, <1>4, <1>5
  <2> QED
    BY <2>1
<1> HIDE DEF T
<1>6. f[j] = IF j = 1 THEN seqs[j] ELSE f[j - 1] \o seqs[j]
  BY <1>1, <1>4 DEF Joins
<1>7. CASE j = 1
  <2>1. f[1] = seqs[1] /\ seqs[1] \in Seq(R) /\ o[1] = Len(seqs[1])
    <3>1. o[1] = o[0] + Len(seqs[1]) /\ Len(seqs[1]) \in Nat /\ o[0] = 0
      BY <1>4, <1>7 DEF Offsets, Lengths
    <3> QED
      BY <1>4, <1>6, <1>7, <3>1
  <2>2. Placed(f[1], seqs, o, 1)
    <3>1. ASSUME NEW k \in 1 .. Len(seqs[1]) PROVE f[1][o[1 - 1] + k] = seqs[1][k]
      <4>1. o[0] = 0 /\ 1 - 1 = 0 /\ 0 + k = k
        BY DEF Offsets
      <4> QED
        BY <2>1, <4>1
    <3>2. \A i \in 1 .. 1 : i = 1
      OBVIOUS
    <3> QED
      BY <3>1, <3>2 DEF Placed
  <2> QED
    BY <1>4, <1>7, <2>1, <2>2
<1>8. CASE j # 1
  <2>1. j - 1 \in 1 .. n /\ j - 1 < j
    BY <1>4, <1>8
  <2>2. Good(j - 1)
    BY <1>5, <2>1
  <2>3. f[j] = f[j - 1] \o seqs[j]
    BY <1>6, <1>8
  <2> DEFINE q == f[j - 1]
  <2>4. q \in Seq(R) /\ Len(q) = o[j - 1] /\ Placed(q, seqs, o, j - 1) /\ f[j] = q \o seqs[j]
    BY <2>2, <2>3
  <2> HIDE DEF q
  <2>5. Good(j)
    <3> HIDE DEF Good
    <3>1. q \o seqs[j] \in Seq(R) /\ Len(q \o seqs[j]) = o[j] /\ Placed(q \o seqs[j], seqs, o, j)
      BY <1>4, <2>4, PlacedOneMore
    <3> QED
      BY <2>4, <3>1 DEF Good
  <2> QED
    BY <1>4, <2>5
<1> QED
  BY <1>7, <1>8
=============================================================================
