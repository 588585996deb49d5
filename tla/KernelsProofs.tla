---------------------------- MODULE KernelsProofs ----------------------------
(***************************************************************************)
(* What the filters make of an image, for images of every size.            *)
(*                                                                         *)
(* The linear filters: the tables of utils/filters.c are symmetric, so an  *)
(* image that is transposed, filtered and transposed back is the image     *)
(* filtered, which is what the by_column mode of MPI relies on; and what a *)
(* combination of pixels comes to when the pixels are known is the         *)
(* weighted sum under the taps.                                            *)
(*                                                                         *)
(* The median: selectKth returns the element of its range that has the     *)
(* rank asked for, so a pixel becomes the middle of the values around it.  *)
(***************************************************************************)
EXTENDS Kernels, SharedLemmas

-----------------------------------------------------------------------------
(* A table of numbers that is its own transpose.                           *)
Weight(k, t)  == k.at[t[1]][t[2]]
Mirrored(t)   == <<t[2], t[1]>>
Table(n, at)  == \A y, x \in 0 .. n - 1 : at[y][x] \in Int /\ at[y][x] = at[x][y]
Symmetric(k)  == k.size \in Nat /\ Table(k.size, k.at)

LEMMA FoldInTable ==
  ASSUME NEW n \in Nat, NEW m \in Nat, n = 2 * m - 1, NEW i \in 0 .. n - 1
  PROVE  Fold(i, n) \in 1 .. m
  BY DEF Fold

(* The quadrant of a table of an odd size.                                 *)
Mirrors(m, rows) == \A i, j \in 1 .. m : rows[i][j] \in Int /\ rows[i][j] = rows[j][i]

LEMMA QuadrantSymmetric ==
  ASSUME NEW n \in Nat, NEW m \in Nat, n = 2 * m - 1, NEW rows, Mirrors(m, rows)
  PROVE  Table(n, Quadrant(n, rows))
<1>1. ASSUME NEW y \in 0 .. n - 1, NEW x \in 0 .. n - 1
      PROVE  Quadrant(n, rows)[y][x] \in Int /\ Quadrant(n, rows)[y][x] = Quadrant(n, rows)[x][y]
  <2>1. Fold(y, n) \in 1 .. m /\ Fold(x, n) \in 1 .. m
    BY FoldInTable
  <2>2. /\ Quadrant(n, rows)[y][x] = rows[Fold(y, n)][Fold(x, n)]
       /\ Quadrant(n, rows)[x][y] = rows[Fold(x, n)][Fold(y, n)]
    BY DEF Quadrant
  <2> QED
    BY <2>1, <2>2 DEF Mirrors
<1> QED
  BY <1>1 DEF Table

LEMMA MedGausSymmetric == Symmetric(med_gaus)
<1> DEFINE rows == <<
             <<1, 1, 2, 2, 2>>, <<1, 2, 2, 3, 3>>, <<2, 2, 3, 4, 5>>,
             <<2, 3, 4, 5, 6>>, <<2, 3, 5, 6, 7>> >>
<1>1. med_gaus.size = 9 /\ med_gaus.at = Quadrant(9, rows)
  BY DEF med_gaus
<1>2. Mirrors(5, rows)
  <2>1. rows[1] = <<1, 1, 2, 2, 2>> /\ rows[2] = <<1, 2, 2, 3, 3>> /\ rows[3] = <<2, 2, 3, 4, 5>>
        /\ rows[4] = <<2, 3, 4, 5, 6>> /\ rows[5] = <<2, 3, 5, 6, 7>>
    OBVIOUS
  <2> HIDE DEF rows
  <2>2. \A i \in 1 .. 5 : i = 1 \/ i = 2 \/ i = 3 \/ i = 4 \/ i = 5
    OBVIOUS
  <2> QED
    BY <2>1, <2>2 DEF Mirrors
<1> HIDE DEF rows
<1>3. Table(9, Quadrant(9, rows))
  <2>1. 9 \in Nat /\ 5 \in Nat /\ 9 = 2 * 5 - 1
    OBVIOUS
  <2> QED
    BY <1>2, <2>1, QuadrantSymmetric, Zenon
<1> QED
  BY <1>1, <1>3 DEF Symmetric

LEMMA BigGausSymmetric == Symmetric(big_gaus)
<1> DEFINE rows == <<
             <<2, 2, 3, 3, 4, 4, 5, 5>>,     <<2, 3, 3, 4, 4, 5, 5, 6>>,
             <<3, 3, 4, 5, 5, 6, 6, 7>>,     <<3, 4, 5, 6, 7, 7, 8, 8>>,
             <<4, 4, 5, 7, 8, 9, 9, 10>>,    <<4, 5, 6, 7, 9, 10, 11, 11>>,
             <<5, 5, 6, 8, 9, 11, 12, 12>>,  <<5, 6, 7, 8, 10, 11, 12, 13>> >>
<1>1. big_gaus.size = 15 /\ big_gaus.at = Quadrant(15, rows)
  BY DEF big_gaus
<1>2. Mirrors(8, rows)
  <2>1. rows[1] = <<2, 2, 3, 3, 4, 4, 5, 5>> /\ rows[2] = <<2, 3, 3, 4, 4, 5, 5, 6>>
        /\ rows[3] = <<3, 3, 4, 5, 5, 6, 6, 7>> /\ rows[4] = <<3, 4, 5, 6, 7, 7, 8, 8>>
        /\ rows[5] = <<4, 4, 5, 7, 8, 9, 9, 10>> /\ rows[6] = <<4, 5, 6, 7, 9, 10, 11, 11>>
        /\ rows[7] = <<5, 5, 6, 8, 9, 11, 12, 12>> /\ rows[8] = <<5, 6, 7, 8, 10, 11, 12, 13>>
    OBVIOUS
  <2> HIDE DEF rows
  <2>2. \A i \in 1 .. 8 : i = 1 \/ i = 2 \/ i = 3 \/ i = 4 \/ i = 5 \/ i = 6 \/ i = 7 \/ i = 8
    OBVIOUS
  <2> QED
    BY <2>1, <2>2 DEF Mirrors
<1> HIDE DEF rows
<1>3. Table(15, Quadrant(15, rows))
  <2>1. 15 \in Nat /\ 8 \in Nat /\ 15 = 2 * 8 - 1
    OBVIOUS
  <2> QED
    BY <1>2, <2>1, QuadrantSymmetric, Zenon
<1> QED
  BY <1>1, <1>3 DEF Symmetric

(* The tables given by a formula.                                          *)
LEMMA TablesSymmetric == \A f \in DOMAIN FilterByName : Symmetric(FilterByName[f])
<1>1. Symmetric(motion_blur)
  BY DEF Symmetric, Table, motion_blur, Kernel, Image
<1>2. Symmetric(blur)
  BY DEF Symmetric, Table, blur, Kernel, Image, Abs
<1>3. Symmetric(gaus_blur)
  <2> DEFINE row == <<1, 4, 6, 4, 1>>
  <2>1. \A i \in 0 .. 4 : row[i + 1] \in Int
    OBVIOUS
  <2>2. gaus_blur.size = 5 /\ \A y, x \in 0 .. 4 : gaus_blur.at[y][x] = row[y + 1] * row[x + 1]
    BY DEF gaus_blur, Kernel, Image
  <2> HIDE DEF row
  <2>3. ASSUME NEW y \in 0 .. 4, NEW x \in 0 .. 4
        PROVE  gaus_blur.at[y][x] \in Int /\ gaus_blur.at[y][x] = gaus_blur.at[x][y]
    <3>1. row[y + 1] \in Int /\ row[x + 1] \in Int
      BY <2>1
    <3>2. row[y + 1] * row[x + 1] \in Int /\ row[y + 1] * row[x + 1] = row[x + 1] * row[y + 1]
      BY <3>1
    <3> QED
      BY <2>2, <3>2
  <2>4. Table(5, gaus_blur.at)
    BY <2>3 DEF Table
  <2> QED
    BY <2>2, <2>4 DEF Symmetric
<1>4. Symmetric(conv)
  BY DEF Symmetric, Table, conv, Kernel, Image
<1>5. Symmetric(sharpen)
  BY DEF Symmetric, Table, sharpen, Kernel, Image
<1>6. Symmetric(emboss)
  BY DEF Symmetric, Table, emboss, emboss_arr, Kernel, Image
<1>7. Symmetric(box_blur)
  BY DEF Symmetric, Table, box_blur, Kernel, Image
<1> QED
  BY <1>1, <1>2, <1>3, <1>4, <1>5, <1>6, <1>7, MedGausSymmetric, BigGausSymmetric DEF FilterByName

-----------------------------------------------------------------------------
(* How often a pixel is taken is a sum, whatever the order of the taps.    *)
Numbers(k, T)   == [t \in T |-> Weight(k, t)]
WeightSum(k, T) == MapThenSumSet(LAMBDA t : k.at[t[1]][t[2]], T)

LEMMA WeightsAdd ==
  ASSUME NEW k, NEW T, IsFiniteSet(T), Numbers(k, T) \in [T -> Int]
  PROVE  \E F : Adds(F, T, Numbers(k, T)) /\ WeightSum(k, T) = F[T]
<1> DEFINE Iter(F) == F = [s \in SUBSET T |->
             IF s = {} THEN 0
             ELSE k.at[(CHOOSE e \in s : TRUE)[1]][(CHOOSE e \in s : TRUE)[2]] + F[s \ {CHOOSE e \in s : TRUE}]]
           h == CHOOSE F : Iter(F)
<1>1. WeightSum(k, T) = h[T]
  BY DEF WeightSum, MapThenSumSet, MapThenFoldSet
<1>2. ASSUME NEW F PROVE Iter(F) <=> Adds(F, T, Numbers(k, T))
  <2>1. ASSUME NEW s \in SUBSET T, s # {}
        PROVE  Numbers(k, T)[AnyOf(s)] = k.at[(CHOOSE e \in s : TRUE)[1]][(CHOOSE e \in s : TRUE)[2]]
    <3>1. AnyOf(s) \in T
      BY <2>1 DEF AnyOf
    <3> QED
      BY <3>1 DEF Numbers, Weight, AnyOf
  <2>2. [s \in SUBSET T |->
             IF s = {} THEN 0
             ELSE k.at[(CHOOSE e \in s : TRUE)[1]][(CHOOSE e \in s : TRUE)[2]] + F[s \ {CHOOSE e \in s : TRUE}]]
        = [s \in SUBSET T |-> IF s = {} THEN 0 ELSE Numbers(k, T)[AnyOf(s)] + F[s \ {AnyOf(s)}]]
    BY <2>1 DEF AnyOf
  <2> QED
    BY <2>2 DEF Adds
<1>3. PICK F : Adds(F, T, Numbers(k, T))
  BY AddsExists
<1>4. Iter(F)
  BY <1>2, <1>3
<1>5. Iter(h)
  <2> HIDE DEF Iter
  <2> QED
    BY <1>4
<1>6. Adds(h, T, Numbers(k, T))
  <2> HIDE DEF h
  <2> QED
    BY <1>2, <1>5
<1> QED
  BY <1>1, <1>6

(* Symmetric weights do not tell the taps from their mirror images.        *)
TakenAt(k, u, p) == {t \in Taps(k) : u[t] = p}

LEMMA WeightsAre ==
  ASSUME NEW k, NEW u
  PROVE  Weights(k, u) = [p \in Range(u) |-> WeightSum(k, TakenAt(k, u, p))]
  BY DEF Weights, WeightSum, TakenAt

LEMMA TapsFinite == ASSUME NEW k, k.size \in Nat PROVE IsFiniteSet(Taps(k))
<1>1. IsFiniteSet(0 .. k.size - 1)
  BY FS_Interval
<1> QED
  BY <1>1, FS_Product DEF Taps

LEMMA MirroredTap ==
  ASSUME NEW k, NEW t \in Taps(k)
  PROVE  /\ Mirrored(t) \in Taps(k) /\ Mirrored(Mirrored(t)) = t
         /\ t[1] \in 0 .. k.size - 1 /\ t[2] \in 0 .. k.size - 1
         /\ Mirrored(t)[1] = t[2] /\ Mirrored(t)[2] = t[1]
  BY DEF Taps, Mirrored

LEMMA MirroredWeights ==
  ASSUME NEW k, Symmetric(k), NEW u, NEW v, DOMAIN u = Taps(k), DOMAIN v = Taps(k),
         \A t \in Taps(k) : u[t] = v[Mirrored(t)]
  PROVE  Weights(k, u) = Weights(k, v)
<1>1. \A t \in Taps(k) : Mirrored(t) \in Taps(k) /\ Mirrored(Mirrored(t)) = t
  BY MirroredTap
<1>2. \A t \in Taps(k) : Weight(k, t) \in Int /\ Weight(k, Mirrored(t)) = Weight(k, t)
  BY MirroredTap DEF Weight, Symmetric, Table
<1>3. Range(u) = Range(v)
  BY <1>1 DEF Range
<1>4. ASSUME NEW p PROVE WeightSum(k, TakenAt(k, u, p)) = WeightSum(k, TakenAt(k, v, p))
  <2> DEFINE S == TakenAt(k, u, p)
             R == TakenAt(k, v, p)
             s == [t \in S |-> Mirrored(t)]
             f == Numbers(k, S)
             g == Numbers(k, R)
  <2>1. S \subseteq Taps(k) /\ R \subseteq Taps(k)
    BY DEF TakenAt
  <2>2. IsFiniteSet(S) /\ IsFiniteSet(R)
    BY <2>1, TapsFinite, FS_Subset DEF Symmetric
  <2>3. s \in [S -> R] /\ \A x \in S : s[x] = Mirrored(x) /\ x = Mirrored(s[x])
    BY <1>1 DEF TakenAt
  <2>4. \A z \in R : Mirrored(z) \in S /\ s[Mirrored(z)] = z
    BY <1>1 DEF TakenAt
  <2>5. f \in [S -> Int] /\ g \in [R -> Int]
    BY <1>2, <2>1 DEF Numbers
  <2>6. \A x \in S : f[x] = g[s[x]]
    BY <1>2, <2>1, <2>3 DEF Numbers
  <2> HIDE DEF s, f, g, S, R
  <2>7. PICK F : Adds(F, S, f) /\ WeightSum(k, S) = F[S]
    BY <2>2, <2>5, WeightsAdd DEF f
  <2>8. PICK H : Adds(H, R, g) /\ WeightSum(k, R) = H[R]
    BY <2>2, <2>5, WeightsAdd DEF g
  <2>9. \A x, y \in S : s[x] = s[y] => x = y
    BY <2>3
  <2>10. \A z \in R : \E x \in S : s[x] = z
    BY <2>4
  <2>11. F[S] = H[R]
    BY <2>2, <2>3, <2>5, <2>6, <2>7, <2>8, <2>9, <2>10, AddsRenamed
  <2> QED
    BY <2>7, <2>8, <2>11 DEF S, R
<1> QED
  BY <1>3, <1>4, WeightsAre

-----------------------------------------------------------------------------
(* What Value and GpuValue sum up: the pixels, each with its weight.       *)
Terms(c, v, T) == [p \in T |-> c[p] * v[p]]
Dot(c, v)      == MapThenSumSet(LAMBDA p : c[p] * v[p], DOMAIN c)

LEMMA DotAdds ==
  ASSUME NEW c, NEW v, NEW T, DOMAIN c = T, IsFiniteSet(T), Terms(c, v, T) \in [T -> Int]
  PROVE  \E F : Adds(F, T, Terms(c, v, T)) /\ Dot(c, v) = F[T]
<1> DEFINE Iter(F) == F = [s \in SUBSET T |->
             IF s = {} THEN 0
             ELSE c[CHOOSE e \in s : TRUE] * v[CHOOSE e \in s : TRUE] + F[s \ {CHOOSE e \in s : TRUE}]]
           h == CHOOSE F : Iter(F)
<1>1. Dot(c, v) = h[T]
  BY DEF Dot, MapThenSumSet, MapThenFoldSet
<1>2. ASSUME NEW F PROVE Iter(F) <=> Adds(F, T, Terms(c, v, T))
  <2>1. ASSUME NEW s \in SUBSET T, s # {}
        PROVE  Terms(c, v, T)[AnyOf(s)] = c[CHOOSE e \in s : TRUE] * v[CHOOSE e \in s : TRUE]
    <3>1. AnyOf(s) \in T
      BY <2>1 DEF AnyOf
    <3> QED
      BY <3>1 DEF Terms, AnyOf
  <2>2. ASSUME NEW s \in SUBSET T, s # {}
        PROVE  c[CHOOSE e \in s : TRUE] * v[CHOOSE e \in s : TRUE] + F[s \ {CHOOSE e \in s : TRUE}]
                 = Terms(c, v, T)[AnyOf(s)] + F[s \ {AnyOf(s)}]
    BY <2>1, <2>2 DEF AnyOf
  <2>3. [s \in SUBSET T |->
             IF s = {} THEN 0
             ELSE c[CHOOSE e \in s : TRUE] * v[CHOOSE e \in s : TRUE] + F[s \ {CHOOSE e \in s : TRUE}]]
        = [s \in SUBSET T |-> IF s = {} THEN 0 ELSE Terms(c, v, T)[AnyOf(s)] + F[s \ {AnyOf(s)}]]
    BY <2>2
  <2> QED
    BY <2>3 DEF Adds
<1>3. PICK F : Adds(F, T, Terms(c, v, T))
  BY AddsExists
<1>4. Iter(F)
  <2> HIDE DEF Iter
  <2> QED
    BY <1>2, <1>3
<1>5. Iter(h)
  <2> HIDE DEF Iter
  <2> QED
    BY <1>4
<1>6. Adds(h, T, Terms(c, v, T))
  <2> HIDE DEF h
  <2> QED
    BY <1>2, <1>5
<1> QED
  BY <1>1, <1>6

(* It is the sum over the taps of the weight and the pixel under it.       *)
UnderTaps(k, u, v) == [t \in Taps(k) |-> Weight(k, t) * v[u[t]]]

LEMMA DotOverTaps ==
  ASSUME NEW k, k.size \in Nat, \A t \in Taps(k) : Weight(k, t) \in Int,
         NEW u, u = [t \in Taps(k) |-> u[t]], NEW v, \A t \in Taps(k) : v[u[t]] \in Int,
         NEW G, Adds(G, Taps(k), UnderTaps(k, u, v))
  PROVE  Dot(Weights(k, u), v) = G[Taps(k)] /\ G[Taps(k)] \in Int
<1> DEFINE S == Taps(k)
           P == Range(u)
           f == Numbers(k, S)
           g == UnderTaps(k, u, v)
           w == [p \in P |-> v[p]]
           c == Weights(k, u)
<1>1. IsFiniteSet(S)
  BY TapsFinite
<1>2. u \in [S -> P] /\ \A p \in P : \E t \in S : u[t] = p
  BY DEF Range
<1>3. IsFiniteSet(P)
  <2>1. u \in Surjection(S, P)
    BY <1>2 DEF Surjection
  <2> QED
    BY <1>1, <2>1, FS_Surjection
<1>4. f \in [S -> Int] /\ \A t \in S : f[t] = Weight(k, t)
  BY DEF Numbers
<1>5. w \in [P -> Int] /\ \A p \in P : w[p] = v[p]
  BY <1>2
<1>6. g \in [S -> Int] /\ \A t \in S : g[t] = f[t] * w[u[t]]
  BY <1>2, <1>4, <1>5 DEF UnderTaps
<1>7. DOMAIN c = P /\ \A p \in P : c[p] = WeightSum(k, Group(S, u, p))
  BY WeightsAre DEF TakenAt, Group
<1> HIDE DEF S, P, f, g, w, c
<1>8. PICK F : Adds(F, S, f)
  BY <1>1, <1>4, AddsExists
<1>9. ASSUME NEW p \in P PROVE c[p] = F[Group(S, u, p)] /\ c[p] \in Int
  <2> DEFINE T == Group(S, u, p)
             n == Numbers(k, T)
  <2>1. T \in SUBSET S /\ IsFiniteSet(T)
    BY <1>1, FS_Subset DEF Group
  <2>2. n \in [T -> Int] /\ \A x \in T : n[x] = f[x]
    BY <1>4, <2>1 DEF Numbers
  <2> HIDE DEF T, n
  <2>3. PICK H : Adds(H, T, n) /\ WeightSum(k, T) = H[T]
    BY <2>1, <2>2, WeightsAdd DEF n
  <2>4. H[T] = F[T]
    BY <1>1, <1>4, <1>8, <2>1, <2>2, <2>3, AddsPart
  <2>5. F[T] \in Int
    BY <1>1, <1>4, <1>8, <2>1, AddsInt
  <2> QED
    BY <1>7, <2>3, <2>4, <2>5 DEF T
<1> DEFINE d == Terms(c, v, P)
<1>10. d \in [P -> Int] /\ \A p \in P : d[p] = F[Group(S, u, p)] * w[p]
  BY <1>5, <1>9 DEF Terms
<1> HIDE DEF d
<1>11. PICK C : Adds(C, P, d) /\ Dot(c, v) = C[P]
  BY <1>3, <1>7, <1>10, DotAdds DEF d
<1>12. Adds(G, S, g)
  BY DEF S, g
<1>13. C[P] = G[S]
  BY <1>1, <1>2, <1>3, <1>4, <1>5, <1>6, <1>8, <1>10, <1>11, <1>12, Regrouped
<1>14. G[S] \in Int
  BY <1>1, <1>6, <1>12, AddsInt
<1> QED
  BY <1>11, <1>13, <1>14 DEF S, c

-----------------------------------------------------------------------------
(* An image of h rows and w columns.                                       *)
Shaped(image, h, w) ==
  /\ image = [y \in 0 .. h - 1 |-> image[y]]
  /\ \A y \in 0 .. h - 1 : image[y] = [x \in 0 .. w - 1 |-> image[y][x]]

Flipped(image, h, w) == [y \in 0 .. w - 1 |-> [x \in 0 .. h - 1 |-> image[x][y]]]

LEMMA TransposedShape ==
  ASSUME NEW image, NEW h \in Nat \ {0}, NEW w \in Nat, Shaped(image, h, w)
  PROVE  /\ Height(image) = h /\ Width(image) = w
         /\ Transposed(image) = Flipped(image, h, w)
         /\ Shaped(Transposed(image), w, h)
<1>1. DOMAIN image = 0 .. h - 1 /\ DOMAIN image[0] = 0 .. w - 1
  BY DEF Shaped
<1>2. Height(image) = h /\ Width(image) = w
  <2>1. Cardinality(0 .. h - 1) = h
    BY FS_Interval
  <2>2. Cardinality(0 .. w - 1) = w
    BY FS_Interval
  <2> QED
    BY <1>1, <2>1, <2>2 DEF Height, Width
<1>3. Transposed(image) = Flipped(image, h, w)
  BY <1>2 DEF Transposed, Image, Flipped
<1>4. Shaped(Transposed(image), w, h)
  BY <1>3 DEF Shaped, Flipped
<1> QED
  BY <1>2, <1>3, <1>4

(* What lies under the taps that make the pixel at y, x.                   *)
Under(k, image, h, w, y, x) ==
  [t \in Taps(k) |-> image[Clamp(y + t[1] - Padding(k), h)][Clamp(x + t[2] - Padding(k), w)]]

(* The filtered image, pixel by pixel.                                     *)
Applied(k, image, h, w) ==
  [y \in 0 .. h - 1 |-> [x \in 0 .. w - 1 |-> Weights(k, Under(k, image, h, w, y, x))]]

LEMMA AppliedTo ==
  ASSUME NEW k, NEW image, NEW h \in Nat \ {0}, NEW w \in Nat, Shaped(image, h, w)
  PROVE  apply_filter(k, image) = Applied(k, image, h, w) /\ Shaped(apply_filter(k, image), h, w)
<1>1. Height(image) = h /\ Width(image) = w
  BY TransposedShape
<1>2. apply_filter(k, image) = Applied(k, image, h, w)
  BY <1>1 DEF apply_filter, Image, Combination, Applied, Under
<1>3. Shaped(Applied(k, image, h, w), h, w)
  BY DEF Shaped, Applied
<1> QED
  BY <1>2, <1>3

LEMMA ClampInRange ==
  ASSUME NEW n \in Nat \ {0}, NEW i \in Int
  PROVE  Clamp(i, n) \in 0 .. n - 1
  BY DEF Clamp

(* An image that is transposed, filtered and transposed back is the image  *)
(* filtered (mpi-exec.c:29-119).                                           *)
THEOREM TransposeCommutes ==
  ASSUME NEW k, Symmetric(k), NEW image, NEW h \in Nat \ {0}, NEW w \in Nat \ {0}, Shaped(image, h, w)
  PROVE  Transposed(apply_filter(k, Transposed(image))) = apply_filter(k, image)
<1> DEFINE turned == Transposed(image)
           back == Transposed(apply_filter(k, turned))
<1>0. h \in Nat /\ w \in Nat
  OBVIOUS
<1>1. Shaped(turned, w, h) /\ turned = Flipped(image, h, w)
  BY <1>0, TransposedShape
<1>2. \A y \in 0 .. w - 1, x \in 0 .. h - 1 : turned[y][x] = image[x][y]
  BY <1>1 DEF Flipped
<1> HIDE DEF turned
<1>3. /\ apply_filter(k, turned) = Applied(k, turned, w, h)
      /\ Shaped(apply_filter(k, turned), w, h)
  BY <1>1, AppliedTo
<1>4. back = [y \in 0 .. h - 1 |-> [x \in 0 .. w - 1 |-> Applied(k, turned, w, h)[x][y]]]
  <2> DEFINE filtered == apply_filter(k, turned)
  <2>1. filtered = Applied(k, turned, w, h) /\ Shaped(filtered, w, h)
    BY <1>3
  <2> HIDE DEF filtered
  <2>2. Transposed(filtered) = Flipped(filtered, w, h)
    BY <1>0, <2>1, TransposedShape
  <2> QED
    BY <2>1, <2>2 DEF filtered, Flipped
<1>5. ASSUME NEW y \in 0 .. h - 1, NEW x \in 0 .. w - 1
      PROVE  Applied(k, turned, w, h)[x][y] = Weights(k, Under(k, image, h, w, y, x))
  <2> DEFINE u == Under(k, turned, w, h, x, y)
             v == Under(k, image, h, w, y, x)
  <2>1. ASSUME NEW t \in Taps(k) PROVE u[t] = v[Mirrored(t)]
    <3> DEFINE a == Clamp(x + t[1] - Padding(k), w)
               b == Clamp(y + t[2] - Padding(k), h)
    <3>1. t[1] \in Int /\ t[2] \in Int /\ Padding(k) \in Int
      BY MirroredTap DEF Symmetric, Padding
    <3>2. a \in 0 .. w - 1 /\ b \in 0 .. h - 1
      <4>1. x + t[1] - Padding(k) \in Int /\ y + t[2] - Padding(k) \in Int
        BY <3>1
      <4> QED
        BY <4>1, ClampInRange
    <3>3. u[t] = turned[a][b]
      BY DEF Under
    <3>4. v[Mirrored(t)] = image[b][a]
      BY MirroredTap DEF Under
    <3> HIDE DEF a, b, u, v
    <3> QED
      BY <1>2, <3>2, <3>3, <3>4
  <2>2. DOMAIN u = Taps(k) /\ DOMAIN v = Taps(k)
    BY DEF Under
  <2>3. Applied(k, turned, w, h)[x][y] = Weights(k, u)
    BY DEF Applied
  <2> HIDE DEF u, v
  <2>4. Weights(k, u) = Weights(k, v)
    BY <2>1, <2>2, MirroredWeights
  <2> QED
    BY <2>3, <2>4 DEF v
<1>6. back = Applied(k, image, h, w)
  BY <1>4, <1>5 DEF Applied
<1> QED
  BY <1>6, AppliedTo DEF turned
-----------------------------------------------------------------------------
(* The median.  A rearrangement of an array moves its elements from s on   *)
(* and before e.                                                           *)
MovesWithin(p, n, s, e) ==
  /\ p \in [1 .. n -> 1 .. n]
  /\ \A x, y \in 1 .. n : p[x] = p[y] => x = y
  /\ \A y \in 1 .. n : \E x \in 1 .. n : p[x] = y
  /\ \A x \in 1 .. n : x < s \/ x >= e => p[x] = x
MovedBy(p, a, b) == \A x \in 1 .. Len(a) : b[x] = a[p[x]]

Rearranged(a, b, s, e) ==
  /\ a \in Seq(Int) /\ b \in Seq(Int) /\ Len(b) = Len(a)
  /\ \E p : MovesWithin(p, Len(a), s, e) /\ MovedBy(p, a, b)

LEMMA SameArray == ASSUME NEW a \in Seq(Int), NEW s, NEW e PROVE Rearranged(a, a, s, e)
<1> DEFINE n == Len(a)
           p == [x \in 1 .. n |-> x]
<1>1. MovesWithin(p, n, s, e) /\ MovedBy(p, a, a)
  BY DEF MovesWithin, MovedBy
<1> HIDE DEF p
<1> QED
  BY <1>1 DEF Rearranged

LEMMA RearrangedWider ==
  ASSUME NEW a, NEW b, NEW s \in Int, NEW e \in Int, NEW from \in Int, NEW to \in Int,
         Rearranged(a, b, from, to), s <= from, to <= e
  PROVE  Rearranged(a, b, s, e)
<1>1. PICK p : MovesWithin(p, Len(a), from, to) /\ MovedBy(p, a, b)
  BY DEF Rearranged
<1>2. Len(a) \in Nat
  BY DEF Rearranged
<1>3. \A x \in 1 .. Len(a) : x < s \/ x >= e => x < from \/ x >= to
  BY <1>2
<1>4. MovesWithin(p, Len(a), s, e)
  BY <1>1, <1>3 DEF MovesWithin
<1> QED
  BY <1>1, <1>4 DEF Rearranged

LEMMA RearrangedTwice ==
  ASSUME NEW a, NEW b, NEW c, NEW s, NEW e, Rearranged(a, b, s, e), Rearranged(b, c, s, e)
  PROVE  Rearranged(a, c, s, e)
<1> DEFINE n == Len(a)
<1>1. Len(b) = n /\ Len(c) = n /\ a \in Seq(Int) /\ c \in Seq(Int)
  BY DEF Rearranged
<1>2. PICK p : MovesWithin(p, n, s, e) /\ MovedBy(p, a, b)
  BY DEF Rearranged
<1>3. PICK q : MovesWithin(q, n, s, e) /\ MovedBy(q, b, c)
  BY <1>1 DEF Rearranged
<1> DEFINE r == [x \in 1 .. n |-> p[q[x]]]
<1>4. \A x \in 1 .. n : q[x] \in 1 .. n /\ p[x] \in 1 .. n /\ r[x] = p[q[x]]
  BY <1>2, <1>3 DEF MovesWithin
<1>5. r \in [1 .. n -> 1 .. n]
  BY <1>4
<1> HIDE DEF r
<1>6. ASSUME NEW x \in 1 .. n, NEW y \in 1 .. n, r[x] = r[y] PROVE x = y
  <2>1. \A u, v \in 1 .. n : p[u] = p[v] => u = v
    BY <1>2 DEF MovesWithin
  <2>2. q[x] \in 1 .. n /\ q[y] \in 1 .. n /\ p[q[x]] = p[q[y]]
    BY <1>4, <1>6
  <2>3. q[x] = q[y]
    BY <2>1, <2>2
  <2> QED
    BY <1>3, <2>3 DEF MovesWithin
<1>7. ASSUME NEW y \in 1 .. n PROVE \E x \in 1 .. n : r[x] = y
  <2>1. PICK z \in 1 .. n : p[z] = y
    BY <1>2 DEF MovesWithin
  <2>2. PICK x \in 1 .. n : q[x] = z
    BY <1>3 DEF MovesWithin
  <2> QED
    BY <1>4, <2>1, <2>2
<1>8. ASSUME NEW x \in 1 .. n, x < s \/ x >= e PROVE r[x] = x
  <2>1. q[x] = x /\ p[x] = x
    BY <1>2, <1>3, <1>8 DEF MovesWithin
  <2> QED
    BY <1>4, <2>1
<1>9. MovesWithin(r, n, s, e)
  BY <1>5, <1>6, <1>7, <1>8 DEF MovesWithin
<1>10. ASSUME NEW x \in 1 .. n PROVE c[x] = a[r[x]]
  <2>1. c[x] = b[q[x]]
    BY <1>1, <1>3 DEF MovedBy
  <2>2. b[q[x]] = a[p[q[x]]]
    BY <1>2, <1>4 DEF MovedBy
  <2> QED
    BY <1>4, <2>1, <2>2
<1>11. MovedBy(r, a, c)
  BY <1>10 DEF MovedBy
<1> QED
  BY <1>1, <1>9, <1>11 DEF Rearranged

(* What is not in the range stays; what is comes from the range.           *)
StaysOutside(a, b, s, e) == \A x \in 1 .. Len(a) : x < s \/ x >= e => b[x] = a[x]
ComesFromInside(a, b, s, e) == \A x \in s .. e - 1 : \E y \in s .. e - 1 : b[x] = a[y]

LEMMA RearrangedInside ==
  ASSUME NEW a, NEW b, NEW s \in Nat \ {0}, NEW e \in Nat, e <= Len(a) + 1, Rearranged(a, b, s, e)
  PROVE  StaysOutside(a, b, s, e) /\ ComesFromInside(a, b, s, e)
<1> DEFINE n == Len(a)
<1>1. PICK p : MovesWithin(p, n, s, e) /\ MovedBy(p, a, b)
  BY DEF Rearranged
<1>2. n \in Nat
  BY DEF Rearranged
<1>3. StaysOutside(a, b, s, e)
  BY <1>1 DEF StaysOutside, MovesWithin, MovedBy
<1>4. ASSUME NEW x \in s .. e - 1 PROVE \E y \in s .. e - 1 : b[x] = a[y]
  <2>1. x \in 1 .. n
    BY <1>2
  <2>2. p[x] \in 1 .. n /\ b[x] = a[p[x]]
    BY <1>1, <2>1 DEF MovesWithin, MovedBy
  <2>3. ~(p[x] < s \/ p[x] >= e)
    <3>1. ASSUME p[x] < s \/ p[x] >= e PROVE FALSE
      <4>1. p[p[x]] = p[x]
        BY <1>1, <2>2, <3>1 DEF MovesWithin
      <4>2. p[x] = x
        BY <1>1, <2>1, <2>2, <4>1 DEF MovesWithin
      <4> QED
        BY <3>1, <4>2
    <3> QED
      BY <3>1
  <2> QED
    BY <1>2, <2>2, <2>3
<1> QED
  BY <1>3, <1>4 DEF ComesFromInside

(* swap.                                                                   *)
Exchanged(a, b, i, j) ==
  /\ b \in Seq(Int) /\ Len(b) = Len(a)
  /\ b[i] = a[j] /\ b[j] = a[i]
  /\ \A x \in 1 .. Len(a) : x # i /\ x # j => b[x] = a[x]

LEMMA SwapExchanges ==
  ASSUME NEW a \in Seq(Int), NEW i \in 1 .. Len(a), NEW j \in 1 .. Len(a)
  PROVE  Exchanged(a, Swap(a, i, j), i, j)
<1> DEFINE n == Len(a)
           b == Swap(a, i, j)
<1>1. n \in Nat /\ a \in [1 .. n -> Int]
  OBVIOUS
<1>2. b \in [1 .. n -> Int]
  BY <1>1 DEF Swap
<1>3. b \in Seq(Int) /\ Len(b) = n
  <2> HIDE DEF b
  <2> QED
    BY <1>1, <1>2
<1>4. b[i] = a[j] /\ b[j] = a[i] /\ \A x \in 1 .. n : x # i /\ x # j => b[x] = a[x]
  BY <1>1 DEF Swap
<1> QED
  BY <1>3, <1>4 DEF Exchanged

LEMMA SwapRearranges ==
  ASSUME NEW a \in Seq(Int), NEW i \in 1 .. Len(a), NEW j \in 1 .. Len(a), NEW s \in Int, NEW e \in Int,
         s <= i, i < e, s <= j, j < e
  PROVE  Rearranged(a, Swap(a, i, j), s, e)
<1> DEFINE n == Len(a)
           b == Swap(a, i, j)
           p == [x \in 1 .. n |-> IF x = i THEN j ELSE IF x = j THEN i ELSE x]
<1>1. Exchanged(a, b, i, j)
  BY SwapExchanges
<1>2. MovesWithin(p, n, s, e)
  BY DEF MovesWithin
<1>3. \A x \in 1 .. n : p[x] = IF x = i THEN j ELSE IF x = j THEN i ELSE x
  OBVIOUS
<1> HIDE DEF p, b
<1>4. MovedBy(p, a, b)
  BY <1>1, <1>3 DEF MovedBy, Exchanged
<1> QED
  BY <1>1, <1>2, <1>4 DEF Rearranged, Exchanged, b

(* partition: its loop goes on with c, until the place of the pivot.       *)
Carried(c)    == [data |-> Swap(c.data, c.i, c.j), i |-> c.i + 1, j |-> c.j + 1, e |-> c.e]
PassedOver(c) == [data |-> c.data, i |-> c.i + 1, j |-> c.j, e |-> c.e]
PartitionOf(F, c) ==
  IF c.i = c.e - 1 THEN [data |-> Swap(c.data, c.j, c.e - 1), j |-> c.j]
  ELSE IF c.data[c.i] < c.data[c.e - 1] THEN F[Carried(c)] ELSE F[PassedOver(c)]

Looping(c) ==
  /\ c.data \in Seq(Int) /\ Len(c.data) \in Nat /\ c.i \in Nat /\ c.j \in Nat /\ c.e \in Nat
  /\ 1 <= c.j /\ c.j <= c.i /\ c.i < c.e /\ c.e <= Len(c.data) + 1
LoopsOn(c, d) == d \in Loop /\ d.i = c.i + 1 /\ d.e = c.e

LEMMA LoopPlaces ==
  ASSUME NEW c, Looping(c)
  PROVE  /\ c.i \in 1 .. Len(c.data) /\ c.j \in 1 .. Len(c.data) /\ c.e - 1 \in 1 .. Len(c.data)
         /\ c.i + 1 \in Nat /\ c.j + 1 \in Nat
         /\ 1 <= c.j + 1 /\ c.j + 1 <= c.i + 1 /\ c.j <= c.i + 1
         /\ c.i # c.e - 1 => c.i + 1 < c.e
<1> DEFINE n == Len(c.data)
           i == c.i
           j == c.j
           e == c.e
<1>1. n \in Nat /\ i \in Nat /\ j \in Nat /\ e \in Nat /\ 1 <= j /\ j <= i /\ i < e /\ e <= n + 1
  BY DEF Looping
<1> HIDE DEF n, i, j, e
<1>2. i \in 1 .. n /\ j \in 1 .. n /\ e - 1 \in 1 .. n
  BY <1>1
<1>3. /\ i + 1 \in Nat /\ j + 1 \in Nat
      /\ 1 <= j + 1 /\ j + 1 <= i + 1 /\ j <= i + 1
      /\ i # e - 1 => i + 1 < e
  BY <1>1
<1> QED
  BY <1>2, <1>3 DEF n, i, j, e

LEMMA InLoop ==
  ASSUME NEW a \in Seq(Int), NEW i \in Nat, NEW j \in Nat, NEW e \in Nat,
         1 <= j, j <= i, i < e, e <= Len(a) + 1
  PROVE  [data |-> a, i |-> i, j |-> j, e |-> e] \in Loop
<1> DEFINE c == [data |-> a, i |-> i, j |-> j, e |-> e]
<1>1. c \in [data : Seq(Int), i : Nat, j : Nat, e : Nat]
  OBVIOUS
<1>2. c.data = a /\ c.i = i /\ c.j = j /\ c.e = e
  OBVIOUS
<1> HIDE DEF c
<1>3. c \in Loop
  BY <1>1, <1>2 DEF Loop
<1> QED
  BY <1>3 DEF c

LEMMA Loops ==
  ASSUME NEW c \in Loop
  PROVE  /\ Looping(c)
         /\ c.i # c.e - 1 =>
              /\ LoopsOn(c, Carried(c)) /\ LoopsOn(c, PassedOver(c))
              /\ Carried(c).data = Swap(c.data, c.i, c.j) /\ Carried(c).j = c.j + 1
              /\ PassedOver(c).data = c.data /\ PassedOver(c).j = c.j
<1>1. Looping(c)
  BY DEF Loop, Looping
<1>2. ASSUME c.i # c.e - 1
      PROVE  /\ LoopsOn(c, Carried(c)) /\ LoopsOn(c, PassedOver(c))
             /\ Carried(c).data = Swap(c.data, c.i, c.j) /\ Carried(c).j = c.j + 1
             /\ PassedOver(c).data = c.data /\ PassedOver(c).j = c.j
  <2> DEFINE b == Swap(c.data, c.i, c.j)
  <2>1. b \in Seq(Int) /\ Len(b) = Len(c.data)
    <3>1. c.i \in 1 .. Len(c.data) /\ c.j \in 1 .. Len(c.data)
      BY <1>1, LoopPlaces
    <3> QED
      BY <1>1, <3>1, SwapExchanges DEF Looping, Exchanged
  <2>2. /\ Carried(c).data = b /\ Carried(c).i = c.i + 1 /\ Carried(c).j = c.j + 1 /\ Carried(c).e = c.e
        /\ PassedOver(c).data = c.data /\ PassedOver(c).i = c.i + 1 /\ PassedOver(c).j = c.j
        /\ PassedOver(c).e = c.e
    BY DEF Carried, PassedOver
  <2>3. /\ c.i + 1 < c.e /\ c.i + 1 \in Nat /\ c.j + 1 \in Nat
        /\ 1 <= c.j + 1 /\ c.j + 1 <= c.i + 1 /\ c.j <= c.i + 1
    BY <1>1, <1>2, LoopPlaces
  <2>4. Carried(c) \in Loop
    <3> HIDE DEF b
    <3>1. [data |-> b, i |-> c.i + 1, j |-> c.j + 1, e |-> c.e] \in Loop
      BY <1>1, <2>1, <2>3, InLoop DEF Looping
    <3> QED
      BY <3>1 DEF Carried, b
  <2>5. PassedOver(c) \in Loop
    BY <1>1, <2>3, InLoop DEF Looping, PassedOver
  <2> QED
    BY <2>2, <2>4, <2>5 DEF LoopsOn
<1> QED
  BY <1>1, <1>2

LEMMA PartitionIs == ASSUME NEW c \in Loop PROVE partition[c] = PartitionOf(partition, c)
<1> DEFINE V == [data : Seq(Int), j : Nat]
           v == [data |-> <<>>, j |-> 0]
           m == [d \in Loop |-> d.e - d.i]
           step == [F \in [Loop -> V] |-> [d \in Loop |-> PartitionOf(F, d)]]
<1>1. v \in V
  OBVIOUS
<1>2. m \in [Loop -> Nat]
  <2>1. \A d \in Loop : d.e - d.i \in Nat
    BY Loops DEF Looping
  <2> QED
    BY <2>1
<1>3. ASSUME NEW F \in [Loop -> V], NEW d \in Loop PROVE PartitionOf(F, d) \in V
  <2>1. CASE d.i = d.e - 1
    <3>1. d.j \in 1 .. Len(d.data) /\ d.e - 1 \in 1 .. Len(d.data) /\ d.data \in Seq(Int)
      <4>1. Looping(d)
        BY Loops
      <4>2. d.data \in Seq(Int)
        BY <4>1 DEF Looping
      <4> QED
        BY <4>1, <4>2, LoopPlaces
    <3>2. Swap(d.data, d.j, d.e - 1) \in Seq(Int)
      BY <3>1, SwapExchanges DEF Exchanged
    <3> QED
      BY <2>1, <3>1, <3>2 DEF PartitionOf
  <2>2. CASE d.i # d.e - 1
    <3>1. Carried(d) \in Loop /\ PassedOver(d) \in Loop
      BY <2>2, Loops DEF LoopsOn
    <3> QED
      BY <2>2, <3>1 DEF PartitionOf
  <2> QED
    BY <2>1, <2>2
<1>4. ASSUME NEW F \in [Loop -> V], NEW G \in [Loop -> V], NEW d \in Loop, AgreeBelow(Loop, m, F, G, m[d])
      PROVE  PartitionOf(F, d) = PartitionOf(G, d)
  <2>1. CASE d.i = d.e - 1
    BY <2>1 DEF PartitionOf
  <2>2. CASE d.i # d.e - 1
    <3>1. ASSUME NEW n \in Loop, LoopsOn(d, n) PROVE F[n] = G[n]
      <4>1. m[n] < m[d]
        <5>1. d.i \in Nat /\ d.e \in Nat
          BY Loops DEF Looping
        <5>2. n.i = d.i + 1 /\ n.e = d.e
          BY <3>1 DEF LoopsOn
        <5>3. n.e - n.i < d.e - d.i
          <6> HIDE DEF V, v, m, step
          <6> QED
            BY <5>1, <5>2
        <5> QED
          BY <5>3
      <4> QED
        BY <1>4, <4>1 DEF AgreeBelow
    <3>2. F[Carried(d)] = G[Carried(d)] /\ F[PassedOver(d)] = G[PassedOver(d)]
      BY <2>2, <3>1, Loops DEF LoopsOn
    <3> QED
      BY <2>2, <3>2 DEF PartitionOf
  <2> QED
    BY <2>1, <2>2
<1> HIDE DEF V, v, m
<1>5. step \in [[Loop -> V] -> [Loop -> V]] /\ \A F \in [Loop -> V] : step[F] = [d \in Loop |-> PartitionOf(F, d)]
  BY <1>3
<1>6. NeedsBelow(Loop, V, m, step)
  BY <1>4, <1>5 DEF NeedsBelow
<1> HIDE DEF step
<1>7. HasFixpoint(Loop, V, step)
  <2>1. step \in [[Loop -> V] -> [Loop -> V]]
    BY <1>5
  <2> QED
    BY <1>1, <1>2, <1>6, <2>1, MeasuredRecursion
<1>8. \E F : F = [d \in Loop |-> PartitionOf(F, d)]
  <2>1. PICK F \in [Loop -> V] : F = step[F]
    BY <1>7 DEF HasFixpoint
  <2>2. step[F] = [d \in Loop |-> PartitionOf(F, d)]
    BY <1>5
  <2> QED
    BY <2>1, <2>2
<1>9. partition = CHOOSE F : F = [d \in Loop |-> PartitionOf(F, d)]
  BY DEF partition, PartitionOf, Carried, PassedOver
<1>10. partition = [d \in Loop |-> PartitionOf(partition, d)]
  BY <1>8, <1>9
<1> QED
  BY <1>10

(* What partition returns, r, of the elements of a from s on.              *)
Divided(a, r, s, e) ==
  /\ Rearranged(a, r.data, s, e)
  /\ r.j \in s .. e - 1
  /\ \A x \in s .. r.j - 1 : r.data[x] < r.data[r.j]
  /\ \A x \in r.j + 1 .. e - 1 : r.data[x] >= r.data[r.j]

(* How far the loop has got.                                               *)
Partly(c, s) ==
  /\ s <= c.j
  /\ \A x \in s .. c.j - 1 : c.data[x] < c.data[c.e - 1]
  /\ \A x \in c.j .. c.i - 1 : c.data[x] >= c.data[c.e - 1]

LEMMA PartlyGoesOn ==
  ASSUME NEW c \in Loop, NEW s \in Nat \ {0}, Partly(c, s), c.i # c.e - 1
  PROVE  IF c.data[c.i] < c.data[c.e - 1]
         THEN Partly(Carried(c), s) /\ Rearranged(c.data, Carried(c).data, s, c.e)
         ELSE Partly(PassedOver(c), s)
<1> DEFINE a == c.data
           i == c.i
           j == c.j
           e == c.e
           n == Len(a)
<1>1. /\ a \in Seq(Int) /\ n \in Nat /\ i \in Nat /\ j \in Nat /\ e \in Nat
      /\ s <= j /\ j <= i /\ i < e - 1 /\ e <= n + 1
  <2>1. Looping(c) /\ s <= j /\ i # e - 1
    BY Loops DEF Partly
  <2>2. a \in Seq(Int) /\ n \in Nat /\ i \in Nat /\ j \in Nat /\ e \in Nat /\ j <= i /\ e <= n + 1
    BY <2>1 DEF Looping
  <2>3. i + 1 < e
    BY <2>1, LoopPlaces
  <2>4. s <= j
    BY <2>1
  <2> HIDE DEF a, i, j, e, n
  <2> QED
    BY <2>2, <2>3, <2>4
<1>2. /\ \A x \in s .. j - 1 : a[x] < a[e - 1]
      /\ \A x \in j .. i - 1 : a[x] >= a[e - 1]
  BY DEF Partly
<1>3. CASE a[i] < a[e - 1]
  <2> DEFINE b == Swap(a, i, j)
  <2>1. Carried(c).data = b /\ Carried(c).i = i + 1 /\ Carried(c).j = j + 1 /\ Carried(c).e = e
    BY Loops DEF LoopsOn
  <2>2. Exchanged(a, b, i, j) /\ Rearranged(a, b, s, e)
    <3> HIDE DEF a, i, j, e
    <3>1. i \in 1 .. n /\ j \in 1 .. n
      BY <1>1
    <3> QED
      BY <1>1, <3>1, SwapExchanges, SwapRearranges
  <2> HIDE DEF a, b, i, j, e
  <2>3. b[e - 1] = a[e - 1]
    <3>1. e - 1 \in 1 .. n /\ e - 1 # i /\ e - 1 # j
      BY <1>1
    <3> QED
      BY <2>2, <3>1 DEF Exchanged
  <2>4. ASSUME NEW x \in s .. j PROVE b[x] < b[e - 1]
    <3>1. x \in 1 .. n
      BY <1>1
    <3>2. CASE x = j
      BY <1>3, <2>2, <2>3, <3>2 DEF Exchanged
    <3>3. CASE x # j
      <4>1. x \in s .. j - 1 /\ x # i
        BY <1>1, <3>3
      <4>2. b[x] = a[x]
        BY <2>2, <3>1, <3>3, <4>1 DEF Exchanged
      <4> QED
        BY <1>2, <2>3, <4>1, <4>2
    <3> QED
      BY <3>2, <3>3
  <2>5. ASSUME NEW x \in j + 1 .. i PROVE b[x] >= b[e - 1]
    <3>1. x \in 1 .. n /\ x # j /\ j \in j .. i - 1
      BY <1>1
    <3>2. CASE x = i
      BY <1>2, <2>2, <2>3, <3>1, <3>2 DEF Exchanged
    <3>3. CASE x # i
      <4>1. x \in j .. i - 1
        BY <1>1, <3>3
      <4>2. b[x] = a[x]
        BY <2>2, <3>1, <3>3, <4>1 DEF Exchanged
      <4> QED
        BY <1>2, <2>3, <4>1, <4>2
    <3> QED
      BY <3>2, <3>3
  <2>6. Partly(Carried(c), s)
    <3>1. s <= j + 1 /\ j + 1 - 1 = j /\ i + 1 - 1 = i
      BY <1>1
    <3> DEFINE d == Carried(c)
    <3> HIDE DEF d
    <3>2. d.data = b /\ d.i = i + 1 /\ d.j = j + 1 /\ d.e = e
      BY <2>1 DEF d
    <3>a. s .. d.j - 1 = s .. j /\ d.j .. d.i - 1 = j + 1 .. i
      <4>1. d.j - 1 = j /\ d.i - 1 = i
        BY <1>1, <3>2
      <4> QED
        BY <3>2, <4>1
    <3>3. \A x \in s .. d.j - 1 : d.data[x] < d.data[d.e - 1]
      BY <2>4, <3>2, <3>a
    <3>4. \A x \in d.j .. d.i - 1 : d.data[x] >= d.data[d.e - 1]
      BY <2>5, <3>2, <3>a
    <3> QED
      BY <3>1, <3>2, <3>3, <3>4 DEF Partly, d
  <2> QED
    BY <1>3, <2>1, <2>2, <2>6 DEF a, i, e
<1>4. CASE ~(a[i] < a[e - 1])
  <2>1. PassedOver(c).data = a /\ PassedOver(c).i = i + 1 /\ PassedOver(c).j = j /\ PassedOver(c).e = e
    BY Loops DEF LoopsOn
  <2>2. a[i] \in Int /\ a[e - 1] \in Int
    <3> HIDE DEF a, i, e
    <3> QED
      BY <1>1
  <2> HIDE DEF a, i, j, e
  <2>3. \A x \in j .. i : a[x] >= a[e - 1]
    BY <1>1, <1>2, <1>4, <2>2
  <2>4. Partly(PassedOver(c), s)
    <3>1. i + 1 - 1 = i
      BY <1>1
    <3> QED
      BY <1>1, <1>2, <2>1, <2>3, <3>1 DEF Partly
  <2> QED
    BY <1>4, <2>4 DEF a, i, e
<1> QED
  BY <1>3, <1>4

LEMMA PartitionDivides ==
  ASSUME NEW s \in Nat \ {0}, NEW c \in Loop, Partly(c, s)
  PROVE  Divided(c.data, partition[c], s, c.e)
<1> DEFINE m == [d \in Loop |-> d.e - d.i]
           G == {d \in Loop : Partly(d, s) => Divided(d.data, partition[d], s, d.e)}
<1>1. m \in [Loop -> Nat]
  <2>1. \A d \in Loop : d.e - d.i \in Nat
    BY Loops DEF Looping
  <2> QED
    BY <2>1
<1>2. ASSUME NEW d \in Loop, \A f \in Loop : m[f] < m[d] => f \in G, Partly(d, s)
      PROVE  Divided(d.data, partition[d], s, d.e)
  <2> DEFINE a == d.data
             j == d.j
             e == d.e
  <2>0. Looping(d) /\ s <= j
    BY <1>2, Loops DEF Partly
  <2>1. CASE d.i = e - 1
    <3> DEFINE b == Swap(a, j, e - 1)
    <3>1. partition[d] = [data |-> b, j |-> j]
      BY <2>1, PartitionIs DEF PartitionOf
    <3>2. /\ \A x \in s .. j - 1 : a[x] < a[e - 1]
          /\ \A x \in j .. e - 2 : a[x] >= a[e - 1]
      <4>1. d.i - 1 = e - 2
        BY <2>0, <2>1 DEF Looping
      <4> QED
        BY <1>2, <4>1 DEF Partly
    <3>3. a \in Seq(Int) /\ Len(a) \in Nat /\ j \in Nat /\ e \in Nat /\ j <= e - 1 /\ e <= Len(a) + 1
      BY <2>0, <2>1 DEF Looping
    <3> HIDE DEF a, j, e, b
    <3>4. j \in 1 .. Len(a) /\ e - 1 \in 1 .. Len(a)
      BY <2>0, <3>3
    <3>5. Exchanged(a, b, j, e - 1) /\ Rearranged(a, b, s, e)
      BY <2>0, <3>3, <3>4, SwapExchanges, SwapRearranges DEF b
    <3>6. ASSUME NEW x \in s .. j - 1 PROVE b[x] < b[j]
      <4>1. x \in 1 .. Len(a) /\ x # j /\ x # e - 1
        BY <2>0, <3>3
      <4>2. b[x] = a[x] /\ b[j] = a[e - 1]
        BY <3>5, <4>1 DEF Exchanged
      <4> QED
        BY <3>2, <4>2
    <3>7. ASSUME NEW x \in j + 1 .. e - 1 PROVE b[x] >= b[j]
      <4>1. x \in 1 .. Len(a) /\ x # j /\ j \in j .. e - 2
        BY <2>0, <3>3
      <4>2. b[j] = a[e - 1]
        BY <3>5 DEF Exchanged
      <4>3. CASE x = e - 1
        BY <3>2, <3>5, <4>1, <4>2, <4>3 DEF Exchanged
      <4>4. CASE x # e - 1
        <5>1. b[x] = a[x]
          BY <3>5, <4>1, <4>4 DEF Exchanged
        <5>2. x \in j .. e - 2
          BY <3>3, <4>4
        <5> QED
          BY <3>2, <4>2, <5>1, <5>2
      <4> QED
        BY <4>3, <4>4
    <3>8. Divided(a, [data |-> b, j |-> j], s, e)
      BY <2>0, <3>3, <3>5, <3>6, <3>7 DEF Divided
    <3> QED
      BY <3>1, <3>8 DEF a, e
  <2>2. ASSUME d.i # e - 1, NEW n \in Loop, LoopsOn(d, n), Partly(n, s), partition[d] = partition[n],
               Rearranged(a, n.data, s, e)
        PROVE  Divided(a, partition[d], s, e)
    <3>1. m[n] < m[d]
      BY <2>0, <2>2, Loops DEF LoopsOn, Looping
    <3>2. n \in G
      <4> HIDE DEF m, G
      <4> QED
        BY <1>2, <3>1
    <3>3. Divided(n.data, partition[n], s, e)
      BY <2>2, <3>2 DEF LoopsOn
    <3>4. Rearranged(a, partition[n].data, s, e)
      BY <2>2, <3>3, RearrangedTwice DEF Divided
    <3> QED
      BY <2>2, <3>3, <3>4 DEF Divided
  <2>3. CASE d.i # e - 1
    <3>1. CASE a[d.i] < a[e - 1]
      <4>1. partition[d] = partition[Carried(d)]
        BY <2>3, <3>1, PartitionIs DEF PartitionOf
      <4>2. Partly(Carried(d), s) /\ Rearranged(a, Carried(d).data, s, e)
        BY <1>2, <2>3, <3>1, PartlyGoesOn
      <4>3. LoopsOn(d, Carried(d)) /\ Carried(d) \in Loop
        BY <2>3, Loops DEF LoopsOn
      <4> QED
        BY <2>2, <2>3, <4>1, <4>2, <4>3
    <3>2. CASE ~(a[d.i] < a[e - 1])
      <4>1. partition[d] = partition[PassedOver(d)]
        BY <2>3, <3>2, PartitionIs DEF PartitionOf
      <4>2. Partly(PassedOver(d), s)
        BY <1>2, <2>3, <3>2, PartlyGoesOn
      <4>3. LoopsOn(d, PassedOver(d)) /\ PassedOver(d) \in Loop /\ PassedOver(d).data = a
        BY <2>3, Loops DEF LoopsOn
      <4>4. Rearranged(a, PassedOver(d).data, s, e)
        BY <2>0, <4>3, SameArray DEF Looping
      <4> QED
        BY <2>2, <2>3, <4>1, <4>2, <4>3, <4>4
    <3> QED
      BY <3>1, <3>2
  <2> QED
    BY <2>1, <2>3
<1>3. \A d \in Loop : (\A f \in Loop : m[f] < m[d] => f \in G) => d \in G
  <2> HIDE DEF m
  <2> QED
    BY <1>2
<1> HIDE DEF m, G
<1>4. c \in G
  BY <1>1, <1>3, MeasuredInduction
<1> QED
  BY <1>4 DEF G

(* The insertion sort of five or less: data[j] sinks to its place.         *)
Sunk(c) == [data |-> Swap(c.data, c.j, c.j - 1), s |-> c.s, j |-> c.j - 1]
Sinks(c) == c.j > c.s /\ c.data[c.j - 1] > c.data[c.j]
InsertOf(F, c) == IF Sinks(c) THEN F[Sunk(c)] ELSE c.data

Sinking(c) ==
  /\ c.data \in Seq(Int) /\ Len(c.data) \in Nat /\ c.s \in Nat /\ c.j \in Nat
  /\ 1 <= c.s /\ c.s <= c.j /\ c.j <= Len(c.data)

LEMMA InSlot ==
  ASSUME NEW a \in Seq(Int), NEW s \in Nat, NEW j \in Nat, 1 <= s, s <= j, j <= Len(a)
  PROVE  [data |-> a, s |-> s, j |-> j] \in Slot
<1> DEFINE c == [data |-> a, s |-> s, j |-> j]
<1>1. c \in [data : Seq(Int), s : Nat, j : Nat]
  OBVIOUS
<1>2. c.data = a /\ c.s = s /\ c.j = j
  OBVIOUS
<1> HIDE DEF c
<1>3. c \in Slot
  BY <1>1, <1>2 DEF Slot
<1> QED
  BY <1>3 DEF c

(* One place further down.                                                 *)
SinksTo(c, d) ==
  /\ d \in Slot /\ d.s = c.s /\ d.j = c.j - 1
  /\ Exchanged(c.data, d.data, c.j, c.j - 1) /\ Rearranged(c.data, d.data, c.s, c.j + 1)

LEMMA Slots ==
  ASSUME NEW c \in Slot
  PROVE  Sinking(c) /\ (Sinks(c) => SinksTo(c, Sunk(c)))
<1>1. Sinking(c)
  BY DEF Slot, Sinking
<1>2. ASSUME Sinks(c) PROVE SinksTo(c, Sunk(c))
  <2> DEFINE a == c.data
             s == c.s
             j == c.j
             b == Swap(a, j, j - 1)
  <2>1. a \in Seq(Int) /\ Len(a) \in Nat /\ s \in Nat /\ j \in Nat /\ 1 <= s /\ s < j /\ j <= Len(a)
    <3>1. j > s
      BY <1>2 DEF Sinks
    <3> QED
      BY <1>1, <3>1 DEF Sinking
  <2>2. Sunk(c) = [data |-> b, s |-> s, j |-> j - 1]
    BY DEF Sunk
  <2> HIDE DEF a, s, j, b
  <2>3. j - 1 \in Nat /\ j \in 1 .. Len(a) /\ j - 1 \in 1 .. Len(a) /\ s <= j - 1 /\ j - 1 <= Len(a) /\ j + 1 \in Int
    BY <2>1
  <2>4. Exchanged(a, b, j, j - 1)
    BY <2>1, <2>3, SwapExchanges DEF b
  <2>5. Rearranged(a, b, s, j + 1)
    <3>1. s \in Int /\ s <= j /\ j < j + 1 /\ j - 1 < j + 1
      BY <2>1
    <3> QED
      BY <2>1, <2>3, <3>1, SwapRearranges DEF b
  <2>6. [data |-> b, s |-> s, j |-> j - 1] \in Slot
    BY <2>1, <2>3, <2>4, InSlot DEF Exchanged
  <2> QED
    BY <2>2, <2>4, <2>5, <2>6 DEF SinksTo, a, s, j
<1> QED
  BY <1>1, <1>2

LEMMA InsertIs == ASSUME NEW c \in Slot PROVE insert[c] = InsertOf(insert, c)
<1> DEFINE V == Seq(Int)
           v == <<>>
           m == [d \in Slot |-> d.j]
           step == [F \in [Slot -> V] |-> [d \in Slot |-> InsertOf(F, d)]]
<1>1. v \in V
  OBVIOUS
<1>2. m \in [Slot -> Nat]
  <2>1. \A d \in Slot : d.j \in Nat
    BY Slots DEF Sinking
  <2> QED
    BY <2>1
<1>3. ASSUME NEW F \in [Slot -> V], NEW d \in Slot PROVE InsertOf(F, d) \in V
  BY <1>3, Slots DEF InsertOf, Sinking, SinksTo
<1>4. ASSUME NEW F \in [Slot -> V], NEW G \in [Slot -> V], NEW d \in Slot, AgreeBelow(Slot, m, F, G, m[d])
      PROVE  InsertOf(F, d) = InsertOf(G, d)
  <2>1. CASE ~Sinks(d)
    BY <2>1 DEF InsertOf
  <2>2. CASE Sinks(d)
    <3>1. Sunk(d) \in Slot /\ Sunk(d).j = d.j - 1 /\ d.j \in Nat
      BY <2>2, Slots DEF SinksTo, Sinking
    <3>2. m[Sunk(d)] < m[d]
      BY <3>1
    <3>3. F[Sunk(d)] = G[Sunk(d)]
      BY <1>4, <3>1, <3>2 DEF AgreeBelow
    <3> QED
      BY <2>2, <3>3 DEF InsertOf
  <2> QED
    BY <2>1, <2>2
<1> HIDE DEF V, v, m
<1>5. step \in [[Slot -> V] -> [Slot -> V]] /\ \A F \in [Slot -> V] : step[F] = [d \in Slot |-> InsertOf(F, d)]
  BY <1>3
<1>6. NeedsBelow(Slot, V, m, step)
  BY <1>4, <1>5 DEF NeedsBelow
<1> HIDE DEF step
<1>7. HasFixpoint(Slot, V, step)
  <2>1. step \in [[Slot -> V] -> [Slot -> V]]
    BY <1>5
  <2> QED
    BY <1>1, <1>2, <1>6, <2>1, MeasuredRecursion
<1>8. \E F : F = [d \in Slot |-> InsertOf(F, d)]
  <2>1. PICK F \in [Slot -> V] : F = step[F]
    BY <1>7 DEF HasFixpoint
  <2>2. step[F] = [d \in Slot |-> InsertOf(F, d)]
    BY <1>5
  <2> QED
    BY <2>1, <2>2
<1>9. insert = CHOOSE F : F = [d \in Slot |-> InsertOf(F, d)]
  BY DEF insert, InsertOf, Sunk, Sinks
<1>10. insert = [d \in Slot |-> InsertOf(insert, d)]
  BY <1>8, <1>9
<1> QED
  BY <1>10

(* In order from s to i, but for the element at j, which may be too small. *)
Ordered(a, s, i)   == \A x, y \in s .. i : x < y => a[x] <= a[y]
Almost(a, s, j, i) == \A x, y \in s .. i : x < y /\ y # j => a[x] <= a[y]

LEMMA AlmostSinks ==
  ASSUME NEW a \in Seq(Int), NEW b, NEW s \in Nat \ {0}, NEW j \in Nat, NEW i \in Nat,
         s < j, j <= i, i <= Len(a), Almost(a, s, j, i), a[j - 1] > a[j], Exchanged(a, b, j, j - 1)
  PROVE  Almost(b, s, j - 1, i)
<1>1. \A x \in s .. i : x \in 1 .. Len(a) /\ a[x] \in Int
  OBVIOUS
<1>2. j \in s .. i /\ j - 1 \in s .. i
  OBVIOUS
<1>3. b[j] = a[j - 1] /\ b[j - 1] = a[j]
  BY DEF Exchanged
<1>4. \A x \in s .. i : x # j /\ x # j - 1 => b[x] = a[x]
  BY <1>1 DEF Exchanged
<1>5. \A x, y \in s .. i : x < y /\ y # j => a[x] <= a[y]
  BY DEF Almost
<1>6. ASSUME NEW x \in s .. i, NEW y \in s .. i, x < y, y # j - 1 PROVE b[x] <= b[y]
  <2>1. CASE y = j /\ x = j - 1
    BY <1>1, <1>2, <1>3, <2>1
  <2>2. CASE y = j /\ x # j - 1
    <3>1. x < j - 1 /\ x # j /\ j - 1 # j
      BY <1>6, <2>2
    <3>2. a[x] <= a[j - 1]
      BY <1>2, <1>5, <3>1
    <3> QED
      BY <1>3, <1>4, <2>2, <3>1, <3>2
  <2>3. CASE y # j /\ (x = j \/ x = j - 1)
    <3>1. j < y /\ j - 1 < y
      BY <1>6, <2>3
    <3>2. a[j] <= a[y] /\ a[j - 1] <= a[y]
      BY <1>2, <1>5, <2>3, <3>1
    <3>3. b[y] = a[y]
      BY <1>4, <1>6, <2>3
    <3> QED
      BY <1>3, <2>3, <3>2, <3>3
  <2>4. CASE y # j /\ x # j /\ x # j - 1
    BY <1>4, <1>5, <1>6, <2>4
  <2> QED
    BY <2>1, <2>2, <2>3, <2>4
<1> QED
  BY <1>6 DEF Almost

LEMMA AlmostInPlace ==
  ASSUME NEW a \in Seq(Int), NEW s \in Nat \ {0}, NEW j \in Nat, NEW i \in Nat,
         s <= j, j <= i, i <= Len(a), Almost(a, s, j, i), j = s \/ a[j - 1] <= a[j]
  PROVE  Ordered(a, s, i)
<1>1. \A x \in s .. i : a[x] \in Int
  OBVIOUS
<1>2. ASSUME NEW x \in s .. i, NEW y \in s .. i, x < y PROVE a[x] <= a[y]
  <2>1. CASE y # j
    BY <1>2, <2>1 DEF Almost
  <2>2. CASE y = j /\ x = j - 1
    BY <1>2, <2>2
  <2>3. CASE y = j /\ x # j - 1
    <3>1. x < j - 1 /\ j - 1 \in s .. i /\ j - 1 # j /\ j # s
      BY <1>2, <2>3
    <3>2. a[x] <= a[j - 1] /\ a[j - 1] <= a[j]
      BY <3>1 DEF Almost
    <3> QED
      BY <1>1, <1>2, <2>3, <3>1, <3>2
  <2> QED
    BY <2>1, <2>2, <2>3
<1> QED
  BY <1>2 DEF Ordered

(* What insert returns, r.                                                 *)
Inserted(c, r) ==
  /\ Rearranged(c.data, r, c.s, c.j + 1)
  /\ \A i \in c.j .. Len(c.data) : Almost(c.data, c.s, c.j, i) => Ordered(r, c.s, i)

LEMMA InsertOrders == ASSUME NEW c \in Slot PROVE Inserted(c, insert[c])
<1> DEFINE m == [d \in Slot |-> d.j]
           G == {d \in Slot : Inserted(d, insert[d])}
<1>1. m \in [Slot -> Nat]
  <2>1. \A d \in Slot : d.j \in Nat
    BY Slots DEF Sinking
  <2> QED
    BY <2>1
<1>2. ASSUME NEW d \in Slot, \A f \in Slot : m[f] < m[d] => f \in G PROVE Inserted(d, insert[d])
  <2> DEFINE a == d.data
             s == d.s
             j == d.j
  <2>1. a \in Seq(Int) /\ Len(a) \in Nat /\ s \in Nat \ {0} /\ j \in Nat /\ s <= j /\ j <= Len(a)
    BY Slots DEF Sinking
  <2>2. CASE ~Sinks(d)
    <3>1. insert[d] = a
      BY <2>2, InsertIs DEF InsertOf
    <3>2. j = s \/ a[j - 1] <= a[j]
      <4>1. ~(j > s) \/ ~(a[j - 1] > a[j])
        BY <2>2 DEF Sinks
      <4> HIDE DEF a, s, j
      <4>2. j # s => a[j - 1] \in Int /\ a[j] \in Int
        BY <2>1
      <4> QED
        BY <2>1, <4>1, <4>2
    <3> HIDE DEF a, s, j
    <3>3. ASSUME NEW i \in j .. Len(a), Almost(a, s, j, i) PROVE Ordered(a, s, i)
      <4>1. i \in Nat /\ j <= i /\ i <= Len(a)
        BY <2>1
      <4> QED
        BY <2>1, <3>2, <3>3, <4>1, AlmostInPlace
    <3>4. Rearranged(a, a, s, j + 1)
      BY <2>1, SameArray
    <3> QED
      BY <3>1, <3>3, <3>4 DEF Inserted, a, s, j
  <2>3. CASE Sinks(d)
    <3> DEFINE n == Sunk(d)
               b == n.data
               r == insert[n]
    <3>1. insert[d] = r
      BY <2>3, InsertIs DEF InsertOf
    <3>2. n \in Slot /\ n.s = s /\ n.j = j - 1 /\ Exchanged(a, b, j, j - 1) /\ Rearranged(a, b, s, j + 1)
      BY <2>3, Slots DEF SinksTo
    <3>3. Inserted(n, r)
      <4>1. m[n] < m[d]
        BY <2>1, <3>2
      <4>2. n \in G
        <5> HIDE DEF m, G, n
        <5> QED
          BY <1>2, <3>2, <4>1
      <4> QED
        BY <4>2
    <3>4. s < j /\ a[j - 1] > a[j]
      <4>1. j > s /\ a[j - 1] > a[j]
        BY <2>3 DEF Sinks
      <4> HIDE DEF a, s, j
      <4> QED
        BY <2>1, <4>1
    <3>5. Len(b) = Len(a)
      BY <3>2 DEF Exchanged
    <3> HIDE DEF n, r
    <3>6. /\ Rearranged(b, r, s, j - 1 + 1)
          /\ \A i \in j - 1 .. Len(b) : Almost(b, s, j - 1, i) => Ordered(r, s, i)
      BY <3>2, <3>3 DEF Inserted
    <3> HIDE DEF a, s, j, b
    <3>7. Rearranged(a, r, s, j + 1)
      <4>1. Rearranged(b, r, s, j + 1)
        <5>1. s \in Int /\ j + 1 \in Int /\ j - 1 + 1 \in Int /\ s <= s /\ j - 1 + 1 <= j + 1
          BY <2>1
        <5> QED
          BY <3>6, <5>1, RearrangedWider
      <4> QED
        BY <3>2, <4>1, RearrangedTwice
    <3>8. ASSUME NEW i \in j .. Len(a), Almost(a, s, j, i) PROVE Ordered(r, s, i)
      <4>1. i \in Nat /\ j <= i /\ i <= Len(a) /\ i \in j - 1 .. Len(b)
        BY <2>1, <3>5
      <4>2. Almost(b, s, j - 1, i)
        BY <2>1, <3>2, <3>4, <3>8, <4>1, AlmostSinks
      <4> QED
        BY <3>6, <4>1, <4>2
    <3> QED
      BY <3>1, <3>7, <3>8 DEF Inserted, a, s, j
  <2> QED
    BY <2>2, <2>3
<1>3. \A d \in Slot : (\A f \in Slot : m[f] < m[d] => f \in G) => d \in G
  <2> HIDE DEF m
  <2> QED
    BY <1>2
<1> HIDE DEF m, G
<1>4. c \in G
  BY <1>1, <1>3, MeasuredInduction
<1> QED
  BY <1>4 DEF G

(* The sort goes on with the next element.                                 *)
Slotted(c) == [data |-> c.data, s |-> c.s, j |-> c.i]
Grown(c) == [data |-> insert[Slotted(c)], s |-> c.s, i |-> c.i + 1, e |-> c.e]
SortOf(F, c) == IF c.i = c.e THEN c.data ELSE F[Grown(c)]

Sorting(c) ==
  /\ c.data \in Seq(Int) /\ Len(c.data) \in Nat /\ c.s \in Nat /\ c.i \in Nat /\ c.e \in Nat
  /\ 1 <= c.s /\ c.s < c.i /\ c.i <= c.e /\ c.e <= Len(c.data) + 1

LEMMA InUnsorted ==
  ASSUME NEW a \in Seq(Int), NEW s \in Nat, NEW i \in Nat, NEW e \in Nat,
         1 <= s, s < i, i <= e, e <= Len(a) + 1
  PROVE  [data |-> a, s |-> s, i |-> i, e |-> e] \in Unsorted
<1> DEFINE c == [data |-> a, s |-> s, i |-> i, e |-> e]
<1>1. c \in [data : Seq(Int), s : Nat, i : Nat, e : Nat]
  OBVIOUS
<1>2. c.data = a /\ c.s = s /\ c.i = i /\ c.e = e
  OBVIOUS
<1> HIDE DEF c
<1>3. c \in Unsorted
  BY <1>1, <1>2 DEF Unsorted
<1> QED
  BY <1>3 DEF c

GrowsTo(c, d) ==
  /\ d \in Unsorted /\ d.s = c.s /\ d.i = c.i + 1 /\ d.e = c.e
  /\ Rearranged(c.data, d.data, c.s, c.e)
  /\ Ordered(c.data, c.s, c.i - 1) => Ordered(d.data, c.s, c.i)

LEMMA Grows ==
  ASSUME NEW c \in Unsorted
  PROVE  Sorting(c) /\ (c.i # c.e => GrowsTo(c, Grown(c)))
<1>1. Sorting(c)
  BY DEF Unsorted, Sorting
<1>2. ASSUME c.i # c.e PROVE GrowsTo(c, Grown(c))
  <2> DEFINE a == c.data
             s == c.s
             i == c.i
             e == c.e
             r == insert[Slotted(c)]
  <2>1. /\ a \in Seq(Int) /\ Len(a) \in Nat /\ s \in Nat /\ i \in Nat /\ e \in Nat
        /\ 1 <= s /\ s < i /\ i < e /\ e <= Len(a) + 1
    <3>1. i # e
      BY <1>2
    <3> QED
      BY <1>1, <3>1 DEF Sorting
  <2>2. Grown(c) = [data |-> r, s |-> s, i |-> i + 1, e |-> e]
    BY DEF Grown
  <2>3. Slotted(c) = [data |-> a, s |-> s, j |-> i]
    BY DEF Slotted
  <2> HIDE DEF a, s, i, e, r
  <2>4. s <= i /\ i <= Len(a) /\ i \in i .. Len(a) /\ i + 1 \in Nat /\ i + 1 <= e /\ s < i + 1
    BY <2>1
  <2>5. Slotted(c) \in Slot
    BY <2>1, <2>3, <2>4, InSlot
  <2>6. Slotted(c).data = a /\ Slotted(c).s = s /\ Slotted(c).j = i
    BY <2>3
  <2>7. Rearranged(a, r, s, i + 1) /\ (Almost(a, s, i, i) => Ordered(r, s, i))
    <3>1. Inserted(Slotted(c), r)
      BY <2>5, InsertOrders DEF r
    <3> QED
      BY <2>4, <2>6, <3>1 DEF Inserted
  <2>8. Rearranged(a, r, s, e)
    <3>1. s \in Int /\ e \in Int /\ i + 1 \in Int /\ s <= s
      BY <2>1
    <3> QED
      BY <2>4, <2>7, <3>1, RearrangedWider
  <2>9. Ordered(a, s, i - 1) => Almost(a, s, i, i)
    <3>1. ASSUME NEW y \in s .. i, y # i PROVE y \in s .. i - 1
      BY <2>1, <3>1
    <3>2. ASSUME NEW x \in s .. i, NEW y \in s .. i, x < y, y # i PROVE x \in s .. i - 1
      BY <2>1, <3>2
    <3> QED
      BY <3>1, <3>2 DEF Ordered, Almost
  <2>10. Grown(c) \in Unsorted
    <3>1. r \in Seq(Int) /\ Len(r) = Len(a)
      BY <2>8 DEF Rearranged
    <3> QED
      BY <2>1, <2>2, <2>4, <3>1, InUnsorted
  <2>11. Grown(c).data = r /\ Grown(c).s = s /\ Grown(c).i = i + 1 /\ Grown(c).e = e
    BY <2>2
  <2> QED
    BY <2>7, <2>8, <2>9, <2>10, <2>11 DEF GrowsTo, a, s, i, e
<1> QED
  BY <1>1, <1>2

LEMMA SortIs == ASSUME NEW c \in Unsorted PROVE sort[c] = SortOf(sort, c)
<1> DEFINE V == Seq(Int)
           v == <<>>
           m == [d \in Unsorted |-> d.e - d.i]
           step == [F \in [Unsorted -> V] |-> [d \in Unsorted |-> SortOf(F, d)]]
<1>1. v \in V
  OBVIOUS
<1>2. m \in [Unsorted -> Nat]
  <2>1. \A d \in Unsorted : d.e - d.i \in Nat
    BY Grows DEF Sorting
  <2> QED
    BY <2>1
<1>3. ASSUME NEW F \in [Unsorted -> V], NEW d \in Unsorted PROVE SortOf(F, d) \in V
  BY <1>3, Grows DEF SortOf, Sorting, GrowsTo
<1>4. ASSUME NEW F \in [Unsorted -> V], NEW G \in [Unsorted -> V], NEW d \in Unsorted,
             AgreeBelow(Unsorted, m, F, G, m[d])
      PROVE  SortOf(F, d) = SortOf(G, d)
  <2>1. CASE d.i = d.e
    BY <2>1 DEF SortOf
  <2>2. CASE d.i # d.e
    <3>1. Grown(d) \in Unsorted /\ Grown(d).i = d.i + 1 /\ Grown(d).e = d.e
      BY <2>2, Grows DEF GrowsTo
    <3>2. m[Grown(d)] < m[d]
      BY <3>1, Grows DEF Sorting
    <3>3. F[Grown(d)] = G[Grown(d)]
      BY <1>4, <3>1, <3>2 DEF AgreeBelow
    <3> QED
      BY <2>2, <3>3 DEF SortOf
  <2> QED
    BY <2>1, <2>2
<1> HIDE DEF V, v, m
<1>5. /\ step \in [[Unsorted -> V] -> [Unsorted -> V]]
      /\ \A F \in [Unsorted -> V] : step[F] = [d \in Unsorted |-> SortOf(F, d)]
  BY <1>3
<1>6. NeedsBelow(Unsorted, V, m, step)
  BY <1>4, <1>5 DEF NeedsBelow
<1> HIDE DEF step
<1>7. HasFixpoint(Unsorted, V, step)
  <2>1. step \in [[Unsorted -> V] -> [Unsorted -> V]]
    BY <1>5
  <2> QED
    BY <1>1, <1>2, <1>6, <2>1, MeasuredRecursion
<1>8. \E F : F = [d \in Unsorted |-> SortOf(F, d)]
  <2>1. PICK F \in [Unsorted -> V] : F = step[F]
    BY <1>7 DEF HasFixpoint
  <2>2. step[F] = [d \in Unsorted |-> SortOf(F, d)]
    BY <1>5
  <2> QED
    BY <2>1, <2>2
<1>9. sort = CHOOSE F : F = [d \in Unsorted |-> SortOf(F, d)]
  BY DEF sort, SortOf, Grown, Slotted
<1>10. sort = [d \in Unsorted |-> SortOf(sort, d)]
  BY <1>8, <1>9
<1> QED
  BY <1>10

(* What sort returns, r.                                                   *)
Sorted(c, r) ==
  /\ Rearranged(c.data, r, c.s, c.e)
  /\ Ordered(c.data, c.s, c.i - 1) => Ordered(r, c.s, c.e - 1)

LEMMA SortSorts == ASSUME NEW c \in Unsorted PROVE Sorted(c, sort[c])
<1> DEFINE m == [d \in Unsorted |-> d.e - d.i]
           G == {d \in Unsorted : Sorted(d, sort[d])}
<1>1. m \in [Unsorted -> Nat]
  <2>1. \A d \in Unsorted : d.e - d.i \in Nat
    BY Grows DEF Sorting
  <2> QED
    BY <2>1
<1>2. ASSUME NEW d \in Unsorted, \A f \in Unsorted : m[f] < m[d] => f \in G PROVE Sorted(d, sort[d])
  <2>1. CASE d.i = d.e
    <3>1. sort[d] = d.data
      BY <2>1, SortIs DEF SortOf
    <3>2. Rearranged(d.data, d.data, d.s, d.e)
      BY Grows, SameArray DEF Sorting
    <3> QED
      BY <2>1, <3>1, <3>2 DEF Sorted
  <2>2. CASE d.i # d.e
    <3> DEFINE n == Grown(d)
               r == sort[n]
    <3>1. sort[d] = r
      BY <2>2, SortIs DEF SortOf
    <3>2. GrowsTo(d, n)
      BY <2>2, Grows
    <3> HIDE DEF n
    <3>3. Sorted(n, r)
      <4>1. n \in Unsorted /\ m[n] < m[d]
        BY <3>2, Grows DEF GrowsTo, Sorting
      <4>2. n \in G
        <5> HIDE DEF m, G
        <5> QED
          BY <1>2, <4>1
      <4> QED
        BY <4>2
    <3> HIDE DEF r
    <3>4. n.i - 1 = d.i
      BY <3>2, Grows DEF GrowsTo, Sorting
    <3>5. Rearranged(d.data, r, d.s, d.e)
      <4>1. Rearranged(d.data, n.data, d.s, d.e) /\ Rearranged(n.data, r, d.s, d.e)
        BY <3>2, <3>3 DEF GrowsTo, Sorted
      <4> QED
        BY <4>1, RearrangedTwice
    <3>6. Ordered(d.data, d.s, d.i - 1) => Ordered(r, d.s, d.e - 1)
      BY <3>2, <3>3, <3>4 DEF GrowsTo, Sorted
    <3> QED
      BY <3>1, <3>5, <3>6 DEF Sorted
  <2> QED
    BY <2>1, <2>2
<1>3. \A d \in Unsorted : (\A f \in Unsorted : m[f] < m[d] => f \in G) => d \in G
  <2> HIDE DEF m
  <2> QED
    BY <1>2
<1> HIDE DEF m, G
<1>4. c \in G
  BY <1>1, <1>3, MeasuredInduction
<1> QED
  BY <1>4 DEF G

(* What selectKth is asked for, v: the array can be rearranged so that v   *)
(* is at its k-th place, nothing before it is greater and nothing after it *)
(* is less.                                                                *)
AtPlace(b, s, e, k, v) ==
  /\ b[s + k] = v
  /\ \A x \in s .. s + k - 1 : b[x] <= v
  /\ \A x \in s + k + 1 .. e - 1 : b[x] >= v
Selects(a, s, e, k, v) == \E b : Rearranged(a, b, s, e) /\ AtPlace(b, s, e, k, v)

Within(a, s, e, k) ==
  /\ a \in Seq(Int) /\ Len(a) \in Nat /\ s \in Nat /\ e \in Nat /\ k \in Nat
  /\ 1 <= s /\ k < e - s /\ e <= Len(a) + 1

LEMMA SelectsTheDivision ==
  ASSUME NEW a, NEW r, NEW s, NEW e, NEW k, Within(a, s, e, k), Divided(a, r, s, e), k = r.j - s
  PROVE  Selects(a, s, e, k, r.data[r.j])
<1> DEFINE b == r.data
           j == r.j
<1>1. /\ Rearranged(a, b, s, e) /\ j \in s .. e - 1
      /\ \A x \in s .. j - 1 : b[x] < b[j]
      /\ \A x \in j + 1 .. e - 1 : b[x] >= b[j]
  BY DEF Divided
<1> HIDE DEF b, j
<1>2. s \in Nat /\ e \in Nat /\ j \in Nat /\ s + k = j /\ 1 <= s /\ e <= Len(a) + 1 /\ Len(a) \in Nat
  BY <1>1 DEF Within, j
<1>3. \A x \in s .. e - 1 : b[x] \in Int
  <2>1. b \in Seq(Int) /\ Len(b) = Len(a)
    BY <1>1 DEF Rearranged
  <2> QED
    BY <1>2, <2>1
<1>4. \A x \in s .. j - 1 : b[x] <= b[j]
  <2>1. ASSUME NEW x \in s .. j - 1 PROVE x \in s .. e - 1
    BY <1>1, <1>2
  <2> QED
    BY <1>1, <1>3, <2>1
<1>5. AtPlace(b, s, e, k, b[j])
  BY <1>1, <1>2, <1>4 DEF AtPlace
<1> QED
  BY <1>1, <1>5 DEF Selects, b, j

LEMMA SelectsOnTheLeft ==
  ASSUME NEW a, NEW r, NEW s, NEW e, NEW k, Within(a, s, e, k), Divided(a, r, s, e), k < r.j - s,
         NEW v, Selects(r.data, s, r.j, k, v)
  PROVE  Selects(a, s, e, k, v)
<1> DEFINE b == r.data
           j == r.j
<1>1. /\ Rearranged(a, b, s, e) /\ j \in s .. e - 1
      /\ \A x \in s .. j - 1 : b[x] < b[j]
      /\ \A x \in j + 1 .. e - 1 : b[x] >= b[j]
  BY DEF Divided
<1>2. PICK c : Rearranged(b, c, s, j) /\ AtPlace(c, s, j, k, v)
  BY DEF Selects
<1> HIDE DEF b, j
<1>3. /\ s \in Nat \ {0} /\ e \in Nat /\ j \in Nat /\ k \in Nat /\ s + k \in s .. j - 1
      /\ 1 <= s /\ j < e /\ e <= Len(a) + 1 /\ Len(a) \in Nat
  <2>1. k < j - s /\ s \in Nat /\ e \in Nat /\ k \in Nat /\ 1 <= s /\ e <= Len(a) + 1 /\ Len(a) \in Nat
    BY DEF Within, j
  <2> QED
    BY <1>1, <2>1
<1>4. b \in Seq(Int) /\ c \in Seq(Int) /\ Len(b) = Len(a) /\ Len(c) = Len(b)
  BY <1>1, <1>2 DEF Rearranged
<1>5. Rearranged(a, c, s, e)
  <2>1. Rearranged(b, c, s, e)
    <3>1. s \in Int /\ e \in Int /\ j \in Int /\ s <= s /\ j <= e
      BY <1>3
    <3> QED
      BY <1>2, <3>1, RearrangedWider
  <2> QED
    BY <1>1, <2>1, RearrangedTwice
<1>6. StaysOutside(b, c, s, j) /\ ComesFromInside(b, c, s, j)
  <2>1. j <= Len(b) + 1
    BY <1>3, <1>4
  <2> QED
    BY <1>2, <1>3, <2>1, RearrangedInside
<1>7. /\ c[s + k] = v
      /\ \A x \in s .. s + k - 1 : c[x] <= v
      /\ \A x \in s + k + 1 .. j - 1 : c[x] >= v
  BY <1>2 DEF AtPlace
<1>8. PICK y \in s .. j - 1 : v = b[y]
  BY <1>3, <1>6, <1>7 DEF ComesFromInside
<1>9. \A x \in s .. e - 1 : b[x] \in Int
  BY <1>3, <1>4
<1>10. ASSUME NEW x \in s + k + 1 .. e - 1 PROVE c[x] >= v
  <2>1. CASE x < j
    <3>1. x \in s + k + 1 .. j - 1
      BY <1>3, <2>1
    <3> QED
      BY <1>7, <3>1
  <2>2. CASE x >= j
    <3>1. x \in 1 .. Len(b) /\ x \in s .. e - 1 /\ y \in s .. e - 1 /\ j \in s .. e - 1
      <4>1. j \in s .. e - 1
        BY <1>1
      <4>2. x \in s .. e - 1
        BY <1>3
      <4>3. y \in s .. e - 1
        BY <1>3, <1>8, <4>1
      <4>4. x \in 1 .. Len(b)
        BY <1>3, <1>4, <4>2
      <4> QED
        BY <4>1, <4>2, <4>3, <4>4, Zenon
    <3>2. c[x] = b[x]
      BY <1>6, <2>2, <3>1 DEF StaysOutside
    <3>3. b[x] >= b[j]
      <4>1. CASE x = j
        BY <1>9, <3>1, <4>1
      <4>2. CASE x # j
        <5>1. x \in j + 1 .. e - 1
          BY <1>3, <2>2, <4>2
        <5> QED
          BY <1>1, <5>1
      <4> QED
        BY <4>1, <4>2
    <3>4. b[y] < b[j]
      BY <1>1, <1>8
    <3>5. b[x] \in Int /\ b[y] \in Int /\ b[j] \in Int
      BY <1>9, <3>1
    <3> QED
      BY <1>8, <3>2, <3>3, <3>4, <3>5
  <2> QED
    BY <1>3, <2>1, <2>2
<1>11. AtPlace(c, s, e, k, v)
  BY <1>7, <1>10 DEF AtPlace
<1> QED
  BY <1>5, <1>11 DEF Selects

LEMMA SelectsOnTheRight ==
  ASSUME NEW a, NEW r, NEW s, NEW e, NEW k, Within(a, s, e, k), Divided(a, r, s, e), k > r.j - s,
         NEW v, Selects(r.data, r.j + 1, e, k - (r.j - s + 1), v)
  PROVE  Selects(a, s, e, k, v)
<1> DEFINE b == r.data
           j == r.j
           i == k - (j - s + 1)
<1>1. /\ Rearranged(a, b, s, e) /\ j \in s .. e - 1
      /\ \A x \in s .. j - 1 : b[x] < b[j]
      /\ \A x \in j + 1 .. e - 1 : b[x] >= b[j]
  BY DEF Divided
<1>2. PICK c : Rearranged(b, c, j + 1, e) /\ AtPlace(c, j + 1, e, i, v)
  BY DEF Selects
<1> HIDE DEF b, j
<1>3. /\ s \in Nat \ {0} /\ e \in Nat /\ j \in Nat /\ k \in Nat /\ s + k \in j + 1 .. e - 1
      /\ j + 1 + i = s + k /\ s <= j
      /\ 1 <= s /\ j < e /\ e <= Len(a) + 1 /\ Len(a) \in Nat
  <2>1. k > j - s /\ s \in Nat /\ e \in Nat /\ k \in Nat /\ 1 <= s /\ e <= Len(a) + 1 /\ Len(a) \in Nat /\ k < e - s
    BY DEF Within, j
  <2> QED
    BY <1>1, <2>1
<1>4. b \in Seq(Int) /\ c \in Seq(Int) /\ Len(b) = Len(a) /\ Len(c) = Len(b)
  BY <1>1, <1>2 DEF Rearranged
<1>5. Rearranged(a, c, s, e)
  <2>1. Rearranged(b, c, s, e)
    <3>1. s \in Int /\ e \in Int /\ j + 1 \in Int /\ s <= j + 1 /\ e <= e
      BY <1>3
    <3> QED
      BY <1>2, <3>1, RearrangedWider
  <2> QED
    BY <1>1, <2>1, RearrangedTwice
<1>6. StaysOutside(b, c, j + 1, e) /\ ComesFromInside(b, c, j + 1, e)
  <2>1. e <= Len(b) + 1 /\ j + 1 \in Nat \ {0}
    BY <1>3, <1>4
  <2> QED
    BY <1>2, <1>3, <2>1, RearrangedInside
<1>7. /\ c[s + k] = v
      /\ \A x \in j + 1 .. s + k - 1 : c[x] <= v
      /\ \A x \in s + k + 1 .. e - 1 : c[x] >= v
  <2>1. /\ c[j + 1 + i] = v
        /\ \A x \in j + 1 .. j + 1 + i - 1 : c[x] <= v
        /\ \A x \in j + 1 + i + 1 .. e - 1 : c[x] >= v
    BY <1>2 DEF AtPlace
  <2>2. j + 1 + i - 1 = s + k - 1 /\ j + 1 + i + 1 = s + k + 1
    BY <1>3
  <2> QED
    BY <1>3, <2>1, <2>2
<1>8. PICK y \in j + 1 .. e - 1 : v = b[y]
  BY <1>3, <1>6, <1>7 DEF ComesFromInside
<1>9. \A x \in s .. e - 1 : b[x] \in Int
  BY <1>3, <1>4
<1>10. ASSUME NEW x \in s .. s + k - 1 PROVE c[x] <= v
  <2>1. CASE x > j
    <3>1. x \in j + 1 .. s + k - 1
      BY <1>3, <2>1
    <3> QED
      BY <1>7, <3>1
  <2>2. CASE x <= j
    <3>1. x \in 1 .. Len(b) /\ x \in s .. e - 1 /\ y \in s .. e - 1 /\ j \in s .. e - 1 /\ x < j + 1
      BY <1>1, <1>3, <1>4, <1>8, <2>2
    <3>2. c[x] = b[x]
      BY <1>6, <3>1 DEF StaysOutside
    <3>3. b[x] <= b[j]
      <4>1. CASE x = j
        BY <1>9, <3>1, <4>1
      <4>2. CASE x # j
        <5>1. x \in s .. j - 1
          BY <1>3, <2>2, <4>2
        <5> QED
          BY <1>1, <1>9, <3>1, <5>1
      <4> QED
        BY <4>1, <4>2
    <3>4. b[y] >= b[j]
      BY <1>1, <1>8
    <3>5. b[x] \in Int /\ b[y] \in Int /\ b[j] \in Int
      BY <1>9, <3>1
    <3> QED
      BY <1>8, <3>2, <3>3, <3>4, <3>5
  <2> QED
    BY <1>3, <2>1, <2>2
<1>11. AtPlace(c, s, e, k, v)
  BY <1>7, <1>10 DEF AtPlace
<1> QED
  BY <1>5, <1>11 DEF Selects

(* selectKth sorts a short range, and divides a longer one.                *)
WholeRange(c)   == [data |-> c.data, s |-> c.s, i |-> c.s + 1, e |-> c.e]
Divider(c) == [data |-> Swap(c.data, (c.s + c.e) \div 2, c.e - 1), i |-> c.s, j |-> c.s, e |-> c.e]
Halves(c)  == partition[Divider(c)]
OnLeft(c)  == [data |-> Halves(c).data, s |-> c.s, e |-> Halves(c).j, k |-> c.k]
OnRight(c) == [data |-> Halves(c).data, s |-> Halves(c).j + 1, e |-> c.e, k |-> c.k - (Halves(c).j - c.s + 1)]
SelectOf(F, c) ==
  IF c.e - c.s <= 5 THEN sort[WholeRange(c)][c.s + c.k]
  ELSE IF c.k = Halves(c).j - c.s THEN Halves(c).data[Halves(c).j]
  ELSE IF c.k < Halves(c).j - c.s THEN F[OnLeft(c)] ELSE F[OnRight(c)]

LEMMA InCall ==
  ASSUME NEW a, NEW s, NEW e, NEW k, Within(a, s, e, k)
  PROVE  [data |-> a, s |-> s, e |-> e, k |-> k] \in Call
<1> DEFINE c == [data |-> a, s |-> s, e |-> e, k |-> k]
<1>0. /\ a \in Seq(Int) /\ s \in Nat /\ e \in Nat /\ k \in Nat
      /\ 1 <= s /\ k < e - s /\ e <= Len(a) + 1
  BY DEF Within
<1>1. c \in [data : Seq(Int), s : Nat, e : Nat, k : Nat]
  BY <1>0
<1>2. c.data = a /\ c.s = s /\ c.e = e /\ c.k = k
  OBVIOUS
<1> HIDE DEF c
<1>3. c \in Call
  BY <1>0, <1>1, <1>2 DEF Call
<1> QED
  BY <1>3 DEF c

LEMMA Calls == ASSUME NEW c \in Call PROVE Within(c.data, c.s, c.e, c.k)
  BY DEF Call, Within

LEMMA CallIsDivided ==
  ASSUME NEW c \in Call, c.e - c.s > 5
  PROVE  Divided(c.data, Halves(c), c.s, c.e)
<1> DEFINE a == c.data
           s == c.s
           e == c.e
           m == (s + e) \div 2
           b == Swap(a, m, e - 1)
<1>1. a \in Seq(Int) /\ Len(a) \in Nat /\ s \in Nat \ {0} /\ e \in Nat /\ e - s > 5 /\ e <= Len(a) + 1
  BY Calls DEF Within
<1>2. Halves(c) = partition[[data |-> b, i |-> s, j |-> s, e |-> e]]
  BY DEF Halves, Divider
<1> HIDE DEF a, s, e, b
<1>3. s <= m /\ m < e - 1 /\ m \in 1 .. Len(a) /\ e - 1 \in 1 .. Len(a) /\ s <= e - 1 /\ s < e
  BY <1>1
<1>4. Rearranged(a, b, s, e)
  <2>1. s \in Int /\ e \in Int /\ m < e /\ e - 1 < e
    BY <1>1, <1>3
  <2> HIDE DEF m
  <2> QED
    BY <1>1, <1>3, <2>1, SwapRearranges DEF b
<1> HIDE DEF m
<1> DEFINE d == [data |-> b, i |-> s, j |-> s, e |-> e]
<1>5. b \in Seq(Int) /\ Len(b) = Len(a)
  BY <1>4 DEF Rearranged
<1>6. d \in Loop /\ d.data = b /\ d.i = s /\ d.j = s /\ d.e = e
  <2>1. d.data = b /\ d.i = s /\ d.j = s /\ d.e = e
    OBVIOUS
  <2>2. s \in Nat /\ e \in Nat /\ 1 <= s /\ s <= s /\ s < e /\ e <= Len(b) + 1
    BY <1>1, <1>3, <1>5
  <2>3. d \in Loop
    BY <1>5, <2>2, InLoop
  <2> QED
    BY <2>1, <2>3
<1>7. Halves(c) = partition[d]
  BY <1>2
<1> HIDE DEF d
<1>8. Partly(d, s)
  <2>1. s .. s - 1 = {} /\ s <= s
    BY <1>1
  <2> QED
    BY <1>6, <2>1 DEF Partly
<1>9. Divided(b, Halves(c), s, e)
  BY <1>1, <1>6, <1>7, <1>8, PartitionDivides
<1>10. Rearranged(a, Halves(c).data, s, e)
  BY <1>4, <1>9, RearrangedTwice DEF Divided
<1>11. Divided(a, Halves(c), s, e)
  BY <1>9, <1>10 DEF Divided
<1> QED
  BY <1>11 DEF a, s, e

(* The part the k-th element is in.                                        *)
Narrower(c, d) == d \in Call /\ d.e - d.s < c.e - c.s

LEMMA CallNarrows ==
  ASSUME NEW c \in Call, c.e - c.s > 5
  PROVE  /\ c.k < Halves(c).j - c.s => Narrower(c, OnLeft(c))
         /\ c.k > Halves(c).j - c.s => Narrower(c, OnRight(c))
         /\ Halves(c).data[Halves(c).j] \in Int /\ Halves(c).j \in Int
<1> DEFINE a == c.data
           s == c.s
           e == c.e
           k == c.k
           r == Halves(c)
           b == r.data
           j == r.j
<1>1. /\ a \in Seq(Int) /\ Len(a) \in Nat /\ s \in Nat /\ e \in Nat /\ k \in Nat
      /\ 1 <= s /\ k < e - s /\ e <= Len(a) + 1
  BY Calls DEF Within
<1>2. b \in Seq(Int) /\ Len(b) = Len(a) /\ j \in s .. e - 1
  BY CallIsDivided DEF Divided, Rearranged
<1>3. OnLeft(c) = [data |-> b, s |-> s, e |-> j, k |-> k]
  BY DEF OnLeft
<1>4. OnRight(c) = [data |-> b, s |-> j + 1, e |-> e, k |-> k - (j - s + 1)]
  BY DEF OnRight
<1> HIDE DEF a, s, e, k, r, b, j
<1>5. ASSUME k < j - s PROVE OnLeft(c) \in Call /\ OnLeft(c).e - OnLeft(c).s < e - s
  <2>1. Within(b, s, j, k) /\ j - s < e - s
    BY <1>1, <1>2, <1>5 DEF Within
  <2>2. OnLeft(c).e = j /\ OnLeft(c).s = s
    BY <1>3
  <2> QED
    BY <1>3, <2>1, <2>2, InCall
<1>6. ASSUME k > j - s PROVE OnRight(c) \in Call /\ OnRight(c).e - OnRight(c).s < e - s
  <2>1. Within(b, j + 1, e, k - (j - s + 1)) /\ e - (j + 1) < e - s
    BY <1>1, <1>2, <1>6 DEF Within
  <2>2. OnRight(c).e = e /\ OnRight(c).s = j + 1
    BY <1>4
  <2> QED
    BY <1>4, <2>1, <2>2, InCall
<1>7. b[j] \in Int /\ j \in Int
  BY <1>1, <1>2
<1> QED
  BY <1>5, <1>6, <1>7 DEF Narrower, s, e, k, r, b, j

LEMMA WholeIsSorted ==
  ASSUME NEW c \in Call
  PROVE  /\ sort[WholeRange(c)][c.s + c.k] \in Int
         /\ Selects(c.data, c.s, c.e, c.k, sort[WholeRange(c)][c.s + c.k])
<1> DEFINE a == c.data
           s == c.s
           e == c.e
           k == c.k
           b == sort[WholeRange(c)]
<1>1. /\ a \in Seq(Int) /\ Len(a) \in Nat /\ s \in Nat /\ e \in Nat /\ k \in Nat
      /\ 1 <= s /\ k < e - s /\ e <= Len(a) + 1
  BY Calls DEF Within
<1>2. WholeRange(c) = [data |-> a, s |-> s, i |-> s + 1, e |-> e]
  BY DEF WholeRange
<1> HIDE DEF a, s, e, k, b
<1>3. /\ WholeRange(c) \in Unsorted
      /\ WholeRange(c).data = a /\ WholeRange(c).s = s
      /\ WholeRange(c).i = s + 1 /\ WholeRange(c).e = e
  <2>1. s + 1 \in Nat /\ s < s + 1 /\ s + 1 <= e
    BY <1>1
  <2>2. WholeRange(c) \in Unsorted
    BY <1>1, <1>2, <2>1, InUnsorted
  <2> QED
    BY <1>2, <2>2
<1>4. Rearranged(a, b, s, e) /\ (Ordered(a, s, s) => Ordered(b, s, e - 1))
  <2> DEFINE w == WholeRange(c)
  <2>1. Sorted(w, b)
    BY <1>3, SortSorts DEF b
  <2>2. w.data = a /\ w.s = s /\ w.i = s + 1 /\ w.e = e
    BY <1>3
  <2> HIDE DEF w
  <2>3. Rearranged(a, b, s, e)
    BY <2>1, <2>2 DEF Sorted
  <2>4. w.i - 1 = s
    BY <1>1, <2>2
  <2>5. Ordered(a, s, s) => Ordered(b, s, e - 1)
    BY <2>1, <2>2, <2>4 DEF Sorted
  <2> QED
    BY <2>3, <2>5
<1>5. Ordered(a, s, s)
  <2>1. \A x, y \in s .. s : ~(x < y)
    BY <1>1
  <2> QED
    BY <2>1 DEF Ordered
<1>6. \A x, y \in s .. e - 1 : x < y => b[x] <= b[y]
  BY <1>4, <1>5 DEF Ordered
<1>7. s + k \in s .. e - 1 /\ s + k \in 1 .. Len(a)
  BY <1>1
<1>8. b[s + k] \in Int
  <2>1. b \in Seq(Int) /\ Len(b) = Len(a)
    BY <1>4 DEF Rearranged
  <2> QED
    BY <1>7, <2>1
<1>9. ASSUME NEW x \in s .. s + k - 1 PROVE b[x] <= b[s + k]
  <2>1. x \in s .. e - 1 /\ x < s + k
    BY <1>1
  <2> QED
    BY <1>6, <1>7, <2>1
<1>10. ASSUME NEW x \in s + k + 1 .. e - 1 PROVE b[x] >= b[s + k]
  <2>1. x \in s .. e - 1 /\ s + k < x /\ x \in 1 .. Len(a)
    BY <1>1
  <2>2. b[s + k] <= b[x]
    BY <1>6, <1>7, <2>1
  <2>3. b[x] \in Int
    <3>1. b \in Seq(Int) /\ Len(b) = Len(a)
      BY <1>4 DEF Rearranged
    <3> QED
      BY <2>1, <3>1
  <2> HIDE DEF a
  <2> QED
    BY <1>8, <2>2, <2>3
<1>11. AtPlace(b, s, e, k, b[s + k])
  BY <1>9, <1>10 DEF AtPlace
<1> QED
  BY <1>4, <1>8, <1>11 DEF Selects, a, s, e, k, b

LEMMA SelectIs == ASSUME NEW c \in Call PROVE selectKth[c] = SelectOf(selectKth, c)
<1> DEFINE v == 0
           m == [d \in Call |-> d.e - d.s]
           step == [F \in [Call -> Int] |-> [d \in Call |-> SelectOf(F, d)]]
<1>1. v \in Int
  OBVIOUS
<1>2. \A d \in Call : d.e - d.s \in Nat /\ d.k \in Int /\ d.s \in Int
  BY Calls DEF Within
<1>3. m \in [Call -> Nat]
  BY <1>2
<1>4. ASSUME NEW d \in Call, d.e - d.s > 5, ~(d.k = Halves(d).j - d.s), ~(d.k < Halves(d).j - d.s)
      PROVE  Narrower(d, OnRight(d))
  <2>1. d.k \in Int /\ Halves(d).j \in Int /\ d.s \in Int
    BY <1>2, <1>4, CallNarrows
  <2>2. d.k > Halves(d).j - d.s
    BY <1>4, <2>1
  <2> QED
    BY <1>4, <2>2, CallNarrows
<1>5. ASSUME NEW F \in [Call -> Int], NEW d \in Call PROVE SelectOf(F, d) \in Int
  <2>1. CASE d.e - d.s <= 5
    BY <2>1, WholeIsSorted DEF SelectOf
  <2>2. CASE ~(d.e - d.s <= 5)
    <3>1. d.e - d.s > 5
      BY <1>2, <2>2
    <3>2. Halves(d).data[Halves(d).j] \in Int
      BY <3>1, CallNarrows
    <3>3. d.k < Halves(d).j - d.s => OnLeft(d) \in Call
      BY <3>1, CallNarrows DEF Narrower
    <3>4. ~(d.k = Halves(d).j - d.s) /\ ~(d.k < Halves(d).j - d.s) => OnRight(d) \in Call
      BY <1>4, <3>1 DEF Narrower
    <3> QED
      BY <2>2, <3>2, <3>3, <3>4 DEF SelectOf
  <2> QED
    BY <2>1, <2>2
<1>6. ASSUME NEW F \in [Call -> Int], NEW G \in [Call -> Int], NEW d \in Call, AgreeBelow(Call, m, F, G, m[d])
      PROVE  SelectOf(F, d) = SelectOf(G, d)
  <2>1. CASE d.e - d.s <= 5
    BY <2>1 DEF SelectOf
  <2>2. CASE ~(d.e - d.s <= 5)
    <3>1. d.e - d.s > 5
      BY <1>2, <2>2
    <3>2. ASSUME NEW n, Narrower(d, n) PROVE F[n] = G[n]
      <4>1. n \in Call /\ m[n] < m[d]
        BY <3>2 DEF Narrower
      <4> QED
        BY <1>6, <4>1 DEF AgreeBelow
    <3>3. d.k < Halves(d).j - d.s => F[OnLeft(d)] = G[OnLeft(d)]
      BY <3>1, <3>2, CallNarrows
    <3>4. ~(d.k = Halves(d).j - d.s) /\ ~(d.k < Halves(d).j - d.s) => F[OnRight(d)] = G[OnRight(d)]
      BY <1>4, <3>1, <3>2
    <3> QED
      BY <2>2, <3>3, <3>4 DEF SelectOf
  <2> QED
    BY <2>1, <2>2
<1> HIDE DEF v, m
<1>7. /\ step \in [[Call -> Int] -> [Call -> Int]]
      /\ \A F \in [Call -> Int] : step[F] = [d \in Call |-> SelectOf(F, d)]
  BY <1>5
<1>8. NeedsBelow(Call, Int, m, step)
  BY <1>6, <1>7 DEF NeedsBelow
<1> HIDE DEF step
<1>9. HasFixpoint(Call, Int, step)
  <2>1. step \in [[Call -> Int] -> [Call -> Int]]
    BY <1>7
  <2> QED
    BY <1>1, <1>3, <1>8, <2>1, MeasuredRecursion
<1>10. \E F : F = [d \in Call |-> SelectOf(F, d)]
  <2>1. PICK F \in [Call -> Int] : F = step[F]
    BY <1>9 DEF HasFixpoint
  <2>2. step[F] = [d \in Call |-> SelectOf(F, d)]
    BY <1>7
  <2> QED
    BY <2>1, <2>2
<1>11. selectKth = CHOOSE F : F = [d \in Call |-> SelectOf(F, d)]
  BY DEF selectKth, SelectOf, OnLeft, OnRight, Halves, Divider, WholeRange
<1>12. selectKth = [d \in Call |-> SelectOf(selectKth, d)]
  BY <1>10, <1>11
<1> QED
  BY <1>12

(* selectKth returns the k-th smallest element of its range, for arrays of *)
(* every length (utils.c:20-52).                                           *)
THEOREM SelectsTheKth ==
  ASSUME NEW c \in Call
  PROVE  Selects(c.data, c.s, c.e, c.k, selectKth[c])
<1> DEFINE m == [d \in Call |-> d.e - d.s]
           G == {d \in Call : Selects(d.data, d.s, d.e, d.k, selectKth[d])}
<1>1. m \in [Call -> Nat]
  <2>1. \A d \in Call : d.e - d.s \in Nat
    BY Calls DEF Within
  <2> QED
    BY <2>1
<1>2. ASSUME NEW d \in Call, \A f \in Call : m[f] < m[d] => f \in G
      PROVE  Selects(d.data, d.s, d.e, d.k, selectKth[d])
  <2> DEFINE a == d.data
             s == d.s
             e == d.e
             k == d.k
             r == Halves(d)
             v == selectKth[d]
  <2>1. Within(a, s, e, k) /\ s \in Int /\ e \in Int /\ k \in Int
    BY Calls DEF Within
  <2>2. CASE e - s <= 5
    BY <2>2, SelectIs, WholeIsSorted DEF SelectOf
  <2>3. CASE ~(e - s <= 5)
    <3>1. d.e - d.s > 5
      BY <2>1, <2>3
    <3>2. Divided(a, r, s, e) /\ r.j \in Int
      BY <3>1, CallIsDivided, CallNarrows
    <3>3. CASE k = r.j - s
      <4>1. v = r.data[r.j]
        BY <2>3, <3>3, SelectIs DEF SelectOf
      <4> HIDE DEF a, s, e, k, r, v
      <4>2. Selects(a, s, e, k, v)
        BY <2>1, <3>2, <3>3, <4>1, SelectsTheDivision
      <4> QED
        BY <4>2 DEF a, s, e, k, v
    <3>4. ASSUME NEW n, Narrower(d, n) PROVE Selects(n.data, n.s, n.e, n.k, selectKth[n])
      <4>1. n \in Call /\ m[n] < m[d]
        BY <3>4 DEF Narrower
      <4>2. n \in G
        <5> HIDE DEF m, G
        <5> QED
          BY <1>2, <4>1
      <4> QED
        BY <4>2
    <3>5. CASE k < r.j - s
      <4>1. v = selectKth[OnLeft(d)]
        <5>1. ~(k = r.j - s)
          BY <2>1, <3>2, <3>5
        <5> QED
          BY <2>3, <3>5, <5>1, SelectIs DEF SelectOf
      <4>2. Selects(OnLeft(d).data, OnLeft(d).s, OnLeft(d).e, OnLeft(d).k, v)
        BY <3>1, <3>4, <3>5, <4>1, CallNarrows
      <4>3. OnLeft(d).data = r.data /\ OnLeft(d).s = s /\ OnLeft(d).e = r.j /\ OnLeft(d).k = k
        BY DEF OnLeft
      <4> HIDE DEF a, s, e, k, r, v
      <4>4. Selects(a, s, e, k, v)
        BY <2>1, <3>2, <3>5, <4>2, <4>3, SelectsOnTheLeft
      <4> QED
        BY <4>4 DEF a, s, e, k, v
    <3>6. CASE k > r.j - s
      <4>1. v = selectKth[OnRight(d)]
        <5>1. ~(k = r.j - s) /\ ~(k < r.j - s)
          BY <2>1, <3>2, <3>6
        <5> QED
          BY <2>3, <5>1, SelectIs DEF SelectOf
      <4>2. Selects(OnRight(d).data, OnRight(d).s, OnRight(d).e, OnRight(d).k, v)
        BY <3>1, <3>4, <3>6, <4>1, CallNarrows
      <4>3. /\ OnRight(d).data = r.data /\ OnRight(d).s = r.j + 1 /\ OnRight(d).e = e
            /\ OnRight(d).k = k - (r.j - s + 1)
        BY DEF OnRight
      <4> HIDE DEF a, s, e, k, r, v
      <4>4. Selects(a, s, e, k, v)
        BY <2>1, <3>2, <3>6, <4>2, <4>3, SelectsOnTheRight
      <4> QED
        BY <4>4 DEF a, s, e, k, v
    <3> HIDE DEF a, s, e, k, r, v
    <3>7. k = r.j - s \/ k < r.j - s \/ k > r.j - s
      BY <2>1, <3>2
    <3> QED
      BY <3>3, <3>5, <3>6, <3>7
  <2> QED
    BY <2>2, <2>3
<1>3. \A d \in Call : (\A f \in Call : m[f] < m[d] => f \in G) => d \in G
  <2> HIDE DEF m
  <2> QED
    BY <1>2
<1> HIDE DEF m, G
<1>4. c \in G
  BY <1>1, <1>3, MeasuredInduction
<1> QED
  BY <1>4 DEF G

(* The element selected, v, of the values seen at the places T: at most k  *)
(* of them are less, and more than k are no more.                          *)
Less(T, seen, v)   == {t \in T : seen[t] < v}
NoMore(T, seen, v) == {t \in T : seen[t] <= v}
Middle(T, seen, k, v) ==
  Cardinality(Less(T, seen, v)) <= k /\ Cardinality(NoMore(T, seen, v)) > k

(* a lists the values seen at T, g tells where.                            *)
Listed(T, seen, a, g) ==
  /\ g \in [T -> 1 .. Len(a)]
  /\ \A t, u \in T : g[t] = g[u] => t = u
  /\ \A i \in 1 .. Len(a) : \E t \in T : g[t] = i
  /\ \A t \in T : a[g[t]] = seen[t]

LEMMA SelectedInTheMiddle ==
  ASSUME NEW T, IsFiniteSet(T), NEW seen \in [T -> Int], NEW a \in Seq(Int), NEW g, Listed(T, seen, a, g),
         NEW k \in Nat, k < Len(a), NEW v, Selects(a, 1, Len(a) + 1, k, v)
  PROVE  v \in Int /\ Middle(T, seen, k, v)
<1> DEFINE n == Len(a)
           L == Less(T, seen, v)
           U == NoMore(T, seen, v)
<1>1. n \in Nat /\ k + 1 \in 1 .. n /\ 1 + k = k + 1
  OBVIOUS
<1>2. PICK b : Rearranged(a, b, 1, n + 1) /\ AtPlace(b, 1, n + 1, k, v)
  BY DEF Selects
<1>3. PICK p : MovesWithin(p, n, 1, n + 1) /\ MovedBy(p, a, b)
  BY <1>2 DEF Rearranged
<1>4. /\ p \in [1 .. n -> 1 .. n]
      /\ \A x, y \in 1 .. n : p[x] = p[y] => x = y
      /\ \A y \in 1 .. n : \E x \in 1 .. n : p[x] = y
  BY <1>3 DEF MovesWithin
<1>5. \A x \in 1 .. n : b[x] = a[p[x]] /\ b[x] \in Int
  <2>1. \A x \in 1 .. n : b[x] = a[p[x]]
    BY <1>3 DEF MovedBy
  <2>2. b \in Seq(Int) /\ Len(b) = n
    BY <1>2 DEF Rearranged
  <2>3. \A x \in 1 .. n : b[x] \in Int
    BY <1>1, <2>2
  <2> QED
    BY <2>1, <2>3
<1>6. /\ b[k + 1] = v
      /\ \A x \in 1 .. k : b[x] <= v
      /\ \A x \in k + 2 .. n : b[x] >= v
  <2>1. 1 + k - 1 = k /\ 1 + k + 1 = k + 2 /\ n + 1 - 1 = n
    BY <1>1
  <2> QED
    BY <1>1, <1>2, <2>1 DEF AtPlace
<1>7. v \in Int
  BY <1>1, <1>5, <1>6
<1>8. /\ g \in [T -> 1 .. n]
      /\ \A t, u \in T : g[t] = g[u] => t = u
      /\ \A i \in 1 .. n : \E t \in T : g[t] = i
      /\ \A t \in T : a[g[t]] = seen[t]
  BY DEF Listed
<1> HIDE DEF n
<1>9. Cardinality(L) <= k
  <2> DEFINE q == [t \in L |-> CHOOSE x \in 1 .. n : p[x] = g[t]]
  <2>1. ASSUME NEW t \in L PROVE q[t] \in 1 .. n /\ p[q[t]] = g[t] /\ q[t] \in 1 .. k
    <3>1. t \in T /\ seen[t] < v /\ seen[t] \in Int
      BY DEF Less
    <3>2. \E x \in 1 .. n : p[x] = g[t]
      BY <1>4, <1>8, <3>1
    <3>3. q[t] \in 1 .. n /\ p[q[t]] = g[t]
      <4>1. q[t] = CHOOSE x \in 1 .. n : p[x] = g[t]
        OBVIOUS
      <4> HIDE DEF q
      <4> QED
        BY <3>2, <4>1
    <3> HIDE DEF q, L
    <3>4. b[q[t]] < v
      <4>1. b[q[t]] = a[p[q[t]]]
        BY <1>5, <3>3
      <4>2. a[g[t]] = seen[t]
        BY <1>8, <3>1
      <4> QED
        BY <3>1, <3>3, <4>1, <4>2
    <3>5. q[t] # k + 1 /\ q[t] \notin k + 2 .. n
      BY <1>5, <1>6, <1>7, <3>3, <3>4
    <3>6. q[t] \in 1 .. k
      BY <1>1, <3>3, <3>5
    <3> QED
      BY <3>3, <3>6
  <2>2. ASSUME NEW t \in L, NEW u \in L, q[t] = q[u] PROVE t = u
    <3>1. g[t] = g[u]
      BY <2>1, <2>2
    <3>2. t \in T /\ u \in T
      BY DEF Less
    <3> QED
      BY <1>8, <3>1, <3>2
  <2>3. q \in [L -> 1 .. k]
    BY <2>1
  <2> HIDE DEF q, L
  <2>4. q \in Injection(L, 1 .. k)
    BY <2>2, <2>3 DEF Injection, IsInjective
  <2>5. IsFiniteSet(1 .. k) /\ Cardinality(1 .. k) = k
    BY FS_Interval
  <2> QED
    BY <2>4, <2>5, FS_Injection
<1>10. k + 1 <= Cardinality(U)
  <2> DEFINE q == [x \in 1 .. k + 1 |-> CHOOSE t \in T : g[t] = p[x]]
  <2>1. ASSUME NEW x \in 1 .. k + 1 PROVE x \in 1 .. n /\ q[x] \in U /\ g[q[x]] = p[x]
    <3>1. x \in 1 .. n
      BY <1>1
    <3>2. \E t \in T : g[t] = p[x]
      BY <1>4, <1>8, <3>1
    <3>3. q[x] \in T /\ g[q[x]] = p[x]
      <4>1. q[x] = CHOOSE t \in T : g[t] = p[x]
        OBVIOUS
      <4> HIDE DEF q
      <4> QED
        BY <3>2, <4>1
    <3>4. b[x] <= v
      <4>1. CASE x = k + 1
        BY <1>6, <1>7, <4>1
      <4>2. CASE x # k + 1
        <5>1. x \in 1 .. k
          BY <4>2
        <5> QED
          BY <1>6, <5>1
      <4> QED
        BY <4>1, <4>2
    <3>5. seen[q[x]] = b[x]
      BY <1>5, <1>8, <3>1, <3>3
    <3> QED
      BY <3>1, <3>3, <3>4, <3>5 DEF NoMore
  <2>2. ASSUME NEW x \in 1 .. k + 1, NEW y \in 1 .. k + 1, q[x] = q[y] PROVE x = y
    <3>1. p[x] = p[y]
      BY <2>1, <2>2
    <3> QED
      BY <1>4, <2>1, <3>1
  <2>3. q \in [1 .. k + 1 -> U]
    BY <2>1
  <2>4. IsFiniteSet(U)
    BY FS_Subset DEF NoMore
  <2> HIDE DEF q, U
  <2>5. q \in Injection(1 .. k + 1, U)
    BY <2>2, <2>3 DEF Injection, IsInjective
  <2>6. Cardinality(1 .. k + 1) = k + 1
    BY FS_Interval
  <2> QED
    BY <2>4, <2>5, <2>6, FS_Injection
<1>11. Cardinality(U) \in Nat
  BY FS_Subset, FS_CardinalityType DEF NoMore
<1>12. Cardinality(U) > k
  <2> HIDE DEF U
  <2> QED
    BY <1>10, <1>11
<1> QED
  BY <1>7, <1>9, <1>12 DEF Middle

-----------------------------------------------------------------------------
(* The places of a square of n rows, row by row.                           *)
LEMMA PlaceInSquare ==
  ASSUME NEW n \in Nat \ {0}, NEW y \in 0 .. n - 1, NEW x \in 0 .. n - 1
  PROVE  y * n + x \in 0 .. n * n - 1 /\ (y * n + x) \div n = y /\ (y * n + x) % n = x
<1>1. y * n \in Nat /\ y * n <= n * n - n
  OBVIOUS
<1> QED
  BY <1>1

LEMMA SquareOfPlace ==
  ASSUME NEW n \in Nat \ {0}, NEW i \in 0 .. n * n - 1
  PROVE  i \div n \in 0 .. n - 1 /\ i % n \in 0 .. n - 1 /\ i = (i \div n) * n + (i % n)
  OBVIOUS

LEMMA Wraps ==
  ASSUME NEW h \in Nat \ {0}, NEW i \in Int
  PROVE  (i + h) % h = i % h /\ i % h \in 0 .. h - 1
<1> DEFINE q == i \div h
           m == i % h
<1>1. q \in Int /\ m \in 0 .. h - 1 /\ i = q * h + m
  OBVIOUS
<1> HIDE DEF q, m
<1>2. i + h = (q + 1) * h + m /\ q + 1 \in Int
  BY <1>1
<1>3. \A d \in Int : (d * h + m) % h = m
  BY <1>1
<1>4. (i + h) % h = m
  BY <1>2, <1>3
<1> QED
  BY <1>1, <1>4 DEF m

-----------------------------------------------------------------------------
(* The median filter, pixel by pixel: what is selected from the window.    *)
Wrapped(img, h, w, y, x) == img[y % h][x % w]
WindowOf(n, img, h, w, y, x) ==
  [i \in 1 .. n * n |-> img[(y + (i - 1) \div n - n \div 2 + h) % h][(x + ((i - 1) % n) - n \div 2 + w) % w]]
Half(n)  == n \div 2
Reach(n) == ((-Half(n)) .. Half(n)) \X ((-Half(n)) .. Half(n))
Near(n, img, h, w, y, x) == [t \in Reach(n) |-> Wrapped(img, h, w, y + t[1], x + t[2])]
PlaceOf(n) == [t \in Reach(n) |-> (t[1] + Half(n)) * n + (t[2] + Half(n)) + 1]

LEMMA SelectedFromWindow ==
  ASSUME NEW n \in Nat, NEW img, NEW h \in Nat \ {0}, NEW w \in Nat, Shaped(img, h, w),
         NEW y \in 0 .. h - 1, NEW x \in 0 .. w - 1
  PROVE  MedianValues(n, img)[y][x] =
           selectKth[[data |-> WindowOf(n, img, h, w, y, x), s |-> 1, e |-> n * n + 1, k |-> (n * n) \div 2]]
<1>1. Height(img) = h /\ Width(img) = w
  BY TransposedShape
<1> QED
  BY <1>1 DEF MedianValues, Image, WindowOf

(* The window of an odd size lists what is near.                           *)
LEMMA InReach ==
  ASSUME NEW n \in Nat, n % 2 = 1, NEW t \in Reach(n)
  PROVE  /\ n = 2 * Half(n) + 1 /\ Half(n) \in Nat /\ t[1] \in Int /\ t[2] \in Int
         /\ t = <<t[1], t[2]>>
         /\ t[1] + Half(n) \in 0 .. n - 1 /\ t[2] + Half(n) \in 0 .. n - 1
<1>1. n = 2 * Half(n) + 1 /\ Half(n) \in Nat
  BY DEF Half
<1>2. t[1] \in (-Half(n)) .. Half(n) /\ t[2] \in (-Half(n)) .. Half(n) /\ t = <<t[1], t[2]>>
  BY DEF Reach
<1> QED
  BY <1>1, <1>2

LEMMA FoundPlace ==
  ASSUME NEW n \in Nat, n % 2 = 1, NEW t \in Reach(n)
  PROVE  /\ PlaceOf(n)[t] \in 1 .. n * n
         /\ (PlaceOf(n)[t] - 1) \div n = t[1] + Half(n) /\ (PlaceOf(n)[t] - 1) % n = t[2] + Half(n)
<1> DEFINE a == t[1] + Half(n)
           b == t[2] + Half(n)
           c == a * n + b
           i == PlaceOf(n)[t]
<1>1. a \in 0 .. n - 1 /\ b \in 0 .. n - 1 /\ n \in Nat \ {0}
  BY InReach
<1>2. i = a * n + b + 1
  BY DEF PlaceOf
<1>3. c \in 0 .. n * n - 1 /\ c \div n = a /\ c % n = b
  <2> HIDE DEF a, b
  <2> QED
    BY <1>1, PlaceInSquare
<1>4. c \in Int /\ i = c + 1 /\ i - 1 = c /\ n * n \in Int
  BY <1>1, <1>2
<1>5. i \in 1 .. n * n
  <2> HIDE DEF i, c
  <2> QED
    BY <1>3, <1>4
<1>6. (i - 1) \div n = a /\ (i - 1) % n = b
  BY <1>3, <1>4
<1> QED
  BY <1>5, <1>6

ListsNear(n, img, h, w, y, x) ==
  \A t \in Reach(n) : WindowOf(n, img, h, w, y, x)[PlaceOf(n)[t]] = Near(n, img, h, w, y, x)[t]

LEMMA WindowPlace ==
  ASSUME NEW n \in Nat, n % 2 = 1, NEW img, NEW h \in Nat \ {0}, NEW w \in Nat \ {0},
         NEW y \in Int, NEW x \in Int
  PROVE  ListsNear(n, img, h, w, y, x)
<1> SUFFICES ASSUME NEW t \in Reach(n)
             PROVE  WindowOf(n, img, h, w, y, x)[PlaceOf(n)[t]] = Near(n, img, h, w, y, x)[t]
  BY DEF ListsNear
<1> DEFINE a == t[1] + Half(n)
           b == t[2] + Half(n)
           i == PlaceOf(n)[t]
<1>1. Half(n) \in Nat /\ t[1] \in Int /\ t[2] \in Int
  BY InReach
<1>2. i \in 1 .. n * n /\ (i - 1) \div n = a /\ (i - 1) % n = b
  BY FoundPlace
<1> HIDE DEF i
<1>3. WindowOf(n, img, h, w, y, x)[i] = img[(y + a - Half(n) + h) % h][(x + b - Half(n) + w) % w]
  <2> HIDE DEF a, b
  <2> QED
    BY <1>2 DEF WindowOf, Half
<1>4. y + a - Half(n) + h = (y + t[1]) + h /\ x + b - Half(n) + w = (x + t[2]) + w
  BY <1>1
<1>5. (y + a - Half(n) + h) % h = (y + t[1]) % h /\ (x + b - Half(n) + w) % w = (x + t[2]) % w
  <2>1. y + t[1] \in Int /\ x + t[2] \in Int
    BY <1>1
  <2>2. ((y + t[1]) + h) % h = (y + t[1]) % h /\ ((x + t[2]) + w) % w = (x + t[2]) % w
    BY <2>1, Wraps
  <2> HIDE DEF a, b
  <2> QED
    BY <1>4, <2>2
<1>6. Near(n, img, h, w, y, x)[t] = img[(y + t[1]) % h][(x + t[2]) % w]
  BY DEF Near, Wrapped
<1>7. WindowOf(n, img, h, w, y, x)[i] = Near(n, img, h, w, y, x)[t]
  <2> HIDE DEF a, b
  <2> QED
    BY <1>3, <1>5, <1>6
<1> QED
  BY <1>7 DEF i

LEMMA Centred ==
  ASSUME NEW n \in Nat, NEW m \in Nat, n = 2 * m + 1, NEW q \in 0 .. n - 1
  PROVE  q - m \in (-m) .. m
  OBVIOUS

LEMMA WindowIsListed ==
  ASSUME NEW n \in Nat, n % 2 = 1, NEW img, NEW h \in Nat \ {0}, NEW w \in Nat \ {0},
         NEW y \in Int, NEW x \in Int, WindowOf(n, img, h, w, y, x) \in Seq(Int)
  PROVE  /\ Len(WindowOf(n, img, h, w, y, x)) = n * n
         /\ Listed(Reach(n), Near(n, img, h, w, y, x), WindowOf(n, img, h, w, y, x), PlaceOf(n))
<1> DEFINE g == PlaceOf(n)
           a == WindowOf(n, img, h, w, y, x)
<1>0. \A t \in Reach(n) : a[g[t]] = Near(n, img, h, w, y, x)[t]
  <2>1. ListsNear(n, img, h, w, y, x)
    BY WindowPlace
  <2> QED
    BY <2>1 DEF ListsNear
<1>1. n * n \in Nat /\ DOMAIN a = 1 .. n * n /\ DOMAIN a = 1 .. Len(a) /\ Len(a) \in Nat
  BY DEF WindowOf
<1>2. Len(a) = n * n
  BY <1>1
<1>3. ASSUME NEW t \in Reach(n)
      PROVE  /\ g[t] \in 1 .. n * n
             /\ (g[t] - 1) \div n = t[1] + Half(n) /\ (g[t] - 1) % n = t[2] + Half(n)
             /\ a[g[t]] = Near(n, img, h, w, y, x)[t]
  <2>1. a[g[t]] = Near(n, img, h, w, y, x)[t]
    BY <1>0
  <2>2. /\ g[t] \in 1 .. n * n
        /\ (g[t] - 1) \div n = t[1] + Half(n) /\ (g[t] - 1) % n = t[2] + Half(n)
    BY FoundPlace
  <2> QED
    BY <2>1, <2>2
<1>4. DOMAIN g = Reach(n) /\ g = [t \in Reach(n) |-> g[t]]
  BY DEF PlaceOf
<1>5. ASSUME NEW t \in Reach(n), NEW u \in Reach(n), g[t] = g[u] PROVE t = u
  <2>1. t[1] + Half(n) = u[1] + Half(n) /\ t[2] + Half(n) = u[2] + Half(n)
    BY <1>3, <1>5
  <2>2. t[1] \in Int /\ t[2] \in Int /\ u[1] \in Int /\ u[2] \in Int /\ Half(n) \in Int
    BY InReach
  <2>3. t = <<t[1], t[2]>> /\ u = <<u[1], u[2]>>
    BY InReach
  <2>4. \A c, d, m \in Int : c + m = d + m => c = d
    OBVIOUS
  <2>5. t[1] = u[1] /\ t[2] = u[2]
    BY <2>1, <2>2, <2>4, Zenon
  <2> QED
    BY <2>3, <2>5
<1>6. ASSUME NEW i \in 1 .. n * n PROVE \E t \in Reach(n) : g[t] = i
  <2> DEFINE q == (i - 1) \div n
             r == (i - 1) % n
             t == <<q - Half(n), r - Half(n)>>
  <2>1. i - 1 \in 0 .. n * n - 1 /\ n \in Nat \ {0} /\ n = 2 * Half(n) + 1 /\ Half(n) \in Nat
    BY <1>1 DEF Half
  <2>2. q \in 0 .. n - 1 /\ r \in 0 .. n - 1 /\ i - 1 = q * n + r
    BY <2>1, SquareOfPlace
  <2> HIDE DEF q, r
  <2>3. q - Half(n) \in (-Half(n)) .. Half(n) /\ r - Half(n) \in (-Half(n)) .. Half(n)
    <3>1. q \in 0 .. n - 1 /\ r \in 0 .. n - 1
      BY <2>2
    <3> QED
      BY <2>1, <3>1, Centred
  <2>4. t \in Reach(n)
    BY <2>3 DEF Reach
  <2>5. g[t] = (q - Half(n) + Half(n)) * n + (r - Half(n) + Half(n)) + 1
    BY <2>4 DEF PlaceOf
  <2>6. q - Half(n) + Half(n) = q /\ r - Half(n) + Half(n) = r /\ q * n \in Int
    BY <2>1, <2>2
  <2>7. g[t] = q * n + r + 1
    BY <2>5, <2>6
  <2>8. g[t] = i
    <3> HIDE DEF t, g
    <3> QED
      BY <2>2, <2>6, <2>7
  <2> QED
    BY <2>4, <2>8
<1> HIDE DEF g, a
<1>7. g \in [Reach(n) -> 1 .. n * n]
  BY <1>3, <1>4
<1>8. Listed(Reach(n), Near(n, img, h, w, y, x), a, g)
  BY <1>2, <1>3, <1>5, <1>6, <1>7 DEF Listed
<1> QED
  BY <1>2, <1>8 DEF g, a

(* What the median filter makes of a pixel is the median of what is around *)
(* it, the edges being sewn together (utils.c:27-52,                       *)
(* threads-general.c:234-286).                                             *)
THEOREM MedianIsTheMiddle ==
  ASSUME NEW n \in Nat, n % 2 = 1, NEW img, NEW h \in Nat \ {0}, NEW w \in Nat \ {0}, Shaped(img, h, w),
         \A i \in 0 .. h - 1, j \in 0 .. w - 1 : img[i][j] \in Int,
         NEW y \in 0 .. h - 1, NEW x \in 0 .. w - 1, NEW v, v = MedianValues(n, img)[y][x]
  PROVE  v \in Int /\ Middle(Reach(n), Near(n, img, h, w, y, x), (n * n) \div 2, v)
<1> DEFINE a == WindowOf(n, img, h, w, y, x)
           seen == Near(n, img, h, w, y, x)
           k == (n * n) \div 2
<1>1. y \in Int /\ x \in Int /\ n \in Nat \ {0} /\ n * n \in Nat /\ k \in Nat /\ k < n * n
  <2>1. n \in Nat \ {0} /\ n * n \in Nat /\ n * n > 0
    BY SMT
  <2> QED
    BY <2>1
<1>2. ASSUME NEW i \in Int, NEW j \in Int PROVE img[i % h][j % w] \in Int
  <2>1. i % h \in 0 .. h - 1 /\ j % w \in 0 .. w - 1
    BY Wraps
  <2> QED
    BY <2>1
<1>3. a \in Seq(Int)
  <2>1. ASSUME NEW i \in 1 .. n * n PROVE a[i] \in Int
    <3>1. i - 1 \in 0 .. n * n - 1
      BY <1>1
    <3>2. (i - 1) \div n \in 0 .. n - 1 /\ (i - 1) % n \in 0 .. n - 1
      BY <1>1, <3>1, SquareOfPlace
    <3>3. y + (i - 1) \div n - n \div 2 + h \in Int /\ x + ((i - 1) % n) - n \div 2 + w \in Int
      BY <1>1, <3>2
    <3> QED
      BY <1>2, <3>3 DEF WindowOf
  <2>2. a = [i \in 1 .. n * n |-> a[i]]
    BY DEF WindowOf
  <2> HIDE DEF a
  <2>3. a \in [1 .. n * n -> Int]
    BY <2>1, <2>2
  <2> QED
    BY <1>1, <2>3
<1>4. Len(a) = n * n /\ Listed(Reach(n), seen, a, PlaceOf(n))
  BY <1>1, <1>3, WindowIsListed
<1>5. IsFiniteSet(Reach(n))
  <2>1. Half(n) \in Int /\ -Half(n) \in Int
    BY DEF Half
  <2>2. IsFiniteSet((-Half(n)) .. Half(n))
    BY <2>1, FS_Interval
  <2> QED
    BY <2>2, FS_Product DEF Reach
<1>6. seen \in [Reach(n) -> Int]
  <2>1. \A t \in Reach(n) : y + t[1] \in Int /\ x + t[2] \in Int
    BY <1>1, InReach
  <2>2. \A t \in Reach(n) : seen[t] \in Int
    BY <1>2, <2>1 DEF Near, Wrapped
  <2>3. seen = [t \in Reach(n) |-> seen[t]]
    BY DEF Near
  <2> HIDE DEF seen
  <2> QED
    BY <2>2, <2>3
<1> DEFINE c == [data |-> a, s |-> 1, e |-> n * n + 1, k |-> k]
<1>7. v = selectKth[c]
  <2>1. w \in Nat
    OBVIOUS
  <2> QED
    BY <2>1, SelectedFromWindow
<1> HIDE DEF a, seen, k
<1>8. c \in Call
  <2>1. c \in [data : Seq(Int), s : Nat, e : Nat, k : Nat]
    BY <1>1, <1>3
  <2>2. 1 <= c.s /\ c.k < c.e - c.s /\ c.e <= Len(c.data) + 1
    BY <1>1, <1>4
  <2> QED
    BY <2>1, <2>2 DEF Call
<1>9. Selects(a, 1, Len(a) + 1, k, v)
  <2>1. c.data = a /\ c.s = 1 /\ c.e = Len(a) + 1 /\ c.k = k
    BY <1>4
  <2> HIDE DEF c
  <2> QED
    BY <1>7, <1>8, <2>1, SelectsTheKth
<1>10. k < Len(a)
  BY <1>1, <1>4
<1> QED
  BY <1>1, <1>3, <1>4, <1>5, <1>6, <1>9, <1>10, SelectedInTheMiddle DEF seen, k

-----------------------------------------------------------------------------
(* Rounding to the nearest whole number.                                   *)
Splits(a, d, q, r) == r \in 0 .. d - 1 /\ a = q * d + r
LEMMA Quotient ==
  ASSUME NEW d \in Nat \ {0}, NEW q \in Int, NEW r, NEW a, Splits(a, d, q, r)
  PROVE  a \div d = q /\ a % d = r
  BY DEF Splits

(* Twice a number, by steps of twice another.                              *)
LEMMA TwiceAsMuch ==
  ASSUME NEW d \in Int, NEW q \in Int
  PROVE  q * d \in Int /\ q * (2 * d) = 2 * (q * d)
  OBVIOUS

LEMMA OneStepMore ==
  ASSUME NEW d \in Int, NEW q \in Int
  PROVE  (q + 1) * d = q * d + d /\ (-q) * d = -(q * d)
  OBVIOUS

Rounded(n, d, q, m) ==
  /\ q \in Int /\ m \in 0 .. d - 1 /\ n = q * d + m
  /\ Round(n, d) = IF n < 0 THEN (IF 2 * m <= d THEN q ELSE q + 1)
                            ELSE (IF 2 * m < d THEN q ELSE q + 1)

LEMMA RoundsToNearest ==
  ASSUME NEW d \in Nat \ {0}, NEW n \in Int
  PROVE  Rounded(n, d, n \div d, n % d)
<1> DEFINE q == n \div d
           m == n % d
<1>1. q \in Int /\ m \in 0 .. d - 1 /\ n = q * d + m
  OBVIOUS
<1> HIDE DEF q, m
<1> DEFINE p == q * d
           u == 2 * d
           pu == q * u
           qu == (q + 1) * u
           mu == (-q) * u
           nu == (-(q + 1)) * u
<1>2. p \in Int /\ n = p + m /\ u \in Nat \ {0} /\ m \in Int /\ d \in Int /\ u = 2 * d
  BY <1>1
<1>3. pu = 2 * p /\ qu = 2 * p + 2 * d /\ mu = -(2 * p) /\ nu = -(2 * p) - 2 * d
  <2>1. pu = 2 * p
    BY <1>1, TwiceAsMuch
  <2>2. qu = pu + u /\ mu = -pu /\ q + 1 \in Int
    BY <1>1, OneStepMore
  <2>a. \A o \in Int : (-o) * u = -(o * u)
    BY <1>2, OneStepMore
  <2>3. nu = -qu
    BY <2>2, <2>a, Zenon
  <2> HIDE DEF p, pu, qu, mu, nu
  <2> QED
    BY <1>2, <2>1, <2>2, <2>3
<1>a. pu = q * u /\ qu = (q + 1) * u /\ mu = (-q) * u /\ nu = (-(q + 1)) * u
  OBVIOUS
<1> HIDE DEF p, u, pu, qu, mu, nu
<1>4. ASSUME n >= 0 PROVE Round(n, d) = IF 2 * m < d THEN q ELSE q + 1
  <2>1. Round(n, d) = (2 * n + d) \div u
    BY <1>2, <1>4 DEF Round, u
  <2>2. CASE 2 * m < d
    <3>1. 2 * n + d = pu + (2 * m + d) /\ 2 * m + d \in 0 .. u - 1
      BY <1>1, <1>2, <1>3, <2>2
    <3>a. Splits(2 * n + d, u, q, 2 * m + d)
      BY <1>a, <3>1, Zenon DEF Splits
    <3>b. q \in Int /\ 2 * n + d \in Int
      BY <1>1, <1>2
    <3>2. (2 * n + d) \div u = q
      BY <1>2, <3>a, <3>b, Quotient
    <3> QED
      BY <2>1, <2>2, <3>2
  <2>3. CASE ~(2 * m < d)
    <3>1. 2 * n + d = qu + (2 * m - d) /\ 2 * m - d \in 0 .. u - 1 /\ q + 1 \in Int
      BY <1>1, <1>2, <1>3, <2>3
    <3>a. Splits(2 * n + d, u, q + 1, 2 * m - d)
      BY <1>a, <3>1, Zenon DEF Splits
    <3>b. q + 1 \in Int /\ 2 * n + d \in Int
      BY <1>1, <1>2
    <3>2. (2 * n + d) \div u = q + 1
      BY <1>2, <3>a, <3>b, Quotient
    <3> QED
      BY <2>1, <2>3, <3>2
  <2> QED
    BY <2>2, <2>3
<1>5. ASSUME n < 0 PROVE Round(n, d) = IF 2 * m <= d THEN q ELSE q + 1
  <2>1. Round(n, d) = -((2 * (-n) + d) \div u)
    BY <1>2, <1>5 DEF Round, u
  <2>2. CASE 2 * m <= d
    <3>1. 2 * (-n) + d = mu + (d - 2 * m) /\ d - 2 * m \in 0 .. u - 1 /\ -q \in Int
      BY <1>1, <1>2, <1>3, <2>2
    <3>a. Splits(2 * (-n) + d, u, -q, d - 2 * m)
      BY <1>a, <3>1, Zenon DEF Splits
    <3>b. -q \in Int /\ 2 * (-n) + d \in Int
      BY <1>1, <1>2
    <3>2. (2 * (-n) + d) \div u = -q
      BY <1>2, <3>a, <3>b, Quotient
    <3> QED
      BY <1>1, <2>1, <2>2, <3>2
  <2>3. CASE ~(2 * m <= d)
    <3>1. 2 * (-n) + d = nu + (3 * d - 2 * m) /\ 3 * d - 2 * m \in 0 .. u - 1 /\ -(q + 1) \in Int
      BY <1>1, <1>2, <1>3, <2>3
    <3>a. Splits(2 * (-n) + d, u, -(q + 1), 3 * d - 2 * m)
      BY <1>a, <3>1, Zenon DEF Splits
    <3>b. -(q + 1) \in Int /\ 2 * (-n) + d \in Int
      BY <1>1, <1>2
    <3>2. (2 * (-n) + d) \div u = -(q + 1)
      BY <1>2, <3>a, <3>b, Quotient
    <3>3. -(-(q + 1)) = q + 1
      BY <1>1
    <3> QED
      BY <2>1, <2>3, <3>2, <3>3
  <2> QED
    BY <2>2, <2>3
<1> QED
  <2>1. Round(n, d) = IF n < 0 THEN (IF 2 * m <= d THEN q ELSE q + 1) ELSE (IF 2 * m < d THEN q ELSE q + 1)
    BY <1>4, <1>5
  <2> QED
    BY <1>1, <2>1 DEF Rounded, q, m

(* What is rounded is kept within a byte.                                  *)
LEMMA ClampMoves ==
  ASSUME NEW n \in Nat \ {0}, NEW i \in Int, NEW j \in Int, j = i \/ j = i + 1
  PROVE  Clamp(j, n) = Clamp(i, n) \/ Clamp(j, n) = Clamp(i, n) + 1
  BY DEF Clamp

Tabled(k) == Symmetric(k) /\ k.den \in Nat \ {0} /\ k.bias \in Int

LEMMA TablesAre == \A f \in DOMAIN FilterByName : Tabled(FilterByName[f])
<1> DEFINE Scaled(k) == k.den \in Nat \ {0} /\ k.bias \in Int
<1>1. Scaled(blur) /\ Scaled(motion_blur) /\ Scaled(gaus_blur)
  BY DEF blur, motion_blur, gaus_blur, Kernel, Image
<1>2. Scaled(conv) /\ Scaled(sharpen) /\ Scaled(emboss) /\ Scaled(box_blur)
  BY DEF conv, sharpen, emboss, box_blur, Kernel, Image
<1>3. Scaled(big_gaus) /\ Scaled(med_gaus)
  BY DEF big_gaus, med_gaus
<1> HIDE DEF Scaled
<1>4. \A f \in DOMAIN FilterByName : Scaled(FilterByName[f])
  BY <1>1, <1>2, <1>3 DEF FilterByName
<1>5. \A f \in DOMAIN FilterByName : Symmetric(FilterByName[f])
  BY TablesSymmetric
<1> QED
  BY <1>4, <1>5 DEF Tabled, Scaled
=============================================================================
