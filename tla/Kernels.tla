------------------------------- MODULE Kernels -------------------------------
(***************************************************************************)
(* The filters as pure definitions: the table of utils/filters.c and the   *)
(* two ways utils/threads-general.c applies one, to a whole image.         *)
(*                                                                         *)
(* An image is a function of the row and then of the column, from 0.  A    *)
(* linear filter is applied to images whose pixels are only names: what a  *)
(* kernel makes of a pixel is then the total weight with which it takes    *)
(* each source pixel (Combination), and two ways of computing it agree on  *)
(* every picture if they agree on the weights.  Value turns the weights    *)
(* into a channel value when the pixels are known.                         *)
(***************************************************************************)
EXTENDS Integers, SequencesExt, FiniteSetsExt, Functions, TLC

Image(h, w, pixel(_, _)) == [y \in 0 .. h - 1 |-> [x \in 0 .. w - 1 |-> pixel(y, x)]]

Height(img) == Cardinality(DOMAIN img)
Width(img)  == Cardinality(DOMAIN img[0])

Transposed(img) == Image(Width(img), Height(img), LAMBDA y, x : img[x][y])

-----------------------------------------------------------------------------
(* init_filters: size, bias and 1 / factor.  The tables are symmetric, so  *)
(* each is given by a formula or by the rows that are not repeated.        *)
Kernel(n, b, d, weight(_, _)) ==
  [size |-> n, bias |-> b, den |-> d, at |-> Image(n, n, weight)]

Fold(i, n) == IF 2 * i < n THEN i + 1 ELSE n - i
Quadrant(n, rows) == [y \in 0 .. n - 1 |-> [x \in 0 .. n - 1 |-> rows[Fold(y, n)][Fold(x, n)]]]
Abs(i) == IF i < 0 THEN -i ELSE i

motion_blur == Kernel(9, 0, 9, LAMBDA y, x : IF y = x THEN 1 ELSE 0)
blur        == Kernel(5, 0, 13, LAMBDA y, x : IF Abs(y - 2) + Abs(x - 2) <= 2 THEN 1 ELSE 0)
gaus_blur   == Kernel(5, 0, 256, LAMBDA y, x : <<1, 4, 6, 4, 1>>[y + 1] * <<1, 4, 6, 4, 1>>[x + 1])
conv        == Kernel(3, 0, 1, LAMBDA y, x : IF y = 1 /\ x = 1 THEN 1 ELSE 0)
sharpen     == Kernel(3, 0, 1, LAMBDA y, x : IF y = 1 /\ x = 1 THEN 9 ELSE -1)
(* A plausible bug: a table that is not symmetric.                         *)
emboss_twisted(y, x) == IF y < 2 THEN -1 ELSE IF y = 2 THEN 0 ELSE 1

emboss_arr(y, x) == IF y + x < 4 THEN -1 ELSE IF y + x = 4 THEN 0 ELSE 1
emboss      == Kernel(5, 128, 1, emboss_arr)
box_blur    == Kernel(15, 0, 225, LAMBDA y, x : 1)
big_gaus    == [size |-> 15, bias |-> 0, den |-> 771, at |-> Quadrant(15, <<
                  <<2, 2, 3, 3, 4, 4, 5, 5>>,     <<2, 3, 3, 4, 4, 5, 5, 6>>,
                  <<3, 3, 4, 5, 5, 6, 6, 7>>,     <<3, 4, 5, 6, 7, 7, 8, 8>>,
                  <<4, 4, 5, 7, 8, 9, 9, 10>>,    <<4, 5, 6, 7, 9, 10, 11, 11>>,
                  <<5, 5, 6, 8, 9, 11, 12, 12>>,  <<5, 6, 7, 8, 10, 11, 12, 13>> >>)]
med_gaus    == [size |-> 9, bias |-> 0, den |-> 213, at |-> Quadrant(9, <<
                  <<1, 1, 2, 2, 2>>, <<1, 2, 2, 3, 3>>, <<2, 2, 3, 4, 5>>,
                  <<2, 3, 4, 5, 6>>, <<2, 3, 5, 6, 7>> >>)]

(* The names --filter takes; "mm" is the median, which has no table.       *)
FilterByName ==
  [bb |-> blur, mb |-> motion_blur, gb |-> gaus_blur, co |-> conv, sh |-> sharpen,
   em |-> emboss, gg |-> big_gaus, mg |-> med_gaus, bo |-> box_blur]

-----------------------------------------------------------------------------
(* apply_filter: the coordinate of a tap is moved to the nearest edge.     *)
Clamp(i, n) == IF i < 0 THEN 0 ELSE IF i >= n THEN n - 1 ELSE i
Padding(k)  == k.size \div 2

(* How often each pixel is taken: under tells the one under each tap.      *)
Taps(k) == (0 .. k.size - 1) \X (0 .. k.size - 1)
Weights(k, under) ==
  [p \in Range(under) |->
     MapThenSumSet(LAMBDA t : k.at[t[1]][t[2]], {t \in Taps(k) : under[t] = p})]
Combination(k, source(_, _)) == Weights(k, [t \in Taps(k) |-> source(t[1], t[2])])

apply_filter(k, img) ==
  LET h == Height(img)
      w == Width(img)
  IN  Image(h, w, LAMBDA y, x :
        Combination(k, LAMBDA fy, fx :
          img[Clamp(y + fy - Padding(k), h)][Clamp(x + fx - Padding(k), w)]))

(* apply_median_filter: the coordinate wraps around.  Its result is the     *)
(* median of a window, which the number of times each pixel is in it tells.*)
(* The image is at least half a window high and wide: C's % is negative    *)
(* where this one is not when it is smaller.                               *)
Window(n) == Kernel(n, 0, 1, LAMBDA y, x : 1)
apply_median_filter(n, img) ==
  LET h == Height(img)
      w == Width(img)
  IN  Image(h, w, LAMBDA y, x :
        Combination(Window(n), LAMBDA fy, fx :
          img[(y + fy - n \div 2 + h) % h][(x + fx - n \div 2 + w) % w]))

(* round(acc * factor + bias), kept within a byte.                         *)
Byte == 256
Round(n, d) == IF n < 0 THEN -((2 * (-n) + d) \div (2 * d)) ELSE (2 * n + d) \div (2 * d)
Value(k, combination, channel) ==
  Clamp(k.bias + Round(MapThenSumSet(LAMBDA p : combination[p] * channel[p],
                                     DOMAIN combination), k.den), Byte)

(* A plausible bug: the result is made a byte without being clamped.       *)
GpuValueWraps(k, combination, channel, below) ==
  (k.bias + MapThenSumSet(LAMBDA p : combination[p] * channel[p], DOMAIN combination) \div k.den) % Byte

(* apply_filter_kernel of the GPU: the result is cut off, not rounded; a   *)
(* quotient that is a whole number may come out just below it in a float.  *)
GpuValue(k, combination, channel, below) ==
  LET acc   == MapThenSumSet(LAMBDA p : combination[p] * channel[p], DOMAIN combination)
      whole == k.den > 1 /\ acc > 0 /\ acc % k.den = 0
  IN  Clamp(k.bias + (acc \div k.den) - (IF below /\ whole THEN 1 ELSE 0), Byte)

-----------------------------------------------------------------------------
Swap(a, i, j) == [a EXCEPT ![i] = a[j], ![j] = a[i]]

(* The partition of selectKth: what is less than the pivot at the end is   *)
(* moved to the front, in rounds of its loop.  It returns the array and    *)
(* the place of the pivot.  Places count from 1 here.                      *)
Loop ==
  {c \in [data : Seq(Int), i : Nat, j : Nat, e : Nat] :
     1 <= c.j /\ c.j <= c.i /\ c.i < c.e /\ c.e <= Len(c.data) + 1}
partition[c \in Loop] ==
  IF c.i = c.e - 1 THEN [data |-> Swap(c.data, c.j, c.e - 1), j |-> c.j]
  ELSE IF c.data[c.i] < c.data[c.e - 1]
  THEN partition[[data |-> Swap(c.data, c.i, c.j), i |-> c.i + 1, j |-> c.j + 1, e |-> c.e]]
  ELSE partition[[data |-> c.data, i |-> c.i + 1, j |-> c.j, e |-> c.e]]

(* The insertion sort of selectKth: data[j] sinks to its place among those *)
(* from s on; those from i on are still to be inserted.                    *)
Slot ==
  {c \in [data : Seq(Int), s : Nat, j : Nat] : 1 <= c.s /\ c.s <= c.j /\ c.j <= Len(c.data)}
insert[c \in Slot] ==
  IF c.j > c.s /\ c.data[c.j - 1] > c.data[c.j]
  THEN insert[[data |-> Swap(c.data, c.j, c.j - 1), s |-> c.s, j |-> c.j - 1]]
  ELSE c.data

Unsorted ==
  {c \in [data : Seq(Int), s : Nat, i : Nat, e : Nat] :
     1 <= c.s /\ c.s < c.i /\ c.i <= c.e /\ c.e <= Len(c.data) + 1}
sort[c \in Unsorted] ==
  IF c.i = c.e THEN c.data
  ELSE sort[[data |-> insert[[data |-> c.data, s |-> c.s, j |-> c.i]], s |-> c.s, i |-> c.i + 1, e |-> c.e]]

(* selectKth: the k-th smallest, from 0, of data[s .. e - 1].  Five or less *)
(* are sorted.                                                             *)
Call ==
  {c \in [data : Seq(Int), s : Nat, e : Nat, k : Nat] :
     1 <= c.s /\ c.k < c.e - c.s /\ c.e <= Len(c.data) + 1}
selectKth[c \in Call] ==
  IF c.e - c.s <= 5
  THEN sort[[data |-> c.data, s |-> c.s, i |-> c.s + 1, e |-> c.e]][c.s + c.k]
  ELSE LET swapped == Swap(c.data, (c.s + c.e) \div 2, c.e - 1)
           p == partition[[data |-> swapped, i |-> c.s, j |-> c.s, e |-> c.e]]
       IN  IF c.k = p.j - c.s THEN p.data[p.j]
           ELSE IF c.k < p.j - c.s THEN selectKth[[data |-> p.data, s |-> c.s, e |-> p.j, k |-> c.k]]
           ELSE selectKth[[data |-> p.data, s |-> p.j + 1, e |-> c.e, k |-> c.k - (p.j - c.s + 1)]]

(* apply_median_filter of an image whose pixels are channel values.        *)
MedianValues(n, img) ==
  LET h == Height(img)
      w == Width(img)
  IN  Image(h, w, LAMBDA y, x :
        LET window == [i \in 1 .. n * n |->
              LET fy == (i - 1) \div n
                  fx == (i - 1) % n
              IN  img[(y + fy - n \div 2 + h) % h][(x + fx - n \div 2 + w) % w]]
        IN  selectKth[[data |-> window, s |-> 1, e |-> n * n + 1, k |-> (n * n) \div 2]])
=============================================================================
