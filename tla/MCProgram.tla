------------------------------ MODULE MCProgram ------------------------------
(***************************************************************************)
(* Program for TLC: command lines around the bounds of every option, run   *)
(* on small images that are all different in their rows and columns, and   *)
(* the median on every image of 2x3 with three values.                      *)
(***************************************************************************)
EXTENDS Program

(* Widths 1 to 5 take all the paddings.                                    *)
File(h, w, pixel(_, _)) ==
  [h |-> h, w |-> w,
   bytes |-> FlattenSeq([i \in 1 .. Abs(h) |->
     [n \in 1 .. RowBytes(w) |-> IF n > 3 * w THEN 7 ELSE pixel(i, (n - 1) \div 3)]])]
Picture(h, w) == File(h, w, LAMBDA i, x : (83 * i + 41 * x) % 256)
Missing == [Picture(1, 1) EXCEPT !.bytes = <<>>]
Short(file, by) == [file EXCEPT !.bytes = SubSeq(@, 1, Len(@) - by)]

Typed == [backend |-> "cpu", queue |-> FALSE, mpi |-> FALSE, filter |-> "sh", mode |-> "by_row",
          block |-> 2, threadnum |-> NotGiven, rww |-> NotGiven, capacity |-> NotGiven,
          files |-> 1, log |-> TRUE]
World == [rank |-> 0, size |-> 1, opencl |-> TRUE, file |-> Picture(2, 3)]
Queue == [Typed EXCEPT !.queue = TRUE, !.rww = <<1, 2, 3>>, !.files = 3]

In(where, commands) == {[asked |-> a, world |-> where] : a \in commands}
With(command, worlds) == {[asked |-> command, world |-> w] : w \in worlds}

Options ==
  In(World,
    {[Typed EXCEPT !.block = b, !.threadnum = n] : b \in {NotGiven, 0, 1, 256, 257}, n \in {NotGiven, 1, 2, 127}}
    \union {[Typed EXCEPT !.threadnum = n] : n \in {0, 128, 200, 257}}
    \union {[Typed EXCEPT !.filter = f, !.mode = m] : f \in {NotGiven, "xx", "co"},
              m \in {NotGiven, "none such", "by_column", "by_pixel", "by_grid"}}
    \union {[Typed EXCEPT !.files = n] : n \in {0, 2}}
    \union {[Typed EXCEPT !.capacity = 1], [Typed EXCEPT !.rww = <<1, 1, 1>>], [Typed EXCEPT !.log = FALSE]})

Queues ==
  In(World,
    {[Queue EXCEPT !.files = n, !.mpi = m] : n \in {1, 2, 3, 4, 5, 6, 7}, m \in BOOLEAN}
    \union {[Queue EXCEPT !.capacity = c] : c \in {-1, 0, 1, Word32}}
    \union {[Queue EXCEPT !.rww = r] : r \in {NotGiven, <<0, 1, 1>>, <<1, 256, 1>>, <<255, 255, 200>>}}
    \union {[Queue EXCEPT !.backend = "gpu"], [Queue EXCEPT !.threadnum = 2]})

Images ==
  With(Typed, {[World EXCEPT !.file = f] : f \in
    {Missing, Short(Picture(2, 3), 4), Short(Picture(2, 3), 3), Picture(-2, 2), Picture(1, 9), Picture(8, 1)}
    \union {Picture(h, w) : h \in 1 .. 3, w \in 1 .. 5}})

Jobs == UNION {With([Typed EXCEPT !.mpi = TRUE, !.mode = m, !.threadnum = 2],
                 {[World EXCEPT !.rank = r, !.size = 2, !.file = f] : r \in 0 .. 1,
                    f \in {Missing, Picture(2, 3), Picture(3, 2)}}) : m \in {"by_row", "by_column", "by_grid"}}
        \union With([Typed EXCEPT !.mpi = TRUE], {World})

Gpu == UNION {With([Typed EXCEPT !.backend = "gpu", !.filter = f, !.block = b],
                {[World EXCEPT !.opencl = o, !.file = Picture(3, 3)] : o \in BOOLEAN}) :
                f \in {"sh", "em", "bb", "gb", "co", "mm"}, b \in {2, 9}}

Linear == UNION {With([Typed EXCEPT !.filter = f, !.threadnum = 2], {[World EXCEPT !.file = Picture(3, 4)]}) :
                   f \in {"em", "bb", "gb", "co", "mb"}}

Medians == With([Typed EXCEPT !.filter = "mm"],
  {[World EXCEPT !.file = File(2, 3, LAMBDA i, x : v[3 * i + x])] : v \in [3 .. 8 -> 0 .. 2]}
  \union {[World EXCEPT !.file = Picture(4, 3)]})
SmallMedians == With([Typed EXCEPT !.filter = "mm"],
  {[World EXCEPT !.file = f] : f \in {Picture(1, 3), Picture(3, 1), Picture(1, 8)}})

MostCases == Options \union Queues \union Images \union Jobs \union Gpu \union Linear
             \union Medians \union SmallMedians
=============================================================================
