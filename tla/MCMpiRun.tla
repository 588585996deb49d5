------------------------------ MODULE MCMpiRun ------------------------------
(***************************************************************************)
(* MpiRun for TLC: images of a few pixels, from one row for several        *)
(* processes to several rows for each, kernels of 3x3 and 5x5 (halos of    *)
(* one and two rows, wider than a share), the identity among them.         *)
(***************************************************************************)
EXTENDS MpiRun

Inputs(sizes, shapes, modes, filters) ==
  {[size |-> n, h |-> s[1], w |-> s[2], mode |-> m, filter |-> f, missing |-> {}] :
     n \in sizes, s \in shapes, m \in modes, f \in filters}

(* Shapes are height and width.  The median needs no row but the one.      *)
MostJobs ==
  Inputs({2}, {<<1, 2>>, <<5, 2>>}, {"by_row", "by_column"}, {"sh", "em"})
  \union Inputs({2}, {<<4, 3>>}, {"by_row", "by_column"}, {"sh"})
  \union Inputs({3}, {<<3, 3>>, <<5, 2>>, <<2, 3>>}, {"by_row", "by_column"}, {"em"})
  \union Inputs({4}, {<<2, 2>>}, {"by_row"}, {"sh"})
  \union Inputs({3}, {<<2, 2>>}, {"by_grid", "by_pixel"}, {"co"})
  \union Inputs({3}, {<<0, 2>>}, {"by_row"}, {"co"})
  \union Inputs({2}, {<<1, 2>>}, {"by_row"}, {"mm"})
  \union {[j EXCEPT !.missing = 0 .. 2] : j \in Inputs({3}, {<<4, 2>>}, {"by_row"}, {"sh"})}

MedianJobs == Inputs({2, 3}, {<<4, 3>>, <<6, 2>>}, {"by_row"}, {"mm"})

(* A file that is nowhere, and one that only some nodes have.              *)
Missing(ranks, jobs) == {[j EXCEPT !.missing = ranks] : j \in jobs}
SetupJobs == LET jobs == Inputs({3}, {<<4, 2>>}, {"by_row", "by_column"}, {"sh"})
             IN  Missing({2}, jobs) \union Missing({0, 1}, jobs)
=============================================================================
