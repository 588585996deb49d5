----------------------------- MODULE MCMtCompute -----------------------------
(***************************************************************************)
(* MtCompute for TLC: three threads, counters of three bits, every         *)
(* mode.  Heights and widths reach from one pixel to the largest a counter *)
(* holds, block sizes from one pixel to more than the image.               *)
(***************************************************************************)
EXTENDS MtCompute

CONSTANTS t1, t2, t3

MCThreads == {t1, t2, t3}

Job(modes, hs, ws, bs, median) ==
  [mode : modes, height : hs, width : ws, block : bs, median : median]

(* Tall images by row, wide ones by column, both kinds by grid. *)
LinearJobs ==
  Job({"row"}, 1 .. 7, {1, 2}, {1, 2, 3, 5}, {FALSE})
    \union Job({"column"}, {1, 2}, 1 .. 7, {1, 2, 3, 5}, {FALSE})
    \union Job({"grid"}, {1, 3, 5, 7}, {2, 5}, {2, 3}, {FALSE})
    \union Job({"pixel"}, {2}, {3}, {2}, {FALSE})

(* Any of the blocks may be the one whose median finds no memory; the last *)
(* two geometries make a counter overflow, so that a block is taken again. *)
MedianJobs ==
  Job({"row", "column"}, {4}, {4}, {1, 2}, {TRUE}) \union Job({"grid"}, {4}, {4, 5}, {2, 3}, {TRUE})
    \union Job({"row"}, {7}, {1}, {3}, {TRUE}) \union Job({"column"}, {1}, {7}, {2, 3}, {TRUE})

AllJobs == LinearJobs \union MedianJobs
=============================================================================
