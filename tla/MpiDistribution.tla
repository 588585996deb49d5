--------------------------- MODULE MpiDistribution ---------------------------
(***************************************************************************)
(* How the MPI mode divides the rows of an image among ranks               *)
(* (backend/cpu/mpi/utils/utils.c): the rows a rank computes, the rows it  *)
(* needs to read for that, and the counts and displacements rank 0 hands   *)
(* to MPI_Scatterv and MPI_Gatherv.  Pure arithmetic; in by_column mode    *)
(* the rows are those of the transposed image.                             *)
(***************************************************************************)
EXTENDS Integers

BytesPerPixel == 3
Word16 == 65536     \* values of a uint16_t

(* mpi_calculate_row_distribution and mpi_calculate_column_distribution:   *)
(* the first h % size ranks get one row more.                              *)
Share(rank, size, h) ==
  LET rows      == h \div size
      remainder == h % size
  IN  [start |-> rank * rows + (IF rank < remainder THEN rank ELSE remainder),
       num   |-> rows + (IF rank < remainder THEN 1 ELSE 0)]

(* A plausible bug: the halo below the last row.                           *)
HaloPastTheEnd(share, halo, h) ==
  LET first == IF share.start < halo THEN 0 ELSE share.start - halo
  IN  [start |-> first, num |-> share.start + share.num + halo - first]

(* mpi_verify_distribution_range: the share and its halo within the image. *)
WithHalo(share, halo, h) ==
  LET first == IF share.start < halo THEN 0 ELSE share.start - halo
      after == IF share.start + share.num + halo > h THEN h ELSE share.start + share.num + halo
  IN  [start |-> first, num |-> IF first >= after THEN 0 ELSE after - first]

(* A plausible bug: rank 0 sends the halo above a share but not below.     *)
SendRangeAbove(rank, size, halo, h) ==
  LET share == Share(rank, size, h)
      first == IF share.start - halo < 0 THEN 0 ELSE share.start - halo
  IN  [start |-> first, num |-> share.start + share.num - first]

(* mpi_setup_scatter_gather_row_arrays computes halos of its own, from the *)
(* shares it has computed again for every rank, and converts to bytes.     *)
(* Where the first row wanted and the rows sent lie in the image           *)
(* (origdispls, sendcounts), where the result goes (recvdispls,            *)
(* recvcounts), and where the rows lie in the packed buffer (displs).      *)
SendRange(rank, size, halo, h) ==
  LET share == Share(rank, size, h)
      first == IF share.start - halo < 0 THEN 0 ELSE share.start - halo
      after == IF share.start + share.num + halo > h THEN h ELSE share.start + share.num + halo
  IN  [start |-> first, num |-> after - first]

CommArrays(size, halo, h, stride) ==
  LET rank == 0 .. size - 1
      sendcounts == [r \in rank |-> SendRange(r, size, halo, h).num * stride]
      offset[r \in 0 .. size] == IF r = 0 THEN 0 ELSE offset[r - 1] + sendcounts[r - 1]
  IN  [sendcounts |-> sendcounts,
       origdispls |-> [r \in rank |-> SendRange(r, size, halo, h).start * stride],
       recvcounts |-> [r \in rank |-> Share(r, size, h).num * stride],
       recvdispls |-> [r \in rank |-> Share(r, size, h).start * stride],
       displs     |-> [r \in rank |-> offset[r]]]

(* A plausible bug: the halo of one row that comments call the default.    *)
HaloOfOne(kernelSize) == 1

(* get_halo_size: half of the kernel.                                      *)
HaloSize(kernelSize) == kernelSize \div 2
=============================================================================
