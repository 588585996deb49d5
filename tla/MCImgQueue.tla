------------------------------ MODULE MCImgQueue ------------------------------
(***************************************************************************)
(* ImgQueue for TLC: three producers, two consumers, a ring of a few slots,*)
(* images of different sizes.                                              *)
(***************************************************************************)
EXTENDS ImgQueue, TLC

CONSTANTS p1, p2, p3, c1, c2, i1, i2, i3, i4

MCProducer == {p1, p2, p3}
MCConsumer == {c1, c2}
MCImg == {i1, i2, i3, i4}

(* Two small images, one medium and one larger than the whole queue may    *)
(* hold (MaxMem = 4): it is admitted alone.                                *)
MixedMem == i1 :> 1 @@ i2 :> 1 @@ i3 :> 3 @@ i4 :> 5
=============================================================================
