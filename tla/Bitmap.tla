-------------------------------- MODULE Bitmap --------------------------------
(***************************************************************************)
(* Image files as libbmp reads and writes them.  A file is its header and  *)
(* the bytes after it; what is behind the magic number, the width and the  *)
(* height of the header is not looked at.  The three channels of a pixel   *)
(* are read, filtered and written alike: in the files here their three     *)
(* bytes have the same value, which stands for the pixel.                  *)
(***************************************************************************)
EXTENDS Kernels, SequencesExt

(* What is used of a header, and the bytes.  A negative width is left out: *)
(* there is no memory for a row of it.                                     *)
BmpFile == [h : Int, w : Nat, bytes : Seq(0 .. 255)]

(* BMP_GET_PADDING; a row of pixels and padding is a multiple of four      *)
(* bytes.                                                                  *)
RowPadding(w) == w % 4
PixelBytes == 3
RowBytes(w) == PixelBytes * w + RowPadding(w)

(* bmp_img_read and bmp_img_write take the rows of a file in order, from   *)
(* the last to the first of the image.  A file that is too short is an     *)
(* error, except that the padding of the last row may be missing.          *)
Complete(file) ==
  file.w = 0 \/ file.h = 0 \/ Len(file.bytes) >= RowBytes(file.w) * file.h - RowPadding(file.w)

(* A negative height says that the file is top down: the second row is     *)
(* read to a place before the first.                                       *)
TopDown(file) == file.h < 0

bmp_img_read(file) ==
  [y \in 0 .. file.h - 1 |->
     LET row == SubSeq(file.bytes, (file.h - 1 - y) * RowBytes(file.w) + 1, Len(file.bytes))
     IN  [x \in 0 .. file.w - 1 |-> row[PixelBytes * x + 1]]]

(* A plausible bug: the rows are written as they lie in memory.            *)
WrittenTopDown(h, w, img) ==
  [h |-> h, w |-> w, bytes |-> FlattenSeq([i \in 1 .. h |->
     [n \in 1 .. RowBytes(w) |-> IF n > PixelBytes * w THEN 0 ELSE img[i - 1][(n - 1) \div PixelBytes]]])]

bmp_img_write(h, w, img) ==
  [h |-> h, w |-> w, bytes |-> FlattenSeq([i \in 1 .. h |->
     [n \in 1 .. RowBytes(w) |-> IF n > PixelBytes * w THEN 0 ELSE img[h - i][(n - 1) \div PixelBytes]]])]
=============================================================================
