------------------------------ MODULE MCBufReader ------------------------------
(***************************************************************************)
(* Small instances of BufReader.  A block of five bytes is the smallest in *)
(* which a peek of four can start at two different places without crossing *)
(* the boundary; files up to fourteen bytes have up to three blocks, the   *)
(* last of every length from empty to full; arrays reach over two blocks.  *)
(***************************************************************************)
EXTENDS BufReader

MCFileLens == 0 .. 14
MCArraySizes == {0, 1, 2, 4, 7, 11}
================================================================================
