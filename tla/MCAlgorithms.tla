----------------------------- MODULE MCAlgorithms -----------------------------
(***************************************************************************)
(* Collections of up to five elements; an Int of 16 bits and temporary     *)
(* blocks at, above and far above the limit of the stack; strides over     *)
(* every pair of bounds of a four-bit type; rows of up to four collections *)
(* of up to two elements.                                                  *)
(***************************************************************************)
EXTENDS Algorithms

CONSTANTS a1, a2

(* 256 elements of 4 bytes fill the limit, 8192 wrap around to -32768.     *)
MCCapacities == {-1, 256, 257, 8192}

MCLowest == -8
MCDistances == {-9, -7, -3, -2, -1, 0, 1, 2, 3, 5, 7, 9}
=============================================================================
