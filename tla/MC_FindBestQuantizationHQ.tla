----------------------- MODULE MC_FindBestQuantizationHQ ----------------------
(***************************************************************************)
(* A 3x1 block frame: a 2x1 varblock at block 0 and an 8x8 block at 2, so  *)
(* a peak at block 2 reaches block 1 at radius 1 but not block 0.         *)
(***************************************************************************)
EXTENDS FindBestQuantizationHQ

MCLayout == {[x |-> 0, y |-> 0, cx |-> 2, cy |-> 1],
             [x |-> 2, y |-> 0, cx |-> 1, cy |-> 1]}

=============================================================================
