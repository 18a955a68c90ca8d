-------------------- MODULE MC_FindBestQuantizationMaxError --------------------
(***************************************************************************)
(* The 3x1 frame of the other searches: a 2x1 varblock and an 8x8 block.  *)
(***************************************************************************)
EXTENDS FindBestQuantizationMaxError

MCLayout == {[x |-> 0, y |-> 0, cx |-> 2, cy |-> 1],
             [x |-> 2, y |-> 0, cx |-> 1, cy |-> 1]}

=============================================================================
