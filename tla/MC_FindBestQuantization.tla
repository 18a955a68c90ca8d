--------------------- MODULE MC_FindBestQuantization ---------------------
(***************************************************************************)
(* A 3x1 block frame with one 16x8 varblock and one 8x8 block.  Field      *)
(* values 0.01, 0.3 and 3.0, so both regimes of qf_lower occur and so does *)
(* a max/min ratio above 250.  Distances 0.5, 1 and 1.25 times the target; *)
(* local distances that can grow by more than 1.5% twice in a row.  Three  *)
(* roundtrips (max_butteraugli_iters = 2): the pow update twice, the floor *)
(* once and one revert round.  A quantizer step of 1.0, so that a 25%      *)
(* increase sometimes rounds to the same quantizer index and sometimes not.*)
(***************************************************************************)
EXTENDS FindBestQuantization

MCLayout == {[x |-> 0, y |-> 0, cx |-> 2, cy |-> 1],
             [x |-> 2, y |-> 0, cx |-> 1, cy |-> 1]}

MCPowUnit == 32
MCDU == 4

(* floor(PowUnit * (d / DU)^(1/5)) *)
MCPowFifth ==
  [d \in 0 .. MCDU |->
     CHOOSE p \in 0 .. MCPowUnit :
       /\ p ^ 5 * MCDU <= d * MCPowUnit ^ 5
       /\ (p + 1) ^ 5 * MCDU > d * MCPowUnit ^ 5]

=============================================================================
