--------------------- MODULE FindBestQuantizationMaxError ---------------------
(***************************************************************************)
(* FindBestQuantizationMaxError (enc_adaptive_quantization.cc): after      *)
(* AdjustQuantField, max_butteraugli_iters + 1 passes, each a roundtrip   *)
(* and a multiplication of every varblock by a factor chosen from its     *)
(* maximum error relative to cparams.max_error; then the final            *)
(* SetQuantField.                                                          *)
(*                                                                         *)
(* Fixed point: a field value q stands for q / 100, an error e for e / EU  *)
(* of the allowed maximum.  The roundtrip is an input: each pass chooses   *)
(* one error per varblock from ErrVals.                                    *)
(***************************************************************************)
EXTENDS QuantGrid

CONSTANTS
  InitVals,   \* values of the initial field, in 1/100
  MaxIters,   \* cparams.max_butteraugli_iters
  ErrVals     \* per-varblock max_error values a roundtrip may give, in 1/EU

EU == 10

ASSUME MaxErrorAssumption ==
  /\ InitVals \subseteq Nat \ {0} /\ InitVals # {}
  /\ MaxIters \in Nat
  /\ ErrVals \subseteq Nat /\ ErrVals # {}

VARIABLES
  field,      \* quant_field
  iter,       \* the loop index i
  err,        \* the per-block max_error of the last pass
  pc,         \* "loop" or "done"
  final,      \* the field of the final SetQuantField
  measured    \* history: the fields some roundtrip was run with

vars == <<field, iter, err, pc, final, measured>>

-----------------------------------------------------------------------------
(* Variant: the "1.0f" case dropped, qf_mul = max_error from 0.5 on. *)
QfMulNoUnit(e) == IF 2 * e < EU THEN 2 * e ELSE e

(***************************************************************************)
(* qf_mul = max_error < 0.5 ? 2 max_error : max_error > 1 ? max_error : 1, *)
(* in 1/EU.                                                                *)
(***************************************************************************)
QfMul(e) == IF 2 * e < EU THEN 2 * e ELSE IF e > EU THEN e ELSE EU

(* Variant: only the first block of each varblock is multiplied. *)
MultiplyFirstOnly(f, e) ==
  [c \in Cells |-> IF c = <<VB(c).x, VB(c).y>> THEN (f[c] * QfMul(e[c])) \div EU
                   ELSE f[c]]

(* quant_field_row[qx] *= qf_mul over the blocks the varblock covers. *)
Multiply(f, e) == [c \in Cells |-> (f[c] * QfMul(e[c])) \div EU]

(* Variant: the loop bound read as i <= max_butteraugli_iters + 1. *)
InLoopInclusive(i) == i <= MaxIters + 1

(* for (int i = 0; i < cparams.max_butteraugli_iters + 1; ++i) *)
InLoop(i) == i < MaxIters + 1

Init ==
  /\ \E raw \in [Cells -> InitVals] : field = AdjustQuantField(raw)
  /\ iter = 0
  /\ err = [c \in Cells |-> 0]
  /\ pc = "loop"
  /\ final = field
  /\ measured = {}

(***************************************************************************)
(* Pass i <= max_butteraugli_iters: SetQuantField, roundtrip, the maximum *)
(* error of every first block over the pixels of its varblock, and the    *)
(* multiplication.                                                         *)
(***************************************************************************)
Pass ==
  /\ pc = "loop"
  /\ InLoop(iter)
  /\ \E agg \in [Layout -> ErrVals] :
       LET e == TileDistMap(agg)
       IN  /\ err' = e
           /\ field' = Multiply(field, e)
  /\ measured' = measured \cup {field}
  /\ iter' = iter + 1
  /\ UNCHANGED <<pc, final>>

(* The loop is over: the final SetQuantField. *)
Finish ==
  /\ pc = "loop"
  /\ ~InLoop(iter)
  /\ pc' = "done"
  /\ final' = field
  /\ UNCHANGED <<field, iter, err, measured>>

Next == Pass \/ Finish

Spec == Init /\ [][Next]_vars

-----------------------------------------------------------------------------
TypeOK ==
  /\ field \in [Cells -> Nat]
  /\ iter \in 0 .. MaxIters + 1
  /\ err \in [Cells -> Nat]
  /\ pc \in {"loop", "done"}
  /\ final \in [Cells -> Nat]
  /\ measured \subseteq [Cells -> Nat]

(***************************************************************************)
(* Block constancy (spec 8, property 4) in the max-error search: the      *)
(* field, and the one given to the quantizer at the end, is constant over *)
(* each varblock, as AdjustQuantField made it and as every pass multiplies *)
(* all the blocks of a varblock by the same factor.                       *)
(***************************************************************************)
BlockConstancy == BlockConstant(field) /\ (pc = "done" => BlockConstant(final))

(***************************************************************************)
(* Spec 8, property 5: a pass never lowers a block whose varblock error is *)
(* at least half the maximum, and never raises one whose error is below   *)
(* half.                                                                   *)
(***************************************************************************)
MonotoneRegime ==
  [][Pass => \A c \in Cells :
               /\ 2 * err'[c] >= EU => field'[c] >= field[c]
               /\ 2 * err'[c] < EU => field'[c] <= field[c]]_vars

(* Spec 8, property 2: every value of the field is positive. *)
Positivity == \A c \in Cells : field[c] > 0

=============================================================================
