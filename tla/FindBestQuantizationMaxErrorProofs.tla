------------------ MODULE FindBestQuantizationMaxErrorProofs ------------------
(***************************************************************************)
(* Proofs about the max-error search, for every grid, AC strategy layout, *)
(* iteration count, initial field and error values the assumptions of     *)
(* QuantGrid and FindBestQuantizationMaxError allow.                       *)
(***************************************************************************)
EXTENDS FindBestQuantizationMaxError, QuantGridProofs, TLAPS

USE GridAssumption, MaxErrorAssumption

-----------------------------------------------------------------------------
(* Lemmas about the multiplication by qf_mul. *)

(* qf_mul of a natural error is a natural number. *)
LEMMA QfMulNat ==
  ASSUME NEW e \in Nat
  PROVE  QfMul(e) \in Nat
BY DEF QfMul, EU

(* The multiplication keeps a natural field natural. *)
LEMMA MultiplyType ==
  ASSUME NEW f \in [Cells -> Nat], NEW e \in [Cells -> Nat]
  PROVE  Multiply(f, e) \in [Cells -> Nat]
<1> SUFFICES ASSUME NEW c \in Cells
             PROVE  (f[c] * QfMul(e[c])) \div EU \in Nat
  BY DEF Multiply
<1>1. QfMul(e[c]) \in Nat
  BY QfMulNat
<1> QED
  BY <1>1 DEF EU

(* Multiplying by a per-varblock factor keeps a field block-constant. *)
LEMMA MultiplyBlockConstant ==
  ASSUME NEW f, NEW e, BlockConstant(f), BlockConstant(e)
  PROVE  BlockConstant(Multiply(f, e))
BY DEF BlockConstant, Multiply

(***************************************************************************)
(* The direction of one block: a factor from an error of at least half    *)
(* the maximum is at least 1, from one below half it is below 1, and the  *)
(* truncating division by EU follows it.                                  *)
(***************************************************************************)
LEMMA MultiplyDirection ==
  ASSUME NEW q \in Nat, NEW e \in Nat
  PROVE  /\ 2 * e >= EU => (q * QfMul(e)) \div EU >= q
         /\ 2 * e < EU => (q * QfMul(e)) \div EU <= q
<1>1. 2 * e >= EU => QfMul(e) >= EU
  BY DEF QfMul, EU
<1>2. 2 * e < EU => QfMul(e) = 2 * e /\ 2 * e < EU
  BY DEF QfMul, EU
<1>3. ASSUME NEW m \in Nat, m >= EU PROVE (q * m) \div EU >= q
  BY <1>3 DEF EU
<1>4. ASSUME NEW m \in Nat, m < EU PROVE (q * m) \div EU <= q
  BY <1>4 DEF EU
<1> QED
  BY <1>1, <1>2, <1>3, <1>4, QfMulNat

-----------------------------------------------------------------------------
(* Type correctness. *)

LEMMA TypeInit == Init => TypeOK
<1> SUFFICES ASSUME Init PROVE TypeOK
  OBVIOUS
<1>1. PICK raw \in [Cells -> InitVals] : field = AdjustQuantField(raw)
  BY DEF Init
<1>2. field \in [Cells -> Nat]
  BY <1>1, AdjustQuantFieldType
<1>3. [c \in Cells |-> 0] \in [Cells -> Nat]
  OBVIOUS
<1> QED
  BY <1>2, <1>3 DEF Init, TypeOK

LEMMA TypeStep == TypeOK /\ [Next]_vars => TypeOK'
<1> SUFFICES ASSUME TypeOK, [Next]_vars PROVE TypeOK'
  OBVIOUS
<1>1. CASE Pass
  <2>1. PICK agg \in [Layout -> ErrVals] :
          /\ err' = TileDistMap(agg)
          /\ field' = Multiply(field, TileDistMap(agg))
    BY <1>1 DEF Pass
  <2>2. TileDistMap(agg) \in [Cells -> Nat]
    BY TileDistMapType
  <2>3. field' \in [Cells -> Nat]
    BY <2>1, <2>2, MultiplyType DEF TypeOK
  <2>4. iter' \in 0 .. MaxIters + 1
    BY <1>1 DEF Pass, InLoop, TypeOK
  <2> QED
    BY <1>1, <2>1, <2>2, <2>3, <2>4 DEF Pass, TypeOK
<1>2. CASE Finish
  BY <1>2 DEF Finish, TypeOK
<1>3. CASE UNCHANGED vars
  BY <1>3 DEF vars, TypeOK
<1> QED
  BY <1>1, <1>2, <1>3 DEF Next

(* Every reachable state of the max-error search is well typed. *)
THEOREM TypeCorrect == Spec => []TypeOK
BY TypeInit, TypeStep, PTL DEF Spec

-----------------------------------------------------------------------------
(***************************************************************************)
(* Block constancy.  BlockConstancy only speaks of final at the end; the  *)
(* inductive form states it in every state, as final is the initial field *)
(* until Finish copies field into it.                                      *)
(***************************************************************************)
BlockInv == BlockConstant(field) /\ BlockConstant(final)

LEMMA BlockInvInit == Init => BlockInv
BY AdjustBlockConstant DEF Init, BlockInv

LEMMA BlockInvStep == BlockInv /\ [Next]_vars => BlockInv'
<1> SUFFICES ASSUME BlockInv, [Next]_vars PROVE BlockInv'
  OBVIOUS
<1>1. CASE Pass
  <2>1. PICK agg \in [Layout -> ErrVals] :
          field' = Multiply(field, TileDistMap(agg))
    BY <1>1 DEF Pass
  <2>2. BlockConstant(field')
    BY <2>1, TileBlockConstant, MultiplyBlockConstant DEF BlockInv
  <2> QED
    BY <1>1, <2>2 DEF Pass, BlockInv
<1>2. CASE Finish
  BY <1>2 DEF Finish, BlockInv
<1>3. CASE UNCHANGED vars
  BY <1>3 DEF vars, BlockInv
<1> QED
  BY <1>1, <1>2, <1>3 DEF Next

(***************************************************************************)
(* BlockConstancy: the field of the max-error search, and the one given   *)
(* to the quantizer at the end, stay constant over every varblock, for    *)
(* every layout that tiles the grid.                                       *)
(***************************************************************************)
THEOREM BlockConstancyHolds == Spec => []BlockConstancy
<1>1. Spec => []BlockInv
  BY BlockInvInit, BlockInvStep, PTL DEF Spec
<1>2. BlockInv => BlockConstancy
  BY DEF BlockInv, BlockConstancy
<1> QED
  BY <1>1, <1>2, PTL

-----------------------------------------------------------------------------
(* The step of MonotoneRegime, from the type of the state before it. *)
LEMMA MonotoneStep ==
  TypeOK /\ [Next]_vars =>
    [Pass => \A c \in Cells :
               /\ 2 * err'[c] >= EU => field'[c] >= field[c]
               /\ 2 * err'[c] < EU => field'[c] <= field[c]]_vars
<1> SUFFICES ASSUME TypeOK, Pass, NEW c \in Cells
             PROVE  /\ 2 * err'[c] >= EU => field'[c] >= field[c]
                    /\ 2 * err'[c] < EU => field'[c] <= field[c]
  OBVIOUS
<1>1. PICK agg \in [Layout -> ErrVals] :
        /\ err' = TileDistMap(agg)
        /\ field' = Multiply(field, TileDistMap(agg))
  BY DEF Pass
<1>2. TileDistMap(agg) \in [Cells -> Nat]
  BY TileDistMapType
<1>3. field'[c] = (field[c] * QfMul(err'[c])) \div EU
  BY <1>1 DEF Multiply
<1>4. field[c] \in Nat /\ err'[c] \in Nat
  BY <1>1, <1>2 DEF TypeOK
<1> QED
  BY <1>3, <1>4, MultiplyDirection

(***************************************************************************)
(* MonotoneRegime (spec 8, property 5): no pass lowers a block whose      *)
(* varblock error is at least half the maximum, or raises one whose error *)
(* is below half, for every error values and initial field.               *)
(***************************************************************************)
THEOREM MonotoneRegimeHolds == Spec => MonotoneRegime
BY TypeCorrect, MonotoneStep, PTL DEF Spec, MonotoneRegime

=============================================================================
