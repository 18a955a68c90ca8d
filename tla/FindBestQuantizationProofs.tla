--------------------- MODULE FindBestQuantizationProofs ---------------------
(***************************************************************************)
(* Proofs about the default quant-field search, for every grid, AC         *)
(* strategy layout, iteration count and distance scale the assumptions of *)
(* QuantGrid and FindBestQuantization allow.                               *)
(***************************************************************************)
EXTENDS FindBestQuantization, QuantGridProofs, TLAPS

USE GridAssumption, ParamAssumption

-----------------------------------------------------------------------------
(* Arithmetic and grid lemmas. *)

(* Integer division of a natural number by a positive one is natural. *)
LEMMA DivNat ==
  ASSUME NEW a \in Nat, NEW b \in Nat \ {0}
  PROVE  a \div b \in Nat
BY SMT

(* A map into a subset of T is a map into T. *)
LEMMA FunctionWiden ==
  ASSUME NEW S, NEW T, S \subseteq T, NEW f \in [Cells -> S]
  PROVE  f \in [Cells -> T]
OBVIOUS

(* The distance inputs are natural numbers. *)
LEMMA DistsNat == Dists \subseteq Nat /\ LocalDists \subseteq Nat
BY SMT

-----------------------------------------------------------------------------
(* Lemmas about the per-block steps of an iteration. *)

(* The clamp of the update keeps a natural value natural. *)
LEMMA ClampType ==
  ASSUME NEW q \in Nat, NEW lo \in Nat, NEW hi \in Nat
  PROVE  Clamp(q, lo, hi) \in Nat
BY DEF Clamp

(* The revert of one block yields a natural value. *)
LEMMA RevertCellType ==
  ASSUME NEW q \in Nat, NEW lq \in Nat, NEW d \in Nat, NEW ld \in Nat
  PROVE  RevertCell(q, lq, d, ld) \in Nat
BY DEF RevertCell

(* The round-1 floor of one block yields a natural value. *)
LEMMA FloorCellType ==
  ASSUME NEW q \in Nat, NEW q0 \in Nat, NEW lo \in Nat, NEW hi \in Nat
  PROVE  FloorCell(q, q0, lo, hi) \in Nat
<1>1. (2 * q + 3 * q0) \div 5 \in Nat
  OBVIOUS
<1> QED
  BY <1>1, ClampType DEF FloorCell

(* The revert picks the current or the saved value, so it stays in any   *)
(* interval that holds both.                                             *)
LEMMA RevertCellIn ==
  ASSUME NEW q \in Nat, NEW lq \in Nat, NEW d, NEW ld,
         NEW lo \in Nat, NEW hi \in Nat,
         lo <= q, q <= hi, lo <= lq, lq <= hi
  PROVE  lo <= RevertCell(q, lq, d, ld) /\ RevertCell(q, lq, d, ld) <= hi
BY DEF RevertCell

(* The update of a block is the clamp of a natural number. *)
LEMMA UpdateCellFacts ==
  ASSUME NEW q \in Nat, NEW d \in Dists, NEW pow \in BOOLEAN,
         NEW lo \in Nat, NEW hi \in Nat
  PROVE  /\ UpdateCell(q, d, pow, lo, hi) \in Nat
         /\ lo <= hi => /\ lo <= UpdateCell(q, d, pow, lo, hi)
                        /\ UpdateCell(q, d, pow, lo, hi) <= hi
<1>1. d \in 0 .. (2 * DU)
  OBVIOUS
<1>2. (q * d) \div DU \in Nat /\ q + QScale \in Nat
  BY <1>1
<1>3. RaiseCell(q, d) \in Nat
  BY <1>2 DEF RaiseCell
<1>4. CASE d > DU
  <2>1. UpdateCell(q, d, pow, lo, hi) = Clamp(RaiseCell(q, d), lo, hi)
    BY <1>4 DEF UpdateCell
  <2> QED
    BY <1>3, <2>1 DEF Clamp
<1>5. CASE ~(d > DU) /\ pow
  <2>1. d \in 0 .. DU
    BY <1>1, <1>5
  <2>2. PowFifth[d] \in 0 .. PowUnit
    BY <2>1
  <2>3. q * PowFifth[d] \in Nat
    BY <2>2
  <2>4. (q * PowFifth[d]) \div PowUnit \in Nat
    BY <2>3, DivNat
  <2>5. UpdateCell(q, d, pow, lo, hi) = Clamp((q * PowFifth[d]) \div PowUnit, lo, hi)
    BY <1>5 DEF UpdateCell
  <2> QED
    BY <2>4, <2>5 DEF Clamp
<1>6. CASE ~(d > DU) /\ ~pow
  <2>1. UpdateCell(q, d, pow, lo, hi) = Clamp(q, lo, hi)
    BY <1>6 DEF UpdateCell
  <2> QED
    BY <2>1 DEF Clamp
<1> QED
  BY <1>4, <1>5, <1>6

-----------------------------------------------------------------------------
(* The state keeps its types. *)

(* The initial state has its types. *)
LEMMA TypeInit == Init => TypeOK
  <2> SUFFICES ASSUME Init PROVE TypeOK
    OBVIOUS
  <2>1. PICK raw \in [Cells -> InitVals] : initialField = AdjustQuantField(raw)
    BY DEF Init
  <2>2. initialField \in [Cells -> Nat]
    BY <2>1, AdjustQuantFieldType
  <2>3. SetMax({initialField[c] : c \in Cells}) \in Nat
    <3>1. {initialField[c] : c \in Cells} # {}
      BY OriginCell
    <3>2. SetMax({initialField[c] : c \in Cells}) \in {initialField[c] : c \in Cells}
      BY <3>1, SetMaxIn
    <3> QED
      BY <2>2, <3>2
  <2>4. /\ qfLower \in 0 .. SetMax({initialField[c] : c \in Cells})
        /\ qfHigher \in 0 .. (8 * SetMax({initialField[c] : c \in Cells}))
    BY DEF Init
  <2>5. qfLower \in Nat /\ qfHigher \in Nat
    BY <2>3, <2>4
  <2>6. /\ field = initialField /\ lastField = initialField
        /\ quantField = initialField
        /\ lastLocal = [c \in Cells |-> 0] /\ tileDist = [c \in Cells |-> 0]
        /\ localDist = [c \in Cells |-> 0]
        /\ iter = 0 /\ done = FALSE /\ tried = [c \in Cells |-> {}]
    BY DEF Init
  <2>7. iter \in 0 .. MaxIters
    BY <2>6
  <2>8. /\ [c \in Cells |-> 0] \in [Cells -> Nat]
        /\ [c \in Cells |-> {}] \in [Cells -> SUBSET Nat]
    OBVIOUS
  <2> QED
    BY <2>2, <2>5, <2>6, <2>7, <2>8 DEF TypeOK
(* Every iteration, the last one included, keeps the types. *)
LEMMA TypeStep == TypeOK /\ [Next]_vars => TypeOK'
  <2> SUFFICES ASSUME TypeOK, [Next]_vars PROVE TypeOK'
    OBVIOUS
  <2>1. CASE Iterate
    <3>1. PICK agg \in [Layout -> Dists], aggL \in [Layout -> LocalDists] :
            LET tile  == TileDistMap(agg)
                local == TileDistMap(aggL)
                f1    == Reverted(local)
                f2    == IF iter = OriginalComparisonRound THEN Floor(f1) ELSE f1
            IN  /\ quantField' = field
                /\ tried' = AddTried
                /\ tileDist' = tile
                /\ localDist' = local
                /\ lastField' = LastSaved(f1, Update(f2, tile, CurPowNonZero(iter)))
                /\ lastLocal' = local
                /\ field' = Update(f2, tile, CurPowNonZero(iter))
                /\ iter' = iter + 1
      BY <2>1 DEF Iterate
    <3> DEFINE tile  == TileDistMap(agg)
               local == TileDistMap(aggL)
               f1    == Reverted(local)
               f2    == IF iter = OriginalComparisonRound THEN Floor(f1) ELSE f1
    <3>2. tile \in [Cells -> Dists] /\ local \in [Cells -> LocalDists]
      BY TileDistMapType
    <3>3. f1 \in [Cells -> Nat]
      BY <3>2, RevertCellType DEF Reverted, Revert, TypeOK
    <3>4. f2 \in [Cells -> Nat]
      BY <3>3, FloorCellType DEF Floor, TypeOK
    <3>5. CurPowNonZero(iter) \in BOOLEAN
      BY DEF CurPowNonZero
    <3>6. Update(f2, tile, CurPowNonZero(iter)) \in [Cells -> Nat]
      BY <3>2, <3>4, <3>5, UpdateCellFacts DEF Update, TypeOK
    <3>7. AddTried \in [Cells -> SUBSET Nat]
      BY DEF AddTried, TypeOK
    <3>8. iter' \in 0 .. MaxIters
      BY <2>1, <3>1 DEF Iterate, LoopContinues, TypeOK
    <3>9. tile \in [Cells -> Nat] /\ local \in [Cells -> Nat]
      BY <3>2, DistsNat, FunctionWiden
    <3>10. lastField' \in [Cells -> Nat]
      BY <3>1, <3>3 DEF LastSaved
    <3>11. UNCHANGED <<initialField, qfLower, qfHigher, done>>
      BY <2>1 DEF Iterate
    <3> QED
      BY <3>1, <3>6, <3>7, <3>8, <3>9, <3>10, <3>11 DEF TypeOK
  <2>2. CASE LastIteration
    <3>1. PICK agg \in [Layout -> Dists], aggL \in [Layout -> LocalDists] :
            LET local == TileDistMap(aggL)
                f1    == Reverted(local)
            IN  /\ tried' = AddTried
                /\ tileDist' = TileDistMap(agg)
                /\ localDist' = local
                /\ lastField' = f1
                /\ lastLocal' = local
                /\ field' = f1
                /\ quantField' = f1
      BY <2>2 DEF LastIteration
    <3>2. TileDistMap(agg) \in [Cells -> Dists]
          /\ TileDistMap(aggL) \in [Cells -> LocalDists]
      BY TileDistMapType
    <3>3. Reverted(TileDistMap(aggL)) \in [Cells -> Nat]
      BY <3>2, RevertCellType DEF Reverted, Revert, TypeOK
    <3>4. AddTried \in [Cells -> SUBSET Nat]
      BY DEF AddTried, TypeOK
    <3>5. TileDistMap(agg) \in [Cells -> Nat]
          /\ TileDistMap(aggL) \in [Cells -> Nat]
      BY <3>2, DistsNat, FunctionWiden
    <3>6. UNCHANGED <<initialField, qfLower, qfHigher, iter>> /\ done' = TRUE
      BY <2>2 DEF LastIteration
    <3> QED
      BY <3>1, <3>3, <3>4, <3>5, <3>6 DEF TypeOK
  <2>3. CASE UNCHANGED vars
    BY <2>3 DEF vars, TypeOK
  <2> QED
    BY <2>1, <2>2, <2>3 DEF Next

(***************************************************************************)
(* Type correctness of the search: the bounds, every per-block image the   *)
(* loop keeps (the field, its saved copy, both distance maps) and the loop *)
(* index stay in their types across the revert, floor, update and clamp.  *)
(***************************************************************************)
THEOREM TypeCorrect == Spec => []TypeOK
BY TypeInit, TypeStep, PTL DEF Spec

-----------------------------------------------------------------------------
(* Every operation of the search keeps a map constant over the varblocks. *)

(* The revert keeps block constancy when its four inputs have it. *)
LEMMA RevertBlockConstant ==
  ASSUME NEW f, NEW lf, NEW l, NEW ll,
         BlockConstant(f), BlockConstant(lf), BlockConstant(l), BlockConstant(ll)
  PROVE  BlockConstant(Revert(f, lf, l, ll))
BY DEF BlockConstant, Revert

(* The round-1 floor keeps block constancy, as the initial field has it. *)
LEMMA FloorBlockConstant ==
  ASSUME NEW f, BlockConstant(f), BlockConstant(initialField)
  PROVE  BlockConstant(Floor(f))
BY DEF BlockConstant, Floor

(* The update keeps block constancy when the tile distances have it. *)
LEMMA UpdateBlockConstant ==
  ASSUME NEW f, NEW tile, NEW pow, BlockConstant(f), BlockConstant(tile)
  PROVE  BlockConstant(Update(f, tile, pow))
BY DEF BlockConstant, Update

(***************************************************************************)
(* The strengthening of BlockConstancy: besides the field and what the     *)
(* quantizer is given, the maps each iteration reads (the initial field    *)
(* for the floor, the saved field and local distances for the revert) are  *)
(* constant over the varblocks too.                                        *)
(***************************************************************************)
BlockInv ==
  /\ BlockConstant(initialField)
  /\ BlockConstant(field)
  /\ BlockConstant(lastField)
  /\ BlockConstant(lastLocal)
  /\ BlockConstant(quantField)

(* The initial state satisfies BlockInv. *)
LEMMA BlockInvInit == Init => BlockInv
<1> SUFFICES ASSUME Init PROVE BlockInv
  OBVIOUS
<1>1. BlockConstant(initialField)
  BY AdjustBlockConstant DEF Init
<1>2. BlockConstant([c \in Cells |-> 0])
  BY DEF BlockConstant
<1> QED
  BY <1>1, <1>2 DEF Init, BlockInv

(* Every iteration keeps BlockInv. *)
LEMMA BlockInvStep == BlockInv /\ [Next]_vars => BlockInv'
<1> SUFFICES ASSUME BlockInv, [Next]_vars PROVE BlockInv'
  OBVIOUS
<1>1. CASE Iterate
  <2>1. PICK agg \in [Layout -> Dists], aggL \in [Layout -> LocalDists] :
          LET tile  == TileDistMap(agg)
              local == TileDistMap(aggL)
              f1    == Reverted(local)
              f2    == IF iter = OriginalComparisonRound THEN Floor(f1) ELSE f1
          IN  /\ quantField' = field
              /\ lastField' = LastSaved(f1, Update(f2, tile, CurPowNonZero(iter)))
              /\ lastLocal' = local
              /\ field' = Update(f2, tile, CurPowNonZero(iter))
    BY <1>1 DEF Iterate
  <2> DEFINE tile  == TileDistMap(agg)
             local == TileDistMap(aggL)
             f1    == Reverted(local)
             f2    == IF iter = OriginalComparisonRound THEN Floor(f1) ELSE f1
  <2>2. BlockConstant(tile) /\ BlockConstant(local)
    BY TileBlockConstant
  <2>3. BlockConstant(f1)
    BY <2>2, RevertBlockConstant DEF BlockInv, Reverted
  <2>4. BlockConstant(f2)
    BY <2>3, FloorBlockConstant DEF BlockInv
  <2>5. BlockConstant(Update(f2, tile, CurPowNonZero(iter)))
    BY <2>2, <2>4, UpdateBlockConstant
  <2>6. initialField' = initialField
    BY <1>1 DEF Iterate
  <2> QED
    BY <2>1, <2>2, <2>3, <2>5, <2>6 DEF BlockInv, LastSaved
<1>2. CASE LastIteration
  <2>1. PICK agg \in [Layout -> Dists], aggL \in [Layout -> LocalDists] :
          LET local == TileDistMap(aggL)
              f1    == Reverted(local)
          IN  /\ lastField' = f1
              /\ lastLocal' = local
              /\ field' = f1
              /\ quantField' = f1
    BY <1>2 DEF LastIteration
  <2>2. BlockConstant(TileDistMap(aggL))
    BY TileBlockConstant
  <2>3. BlockConstant(Reverted(TileDistMap(aggL)))
    BY <2>2, RevertBlockConstant DEF BlockInv, Reverted
  <2>4. initialField' = initialField
    BY <1>2 DEF LastIteration
  <2> QED
    BY <2>1, <2>2, <2>3, <2>4 DEF BlockInv
<1>3. CASE UNCHANGED vars
  BY <1>3 DEF vars, BlockInv
<1> QED
  BY <1>1, <1>2, <1>3 DEF Next

(***************************************************************************)
(* Block constancy (spec 8, property 4): every block of a varblock has    *)
(* the same value in the field being searched and in the field given to   *)
(* quantizer.SetQuantField, at every iteration of FindBestQuantization.    *)
(***************************************************************************)
THEOREM BlockConstancyHolds == Spec => []BlockConstancy
<1>1. BlockInv => BlockConstancy
  BY DEF BlockInv, BlockConstancy
<1> QED
  BY <1>1, BlockInvInit, BlockInvStep, PTL DEF Spec

-----------------------------------------------------------------------------
(* The bounds are ordered: qf_lower <= qf_higher in both regimes. *)

(* Squaring is monotone on the naturals. *)
LEMMA SquareMono ==
  ASSUME NEW a \in Nat, NEW b \in Nat, a <= b
  PROVE  a * a <= b * b
<1>1. a * a <= a * b
  BY SMT
<1>2. a * b <= b * b
  BY SMT
<1> QED
  BY <1>1, <1>2

(* Floor square roots are monotone. *)
LEMMA FloorSqrtMono ==
  ASSUME NEW lo \in Nat, NEW hi \in Nat, NEW x \in Nat, NEW y \in Nat,
         x <= y, IsFloorSqrt(lo, x), IsFloorSqrt(hi, y)
  PROVE  lo <= hi
<1> SUFFICES ASSUME hi + 1 <= lo PROVE FALSE
  OBVIOUS
<1>1. (hi + 1) * (hi + 1) <= lo * lo
  BY SquareMono
<1> QED
  BY <1>1 DEF IsFloorSqrt

(* qf_lower <= qf_higher for any minimum and maximum of the initial      *)
(* field, in both regimes of the asymmetry.                              *)
LEMMA BoundsOrdered ==
  ASSUME NEW m \in Nat, NEW M \in Nat, NEW lo \in Nat, NEW hi \in Nat,
         QfLowerOf(lo, m, M), QfHigherOf(hi, m, M)
  PROVE  lo <= hi
<1>1. CASE 250 * m >= 4 * M
  <2>1. m * M \in Nat
    OBVIOUS
  <2>2. (m * M) \div 1000 <= m * M
    BY <2>1, SMT
  <2>3. 125 * m * M = 125 * (m * M)
    BY SMT
  <2>4. m * M <= (125 * (m * M)) \div 2
    BY <2>1, SMT
  <2>5. (m * M) \div 1000 \in Nat /\ (125 * m * M) \div 2 \in Nat
    BY <2>1, <2>3, DivNat
  <2>6. IsFloorSqrt(lo, (m * M) \div 1000) /\ IsFloorSqrt(hi, (125 * m * M) \div 2)
    BY <1>1 DEF QfLowerOf, QfHigherOf
  <2> QED
    BY <2>2, <2>3, <2>4, <2>5, <2>6, FloorSqrtMono
<1>2. CASE ~(250 * m >= 4 * M)
  <2>1. lo = M \div 250 /\ hi = M
    BY <1>2 DEF QfLowerOf, QfHigherOf
  <2> QED
    BY <2>1, SMT
<1> QED
  BY <1>1, <1>2

(* The bounds computed at the entry of FindBestQuantization are ordered. *)
LEMMA InitBoundsOrdered == Init => qfLower <= qfHigher
<1> SUFFICES ASSUME Init PROVE qfLower <= qfHigher
  OBVIOUS
<1> DEFINE vals == {initialField[c] : c \in Cells}
<1>1. vals \subseteq Nat /\ vals # {}
  BY TypeInit, OriginCell DEF TypeOK
<1>2. SetMax(vals) \in Nat /\ SetMin(vals) \in Nat
  BY <1>1, SetMaxIn, SetMinIn
<1>3. /\ QfLowerOf(qfLower, SetMin(vals), SetMax(vals))
      /\ QfHigherOf(qfHigher, SetMin(vals), SetMax(vals))
  BY DEF Init
<1>4. qfLower \in Nat /\ qfHigher \in Nat
  BY TypeInit DEF TypeOK
<1> QED
  BY <1>2, <1>3, <1>4, BoundsOrdered

-----------------------------------------------------------------------------
(***************************************************************************)
(* The strengthening of EnvelopeAfterSearch.  From round 1 on the field is *)
(* a clamped update, so it lies in the envelope; from round 2 on so does   *)
(* last_quant_field, saved from a field of round 1 or later; the revert    *)
(* chooses between the two, so the field given to the quantizer at the    *)
(* end is in the envelope once at least one update has run.               *)
(***************************************************************************)
EnvelopeInv ==
  /\ TypeOK
  /\ qfLower <= qfHigher
  /\ iter >= 1 => InEnvelope(field)
  /\ iter >= 2 => InEnvelope(lastField)
  /\ done => InEnvelope(quantField) /\ iter = MaxIters

(* From round 1 on, the field after the revert is in the envelope. *)
LEMMA RevertedInEnvelope ==
  ASSUME TypeOK, NEW local \in [Cells -> Nat], qfLower <= qfHigher,
         iter >= 1, InEnvelope(field), iter >= 2 => InEnvelope(lastField)
  PROVE  InEnvelope(Reverted(local))
<1>1. CASE iter > OriginalComparisonRound
  <2> SUFFICES ASSUME NEW c \in Cells
               PROVE  /\ qfLower <= RevertCell(field[c], lastField[c], local[c], lastLocal[c])
                      /\ RevertCell(field[c], lastField[c], local[c], lastLocal[c]) <= qfHigher
    BY <1>1 DEF Reverted, Revert, InEnvelope
  <2>1. iter >= 2
    BY <1>1, SMT DEF TypeOK, OriginalComparisonRound
  <2>2. /\ qfLower <= field[c] /\ field[c] <= qfHigher
        /\ qfLower <= lastField[c] /\ lastField[c] <= qfHigher
    BY <2>1 DEF InEnvelope
  <2> QED
    BY <2>2, RevertCellIn DEF TypeOK
<1>2. CASE ~(iter > OriginalComparisonRound)
  BY <1>2 DEF Reverted
<1> QED
  BY <1>1, <1>2

(* The clamped update puts every block in the envelope. *)
LEMMA UpdateInEnvelope ==
  ASSUME TypeOK, NEW f \in [Cells -> Nat], NEW tile \in [Cells -> Dists],
         NEW pow \in BOOLEAN, qfLower <= qfHigher
  PROVE  InEnvelope(Update(f, tile, pow))
BY UpdateCellFacts DEF Update, InEnvelope, TypeOK

(* The initial state satisfies EnvelopeInv. *)
LEMMA EnvelopeInvInit == Init => EnvelopeInv
BY TypeInit, InitBoundsOrdered DEF Init, EnvelopeInv

(* With at least one update round, every iteration keeps EnvelopeInv. *)
LEMMA EnvelopeInvStep ==
  ASSUME MaxIters >= 1
  PROVE  EnvelopeInv /\ [Next]_vars => EnvelopeInv'
<1> SUFFICES ASSUME EnvelopeInv, [Next]_vars PROVE EnvelopeInv'
  OBVIOUS
<1>1. TypeOK'
  BY TypeStep DEF EnvelopeInv
<1>2. CASE Iterate
  <2>1. PICK agg \in [Layout -> Dists], aggL \in [Layout -> LocalDists] :
          LET tile  == TileDistMap(agg)
              local == TileDistMap(aggL)
              f1    == Reverted(local)
              f2    == IF iter = OriginalComparisonRound THEN Floor(f1) ELSE f1
          IN  /\ lastField' = LastSaved(f1, Update(f2, tile, CurPowNonZero(iter)))
              /\ field' = Update(f2, tile, CurPowNonZero(iter))
              /\ iter' = iter + 1
    BY <1>2 DEF Iterate
  <2> DEFINE tile  == TileDistMap(agg)
             local == TileDistMap(aggL)
             f1    == Reverted(local)
             f2    == IF iter = OriginalComparisonRound THEN Floor(f1) ELSE f1
  <2>2. tile \in [Cells -> Dists] /\ local \in [Cells -> Nat]
    BY TileDistMapType, DistsNat, FunctionWiden
  <2>3. f1 \in [Cells -> Nat]
    BY <2>2, RevertCellType DEF Reverted, Revert, EnvelopeInv, TypeOK
  <2>4. f2 \in [Cells -> Nat]
    BY <2>3, FloorCellType DEF Floor, EnvelopeInv, TypeOK
  <2>5. UNCHANGED <<qfLower, qfHigher, done>> /\ ~done
    BY <1>2 DEF Iterate
  <2>6. InEnvelope(field)'
    <3>1. InEnvelope(Update(f2, tile, CurPowNonZero(iter)))
      BY <2>2, <2>4, UpdateInEnvelope DEF EnvelopeInv, CurPowNonZero
    <3> QED
      BY <2>1, <2>5, <3>1 DEF InEnvelope
  <2>7. iter' >= 2 => InEnvelope(lastField)'
    <3> SUFFICES ASSUME iter' >= 2 PROVE InEnvelope(lastField)'
      OBVIOUS
    <3>1. iter >= 1
      BY <2>1 DEF EnvelopeInv, TypeOK
    <3>2. InEnvelope(f1)
      BY <2>2, <3>1, RevertedInEnvelope DEF EnvelopeInv
    <3> QED
      BY <2>1, <2>5, <3>2 DEF InEnvelope, LastSaved
  <2> QED
    BY <1>1, <2>1, <2>5, <2>6, <2>7 DEF EnvelopeInv
<1>3. CASE LastIteration
  <2>1. PICK agg \in [Layout -> Dists], aggL \in [Layout -> LocalDists] :
          LET local == TileDistMap(aggL)
              f1    == Reverted(local)
          IN  /\ lastField' = f1
              /\ field' = f1
              /\ quantField' = f1
    BY <1>3 DEF LastIteration
  <2>2. TileDistMap(aggL) \in [Cells -> Nat]
    BY TileDistMapType, DistsNat, FunctionWiden
  <2>3. iter = MaxIters /\ UNCHANGED <<qfLower, qfHigher, iter>> /\ done'
    BY <1>3 DEF LastIteration
  <2>4. InEnvelope(Reverted(TileDistMap(aggL)))
    BY <2>2, <2>3, RevertedInEnvelope DEF EnvelopeInv
  <2>5. InEnvelope(field)' /\ InEnvelope(lastField)' /\ InEnvelope(quantField)'
    BY <2>1, <2>3, <2>4 DEF InEnvelope
  <2> QED
    BY <1>1, <2>3, <2>5 DEF EnvelopeInv
<1>4. CASE UNCHANGED vars
  BY <1>4 DEF vars, EnvelopeInv, InEnvelope, TypeOK
<1> QED
  BY <1>2, <1>3, <1>4 DEF Next

(***************************************************************************)
(* The clamp envelope after the search (spec, testable property 3): when   *)
(* max_butteraugli_iters >= 1, the field FindBestQuantization finally      *)
(* gives to quantizer.SetQuantField lies in [qf_lower, qf_higher], for     *)
(* every initial field, even one whose max/min ratio exceeds 250.          *)
(***************************************************************************)
THEOREM EnvelopeHolds ==
  ASSUME MaxIters >= 1
  PROVE  Spec => []EnvelopeAfterSearch
<1>1. EnvelopeInv => EnvelopeAfterSearch
  BY DEF EnvelopeInv, EnvelopeAfterSearch
<1> QED
  BY <1>1, EnvelopeInvInit, EnvelopeInvStep, PTL DEF Spec

-----------------------------------------------------------------------------
(* The revert returns the current value or the saved one. *)
LEMMA RevertCellChoice ==
  ASSUME NEW q, NEW lq, NEW d, NEW ld
  PROVE  RevertCell(q, lq, d, ld) \in {q, lq}
BY DEF RevertCell

(***************************************************************************)
(* After the revert every block holds the value just roundtripped or one  *)
(* saved earlier, so one of the values tried so far.                       *)
(***************************************************************************)
LEMMA RevertedInTried ==
  ASSUME TypeOK, NEW local, NEW c \in Cells,
         iter >= 1 => \A d \in Cells : lastField[d] \in tried[d]
  PROVE  Reverted(local)[c] \in tried[c] \cup {field[c]}
<1>1. CASE iter > OriginalComparisonRound
  <2>1. Reverted(local)[c] = RevertCell(field[c], lastField[c], local[c], lastLocal[c])
    BY <1>1 DEF Reverted, Revert
  <2>2. iter >= 1
    BY <1>1 DEF TypeOK, OriginalComparisonRound
  <2> QED
    BY <2>1, <2>2, RevertCellChoice
<1>2. CASE ~(iter > OriginalComparisonRound)
  BY <1>2 DEF Reverted
<1> QED
  BY <1>1, <1>2

TriedInv == TypeOK /\ RevertsToTried

LEMMA TriedInvInit == Init => TriedInv
BY TypeInit DEF Init, TriedInv, RevertsToTried

LEMMA TriedInvStep == TriedInv /\ [Next]_vars => TriedInv'
<1> SUFFICES ASSUME TriedInv, [Next]_vars PROVE TriedInv'
  OBVIOUS
<1>1. TypeOK'
  BY TypeStep DEF TriedInv
<1>2. CASE Iterate
  <2>1. PICK agg \in [Layout -> Dists], aggL \in [Layout -> LocalDists] :
          /\ tried' = AddTried
          /\ lastField' = LastSaved(Reverted(TileDistMap(aggL)),
                                    Update(IF iter = OriginalComparisonRound
                                             THEN Floor(Reverted(TileDistMap(aggL)))
                                             ELSE Reverted(TileDistMap(aggL)),
                                           TileDistMap(agg), CurPowNonZero(iter)))
    BY <1>2, Zenon DEF Iterate
  <2>2. ASSUME NEW c \in Cells PROVE lastField'[c] \in tried'[c]
    <3>1. lastField'[c] = Reverted(TileDistMap(aggL))[c]
      BY <2>1 DEF LastSaved
    <3>2. Reverted(TileDistMap(aggL))[c] \in tried[c] \cup {field[c]}
      BY RevertedInTried DEF TriedInv, RevertsToTried
    <3>3. tried'[c] = tried[c] \cup {field[c]}
      BY <2>1 DEF AddTried
    <3> QED
      BY <3>1, <3>2, <3>3
  <2>3. ~done'
    BY <1>2 DEF Iterate
  <2> QED
    BY <1>1, <2>2, <2>3 DEF TriedInv, RevertsToTried
<1>3. CASE LastIteration
  <2>1. PICK agg \in [Layout -> Dists], aggL \in [Layout -> LocalDists] :
          /\ tried' = AddTried
          /\ lastField' = Reverted(TileDistMap(aggL))
          /\ quantField' = Reverted(TileDistMap(aggL))
    BY <1>3, Zenon DEF LastIteration
  <2>2. ASSUME NEW c \in Cells
        PROVE  lastField'[c] \in tried'[c] /\ quantField'[c] \in tried'[c]
    <3>1. Reverted(TileDistMap(aggL))[c] \in tried[c] \cup {field[c]}
      BY RevertedInTried DEF TriedInv, RevertsToTried
    <3>2. tried'[c] = tried[c] \cup {field[c]}
      BY <2>1 DEF AddTried
    <3> QED
      BY <2>1, <3>1, <3>2
  <2> QED
    BY <1>1, <2>2 DEF TriedInv, RevertsToTried
<1>4. CASE UNCHANGED vars
  BY <1>1, <1>4 DEF vars, TriedInv, RevertsToTried
<1> QED
  BY <1>2, <1>3, <1>4 DEF Next

(***************************************************************************)
(* RevertsToTried: for every grid, layout and parameters, the saved field *)
(* last_quant_field that a revert reads, and the field given to the       *)
(* quantizer at the end, only hold per-block values that a roundtrip has  *)
(* measured: last_quant_field is copied after the revert and before the   *)
(* floor and the update.                                                   *)
(***************************************************************************)
THEOREM RevertsToTriedHolds == Spec => []RevertsToTried
<1>1. Spec => []TriedInv
  BY TriedInvInit, TriedInvStep, PTL DEF Spec
<1> QED
  BY <1>1, PTL DEF TriedInv

-----------------------------------------------------------------------------
(* The arithmetic of the quantizer index. *)

(* Truncating division by a positive number is monotone. *)
LEMMA DivMono ==
  ASSUME NEW a \in Nat, NEW b \in Nat, NEW k \in Nat \ {0}, a <= b
  PROVE  a \div k <= b \div k
<1> SUFFICES ASSUME b \div k < a \div k PROVE FALSE
  BY SMT
<1>1. a \div k \in Nat /\ b \div k \in Nat /\ b % k \in 0 .. k - 1 /\ a % k \in 0 .. k - 1
  BY SMT
<1>2. b = k * (b \div k) + (b % k) /\ a = k * (a \div k) + (a % k)
  BY SMT
<1>3. k * (b \div k) + k <= k * (a \div k)
  BY <1>1, SMT
<1> QED
  BY <1>1, <1>2, <1>3, SMT

(* Adding the divisor raises the quotient by at least one. *)
LEMMA DivShift ==
  ASSUME NEW a \in Nat, NEW k \in Nat \ {0}
  PROVE  (a + k) \div k >= a \div k + 1
<1>1. a \div k \in Nat /\ a % k \in 0 .. k - 1
  BY SMT
<1>2. a = k * (a \div k) + (a % k)
  BY SMT
<1>3. k * (a \div k + 1) = k * (a \div k) + k /\ k * (a \div k) \in Nat
  <2>1. \A m \in Nat : k * (m + 1) = k * m + k /\ k * m \in Nat
    BY SMT
  <2> QED
    BY <1>1, <2>1
<1>4. k * (a \div k + 1) <= a + k /\ k * (a \div k + 1) \in Nat /\ a + k \in Nat
  BY <1>1, <1>2, <1>3
<1>5. (k * (a \div k + 1)) \div k = a \div k + 1
  BY <1>1, SMT
<1>6. (k * (a \div k + 1)) \div k <= (a + k) \div k
  BY <1>4, DivMono
<1> QED
  BY <1>5, <1>6

(* Scaling by a factor of at least one unit does not lower a value. *)
LEMMA DivLower ==
  ASSUME NEW q \in Nat, NEW d \in Nat, NEW k \in Nat \ {0}, d >= k
  PROVE  (q * d) \div k >= q
<1>1. q * k <= q * d
  BY SMT
<1>2. (q * k) \div k = q
  BY SMT
<1>3. q * k \in Nat /\ q * d \in Nat
  BY SMT
<1> QED
  BY <1>1, <1>2, <1>3, DivMono

(* The quantizer index of a natural value is natural, and it is monotone. *)
LEMMA QuantIndexMono ==
  ASSUME NEW a \in Nat, NEW b \in Nat, a <= b
  PROVE  QuantIndex(a) \in Nat /\ QuantIndex(a) <= QuantIndex(b)
<1>1. 2 * a + QScale \in Nat /\ 2 * b + QScale \in Nat /\ 2 * QScale \in Nat \ {0}
      /\ 2 * a + QScale <= 2 * b + QScale
  OBVIOUS
<1> QED
  BY <1>1, DivMono, DivNat DEF QuantIndex

(* One quantizer step, Scale() in field units, raises the index by one. *)
LEMMA QuantIndexStep ==
  ASSUME NEW q \in Nat
  PROVE  QuantIndex(q + QScale) >= QuantIndex(q) + 1
<1>1. 2 * (q + QScale) + QScale = (2 * q + QScale) + 2 * QScale
  OBVIOUS
<1>2. 2 * q + QScale \in Nat /\ 2 * QScale \in Nat \ {0}
  OBVIOUS
<1> QED
  BY <1>1, <1>2, DivShift DEF QuantIndex

(***************************************************************************)
(* The raise of a block whose distance exceeds the target moves it to a   *)
(* higher quantizer index: the scaled value never lies below the old one, *)
(* and when it rounds to the same index the "+ Scale()" fallback applies. *)
(***************************************************************************)
LEMMA RaiseCellUp ==
  ASSUME NEW q \in Nat, NEW d \in Nat, d > DU
  PROVE  RaiseCell(q, d) \in Nat /\ QuantIndex(RaiseCell(q, d)) > QuantIndex(q)
<1>1. DU \in Nat \ {0} /\ d >= DU /\ QScale \in Nat \ {0}
  BY ParamAssumption
<1>2. (q * d) \div DU >= q /\ (q * d) \div DU \in Nat
  BY <1>1, DivLower, DivNat
<1>3. QuantIndex(q) \in Nat /\ QuantIndex(q) <= QuantIndex((q * d) \div DU)
      /\ QuantIndex((q * d) \div DU) \in Nat
  BY <1>2, QuantIndexMono
<1>4. CASE QuantIndex(q) = QuantIndex((q * d) \div DU)
  <2>1. RaiseCell(q, d) = q + QScale
    BY <1>4 DEF RaiseCell
  <2>2. q + QScale \in Nat /\ QuantIndex(q + QScale) \in Nat
    BY <1>1, QuantIndexMono
  <2>3. QuantIndex(q + QScale) >= QuantIndex(q) + 1
    BY QuantIndexStep
  <2> QED
    BY <1>3, <2>1, <2>2, <2>3
<1>5. CASE QuantIndex(q) # QuantIndex((q * d) \div DU)
  <2>1. RaiseCell(q, d) = (q * d) \div DU
    BY <1>5 DEF RaiseCell
  <2> QED
    BY <1>2, <1>3, <1>5, <2>1
<1> QED
  BY <1>4, <1>5

(* Clamp to [lo, hi] with lo <= hi, as std::max(std::min(q, hi), lo). *)
LEMMA ClampCases ==
  ASSUME NEW r, NEW lo \in Nat, NEW hi \in Nat, lo <= hi, r \in Nat
  PROVE  /\ r > hi => Clamp(r, lo, hi) = hi
         /\ r <= hi /\ r < lo => Clamp(r, lo, hi) = lo
         /\ r <= hi /\ ~(r < lo) => Clamp(r, lo, hi) = r
BY DEF Clamp

(* The clamped update of such a block: a higher index, or held at qf_higher. *)
LEMMA UpdateCellUp ==
  ASSUME NEW q \in Nat, NEW d \in Nat, d > DU, NEW pow,
         NEW lo \in Nat, NEW hi \in Nat, lo <= hi
  PROVE  \/ QuantIndex(UpdateCell(q, d, pow, lo, hi)) > QuantIndex(q)
         \/ UpdateCell(q, d, pow, lo, hi) = hi
<1>1. RaiseCell(q, d) \in Nat /\ QuantIndex(RaiseCell(q, d)) > QuantIndex(q)
  BY RaiseCellUp
<1>2. UpdateCell(q, d, pow, lo, hi) = Clamp(RaiseCell(q, d), lo, hi)
  BY DEF UpdateCell
<1>3. CASE RaiseCell(q, d) > hi
  BY <1>1, <1>2, <1>3, ClampCases
<1>4. CASE RaiseCell(q, d) <= hi /\ RaiseCell(q, d) < lo
  <2>1. Clamp(RaiseCell(q, d), lo, hi) = lo
    BY <1>1, <1>4, ClampCases
  <2>2. QuantIndex(RaiseCell(q, d)) <= QuantIndex(lo)
        /\ QuantIndex(q) \in Nat /\ QuantIndex(RaiseCell(q, d)) \in Nat
        /\ QuantIndex(lo) \in Nat
    BY <1>1, <1>4, QuantIndexMono
  <2> QED
    BY <1>1, <1>2, <2>1, <2>2
<1>5. CASE RaiseCell(q, d) <= hi /\ ~(RaiseCell(q, d) < lo)
  BY <1>1, <1>2, <1>5, ClampCases
<1> QED
  BY <1>1, <1>3, <1>4, <1>5

(* The floor of round 1 never lowers a block that lies below qf_higher. *)
LEMMA FloorCellNotLower ==
  ASSUME NEW q \in Nat, NEW q0 \in Nat, NEW lo \in Nat, NEW hi \in Nat, q <= hi
  PROVE  FloorCell(q, q0, lo, hi) \in Nat /\ FloorCell(q, q0, lo, hi) >= q
<1>1. CASE 5 * q < 2 * q + 3 * q0
  <2>1. (5 * q) \div 5 = q /\ 5 * q \in Nat /\ 2 * q + 3 * q0 \in Nat
    OBVIOUS
  <2>2. (5 * q) \div 5 <= (2 * q + 3 * q0) \div 5 /\ (2 * q + 3 * q0) \div 5 \in Nat
    BY <1>1, <2>1, DivMono, DivNat
  <2>3. FloorCell(q, q0, lo, hi) = Clamp((2 * q + 3 * q0) \div 5, lo, hi)
    BY <1>1 DEF FloorCell
  <2> QED
    BY <2>1, <2>2, <2>3 DEF Clamp
<1>2. CASE ~(5 * q < 2 * q + 3 * q0)
  BY <1>2 DEF FloorCell
<1> QED
  BY <1>1, <1>2

(***************************************************************************)
(* One iteration under EnvelopeInv.  The value saved in last_quant_field   *)
(* is the reverted one; the round-1 floor only raises it, since it lies    *)
(* below qf_higher; and the update of a block above the target then moves  *)
(* it to a higher quantizer index or clamps it to qf_higher.               *)
(***************************************************************************)
LEMMA ProgressStep ==
  ASSUME EnvelopeInv, Iterate, NEW c \in Cells, tileDist'[c] > DU
  PROVE  \/ QuantIndex(field'[c]) > QuantIndex(lastField'[c])
         \/ field'[c] = qfHigher
<1>1. PICK agg \in [Layout -> Dists], aggL \in [Layout -> LocalDists] :
        LET tile  == TileDistMap(agg)
            local == TileDistMap(aggL)
            f1    == Reverted(local)
            f2    == IF iter = OriginalComparisonRound THEN Floor(f1) ELSE f1
        IN  /\ tileDist' = tile
            /\ lastField' = LastSaved(f1, Update(f2, tile, CurPowNonZero(iter)))
            /\ field' = Update(f2, tile, CurPowNonZero(iter))
  BY DEF Iterate
<1> DEFINE tile  == TileDistMap(agg)
           local == TileDistMap(aggL)
           f1    == Reverted(local)
           f2    == IF iter = OriginalComparisonRound THEN Floor(f1) ELSE f1
<1>2. /\ tileDist' = tile
      /\ lastField' = f1
      /\ field' = Update(f2, tile, CurPowNonZero(iter))
  BY <1>1, Zenon DEF LastSaved
<1>3. tile \in [Cells -> Dists] /\ local \in [Cells -> Nat]
  BY TileDistMapType, DistsNat, FunctionWiden
<1>4. f1 \in [Cells -> Nat] /\ f2 \in [Cells -> Nat]
  BY <1>3, RevertCellType, FloorCellType DEF Reverted, Revert, Floor, EnvelopeInv, TypeOK
<1>5. qfLower \in Nat /\ qfHigher \in Nat /\ qfLower <= qfHigher /\ iter \in Nat
  BY DEF EnvelopeInv, TypeOK
<1>6. f2[c] >= f1[c]
  <2>1. CASE iter = OriginalComparisonRound
    <3>1. f1 = field /\ iter >= 1
      BY <2>1 DEF Reverted, OriginalComparisonRound
    <3>2. f1[c] <= qfHigher /\ initialField[c] \in Nat
      BY <3>1 DEF EnvelopeInv, InEnvelope, TypeOK
    <3>3. f2[c] = FloorCell(f1[c], initialField[c], qfLower, qfHigher)
      BY <2>1 DEF Floor
    <3>4. FloorCell(f1[c], initialField[c], qfLower, qfHigher) >= f1[c]
      BY <1>4, <1>5, <3>2, FloorCellNotLower
    <3> QED
      BY <3>3, <3>4
  <2>2. CASE iter # OriginalComparisonRound
    BY <2>2, <1>4
  <2> QED
    BY <2>1, <2>2
<1>7. tile[c] \in Nat /\ tile[c] > DU
  BY <1>2, <1>3, DistsNat
<1>8. field'[c] = UpdateCell(f2[c], tile[c], CurPowNonZero(iter), qfLower, qfHigher)
  BY <1>2 DEF Update
<1>9. \/ QuantIndex(field'[c]) > QuantIndex(f2[c])
      \/ field'[c] = qfHigher
  BY <1>4, <1>5, <1>7, <1>8, UpdateCellUp
<1>10. QuantIndex(f1[c]) <= QuantIndex(f2[c]) /\ QuantIndex(f1[c]) \in Nat
       /\ QuantIndex(f2[c]) \in Nat
  BY <1>4, <1>6, QuantIndexMono
<1>11. CASE field'[c] = qfHigher
  BY <1>11
<1>12. CASE field'[c] # qfHigher
  <2>0. /\ CurPowNonZero(iter) \in BOOLEAN
        /\ tile[c] \in Dists /\ f2[c] \in Nat
    BY <1>3, <1>4 DEF CurPowNonZero
  <2>1. field'[c] \in Nat
    <3>1. UpdateCell(f2[c], tile[c], CurPowNonZero(iter), qfLower, qfHigher) \in Nat
      BY <2>0, <1>5, UpdateCellFacts
    <3> QED
      BY <1>8, <3>1
  <2>2. QuantIndex(field'[c]) > QuantIndex(f2[c])
    BY <1>9, <1>12
  <2>3. QuantIndex(field'[c]) \in Nat
    BY <2>1, QuantIndexMono
  <2> QED
    BY <1>2, <1>10, <2>2, <2>3
<1> QED
  BY <1>11, <1>12

(***************************************************************************)
(* ProgressAboveTarget for every constant: in every update round, each     *)
(* block whose distance exceeds the target ends at a higher quantizer      *)
(* index than the value saved in last_quant_field, or at qf_higher.  With  *)
(* max_butteraugli_iters = 0 no update round runs at all.                  *)
(***************************************************************************)
THEOREM ProgressAboveTargetHolds == Spec => ProgressAboveTarget
<1>1. EnvelopeInv => [Iterate => \A c \in Cells :
                        tileDist'[c] > DU =>
                          \/ QuantIndex(field'[c]) > QuantIndex(lastField'[c])
                          \/ field'[c] = qfHigher]_vars
  BY ProgressStep
<1>2. CASE MaxIters >= 1
  <2>1. Spec => []EnvelopeInv
    BY <1>2, EnvelopeInvInit, EnvelopeInvStep, PTL DEF Spec
  <2> QED
    BY <1>1, <2>1, PTL DEF ProgressAboveTarget
<1>3. CASE ~(MaxIters >= 1)
  <2>1. TypeOK => ~Iterate
    BY <1>3, ParamAssumption DEF TypeOK, Iterate, LoopContinues
  <2>2. TypeOK => [Iterate => \A c \in Cells :
                     tileDist'[c] > DU =>
                       \/ QuantIndex(field'[c]) > QuantIndex(lastField'[c])
                       \/ field'[c] = qfHigher]_vars
    BY <2>1
  <2> QED
    BY <2>2, TypeCorrect, PTL DEF ProgressAboveTarget
<1> QED
  BY <1>2, <1>3

=============================================================================
