------------------------ MODULE FindBestQuantization ------------------------
(***************************************************************************)
(* The default search of enc_adaptive_quantization.cc,                     *)
(* FindBestQuantization: the quant field is given to the quantizer, the    *)
(* frame is encoded and decoded, Butteraugli compares it with the input,   *)
(* and the field is revised block by block from the per-varblock           *)
(* distances, for max_butteraugli_iters + 1 roundtrips.                    *)
(*                                                                         *)
(* One step is one iteration of the loop body, from SetQuantField to the   *)
(* clamp at its end.  The roundtrip and Butteraugli are outside this file: *)
(* their result, the two tile distance maps, is chosen freely, one value   *)
(* per varblock, and broadcast by TileDistMap.                             *)
(*                                                                         *)
(* Numbers are fixed point.  A field value q stands for q / 1000 of the    *)
(* code's float; a distance d stands for d / DU times butteraugli_target,  *)
(* so that the code's diff = row_dist[x] / butteraugli_target is d / DU;   *)
(* products are rounded down where the float multiply rounds to nearest.   *)
(* std::pow(diff, cur_pow) is needed only for cur_pow = 0.2 and is the     *)
(* table PowFifth of fifth roots, in units of 1 / PowUnit.                 *)
(***************************************************************************)
EXTENDS QuantGrid

CONSTANTS
  InitVals,    \* values of the field AdaptiveQuantizationMap may produce
  MaxIters,    \* cparams.max_butteraugli_iters
  DU,          \* distance units per butteraugli_target
  Dists,       \* values of tile_distmap at a varblock
  LocalDists,  \* values of tile_distmap_localopt at a varblock
  QScale,      \* quantizer.Scale(), so InvGlobalScale() = 1 / QScale
  PowUnit,     \* unit of PowFifth
  PowFifth     \* PowFifth[d] = (d / DU)^0.2 * PowUnit, rounded down

ASSUME ParamAssumption ==
  /\ InitVals \subseteq Nat \ {0} /\ InitVals # {}
  /\ MaxIters \in Nat
  /\ DU \in Nat \ {0}
  /\ Dists \subseteq 0 .. (2 * DU) /\ Dists # {}
  /\ LocalDists \subseteq Nat /\ LocalDists # {}
  /\ QScale \in Nat \ {0}
  /\ PowUnit \in Nat \ {0}
  /\ PowFifth \in [0 .. DU -> 0 .. PowUnit]

(* kOriginalComparisonRound and kMaximumDistanceIncreaseFactor (1.015). *)
OriginalComparisonRound == 1
IncreaseNum == 1015
IncreaseDen == 1000

(* kPow in tenths; kPowMod is all zero, so cur_pow = kPow[i] for i < 7. *)
KPowTenths == <<2, 2, 0, 0, 0, 0, 0, 0>>
CurPowNonZero(i) == i < 7 /\ KPowTenths[i + 1] # 0

VARIABLES
  initialField,  \* initial_quant_field (after AdjustQuantField)
  qfLower,       \* qf_lower
  qfHigher,      \* qf_higher
  field,         \* quant_field, the field being searched
  lastField,     \* last_quant_field
  lastLocal,     \* last_tile_distmap_localopt
  tileDist,      \* tile_distmap of the last roundtrip
  localDist,     \* tile_distmap_localopt of the last roundtrip
  quantField,    \* the field last given to quantizer.SetQuantField
  iter,          \* the loop index i
  done,          \* the loop has ended and the final SetQuantField is made
  tried          \* history: per block, the values some roundtrip used

vars == <<initialField, qfLower, qfHigher, field, lastField, lastLocal,
          tileDist, localDist, quantField, iter, done, tried>>

-----------------------------------------------------------------------------
(* s is the square root of n rounded down. *)
IsFloorSqrt(s, n) == s * s <= n /\ n < (s + 1) * (s + 1)

(***************************************************************************)
(* qf_lower and qf_higher from the minimum m and maximum M of the initial  *)
(* field.  With dev = sqrt(250 m / M) and asymmetry = min(2, dev):         *)
(* if dev >= 2, qf_lower = m / (2 dev) = sqrt(m M / 1000) and              *)
(* qf_higher = M dev / 2 = sqrt(125 m M / 2); otherwise                    *)
(* qf_lower = m / dev^2 = M / 250 and qf_higher = M.  The model keeps      *)
(* these values rounded down.                                              *)
(***************************************************************************)
QfLowerOf(lo, m, M) ==
  IF 250 * m >= 4 * M THEN IsFloorSqrt(lo, (m * M) \div 1000) ELSE lo = M \div 250

QfHigherOf(hi, m, M) ==
  IF 250 * m >= 4 * M THEN IsFloorSqrt(hi, (125 * m * M) \div 2) ELSE hi = M

(* Variant: the "row_q[x] > qf_higher" test dropped. *)
ClampNoUpper(q, lo, hi) == IF q < lo THEN lo ELSE q

(* if (row_q[x] > qf_higher) ...; if (row_q[x] < qf_lower) ... *)
Clamp(q, lo, hi) ==
  LET a == IF q > hi THEN hi ELSE q
  IN  IF a < lo THEN lo ELSE a

(* int(q * quantizer.InvGlobalScale() + 0.5) *)
QuantIndex(q) == (2 * q + QScale) \div (2 * QScale)

(* Undo a block whose value and local distance both grew. *)
RevertCell(q, lq, d, ld) ==
  IF q > lq /\ IncreaseDen * d > IncreaseNum * ld THEN lq ELSE q

(***************************************************************************)
(* Round 1: clamp = 0.4 q + 0.6 q0; q < clamp holds exactly when q < q0.   *)
(***************************************************************************)
FloorCell(q, q0, lo, hi) ==
  IF 5 * q < 2 * q + 3 * q0 THEN Clamp((2 * q + 3 * q0) \div 5, lo, hi) ELSE q

(* Variant: no "+ Scale()" fallback when the quantizer index is unchanged. *)
RaiseCellNoBump(q, d) == (q * d) \div DU

(* diff > 1: scale by diff, or by one quantizer step if that rounds away. *)
RaiseCell(q, d) ==
  LET new == (q * d) \div DU
  IN  IF QuantIndex(q) = QuantIndex(new) THEN q + QScale ELSE new

(* The update of one block, both branches of cur_pow == 0.0 included. *)
UpdateCell(q, d, pow, lo, hi) ==
  Clamp(IF d > DU THEN RaiseCell(q, d)
        ELSE IF pow THEN (q * PowFifth[d]) \div PowUnit
        ELSE q, lo, hi)

Revert(f, lf, local, ll) ==
  [c \in Cells |-> RevertCell(f[c], lf[c], local[c], ll[c])]

Floor(f) == [c \in Cells |-> FloorCell(f[c], initialField[c], qfLower, qfHigher)]

Update(f, tile, pow) ==
  [c \in Cells |-> UpdateCell(f[c], tile[c], pow, qfLower, qfHigher)]

(* The field after the revert of iteration iter. *)
Reverted(local) ==
  IF iter > OriginalComparisonRound THEN Revert(field, lastField, local, lastLocal)
  ELSE field

(* Variant: last_quant_field copied after the floor and the update. *)
LastSavedAfterUpdate(reverted, updated) == updated

(* last_quant_field = CopyImage(quant_field), after the revert. *)
LastSaved(reverted, updated) == reverted

(* Variant: the break tested as i > max_butteraugli_iters. *)
LoopContinuesInclusive(i) == i <= MaxIters

(* The loop goes on to the update: i < max_butteraugli_iters, no break. *)
LoopContinues(i) == i < MaxIters

AddTried == [c \in Cells |-> tried[c] \cup {field[c]}]

-----------------------------------------------------------------------------
(***************************************************************************)
(* Entry: AdjustQuantField on the field of InitialQuantField, the copies   *)
(* initial_quant_field and last_quant_field, and the bounds.  In exact      *)
(* arithmetic qf_higher / qf_lower = 250 in both regimes, so the           *)
(* JXL_ASSERT(qf_higher / qf_lower < 253) always passes and is no guard.   *)
(* The two distance images are still empty; they are written before       *)
(* being read.                                                             *)
(***************************************************************************)
Init ==
  /\ \E raw \in [Cells -> InitVals] : initialField = AdjustQuantField(raw)
  /\ \E M \in {SetMax({initialField[c] : c \in Cells})},
        m \in {SetMin({initialField[c] : c \in Cells})} :
       /\ qfLower \in 0 .. M
       /\ QfLowerOf(qfLower, m, M)
       /\ qfHigher \in 0 .. (8 * M)
       /\ QfHigherOf(qfHigher, m, M)
  /\ field = initialField
  /\ lastField = initialField
  /\ lastLocal = [c \in Cells |-> 0]
  /\ tileDist = [c \in Cells |-> 0]
  /\ localDist = [c \in Cells |-> 0]
  /\ quantField = initialField   \* overwritten before the first roundtrip
  /\ iter = 0
  /\ done = FALSE
  /\ tried = [c \in Cells |-> {}]

(***************************************************************************)
(* An iteration i < max_butteraugli_iters: SetQuantField and roundtrip,    *)
(* the two TileDistMaps, the revert (i > 1), the saved copies, the floor   *)
(* towards the initial field (i == 1) and the update with its clamp.       *)
(***************************************************************************)
Iterate ==
  /\ ~done
  /\ LoopContinues(iter)
  /\ \E agg \in [Layout -> Dists], aggL \in [Layout -> LocalDists] :
       LET tile  == TileDistMap(agg)
           local == TileDistMap(aggL)
           f1    == Reverted(local)
           f2    == IF iter = OriginalComparisonRound THEN Floor(f1) ELSE f1
       IN  /\ quantField' = field
           /\ tried' = AddTried
           /\ tileDist' = tile
           /\ localDist' = local
           /\ lastField' = LastSaved(f1, Update(f2, tile, CurPowNonZero(iter)))
           /\ lastLocal' = local
           /\ field' = Update(f2, tile, CurPowNonZero(iter))
           /\ iter' = iter + 1
  /\ UNCHANGED <<initialField, qfLower, qfHigher, done>>

(***************************************************************************)
(* The iteration i == max_butteraugli_iters: roundtrip, distance maps,     *)
(* revert and copies, then the break and the final SetQuantField.          *)
(***************************************************************************)
LastIteration ==
  /\ ~done
  /\ iter = MaxIters
  /\ \E agg \in [Layout -> Dists], aggL \in [Layout -> LocalDists] :
       LET local == TileDistMap(aggL)
           f1    == Reverted(local)
       IN  /\ tried' = AddTried
           /\ tileDist' = TileDistMap(agg)
           /\ localDist' = local
           /\ lastField' = f1
           /\ lastLocal' = local
           /\ field' = f1
           /\ quantField' = f1
  /\ done' = TRUE
  /\ UNCHANGED <<initialField, qfLower, qfHigher, iter>>

Next == Iterate \/ LastIteration

Spec == Init /\ [][Next]_vars

-----------------------------------------------------------------------------
TypeOK ==
  /\ initialField \in [Cells -> Nat]
  /\ qfLower \in Nat /\ qfHigher \in Nat
  /\ field \in [Cells -> Nat]
  /\ lastField \in [Cells -> Nat]
  /\ lastLocal \in [Cells -> Nat]
  /\ tileDist \in [Cells -> Nat]
  /\ localDist \in [Cells -> Nat]
  /\ quantField \in [Cells -> Nat]
  /\ iter \in 0 .. MaxIters
  /\ done \in BOOLEAN
  /\ tried \in [Cells -> SUBSET Nat]

InEnvelope(f) == \A c \in Cells : qfLower <= f[c] /\ f[c] <= qfHigher

(***************************************************************************)
(* Every block of a varblock carries the same value, in the field being    *)
(* searched and in what the quantizer is given, at every iteration: the    *)
(* spec's block-constancy invariant, which AdjustQuantField establishes    *)
(* and which the revert, floor and update keep only because TileDistMap    *)
(* writes each varblock's distance to all of its blocks.                   *)
(***************************************************************************)
BlockConstancy == BlockConstant(field) /\ BlockConstant(quantField)

(***************************************************************************)
(* The clamp envelope after the search (spec, testable property 3): the    *)
(* field given to the quantizer at the end lies in [qf_lower, qf_higher].  *)
(* The initial field may lie outside it when its max/min ratio exceeds     *)
(* 250; it holds because the revert of round i > 1 restores only values    *)
(* saved after a clamped update.                                           *)
(***************************************************************************)
EnvelopeAfterSearch == done => InEnvelope(quantField)

(***************************************************************************)
(* A revert and the final field only use values the quantizer has been     *)
(* roundtripped with: last_quant_field is saved after the revert and       *)
(* before the floor and the update, so each of its blocks holds a value    *)
(* some earlier SetQuantField/Butteraugli pass has measured.               *)
(***************************************************************************)
RevertsToTried ==
  /\ iter >= 1 => \A c \in Cells : lastField[c] \in tried[c]
  /\ done => \A c \in Cells : quantField[c] \in tried[c]

(***************************************************************************)
(* A block whose distance exceeds the target moves to a higher quantizer   *)
(* index in the update, unless it is held at qf_higher: the "+ Scale()"    *)
(* fallback of the update keeps the float increase from vanishing in the   *)
(* quantizer's rounding.  Stated against the value saved before the update.*)
(***************************************************************************)
ProgressAboveTarget ==
  [][Iterate => \A c \in Cells :
                  tileDist'[c] > DU =>
                    \/ QuantIndex(field'[c]) > QuantIndex(lastField'[c])
                    \/ field'[c] = qfHigher]_vars

(***************************************************************************)
(* Spec 4.7 step 8 and 9(b): all of kPow is zero, so the update changes    *)
(* only blocks whose distance exceeds the target and never lowers one      *)
(* below the value saved before it (save for the clamp at qf_higher).      *)
(***************************************************************************)
UpdateNeverLowers ==
  [][Iterate => \A c \in Cells :
                  field'[c] >= lastField'[c] \/ field'[c] = qfHigher]_vars


=============================================================================
