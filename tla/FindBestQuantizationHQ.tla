------------------------ MODULE FindBestQuantizationHQ -----------------------
(***************************************************************************)
(* FindBestQuantizationHQ (enc_adaptive_quantization.cc), the search of    *)
(* the slowest speed tier: roundtrips that keep the best field seen, and   *)
(* between them a peak descent that raises the quant value of the blocks  *)
(* near a tile above the target, widening its search (radius, DC quant,   *)
(* quant ceiling) whenever nothing changes or the search stalls.          *)
(*                                                                         *)
(* Fixed point: a quant value, quant_ceil or quant_dc v stands for         *)
(* v / QU; a distance (score, tile distance, target) t for t / TU.  The   *)
(* roundtrip and Butteraugli are inputs: each roundtrip chooses a score    *)
(* from Scores and one tile distance per varblock from TileVals.          *)
(***************************************************************************)
EXTENDS QuantGrid

CONSTANTS
  InitVals,   \* values of the field InitialQuantField may produce, in 1/QU
  MaxIters,   \* cparams.max_butteraugli_iters_guetzli_mode
  Target,     \* butteraugli_target, in 1/TU
  Scores,     \* scores a roundtrip may get, in 1/TU
  TileVals    \* tile distances a varblock may get, in 1/TU

QU == 100
TU == 10

ASSUME HQAssumption ==
  /\ InitVals \subseteq Nat \ {0} /\ InitVals # {}
  /\ MaxIters \in Nat
  /\ Target \in Nat \ {0}
  /\ Scores \subseteq Nat /\ Scores # {}
  /\ TileVals \subseteq Nat /\ TileVals # {}

kMaxOuterIters == 2
kAdjSpeed == <<10, 4>>          \* {0.1f, 0.04f}, in 1/100
kInitialBestScore == 1000000 * TU    \* best_score = 1000000.0f

VARIABLES
  field,          \* quant_field
  bestField,      \* best_quant_field
  bestDc,         \* best_quant_dc
  bestScore,      \* best_score
  score,          \* score of the last roundtrip
  tile,           \* tile_distmap of the last roundtrip
  qmax,           \* qmax of ImageMinMax at the top of the iteration
  butteraugliIter,
  outerIter,
  searchRadius,
  quantCeil,
  quantDc,
  stall,          \* num_stalling_iters
  changed,
  pc,             \* "top", "inner", "post" or "done"
  final,          \* the <<field, dc>> of the final SetQuantField
  tried,          \* history: the <<field, dc, score>> of every roundtrip
  bestSeen        \* history: the score the best field got

vars == <<field, bestField, bestDc, bestScore, score, tile, qmax,
          butteraugliIter, outerIter, searchRadius, quantCeil, quantDc,
          stall, changed, pc, final, tried, bestSeen>>

-----------------------------------------------------------------------------
Max2(a, b) == IF a >= b THEN a ELSE b
Min2(a, b) == IF a <= b THEN a ELSE b

(* Chebyshev distance of two blocks: max(|dy|, |dx|). *)
Cheb(p, c) == Max2(Max2(p[1] - c[1], c[1] - p[1]), Max2(p[2] - c[2], c[2] - p[2]))

(***************************************************************************)
(* DistToPeakMap(tile, target, radius, 0.0): with peak_weight 0 a block is *)
(* a peak when its distance exceeds peak_min; every block within radius of *)
(* a peak gets the least Chebyshev distance to one, the others keep -1.   *)
(***************************************************************************)
DistToPeakMap(t, r) ==
  [c \in Cells |->
     LET near == {p \in Cells : t[p] > Target /\ Cheb(p, c) <= r}
     IN  IF near = {} THEN -1 ELSE SetMin({Cheb(p, c) : p \in near})]

(* Variant: no 1 / quant_max in the max, the raised value is not capped. *)
AdjustQuantValNoCap(q, d, t, ceil, outer) ==
  IF 1000 * q >= 999 * ceil THEN [ok |-> FALSE, q |-> q]
  ELSE LET n   == 100 * TU * (d + 1)
           den == n * QU - kAdjSpeed[outer + 1] * t * q
       IN  [ok |-> TRUE, q |-> IF den <= 0 THEN ceil ELSE (q * n * QU) \div den]

(***************************************************************************)
(* AdjustQuantVal(&q, d, factor = kAdjSpeed[outer] * tile, quant_ceil):    *)
(* none if q >= 0.999 quant_max, else q = 1 / max(1 / quant_max,           *)
(* 1 / q - factor / (d + 1)).  ok is the returned flag.                    *)
(***************************************************************************)
AdjustQuantVal(q, d, t, ceil, outer) ==
  IF 1000 * q >= 999 * ceil THEN [ok |-> FALSE, q |-> q]
  ELSE LET n   == 100 * TU * (d + 1)
           den == n * QU - kAdjSpeed[outer + 1] * t * q
       IN  [ok |-> TRUE,
            q  |-> IF den <= 0 THEN ceil ELSE Min2(ceil, (q * n * QU) \div den)]

(* The pass at radius r: AdjustQuantVal on every block with a distance. *)
PassAt(f, r) ==
  LET dm == DistToPeakMap(tile, r)
      a  == [c \in Cells |-> AdjustQuantVal(f[c], dm[c], tile[c], quantCeil, outerIter)]
      on == {c \in Cells : dm[c] >= 0}
  IN  [ch |-> \E c \in on : a[c].ok,
       f  |-> [c \in Cells |-> IF c \in on THEN a[c].q ELSE f[c]]]

(***************************************************************************)
(* for (radius = 0; radius <= search_radius && !changed; ++radius): a pass *)
(* that changes nothing leaves the field as it was, so the loop ends with *)
(* the first pass that changes something, or with none.                   *)
(***************************************************************************)
RadiusLoop(f) ==
  LET passes == [r \in 0 .. searchRadius |-> PassAt(f, r)]
      hits   == {r \in 0 .. searchRadius : passes[r].ch}
  IN  IF hits = {} THEN [ch |-> FALSE, f |-> f]
      ELSE [ch |-> TRUE, f |-> passes[SetMin(hits)].f]

(* Variant: "++search_radius" lost; the radius branch changes nothing. *)
ExpandNoRadius(r, dc, ceil, q) ==
  CASE r < 4 /\ (100 * q < 99 * ceil \/ ceil >= 3 * QU + QU * r) ->
         [step |-> "radius", r |-> r, dc |-> dc, ceil |-> ceil]
    [] 10 * dc < 4 * ceil - 8 * QU ->
         [step |-> "dc", r |-> r, dc |-> dc + 20, ceil |-> ceil]
    [] ceil < 8 * QU ->
         [step |-> "ceil", r |-> r, dc |-> dc, ceil |-> ceil + 50]
    [] OTHER -> [step |-> "break", r |-> r, dc |-> dc, ceil |-> ceil]

(* The expansions tried in order when nothing changed or the search stalls. *)
Expand(r, dc, ceil, q) ==
  CASE r < 4 /\ (100 * q < 99 * ceil \/ ceil >= 3 * QU + QU * r) ->
         [step |-> "radius", r |-> r + 1, dc |-> dc, ceil |-> ceil]
    [] 10 * dc < 4 * ceil - 8 * QU ->
         [step |-> "dc", r |-> r, dc |-> dc + 20, ceil |-> ceil]
    [] ceil < 8 * QU ->
         [step |-> "ceil", r |-> r, dc |-> dc, ceil |-> ceil + 50]
    [] OTHER -> [step |-> "break", r |-> r, dc |-> dc, ceil |-> ceil]

(* Variant: the break tested as butteraugli_iter > max_iters. *)
BudgetSpentStrict(n) == n > MaxIters

(* if (butteraugli_iter >= max_iters) break; *)
BudgetSpent(n) == n >= MaxIters

(* Variant: best_score = target, the max with the score dropped. *)
NewBestScoreNoMax(s) == Target

(* best_score = std::max<float>(score, butteraugli_target) *)
NewBestScore(s) == Max2(s, Target)

(* Variant: best_quant_dc = quant_dc forgotten in the improving branch. *)
BestDcAfterStale(better) == bestDc

(* best_quant_dc after a roundtrip: quant_dc when the score improved. *)
BestDcAfter(better) == IF better THEN quantDc ELSE bestDc

FieldMax(f) == SetMax({f[c] : c \in Cells})

-----------------------------------------------------------------------------
(***************************************************************************)
(* Entry: AdjustQuantField on the initial field, best_quant_field its     *)
(* copy, and the search parameters of the declarations.                   *)
(***************************************************************************)
Init ==
  /\ \E raw \in [Cells -> InitVals] : field = AdjustQuantField(raw)
  /\ bestField = field
  /\ bestDc = 120                 \* best_quant_dc = quant_dc = 1.2f
  /\ bestScore = kInitialBestScore
  /\ score = 0
  /\ tile = [c \in Cells |-> 0]
  /\ qmax = 0
  /\ butteraugliIter = 0
  /\ outerIter = 0
  /\ searchRadius = 0
  /\ quantCeil = 5 * QU           \* quant_ceil = 5.0f
  /\ quantDc = 120
  /\ stall = 0
  /\ changed = FALSE
  /\ pc = "top"
  /\ final = <<>>
  /\ tried = {}
  /\ bestSeen = kInitialBestScore

(***************************************************************************)
(* The top of the outer loop: ImageMinMax, SetQuantField and roundtrip,   *)
(* the best-field bookkeeping and the stall counter, TileDistMap, and the  *)
(* break when the roundtrip budget is spent (then the final               *)
(* SetQuantField with the best pair).                                      *)
(***************************************************************************)
Roundtrip ==
  /\ pc = "top"
  /\ \E s \in Scores, agg \in [Layout -> TileVals] :
       LET better == s <= bestScore
           bf     == IF better THEN field ELSE bestField
           bd     == BestDcAfter(better)
       IN  /\ qmax' = FieldMax(field)
           /\ butteraugliIter' = butteraugliIter + 1
           /\ score' = s
           /\ tile' = TileDistMap(agg)
           /\ bestField' = bf
           /\ bestDc' = bd
           /\ bestScore' = IF better THEN NewBestScore(s) ELSE bestScore
           /\ bestSeen' = IF better THEN s ELSE bestSeen
           /\ stall' = IF better THEN 0
                       ELSE IF outerIter = 0 THEN stall + 1 ELSE stall
           /\ tried' = tried \cup {<<field, quantDc, s>>}
           /\ changed' = FALSE
           /\ IF BudgetSpent(butteraugliIter + 1)
                THEN pc' = "done" /\ final' = <<bf, bd>>
                ELSE pc' = "inner" /\ final' = final
  /\ UNCHANGED <<field, outerIter, searchRadius, quantCeil, quantDc>>

(* Variant: the num_stalling_iters test dropped, a changing pass suffices. *)
InnerAdjustedNoStall ==
  /\ pc = "inner" /\ ~changed /\ score > Target
  /\ LET rl == RadiusLoop(field)
     IN  rl.ch /\ field' = rl.f
  /\ changed' = TRUE
  /\ UNCHANGED <<bestField, bestDc, bestScore, score, tile, qmax,
                 butteraugliIter, outerIter, searchRadius, quantCeil, quantDc,
                 stall, pc, final, tried, bestSeen>>

(***************************************************************************)
(* One iteration of while (!changed && score > target), part 1: a radius  *)
(* pass changed the field and the search does not stall.                 *)
(***************************************************************************)
InnerAdjusted ==
  /\ pc = "inner" /\ ~changed /\ score > Target
  /\ stall < 3
  /\ LET rl == RadiusLoop(field)
     IN  rl.ch /\ field' = rl.f
  /\ changed' = TRUE
  /\ UNCHANGED <<bestField, bestDc, bestScore, score, tile, qmax,
                 butteraugliIter, outerIter, searchRadius, quantCeil, quantDc,
                 stall, pc, final, tried, bestSeen>>

(***************************************************************************)
(* Part 2: nothing changed, or num_stalling_iters >= 3: the radius passes *)
(* and then the first expansion that applies; "changed = true" only with  *)
(* the DC step, and the final break leaves the loop.                      *)
(***************************************************************************)
InnerExpand ==
  /\ pc = "inner" /\ ~changed /\ score > Target
  /\ LET rl == RadiusLoop(field)
         e  == Expand(searchRadius, quantDc, quantCeil, qmax)
     IN  /\ ~rl.ch \/ stall >= 3
         /\ field' = rl.f
         /\ changed' = (rl.ch \/ e.step = "dc")
         /\ searchRadius' = e.r
         /\ quantDc' = e.dc
         /\ quantCeil' = e.ceil
         /\ pc' = IF e.step = "break" THEN "post" ELSE "inner"
  /\ UNCHANGED <<bestField, bestDc, bestScore, score, tile, qmax,
                 butteraugliIter, outerIter, stall, final, tried, bestSeen>>

(* The inner loop is over: by its condition or by the break. *)
InnerOver == pc = "post" \/ (pc = "inner" /\ ~(~changed /\ score > Target))

(* Something changed: back to the roundtrip. *)
LeaveChanged ==
  /\ InnerOver /\ changed
  /\ pc' = "top"
  /\ UNCHANGED <<field, bestField, bestDc, bestScore, score, tile, qmax,
                 butteraugliIter, outerIter, searchRadius, quantCeil, quantDc,
                 stall, changed, final, tried, bestSeen>>

(* Nothing changed: the next outer round on the field scaled by 0.75. *)
NextOuterRound ==
  /\ InnerOver /\ ~changed
  /\ outerIter + 1 # kMaxOuterIters
  /\ outerIter' = outerIter + 1
  /\ field' = [c \in Cells |-> (3 * field[c]) \div 4]
  /\ stall' = 0
  /\ pc' = "top"
  /\ UNCHANGED <<bestField, bestDc, bestScore, score, tile, qmax,
                 butteraugliIter, searchRadius, quantCeil, quantDc,
                 changed, final, tried, bestSeen>>

(* Nothing changed in the last outer round: the final SetQuantField. *)
OuterDone ==
  /\ InnerOver /\ ~changed
  /\ outerIter + 1 = kMaxOuterIters
  /\ outerIter' = outerIter + 1
  /\ pc' = "done"
  /\ final' = <<bestField, bestDc>>
  /\ UNCHANGED <<field, bestField, bestDc, bestScore, score, tile, qmax,
                 butteraugliIter, searchRadius, quantCeil, quantDc,
                 stall, changed, tried, bestSeen>>

Next ==
  \/ Roundtrip
  \/ InnerAdjusted
  \/ InnerExpand
  \/ LeaveChanged
  \/ NextOuterRound
  \/ OuterDone

(* The loop runs on one thread; each step, once possible, is taken. *)
Spec == Init /\ [][Next]_vars /\ WF_vars(Next)

-----------------------------------------------------------------------------
TypeOK ==
  /\ field \in [Cells -> Nat] /\ bestField \in [Cells -> Nat]
  /\ bestDc \in Nat /\ quantDc \in Nat
  /\ bestScore \in Nat /\ score \in Nat /\ bestSeen \in Nat
  /\ tile \in [Cells -> Nat] /\ qmax \in Nat
  /\ butteraugliIter \in 0 .. Max2(MaxIters, 1)   \* ++butteraugli_iter precedes the break
  /\ outerIter \in 0 .. kMaxOuterIters
  /\ searchRadius \in 0 .. 4
  /\ quantCeil \in {5 * QU + 50 * k : k \in 0 .. 6}
  /\ stall \in Nat
  /\ changed \in BOOLEAN
  /\ pc \in {"top", "inner", "post", "done"}
  /\ final \in {<<>>} \cup ([Cells -> Nat] \X Nat)

(***************************************************************************)
(* The pair the search ends with was measured together: best_quant_field  *)
(* and best_quant_dc are always a field and a DC quant that one roundtrip *)
(* used, and the score kept for them is the one that roundtrip got.       *)
(* Both are saved in the same branch; a DC step between two roundtrips    *)
(* would leave a stale best_quant_dc otherwise.                           *)
(***************************************************************************)
BestPairMeasured ==
  /\ butteraugliIter >= 1 => <<bestField, bestDc, bestSeen>> \in tried
  /\ pc = "done" => final = <<bestField, bestDc>>

(***************************************************************************)
(* The field the search ends with is as good as the target asks: its      *)
(* score is at most the target or at most every score seen.  best_score   *)
(* = max(score, target) lets a later roundtrip under the target replace   *)
(* an earlier, better one, but never one above the target win.            *)
(***************************************************************************)
BestWithinTarget ==
  pc = "done" => bestSeen <= Max2(Target, SetMin({t[3] : t \in tried}))

(***************************************************************************)
(* The peak descent never raises a block above quant_ceil: a step that    *)
(* raises a block leaves it at most at the quant_ceil the pass ran with.  *)
(* AdjustQuantVal's max with 1 / quant_max is all that caps it, also when *)
(* adj_inv_q is zero or negative for a large factor.                      *)
(***************************************************************************)
RaisedBelowCeil ==
  [][\A c \in Cells : field'[c] > field[c] => field'[c] <= quantCeil]_vars

(***************************************************************************)
(* A stalled search widens: once three roundtrips of the first outer round *)
(* have not improved the best score (num_stalling_iters >= 3), every       *)
(* iteration of the inner loop widens the search radius, the DC quant or   *)
(* quant_ceil, or leaves the loop because all are spent, even when the     *)
(* radius passes changed the field.                                        *)
(***************************************************************************)
StalledSearchWidens ==
  [][pc = "inner" /\ ~changed /\ score > Target /\ stall >= 3 =>
       \/ <<searchRadius, quantDc, quantCeil>>' # <<searchRadius, quantDc, quantCeil>>
       \/ pc' = "post"]_vars

(* The search ends: every inner loop and the outer loop terminate. *)
Termination == <>(pc = "done")

(* Spec 8, property 4: the final field is constant over each varblock. *)
FinalBlockConstant == pc = "done" => BlockConstant(final[1])

=============================================================================
