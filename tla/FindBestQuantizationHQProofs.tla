--------------------- MODULE FindBestQuantizationHQProofs ---------------------
(***************************************************************************)
(* Proofs about the HQ (tortoise) search, for every grid, AC strategy     *)
(* layout, roundtrip budget, target and input sets the assumptions of     *)
(* QuantGrid and FindBestQuantizationHQ allow.                             *)
(***************************************************************************)
EXTENDS FindBestQuantizationHQ, QuantGridProofs, TLAPS

(* The quantifier-free part of HQAssumption. *)
LEMMA HQFacts ==
  /\ InitVals \subseteq Nat \ {0} /\ InitVals # {}
  /\ MaxIters \in Nat
  /\ Target \in Nat \ {0}
  /\ Scores \subseteq Nat /\ Scores # {}
  /\ TileVals \subseteq Nat /\ TileVals # {}
BY HQAssumption


-----------------------------------------------------------------------------
(***************************************************************************)
(* The inductive form of TypeOK.  The loop counters stay in range only    *)
(* because each is tested before it is used: while the search runs,       *)
(* outer_iter is 0 or 1 (kAdjSpeed[outer_iter] is read) and the roundtrip *)
(* budget is not spent yet, except before the first roundtrip.            *)
(***************************************************************************)
TypeInv ==
  /\ TypeOK
  /\ pc # "done" => /\ outerIter \in 0 .. 1
                    /\ butteraugliIter = 0 \/ butteraugliIter < MaxIters
  /\ tried \subseteq [Cells -> Nat] \X Nat \X Nat

(***************************************************************************)
(* The inductive form of BestPairMeasured: before the first roundtrip     *)
(* best_score still holds its initial 1000000, so the first roundtrip     *)
(* always saves its field and DC.                                         *)
(***************************************************************************)
PairInv ==
  /\ butteraugliIter = 0 => bestScore = kInitialBestScore
  /\ BestPairMeasured

(* Every score is below the initial best_score of 1000000. *)
ScoresBelowInitial == \A s \in Scores : s <= kInitialBestScore

(***************************************************************************)
(* The inductive form of BestWithinTarget: the best field's score and     *)
(* best_score are both at most max(target, s) for the score s of every    *)
(* roundtrip so far, and a roundtrip has run once the loop body is left.  *)
(***************************************************************************)
WithinInv ==
  /\ \A t \in tried : /\ bestSeen <= Max2(Target, t[3])
                      /\ bestScore <= Max2(Target, t[3])
  /\ bestSeen <= bestScore
  /\ pc \in {"inner", "post", "done"} => tried # {}

-----------------------------------------------------------------------------
(* Lemmas about the operators of the peak descent and the expansions. *)

CeilVals == {5 * QU + 50 * k : k \in 0 .. 6}

(* Min2 of two integers is at most the first. *)
LEMMA Min2Le ==
  ASSUME NEW a \in Int, NEW b \in Int
  PROVE  Min2(a, b) <= a /\ Min2(a, b) \in {a, b}
BY DEF Min2

(* The Chebyshev distance of two blocks is an integer. *)
LEMMA ChebInt ==
  ASSUME NEW p \in Cells, NEW c \in Cells
  PROVE  Cheb(p, c) \in Int
BY DEF Cheb, Max2, Cells

(* DistToPeakMap gives every block an integer: -1 or a distance. *)
LEMMA DistToPeakMapType ==
  ASSUME NEW t, NEW r
  PROVE  DistToPeakMap(t, r) \in [Cells -> Int]
<1> SUFFICES ASSUME NEW c \in Cells
             PROVE  LET near == {p \in Cells : t[p] > Target /\ Cheb(p, c) <= r}
                    IN  (IF near = {} THEN -1 ELSE SetMin({Cheb(p, c) : p \in near})) \in Int
  BY DEF DistToPeakMap
<1> DEFINE near == {p \in Cells : t[p] > Target /\ Cheb(p, c) <= r}
<1>1. CASE near # {}
  <2>1. {Cheb(p, c) : p \in near} # {}
    BY <1>1
  <2>2. SetMin({Cheb(p, c) : p \in near}) \in {Cheb(p, c) : p \in near}
    BY <2>1, SetMinIn
  <2>3. {Cheb(p, c) : p \in near} \subseteq Int
    BY ChebInt
  <2> QED
    BY <1>1, <2>2, <2>3
<1> QED
  BY <1>1

(* The value AdjustQuantVal leaves in q, and its divisor. *)
AdjustedQ(q, d, t, ceil, outer) == AdjustQuantVal(q, d, t, ceil, outer).q
AdjustDen(q, d, t, outer) == 100 * TU * (d + 1) * QU - kAdjSpeed[outer + 1] * t * q

(***************************************************************************)
(* AdjustQuantVal on a block with a distance: the value stays natural,    *)
(* and it either is left alone (ok false) or ends at most quant_ceil.     *)
(***************************************************************************)
LEMMA AdjustQuantValFacts ==
  ASSUME NEW q \in Nat, NEW d \in Nat, NEW t \in Nat, NEW ceil \in Nat,
         NEW outer \in 0 .. 1
  PROVE  /\ AdjustedQ(q, d, t, ceil, outer) \in Nat
         /\ \/ AdjustedQ(q, d, t, ceil, outer) = q
            \/ AdjustedQ(q, d, t, ceil, outer) <= ceil
<1>1. /\ AdjustDen(q, d, t, outer) \in Int
      /\ q * (100 * TU * (d + 1)) * QU \in Nat
  BY DEF AdjustDen, TU, QU, kAdjSpeed
<1>2. AdjustDen(q, d, t, outer) > 0 =>
        (q * (100 * TU * (d + 1)) * QU) \div AdjustDen(q, d, t, outer) \in Nat
  BY <1>1
<1>3. CASE 1000 * q >= 999 * ceil
  BY <1>3 DEF AdjustedQ, AdjustQuantVal
<1>4. CASE ~(1000 * q >= 999 * ceil)
  <2>1. AdjustedQ(q, d, t, ceil, outer) =
          IF AdjustDen(q, d, t, outer) <= 0 THEN ceil
          ELSE Min2(ceil, (q * (100 * TU * (d + 1)) * QU) \div AdjustDen(q, d, t, outer))
    BY <1>4 DEF AdjustedQ, AdjustQuantVal, AdjustDen
  <2>2. AdjustDen(q, d, t, outer) > 0 =>
          LET x == (q * (100 * TU * (d + 1)) * QU) \div AdjustDen(q, d, t, outer)
          IN  Min2(ceil, x) \in Nat /\ Min2(ceil, x) <= ceil
    BY <1>2, Min2Le
  <2> QED
    BY <1>1, <2>1, <2>2
<1> QED
  BY <1>3, <1>4

(* One radius pass keeps the field natural; each block is left alone or *)
(* ends at most quant_ceil.                                              *)
LEMMA PassAtFacts ==
  ASSUME NEW f \in [Cells -> Nat], NEW r,
         tile \in [Cells -> Nat], quantCeil \in Nat, outerIter \in 0 .. 1
  PROVE  /\ PassAt(f, r).ch \in BOOLEAN
         /\ PassAt(f, r).f \in [Cells -> Nat]
         /\ \A c \in Cells : PassAt(f, r).f[c] = f[c] \/ PassAt(f, r).f[c] <= quantCeil
<1>1. ASSUME NEW c \in Cells, DistToPeakMap(tile, r)[c] >= 0
      PROVE  /\ AdjustQuantVal(f[c], DistToPeakMap(tile, r)[c], tile[c], quantCeil, outerIter).q \in Nat
             /\ \/ AdjustQuantVal(f[c], DistToPeakMap(tile, r)[c], tile[c], quantCeil, outerIter).q = f[c]
                \/ AdjustQuantVal(f[c], DistToPeakMap(tile, r)[c], tile[c], quantCeil, outerIter).q <= quantCeil
  <2>1. DistToPeakMap(tile, r)[c] \in Nat
    BY <1>1, DistToPeakMapType
  <2>2. f[c] \in Nat /\ tile[c] \in Nat
    OBVIOUS
  <2>3. /\ AdjustedQ(f[c], DistToPeakMap(tile, r)[c], tile[c], quantCeil, outerIter) \in Nat
        /\ \/ AdjustedQ(f[c], DistToPeakMap(tile, r)[c], tile[c], quantCeil, outerIter) = f[c]
           \/ AdjustedQ(f[c], DistToPeakMap(tile, r)[c], tile[c], quantCeil, outerIter) <= quantCeil
    BY <2>1, <2>2, AdjustQuantValFacts
  <2> QED
    BY <2>3 DEF AdjustedQ
<1> QED
  BY <1>1 DEF PassAt

(* The radius loop: the field of its first changing pass, or the field. *)
LEMMA RadiusLoopFacts ==
  ASSUME NEW f \in [Cells -> Nat],
         tile \in [Cells -> Nat], quantCeil \in Nat, outerIter \in 0 .. 1
  PROVE  /\ RadiusLoop(f).ch \in BOOLEAN
         /\ RadiusLoop(f).f \in [Cells -> Nat]
         /\ \A c \in Cells : RadiusLoop(f).f[c] = f[c] \/ RadiusLoop(f).f[c] <= quantCeil
<1> DEFINE hits == {r \in 0 .. searchRadius : PassAt(f, r).ch}
<1>1. CASE hits # {}
  <2>1. SetMin(hits) \in hits
    BY <1>1, SetMinIn
  <2> QED
    BY <1>1, <2>1, PassAtFacts DEF RadiusLoop
<1>2. CASE hits = {}
  BY <1>2 DEF RadiusLoop
<1> QED
  BY <1>1, <1>2

(***************************************************************************)
(* The expansions keep the radius in 0 .. 4 and quant_ceil on its 0.5    *)
(* grid up to 8.0, and never lower quant_ceil.                            *)
(***************************************************************************)
LEMMA ExpandFacts ==
  ASSUME NEW r \in 0 .. 4, NEW dc \in Nat, NEW ceil \in CeilVals, NEW q \in Nat
  PROVE  LET e == Expand(r, dc, ceil, q)
         IN  /\ e.r \in 0 .. 4 /\ e.dc \in Nat /\ e.ceil \in CeilVals
             /\ e.ceil >= ceil
             /\ e.step \in {"radius", "dc", "ceil", "break"}
<1>1. PICK k \in 0 .. 6 : ceil = 5 * QU + 50 * k
  BY DEF CeilVals
<1>2. ceil < 8 * QU => k + 1 \in 0 .. 6 /\ ceil + 50 = 5 * QU + 50 * (k + 1)
  BY <1>1 DEF QU
<1>3. ceil \in Nat
  BY <1>1 DEF QU
<1> QED
  BY <1>2, <1>3 DEF Expand, CeilVals

(* qmax of a natural field is natural. *)
LEMMA FieldMaxNat ==
  ASSUME NEW f \in [Cells -> Nat]
  PROVE  FieldMax(f) \in Nat
<1>1. {f[c] : c \in Cells} # {}
  BY OriginCell
<1> QED
  BY <1>1, SetMaxIn DEF FieldMax

-----------------------------------------------------------------------------
(* Type correctness. *)

(* The initial best_score, 1000000, is a natural number. *)
LEMMA InitialBestScoreNat == kInitialBestScore \in Nat
BY SMT DEF kInitialBestScore, TU

LEMMA TypeInvInit == Init => TypeInv
<1> SUFFICES ASSUME Init PROVE TypeInv
  OBVIOUS
<1>0. /\ bestField = field /\ bestDc = 120 /\ bestScore = kInitialBestScore
      /\ score = 0 /\ tile = [c \in Cells |-> 0] /\ qmax = 0
      /\ butteraugliIter = 0 /\ outerIter = 0 /\ searchRadius = 0
      /\ quantCeil = 5 * QU /\ quantDc = 120 /\ stall = 0 /\ changed = FALSE
      /\ pc = "top" /\ final = <<>> /\ tried = {} /\ bestSeen = kInitialBestScore
  BY Zenon DEF Init
<1>1. PICK raw \in [Cells -> InitVals] : field = AdjustQuantField(raw)
  BY DEF Init
<1>2. field \in [Cells -> Nat]
  <2>1. AdjustQuantField(raw) \in [Cells -> InitVals]
    BY AdjustQuantFieldType
  <2> QED
    BY <1>1, <2>1, HQFacts, Zenon
<1>3. quantCeil \in {5 * QU + 50 * k : k \in 0 .. 6}
  <2>1. 5 * QU = 5 * QU + 50 * 0 /\ 0 \in 0 .. 6
    BY DEF QU
  <2> QED
    BY <1>0, <2>1
<1>4. butteraugliIter \in 0 .. Max2(MaxIters, 1)
  BY <1>0, HQFacts DEF Max2
<1>5. tile \in [Cells -> Nat] /\ bestField \in [Cells -> Nat]
  BY <1>0, <1>2
<1>6. /\ bestDc \in Nat /\ quantDc \in Nat /\ score \in Nat /\ qmax \in Nat
      /\ outerIter \in 0 .. kMaxOuterIters
      /\ searchRadius \in 0 .. 4 /\ stall \in Nat
  BY <1>0 DEF kMaxOuterIters
<1>8. bestScore \in Nat /\ bestSeen \in Nat
  BY <1>0, InitialBestScoreNat
<1>9. /\ changed \in BOOLEAN
      /\ pc \in {"top", "inner", "post", "done"}
      /\ final \in {<<>>} \cup ([Cells -> Nat] \X Nat)
  BY <1>0
<1>7. /\ pc # "done" => /\ outerIter \in 0 .. 1
                        /\ butteraugliIter = 0 \/ butteraugliIter < MaxIters
      /\ tried \subseteq [Cells -> Nat] \X Nat \X Nat
  BY <1>0
<1> QED
  BY <1>2, <1>3, <1>4, <1>5, <1>6, <1>7, <1>8, <1>9 DEF TypeInv, TypeOK

LEMMA TypeInvStep == TypeInv /\ [Next]_vars => TypeInv'
<1> SUFFICES ASSUME TypeInv, [Next]_vars PROVE TypeInv'
  OBVIOUS
<1>0. /\ quantCeil \in Nat /\ quantDc \in Nat /\ searchRadius \in 0 .. 4
      /\ quantCeil \in CeilVals /\ qmax \in Nat
      /\ field \in [Cells -> Nat] /\ tile \in [Cells -> Nat]
  BY DEF TypeInv, TypeOK, CeilVals, QU
<1>1. CASE Roundtrip
  <2>1. PICK s \in Scores, agg \in [Layout -> TileVals] :
          LET better == s <= bestScore
              bf     == IF better THEN field ELSE bestField
              bd     == BestDcAfter(better)
          IN  /\ qmax' = FieldMax(field)
              /\ butteraugliIter' = butteraugliIter + 1
              /\ score' = s
              /\ tile' = TileDistMap(agg)
              /\ bestField' = bf
              /\ bestDc' = bd
              /\ bestScore' = IF better THEN NewBestScore(s) ELSE bestScore
              /\ bestSeen' = IF better THEN s ELSE bestSeen
              /\ stall' = IF better THEN 0
                          ELSE IF outerIter = 0 THEN stall + 1 ELSE stall
              /\ tried' = tried \cup {<<field, quantDc, s>>}
              /\ changed' = FALSE
              /\ IF BudgetSpent(butteraugliIter + 1)
                   THEN pc' = "done" /\ final' = <<bf, bd>>
                   ELSE pc' = "inner" /\ final' = final
    BY <1>1 DEF Roundtrip
  <2>2. s \in Nat /\ TileDistMap(agg) \in [Cells -> Nat] /\ FieldMax(field) \in Nat
    BY <1>0, HQFacts, TileDistMapType, FieldMaxNat
  <2>3. NewBestScore(s) \in Nat /\ BestDcAfter(TRUE) \in Nat /\ BestDcAfter(FALSE) \in Nat
    BY <2>2, <1>0, HQFacts DEF NewBestScore, Max2, BestDcAfter, TypeInv, TypeOK
  <2>4. /\ pc = "top"
        /\ outerIter \in 0 .. 1
        /\ butteraugliIter = 0 \/ butteraugliIter < MaxIters
    BY <1>1 DEF Roundtrip, TypeInv
  <2>5. /\ butteraugliIter + 1 \in 0 .. Max2(MaxIters, 1)
        /\ ~BudgetSpent(butteraugliIter + 1) => butteraugliIter + 1 < MaxIters
    BY <2>4, HQFacts DEF Max2, BudgetSpent, TypeInv, TypeOK
  <2>6. UNCHANGED <<field, outerIter, searchRadius, quantCeil, quantDc>>
    BY <1>1 DEF Roundtrip
  <2>7. /\ bestField' \in [Cells -> Nat] /\ bestDc' \in Nat
        /\ bestScore' \in Nat /\ bestSeen' \in Nat /\ score' \in Nat
    <3>1. /\ (IF s <= bestScore THEN field ELSE bestField) \in [Cells -> Nat]
          /\ BestDcAfter(s <= bestScore) \in Nat
          /\ bestScore \in Nat /\ bestSeen \in Nat
      BY <1>0, <2>3 DEF TypeInv, TypeOK, BestDcAfter
    <3> QED
      BY <2>1, <2>2, <2>3, <3>1
  <2>8. /\ tile' \in [Cells -> Nat] /\ qmax' \in Nat /\ stall' \in Nat
        /\ changed' \in BOOLEAN
    <3>1. stall \in Nat
      BY DEF TypeInv, TypeOK
    <3>2. /\ tile' = TileDistMap(agg) /\ qmax' = FieldMax(field)
          /\ changed' = FALSE
          /\ stall' = IF s <= bestScore THEN 0
                      ELSE IF outerIter = 0 THEN stall + 1 ELSE stall
      BY <2>1, Zenon
    <3>3. tile' \in [Cells -> Nat] /\ qmax' \in Nat /\ changed' \in BOOLEAN
      BY <2>2, <3>2, Zenon
    <3>4. stall' \in Nat
      BY <3>1, <3>2
    <3> QED
      BY <3>3, <3>4
  <2>9. /\ pc' \in {"top", "inner", "post", "done"}
        /\ final' \in {<<>>} \cup ([Cells -> Nat] \X Nat)
        /\ pc' # "done" => butteraugliIter' < MaxIters
    <3>1. /\ (IF s <= bestScore THEN field ELSE bestField) \in [Cells -> Nat]
          /\ BestDcAfter(s <= bestScore) \in Nat
      BY <1>0, <2>3 DEF TypeInv, TypeOK, BestDcAfter
    <3>2. CASE BudgetSpent(butteraugliIter + 1)
      BY <2>1, <3>1, <3>2
    <3>3. CASE ~BudgetSpent(butteraugliIter + 1)
      BY <2>1, <2>5, <3>3 DEF TypeInv, TypeOK
    <3> QED
      BY <3>2, <3>3
  <2>10. tried' \subseteq [Cells -> Nat] \X Nat \X Nat
    <3>1. <<field, quantDc, s>> \in [Cells -> Nat] \X Nat \X Nat
      BY <1>0, <2>2
    <3> QED
      BY <2>1, <3>1 DEF TypeInv
  <2>11. TypeOK'
    BY <1>0, <2>1, <2>4, <2>5, <2>6, <2>7, <2>8, <2>9 DEF TypeInv, TypeOK
  <2> QED
    BY <2>1, <2>4, <2>6, <2>9, <2>10, <2>11 DEF TypeInv
<1>2. CASE InnerAdjusted
  <2>1. pc = "inner" /\ outerIter \in 0 .. 1
    BY <1>2 DEF InnerAdjusted, TypeInv
  <2>2. RadiusLoop(field).f \in [Cells -> Nat]
    BY <1>0, <2>1, RadiusLoopFacts
  <2> QED
    BY <1>2, <2>2 DEF InnerAdjusted, TypeInv, TypeOK
<1>3. CASE InnerExpand
  <2>1. pc = "inner" /\ outerIter \in 0 .. 1
    BY <1>3 DEF InnerExpand, TypeInv
  <2>2. RadiusLoop(field).f \in [Cells -> Nat] /\ RadiusLoop(field).ch \in BOOLEAN
    BY <1>0, <2>1, RadiusLoopFacts
  <2>3. LET e == Expand(searchRadius, quantDc, quantCeil, qmax)
        IN  /\ e.r \in 0 .. 4 /\ e.dc \in Nat /\ e.ceil \in CeilVals
            /\ e.step \in {"radius", "dc", "ceil", "break"}
    BY <1>0, ExpandFacts
  <2> QED
    BY <1>3, <2>1, <2>2, <2>3 DEF InnerExpand, TypeInv, TypeOK, CeilVals
<1>4. CASE LeaveChanged
  BY <1>4 DEF LeaveChanged, InnerOver, TypeInv, TypeOK
<1>5. CASE NextOuterRound
  <2>1. pc \in {"inner", "post"} /\ outerIter \in 0 .. 1
    BY <1>5 DEF NextOuterRound, InnerOver, TypeInv
  <2>2. outerIter' = 1
    BY <1>5, <2>1 DEF NextOuterRound, kMaxOuterIters
  <2>3. [c \in Cells |-> (3 * field[c]) \div 4] \in [Cells -> Nat]
    BY <1>0
  <2> QED
    BY <1>5, <2>1, <2>2, <2>3 DEF NextOuterRound, TypeInv, TypeOK, kMaxOuterIters
<1>6. CASE OuterDone
  <2>1. pc \in {"inner", "post"} /\ outerIter \in 0 .. 1
    BY <1>6 DEF OuterDone, InnerOver, TypeInv
  <2>2. outerIter' \in 0 .. kMaxOuterIters
    BY <1>6, <2>1 DEF OuterDone, kMaxOuterIters
  <2> QED
    BY <1>6, <2>2 DEF OuterDone, TypeInv, TypeOK
<1>7. CASE UNCHANGED vars
  BY <1>7 DEF vars, TypeInv, TypeOK
<1> QED
  BY <1>1, <1>2, <1>3, <1>4, <1>5, <1>6, <1>7 DEF Next

(***************************************************************************)
(* TypeOK: every reachable state of the HQ search is well typed, for      *)
(* every budget max_iters, the zero budget included (butteraugli_iter is  *)
(* incremented before the break is tested), and every input set.          *)
(***************************************************************************)
THEOREM TypeCorrect == Spec => []TypeOK
<1>1. Spec => []TypeInv
  BY TypeInvInit, TypeInvStep, PTL DEF Spec
<1> QED
  BY <1>1, PTL DEF TypeInv

-----------------------------------------------------------------------------
(* Three quarters of a natural number, truncated, is at most the number. *)
LEMMA ThreeQuarters ==
  ASSUME NEW x \in Nat
  PROVE  (3 * x) \div 4 <= x /\ (3 * x) \div 4 \in Nat
OBVIOUS

(* One step raises a block only to at most the quant_ceil it ran with. *)
LEMMA RaisedStep ==
  ASSUME TypeInv, [Next]_vars, NEW c \in Cells, field'[c] > field[c]
  PROVE  field'[c] <= quantCeil
<1>0. /\ field \in [Cells -> Nat] /\ tile \in [Cells -> Nat]
      /\ quantCeil \in Nat
  BY DEF TypeInv, TypeOK, QU
<1>1. CASE Roundtrip \/ LeaveChanged \/ OuterDone \/ UNCHANGED vars
  <2>1. field' = field
    BY <1>1 DEF Roundtrip, LeaveChanged, OuterDone, vars
  <2> QED
    BY <1>0, <2>1
<1>2. CASE InnerAdjusted \/ InnerExpand
  <2>1. /\ pc = "inner" /\ outerIter \in 0 .. 1
        /\ field' = RadiusLoop(field).f
    BY <1>2 DEF InnerAdjusted, InnerExpand, TypeInv
  <2>2. /\ RadiusLoop(field).f[c] \in Nat
        /\ RadiusLoop(field).f[c] = field[c] \/ RadiusLoop(field).f[c] <= quantCeil
    BY <1>0, <2>1, RadiusLoopFacts
  <2> QED
    BY <1>0, <2>1, <2>2
<1>3. CASE NextOuterRound
  <2>1. field'[c] = (3 * field[c]) \div 4
    BY <1>3 DEF NextOuterRound
  <2>2. (3 * field[c]) \div 4 <= field[c] /\ field[c] \in Nat
    BY <1>0, ThreeQuarters
  <2> QED
    BY <2>1, <2>2
<1> QED
  BY <1>1, <1>2, <1>3 DEF Next

(***************************************************************************)
(* RaisedBelowCeil: for every grid, layout and input sets, no step of the *)
(* HQ search raises a block above the quant_ceil it runs with.  Only the  *)
(* peak descent raises blocks, and AdjustQuantVal caps the new value at   *)
(* quant_ceil, also when adj_inv_q is zero or negative; the 0.75 scaling   *)
(* of the next outer round only lowers blocks.                             *)
(***************************************************************************)
THEOREM RaisedBelowCeilHolds == Spec => RaisedBelowCeil
<1>1. Spec => []TypeInv
  BY TypeInvInit, TypeInvStep, PTL DEF Spec
<1>2. TypeInv /\ [Next]_vars =>
        [\A c \in Cells : field'[c] > field[c] => field'[c] <= quantCeil]_vars
  BY RaisedStep
<1> QED
  BY <1>1, <1>2, PTL DEF Spec, RaisedBelowCeil

-----------------------------------------------------------------------------
(* The pair invariant, step by step. *)

LEMMA PairInit == Init => PairInv
BY DEF Init, PairInv, BestPairMeasured

LEMMA PairStep ==
  ASSUME ScoresBelowInitial, TypeInv, PairInv, [Next]_vars
  PROVE  PairInv'
<1>0. butteraugliIter \in Nat /\ bestScore \in Nat /\ pc \in {"top", "inner", "post", "done"}
  BY DEF TypeInv, TypeOK
<1>1. CASE Roundtrip
  <2>1. PICK s \in Scores, agg \in [Layout -> TileVals] :
          LET better == s <= bestScore
              bf     == IF better THEN field ELSE bestField
              bd     == BestDcAfter(better)
          IN  /\ butteraugliIter' = butteraugliIter + 1
              /\ bestField' = bf
              /\ bestDc' = bd
              /\ bestSeen' = IF better THEN s ELSE bestSeen
              /\ tried' = tried \cup {<<field, quantDc, s>>}
              /\ IF BudgetSpent(butteraugliIter + 1)
                   THEN pc' = "done" /\ final' = <<bf, bd>>
                   ELSE pc' = "inner" /\ final' = final
    BY <1>1, Zenon DEF Roundtrip
  <2>2. butteraugliIter' >= 1 /\ butteraugliIter' # 0
    BY <1>0, <2>1
  <2>3. <<bestField', bestDc', bestSeen'>> \in tried'
    <3>1. CASE s <= bestScore
      BY <2>1, <3>1 DEF BestDcAfter
    <3>2. CASE ~(s <= bestScore)
      <4>1. butteraugliIter # 0
        <5>1. s <= kInitialBestScore
          BY DEF ScoresBelowInitial
        <5> QED
          BY <3>2, <5>1 DEF PairInv
      <4>2. <<bestField, bestDc, bestSeen>> \in tried
        BY <1>0, <4>1 DEF PairInv, BestPairMeasured
      <4> QED
        BY <2>1, <3>2, <4>2 DEF BestDcAfter
    <3> QED
      BY <3>1, <3>2
  <2>4. pc' = "done" => final' = <<bestField', bestDc'>>
    BY <2>1
  <2> QED
    BY <2>2, <2>3, <2>4 DEF PairInv, BestPairMeasured
<1>2. CASE InnerAdjusted \/ InnerExpand \/ LeaveChanged \/ NextOuterRound
  <2>1. /\ UNCHANGED <<bestField, bestDc, bestScore, butteraugliIter, final,
                      tried, bestSeen>>
        /\ pc' # "done"
    BY <1>2 DEF InnerAdjusted, InnerExpand, LeaveChanged, NextOuterRound
  <2> QED
    BY <2>1 DEF PairInv, BestPairMeasured
<1>3. CASE OuterDone
  BY <1>3 DEF OuterDone, PairInv, BestPairMeasured
<1>4. CASE UNCHANGED vars
  BY <1>4 DEF vars, PairInv, BestPairMeasured
<1> QED
  BY <1>1, <1>2, <1>3, <1>4 DEF Next

(***************************************************************************)
(* BestPairMeasured: when no roundtrip scores above the initial           *)
(* best_score of 1000000, the best field, the best DC quant and the score *)
(* kept for them were measured by one roundtrip, and the final            *)
(* SetQuantField uses that pair, for every budget and input sets.  A      *)
(* first score above 1000000 would keep the initial field as the best one *)
(* with the score 1000000 that no roundtrip measured.                     *)
(***************************************************************************)
THEOREM BestPairMeasuredHolds == ScoresBelowInitial => (Spec => []BestPairMeasured)
<1> SUFFICES ASSUME ScoresBelowInitial PROVE Spec => []BestPairMeasured
  OBVIOUS
<1>1. Spec => []TypeInv
  BY TypeInvInit, TypeInvStep, PTL DEF Spec
<1>2. TypeInv /\ PairInv /\ [Next]_vars => PairInv'
  BY PairStep
<1>3. Spec => []PairInv
  BY <1>1, <1>2, PairInit, PTL DEF Spec
<1> QED
  BY <1>3, PTL DEF PairInv

-----------------------------------------------------------------------------
(* The target bound, step by step. *)

LEMMA WithinInit == Init => WithinInv
BY InitialBestScoreNat DEF Init, WithinInv

LEMMA WithinStep ==
  ASSUME TypeInv, WithinInv, [Next]_vars
  PROVE  WithinInv'
<1>0. /\ bestScore \in Nat /\ bestSeen \in Nat /\ Target \in Nat
      /\ \A t \in tried : t[3] \in Nat
  BY HQFacts DEF TypeInv, TypeOK
<1>1. CASE Roundtrip
  <2>1. PICK s \in Scores, agg \in [Layout -> TileVals] :
          LET better == s <= bestScore
          IN  /\ bestScore' = IF better THEN NewBestScore(s) ELSE bestScore
              /\ bestSeen' = IF better THEN s ELSE bestSeen
              /\ tried' = tried \cup {<<field, quantDc, s>>}
    BY <1>1, Zenon DEF Roundtrip
  <2>2. s \in Nat
    BY HQFacts
  <2>5. /\ tried' = tried \cup {<<field, quantDc, s>>}
        /\ \A t \in tried' : t \in tried \/ t[3] = s
        /\ tried' # {}
    <3>1. tried' = tried \cup {<<field, quantDc, s>>}
      BY <2>1, Zenon
    <3>2. <<field, quantDc, s>>[3] = s
      OBVIOUS
    <3>3. ASSUME NEW t \in tried', t \notin tried PROVE t[3] = s
      <4>1. t = <<field, quantDc, s>>
        BY <3>1, <3>3, Zenon
      <4> QED
        BY <3>2, <4>1
    <3> QED
      BY <3>1, <3>3
  <2>3. CASE s <= bestScore
    <3>1. bestScore' = Max2(s, Target) /\ bestSeen' = s
      BY <2>1, <2>3 DEF NewBestScore
    <3>2. ASSUME NEW t \in tried
          PROVE  s <= Max2(Target, t[3]) /\ Max2(s, Target) <= Max2(Target, t[3])
      BY <1>0, <2>2, <2>3, <3>2 DEF WithinInv, Max2
    <3>3. s <= Max2(Target, s) /\ Max2(s, Target) <= Max2(Target, s)
      BY <1>0, <2>2 DEF Max2
    <3>4. s <= Max2(s, Target)
      BY <1>0, <2>2 DEF Max2
    <3> QED
      BY <2>5, <3>1, <3>2, <3>3, <3>4 DEF WithinInv
  <2>4. CASE ~(s <= bestScore)
    <3>1. bestScore' = bestScore /\ bestSeen' = bestSeen
      BY <2>1, <2>4
    <3>2. bestSeen <= Max2(Target, s) /\ bestScore <= Max2(Target, s)
      BY <1>0, <2>2, <2>4 DEF WithinInv, Max2
    <3> QED
      BY <2>5, <3>1, <3>2 DEF WithinInv
  <2> QED
    BY <2>3, <2>4
<1>2. CASE InnerAdjusted \/ InnerExpand \/ LeaveChanged \/ NextOuterRound \/ OuterDone
  <2>1. /\ UNCHANGED <<bestScore, tried, bestSeen>>
        /\ pc \in {"inner", "post"}
    BY <1>2 DEF InnerAdjusted, InnerExpand, LeaveChanged, NextOuterRound,
                OuterDone, InnerOver
  <2> QED
    BY <2>1 DEF WithinInv
<1>3. CASE UNCHANGED vars
  BY <1>3 DEF vars, WithinInv
<1> QED
  BY <1>1, <1>2, <1>3 DEF Next

(***************************************************************************)
(* BestWithinTarget: for every budget, target and input sets, when the    *)
(* search ends the score of the best field is at most the target or at    *)
(* most the least score of any roundtrip.  best_score = max(score,        *)
(* target) lets a later roundtrip under the target take over, never one   *)
(* above the target.                                                       *)
(***************************************************************************)
THEOREM BestWithinTargetHolds == Spec => []BestWithinTarget
<1>1. Spec => []TypeInv
  BY TypeInvInit, TypeInvStep, PTL DEF Spec
<1>2. Spec => []WithinInv
  BY <1>1, WithinInit, WithinStep, PTL DEF Spec
<1>3. ASSUME WithinInv PROVE BestWithinTarget
  <2> SUFFICES ASSUME pc = "done"
               PROVE  bestSeen <= Max2(Target, SetMin({t[3] : t \in tried}))
    BY DEF BestWithinTarget
  <2>1. {t[3] : t \in tried} # {}
    BY <1>3 DEF WithinInv
  <2>2. PICK u \in tried : SetMin({t[3] : t \in tried}) = u[3]
    BY <2>1, SetMinIn
  <2> QED
    BY <1>3, <2>2 DEF WithinInv
<1> QED
  BY <1>2, <1>3, PTL

-----------------------------------------------------------------------------
(* Every expansion but the final break changes a search parameter. *)
LEMMA ExpandWidens ==
  ASSUME NEW r \in Nat, NEW dc \in Nat, NEW ceil \in Nat, NEW q
  PROVE  \/ Expand(r, dc, ceil, q).step = "break"
         \/ <<Expand(r, dc, ceil, q).r, Expand(r, dc, ceil, q).dc,
              Expand(r, dc, ceil, q).ceil>> # <<r, dc, ceil>>
BY DEF Expand

(* From a stalled inner loop only InnerExpand can run. *)
LEMMA StalledStep ==
  ASSUME TypeInv, [Next]_vars,
         pc = "inner", ~changed, score > Target, stall >= 3
  PROVE  \/ <<searchRadius, quantDc, quantCeil>>' # <<searchRadius, quantDc, quantCeil>>
         \/ pc' = "post"
         \/ UNCHANGED vars
<1>0. stall \in Nat /\ searchRadius \in Nat /\ quantDc \in Nat /\ quantCeil \in Nat
  BY DEF TypeInv, TypeOK, QU
<1>1. ~Roundtrip /\ ~InnerAdjusted
  BY <1>0 DEF Roundtrip, InnerAdjusted
<1>2. ~LeaveChanged /\ ~NextOuterRound /\ ~OuterDone
  BY DEF LeaveChanged, NextOuterRound, OuterDone, InnerOver
<1>3. CASE InnerExpand
  <2> DEFINE e == Expand(searchRadius, quantDc, quantCeil, qmax)
  <2>1. /\ searchRadius' = e.r /\ quantDc' = e.dc /\ quantCeil' = e.ceil
        /\ pc' = IF e.step = "break" THEN "post" ELSE "inner"
    BY <1>3 DEF InnerExpand
  <2>2. e.step = "break" \/ <<e.r, e.dc, e.ceil>> # <<searchRadius, quantDc, quantCeil>>
    BY <1>0, ExpandWidens
  <2> QED
    BY <2>1, <2>2
<1> QED
  BY <1>1, <1>2, <1>3 DEF Next

(***************************************************************************)
(* StalledSearchWidens: for every grid, layout, budget and input sets,    *)
(* once num_stalling_iters >= 3 every iteration of the inner loop widens  *)
(* the search radius, the DC quant or quant_ceil, or breaks out because   *)
(* all three are spent: the stall counter forces the expansion branch.    *)
(***************************************************************************)
THEOREM StalledSearchWidensHolds == Spec => StalledSearchWidens
<1>1. Spec => []TypeInv
  BY TypeInvInit, TypeInvStep, PTL DEF Spec
<1>2. TypeInv /\ [Next]_vars =>
        [pc = "inner" /\ ~changed /\ score > Target /\ stall >= 3 =>
           \/ <<searchRadius, quantDc, quantCeil>>' # <<searchRadius, quantDc, quantCeil>>
           \/ pc' = "post"]_vars
  BY StalledStep
<1> QED
  BY <1>1, <1>2, PTL DEF Spec, StalledSearchWidens

=============================================================================
