# Quantization-field search of the JPEG XL encoder: TLA+ models

This directory holds TLA+ models of the adaptive-quantization search in
`src/unnamed/part_000` (`jxl/enc_adaptive_quantization.cc`). It also holds
TLC configurations that check the models on small instances, and TLAPS proofs
of the main invariants and action properties of the three searches.
`src/unnamed/part_001` (`jxl/entropy_coder.cc`) and `src/jxl/enc_dct.h` are
listed but not modelled (see "Not modelled").

## The system

`FindBestQuantizer` (part_000:1166-1199) picks the search that decides the
per-block quantization field of a frame:

- **max-error mode**: `FindBestQuantizationMaxError` (895-960). This runs
  `max_butteraugli_iters + 1` passes. Each pass roundtrips the frame and
  multiplies every varblock by `qf_mul`, a factor taken from its worst pixel
  error relative to `max_error`.
- **tortoise**: `FindBestQuantizationHQ` (962-1105). An outer loop of at most
  two rounds. Each roundtrip updates the best field, its DC and its score.
  An inner loop then raises blocks near distance peaks (`DistToPeakMap`,
  `AdjustQuantVal`). When a pass changes nothing, or the search stalls, it
  widens the search radius, raises the DC quant, or raises the ceiling.
- **default (kitten and slower)**: `FindBestQuantization` (712-893). This
  runs `max_butteraugli_iters + 1` roundtrips. Each one:
  1. computes two per-varblock distance maps (`TileDistMap`);
  2. reverts blocks that got worse;
  3. saves `last_quant_field`;
  4. in round 1, floors blocks towards the initial field;
  5. raises blocks above the target, or in rounds 0 and 1 lowers them by
     `diff^0.2`;
  6. clamps into `[qf_lower, qf_higher]`.
- Falcon, uniform and fast modes only call `SetQuant` or `AdjustQuantField`
  once.

All three searches start from `AdjustQuantField` (681-706). It sets every block
of a varblock to the varblock's maximum. They all read the varblock structure
of the AC strategy through `TileDistMap` (582-646), which writes one aggregate
per varblock to every block the varblock covers.

The encode, the decode and Butteraugli (`RoundtripImage`,
`comparator.CompareWith`) are the environment of every search. In the models,
their result is a free input: one distance or error value per varblock, taken
from a small set.

## Modules

| Module | Models | State and actions |
|---|---|---|
| `QuantGrid` | the block grid, varblocks, `AdjustQuantField`, `TileDistMap` | constants `NX`, `NY` and `Layout` (varblocks as `[x,y,cx,cy]` records). `LayoutAssumption` states that the varblocks tile the grid, which includes the two `JXL_ASSERT`s of `AdjustQuantField`. |
| `FindBestQuantization` | the default search | variables `initialField`, `qfLower`, `qfHigher`, `field`, `lastField`, `lastLocal`, `tileDist`, `localDist`, `quantField`, `iter`, `done`, plus the history `tried`. `Init` covers lines 712-746. `Iterate` is one whole loop body for i < max_butteraugli_iters. `LastIteration` is the round that ends at the `break` and the final `SetQuantField`. |
| `QuantGridProofs` | lemmas about `QuantGrid` | the extrema, the varblock cover, and the type and block constancy of `AdjustQuantField` and `TileDistMap`; used by the three search proofs |
| `FindBestQuantizationProofs` | the theorems about `FindBestQuantization` | lemmas and TLAPS proofs |
| `FindBestQuantizationHQProofs` | the theorems about `FindBestQuantizationHQ` | lemmas and TLAPS proofs |
| `FindBestQuantizationMaxErrorProofs` | the theorems about `FindBestQuantizationMaxError` | lemmas and TLAPS proofs |
| `FindBestQuantizationHQ` | the tortoise search | one variable per local of the function, plus `pc`, `final` and the histories `tried` and `bestSeen`. The actions are `Roundtrip` (1001-1053), `InnerAdjusted` (a radius pass changed something), `InnerExpand` (1074-1091), `LeaveChanged`, `NextOuterRound` (the 0.75 scale) and `OuterDone` (the final `SetQuantField`). |
| `FindBestQuantizationMaxError` | the max-error search | `Pass` is one pass of the loop. `Finish` is the final `SetQuantField`. |
| `MC_*` | instances for TLC | the layout and the numeric tables |

### Fixed-point encoding

All numbers are fixed point. Products are rounded down.

- In the default search, a field value `q` stands for `q/1000`. A distance
  `d` stands for `d/DU` times the target, so the code's `diff` is `d/DU`.
  `int(q·InvGlobalScale()+0.5)` is `QuantIndex`. `pow(diff, 0.2)` is the table
  `PowFifth`.
- The bounds `qf_lower` and `qf_higher` are the closed forms of lines
  736-741, rounded down (`QfLowerOf`, `QfHigherOf`). In exact arithmetic
  their ratio is 250, so the `JXL_ASSERT` at 743 is not a guard.
- In the HQ search, `q` stands for `q/100` (unit `QU`). `AdjustQuantVal` is
  computed in exact rationals and then rounded down, capped at the ceiling.
- `DistToPeakMap` is modelled only for `peak_weight = 0`, the only value the
  code passes. It is written in closed form: the least Chebyshev distance to
  a block above the target within the radius, or -1.
- In the max-error search, `q` stands for `q/100` and an error `e` for
  `e/10` of `max_error`.

### Abstractions

- The three colour channels, the pixels and SIMD are abstracted to one value
  per block.
- Debug output and `aux_out` are left out.
- A `RoundtripImage` result is an input of the step that uses it. This is the
  only nondeterminism, apart from the initial field.

## Runs

| Run | Expect | What it shows |
|---|---|---|
| `core_pass` (`MC_FindBestQuantization.cfg`) | pass | see the default search below |
| `core_kpow` (`_kpow.cfg`) | violation | `UpdateNeverLowers`: the code's `kPow = {0.2, 0.2, 0, …}` lowers blocks that are below the target in rounds 0 and 1. The spec's §4.7 step 8 and §9(b) say kPow is all zero. |
| `core_noiter` (`_noiter.cfg`) | violation | `EnvelopeAfterSearch` with `max_butteraugli_iters = 0`: the initial field reaches the quantizer without ever being clamped. |
| `hq_pass` (`MC_FindBestQuantizationHQ.cfg`) | pass | see the HQ search below |
| `hq_blocks` (`_blocks.cfg`) | violation | `FinalBlockConstant`: see the HQ search below |
| `maxerr_pass` (`MC_FindBestQuantizationMaxError.cfg`) | pass | see the max-error search below |
| `maxerr_zero` (`_zero.cfg`) | violation | `Positivity`: an error of 0 gives `qf_mul = 0` and a zero field (947-948). |

### core_pass: the default search

- **Block constancy**: `BlockConstancy` holds for the searched field and for
  the quantizer's field.
- **Envelope**: `EnvelopeAfterSearch` says the final field lies in
  `[qf_lower, qf_higher]`. The initial values `{10,300,3000}` have a ratio
  above 250, so the initial field lies outside the envelope. The property
  holds only because every value the revert can restore was saved after a
  clamped update.
- **Reverts**: `RevertsToTried` says a revert and the final field use only
  values that some roundtrip measured. This depends on `last_quant_field`
  being saved after the revert and before the floor.
- **Progress**: `ProgressAboveTarget` says a block above the target moves to
  a higher quantizer index, or is held at `qf_higher`. This is what the
  `+ Scale()` fallback of 859-863 is for.

### hq_pass: the HQ search

- **Termination**: `Termination` says the search ends, under weak fairness.
  The inner `while`, the radius `for` and the outer `for(;;)` all stop.
- **Best pair**: `BestPairMeasured` says the final field and DC quant were
  measured together by one roundtrip.
- **Best score**: `BestWithinTarget` says the final score is at most the
  target or at most every score seen. `best_score = max(score, target)`
  allows a later roundtrip that is worse but still under the target to
  replace the best field.
- **Ceiling**: `RaisedBelowCeil` is an action property. A step that raises
  a block leaves it at most at the `quant_ceil` the step ran with. Only
  `AdjustQuantVal`'s `max(1 / quant_max, adj_inv_q)` (551) enforces this,
  also when `adj_inv_q` is zero or negative for a large factor. The
  `AdjustQuantValNoCap` mutant drops the cap and breaks it.
- **Stall**: `StalledSearchWidens` is an action property. Once three
  roundtrips of outer round 0 have not improved the best score
  (`num_stalling_iters >= 3`, counted at 1025-1027), every inner-loop
  iteration widens the radius, the DC quant or `quant_ceil`, or breaks out with all three
  spent. This holds even when the radius pass changed the field (1074). The
  `InnerAdjustedNoStall` mutant drops the stall test and breaks it. Reaching
  this branch takes an improving roundtrip, then three that do not improve,
  then one more roundtrip, so the run uses `MaxIters = 5`.

### hq_blocks: the HQ search breaks block constancy

This run checks `FinalBlockConstant` and finds it violated in 9 states:

1. The 1×1 block holds 600 ≥ 0.999·500, the ceiling, so the pass at radius
   0 changes nothing.
2. The radius grows to 1.
3. The two blocks of the 2×1 varblock lie at different distances from the
   peak. One is raised to 324 and the other stays at 300.
4. After the 0.75 scale, this field becomes the best field, with score 5.

The spec's §8 property 4 says the final field is block-constant.

### maxerr_pass: the max-error search

- **Block constancy**: `BlockConstancy` holds.
- **Direction**: `MonotoneRegime` (spec §8 property 5) says a pass raises
  every block whose error is at least half the maximum, and lowers every
  block whose error is below half.

### Mutants

Every property of a passing run is also checked against a mutant that TLC
must break. Each mutant is an operator named `…NoBump`, `…Inclusive`,
`…NoCap`, `…Stale` and so on, defined just before the definition it replaces.
They model these plausible bugs:

- a dropped `+ Scale()` fallback;
- an off-by-one in a loop bound;
- a missing cap;
- `best_quant_dc` not saved;
- `++search_radius` lost;
- a missing upper clamp;
- `last_quant_field` saved after the update;
- `TileDistMap` writing only the first block;
- a dropped `1.0f` case of `qf_mul`;
- the `num_stalling_iters >= 3` test dropped.

### Bounds

- **Grid**: every run uses a 3×1 grid with one 2×1 varblock and one 1×1 block.
  This is the smallest layout where a varblock has more than one block, next
  to a block of another varblock, so constancy and cross-varblock distances
  both matter.
- **Default search**: `MaxIters = 2` gives three roundtrips. That covers
  round 0, the floor of round 1, the revert of round 2 and the break.
- **Default search distances**: `Dists = {2,4,5}` with `DU = 4` covers
  below, at and above the target.
- **Default search initial values**: `InitVals = {10,300,3000}` covers both
  regimes of the bounds (a ratio at most 250, and above 250).
- **HQ search**:
  - `MaxIters = 5` roundtrips, the fewest that reach the stall branch with
    `num_stalling_iters = 3` inside an inner loop (the run then has 164434
    distinct states);
  - scores on both sides of the target;
  - initial values `{300,600}`, with 600 ≥ 0.999·500 exercising the skip in
    `AdjustQuantVal`.
- **Max-error search**: errors `{3,5,8,12}` hit the three branches of
  `qf_mul` and the boundary at 0.5.

### Fairness and deadlock

- **Fairness**: the HQ search runs on one thread, and each of its steps is a
  deterministic continuation once the roundtrip has returned. So
  `WF_vars(Next)` is what the code's scheduling gives, and `Termination` is
  checked under it.
- **Deadlock**: all three searches really stop. The final states
  (`done`, `pc = "done"`) have no successor, so the runs set
  `CHECK_DEADLOCK FALSE`.

## Proofs (`FindBestQuantizationProofs`)

The proofs are checked by `tlapm`. They rest on `GridAssumption`,
`LayoutAssumption` and `ParamAssumption`, and hold for every grid, every
layout that tiles it and every parameter set.

- `TypeCorrect: Spec => []TypeOK`.
  - The operator lemmas `AdjustQuantFieldType`, `TileDistMapType`,
    `UpdateCellFacts`, `FloorCellType` and `RevertCellType` give the type of
    each step.
  - `SetMaxIn` and `SetMinIn` give membership of the extrema. `QuantGrid`
    defines them so that no finiteness argument is needed.
- `BlockConstancyHolds: Spec => []BlockConstancy`.
  - The inductive invariant is `TypeOK /\ BlockInv`. `BlockInv` says
    `initialField`, `field`, `lastField`, `lastLocal` and `quantField` are
    block-constant.
  - `BlockConstancy` alone is not inductive. The revert reads `lastField`
    and `lastLocal`, and the floor reads `initialField`, so they must be
    block-constant too.
  - Each per-cell operator maps block-constant arguments to a block-constant
    result (`RevertBlockConstant`, `FloorBlockConstant`,
    `UpdateBlockConstant`, `TileBlockConstant`, `AdjustBlockConstant`).
- `EnvelopeHolds: MaxIters >= 1 => (Spec => []EnvelopeAfterSearch)`.
  - The inductive invariant `EnvelopeInv` contains:
    - `TypeOK`;
    - `qf_lower <= qf_higher` (`BoundsOrdered`, from the monotonicity of the
      floor square root);
    - after one iteration, `field` is in the envelope;
    - after two, `lastField` is too;
    - at the end, `quantField` is, and `iter = MaxIters`.
  - `UpdateInEnvelope`: an update ends with the clamp.
  - `RevertedInEnvelope`: a revert picks the current value or the saved one.
  - The hypothesis `MaxIters >= 1` is needed; the `core_noiter` run is the
    counterexample without it.
- `RevertsToTriedHolds: Spec => []RevertsToTried`.
  - The inductive invariant is `TypeOK /\ RevertsToTried`.
  - `RevertCellChoice`: a revert returns the current value or the saved one.
  - `RevertedInTried`: so after the revert every block holds the value just
    roundtripped or an earlier saved one, which is in `tried` already.
  - `last_quant_field` is copied from the reverted field, before the floor
    and the update. The `LastSavedAfterUpdate` mutant copies it after them,
    and it breaks the property.

- `ProgressAboveTargetHolds: Spec => ProgressAboveTarget`, for every value
  of the constants.
  - For `MaxIters >= 1` it follows from `[]EnvelopeInv` and the step lemma
    `ProgressStep`. For `MaxIters = 0`, `TypeOK` leaves no `Iterate` step.
  - `ProgressStep`: `last_quant_field` is the reverted value. The round-1
    floor never lowers it, because it lies below `qf_higher`
    (`FloorCellNotLower`, using the envelope). The update then raises the
    index or clamps to `qf_higher` (`UpdateCellUp`).
  - `RaiseCellUp` is the heart of it. `(q * d) div DU >= q` when `d > DU`
    (`DivLower`), so the index cannot fall. When the index stays the same,
    the `+ Scale()` fallback adds one quantizer step, which raises the index
    (`QuantIndexStep`, from `DivShift`). `QuantIndexMono` carries the order
    through the clamp to `qf_lower`.
  - The `RaiseCellNoBump` mutant drops that fallback, and `TLC` finds the
    property violated.

`TLC` checked each inductive invariant as an ordinary invariant before it was
proved.

## Proofs (`FindBestQuantizationMaxErrorProofs`)

These proofs rest on `GridAssumption` and `MaxErrorAssumption`.

- `TypeCorrect: Spec => []TypeOK`. `TypeOK` is inductive as it stands.
  `MultiplyType` shows that the `qf_mul` product of natural numbers is
  natural.
- `BlockConstancyHolds: Spec => []BlockConstancy`.
  - The inductive invariant is `BlockInv`: `field` and `final` are both
    block-constant in every state.
  - `BlockConstancy` itself only speaks of the end state.
  - `MultiplyBlockConstant` and `TileBlockConstant` show that a pass keeps
    the field block-constant.
- `MonotoneRegimeHolds: Spec => MonotoneRegime`. This is an action property.
  - `MonotoneStep` proves it for each step from `TypeOK`.
  - `MultiplyDirection` does the arithmetic. A factor from an error of at
    least half the maximum is at least `EU`. One from an error below half
    is below `EU`. The truncating division keeps that order.

## Proofs (`FindBestQuantizationHQProofs`)

These proofs rest on `GridAssumption`, `LayoutAssumption` and `HQAssumption`.
`HQFacts` restates the quantifier-free part of `HQAssumption`. The proofs cite
it where they need it: with the whole assumption in scope, the SMT solver
times out on its quantifiers.

- `TypeCorrect: Spec => []TypeOK`.
  - The inductive invariant `TypeInv` adds two facts to `TypeOK`:
    - while the search runs, `outer_iter` is 0 or 1;
    - the budget is not spent yet, or no roundtrip has run.
  - Without them, the next `kAdjSpeed[outer_iter]` and the next
    `++butteraugli_iter` could leave their ranges.
  - The `tried` history is typed too.
  - The operator lemmas give the type of each step:
    - `AdjustQuantValFacts`, `PassAtFacts` and `RadiusLoopFacts`: a pass
      returns natural values, and each block either stays as it was or is at
      most `quant_ceil`;
    - `ExpandFacts`: an expansion keeps the radius in `0..4`, and keeps the
      ceiling in its seven values without lowering it.
- `RaisedBelowCeilHolds: Spec => RaisedBelowCeil`.
  - `RaisedStep` proves the step condition from `TypeInv`.
  - A radius pass leaves a block as it was or at most `quant_ceil`
    (`RadiusLoopFacts`, from `AdjustQuantValFacts`).
  - The 0.75 scaling never raises a block (`ThreeQuarters`). The other
    actions leave the field alone.
- `StalledSearchWidensHolds: Spec => StalledSearchWidens`.
  - `StalledStep`: from a stalled inner loop, `TypeInv` leaves only
    `InnerExpand`. `Roundtrip` needs `pc = "top"`, `InnerAdjusted` needs
    `stall < 3`, and the loop exits need the loop condition to be false.
  - `ExpandWidens`: every expansion but the final break changes the radius,
    the DC quant or the ceiling.
- `BestPairMeasuredHolds: ScoresBelowInitial => (Spec => []BestPairMeasured)`.
  - The inductive invariant `PairInv` adds that, before the first
    roundtrip, `best_score` still holds its initial 1000000.
  - So the first roundtrip always saves its field, DC quant and score.
  - The hypothesis `ScoresBelowInitial` (no score above 1000000) is needed.
    A first score above 1000000 keeps the initial field as the best one,
    and the score recorded for it is then 1000000, which no roundtrip
    measured.
  - The MC's scores satisfy the hypothesis. So do real butteraugli
    distances.
- `BestWithinTargetHolds: Spec => []BestWithinTarget`.
  - The inductive invariant `WithinInv` bounds both `best_score` and the
    best field's score by `max(target, s)` for every roundtrip's score `s`.
  - It also says that the best field's score is at most `best_score`, and
    that a roundtrip has run once the loop body is left.
  - The `SetMin` of the scores is then one of them (`SetMinIn`).

TLC checked `TypeInv`, `PairInv` and `WithinInv` as invariants of the
`hq_pass` instance, with `MaxIters = 4` and with `MaxIters = 0`, before they
were proved. The first proof attempts found two faults in the model, which
were then fixed:

- `TypeOK` bounded `butteraugliIter` by `MaxIters`. This is false for a
  zero budget, because `++butteraugli_iter` runs before the break. It is
  now bounded by `max(MaxIters, 1)`.
- `kInitialBestScore` was written as 1000000 rather than `1000000 * TU`.
  Scores are in units of `1/TU`, so the initial best score was off by a
  factor of `TU`.

The HQ `TypeOK` is proved, but no run checks it: the proof covers every
budget, and a run would only repeat the off-by-one that the max-error
search's `TypeOK` run already catches.

### Only model-checked

- **Temporal properties**: liveness (`Termination`) and fairness are beyond
  the prover.
- **`FinalBlockConstant`** (HQ): this property is violated, as the
  `hq_blocks` run shows.
- **`DistToPeakMap`**: the closed form is only compared with the code by
  reading.

## Not modelled

- **Filters**: `AdaptiveQuantizationMap`, `DiffPrecompute` and the gamma,
  range, HF and DCT modulations (101-531). These are SIMD float filters.
  Their output is the `InitVals` input.
- **`InitialQuantDC`, `InitialQuantField`, `IntensityAcEstimate`**: float
  formulas.
- **`RoundtripImage`**: the full codec.
- **`FindBestQuantizer`**: a stateless dispatch.
- **`entropy_coder.cc`**: the tokenizer and the block context map.
- **`enc_dct.h`**: the header declares only the function types
  (`TransposedScaledDCT8Func`, `Dct8Func`, `TransposedScaledDCTFunc`) and the
  `Choose*` selectors, with a comment on the output layout. No
  implementation is under `src/`. A model of it would model a reading of the
  comment, and it would hold whatever the real code does.

## Plan for later sittings

1. Check the closed form of `DistToPeakMap` against a module with the code's
   loops (a TLC-only, recursive reference).
2. Model `AdjustQuantField` as the code's row-major scan, and show it refines
   the per-varblock maximum.
3. Model the entropy coder:
   - the token loop of `TokenizeCoefficients` and its context choice;
   - a `Encode`/`DecodeBlockCtxMap` roundtrip with the 4-bit size fields and
     the decoder limits.
4. Model the boundary of `DiffPrecompute` for rows of width 1 (hazard at
   part_000:399).
