----------------------------- MODULE QuantGrid -----------------------------
(***************************************************************************)
(* The block grid shared by the quantization-field search loops of         *)
(* enc_adaptive_quantization.cc: the 8x8 blocks of a frame, the AC         *)
(* strategy that groups them into varblocks, and the two helpers that work *)
(* per varblock, AdjustQuantField and the broadcast of TileDistMap.        *)
(*                                                                         *)
(* A cell is a block position <<bx, by>>.  A varblock is a record          *)
(* [x, y, cx, cy]: its first block at <<x, y>> and the cx * cy blocks it   *)
(* covers (AcStrategy::covered_blocks_x/y).  The AcStrategyImage itself is *)
(* built outside this file; what the code relies on is that the varblocks  *)
(* tile the grid, which is stated as an assumption.                        *)
(***************************************************************************)
EXTENDS Integers

CONSTANTS
  NX,      \* frame_dim.xsize_blocks
  NY,      \* frame_dim.ysize_blocks
  Layout   \* the varblocks of the AC strategy, as [x, y, cx, cy] records

ASSUME GridAssumption == NX \in Nat \ {0} /\ NY \in Nat \ {0}

Cells == (0 .. NX - 1) \X (0 .. NY - 1)

(* The blocks a varblock covers, first block included. *)
Covered(v) == (v.x .. v.x + v.cx - 1) \X (v.y .. v.y + v.cy - 1)

(***************************************************************************)
(* The AC strategy tiles the grid: every varblock lies inside it (the two  *)
(* JXL_ASSERTs of AdjustQuantField) and every block is covered by exactly  *)
(* one varblock.                                                           *)
(***************************************************************************)
ASSUME LayoutAssumption ==
  /\ Layout \subseteq [x : Nat, y : Nat, cx : Nat \ {0}, cy : Nat \ {0}]
  /\ \A v \in Layout : Covered(v) \subseteq Cells
  /\ \A c \in Cells : \E v \in Layout : c \in Covered(v)
  /\ \A v, w \in Layout : v # w => Covered(v) \cap Covered(w) = {}

(* The varblock that covers block c. *)
VB(c) == CHOOSE v \in Layout : c \in Covered(v)

(* Blocks c and d belong to the same varblock. *)
SameVarblock(c, d) == VB(c) = VB(d)

(***************************************************************************)
(* Maximum and minimum of a set of integers.  The ELSE never applies to a *)
(* finite nonempty set; it makes either value a member of the set without *)
(* an argument that the extremum exists.                                   *)
(***************************************************************************)
IsMax(m, S) == \A s \in S : s <= m
IsMin(m, S) == \A s \in S : m <= s
SetMax(S) == IF \E m \in S : IsMax(m, S) THEN CHOOSE m \in S : IsMax(m, S)
             ELSE CHOOSE m \in S : TRUE
SetMin(S) == IF \E m \in S : IsMin(m, S) THEN CHOOSE m \in S : IsMin(m, S)
             ELSE CHOOSE m \in S : TRUE

(***************************************************************************)
(* AdjustQuantField: every varblock whose first block the row-major scan   *)
(* meets gets the maximum of the values of the blocks it covers.  As the   *)
(* varblocks are disjoint, the scan order does not matter and the result   *)
(* is the per-varblock maximum.                                            *)
(***************************************************************************)
AdjustQuantField(f) == [c \in Cells |-> SetMax({f[d] : d \in Covered(VB(c))})]

(***************************************************************************)
(* TileDistMap: one aggregate per varblock (the 16-norm of the diffmap     *)
(* over its pixels and margin, scaled by kTileNorm) is computed at the     *)
(* first block and written to every block the varblock covers.  The       *)
(* aggregate depends on the decoded image and is an input here (agg gives  *)
(* one per varblock); what is modelled is where it is written.             *)
(***************************************************************************)
(* Variant: the loop over the covered blocks dropped; only the first block *)
(* is written, the others keep the zero of a fresh image.                  *)
TileDistMapFirstOnly(agg) ==
  [c \in Cells |-> IF c = <<VB(c).x, VB(c).y>> THEN agg[VB(c)] ELSE 0]

TileDistMap(agg) == [c \in Cells |-> agg[VB(c)]]

(* A per-block map is constant over every varblock. *)
BlockConstant(f) == \A c, d \in Cells : SameVarblock(c, d) => f[c] = f[d]

=============================================================================
