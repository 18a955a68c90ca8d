---------------------------- MODULE QuantGridProofs ----------------------------
(***************************************************************************)
(* Lemmas about the block grid and the per-varblock helpers of            *)
(* enc_adaptive_quantization.cc, for every grid and every AC strategy     *)
(* layout that tiles it.  The proofs of the three searches cite them.     *)
(***************************************************************************)
EXTENDS QuantGrid, TLAPS

USE GridAssumption

(* Block <<0, 0>> exists: the frame has at least one block. *)
LEMMA OriginCell == <<0, 0>> \in Cells
<1>1. 0 \in 0 .. NX - 1 /\ 0 \in 0 .. NY - 1
  BY GridAssumption, SMT
<1> QED
  BY <1>1 DEF Cells

(* The maximum of a nonempty set (of a varblock in AdjustQuantField, of  *)
(* the initial field for the bounds) is a member of it.                  *)
LEMMA SetMaxIn ==
  ASSUME NEW S, S # {}
  PROVE  SetMax(S) \in S
BY DEF SetMax

(* The minimum of a nonempty set is a member of it. *)
LEMMA SetMinIn ==
  ASSUME NEW S, S # {}
  PROVE  SetMin(S) \in S
BY DEF SetMin

(* Every block lies in the varblock VB assigns it, inside the grid. *)
LEMMA VBCovers ==
  ASSUME NEW c \in Cells
  PROVE  /\ VB(c) \in Layout
         /\ c \in Covered(VB(c))
         /\ Covered(VB(c)) \subseteq Cells
BY LayoutAssumption DEF VB

(* TileDistMap writes a value of the aggregate's type to every block. *)
LEMMA TileDistMapType ==
  ASSUME NEW S, NEW agg \in [Layout -> S]
  PROVE  TileDistMap(agg) \in [Cells -> S]
BY VBCovers DEF TileDistMap

(* AdjustQuantField keeps a field's values in the set they come from. *)
LEMMA AdjustQuantFieldType ==
  ASSUME NEW S, NEW f \in [Cells -> S]
  PROVE  AdjustQuantField(f) \in [Cells -> S]
<1> SUFFICES ASSUME NEW c \in Cells
             PROVE  SetMax({f[d] : d \in Covered(VB(c))}) \in S
  BY DEF AdjustQuantField
<1>1. {f[d] : d \in Covered(VB(c))} # {}
  BY VBCovers
<1>2. {f[d] : d \in Covered(VB(c))} \subseteq S
  BY VBCovers
<1> QED
  BY <1>1, <1>2, SetMaxIn

(* AdjustQuantField makes a field constant over each varblock. *)
LEMMA AdjustBlockConstant ==
  ASSUME NEW f
  PROVE  BlockConstant(AdjustQuantField(f))
BY DEF BlockConstant, SameVarblock, AdjustQuantField

(* TileDistMap writes one value to all the blocks of a varblock. *)
LEMMA TileBlockConstant ==
  ASSUME NEW agg
  PROVE  BlockConstant(TileDistMap(agg))
BY DEF BlockConstant, SameVarblock, TileDistMap

=============================================================================
