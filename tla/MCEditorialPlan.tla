--------------------------- MODULE MCEditorialPlan ----------------------------
(***************************************************************************)
(* A small instance of EditorialPlan for TLC: one plan of two lines, two   *)
(* editors, and room for two topics and two packs.                         *)
(***************************************************************************)
EXTENDS EditorialPlan, TLC

SmallPeriods == {<<1, 1>>, <<1, 2>>}

PlanSymmetry ==
  Permutations(Editors) \cup Permutations(Lines) \cup Permutations(Topics) \cup Permutations(Packs)
=============================================================================
