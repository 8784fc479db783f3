------------------------- MODULE MCMarketingServices -------------------------
(***************************************************************************)
(* A small instance of MarketingServices for TLC: one pack with a channel  *)
(* that counts as social and one that does not, a usable and a reserved    *)
(* type of destination, and an administrator of secrets whose requests do  *)
(* not overlap, with failing commits.                                      *)
(***************************************************************************)
EXTENDS MarketingServices, TLC

SmallEdits == {<<"telegram", "good">>, <<"telegram", "short">>}
TwoTypes == {<<"telegram", TRUE>>, <<"tiktok", FALSE>>}

EditorSymmetry == Permutations(Editors)
=============================================================================
