------------------------ MODULE MCPublishDestinations ------------------------
(***************************************************************************)
(* A smaller instance of PublishDestinations for TLC: what becomes of the  *)
(* account of a connection.                                                *)
(***************************************************************************)
EXTENDS PublishDestinations, TLC

OneType == {<<"telegram", TRUE>>}

AdminSymmetry == Permutations(Admins)
=============================================================================
