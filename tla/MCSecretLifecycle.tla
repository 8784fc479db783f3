-------------------------- MODULE MCSecretLifecycle --------------------------
(***************************************************************************)
(* Small instances of SecretLifecycle for TLC.                             *)
(***************************************************************************)
EXTENDS SecretLifecycle, TLC

\* Workers are interchangeable (used where no liveness property is checked).
WorkerSymmetry == Permutations(Procs)
=============================================================================
