---------------------------- MODULE MCFinanceLedger ----------------------------
(***************************************************************************)
(* A small instance of FinanceLedger for TLC: two workers, two payments    *)
(* and two billed invoices, with a third invoice to run over the limit.    *)
(***************************************************************************)
EXTENDS FinanceLedger, TLC

LedgerSymmetry == Permutations(Workers) \cup Permutations(Payments)
=============================================================================
