---------------------------- MODULE MCRunLedger ----------------------------
(* The run ledger with three run ids and a limit of two. *)
EXTENDS RunLedger
=============================================================================
