----------------------------- MODULE MCCliRuns -----------------------------
(* One run with two event streams and a stop request. *)
EXTENDS CliRuns
=============================================================================
