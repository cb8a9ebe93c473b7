--------------------------- MODULE MCRunPipeline ---------------------------
(* One run, two event streams and a stop request, with the run's row. *)
EXTENDS RunPipeline
=============================================================================
