------------------------- MODULE MCProcessManager --------------------------
(* The process manager on small sets of processes and concurrent requests. *)
EXTENDS ProcessManager
=============================================================================
