---------------------------- MODULE RunPipeline ----------------------------
(***************************************************************************)
(* The run routes of the adapter (studio_routes.py): CLI runs together     *)
(* with the row the run ledger keeps of each.  start_run creates the row;  *)
(* the event route records each event in the step in which the backend's   *)
(* generator yields it, before the client sees it.  Every write may fail:  *)
(* the routes log that and go on.                                          *)
(*                                                                         *)
(* Simplifications: there are never more runs than the ledger retains; of  *)
(* run_events nothing is kept; the clock stands still.                     *)
(***************************************************************************)
EXTENDS CliRuns

VARIABLES
  runs,   \* runs[r]: the row of run r in the ledger
  lost    \* the runs with a write that failed

Now == 1

Ledger == INSTANCE RunLedger
            WITH run_events <- {}, Times <- {Now}, Retained <- 1, MaxEvents <- 0

pipelineVars == <<vars, runs, lost>>

PipelineInit ==
  /\ Init
  /\ runs = [r \in Runs |-> Ledger!NoRow]
  /\ lost = {}

-----------------------------------------------------------------------------

\* _persist_started_run and _persist_run_event swallow what goes wrong.
Write(r, rows) ==
  \/ runs' = rows /\ UNCHANGED lost
  \/ lost' = lost \cup {r} /\ UNCHANGED runs

\* mutant: the backend's own word is stored
StartRouteRaw(r) ==
  /\ StartRun(r)
  /\ Write(r, Ledger!Created(r, "started", Now))

\* The caller learns the run's id only once its row was created.
StartRoute(r) ==
  /\ StartRun(r)
  /\ Write(r, Ledger!Created(r, "running", Now))

\* stop_run asks the backend and records nothing.
StopRoute(k, r) ==
  /\ StopRun(k, r)
  /\ UNCHANGED <<runs, lost>>

\* The places where the generator awaits, so that a cancellation reaches the
\* route as CancelledError; at a yield the route is closed without a word.
Awaiting == {"spawning", "reading", "draining", "killing"}

\* The event that a step of the stream hands to the route, if any.
Emitted(s) ==
  CASE out'[s] # None /\ out'[s] # out[s]                    -> out'[s]
    [] pc[s] \in Awaiting /\ pc'[s] = "done" /\ gone[s]      -> "run.interrupted"
    [] OTHER                                                 -> None

\* mutant: a lost stream is taken for the end of its run
RecordedAsFailure(event) ==
  IF event \in {"run.disconnected", "run.interrupted"} THEN "run.failed"
  ELSE IF event \in {"adapter.warning", "ping"} THEN "run.interrupted" ELSE event

\* Events the ledger has no case for are alike to it.
Recorded(event) ==
  IF event \in {"adapter.warning", "ping", "run.disconnected"}
    THEN "run.interrupted" ELSE event

Append(r, event) ==
  LET type == Recorded(event)
      row == Ledger!Updated(Ledger!Ensured(r, type, Now), type, Now)
  IN Write(r, [runs EXCEPT ![r] = row])

EventRoute(s) ==
  /\ StreamNext(s)
  /\ IF Emitted(s) = None THEN UNCHANGED <<runs, lost>>
     ELSE Append(target'[s], Emitted(s))

PipelineNext ==
  \/ \E r \in Runs : StartRoute(r) \/ \E k \in Stops : StopRoute(k, r)
  \/ \E s \in Streams : EventRoute(s)

PipelineSpec == PipelineInit /\ [][PipelineNext]_pipelineVars /\ Fairness

-----------------------------------------------------------------------------

RowEnded(r) == runs[r].status \in Ledger!EndStatuses

\* Another stream was opened for the run that s follows.
Shared(s) == \E t \in Streams \ {s} : target[t] = target[s]

\* The values the pipeline's own variables may take.
PipelineTypeOK ==
  /\ runs \in [Runs -> Ledger!Row]
  /\ \A r \in Runs : runs[r].status \in {None, "running"} \cup Ledger!EndStatuses
  /\ lost \subseteq started

\* The ledger calls a run completed only when a CLI of that run has exited
\* with code 0, whatever was stopped, timed out, lost or followed twice.
CompletedMeansExited ==
  \A r \in Runs : runs[r].status = "completed" =>
    \E s \in Streams : target[s] = r /\ proc[s] = "ok"

\* The ledger never calls a run ended while a CLI of it still runs, unless a
\* second stream was opened for the run.
EndedRunsNothing ==
  \A s \in Streams :
    Running(s) /\ RowEnded(target[s]) => Shared(s)

\* A stream that ends with its client still there leaves an ended run in the
\* ledger, unless the run was declared disconnected, a write was lost or
\* another stream of the run has its say: a run whose end was seen does not
\* stay "running" in the history.
EndReported ==
  [][\A s \in Streams :
       (pc[s] # "done" /\ pc'[s] = "done" /\ ~gone[s]) =>
         \/ RowEnded(target[s])
         \/ out[s] = "run.disconnected"
         \/ target[s] \in lost
         \/ Shared(s)]_pipelineVars

\* docs/QA_CHECKLIST.md, of the Stop button: "The `run.cancelled` event stops
\* the stream cleanly": a run whose CLI was told to stop is not recorded as
\* failed when it does.
StoppedIsNotFailed ==
  [][\A s \in Streams :
       (termed[s] /\ pc[s] = "draining" /\ runs[target[s]].status = "running")
       => runs'[target[s]].status # "failed"]_pipelineVars

\* docs/RUN_CENTERED_WORKBENCH.md: "The Run Ledger owns the operational truth
\* of what happened": a run that completed stays completed in the ledger.
CompletedStaysCompleted ==
  [][\A r \in Runs :
       runs[r].status = "completed" => runs'[r].status = "completed"]_pipelineVars
=============================================================================
