----------------------------- MODULE RunLedger -----------------------------
(***************************************************************************)
(* The run ledger (run_ledger_repository.py): the tables runs and          *)
(* run_events of studio.db.  Every operation is one SQLite transaction, it *)
(* commits as a whole or leaves no trace; StudioStorage.connect lets one   *)
(* transaction in at a time.                                               *)
(*                                                                         *)
(* Operations come in any order: several event streams may relay the       *)
(* events of one run, events may arrive before create_run or after the run *)
(* was pruned, and the clock that stamps them may be set back.             *)
(*                                                                         *)
(* Simplifications: of a run the texts, the session, the model and the     *)
(* duration are left out, and of its error all but its presence; of an     *)
(* event the payload and the id (a fresh uuid4, so INSERT OR IGNORE always *)
(* inserts).  "assistant.delta" stands for every event of _RUNNING_EVENTS  *)
(* that has no case of its own, "run.interrupted" for every other event.   *)
(***************************************************************************)
EXTENDS Naturals, FiniteSets

CONSTANTS Runs,       \* run ids, compared as the database compares them
          Times,      \* the times the clock may show
          Retained,   \* _MAX_RUNS_RETAINED
          MaxEvents   \* bound on the rows of run_events

ASSUME RunsAssumption == Runs \subseteq Nat
ASSUME TimesAssumption == Times \subseteq Nat \ {0}
ASSUME RetainedAssumption == Retained \in Nat \ {0}
ASSUME MaxEventsAssumption == MaxEvents \in Nat

None == "none"
Never == 0      \* NULL in completed_at

\* _TERMINAL_STATUS_BY_EVENT
Terminal == {"run.completed", "run.failed", "run.cancelled"}

\* mutant: the event's own spelling
StatusOfSpelling(type) ==
  CASE type = "run.completed" -> "completed"
    [] type = "run.failed"    -> "failed"
    [] type = "run.cancelled" -> "canceled"
    [] OTHER                  -> "running"

StatusOf(type) ==
  CASE type = "run.completed" -> "completed"
    [] type = "run.failed"    -> "failed"
    [] type = "run.cancelled" -> "cancelled"
    [] OTHER                  -> "running"

Types == Terminal \cup {"run.started", "assistant.completed",
                        "assistant.delta", "run.interrupted"}

ErrorOf(type) == IF type = "run.failed" THEN "message" ELSE None

EndStatuses == {"completed", "failed", "cancelled"}

\* What a backend says of a run it has just accepted, after _safe_status.
FirstStatuses == {"queued", "running"}

VARIABLES
  runs,        \* runs[r]: the row of run r
  run_events   \* the rows of run_events

vars == <<runs, run_events>>

NoRow == [status |-> None, started |-> Never, completed |-> Never,
          error |-> None]

Init ==
  /\ runs = [r \in Runs |-> NoRow]
  /\ run_events = {}

-----------------------------------------------------------------------------
(* create_run *)

Present(rows) == {r \in Runs : rows[r].status # None}

\* mutant: ORDER BY started_at, id
BeforeAscending(rows, a, b) ==
  \/ rows[a].started < rows[b].started
  \/ rows[a].started = rows[b].started /\ a < b

\* ORDER BY started_at DESC, id DESC
Before(rows, a, b) ==
  \/ rows[a].started > rows[b].started
  \/ rows[a].started = rows[b].started /\ a > b

\* The rows _prune_old_runs leaves: those with fewer than Retained before them.
Kept(rows) ==
  {r \in Present(rows) :
     Cardinality({q \in Present(rows) : Before(rows, q, r)}) < Retained}

\* The upsert: a row that exists keeps its times and its error.
Created(r, status, now) ==
  LET old == runs[r]
      new == [status |-> status,
              started |-> IF old.status = None THEN now ELSE old.started,
              completed |-> old.completed,
              error |-> old.error]
  IN [runs EXCEPT ![r] = new]

\* mutant: a connection without foreign keys
CreateRunNoCascade(r, status, now) ==
  LET rows == Created(r, status, now)
      kept == Kept(rows) IN
  /\ r \in kept
  /\ runs' = [q \in Runs |-> IF q \in kept THEN rows[q] ELSE NoRow]
  /\ UNCHANGED run_events

\* Upsert, then prune; the events of a pruned run go with it.
CreateRun(r, status, now) ==
  LET rows == Created(r, status, now)
      kept == Kept(rows) IN
  /\ r \in kept
  /\ runs' = [q \in Runs |-> IF q \in kept THEN rows[q] ELSE NoRow]
  /\ run_events' = {e \in run_events : e.run \in kept}

\* The new run is among the pruned ones, because newer runs are on record:
\* _require_run raises and the transaction is rolled back.
CreateRunRefused(r, status, now) ==
  /\ r \notin Kept(Created(r, status, now))
  /\ UNCHANGED vars

-----------------------------------------------------------------------------
(* append_event *)

\* _ensure_run: an unknown run gets a row made from the event itself.
Ensured(r, type, at) ==
  IF runs[r].status # None THEN runs[r]
  ELSE [status |-> StatusOf(type),
        started |-> at,
        completed |-> IF type \in Terminal THEN at ELSE Never,
        error |-> ErrorOf(type)]

\* mutant: the first end keeps its time
UpdatedFirstEnd(row, type, at) ==
  CASE type = "run.started" ->
         [row EXCEPT !.status = "running"]
    [] type \in Terminal ->
         [row EXCEPT !.status = StatusOf(type),
                     !.completed = IF @ = Never THEN at ELSE @,
                     !.error = ErrorOf(type)]
    [] OTHER -> row

\* mutant: an old error is not cleared
UpdatedKeepError(row, type, at) ==
  CASE type \in Terminal ->
         [row EXCEPT !.status = StatusOf(type),
                     !.completed = at,
                     !.error = IF type = "run.failed" THEN "message" ELSE @]
    [] OTHER -> row

\* mutant: any event of a running run makes it running
UpdatedReopens(row, type, at) ==
  CASE type \in Terminal ->
         [row EXCEPT !.status = StatusOf(type), !.completed = at]
    [] type = "assistant.delta" -> [row EXCEPT !.status = "running"]
    [] OTHER -> row

\* _update_run_from_event
Updated(row, type, at) ==
  CASE type = "run.started" ->
         [row EXCEPT !.status = "running"]
    [] type \in Terminal ->
         [status |-> StatusOf(type), started |-> row.started,
          completed |-> at, error |-> ErrorOf(type)]
    [] type = "assistant.delta" /\ row.status = "queued" ->
         [row EXCEPT !.status = "running"]
    [] OTHER -> row

AppendEvent(r, type, at) ==
  /\ Cardinality(run_events) < MaxEvents
  /\ runs' = [runs EXCEPT ![r] = Updated(Ensured(r, type, at), type, at)]
  /\ run_events' = run_events \cup {[run |-> r, type |-> type, at |-> at]}

-----------------------------------------------------------------------------

Next ==
  \E r \in Runs, at \in Times :
    \/ \E status \in FirstStatuses : CreateRun(r, status, at)
    \/ \E status \in FirstStatuses : CreateRunRefused(r, status, at)
    \/ \E type \in Types : AppendEvent(r, type, at)

Spec == Init /\ [][Next]_vars

-----------------------------------------------------------------------------

Row == [status : {None} \cup FirstStatuses \cup EndStatuses,
        started : Times \cup {Never},
        completed : Times \cup {Never},
        error : {None, "message"}]

Event == [run : Runs, type : Types, at : Times]

\* The values each variable may take.
TypeOK ==
  /\ runs \in [Runs -> Row]
  /\ run_events \subseteq Event

\* No event outlives its run, however pruning, late events and the rows that
\* late events bring back alternate.
EventsHaveRun == \A e \in run_events : runs[e.run].status # None

\* A run that is shown as ended was ended by an event on record, at the time
\* the row shows: the two tables tell one story.
EndIsRecorded ==
  \A r \in Runs : runs[r].status \in EndStatuses =>
    \E e \in run_events : /\ e.run = r
                          /\ StatusOf(e.type) = runs[r].status
                          /\ e.at = runs[r].completed

\* An error is shown only for a run with a failure on record, and never for
\* one that is shown as completed or cancelled, even if it had failed before.
ErrorIsRecorded ==
  \A r \in Runs : runs[r].error # None =>
    /\ runs[r].status \notin {"completed", "cancelled"}
    /\ \E e \in run_events : e.run = r /\ e.type = "run.failed"

\* A run leaves the ledger only when the limit is reached, and every run that
\* remains is newer: a clock that went back never evicts a newer run.
PruneDropsOldest ==
  [][\A r \in Present(runs) \ Present(runs') :
       /\ Cardinality(Present(runs')) = Retained
       /\ \A q \in Present(runs') :
            \/ runs'[q].started > runs[r].started
            \/ runs'[q].started = runs[r].started /\ q > r]_vars

\* Output, warnings and interruptions that arrive after the end of a run
\* change nothing of what the ledger shows of it.
LateEventsDoNotReopen ==
  [][\A e \in run_events' \ run_events :
       e.type \notin Terminal \cup {"run.started"} =>
         \A r \in Runs : runs[r].status \in EndStatuses => runs'[r] = runs[r]]_vars
=============================================================================
