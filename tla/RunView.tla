------------------------------ MODULE RunView ------------------------------
(***************************************************************************)
(* A prompt in the frontend: the run store (runStore.ts), the event stream *)
(* it follows (streamRunEvents of studioClient.ts) and the ledger store    *)
(* that lists the runs (runLedgerStore.ts), with the answers of the        *)
(* adapter on their way.  One step is what runs between two awaits.        *)
(*                                                                         *)
(* Simplifications: the adapter records every event it emits, in the step  *)
(* that emits it.  A row keeps its status and whether it has events; the   *)
(* order of the rows and of their events, which row is selected, the limit *)
(* of fifty and the rows of notes without a run are left out.  Of the      *)
(* messages of the chat only the runs they belong to are kept.  Whether    *)
(* the adapter store says connected may change at any time.  A prompt is   *)
(* named like the run it becomes.                                          *)
(***************************************************************************)
EXTENDS Naturals, Sequences

CONSTANTS Prompts,     \* prompts, numbered as they are sent, and the runs they become
          Stops,       \* requests to stop that may be under way at once
          Types,       \* types of the events the adapter emits
          MaxWire      \* bound on the events of a run under way

ASSUME PromptsAssumption == Prompts \subseteq Nat \ {0}
ASSUME MaxWireAssumption == MaxWire \in Nat

None == "none"
NoRun == 0
NoId == <<"none", NoRun>>

Pending(p) == <<"pending", p>>
Run(p) == <<"run", p>>
PendingIds == {Pending(p) : p \in Prompts}
Ids == PendingIds \cup {Run(p) : p \in Prompts}

EndStatuses == {"completed", "failed", "cancelled"}

\* What a backend says of a run it has accepted.
FirstStatuses == {"queued", "started", "running"}

Statuses == EndStatuses \cup {"queued", "running", "starting"}


normalizeStatus(status) == IF status = "started" THEN "running" ELSE status

\* Events of the stream: the ends of a run, and all the others.
Ends == {"run.completed", "run.failed", "run.cancelled"}
ASSUME TypesAssumption ==
  Types \subseteq Ends \cup {"assistant.delta", "run.interrupted", "ping"}

StatusOf(type) ==
  CASE type = "run.completed" -> "completed"
    [] type = "run.failed"    -> "failed"
    [] OTHER                  -> "cancelled"

Absent == [status |-> None, events |-> "none"]

VARIABLES
  isStreaming,   \* of the run store, like the next two
  activeRunId,
  abortController,  \* the run whose stream it aborts
  inactivityTimer,
  phase,         \* how far the sendPrompt of a prompt is, and its stream
  stopping,      \* the run each stopRun awaits the answer for
  rows,          \* the ledger store: runs
  currentRunId,
  sent, heard,   \* prompts of this chat, runs with text in this chat
  wire,          \* events of a run on their way to its stream
  recorded,      \* the adapter's ledger: status of a run, and whether it has events
  load,          \* a request for the history under way, and its answer
  hasty          \* history: a stop overtook a start or another stop

runVars == <<isStreaming, activeRunId, abortController, inactivityTimer>>
ledgerVars == <<rows, currentRunId>>
serverVars == <<wire, recorded>>
vars == <<runVars, ledgerVars, serverVars, phase, stopping, sent, heard,
          load, hasty>>

Idle == [kind |-> "idle", of |-> NoRun, answer |-> Absent]

Init ==
  /\ isStreaming = FALSE /\ activeRunId = NoRun /\ abortController = NoRun
  /\ inactivityTimer = NoRun
  /\ phase = [p \in Prompts |-> "idle"]
  /\ stopping = [k \in Stops |-> NoRun]
  /\ rows = [id \in Ids |-> Absent] /\ currentRunId = NoId
  /\ sent = {} /\ heard = {}
  /\ wire = [p \in Prompts |-> <<>>]
  /\ recorded = [p \in Prompts |-> Absent]
  /\ load = Idle
  /\ hasty = FALSE

-----------------------------------------------------------------------------
(* The ledger store, as functions of its rows *)

Listed(id) == rows[id].status # None

\* mutant: any event means that the run is running
WithEventRunning(row, type) ==
  [status |-> IF type \in Ends THEN StatusOf(type) ELSE "running",
   events |-> "some"]

\* recordEvent: an unknown run is listed as running; an end sets the status,
\* any other event starts the run.
WithEvent(row, type) ==
  [status |-> IF type \in Ends THEN StatusOf(type)
              ELSE IF row.status \in {None, "starting"} THEN "running"
              ELSE row.status,
   events |-> "some"]

RecordEvent(id, type) == [rows EXCEPT ![id] = WithEvent(@, type)]

\* finishRun, on a list that may just have recorded an event.
Finished(list, id, status) ==
  [list EXCEPT ![id] = IF @.status = None THEN @
                       ELSE [status |-> status, events |-> @.events]]
CurrentAfter(id) == IF currentRunId = id THEN NoId ELSE currentRunId

\* Rows of prompts that are not runs yet go when a prompt or a run begins.
WithoutPending == [id \in Ids |-> IF id \in PendingIds THEN Absent ELSE rows[id]]

Begun(id, status) ==
  [WithoutPending EXCEPT ![id] =
     [status |-> status, events |-> "some"]]

-----------------------------------------------------------------------------
(* The run store *)

Reset ==
  /\ isStreaming' = FALSE /\ activeRunId' = NoRun /\ abortController' = NoRun
  /\ inactivityTimer' = NoRun

\* mutant: the end of the stream only stops the timer
FinalizeTimer == inactivityTimer' = NoRun /\ UNCHANGED <<isStreaming, activeRunId, abortController>>

\* finalizeRun: it resets whatever run is active.
FinalizeRun == Reset

\* sendPrompt up to its first await.
SendPrompt(p) ==
  /\ phase[p] = "idle" /\ \A q \in Prompts : q < p => phase[q] # "idle"
  /\ ~isStreaming
  /\ isStreaming' = TRUE
  /\ rows' = Begun(Pending(p), "starting")
  /\ currentRunId' = Pending(p)
  /\ phase' = [phase EXCEPT ![p] = "posting"]
  /\ UNCHANGED <<serverVars, stopping, load, hasty>>

\* The composer of the chat, while the adapter is there.
HandleSend(p) ==
  /\ SendPrompt(p)
  /\ sent' = sent \cup {p}
  /\ UNCHANGED <<activeRunId, abortController, inactivityTimer, heard>>

\* Without the adapter the chat and the ledger only take a note.
SaveLocally ==
  /\ currentRunId # NoId
  /\ rows' = RecordEvent(currentRunId, "adapter.warning")
  /\ UNCHANGED <<runVars, currentRunId, serverVars, phase, stopping, sent, heard,
                 load, hasty>>

\* The dialog starts a new chat and sends; it is disabled during a run.
NewChatAndSend(p) ==
  /\ SendPrompt(p)
  /\ activeRunId' = NoRun /\ abortController' = NoRun /\ inactivityTimer' = NoRun
  /\ sent' = {p} /\ heard' = {}

\* The adapter accepts the run and records it.
AdapterStarts(p) ==
  /\ phase[p] = "posting"
  /\ phase' = [phase EXCEPT ![p] = "accepted"]
  /\ recorded' = [recorded EXCEPT ![p] = [status |-> "running", events |-> "none"]]
  /\ UNCHANGED <<runVars, ledgerVars, wire, stopping, sent, heard,
                 load, hasty>>

\* startRun was answered.  Line 257 arms the inactivity timer, and the finally
\* of line 265, which belongs to the same step, disarms it.
Started(p, status) ==
  /\ phase[p] = "accepted"
  /\ phase' = [phase EXCEPT ![p] = "open"]
  /\ rows' = Begun(Run(p), normalizeStatus(status))
  /\ currentRunId' = Run(p)
  /\ activeRunId' = p /\ abortController' = p /\ inactivityTimer' = NoRun
  /\ UNCHANGED <<isStreaming, serverVars, stopping, sent, heard, load,
                 hasty>>

\* startRun failed, before the adapter heard of it or on the way back.  The run
\* the ledger calls current is failed; isStreaming stays.
StartFails(p) ==
  /\ phase[p] \in {"posting", "accepted"}
  /\ phase' = [phase EXCEPT ![p] = "over"]
  /\ rows' = IF currentRunId = NoId THEN rows
             ELSE Finished(RecordEvent(currentRunId, "adapter.warning"),
                           currentRunId, "failed")
  /\ currentRunId' = NoId
  /\ inactivityTimer' = NoRun
  /\ heard' = heard \cup {p}
  /\ UNCHANGED <<isStreaming, activeRunId, abortController, serverVars, stopping,
                 sent, load, hasty>>

-----------------------------------------------------------------------------
(* The stream of a run *)

\* An event of the run is recorded and sent; nothing follows an end.
Emit(p, type) ==
  /\ phase[p] = "open"
  /\ recorded[p].status = "running"
  /\ Len(wire[p]) < MaxWire
  /\ recorded' = [recorded EXCEPT ![p] =
       [status |-> IF type \in Ends THEN StatusOf(type) ELSE "running",
        events |-> "some"]]
  /\ wire' = [wire EXCEPT ![p] = Append(@, type)]
  /\ UNCHANGED <<runVars, ledgerVars, phase, stopping, sent, heard, load, hasty>>

\* A run nobody follows may end too.
EndUnseen(p) ==
  /\ phase[p] \in {"accepted", "over"}
  /\ recorded[p].status = "running"
  /\ \E status \in {StatusOf(type) : type \in Types \cap Ends} :
       recorded' = [recorded EXCEPT ![p] = [@ EXCEPT !.status = status]]
  /\ UNCHANGED <<runVars, ledgerVars, wire, phase, stopping, sent, heard,
                 load, hasty>>

\* streamRunEvents handles the next event and the ledger records it.  The run
\* store hears of text and of the three ends only: the client's switch has no
\* case for run.interrupted or for a ping, whose callbacks are never called.
ReadEvent(p) ==
  /\ phase[p] = "open"
  /\ wire[p] # <<>>
  /\ LET type == Head(wire[p])
         list == RecordEvent(Run(p), type)
     IN IF type \in Ends
        THEN /\ rows' = Finished(list, Run(p), StatusOf(type))
             /\ currentRunId' = CurrentAfter(Run(p))
             /\ phase' = [phase EXCEPT ![p] = "over"]
             /\ FinalizeRun
             /\ heard' = IF type = "run.failed" THEN heard \cup {p} ELSE heard
        ELSE /\ rows' = list
             /\ heard' = IF type = "assistant.delta" THEN heard \cup {p} ELSE heard
             /\ UNCHANGED <<currentRunId, phase, runVars>>
  /\ wire' = [wire EXCEPT ![p] = Tail(@)]
  /\ UNCHANGED <<recorded, stopping, sent, load, hasty>>

\* mutant: the end of the stream is taken for the end of the run
StreamEndsWell(p) ==
  /\ phase[p] = "open"
  /\ wire[p] = <<>>
  /\ phase' = [phase EXCEPT ![p] = "over"]
  /\ FinalizeRun
  /\ rows' = Finished(rows, Run(p), "completed")
  /\ UNCHANGED <<currentRunId, serverVars, stopping, sent, heard, load,
                 hasty>>

\* The adapter closes the stream, with or without an end of the run: onDone.
StreamEnds(p) ==
  /\ phase[p] = "open"
  /\ wire[p] = <<>>
  /\ phase' = [phase EXCEPT ![p] = "over"]
  /\ FinalizeRun
  /\ UNCHANGED <<ledgerVars, serverVars, stopping, sent, heard, load,
                 hasty>>

\* The request is refused or the connection breaks: onError.
StreamBreaks(p) ==
  /\ phase[p] = "open"
  /\ phase' = [phase EXCEPT ![p] = "over"]
  /\ wire' = [wire EXCEPT ![p] = <<>>]
  /\ rows' = Finished(RecordEvent(Run(p), "adapter.warning"), Run(p), "failed")
  /\ currentRunId' = CurrentAfter(Run(p))
  /\ heard' = heard \cup {p}
  /\ FinalizeRun
  /\ UNCHANGED <<recorded, stopping, sent, load, hasty>>

-----------------------------------------------------------------------------
(* stopRun *)

Starting == \E p \in Prompts : phase[p] \in {"posting", "accepted"}

\* mutant: the stream goes on
AbortNothing(q) == UNCHANGED <<phase, wire>>

\* The stream the controller stands for gets no further event.
Abort(q) ==
  IF q # NoRun /\ phase[q] = "open"
  THEN phase' = [phase EXCEPT ![q] = "over"] /\ wire' = [wire EXCEPT ![q] = <<>>]
  ELSE UNCHANGED <<phase, wire>>

\* The button is there while isStreaming.  Without an active run there is
\* nothing to ask the adapter for.
StopRun(k) ==
  /\ isStreaming
  /\ stopping[k] = NoRun
  /\ Abort(abortController)
  /\ IF activeRunId # NoRun
     THEN /\ stopping' = [stopping EXCEPT ![k] = activeRunId]
          /\ inactivityTimer' = NoRun
          /\ UNCHANGED <<isStreaming, activeRunId, abortController>>
     ELSE Reset /\ UNCHANGED stopping
  /\ hasty' = (hasty \/ Starting \/ \E j \in Stops : stopping[j] # NoRun)
  /\ UNCHANGED <<ledgerVars, recorded, sent, heard, load>>

\* The adapter answered or not; what the store holds now is reset.
StopReturns(k) ==
  /\ stopping[k] # NoRun
  /\ rows' = Finished(rows, Run(stopping[k]), "cancelled")
  /\ currentRunId' = CurrentAfter(Run(stopping[k]))
  /\ stopping' = [stopping EXCEPT ![k] = NoRun]
  /\ Reset
  /\ UNCHANGED <<serverVars, phase, sent, heard, load, hasty>>

-----------------------------------------------------------------------------
(* The history *)

\* The adapter answers loadRecentRuns, or loadRunLedger of a row without events,
\* from its ledger; the answer is under way.
AnswerHistory ==
  /\ load = Idle
  /\ \/ load' = [kind |-> "recent", of |-> NoRun,
                   answer |-> [p \in Prompts |-> recorded[p].status]]
     \/ \E p \in Prompts :
          /\ Listed(Run(p)) /\ rows[Run(p)].events = "none"
          /\ load' = [kind |-> "run", of |-> p, answer |-> recorded[p]]
  /\ UNCHANGED <<runVars, ledgerVars, serverVars, phase, stopping, sent, heard,
                 hasty>>

Live == {"starting", "running"}

\* mutant: rows the adapter does not know are dropped
MergedRemoteOnly(persisted) ==
  [id \in Ids |->
     IF \E p \in Prompts : id = Run(p) /\ persisted[p] # None
     THEN [status |-> persisted[id[2]], events |-> rows[id].events]
     ELSE Absent]

\* The recorded status replaces the row's, its events stay; of the rows the
\* adapter does not know only live ones stay.
Merged(persisted) ==
  [id \in Ids |->
     IF \E p \in Prompts : id = Run(p) /\ persisted[p] # None
     THEN [status |-> persisted[id[2]], events |-> rows[id].events]
     ELSE IF rows[id].status \in Live THEN rows[id] ELSE Absent]

HistoryArrives ==
  /\ load # Idle
  /\ load' = Idle
  /\ rows' = IF load.kind = "recent" THEN Merged(load.answer)
             ELSE [rows EXCEPT ![Run(load.of)] = load.answer]
  /\ UNCHANGED <<runVars, currentRunId, serverVars, phase, stopping, sent, heard,
                 hasty>>

HistoryFails ==
  /\ load # Idle
  /\ load' = Idle
  /\ UNCHANGED <<runVars, ledgerVars, serverVars, phase, stopping, sent, heard,
                 hasty>>

-----------------------------------------------------------------------------

Next ==
  \/ \E p \in Prompts :
       \/ HandleSend(p) \/ NewChatAndSend(p)
       \/ AdapterStarts(p) \/ \E status \in FirstStatuses : Started(p, status)
       \/ StartFails(p)
       \/ \E type \in Types : Emit(p, type)
       \/ EndUnseen(p)
       \/ ReadEvent(p) \/ StreamEnds(p) \/ StreamBreaks(p)
  \/ SaveLocally
  \/ \E k \in Stops : StopRun(k) \/ StopReturns(k)
  \/ AnswerHistory \/ HistoryArrives \/ HistoryFails

\* Streams end, what arrived is read and requests are answered.  Users owe
\* nothing, and neither does the adapter owe an end of the run.
Fairness ==
  /\ \A p \in Prompts :
       /\ WF_vars(StreamEnds(p))
       /\ WF_vars(ReadEvent(p))
  /\ \A k \in Stops : WF_vars(StopReturns(k))

Spec == Init /\ [][Next]_vars /\ Fairness

-----------------------------------------------------------------------------

Row == [status : Statuses \cup {None},
        events : {"none", "some"}]

\* The values the variables may take.
TypeOK ==
  /\ isStreaming \in BOOLEAN
  /\ {activeRunId, abortController, inactivityTimer} \subseteq Prompts \cup {NoRun}
  /\ phase \in [Prompts -> {"idle", "posting", "accepted", "open", "over"}]
  /\ stopping \in [Stops -> Prompts \cup {NoRun}]
  /\ rows \in [Ids -> Row]
  /\ currentRunId \in Ids \cup {NoId}
  /\ sent \subseteq Prompts /\ heard \subseteq Prompts
  /\ hasty \in BOOLEAN
  /\ recorded \in [Prompts -> Row]
  /\ load.kind \in {"idle", "recent", "run"} /\ load.of \in Prompts \cup {NoRun}

\* The run store knows one run.  A stream that is open is the one it shows, can
\* stop and takes for the reason not to send: there is never a second one, and
\* none the user cannot stop.  A stop before the start was answered, or a second
\* stop before the first was, breaks this, hence hasty.
OpenStreamIsActive ==
  ~hasty => \A p \in Prompts : phase[p] = "open" =>
              isStreaming /\ activeRunId = p /\ abortController = p

\* No text of an older run gets into a chat that was started anew.
TextIsOfThisChat == ~hasty => heard \subseteq sent

\* Whatever history arrives while a run starts or runs, the run the ledger
\* calls current stays listed, or its events would show in no row.  A run
\* accepted as "queued" does not count as live and is the exception.
CurrentStaysListed ==
  [][(currentRunId # NoId /\ Listed(currentRunId)
        /\ rows[currentRunId].status # "queued")
        => currentRunId' = NoId \/ Listed(currentRunId)']_vars

\* The ledger store calls a run completed only when the adapter's ledger does:
\* not when a stream merely ended, was stopped or broke.
CompletedIsRecorded ==
  \A p \in Prompts :
    rows[Run(p)].status = "completed" => recorded[p].status = "completed"

\* Once the ledger store shows the end of a run, no late event, warning or stop
\* brings it back to life; only history that was read before the end, or the
\* belated answer to its start, does.
EndIsKept ==
  [][\A p \in Prompts :
       (rows[Run(p)].status \in EndStatuses /\ phase[p] # "accepted"
        /\ load'.kind = load.kind)
         => rows'[Run(p)].status \in EndStatuses]_vars

\* Once the run on show has ended at the adapter, or was asked to stop, the
\* composer comes back for it, whatever of its events was lost on the way.
ComposerComesBack ==
  \A p \in Prompts :
    (activeRunId = p /\ (recorded[p].status \in EndStatuses
                         \/ \E k \in Stops : stopping[k] = p))
      ~> activeRunId # p

-----------------------------------------------------------------------------

\* The inactivity time-out of sendPrompt: stopRun, then the run is failed.
InactivityFires(p) ==
  /\ inactivityTimer = p
  /\ isStreaming /\ activeRunId = p
  /\ Abort(abortController)
  /\ \E k \in Stops : stopping[k] = NoRun /\ stopping' = [stopping EXCEPT ![k] = p]
  /\ rows' = Finished(rows, Run(p), "failed")
  /\ currentRunId' = CurrentAfter(Run(p))
  /\ heard' = heard \cup {p}
  /\ inactivityTimer' = NoRun
  /\ UNCHANGED <<isStreaming, activeRunId, abortController, recorded, sent,
                 load, hasty>>

\* The client's own duties, whatever the adapter does: its timer fires, what
\* arrived is read, and a request to stop returns.
SpecSilent ==
  /\ Init /\ [][Next \/ \E p \in Prompts : InactivityFires(p)]_vars
  /\ \A p \in Prompts : WF_vars(InactivityFires(p)) /\ WF_vars(ReadEvent(p))
  /\ \A k \in Stops : WF_vars(StopReturns(k))

\* runStore.ts:154: "if no events (including pings) for 60s, treat as
\* disconnected": a stream on which nothing arrives is given up in the end.
SilentStreamIsGivenUp ==
  \A p \in Prompts : (phase[p] = "open" /\ isStreaming) ~> phase[p] # "open"
=============================================================================
