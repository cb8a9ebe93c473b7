---------------------------- MODULE RunViewProofs ----------------------------
(***************************************************************************)
(* The run in view, proved of RunView for any number of prompts, requests  *)
(* to stop and events: the types, the one stream, the text of the chat and *)
(* the completions the ledger store shows.                                 *)
(***************************************************************************)
EXTENDS RunView, TLAPS

Phases == {"idle", "posting", "accepted", "open", "over"}

\* What a request for the history may be answered.
Loads == {Idle}
         \cup [kind : {"recent"}, of : {NoRun},
               answer : [Prompts -> Statuses \cup {None}]]
         \cup [kind : {"run"}, of : Prompts, answer : Row]

\* The type invariant, and the types of what is under way.
Typed ==
  /\ TypeOK
  /\ load \in Loads
  /\ wire \in [Prompts -> Seq(Types)]

LEMMA NamesOfRuns ==
  ASSUME NEW p \in Prompts
  PROVE  /\ Run(p) \in Ids /\ Pending(p) \in Ids /\ Run(p)[2] = p
         /\ \A q \in Prompts : (Run(p) = Run(q)) = (p = q)
         /\ \A q \in Prompts : Run(p) # Pending(q)
         /\ Run(p) \notin PendingIds
         /\ Run(p) # NoId
BY PromptsAssumption DEF Ids, PendingIds, Run, Pending, NoId, NoRun

LEMMA RecordedRow ==
  ASSUME NEW row \in Row, NEW type
  PROVE  WithEvent(row, type) \in Row
BY DEF WithEvent, Row, StatusOf, Statuses, EndStatuses, None

LEMMA FinishedRows ==
  ASSUME NEW list \in [Ids -> Row], NEW id \in Ids, NEW status \in Statuses
  PROVE  Finished(list, id, status) \in [Ids -> Row]
BY DEF Finished, Row

LEMMA BegunRows ==
  ASSUME rows \in [Ids -> Row], NEW id \in Ids, NEW status \in Statuses
  PROVE  Begun(id, status) \in [Ids -> Row]
BY DEF Begun, WithoutPending, Row, Absent, None

LEMMA EventRows ==
  ASSUME rows \in [Ids -> Row], NEW id \in Ids, NEW type
  PROVE  RecordEvent(id, type) \in [Ids -> Row]
BY RecordedRow DEF RecordEvent

LEMMA MergedRows ==
  ASSUME rows \in [Ids -> Row], NEW persisted \in [Prompts -> Statuses \cup {None}]
  PROVE  Merged(persisted) \in [Ids -> Row]
<1>1. ASSUME NEW id \in Ids, NEW p \in Prompts, id = Run(p) PROVE id[2] = p
  BY <1>1, NamesOfRuns
<1>2. QED
  BY <1>1 DEF Merged, Row, Absent, None

LEMMA NormalStatus ==
  ASSUME NEW status \in FirstStatuses
  PROVE  normalizeStatus(status) \in {"queued", "running"}
BY DEF normalizeStatus, FirstStatuses

-----------------------------------------------------------------------------

LEMMA InitTyped == Init => Typed
<1> SUFFICES ASSUME Init PROVE Typed
  OBVIOUS
<1>1. Absent \in Row
  BY DEF Absent, Row, None
<1>2. TypeOK
  BY <1>1 DEF Init, TypeOK, Idle
<1>3. load \in Loads /\ wire \in [Prompts -> Seq(Types)]
  BY DEF Init, Loads
<1>4. QED
  BY <1>2, <1>3 DEF Typed

\* The steps of the run store.
LEMMA PromptTyped ==
  ASSUME Typed, NEW p \in Prompts,
         \/ HandleSend(p) \/ NewChatAndSend(p)
         \/ \E status \in FirstStatuses : Started(p, status)
         \/ StartFails(p) \/ AdapterStarts(p)
  PROVE  Typed'
<1> USE DEF Typed, TypeOK, runVars, ledgerVars, serverVars
<1>1. ASSUME SendPrompt(p) PROVE rows' \in [Ids -> Row] /\ currentRunId' \in Ids
  BY <1>1, BegunRows, NamesOfRuns DEF SendPrompt, Statuses
<1>2. CASE HandleSend(p)
  BY <1>1, <1>2 DEF HandleSend, SendPrompt
<1>3. CASE NewChatAndSend(p)
  BY <1>1, <1>3 DEF NewChatAndSend, SendPrompt
<1>4. ASSUME NEW status \in FirstStatuses, Started(p, status) PROVE Typed'
  <2>1. rows' \in [Ids -> Row] /\ currentRunId' \in Ids
    BY <1>4, BegunRows, NormalStatus, NamesOfRuns DEF Started, Statuses
  <2>2. QED
    BY <1>4, <2>1 DEF Started
<1>5. CASE StartFails(p)
  <2>1. rows' \in [Ids -> Row]
    BY <1>5, EventRows, FinishedRows DEF StartFails, Statuses, EndStatuses
  <2>2. QED
    BY <1>5, <2>1 DEF StartFails
<1>6. CASE AdapterStarts(p)
  BY <1>6 DEF AdapterStarts, Row, Statuses
<1>7. QED
  BY <1>2, <1>3, <1>4, <1>5, <1>6

\* The steps of a stream.
LEMMA StreamTyped ==
  ASSUME Typed, NEW p \in Prompts,
         \/ \E type \in Types : Emit(p, type)
         \/ EndUnseen(p) \/ ReadEvent(p) \/ StreamEnds(p) \/ StreamBreaks(p)
  PROVE  Typed'
<1> USE DEF Typed, TypeOK, runVars, ledgerVars, serverVars
<1>1. ASSUME NEW type \in Types, Emit(p, type) PROVE Typed'
  <2>2. wire' \in [Prompts -> Seq(Types)]
    BY <1>1 DEF Emit
  <2>3. recorded' \in [Prompts -> Row]
    BY <1>1 DEF Emit, Row, StatusOf, Statuses, EndStatuses
  <2>4. QED
    BY <1>1, <2>2, <2>3 DEF Emit
<1>2. CASE EndUnseen(p)
  <2>1. PICK status \in EndStatuses :
          recorded' = [recorded EXCEPT ![p] = [@ EXCEPT !.status = status]]
    BY <1>2 DEF EndUnseen, StatusOf, EndStatuses
  <2>2. [recorded[p] EXCEPT !.status = status] \in Row
    BY DEF Row, Statuses
  <2>3. recorded' \in [Prompts -> Row]
    BY <2>1, <2>2
  <2>4. QED
    BY <1>2, <2>3 DEF EndUnseen
<1>3. CASE ReadEvent(p)
  <2> DEFINE type == Head(wire[p])
             list == RecordEvent(Run(p), type)
  <2>1. list \in [Ids -> Row] /\ Run(p) \in Ids
    BY EventRows, NamesOfRuns
  <2>2. StatusOf(type) \in Statuses
    BY DEF StatusOf, Statuses, EndStatuses
  <2>3. Finished(list, Run(p), StatusOf(type)) \in [Ids -> Row]
    BY <2>1, <2>2, FinishedRows
  <2>4. rows' \in [Ids -> Row] /\ currentRunId' \in Ids \cup {NoId}
    BY <1>3, <2>1, <2>3 DEF ReadEvent, CurrentAfter
  <2>5. wire' \in [Prompts -> Seq(Types)]
    BY <1>3 DEF ReadEvent
  <2>6. QED
    BY <1>3, <2>4, <2>5 DEF ReadEvent, FinalizeRun, Reset
<1>4. CASE StreamEnds(p)
  BY <1>4 DEF StreamEnds, FinalizeRun, Reset
<1>5. CASE StreamBreaks(p)
  <2>1. rows' \in [Ids -> Row] /\ currentRunId' \in Ids \cup {NoId}
    BY <1>5, EventRows, FinishedRows, NamesOfRuns
    DEF StreamBreaks, CurrentAfter, Statuses, EndStatuses
  <2>2. wire' \in [Prompts -> Seq(Types)]
    BY <1>5 DEF StreamBreaks
  <2>3. QED
    BY <1>5, <2>1, <2>2 DEF StreamBreaks, FinalizeRun, Reset
<1>6. QED
  BY <1>1, <1>2, <1>3, <1>4, <1>5

\* Notes, stops and the history.
LEMMA OtherTyped ==
  ASSUME Typed,
         \/ SaveLocally \/ \E k \in Stops : StopRun(k) \/ StopReturns(k)
         \/ AnswerHistory \/ HistoryArrives \/ HistoryFails
  PROVE  Typed'
<1> USE DEF Typed, TypeOK, runVars, ledgerVars, serverVars
<1>1. CASE SaveLocally
  BY <1>1, EventRows DEF SaveLocally
<1>2. ASSUME NEW k \in Stops, StopRun(k) PROVE Typed'
  <2>1. /\ phase' \in [Prompts -> Phases]
        /\ wire' \in [Prompts -> Seq(Types)]
    <3>1. CASE abortController # NoRun /\ phase[abortController] = "open"
      <4>1. /\ phase' = [phase EXCEPT ![abortController] = "over"]
            /\ wire' = [wire EXCEPT ![abortController] = <<>>]
        BY <1>2, <3>1 DEF StopRun, Abort
      <4>2. <<>> \in Seq(Types)
        OBVIOUS
      <4>3. QED
        BY <4>1, <4>2 DEF Phases
    <3>2. CASE ~(abortController # NoRun /\ phase[abortController] = "open")
      BY <1>2, <3>2 DEF StopRun, Abort, Phases
    <3>3. QED
      BY <3>1, <3>2
  <2>2. hasty' \in BOOLEAN
    BY <1>2 DEF StopRun
  <2>3. QED
    BY <1>2, <2>1, <2>2 DEF StopRun, Reset, Phases
<1>3. ASSUME NEW k \in Stops, StopReturns(k) PROVE Typed'
  <2>1. stopping[k] \in Prompts
    BY <1>3 DEF StopReturns
  <2>2. rows' \in [Ids -> Row] /\ currentRunId' \in Ids \cup {NoId}
    BY <1>3, <2>1, FinishedRows, NamesOfRuns
    DEF StopReturns, CurrentAfter, Statuses, EndStatuses
  <2>3. QED
    BY <1>3, <2>2 DEF StopReturns, Reset
<1>4. CASE AnswerHistory
  <2>1. [p \in Prompts |-> recorded[p].status] \in [Prompts -> Statuses \cup {None}]
    BY DEF Row
  <2>2. load' \in Loads
    BY <1>4, <2>1 DEF AnswerHistory, Loads, Row
  <2>3. load'.kind \in {"idle", "recent", "run"} /\ load'.of \in Prompts \cup {NoRun}
    BY <1>4 DEF AnswerHistory
  <2>4. QED
    BY <1>4, <2>2, <2>3 DEF AnswerHistory
<1>5. CASE HistoryArrives
  <2>1. rows' \in [Ids -> Row]
    <3>1. CASE load.kind = "recent"
      <4>1. load.answer \in [Prompts -> Statuses \cup {None}]
        BY <1>5, <3>1 DEF Loads, Idle
      <4>2. rows' = Merged(load.answer)
        BY <1>5, <3>1 DEF HistoryArrives
      <4>3. QED
        BY <4>1, <4>2, MergedRows
    <3>2. CASE load.kind # "recent"
      <4>1. load.answer \in Row /\ load.of \in Prompts
        BY <1>5, <3>2 DEF Loads, HistoryArrives
      <4>2. QED
        BY <1>5, <3>2, <4>1, NamesOfRuns DEF HistoryArrives
    <3>3. QED
      BY <3>1, <3>2
  <2>2. QED
    BY <1>5, <2>1 DEF HistoryArrives, Loads, Idle
<1>6. CASE HistoryFails
  BY <1>6 DEF HistoryFails, Loads, Idle
<1>7. QED
  BY <1>1, <1>2, <1>3, <1>4, <1>5, <1>6

LEMMA NextTyped == Typed /\ [Next]_vars => Typed'
<1> SUFFICES ASSUME Typed, [Next]_vars PROVE Typed'
  OBVIOUS
<1>1. CASE UNCHANGED vars
  BY <1>1 DEF vars, runVars, ledgerVars, serverVars, Typed, TypeOK
<1>2. CASE Next
  BY <1>2, PromptTyped, StreamTyped, OtherTyped DEF Next
<1>3. QED
  BY <1>1, <1>2

\* Whatever is sent, streamed, stopped and answered, each variable keeps its
\* values: no run has a status that the ledger does not know.
THEOREM RunViewTyped == Spec => []TypeOK
<1>1. Typed => TypeOK
  BY DEF Typed
<1>2. QED
  BY <1>1, InitTyped, NextTyped, PTL DEF Spec

-----------------------------------------------------------------------------
(* The one stream *)

Starts(p) == phase[p] \in {"posting", "accepted"}
Lives(p) == Starts(p) \/ phase[p] = "open"

\* What a prompt under way says of the run store, as long as no stop was hasty.
ShownAlone(p) ==
  /\ Lives(p) => /\ isStreaming /\ p \in sent
                 /\ \A k \in Stops : stopping[k] = NoRun
                 /\ \A q \in Prompts : Lives(q) => q = p
  /\ Starts(p) => activeRunId = NoRun /\ abortController = NoRun
  /\ phase[p] = "open" => activeRunId = p /\ abortController = p

StopsAlone(k) ==
  stopping[k] # NoRun =>
    isStreaming /\ \A j \in Stops : stopping[j] # NoRun => j = k

\* The store knows one run: the inductive invariant.
OneRun ==
  /\ ~isStreaming => activeRunId = NoRun /\ abortController = NoRun
  /\ \A p \in Prompts : ShownAlone(p)
  /\ \A k \in Stops : StopsAlone(k)
  /\ heard \subseteq sent

Solo == ~hasty => OneRun

LEMMA InitSolo == Init => Solo
BY DEF Init, Solo, OneRun, ShownAlone, StopsAlone, Lives, Starts

\* A prompt is sent only when nothing is under way.
LEMMA PromptSolo ==
  ASSUME Typed, Solo, NEW p \in Prompts,
         \/ HandleSend(p) \/ NewChatAndSend(p)
         \/ \E status \in FirstStatuses : Started(p, status)
         \/ StartFails(p) \/ AdapterStarts(p)
  PROVE  Solo'
<1> SUFFICES ASSUME ~hasty' PROVE OneRun'
  BY DEF Solo
<1>0. ~hasty => OneRun
  BY DEF Solo
<1> USE DEF Typed, TypeOK, runVars, ledgerVars, serverVars, ShownAlone, StopsAlone,
            Lives, Starts, OneRun
<1>1. CASE HandleSend(p)
  BY <1>0, <1>1 DEF HandleSend, SendPrompt
<1>2. CASE NewChatAndSend(p)
  BY <1>0, <1>2 DEF NewChatAndSend, SendPrompt
<1>3. ASSUME NEW status \in FirstStatuses, Started(p, status) PROVE OneRun'
  BY <1>0, <1>3 DEF Started
<1>4. CASE StartFails(p)
  BY <1>0, <1>4 DEF StartFails
<1>5. CASE AdapterStarts(p)
  BY <1>0, <1>5 DEF AdapterStarts
<1>6. QED
  BY <1>1, <1>2, <1>3, <1>4, <1>5

\* A stream that ends or breaks is the one on show.
LEMMA StreamSolo ==
  ASSUME Typed, Solo, NEW p \in Prompts,
         \/ \E type \in Types : Emit(p, type)
         \/ EndUnseen(p) \/ ReadEvent(p) \/ StreamEnds(p) \/ StreamBreaks(p)
  PROVE  Solo'
<1> SUFFICES ASSUME ~hasty' PROVE OneRun'
  BY DEF Solo
<1>0. ~hasty => OneRun
  BY DEF Solo
<1> USE DEF Typed, TypeOK, runVars, ledgerVars, serverVars, ShownAlone, StopsAlone,
            Lives, Starts, OneRun
<1>1. ASSUME NEW type \in Types, Emit(p, type) PROVE OneRun'
  BY <1>0, <1>1 DEF Emit
<1>2. CASE EndUnseen(p)
  BY <1>0, <1>2 DEF EndUnseen
<1>3. CASE ReadEvent(p)
  <2>1. CASE Head(wire[p]) \in Ends
    <3>1. /\ phase[p] = "open" /\ phase' = [phase EXCEPT ![p] = "over"]
          /\ isStreaming' = FALSE /\ activeRunId' = NoRun /\ abortController' = NoRun
          /\ heard' \subseteq heard \cup {p}
          /\ UNCHANGED <<stopping, sent, hasty>>
      BY <1>3, <2>1 DEF ReadEvent, FinalizeRun, Reset
    <3>2. \A q \in Prompts : ~Lives(q)'
      BY <1>0, <3>1
    <3>3. QED
      BY <1>0, <3>1, <3>2
  <2>2. CASE Head(wire[p]) \notin Ends
    BY <1>0, <1>3, <2>2 DEF ReadEvent
  <2>3. QED
    BY <2>1, <2>2
<1>4. CASE StreamEnds(p)
  BY <1>0, <1>4 DEF StreamEnds, FinalizeRun, Reset
<1>5. CASE StreamBreaks(p)
  BY <1>0, <1>5 DEF StreamBreaks, FinalizeRun, Reset
<1>6. QED
  BY <1>1, <1>2, <1>3, <1>4, <1>5

\* A stop that is not hasty ends the stream on show, and its answer resets
\* nothing that came after it.
LEMMA OtherSolo ==
  ASSUME Typed, Solo,
         \/ SaveLocally \/ \E k \in Stops : StopRun(k) \/ StopReturns(k)
         \/ AnswerHistory \/ HistoryArrives \/ HistoryFails
  PROVE  Solo'
<1> SUFFICES ASSUME ~hasty' PROVE OneRun'
  BY DEF Solo
<1>0. ~hasty => OneRun
  BY DEF Solo
<1> USE DEF Typed, TypeOK, runVars, ledgerVars, serverVars, ShownAlone, StopsAlone,
            Lives, Starts, OneRun
<1>1. CASE SaveLocally
  BY <1>0, <1>1 DEF SaveLocally
<1>2. ASSUME NEW k \in Stops, StopRun(k) PROVE OneRun'
  <2>1. /\ ~hasty /\ isStreaming
        /\ \A p \in Prompts : ~Starts(p)
        /\ \A j \in Stops : stopping[j] = NoRun
    BY <1>2 DEF StopRun, Starting
  <2>2. \A p \in Prompts : ~Lives(p)'
    <3>1. CASE abortController # NoRun /\ phase[abortController] = "open"
      BY <1>0, <1>2, <2>1, <3>1 DEF StopRun, Abort
    <3>2. CASE ~(abortController # NoRun /\ phase[abortController] = "open")
      BY <1>0, <1>2, <2>1, <3>2, PromptsAssumption DEF StopRun, Abort, NoRun
    <3>3. QED
      BY <3>1, <3>2
  <2>3. CASE activeRunId # NoRun
    <3>1. /\ stopping' = [stopping EXCEPT ![k] = activeRunId]
          /\ UNCHANGED <<isStreaming, activeRunId, abortController, sent, heard>>
      BY <1>2, <2>3 DEF StopRun
    <3>2. \A j \in Stops : StopsAlone(j)'
      BY <2>1, <3>1
    <3>3. QED
      BY <1>0, <2>1, <2>2, <3>1, <3>2
  <2>4. CASE activeRunId = NoRun
    <3>1. /\ isStreaming' = FALSE /\ activeRunId' = NoRun /\ abortController' = NoRun
          /\ UNCHANGED <<stopping, sent, heard>>
      BY <1>2, <2>4 DEF StopRun, Reset
    <3>2. QED
      BY <1>0, <2>1, <2>2, <3>1
  <2>5. QED
    BY <2>3, <2>4
<1>3. ASSUME NEW k \in Stops, StopReturns(k) PROVE OneRun'
  BY <1>0, <1>3 DEF StopReturns, Reset
<1>4. CASE AnswerHistory
  BY <1>0, <1>4 DEF AnswerHistory
<1>5. CASE HistoryArrives
  BY <1>0, <1>5 DEF HistoryArrives
<1>6. CASE HistoryFails
  BY <1>0, <1>6 DEF HistoryFails
<1>7. QED
  BY <1>1, <1>2, <1>3, <1>4, <1>5, <1>6

LEMMA NextSolo == Typed /\ Solo /\ [Next]_vars => Solo'
<1> SUFFICES ASSUME Typed, Solo, [Next]_vars PROVE Solo'
  OBVIOUS
<1>1. CASE UNCHANGED vars
  BY <1>1 DEF vars, runVars, ledgerVars, serverVars, Solo, OneRun, ShownAlone,
     StopsAlone, Lives, Starts
<1>2. CASE Next
  BY <1>2, PromptSolo, StreamSolo, OtherSolo DEF Next
<1>3. QED
  BY <1>1, <1>2

\* Without a hasty stop, a stream that is open is the one on show, the one a
\* stop ends and the reason no other is sent.
THEOREM OneStream == Spec => []OpenStreamIsActive
<1>1. Solo => OpenStreamIsActive
  BY DEF Solo, OneRun, ShownAlone, Lives, OpenStreamIsActive
<1>2. QED
  BY <1>1, InitTyped, NextTyped, InitSolo, NextSolo, PTL DEF Spec

\* Without a hasty stop, no text of an older run gets into a new chat.
THEOREM NoStrangeText == Spec => []TextIsOfThisChat
<1>1. Solo => TextIsOfThisChat
  BY DEF Solo, OneRun, TextIsOfThisChat
<1>2. QED
  BY <1>1, InitTyped, NextTyped, InitSolo, NextSolo, PTL DEF Spec

-----------------------------------------------------------------------------
(* What the ledger store calls completed *)

IsRecorded(p) == recorded[p].status = "completed"

RowTrue(p) == rows[Run(p)].status = "completed" => IsRecorded(p)
WireTrue(p) == \A n \in DOMAIN wire[p] : wire[p][n] = "run.completed" => IsRecorded(p)
LoadTrue(p) ==
  /\ load.kind = "recent" /\ load.answer[p] = "completed" => IsRecorded(p)
  /\ load.kind = "run" /\ load.of = p /\ load.answer.status = "completed" => IsRecorded(p)
NotYet(p) == phase[p] \in {"idle", "posting"} => ~IsRecorded(p)

\* The rows, the events and the answers under way say completed of a run that is.
SaysTrue == \A p \in Prompts : RowTrue(p) /\ WireTrue(p) /\ LoadTrue(p) /\ NotYet(p)

LEMMA InitSaysTrue == Init => SaysTrue
<1> SUFFICES ASSUME Init, NEW p \in Prompts
             PROVE  RowTrue(p) /\ WireTrue(p) /\ LoadTrue(p) /\ NotYet(p)
  BY DEF SaysTrue
<1>1. rows[Run(p)] = Absent /\ recorded[p] = Absent /\ Absent.status = "none"
  BY NamesOfRuns DEF Init, Absent, None
<1>2. QED
  BY <1>1 DEF Init, Idle, RowTrue, WireTrue, LoadTrue, NotYet, IsRecorded

\* A row that an event or an end of another kind changes does not become
\* completed by it.
LEMMA EventStatus ==
  ASSUME NEW row \in Row, NEW type
  PROVE  WithEvent(row, type).status = "completed" =>
           type = "run.completed" \/ row.status = "completed"
BY DEF WithEvent, StatusOf, Ends, Row

LEMMA EventRow ==
  ASSUME rows \in [Ids -> Row], NEW id, NEW p \in Prompts, NEW type
  PROVE  RecordEvent(id, type)[Run(p)].status = "completed" =>
           \/ rows[Run(p)].status = "completed"
           \/ id = Run(p) /\ type = "run.completed"
BY EventStatus, NamesOfRuns DEF RecordEvent

LEMMA FinishedRow ==
  ASSUME NEW list \in [Ids -> Row], NEW id \in Ids, NEW p \in Prompts,
         NEW status \in Statuses,
         Finished(list, id, status)[Run(p)].status = "completed"
  PROVE  \/ list[Run(p)].status = "completed"
         \/ id = Run(p) /\ status = "completed"
BY NamesOfRuns DEF Finished

LEMMA BegunRow ==
  ASSUME rows \in [Ids -> Row], NEW id \in Ids, NEW p \in Prompts, NEW status,
         status # "completed"
  PROVE  Begun(id, status)[Run(p)].status = "completed" => rows[Run(p)].status = "completed"
BY NamesOfRuns DEF Begun, WithoutPending

LEMMA MergedRow ==
  ASSUME rows \in [Ids -> Row], NEW p \in Prompts,
         NEW persisted \in [Prompts -> Statuses \cup {None}]
  PROVE  Merged(persisted)[Run(p)].status = "completed" => persisted[p] = "completed"
<1>1. Run(p) \in Ids /\ Run(p)[2] = p /\ \A q \in Prompts : Run(p) = Run(q) => q = p
  BY NamesOfRuns
<1>2. CASE persisted[p] # None
  BY <1>1, <1>2 DEF Merged
<1>3. CASE persisted[p] = None
  BY <1>1, <1>3 DEF Merged, Live, Absent, None
<1>4. QED
  BY <1>2, <1>3

\* What is recorded completed stays so, and what is under way is not touched.
LEMMA QuietStep ==
  ASSUME Typed, SaysTrue,
         UNCHANGED <<wire, recorded, load>>,
         \A p \in Prompts : phase'[p] \in {"idle", "posting"} => phase[p] \in {"idle", "posting"},
         \A p \in Prompts : rows'[Run(p)].status = "completed" => IsRecorded(p)
  PROVE  SaysTrue'
BY DEF SaysTrue, RowTrue, WireTrue, LoadTrue, NotYet, IsRecorded

LEMMA PromptSaysTrue ==
  ASSUME Typed, SaysTrue, NEW p \in Prompts,
         \/ HandleSend(p) \/ NewChatAndSend(p)
         \/ \E status \in FirstStatuses : Started(p, status)
         \/ StartFails(p)
  PROVE  SaysTrue'
<1> USE DEF Typed, TypeOK
<1>0. \A q \in Prompts : RowTrue(q)
  BY DEF SaysTrue
<1>1. ASSUME SendPrompt(p), UNCHANGED load PROVE SaysTrue'
  <2>1. \A q \in Prompts : rows'[Run(q)].status = "completed" => IsRecorded(q)
    BY <1>0, <1>1, BegunRow, NamesOfRuns DEF SendPrompt, RowTrue
  <2>2. UNCHANGED <<wire, recorded>> /\ phase[p] = "idle"
        /\ phase' = [phase EXCEPT ![p] = "posting"]
    BY <1>1 DEF SendPrompt, serverVars
  <2>3. QED
    BY <1>1, <2>1, <2>2, QuietStep
<1>2. CASE HandleSend(p)
  BY <1>1, <1>2 DEF HandleSend, SendPrompt
<1>3. CASE NewChatAndSend(p)
  BY <1>1, <1>3 DEF NewChatAndSend, SendPrompt
<1>4. ASSUME NEW status \in FirstStatuses, Started(p, status) PROVE SaysTrue'
  <2>1. \A q \in Prompts : rows'[Run(q)].status = "completed" => IsRecorded(q)
    <3>1. rows' = Begun(Run(p), normalizeStatus(status)) /\ Run(p) \in Ids
      BY <1>4, NamesOfRuns DEF Started
    <3>2. normalizeStatus(status) # "completed"
      BY NormalStatus
    <3>3. QED
      BY <1>0, <3>1, <3>2, BegunRow DEF RowTrue
  <2>2. UNCHANGED <<wire, recorded, load>> /\ phase' = [phase EXCEPT ![p] = "open"]
    BY <1>4 DEF Started, serverVars
  <2>3. QED
    BY <2>1, <2>2, QuietStep
<1>5. CASE StartFails(p)
  <2>1. \A q \in Prompts : rows'[Run(q)].status = "completed" => IsRecorded(q)
    <3> SUFFICES ASSUME NEW q \in Prompts, rows'[Run(q)].status = "completed" PROVE IsRecorded(q)
      OBVIOUS
    <3>1. CASE currentRunId = NoId
      BY <1>0, <1>5, <3>1 DEF StartFails, RowTrue
    <3>2. CASE currentRunId # NoId
      <4> DEFINE list == RecordEvent(currentRunId, "adapter.warning")
      <4>1. rows' = Finished(list, currentRunId, "failed") /\ currentRunId \in Ids
        BY <1>5, <3>2 DEF StartFails
      <4>2. list \in [Ids -> Row]
        BY <4>1, EventRows
      <4> HIDE DEF list
      <4>3. "failed" \in Statuses
        BY DEF Statuses, EndStatuses
      <4>4. list[Run(q)].status = "completed"
        BY <4>1, <4>2, <4>3, FinishedRow
      <4>5. rows[Run(q)].status = "completed"
        BY <4>4, EventRow DEF list
      <4>6. QED
        BY <1>0, <4>5 DEF RowTrue
    <3>3. QED
      BY <3>1, <3>2
  <2>2. UNCHANGED <<wire, recorded, load>> /\ phase' = [phase EXCEPT ![p] = "over"]
    BY <1>5 DEF StartFails, serverVars
  <2>3. QED
    BY <2>1, <2>2, QuietStep
<1>6. QED
  BY <1>2, <1>3, <1>4, <1>5

\* The steps that change what is recorded or on the wire.
LEMMA StreamSaysTrue ==
  ASSUME Typed, SaysTrue, NEW p \in Prompts,
         \/ AdapterStarts(p)
         \/ \E type \in Types : Emit(p, type)
         \/ EndUnseen(p) \/ ReadEvent(p) \/ StreamEnds(p) \/ StreamBreaks(p)
  PROVE  SaysTrue'
<1> USE DEF Typed, TypeOK
<1>0. \A q \in Prompts : RowTrue(q) /\ WireTrue(q) /\ LoadTrue(q) /\ NotYet(q)
  BY DEF SaysTrue
<1>1. CASE AdapterStarts(p)
  <2>1. ~IsRecorded(p)
    BY <1>0, <1>1 DEF AdapterStarts, NotYet
  <2>2. \A q \in Prompts : IsRecorded(q) => IsRecorded(q)'
    BY <1>1, <2>1 DEF AdapterStarts, IsRecorded
  <2>3. \A q \in Prompts : NotYet(q)'
    BY <1>0, <1>1 DEF AdapterStarts, NotYet, IsRecorded
  <2>4. UNCHANGED <<rows, wire, load>>
    BY <1>1 DEF AdapterStarts, ledgerVars
  <2>5. QED
    BY <1>0, <2>2, <2>3, <2>4 DEF SaysTrue, RowTrue, WireTrue, LoadTrue
<1>2. ASSUME NEW type \in Types, Emit(p, type) PROVE SaysTrue'
  <2>1. /\ ~IsRecorded(p) /\ phase[p] = "open" /\ UNCHANGED <<rows, load, phase>>
        /\ wire' = [wire EXCEPT ![p] = Append(@, type)]
        /\ recorded' = [recorded EXCEPT ![p] =
             [status |-> IF type \in Ends THEN StatusOf(type) ELSE "running",
              events |-> "some"]]
    BY <1>2 DEF Emit, IsRecorded, ledgerVars
  <2>2. \A q \in Prompts : IsRecorded(q) => IsRecorded(q)'
    BY <2>1 DEF IsRecorded
  <2>3. type = "run.completed" => IsRecorded(p)'
    BY <2>1 DEF IsRecorded, Ends, StatusOf
  <2>4. WireTrue(p)'
    <3>1. wire[p] \in Seq(Types) /\ wire'[p] = Append(wire[p], type)
      BY <2>1
    <3>2. ASSUME NEW n \in DOMAIN wire'[p]
          PROVE  \/ n \in DOMAIN wire[p] /\ wire'[p][n] = wire[p][n]
                 \/ wire'[p][n] = type
      BY <3>1
    <3>3. QED
      BY <1>0, <2>2, <2>3, <3>2 DEF WireTrue
  <2>5. \A q \in Prompts : WireTrue(q)'
    BY <1>0, <2>1, <2>2, <2>4 DEF WireTrue
  <2>6. \A q \in Prompts : RowTrue(q)' /\ LoadTrue(q)'
    BY <1>0, <2>1, <2>2 DEF RowTrue, LoadTrue
  <2>7. \A q \in Prompts : NotYet(q)'
    BY <1>0, <2>1 DEF NotYet, IsRecorded
  <2>8. QED
    BY <2>5, <2>6, <2>7 DEF SaysTrue
<1>3. CASE EndUnseen(p)
  <2>1. /\ ~IsRecorded(p) /\ phase[p] \in {"accepted", "over"}
        /\ UNCHANGED <<rows, load, phase, wire>>
        /\ \A q \in Prompts : q # p => recorded'[q] = recorded[q]
    BY <1>3 DEF EndUnseen, IsRecorded, ledgerVars
  <2>2. QED
    BY <1>0, <2>1 DEF SaysTrue, RowTrue, WireTrue, LoadTrue, NotYet, IsRecorded
<1>4. CASE ReadEvent(p)
  <2> DEFINE type == Head(wire[p])
             list == RecordEvent(Run(p), type)
  <2>1. wire[p] \in Seq(Types) /\ wire[p] # <<>>
    BY <1>4 DEF ReadEvent
  <2>2. type = "run.completed" => IsRecorded(p)
    <3>1. 1 \in DOMAIN wire[p] /\ type = wire[p][1]
      BY <2>1
    <3>2. QED
      BY <1>0, <3>1 DEF WireTrue
  <2>3. /\ rows' \in {list, Finished(list, Run(p), StatusOf(type))}
        /\ rows' # list => type \in Ends
        /\ wire' = [wire EXCEPT ![p] = Tail(wire[p])]
        /\ \A q \in Prompts : phase'[q] \in {phase[q], "over"}
        /\ UNCHANGED <<recorded, load>>
    BY <1>4 DEF ReadEvent
  <2>4. list \in [Ids -> Row]
    BY EventRows, NamesOfRuns
  <2>5. \A q \in Prompts : list[Run(q)].status = "completed" => IsRecorded(q)
    BY <1>0, <2>2, EventRow, NamesOfRuns DEF RowTrue
  <2>6. type \in Ends /\ StatusOf(type) = "completed" => type = "run.completed"
    BY DEF Ends, StatusOf
  <2> HIDE DEF list, type
  <2>7. \A q \in Prompts : rows'[Run(q)].status = "completed" => IsRecorded(q)
    <3> SUFFICES ASSUME NEW q \in Prompts, rows'[Run(q)].status = "completed"
                 PROVE  IsRecorded(q)
      OBVIOUS
    <3>1. CASE rows' = list
      BY <2>5, <3>1
    <3>2. CASE rows' # list
      <4>1. rows' = Finished(list, Run(p), StatusOf(type)) /\ type \in Ends
        BY <2>3, <3>2
      <4>2. StatusOf(type) \in Statuses /\ Run(p) \in Ids
        BY NamesOfRuns DEF StatusOf, Statuses, EndStatuses
      <4>3. \/ list[Run(q)].status = "completed"
            \/ Run(p) = Run(q) /\ StatusOf(type) = "completed"
        BY <2>4, <4>1, <4>2, FinishedRow
      <4>4. QED
        BY <2>2, <2>5, <2>6, <4>1, <4>3, NamesOfRuns
    <3>3. QED
      BY <3>1, <3>2
  <2>8. WireTrue(p)'
    <3>1. wire'[p] = Tail(wire[p])
      BY <2>3
    <3>2. ASSUME NEW n \in DOMAIN wire'[p]
          PROVE  n + 1 \in DOMAIN wire[p] /\ wire'[p][n] = wire[p][n + 1]
      BY <2>1, <3>1
    <3>3. QED
      BY <1>0, <2>3, <3>2 DEF WireTrue, IsRecorded
  <2>9. QED
    BY <1>0, <2>3, <2>7, <2>8 DEF SaysTrue, RowTrue, WireTrue, LoadTrue, NotYet, IsRecorded
<1>5. CASE StreamEnds(p)
  <2>1. UNCHANGED <<wire, recorded, load, rows>> /\ phase' = [phase EXCEPT ![p] = "over"]
    BY <1>5 DEF StreamEnds, serverVars, ledgerVars
  <2>2. QED
    BY <1>0, <2>1, QuietStep DEF RowTrue
<1>6. CASE StreamBreaks(p)
  <2> DEFINE list == RecordEvent(Run(p), "adapter.warning")
  <2>1. /\ rows' = Finished(list, Run(p), "failed")
        /\ wire' = [wire EXCEPT ![p] = <<>>] /\ phase' = [phase EXCEPT ![p] = "over"]
        /\ UNCHANGED <<recorded, load>>
    BY <1>6 DEF StreamBreaks
  <2>2. list \in [Ids -> Row]
    BY EventRows, NamesOfRuns
  <2>3. \A q \in Prompts : list[Run(q)].status = "completed" => IsRecorded(q)
    BY <1>0, EventRow DEF RowTrue
  <2> HIDE DEF list
  <2>4. \A q \in Prompts : rows'[Run(q)].status = "completed" => IsRecorded(q)
    <3> SUFFICES ASSUME NEW q \in Prompts, rows'[Run(q)].status = "completed"
                 PROVE  IsRecorded(q)
      OBVIOUS
    <3>1. "failed" \in Statuses /\ Run(p) \in Ids
      BY NamesOfRuns DEF Statuses, EndStatuses
    <3>2. list[Run(q)].status = "completed"
      BY <2>1, <2>2, <3>1, FinishedRow
    <3>3. QED
      BY <2>3, <3>2
  <2>5. \A q \in Prompts : WireTrue(q)'
    BY <1>0, <2>1 DEF WireTrue, IsRecorded
  <2>6. QED
    BY <1>0, <2>1, <2>4, <2>5 DEF SaysTrue, RowTrue, LoadTrue, NotYet, IsRecorded
<1>7. QED
  BY <1>1, <1>2, <1>3, <1>4, <1>5, <1>6

LEMMA OtherSaysTrue ==
  ASSUME Typed, SaysTrue,
         \/ SaveLocally \/ \E k \in Stops : StopRun(k) \/ StopReturns(k)
         \/ AnswerHistory \/ HistoryArrives \/ HistoryFails
  PROVE  SaysTrue'
<1> USE DEF Typed, TypeOK
<1>0. \A q \in Prompts : RowTrue(q) /\ WireTrue(q) /\ LoadTrue(q) /\ NotYet(q)
  BY DEF SaysTrue
<1>1. CASE SaveLocally
  <2>1. \A q \in Prompts : rows'[Run(q)].status = "completed" => IsRecorded(q)
    BY <1>0, <1>1, EventRow DEF SaveLocally, RowTrue
  <2>2. UNCHANGED <<wire, recorded, load, phase>>
    BY <1>1 DEF SaveLocally, serverVars
  <2>3. QED
    BY <2>1, <2>2, QuietStep
<1>2. ASSUME NEW k \in Stops, StopRun(k) PROVE SaysTrue'
  <2>1. UNCHANGED <<recorded, load, rows>>
    BY <1>2 DEF StopRun, ledgerVars
  <2>2. \A q \in Prompts : phase'[q] \in {phase[q], "over"} /\ wire'[q] \in {wire[q], <<>>}
    <3>1. CASE abortController # NoRun /\ phase[abortController] = "open"
      BY <1>2, <3>1 DEF StopRun, Abort
    <3>2. CASE ~(abortController # NoRun /\ phase[abortController] = "open")
      BY <1>2, <3>2 DEF StopRun, Abort
    <3>3. QED
      BY <3>1, <3>2
  <2>3. ASSUME NEW q \in Prompts PROVE WireTrue(q)'
    <3>1. CASE wire'[q] = wire[q]
      BY <1>0, <2>1, <3>1 DEF WireTrue, IsRecorded
    <3>2. CASE wire'[q] = <<>>
      BY <3>2 DEF WireTrue
    <3>3. QED
      BY <2>2, <3>1, <3>2
  <2>4. QED
    BY <1>0, <2>1, <2>2, <2>3 DEF SaysTrue, RowTrue, LoadTrue, NotYet, IsRecorded
<1>3. ASSUME NEW k \in Stops, StopReturns(k) PROVE SaysTrue'
  <2>1. \A q \in Prompts : rows'[Run(q)].status = "completed" => IsRecorded(q)
    <3>1. rows' = Finished(rows, Run(stopping[k]), "cancelled")
      BY <1>3 DEF StopReturns
    <3> SUFFICES ASSUME NEW q \in Prompts, rows'[Run(q)].status = "completed"
                 PROVE  IsRecorded(q)
      OBVIOUS
    <3>2. "cancelled" \in Statuses /\ Run(stopping[k]) \in Ids
      BY <1>3, NamesOfRuns DEF StopReturns, Statuses, EndStatuses
    <3>3. rows[Run(q)].status = "completed"
      BY <3>1, <3>2, FinishedRow
    <3>4. QED
      BY <1>0, <3>3 DEF RowTrue
  <2>2. UNCHANGED <<wire, recorded, load, phase>>
    BY <1>3 DEF StopReturns, serverVars
  <2>3. QED
    BY <2>1, <2>2, QuietStep
<1>4. CASE AnswerHistory
  <2>1. UNCHANGED <<rows, wire, recorded, phase>>
    BY <1>4 DEF AnswerHistory, ledgerVars, serverVars
  <2>2. ASSUME NEW q \in Prompts PROVE LoadTrue(q)'
    BY <1>4, <2>1 DEF AnswerHistory, LoadTrue, IsRecorded
  <2>3. QED
    BY <1>0, <2>1, <2>2 DEF SaysTrue, RowTrue, WireTrue, NotYet, IsRecorded
<1>5. CASE HistoryArrives
  <2>1. \A q \in Prompts : rows'[Run(q)].status = "completed" => IsRecorded(q)
    <3>1. CASE load.kind = "recent"
      <4>1. load.answer \in [Prompts -> Statuses \cup {None}]
        BY <1>5, <3>1 DEF Loads, Idle
      <4>2. rows' = Merged(load.answer)
        BY <1>5, <3>1 DEF HistoryArrives
      <4>3. QED
        BY <1>0, <3>1, <4>1, <4>2, MergedRow DEF LoadTrue
    <3>2. CASE load.kind # "recent"
      <4>1. load.kind = "run" /\ load.answer \in Row /\ load.of \in Prompts
        BY <1>5, <3>2 DEF Loads, HistoryArrives, Idle
      <4>2. rows' = [rows EXCEPT ![Run(load.of)] = load.answer]
        BY <1>5, <3>2 DEF HistoryArrives
      <4>3. QED
        BY <1>0, <4>1, <4>2, NamesOfRuns DEF LoadTrue, RowTrue
    <3>3. QED
      BY <3>1, <3>2
  <2>2. load' = Idle /\ UNCHANGED <<wire, recorded, phase>>
    BY <1>5 DEF HistoryArrives, serverVars
  <2>3. QED
    BY <1>0, <2>1, <2>2 DEF SaysTrue, RowTrue, WireTrue, LoadTrue, NotYet, IsRecorded, Idle
<1>6. CASE HistoryFails
  <2>1. load' = Idle /\ UNCHANGED <<rows, wire, recorded, phase>>
    BY <1>6 DEF HistoryFails, ledgerVars, serverVars
  <2>2. QED
    BY <1>0, <2>1 DEF SaysTrue, RowTrue, WireTrue, LoadTrue, NotYet, IsRecorded, Idle
<1>7. QED
  BY <1>1, <1>2, <1>3, <1>4, <1>5, <1>6

LEMMA NextSaysTrue == Typed /\ SaysTrue /\ [Next]_vars => SaysTrue'
<1> SUFFICES ASSUME Typed, SaysTrue, [Next]_vars PROVE SaysTrue'
  OBVIOUS
<1>1. CASE UNCHANGED vars
  BY <1>1 DEF vars, ledgerVars, serverVars, SaysTrue, RowTrue, WireTrue, LoadTrue,
     NotYet, IsRecorded
<1>2. CASE Next
  BY <1>2, PromptSaysTrue, StreamSaysTrue, OtherSaysTrue DEF Next
<1>3. QED
  BY <1>1, <1>2

\* The ledger store calls a run completed only when the adapter's ledger does,
\* whatever order events, stops, ends of streams and history come in.
THEOREM CompletionIsTrue == Spec => []CompletedIsRecorded
<1>1. SaysTrue => CompletedIsRecorded
  BY DEF SaysTrue, RowTrue, IsRecorded, CompletedIsRecorded
<1>2. QED
  BY <1>1, InitTyped, NextTyped, InitSaysTrue, NextSaysTrue, PTL DEF Spec

-----------------------------------------------------------------------------
(* An end that is shown *)

LEMMA EventEnded ==
  ASSUME rows \in [Ids -> Row], NEW id, NEW p \in Prompts, NEW type,
         rows[Run(p)].status \in EndStatuses
  PROVE  RecordEvent(id, type)[Run(p)].status \in EndStatuses
BY NamesOfRuns DEF RecordEvent, WithEvent, StatusOf, EndStatuses, None

LEMMA FinishedEnded ==
  ASSUME NEW list \in [Ids -> Row], NEW id, NEW p \in Prompts,
         NEW status \in EndStatuses, list[Run(p)].status \in EndStatuses
  PROVE  Finished(list, id, status)[Run(p)].status \in EndStatuses
BY NamesOfRuns DEF Finished

LEMMA BegunOther ==
  ASSUME rows \in [Ids -> Row], NEW id, NEW p \in Prompts, NEW status,
         id # Run(p)
  PROVE  Begun(id, status)[Run(p)] = rows[Run(p)]
BY NamesOfRuns DEF Begun, WithoutPending

LEMMA EndStays ==
  ASSUME Typed, Next, NEW p \in Prompts, rows[Run(p)].status \in EndStatuses,
         phase[p] # "accepted", load'.kind = load.kind
  PROVE  rows'[Run(p)].status \in EndStatuses
<1> USE DEF Typed, TypeOK
<1>1. CASE rows' = rows
  BY <1>1
<1>2. ASSUME NEW q \in Prompts, SendPrompt(q)
      PROVE  rows'[Run(p)].status \in EndStatuses
  BY <1>2, BegunOther, NamesOfRuns DEF SendPrompt
<1>3. ASSUME NEW q \in Prompts, NEW status \in FirstStatuses, Started(q, status)
      PROVE  rows'[Run(p)].status \in EndStatuses
  <2>1. Run(q) # Run(p)
    BY <1>3, NamesOfRuns DEF Started
  <2> QED BY <1>3, <2>1, BegunOther DEF Started
<1>4. ASSUME NEW list, list \in [Ids -> Row],
             list[Run(p)].status \in EndStatuses,
             NEW id, NEW status \in EndStatuses, rows' = Finished(list, id, status)
      PROVE  rows'[Run(p)].status \in EndStatuses
  BY <1>4, FinishedEnded
<1>5. ASSUME NEW id \in Ids, NEW type
      PROVE  /\ RecordEvent(id, type) \in [Ids -> Row]
             /\ RecordEvent(id, type)[Run(p)].status \in EndStatuses
  BY EventRows, EventEnded
<1>6. ASSUME NEW q \in Prompts, StartFails(q)
      PROVE  rows'[Run(p)].status \in EndStatuses
  <2>1. CASE currentRunId = NoId
    BY <1>1, <1>6, <2>1 DEF StartFails
  <2>2. CASE currentRunId # NoId
    <3>1. /\ rows' = Finished(RecordEvent(currentRunId, "adapter.warning"),
                              currentRunId, "failed")
          /\ "failed" \in EndStatuses /\ currentRunId \in Ids
      BY <1>6, <2>2 DEF StartFails, EndStatuses
    <3> QED BY <1>4, <1>5, <3>1
  <2> QED BY <2>1, <2>2
<1>7. ASSUME NEW q \in Prompts, ReadEvent(q)
      PROVE  rows'[Run(p)].status \in EndStatuses
  <2> DEFINE type == Head(wire[q])
             list == RecordEvent(Run(q), type)
  <2>1. list \in [Ids -> Row] /\ list[Run(p)].status \in EndStatuses
    BY <1>5, NamesOfRuns
  <2>2. rows' = list \/ rows' = Finished(list, Run(q), StatusOf(type))
    BY <1>7 DEF ReadEvent
  <2>3. StatusOf(type) \in EndStatuses
    BY DEF StatusOf, EndStatuses
  <2> HIDE DEF list
  <2> QED BY <1>4, <2>1, <2>2, <2>3
<1>8. ASSUME NEW q \in Prompts, StreamBreaks(q)
      PROVE  rows'[Run(p)].status \in EndStatuses
  <2>1. /\ rows' = Finished(RecordEvent(Run(q), "adapter.warning"), Run(q), "failed")
        /\ "failed" \in EndStatuses /\ Run(q) \in Ids
    BY <1>8, NamesOfRuns DEF StreamBreaks, EndStatuses
  <2> QED BY <1>4, <1>5, <2>1
<1>9. CASE SaveLocally
  BY <1>5, <1>9 DEF SaveLocally
<1>10. ASSUME NEW k \in Stops, StopReturns(k)
       PROVE  rows'[Run(p)].status \in EndStatuses
  <2>1. /\ rows' = Finished(rows, Run(stopping[k]), "cancelled")
        /\ "cancelled" \in EndStatuses
    BY <1>10 DEF StopReturns, EndStatuses
  <2> QED BY <1>4, <2>1
<1>11. ~HistoryArrives
  BY DEF HistoryArrives, Idle, Loads
<1>12. \/ rows' = rows
       \/ \E q \in Prompts :
            \/ SendPrompt(q) \/ StartFails(q) \/ ReadEvent(q) \/ StreamBreaks(q)
            \/ \E status \in FirstStatuses : Started(q, status)
       \/ SaveLocally \/ \E k \in Stops : StopReturns(k)
  BY <1>11 DEF Next, HandleSend, NewChatAndSend, AdapterStarts, Emit, EndUnseen,
               StreamEnds, StopRun, AnswerHistory, HistoryFails, ledgerVars
<1> QED
  BY <1>1, <1>2, <1>3, <1>6, <1>7, <1>8, <1>9, <1>10, <1>12

\* Once the ledger store shows the end of a run, no late event, warning or
\* stop brings it back to life; only history, or the belated answer to its start.
THEOREM EndStaysShown == Spec => EndIsKept
<1>1. Typed /\ [Next]_vars =>
        [\A p \in Prompts :
           (rows[Run(p)].status \in EndStatuses /\ phase[p] # "accepted"
            /\ load'.kind = load.kind)
             => rows'[Run(p)].status \in EndStatuses]_vars
  BY EndStays
<1> QED BY <1>1, InitTyped, NextTyped, PTL DEF Spec, EndIsKept

-----------------------------------------------------------------------------
(* The run the ledger calls current *)

\* The adapter has accepted the run.
Accepted(p) == recorded[p].status # None

\* The ledger store has heard of the run.
HeardOf(p) ==
  phase[p] \in {"accepted", "open"} \/ Listed(Run(p)) \/ currentRunId = Run(p)

\* The answer under way tells of accepted runs only.
LoadAccepted ==
  /\ load.kind = "recent" =>
       \A p \in Prompts : load.answer[p] # None => Accepted(p)
  /\ load.kind = "run" => load.answer.status # None /\ Accepted(load.of)

\* The history under way, or one to come, has no row for this id.
Exposed(id) ==
  \/ id \in PendingIds
  \/ load.kind = "recent" /\ \E p \in Prompts : id = Run(p) /\ load.answer[p] = None

\* The inductive invariant: the current run has not ended as long as the
\* history may not know it.
CurrentInv ==
  /\ \A p \in Prompts : HeardOf(p) => Accepted(p)
  /\ LoadAccepted
  /\ Exposed(currentRunId) => rows[currentRunId].status \notin EndStatuses

LEMMA InitCurrentInv == Init => CurrentInv
<1> SUFFICES ASSUME Init PROVE CurrentInv
  OBVIOUS
<1>1. \A p \in Prompts : ~HeardOf(p)
  BY NamesOfRuns DEF Init, HeardOf, Listed, Absent
<1>2. load.kind = "idle" /\ currentRunId = NoId
  BY DEF Init, Idle
<1>3. NoId \notin PendingIds
  BY PromptsAssumption DEF PendingIds, Pending, NoId
<1> QED BY <1>1, <1>2, <1>3 DEF CurrentInv, LoadAccepted, Exposed

\* What an event other than an end makes of a row.
LEMMA QuietEvent ==
  ASSUME NEW row \in Row, NEW type, type \notin Ends
  PROVE  /\ WithEvent(row, type).status # None
         /\ WithEvent(row, type).status \in EndStatuses => row.status \in EndStatuses
BY DEF WithEvent, Row, EndStatuses, None

\* A run that is begun is listed and has not ended.
LEMMA BegunThis ==
  ASSUME rows \in [Ids -> Row], NEW id \in Ids, NEW status
  PROVE  /\ Begun(id, status)[id].status = status
         /\ \A p \in Prompts : id # Run(p) =>
              Begun(id, status)[Run(p)] = rows[Run(p)]
BY NamesOfRuns DEF Begun, WithoutPending

\* The current run ceases to be, is a new one, or keeps an open row open.
CurrentKept ==
  /\ currentRunId' = currentRunId
  /\ Listed(currentRunId) => Listed(currentRunId)'
  /\ rows'[currentRunId].status \in EndStatuses =>
       rows[currentRunId].status \in EndStatuses

CurrentBegun ==
  /\ currentRunId' \in Ids
  /\ rows'[currentRunId'].status \in {"starting", "queued", "running"}

LEMMA CurrentStep ==
  ASSUME Typed, Next, ~HistoryArrives
  PROVE  currentRunId' = NoId \/ CurrentKept \/ CurrentBegun
<1> USE DEF Typed, TypeOK
<1>1. CASE rows' = rows /\ currentRunId' = currentRunId
  BY <1>1 DEF CurrentKept, Listed
<1>2. ASSUME NEW q \in Prompts, SendPrompt(q) PROVE CurrentBegun
  BY <1>2, BegunThis, NamesOfRuns DEF SendPrompt, CurrentBegun
<1>3. ASSUME NEW q \in Prompts, NEW status \in FirstStatuses, Started(q, status)
      PROVE  CurrentBegun
  BY <1>3, BegunThis, NormalStatus, NamesOfRuns DEF Started, CurrentBegun
<1>4. ASSUME NEW q \in Prompts, StartFails(q) PROVE currentRunId' = NoId
  BY <1>4 DEF StartFails
<1>5. ASSUME NEW id \in Ids, NEW type, type \notin Ends,
             currentRunId \in Ids, currentRunId' = currentRunId,
             rows' = RecordEvent(id, type)
      PROVE  CurrentKept
  <2>1. rows[currentRunId] \in Row
    BY <1>5
  <2>2. CASE id = currentRunId
    <3>1. rows'[currentRunId] = WithEvent(rows[currentRunId], type)
      BY <1>5, <2>2 DEF RecordEvent
    <3> QED BY <1>5, <2>1, <3>1, QuietEvent DEF CurrentKept, Listed
  <2>3. CASE id # currentRunId
    BY <1>5, <2>3 DEF RecordEvent, CurrentKept, Listed
  <2> QED BY <2>2, <2>3
<1>6. ASSUME NEW list, list \in [Ids -> Row], NEW id \in Ids, NEW status,
             \A other \in Ids \ {id} : list[other] = rows[other],
             currentRunId' = CurrentAfter(id), rows' = Finished(list, id, status),
             currentRunId \in Ids
      PROVE  currentRunId' = NoId \/ CurrentKept
  BY <1>6 DEF CurrentAfter, Finished, CurrentKept, Listed
<1>7. CASE currentRunId = NoId /\ currentRunId' = NoId
  BY <1>7
<1>8. ASSUME NEW id \in Ids, NEW type
      PROVE  /\ RecordEvent(id, type) \in [Ids -> Row]
             /\ \A other \in Ids \ {id} : RecordEvent(id, type)[other] = rows[other]
  <2>1. RecordEvent(id, type) \in [Ids -> Row]
    BY EventRows
  <2> QED BY <2>1 DEF RecordEvent
<1>9. ASSUME NEW q \in Prompts, ReadEvent(q)
      PROVE  currentRunId' = NoId \/ CurrentKept
  <2> DEFINE type == Head(wire[q])
  <2>1. Run(q) \in Ids
    BY NamesOfRuns
  <2>2. CASE currentRunId = NoId
    BY <1>9, <2>2 DEF ReadEvent, CurrentAfter
  <2>3. CASE currentRunId \in Ids /\ type \in Ends
    <3>1. /\ rows' = Finished(RecordEvent(Run(q), type), Run(q), StatusOf(type))
          /\ currentRunId' = CurrentAfter(Run(q))
      BY <1>9, <2>3 DEF ReadEvent
    <3> QED BY <1>6, <1>8, <2>1, <2>3, <3>1
  <2>4. CASE currentRunId \in Ids /\ type \notin Ends
    BY <1>5, <1>9, <2>1, <2>4 DEF ReadEvent
  <2> QED BY <2>2, <2>3, <2>4
<1>10. ASSUME NEW q \in Prompts, StreamBreaks(q)
       PROVE  currentRunId' = NoId \/ CurrentKept
  <2>1. /\ rows' = Finished(RecordEvent(Run(q), "adapter.warning"), Run(q), "failed")
        /\ currentRunId' = CurrentAfter(Run(q)) /\ Run(q) \in Ids
    BY <1>10, NamesOfRuns DEF StreamBreaks
  <2>2. CASE currentRunId = NoId
    BY <2>1, <2>2 DEF CurrentAfter
  <2>3. CASE currentRunId \in Ids
    <3> DEFINE list == RecordEvent(Run(q), "adapter.warning")
    <3>1. /\ list \in [Ids -> Row]
          /\ \A other \in Ids \ {Run(q)} : list[other] = rows[other]
      BY <1>8, <2>1
    <3>2. rows' = Finished(list, Run(q), "failed")
      BY <2>1
    <3> HIDE DEF list
    <3> QED BY <1>6, <2>1, <2>3, <3>1, <3>2
  <2> QED BY <2>2, <2>3
<1>11. CASE SaveLocally
  BY <1>5, <1>11 DEF SaveLocally, Ends
<1>12. ASSUME NEW k \in Stops, StopReturns(k)
       PROVE  currentRunId' = NoId \/ CurrentKept
  <2>1. /\ rows' = Finished(rows, Run(stopping[k]), "cancelled")
        /\ currentRunId' = CurrentAfter(Run(stopping[k]))
        /\ Run(stopping[k]) \in Ids
    BY <1>12, NamesOfRuns DEF StopReturns
  <2>2. CASE currentRunId = NoId
    BY <2>1, <2>2 DEF CurrentAfter
  <2>3. CASE currentRunId \in Ids
    BY <1>6, <2>1, <2>3
  <2> QED BY <2>2, <2>3
<1>13. \/ rows' = rows /\ currentRunId' = currentRunId
       \/ \E q \in Prompts :
            \/ SendPrompt(q) \/ StartFails(q) \/ ReadEvent(q) \/ StreamBreaks(q)
            \/ \E status \in FirstStatuses : Started(q, status)
       \/ SaveLocally \/ \E k \in Stops : StopReturns(k)
  BY DEF Next, HandleSend, NewChatAndSend, AdapterStarts, Emit, EndUnseen,
         StreamEnds, StopRun, AnswerHistory, HistoryFails, ledgerVars
<1> QED
  BY <1>1, <1>2, <1>3, <1>4, <1>9, <1>10, <1>11, <1>12, <1>13

\* What was accepted stays so, and only accepted runs are heard of.
LEMMA AcceptedStep ==
  ASSUME Typed, CurrentInv, Next
  PROVE  /\ \A p \in Prompts : Accepted(p) => Accepted(p)'
         /\ \A p \in Prompts : HeardOf(p)' => Accepted(p)'
<1> USE DEF Typed, TypeOK
<1>0. \A p \in Prompts : HeardOf(p) => Accepted(p)
  BY DEF CurrentInv
<1>1. ASSUME NEW p \in Prompts, AdapterStarts(p)
      PROVE  /\ \A q \in Prompts : Accepted(q) => Accepted(q)'
             /\ \A q \in Prompts : HeardOf(q)' => Accepted(q)'
  BY <1>0, <1>1 DEF AdapterStarts, Accepted, HeardOf, Listed, ledgerVars, None
<1>2. ASSUME UNCHANGED recorded,
             \A q \in Prompts : HeardOf(q)' => HeardOf(q) \/ Accepted(q)
      PROVE  /\ \A q \in Prompts : Accepted(q) => Accepted(q)'
             /\ \A q \in Prompts : HeardOf(q)' => Accepted(q)'
  BY <1>0, <1>2 DEF Accepted
<1>3. ASSUME NEW p \in Prompts, NEW status \in EndStatuses \cup {"running"},
             NEW events, recorded[p].status = "running",
             recorded' = [recorded EXCEPT ![p] = [status |-> status, events |-> events]],
             UNCHANGED <<phase, rows, currentRunId>>
      PROVE  /\ \A q \in Prompts : Accepted(q) => Accepted(q)'
             /\ \A q \in Prompts : HeardOf(q)' => Accepted(q)'
  BY <1>0, <1>3 DEF Accepted, HeardOf, Listed, EndStatuses, None
<1>4. ASSUME NEW p \in Prompts, NEW type \in Types, Emit(p, type)
      PROVE  /\ \A q \in Prompts : Accepted(q) => Accepted(q)'
             /\ \A q \in Prompts : HeardOf(q)' => Accepted(q)'
  <2>1. (IF type \in Ends THEN StatusOf(type) ELSE "running")
          \in EndStatuses \cup {"running"}
    BY DEF StatusOf, EndStatuses
  <2> QED BY <1>3, <1>4, <2>1 DEF Emit, ledgerVars
<1>5. ASSUME NEW p \in Prompts, EndUnseen(p)
      PROVE  /\ \A q \in Prompts : Accepted(q) => Accepted(q)'
             /\ \A q \in Prompts : HeardOf(q)' => Accepted(q)'
  <2>1. PICK status \in EndStatuses :
          recorded' = [recorded EXCEPT ![p] = [@ EXCEPT !.status = status]]
    BY <1>5 DEF EndUnseen, StatusOf, EndStatuses
  <2>2. [recorded[p] EXCEPT !.status = status]
          = [status |-> status, events |-> recorded[p].events]
    BY DEF Row
  <2> QED BY <1>3, <1>5, <2>1, <2>2 DEF EndUnseen, ledgerVars
<1>6. ASSUME NEW id, NEW type, NEW q \in Prompts, id \in Ids,
             RecordEvent(id, type)[Run(q)].status # None
      PROVE  Listed(Run(q)) \/ id = Run(q)
  BY <1>6, NamesOfRuns DEF RecordEvent, Listed
<1>7. ASSUME NEW list, list \in [Ids -> Row], NEW id, NEW status, NEW q \in Prompts,
             Finished(list, id, status)[Run(q)].status # None
      PROVE  list[Run(q)].status # None
  BY <1>7, NamesOfRuns DEF Finished
<1>8. ASSUME NEW p \in Prompts, SendPrompt(p), UNCHANGED load, NEW q \in Prompts,
             HeardOf(q)'
      PROVE  HeardOf(q)
  <2>1. Pending(p) \in Ids /\ Pending(p) # Run(q)
    BY NamesOfRuns
  <2>2. rows'[Run(q)] = rows[Run(q)]
    BY <1>8, <2>1, BegunThis DEF SendPrompt
  <2> QED BY <1>8, <2>1, <2>2 DEF SendPrompt, HeardOf, Listed
<1>9. ASSUME NEW p \in Prompts, NEW status \in FirstStatuses, Started(p, status),
             NEW q \in Prompts, HeardOf(q)'
      PROVE  HeardOf(q)
  <2>1. q # p => rows'[Run(q)] = rows[Run(q)]
    BY <1>9, BegunThis, NamesOfRuns DEF Started
  <2> QED BY <1>9, <2>1, NamesOfRuns DEF Started, HeardOf, Listed
<1>10. ASSUME NEW p \in Prompts, StartFails(p), NEW q \in Prompts, HeardOf(q)'
       PROVE  HeardOf(q)
  <2>1. phase' = [phase EXCEPT ![p] = "over"] /\ currentRunId' = NoId
    BY <1>10 DEF StartFails
  <2>2. rows'[Run(q)].status # None => Listed(Run(q)) \/ currentRunId = Run(q)
    <3>1. CASE currentRunId = NoId
      BY <1>10, <3>1 DEF StartFails, Listed
    <3>2. CASE currentRunId # NoId
      <4>1. /\ rows' = Finished(RecordEvent(currentRunId, "adapter.warning"),
                                currentRunId, "failed")
            /\ currentRunId \in Ids
        BY <1>10, <3>2 DEF StartFails
      <4> DEFINE list == RecordEvent(currentRunId, "adapter.warning")
      <4>2. list \in [Ids -> Row]
        BY <4>1, EventRows
      <4>3. list[Run(q)].status # None => Listed(Run(q)) \/ currentRunId = Run(q)
        BY <1>6, <4>1
      <4> HIDE DEF list
      <4>4. rows'[Run(q)].status # None => list[Run(q)].status # None
        BY <1>7, <4>1, <4>2 DEF list
      <4> QED BY <4>3, <4>4
    <3> QED BY <3>1, <3>2
  <2> QED BY <1>10, <2>1, <2>2, NamesOfRuns DEF HeardOf, Listed
<1>11. ASSUME NEW p \in Prompts, ReadEvent(p) \/ StreamBreaks(p),
              NEW q \in Prompts, HeardOf(q)'
       PROVE  HeardOf(q)
  <2>1. /\ phase[p] = "open" /\ phase'[q] \in {phase[q], "over"}
        /\ currentRunId' \in {currentRunId, NoId}
    BY <1>11 DEF ReadEvent, StreamBreaks, CurrentAfter
  <2>2. PICK type : \/ rows' = RecordEvent(Run(p), type)
                    \/ \E status : rows' = Finished(RecordEvent(Run(p), type), Run(p), status)
    BY <1>11 DEF ReadEvent, StreamBreaks
  <2>3. Run(p) \in Ids /\ RecordEvent(Run(p), type) \in [Ids -> Row]
    BY NamesOfRuns, EventRows
  <2>4. rows'[Run(q)].status # None => Listed(Run(q)) \/ Run(p) = Run(q)
    BY <1>6, <1>7, <2>2, <2>3
  <2> QED BY <1>11, <2>1, <2>4, NamesOfRuns DEF HeardOf, Listed
<1>12. ASSUME SaveLocally, NEW q \in Prompts, HeardOf(q)' PROVE HeardOf(q)
  BY <1>6, <1>12 DEF SaveLocally, HeardOf, Listed
<1>13. ASSUME NEW k \in Stops, StopReturns(k), NEW q \in Prompts, HeardOf(q)'
       PROVE  HeardOf(q)
  <2>1. rows'[Run(q)].status # None => Listed(Run(q))
    BY <1>7, <1>13 DEF StopReturns, Listed
  <2> QED BY <1>13, <2>1, NamesOfRuns DEF StopReturns, HeardOf, Listed, CurrentAfter
<1>14. ASSUME HistoryArrives, NEW q \in Prompts, HeardOf(q)'
       PROVE  HeardOf(q) \/ Accepted(q)
  <2>1. CASE load.kind = "recent" /\ load.answer[q] # None
    BY <2>1 DEF CurrentInv, LoadAccepted
  <2>2. CASE load.kind = "recent" /\ load.answer[q] = None
    <3>1. rows'[Run(q)] \in {rows[Run(q)], Absent}
      BY <1>14, <2>2, NamesOfRuns DEF HistoryArrives, Merged
    <3> QED BY <1>14, <3>1 DEF HistoryArrives, HeardOf, Listed, Absent
  <2>3. CASE load.kind # "recent"
    <3>1. load.kind = "run" /\ load.of \in Prompts
      BY <1>14, <2>3 DEF HistoryArrives, Loads
    <3>2. rows' = [rows EXCEPT ![Run(load.of)] = load.answer]
      BY <1>14, <2>3 DEF HistoryArrives
    <3>3. CASE q = load.of
      BY <3>1, <3>3 DEF CurrentInv, LoadAccepted
    <3>4. CASE q # load.of
      BY <1>14, <3>1, <3>2, <3>4, NamesOfRuns DEF HistoryArrives, HeardOf, Listed
    <3> QED BY <3>3, <3>4
  <2> QED BY <2>1, <2>2, <2>3
<1>15. ASSUME NEW k \in Stops, StopRun(k), NEW q \in Prompts, HeardOf(q)'
       PROVE  HeardOf(q)
  <2>1. phase'[q] \in {phase[q], "over"}
    <3>1. CASE abortController # NoRun /\ phase[abortController] = "open"
      BY <1>15, <3>1 DEF StopRun, Abort
    <3>2. CASE ~(abortController # NoRun /\ phase[abortController] = "open")
      BY <1>15, <3>2 DEF StopRun, Abort
    <3> QED BY <3>1, <3>2
  <2> QED BY <1>15, <2>1 DEF StopRun, ledgerVars, HeardOf, Listed
<1>16. ASSUME NEW p \in Prompts, StreamEnds(p), NEW q \in Prompts, HeardOf(q)'
       PROVE  HeardOf(q)
  BY <1>16 DEF StreamEnds, ledgerVars, HeardOf, Listed
<1>17. ASSUME AnswerHistory \/ HistoryFails, NEW q \in Prompts, HeardOf(q)'
       PROVE  HeardOf(q)
  BY <1>17 DEF AnswerHistory, HistoryFails, ledgerVars, HeardOf, Listed
<1>18. CASE \/ \E p \in Prompts : HandleSend(p) \/ NewChatAndSend(p)
            \/ \E p \in Prompts, status \in FirstStatuses : Started(p, status)
            \/ \E p \in Prompts :
                 StartFails(p) \/ ReadEvent(p) \/ StreamEnds(p) \/ StreamBreaks(p)
            \/ SaveLocally \/ \E k \in Stops : StopRun(k) \/ StopReturns(k)
            \/ AnswerHistory \/ HistoryArrives \/ HistoryFails
  <2>1. UNCHANGED recorded
    BY <1>18 DEF HandleSend, NewChatAndSend, SendPrompt, Started, StartFails,
         ReadEvent, StreamEnds, StreamBreaks, SaveLocally, StopRun, StopReturns,
         AnswerHistory, HistoryArrives, HistoryFails, serverVars
  <2>2. \A p \in Prompts : HandleSend(p) \/ NewChatAndSend(p) =>
          SendPrompt(p) /\ UNCHANGED load
    BY DEF HandleSend, NewChatAndSend, SendPrompt
  <2>3. \A q \in Prompts : HeardOf(q)' => HeardOf(q) \/ Accepted(q)
    BY <1>8, <1>9, <1>10, <1>11, <1>12, <1>13, <1>14, <1>15, <1>16, <1>17,
       <1>18, <2>2
  <2> QED BY <1>2, <2>1, <2>3
<1> QED BY <1>1, <1>4, <1>5, <1>18 DEF Next

\* What an answer from the history does to the current run.
LEMMA CurrentHistory ==
  ASSUME Typed, CurrentInv, HistoryArrives
  PROVE  /\ currentRunId' = currentRunId
         /\ currentRunId # NoId /\ Listed(currentRunId)
               /\ rows[currentRunId].status # "queued" => Listed(currentRunId)'
         /\ currentRunId \in PendingIds =>
              rows'[currentRunId] \in {rows[currentRunId], Absent}
<1> USE DEF Typed, TypeOK
<1>1. currentRunId' = currentRunId
  BY DEF HistoryArrives
<1>2. currentRunId \in Ids \cup {NoId}
  OBVIOUS
<1>3. \A id \in PendingIds : id \in Ids /\ \A p \in Prompts : id # Run(p)
  BY NamesOfRuns DEF PendingIds
<1>4. CASE load.kind = "recent"
  <2>1. rows' = Merged(load.answer)
    BY <1>4 DEF HistoryArrives
  <2>2. \A id \in PendingIds : rows'[id] \in {rows[id], Absent}
    BY <1>3, <2>1 DEF Merged
  <2>3. ASSUME currentRunId # NoId, Listed(currentRunId),
               rows[currentRunId].status # "queued"
        PROVE  rows'[currentRunId].status # None
    <3>1. CASE Exposed(currentRunId)
      <4>1. rows[currentRunId].status \in Live
        BY <1>2, <2>3, <3>1
        DEF CurrentInv, Listed, Row, Statuses, EndStatuses, Live, None
      <4>2. ~\E p \in Prompts : currentRunId = Run(p) /\ load.answer[p] # None
        <5> SUFFICES ASSUME NEW p \in Prompts, currentRunId = Run(p),
                            load.answer[p] # None
                     PROVE  FALSE
          OBVIOUS
        <5>1. PICK q \in Prompts : currentRunId = Run(q) /\ load.answer[q] = None
          BY <1>3, <3>1 DEF Exposed
        <5>2. (Run(p) = Run(q)) = (p = q)
          BY NamesOfRuns
        <5>3. Run(p) = Run(q)
          BY <5>1
        <5> QED BY <5>1, <5>2, <5>3
      <4> QED BY <1>2, <2>1, <2>3, <4>1, <4>2 DEF Merged, Listed
    <3>2. CASE ~Exposed(currentRunId)
      <4>1. PICK p \in Prompts : currentRunId = Run(p)
        BY <1>2, <2>3, <3>2 DEF Exposed, Ids
      <4>2. load.answer[p] # None
        BY <1>4, <3>2, <4>1 DEF Exposed
      <4>3. Run(p) \in Ids /\ Run(p)[2] = p
        BY NamesOfRuns
      <4> QED BY <2>1, <4>1, <4>2, <4>3 DEF Merged
    <3> QED BY <3>1, <3>2
  <2> QED BY <1>1, <2>2, <2>3 DEF Listed
<1>5. CASE load.kind # "recent"
  <2>1. load.kind = "run" /\ load.of \in Prompts
    BY <1>5 DEF HistoryArrives, Loads
  <2>2. rows' = [rows EXCEPT ![Run(load.of)] = load.answer]
    BY <1>5 DEF HistoryArrives
  <2>3. load.answer.status # None
    BY <2>1 DEF CurrentInv, LoadAccepted
  <2>4. \A id \in Ids : rows'[id] = IF id = Run(load.of) THEN load.answer ELSE rows[id]
    BY <2>2
  <2> QED BY <1>1, <1>2, <1>3, <2>1, <2>3, <2>4 DEF Listed
<1> QED BY <1>4, <1>5

LEMMA NextCurrentInv == Typed /\ CurrentInv /\ [Next]_vars => CurrentInv'
<1> SUFFICES ASSUME Typed, CurrentInv, [Next]_vars PROVE CurrentInv'
  OBVIOUS
<1>1. CASE UNCHANGED vars
  BY <1>1 DEF vars, ledgerVars, serverVars, CurrentInv, HeardOf, Accepted,
              LoadAccepted, Exposed, Listed
<1>2. CASE Next
  <2> USE <1>2
  <2>1. /\ \A p \in Prompts : Accepted(p) => Accepted(p)'
        /\ \A p \in Prompts : HeardOf(p)' => Accepted(p)'
    BY AcceptedStep
  <2>2. load' = load \/ load' = Idle \/ AnswerHistory
    BY DEF Next, HandleSend, NewChatAndSend, SendPrompt, AdapterStarts, Started,
           StartFails, Emit, EndUnseen, ReadEvent, StreamEnds, StreamBreaks,
           SaveLocally, StopRun, StopReturns, HistoryArrives, HistoryFails
  <2>3. LoadAccepted'
    <3>1. CASE load' = load
      <4>1. load.kind = "run" => load.of \in Prompts
        BY DEF Typed, Loads, Idle
      <4> QED BY <2>1, <3>1, <4>1 DEF CurrentInv, LoadAccepted
    <3>2. CASE load' = Idle
      BY <3>2 DEF LoadAccepted, Idle
    <3>3. CASE AnswerHistory
      <4>1. UNCHANGED recorded
        BY <3>3 DEF AnswerHistory, serverVars
      <4>2. CASE load' = [kind |-> "recent", of |-> NoRun,
                          answer |-> [p \in Prompts |-> recorded[p].status]]
        BY <4>1, <4>2 DEF LoadAccepted, Accepted
      <4>3. ASSUME NEW p \in Prompts, Listed(Run(p)),
                   load' = [kind |-> "run", of |-> p, answer |-> recorded[p]]
            PROVE  LoadAccepted'
        BY <4>1, <4>3 DEF LoadAccepted, CurrentInv, HeardOf, Accepted
      <4> QED BY <3>3, <4>2, <4>3 DEF AnswerHistory
    <3> QED BY <2>2, <3>1, <3>2, <3>3
  <2>4. Exposed(currentRunId)' => rows'[currentRunId'].status \notin EndStatuses
    <3> SUFFICES ASSUME Exposed(currentRunId)'
                 PROVE  rows'[currentRunId'].status \notin EndStatuses
      OBVIOUS
    <3>1. ~Exposed(NoId)'
      BY NamesOfRuns, PromptsAssumption DEF Exposed, PendingIds, Pending, NoId
    <3>2. CASE HistoryArrives
      <4>1. currentRunId' = currentRunId /\ load' = Idle
        BY <3>2 DEF HistoryArrives
      <4>2. currentRunId \in PendingIds
        BY <4>1 DEF Exposed, Idle
      <4>3. rows'[currentRunId] \in {rows[currentRunId], Absent}
        BY <3>2, <4>2, CurrentHistory
      <4>4. rows[currentRunId].status \notin EndStatuses
        BY <4>2 DEF CurrentInv, Exposed
      <4> QED BY <4>1, <4>3, <4>4 DEF Absent, None, EndStatuses
    <3>3. CASE ~HistoryArrives /\ CurrentBegun
      BY <3>3 DEF CurrentBegun, EndStatuses
    <3>4. CASE ~HistoryArrives /\ CurrentKept
      <4>1. Exposed(currentRunId)
        <5>1. currentRunId' = currentRunId
          BY <3>4 DEF CurrentKept
        <5>2. CASE load' = load
          BY <5>1, <5>2 DEF Exposed
        <5>3. CASE load' = Idle
          BY <5>1, <5>3 DEF Exposed, Idle
        <5>4. CASE AnswerHistory
          <6>1. ASSUME NEW p \in Prompts, currentRunId = Run(p),
                       load'.kind = "recent", load'.answer[p] = None
                PROVE  FALSE
            BY <5>4, <6>1 DEF AnswerHistory, CurrentInv, HeardOf, Accepted
          <6> QED BY <5>1, <6>1 DEF Exposed
        <5> QED BY <2>2, <5>2, <5>3, <5>4
      <4> QED BY <3>4, <4>1 DEF CurrentKept, CurrentInv
    <3> QED BY <3>1, <3>2, <3>3, <3>4, CurrentStep
  <2> QED BY <2>1, <2>3, <2>4 DEF CurrentInv
<1> QED BY <1>1, <1>2

\* Whatever history arrives while a run starts or runs, the run the ledger
\* calls current stays listed, unless it was accepted as "queued".
THEOREM CurrentIsListed == Spec => CurrentStaysListed
<1>1. ASSUME Typed, CurrentInv, Next, currentRunId # NoId, Listed(currentRunId),
             rows[currentRunId].status # "queued"
      PROVE  currentRunId' = NoId \/ Listed(currentRunId)'
  <2>1. CASE HistoryArrives
    BY <1>1, <2>1, CurrentHistory DEF Listed
  <2>2. CASE ~HistoryArrives
    BY <1>1, <2>2, CurrentStep DEF CurrentKept, CurrentBegun, Listed, None
  <2> QED BY <2>1, <2>2
<1>2. Typed /\ CurrentInv /\ [Next]_vars =>
        [(currentRunId # NoId /\ Listed(currentRunId)
            /\ rows[currentRunId].status # "queued")
            => currentRunId' = NoId \/ Listed(currentRunId)']_vars
  BY <1>1
<1> QED
  BY <1>2, InitTyped, NextTyped, InitCurrentInv, NextCurrentInv, PTL
     DEF Spec, CurrentStaysListed
=============================================================================
