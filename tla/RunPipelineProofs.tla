------------------------- MODULE RunPipelineProofs -------------------------
(***************************************************************************)
(* Safety of the CLI runs, alone and with the ledger their events are      *)
(* written to, for any number of runs, streams and stops, with writes that *)
(* fail at any moment.                                                     *)
(***************************************************************************)
EXTENDS RunPipeline, TLAPS

-----------------------------------------------------------------------------
(* The runs and their streams *)

\* What each place of the generator says of its run and its process.
Stage(s) ==
  /\ pc[s] = "idle" \/ target[s] \in started
  /\ gone[s] => pc[s] # "idle"
  /\ pc[s] \in {"idle", "opened", "warned"} => proc[s] = None
  /\ pc[s] \in {"spawning"} \cup InTry => proc[s] # None
  /\ pc[s] \in {"killing", "ejecting"} => ~Running(s)
  /\ pc[s] = "last" /\ out[s] # "run.interrupted" => ~Running(s)
  /\ pc[s] = "done" /\ Running(s) => gone[s]
  /\ pc[s] \in {"last", "done"} /\ proc[s] # None =>
       gone[s] \/ target[s] \notin active

\* asyncio knows only of an exit that happened.
ExitKnown(s) == code[s] # None => proc[s] \in Exits

\* The inductive invariant.
IInv ==
  /\ TypeOK
  /\ HandleIsFollowed
  /\ \A s \in Streams : Stage(s) /\ ExitKnown(s)

LEMMA InitIInv == Init => IInv
BY DEF Init, IInv, TypeOK, HandleIsFollowed, Stage, ExitKnown, None, Stages,
       InTry, Ended, Exits, Events, Alive, Running

\* start_run and stop_run touch no stream's process but by signalling it.
LEMMA RequestIInv ==
  ASSUME IInv, NEW r \in Runs,
         StartRun(r) \/ \E k \in Stops : StopRun(k, r)
  PROVE  IInv'
<1> USE DEF IInv, TypeOK, streamVars, procVars, Running
<1>1. CASE StartRun(r)
  BY <1>1 DEF StartRun, HandleIsFollowed, Stage, ExitKnown
<1>2. ASSUME NEW k \in Stops, StopRun(k, r) PROVE IInv'
  <2>1. UNCHANGED <<started, handle, target, pc, out, late, gone, proc, code>>
    BY <1>2 DEF StopRun
  <2>2. active' \subseteq active
    BY <1>2 DEF StopRun
  <2>3. termed' \in [Streams -> BOOLEAN]
    BY <1>2 DEF StopRun
  <2>4. reply' \in [Stops -> [answer : {None, "stopping", "cancelled", "not_found"},
                              run : Runs \cup {None}]]
    <3>1. PICK a \in {"stopping", "cancelled", "not_found"} :
            reply' = [reply EXCEPT ![k] = [answer |-> a, run |-> r]]
      BY <1>2 DEF StopRun, Answer
    <3> QED BY <3>1
  <2> QED
    BY <2>1, <2>2, <2>3, <2>4 DEF HandleIsFollowed, Stage, ExitKnown
<1> QED BY <1>1, <1>2

\* The steps of a generator outside its try block.
LEMMA OutsideIInv ==
  ASSUME IInv, NEW s \in Streams,
         \/ \E r \in Runs : Open(s, r)
         \/ Proceed(s) \/ Spawn(s) \/ Finish(s) \/ Disconnect(s)
         \/ DeadlinePasses(s)
  PROVE  IInv'
<1> USE DEF IInv, TypeOK, HandleIsFollowed, Stage, ExitKnown, registry,
            streamVars, procVars, None, Stages, InTry, Ended, Exits, Events,
            Go, Alive, Running
<1>1. ASSUME NEW r \in Runs, Open(s, r) PROVE IInv'
  BY <1>1 DEF Open
<1>2. CASE Proceed(s)         BY <1>2 DEF Proceed
<1>3. CASE Spawn(s)           BY <1>3 DEF Spawn
<1>4. CASE Finish(s)          BY <1>4 DEF Finish
<1>5. CASE Disconnect(s)      BY <1>5 DEF Disconnect
<1>6. CASE DeadlinePasses(s)  BY <1>6 DEF DeadlinePasses
<1> QED BY <1>1, <1>2, <1>3, <1>4, <1>5, <1>6

\* The steps within the try block that leave the registries alone.
LEMMA WithinIInv ==
  ASSUME IInv, NEW s \in Streams,
         \/ SpawnReturns(s) \/ ReadChunk(s) \/ Ping(s) \/ Resume(s)
         \/ ResumeTooLate(s) \/ ReadEof(s) \/ DrainTimesOut(s) \/ KillReturns(s)
  PROVE  IInv'
<1> USE DEF IInv, TypeOK, HandleIsFollowed, Stage, ExitKnown, registry,
            streamVars, procVars, None, Stages, InTry, Ended, Exits, Events,
            Go, Alive, Running
<1>1. CASE SpawnReturns(s)   BY <1>1 DEF SpawnReturns
<1>2. CASE ReadChunk(s)      BY <1>2 DEF ReadChunk
<1>3. CASE Ping(s)           BY <1>3 DEF Ping
<1>4. CASE Resume(s)         BY <1>4 DEF Resume
<1>5. CASE ResumeTooLate(s)  BY <1>5 DEF ResumeTooLate, Kill
<1>6. CASE ReadEof(s)        BY <1>6 DEF ReadEof, Exited
<1>7. CASE DrainTimesOut(s)  BY <1>7 DEF DrainTimesOut, Kill
<1>8. CASE KillReturns(s)    BY <1>8 DEF KillReturns
<1> QED BY <1>1, <1>2, <1>3, <1>4, <1>5, <1>6, <1>7, <1>8

\* The steps that leave the try block: no process of the run stays registered,
\* so none that is left behind can be found by a stop.
LEMMA LeavingIInv ==
  ASSUME IInv, NEW s \in Streams,
         ReadRaises(s) \/ Drained(s) \/ Eject(s) \/ Close(s)
  PROVE  IInv'
<1> USE DEF IInv, TypeOK, HandleIsFollowed, Stage, ExitKnown, registry,
            streamVars, procVars, None, Stages, InTry, Ended, Exits, Events,
            Go, Alive, Running,
            Unregister
<1>1. CASE ReadRaises(s)  BY <1>1 DEF ReadRaises
<1>2. CASE Drained(s)     BY <1>2 DEF Drained
<1>3. CASE Eject(s)       BY <1>3 DEF Eject
<1>4. CASE Close(s)
  <2>1. CASE pc[s] \in InTry
    BY <1>4, <2>1 DEF Close
  <2>2. CASE pc[s] = "spawning"
    BY <1>4, <2>2 DEF Close, Kill
  <2>3. CASE pc[s] \notin InTry \cup {"spawning"}
    BY <1>4, <2>3 DEF Close
  <2> QED BY <2>1, <2>2, <2>3
<1> QED BY <1>1, <1>2, <1>3, <1>4

\* The CLI process itself.
LEMMA ProcessIInv ==
  ASSUME IInv, NEW s \in Streams,
         \/ \E result \in {"ok", "fail"} : CliExits(s, result)
         \/ CliClosesStdout(s)
         \/ NoticeExit(s)
  PROVE  IInv'
<1> USE DEF IInv, TypeOK, HandleIsFollowed, Stage, ExitKnown, registry,
            streamVars, procVars, None, InTry, Exits, Alive, Running
<1>1. ASSUME NEW result \in {"ok", "fail"}, CliExits(s, result) PROVE IInv'
  BY <1>1 DEF CliExits
<1>2. CASE CliClosesStdout(s)
  BY <1>2 DEF CliClosesStdout
<1>3. CASE NoticeExit(s)
  BY <1>3 DEF NoticeExit, Exited
<1> QED BY <1>1, <1>2, <1>3

LEMMA NextIInv == IInv /\ [Next]_vars => IInv'
<1> SUFFICES ASSUME IInv, [Next]_vars PROVE IInv'
  OBVIOUS
<1>1. CASE Next
  BY <1>1, RequestIInv, OutsideIInv, WithinIInv, LeavingIInv, ProcessIInv
     DEF Next, StreamNext
<1>2. CASE UNCHANGED vars
  BY <1>2 DEF vars, registry, streamVars, procVars, IInv, TypeOK,
              HandleIsFollowed, Stage, ExitKnown, Running
<1> QED BY <1>1, <1>2

\* The inductive invariant of the runs holds in every state.
THEOREM Inductive == Spec => []IInv
BY InitIInv, NextIInv, PTL DEF Spec

\* Every variable keeps its type.
THEOREM TypeCorrect == Spec => []TypeOK
BY Inductive, PTL DEF IInv

\* A stop only ever signals a process that a stream of the run still follows.
THEOREM HandleCorrect == Spec => []HandleIsFollowed
BY Inductive, PTL DEF IInv

\* Only a lost client or a broken stream leaves a CLI process behind.
THEOREM OrphanCorrect == Spec => []OrphanOnlyAfterLoss
<1>1. IInv => OrphanOnlyAfterLoss
  BY DEF IInv, Stage, OrphanOnlyAfterLoss, Running, Ended
<1> QED BY <1>1, Inductive, PTL

\* A run that was followed to its end is not executed again.
THEOREM ReopenCorrect == Spec => EndedRunIsNotReopened
<1>1. ASSUME IInv, [Next]_vars, NEW s \in Streams, NEW t \in Streams,
             pc[s] = "idle", pc'[s] = "opened", target[t] = target'[s],
             pc[t] = "done", proc[t] # None
      PROVE  gone[t]
  <2>1. PICK r \in Runs : Open(s, r)
    BY <1>1 DEF Next, StreamNext, vars, streamVars, StartRun, StopRun, Open, Proceed, Spawn,
                SpawnReturns, ReadChunk, Ping, Resume, ResumeTooLate, ReadEof,
                ReadRaises, Drained, DrainTimesOut, KillReturns, Eject, Finish,
                Disconnect, Close, DeadlinePasses, CliExits,
                CliClosesStdout, NoticeExit, Go, IInv, TypeOK
  <2>2. r \in active /\ target'[s] = r
    BY <1>1, <2>1 DEF Open, Go, IInv, TypeOK
  <2>3. Stage(t)
    BY <1>1 DEF IInv
  <2> QED BY <1>1, <2>2, <2>3 DEF Stage
<1>2. IInv /\ [Next]_vars =>
        [\A s, t \in Streams :
           (/\ pc[s] = "idle" /\ pc'[s] = "opened"
            /\ target[t] = target'[s] /\ pc[t] = "done" /\ proc[t] # None)
           => gone[t]]_vars
  BY <1>1
<1> QED BY <1>2, Inductive, PTL DEF Spec, EndedRunIsNotReopened

-----------------------------------------------------------------------------
(* What a stop finds *)

\* Another stream was opened for the run of s.
Rivalled(s) ==
  \E t \in Streams \ {s} : pc[t] # "idle" /\ target[t] = target[s]

\* The inductive invariant: only a rival unregisters a stream's process.
HInv ==
  \A s \in Streams :
    pc[s] \in InTry => handle[target[s]] = s \/ Rivalled(s)

\* A step of a stream touches the entry of its own run only, and never leaves
\* its process unregistered while it follows it.
LEMMA StreamHandles ==
  ASSUME IInv, NEW s \in Streams, StreamNext(s)
  PROVE  /\ pc[s] = "idle" \/ target'[s] = target[s]
         /\ pc'[s] # "idle"
         /\ \A t \in Streams \ {s} : target'[t] = target[t] /\ pc'[t] = pc[t]
         /\ \A r \in Runs : r # target[s] => handle'[r] = handle[r]
         /\ pc'[s] \in InTry =>
              \/ handle'[target[s]] = s
              \/ pc[s] \in InTry /\ UNCHANGED handle
<1> DEFINE Goal ==
         /\ pc[s] = "idle" \/ target'[s] = target[s]
         /\ pc'[s] # "idle"
         /\ \A t \in Streams \ {s} : target'[t] = target[t] /\ pc'[t] = pc[t]
         /\ \A r \in Runs : r # target[s] => handle'[r] = handle[r]
         /\ pc'[s] \in InTry =>
              \/ handle'[target[s]] = s
              \/ pc[s] \in InTry /\ UNCHANGED handle
<1> USE DEF IInv, TypeOK, Stage, registry, streamVars, procVars, Stages, InTry,
            Ended, Go, Running, Alive, Exited, Exits, None, Unregister
<1>1. ASSUME NEW r \in Runs, Open(s, r) PROVE Goal
  BY <1>1 DEF Open
<1>2. CASE Proceed(s) \/ Spawn(s)
  BY <1>2 DEF Proceed, Spawn
<1>3. CASE SpawnReturns(s)
  BY <1>3 DEF SpawnReturns
<1>4. CASE ReadChunk(s) \/ Ping(s) \/ Resume(s) \/ ReadEof(s)
  BY <1>4 DEF ReadChunk, Ping, Resume, ReadEof
<1>5. CASE ResumeTooLate(s) \/ DrainTimesOut(s) \/ KillReturns(s)
  BY <1>5 DEF ResumeTooLate, DrainTimesOut, KillReturns
<1>6. CASE ReadRaises(s) \/ Drained(s) \/ Eject(s)
  BY <1>6 DEF ReadRaises, Drained, Eject
<1>7. CASE Finish(s) \/ Disconnect(s) \/ DeadlinePasses(s)
  BY <1>7 DEF Finish, Disconnect, DeadlinePasses
<1>8. CASE Close(s)
  BY <1>8 DEF Close
<1>9. ASSUME NEW result \in {"ok", "fail"}, CliExits(s, result) PROVE Goal
  BY <1>9 DEF CliExits
<1>10. CASE CliClosesStdout(s) \/ NoticeExit(s)
  BY <1>10 DEF CliClosesStdout, NoticeExit
<1> QED
  BY <1>1, <1>2, <1>3, <1>4, <1>5, <1>6, <1>7, <1>8, <1>9, <1>10
     DEF StreamNext

LEMMA InitHInv == Init => HInv
BY DEF Init, HInv, InTry

LEMMA NextHInv == IInv /\ HInv /\ [Next]_vars => HInv'
<1> SUFFICES ASSUME IInv, HInv, [Next]_vars PROVE HInv'
  OBVIOUS
<1>1. CASE \E r \in Runs : StartRun(r) \/ \E k \in Stops : StopRun(k, r)
  <2>1. UNCHANGED <<handle, target, pc>>
    BY <1>1 DEF StartRun, StopRun, streamVars
  <2> QED BY <2>1 DEF HInv, Rivalled
<1>2. ASSUME NEW s \in Streams, StreamNext(s) PROVE HInv'
  <2>1. /\ pc[s] = "idle" \/ target'[s] = target[s]
        /\ pc'[s] # "idle"
        /\ \A t \in Streams \ {s} : target'[t] = target[t] /\ pc'[t] = pc[t]
        /\ \A r \in Runs : r # target[s] => handle'[r] = handle[r]
    BY <1>2, StreamHandles
  <2>2. \A t \in Streams : pc[t] # "idle" =>
          target'[t] = target[t] /\ target[t] \in Runs /\ pc'[t] # "idle"
    BY <2>1 DEF IInv, TypeOK, Stage
  <2>3. \A t \in Streams : pc[t] # "idle" /\ Rivalled(t) => Rivalled(t)'
    BY <2>2 DEF Rivalled
  <2>4. ASSUME NEW t \in Streams, t # s, pc'[t] \in InTry
        PROVE  handle'[target'[t]] = t \/ Rivalled(t)'
    <3>1. pc[t] \in InTry /\ pc[t] # "idle"
      BY <2>1, <2>4 DEF InTry
    <3>2. CASE pc[s] # "idle" /\ target[s] = target[t]
      BY <2>1, <2>2, <2>4, <3>1, <3>2 DEF Rivalled
    <3>3. CASE pc[s] # "idle" /\ target[s] # target[t]
      BY <2>1, <2>2, <2>3, <3>1, <3>3 DEF HInv
    <3>4. CASE pc[s] = "idle"
      <4>1. UNCHANGED handle
        BY <1>2, <3>4 DEF StreamNext, Open, Proceed, Spawn, SpawnReturns,
             ReadChunk, Ping, Resume, ResumeTooLate, ReadEof, ReadRaises,
             Drained, DrainTimesOut, KillReturns, Eject, Finish, Disconnect,
             Close, DeadlinePasses, CliExits, CliClosesStdout, NoticeExit,
             registry, InTry, IInv, Stage, Ended
      <4> QED BY <2>2, <2>3, <3>1, <4>1 DEF HInv
    <3> QED BY <3>2, <3>3, <3>4
  <2>5. ASSUME pc'[s] \in InTry
        PROVE  handle'[target'[s]] = s \/ Rivalled(s)'
    <3>1. pc[s] # "idle"
      BY <1>2, <2>5 DEF StreamNext, Open, Proceed, Spawn, SpawnReturns,
           ReadChunk, Ping, Resume, ResumeTooLate, ReadEof, ReadRaises,
           Drained, DrainTimesOut, KillReturns, Eject, Finish, Disconnect,
           Close, DeadlinePasses, CliExits, CliClosesStdout, NoticeExit,
           streamVars, InTry, IInv, TypeOK, Go, Stage, Running, Alive, Exited, Exits, None
    <3>2. \/ handle'[target[s]] = s
          \/ pc[s] \in InTry /\ UNCHANGED handle
      BY <1>2, <2>5, StreamHandles
    <3> QED BY <2>2, <2>3, <3>1, <3>2 DEF HInv
  <2> QED BY <2>4, <2>5 DEF HInv
<1>3. CASE UNCHANGED vars
  BY <1>3 DEF vars, registry, streamVars, HInv, Rivalled
<1> QED BY <1>1, <1>2, <1>3 DEF Next

\* A stop that signals nobody misses a live CLI that a connected stream
\* follows only when another stream of the same run was opened as well.
THEOREM StopCorrect == Spec => StopFindsRun
<1>1. ASSUME IInv, HInv, [Next]_vars, NEW k \in Stops, NEW s \in Streams,
             reply'[k] # reply[k], reply'[k].answer # "stopping",
             target[s] = reply'[k].run, Running(s), pc[s] \in InTry
      PROVE  \E t \in Streams \ {s} : target[t] = target[s]
  <2>1. PICK r \in Runs, j \in Stops : StopRun(j, r)
    BY <1>1 DEF Next, StreamNext, vars, StartRun, Open, Proceed, Spawn,
                SpawnReturns, ReadChunk, Ping, Resume, ResumeTooLate, ReadEof,
                ReadRaises, Drained, DrainTimesOut, KillReturns, Eject, Finish,
                Disconnect, Close, DeadlinePasses, CliExits,
                CliClosesStdout, NoticeExit
  <2>2. PICK a : reply' = [reply EXCEPT ![j] = [answer |-> a, run |-> r]]
    BY <2>1 DEF StopRun, Answer
  <2>3. j = k /\ reply'[k].run = r /\ reply'[k].answer = a
    BY <1>1, <2>2 DEF IInv, TypeOK
  <2>4. ~Stoppable(r) /\ target[s] = r
    BY <1>1, <2>1, <2>2, <2>3 DEF StopRun, Answer, IInv, TypeOK
  <2>5. handle[r] # s
    BY <1>1, <2>4, StreamsAssumption
       DEF Stoppable, IInv, ExitKnown, Running, Alive, Exits, None
  <2> QED BY <1>1, <2>4, <2>5 DEF HInv, Rivalled
<1>2. Spec => [](IInv /\ HInv)
  BY InitIInv, NextIInv, InitHInv, NextHInv, PTL DEF Spec
<1>3. IInv /\ HInv /\ [Next]_vars =>
        [\A k \in Stops, s \in Streams :
           (/\ reply'[k] # reply[k] /\ reply'[k].answer # "stopping"
            /\ target[s] = reply'[k].run /\ Running(s) /\ pc[s] \in InTry)
           => \E t \in Streams \ {s} : target[t] = target[s]]_vars
  BY <1>1
<1> QED BY <1>2, <1>3, PTL DEF Spec, StopFindsRun

-----------------------------------------------------------------------------
(* The runs with the ledger *)

\* A stream that reports success follows a CLI that has succeeded.
Honest(s) ==
  /\ code[s] = "ok" => proc[s] = "ok"
  /\ pc[s] = "last" /\ out[s] \in {"assistant.completed", "run.completed"} =>
       proc[s] = "ok"
  /\ pc[s] \in {"idle", "opened", "warned"} => proc[s] = None

StreamTypes ==
  /\ target \in [Streams -> Runs \cup {None}]
  /\ pc \in [Streams -> Stages]
  /\ out \in [Streams -> Events \cup {None}]
  /\ proc \in [Streams -> {None} \cup Alive \cup Exits]
  /\ code \in [Streams -> {None} \cup Exits]
  /\ gone \in [Streams -> BOOLEAN]
  /\ started \subseteq Runs

\* What holds of the streams, whatever the ledger does.
SInv ==
  /\ StreamTypes
  /\ \A s \in Streams : Honest(s)
  /\ \A s \in Streams : pc[s] # "idle" => target[s] \in started
  /\ \A s \in Streams : gone[s] => pc[s] # "idle"

\* The inductive invariant.
PInv ==
  /\ SInv
  /\ PipelineTypeOK
  /\ CompletedMeansExited

\* A success is kept, and stays with its run.
Kept ==
  \A s \in Streams :
    proc[s] = "ok" => proc'[s] = "ok" /\ target'[s] = target[s]

LEMMA InitPInv == PipelineInit => PInv
BY DEF PipelineInit, Init, PInv, SInv, StreamTypes, PipelineTypeOK, Honest,
       CompletedMeansExited, Stages, Ended, InTry, Alive, Exits, Events, None,
       Ledger!NoRow, Ledger!Row, Ledger!None, Ledger!Never,
       Ledger!FirstStatuses, Ledger!EndStatuses

-----------------------------------------------------------------------------
(* The streams *)

\* start_run and stop_run leave the streams alone.
LEMMA RequestSInv ==
  ASSUME SInv, NEW r \in Runs,
         StartRun(r) \/ \E k \in Stops : StopRun(k, r)
  PROVE  SInv' /\ Kept /\ started \subseteq started'
<1>1. /\ UNCHANGED <<target, pc, out, gone, proc, code>>
      /\ started' \subseteq started \cup {r}
      /\ started \subseteq started'
  BY DEF StartRun, StopRun, streamVars, procVars
<1> QED BY <1>1 DEF SInv, StreamTypes, Honest, Kept

\* A step of a stream keeps the streams honest, and reports a success only
\* for a CLI that has succeeded.
LEMMA StreamSInv ==
  ASSUME SInv, NEW s \in Streams, StreamNext(s)
  PROVE  /\ SInv' /\ Kept /\ UNCHANGED started
         /\ target'[s] \in started
         /\ out'[s] = "run.completed" /\ out'[s] # out[s] => proc[s] = "ok"
<1> DEFINE Goal == /\ SInv' /\ Kept /\ UNCHANGED started
                   /\ target'[s] \in started
                   /\ out'[s] = "run.completed" /\ out'[s] # out[s] =>
                        proc[s] = "ok"
<1> USE DEF SInv, StreamTypes, Honest, Kept, Stages, InTry, Ended, Exits,
            Alive, Events, None, Go, registry, streamVars, procVars, Running,
            Exited
<1>1. ASSUME NEW r \in Runs, Open(s, r) PROVE Goal
  BY <1>1 DEF Open
<1>2. CASE Proceed(s) \/ Spawn(s) \/ SpawnReturns(s)
  BY <1>2 DEF Proceed, Spawn, SpawnReturns
<1>3. CASE ReadChunk(s) \/ Ping(s) \/ Resume(s) \/ ReadEof(s)
  BY <1>3 DEF ReadChunk, Ping, Resume, ReadEof
<1>4. CASE ResumeTooLate(s) \/ DrainTimesOut(s)
  BY <1>4 DEF ResumeTooLate, DrainTimesOut, Kill
<1>5. CASE ReadRaises(s) \/ Drained(s) \/ KillReturns(s) \/ Eject(s)
  BY <1>5 DEF ReadRaises, Drained, KillReturns, Eject
<1>6. CASE Finish(s)
  BY <1>6 DEF Finish
<1>7. CASE Close(s)
  <2>1. CASE pc[s] = "spawning"
    BY <1>7, <2>1 DEF Close, Kill
  <2>2. CASE pc[s] # "spawning"
    BY <1>7, <2>2 DEF Close
  <2> QED BY <2>1, <2>2
<1>8. CASE Disconnect(s) \/ DeadlinePasses(s)
  BY <1>8 DEF Disconnect, DeadlinePasses
<1>9. CASE CliClosesStdout(s) \/ NoticeExit(s)
  BY <1>9 DEF CliClosesStdout, NoticeExit
<1>10. ASSUME NEW result \in {"ok", "fail"}, CliExits(s, result) PROVE Goal
  BY <1>10 DEF CliExits
<1> QED
  BY <1>1, <1>2, <1>3, <1>4, <1>5, <1>6, <1>7, <1>8, <1>9, <1>10
     DEF StreamNext

-----------------------------------------------------------------------------
(* The ledger *)

\* An event makes a row completed only if it says so.
LEMMA AppendCompletes ==
  ASSUME NEW r \in Runs, NEW type, NEW old, old = runs[r],
         old \in Ledger!Row,
         old.status \in {None, "running"} \cup Ledger!EndStatuses,
         NEW row,
         row = Ledger!Updated(Ledger!Ensured(r, type, Now), type, Now)
  PROVE  /\ row \in Ledger!Row
         /\ row.status \in {"running"} \cup Ledger!EndStatuses
         /\ row.status = "completed" =>
              old.status = "completed" \/ type = "run.completed"
<1> USE DEF Ledger!Row, Ledger!Updated, Ledger!Ensured, Ledger!StatusOf,
            Ledger!ErrorOf, Ledger!Terminal, Ledger!EndStatuses,
            Ledger!FirstStatuses, Ledger!None, Ledger!Never, None, Now
<1>1. CASE type = "run.started"
  BY <1>1
<1>2. CASE type \in Ledger!Terminal
  BY <1>2
<1>3. CASE type \notin Ledger!Terminal \cup {"run.started"}
  BY <1>3
<1> QED BY <1>1, <1>2, <1>3

\* Writing one row of a run, or losing the write, is all a route does.
LEMMA WritePInv ==
  ASSUME PInv, SInv', Kept, started \subseteq started',
         NEW r \in started', NEW row \in Ledger!Row,
         row.status \in {None, "running"} \cup Ledger!EndStatuses,
         row.status = "completed" =>
           runs[r].status = "completed"
             \/ \E s \in Streams : target'[s] = r /\ proc'[s] = "ok",
         Write(r, [runs EXCEPT ![r] = row])
  PROVE  PInv'
<1>1. runs \in [Runs -> Ledger!Row] /\ r \in Runs
  BY DEF PInv, PipelineTypeOK, SInv, StreamTypes
<1>2. \/ runs' = [runs EXCEPT ![r] = row] /\ lost' = lost
      \/ runs' = runs /\ lost' = lost \cup {r}
  BY DEF Write
<1>3. PipelineTypeOK'
  BY <1>1, <1>2 DEF PInv, PipelineTypeOK
<1>4. CompletedMeansExited'
  <2> SUFFICES ASSUME NEW q \in Runs, runs'[q].status = "completed"
               PROVE  \E s \in Streams : target'[s] = q /\ proc'[s] = "ok"
    BY DEF CompletedMeansExited
  <2>1. CASE runs[q].status = "completed"
    <3>1. PICK s \in Streams : target[s] = q /\ proc[s] = "ok"
      BY <2>1 DEF PInv, CompletedMeansExited
    <3> QED BY <3>1 DEF Kept
  <2>2. CASE runs[q].status # "completed"
    <3>1. q = r /\ row.status = "completed"
      BY <1>1, <1>2, <2>2
    <3> QED BY <2>2, <3>1
  <2> QED BY <2>1, <2>2
<1> QED BY <1>3, <1>4 DEF PInv

LEMMA StartPInv ==
  ASSUME PInv, NEW r \in Runs, StartRoute(r)
  PROVE  PInv'
<1>1. SInv' /\ Kept /\ started \subseteq started'
  BY RequestSInv DEF StartRoute, PInv
<1>2. r \in started'
  BY DEF StartRoute, StartRun
<1> DEFINE old == runs[r]
           row == [status |-> "running",
                   started |-> IF old.status = None THEN Now ELSE old.started,
                   completed |-> old.completed,
                   error |-> old.error]
<1>3. old \in Ledger!Row
  BY DEF PInv, PipelineTypeOK
<1>4. row \in Ledger!Row
  BY <1>3 DEF Ledger!Row, Ledger!FirstStatuses, Now
<1>5. Write(r, [runs EXCEPT ![r] = row])
  BY DEF StartRoute, Ledger!Created, Ledger!None, None
<1> HIDE DEF old
<1>6. row.status = "running"
  OBVIOUS
<1> HIDE DEF row
<1> QED BY <1>1, <1>2, <1>4, <1>5, <1>6, WritePInv

LEMMA EventPInv ==
  ASSUME PInv, NEW s \in Streams, EventRoute(s)
  PROVE  PInv'
<1>1. /\ SInv' /\ Kept /\ UNCHANGED started
      /\ target'[s] \in started
      /\ out'[s] = "run.completed" /\ out'[s] # out[s] => proc[s] = "ok"
  BY StreamSInv DEF EventRoute, PInv
<1>2. CASE Emitted(s) = None
  <2>1. UNCHANGED <<runs, lost>>
    BY <1>2 DEF EventRoute
  <2> QED BY <1>1, <2>1 DEF PInv, PipelineTypeOK, CompletedMeansExited, Kept
<1>3. CASE Emitted(s) # None
  <2> DEFINE r == target'[s]
             type == Recorded(Emitted(s))
             row == Ledger!Updated(Ledger!Ensured(r, type, Now), type, Now)
  <2>1. Write(r, [runs EXCEPT ![r] = row])
    BY <1>3 DEF EventRoute, Append
  <2>2. r \in started' /\ r \in Runs
    BY <1>1 DEF PInv, SInv, StreamTypes
  <2>3. /\ runs[r] \in Ledger!Row
        /\ runs[r].status \in {None, "running"} \cup Ledger!EndStatuses
    BY <1>1, <2>2 DEF PInv, PipelineTypeOK
  <2>4. /\ row \in Ledger!Row
        /\ row.status \in {"running"} \cup Ledger!EndStatuses
        /\ row.status = "completed" =>
             runs[r].status = "completed" \/ type = "run.completed"
    BY <2>3, <2>2, AppendCompletes
  <2>5. type = "run.completed" => target'[s] = r /\ proc'[s] = "ok"
    BY <1>1 DEF Recorded, Emitted, None, Kept
  <2> HIDE DEF r, type, row
  <2> QED BY <1>1, <2>1, <2>4, <2>5, <2>2, WritePInv
<1> QED BY <1>2, <1>3

LEMMA NextPInv == PInv /\ [PipelineNext]_pipelineVars => PInv'
<1> SUFFICES ASSUME PInv, [PipelineNext]_pipelineVars PROVE PInv'
  OBVIOUS
<1>1. ASSUME NEW r \in Runs, NEW k \in Stops, StopRoute(k, r) PROVE PInv'
  BY <1>1, RequestSInv
     DEF StopRoute, PInv, PipelineTypeOK, CompletedMeansExited, Kept
<1>2. CASE UNCHANGED pipelineVars
  BY <1>2 DEF pipelineVars, vars, registry, streamVars, procVars, PInv, SInv,
              StreamTypes, Honest, PipelineTypeOK, CompletedMeansExited
<1> QED BY <1>1, <1>2, StartPInv, EventPInv DEF PipelineNext

\* That of the runs with the ledger does too.
THEOREM PipelineInductive == PipelineSpec => []PInv
BY InitPInv, NextPInv, PTL DEF PipelineSpec

\* The rows and the record of lost writes keep their types.
THEOREM PipelineTypeCorrect == PipelineSpec => []PipelineTypeOK
BY PipelineInductive, PTL DEF PInv

\* The ledger calls a run completed only when a CLI of it has succeeded.
THEOREM CompletedCorrect == PipelineSpec => []CompletedMeansExited
BY PipelineInductive, PTL DEF PInv

-----------------------------------------------------------------------------
(* A run that is recorded as ended runs nothing *)

\* The stream is past its CLI: it had none, or has seen it exit or killed it.
Over(s) ==
  /\ pc[s] \in {"killing", "ejecting", "last", "done", "broken"}
  /\ ~Running(s)

\* asyncio knows only of an exit that happened.
Known(s) == code[s] # None => proc[s] \in Exits

\* The streams that were opened for a run.
Followers(r) == {s \in Streams : target[s] = r /\ pc[s] # "idle"}

\* The inductive invariant: an end on record was reported by a stream of the
\* run, and a stream that is the only one of its run has then nothing to spawn.
EInv ==
  /\ \A s \in Streams : Known(s)
  /\ \A r \in Runs : RowEnded(r) =>
       /\ Followers(r) # {}
       /\ \A s \in Followers(r) : Followers(r) = {s} => Over(s)

LEMMA InitEInv == PipelineInit => EInv
BY DEF PipelineInit, Init, EInv, Known, Followers, RowEnded, None, Ledger!NoRow,
       Ledger!EndStatuses, Ledger!None

Ends == {"run.failed", "run.completed"}

\* A stream that reports an end is past its CLI, and stays so.
LEMMA StreamOver ==
  ASSUME SInv, NEW s \in Streams, Known(s), StreamNext(s)
  PROVE  /\ Known(s)'
         /\ Over(s) => Over(s)'
         /\ Emitted(s) \in Ends => Over(s)'
         /\ pc[s] = "idle" \/ target'[s] = target[s]
         /\ pc'[s] # "idle"
         /\ \A t \in Streams \ {s} :
              /\ target'[t] = target[t] /\ pc'[t] = pc[t]
              /\ proc'[t] = proc[t] /\ code'[t] = code[t]
<1> DEFINE Goal == /\ Known(s)'
                   /\ Over(s) => Over(s)'
                   /\ Emitted(s) \in Ends => Over(s)'
                   /\ pc[s] = "idle" \/ target'[s] = target[s]
                   /\ pc'[s] # "idle"
                   /\ \A t \in Streams \ {s} :
                        /\ target'[t] = target[t] /\ pc'[t] = pc[t]
                        /\ proc'[t] = proc[t] /\ code'[t] = code[t]
<1> USE DEF SInv, StreamTypes, Honest, Known, Over, Emitted, Ends, Awaiting,
            Stages, InTry, Ended, Exits, Alive, Events, None, Go, registry,
            streamVars, procVars, Running, Exited
<1>1. ASSUME NEW r \in Runs, Open(s, r) PROVE Goal
  BY <1>1 DEF Open
<1>2. CASE Proceed(s)  BY <1>2 DEF Proceed
<1>3. CASE Spawn(s)  BY <1>3 DEF Spawn
<1>4. CASE SpawnReturns(s)  BY <1>4 DEF SpawnReturns
<1>5. CASE ReadChunk(s) \/ Ping(s) \/ Resume(s) \/ ReadEof(s)
  BY <1>5 DEF ReadChunk, Ping, Resume, ReadEof
<1>6. CASE ResumeTooLate(s) \/ DrainTimesOut(s)
  BY <1>6 DEF ResumeTooLate, DrainTimesOut, Kill
<1>7. CASE ReadRaises(s) \/ Drained(s)
  BY <1>7 DEF ReadRaises, Drained
<1>8. CASE KillReturns(s) \/ Eject(s)
  BY <1>8 DEF KillReturns, Eject
<1>9. CASE Finish(s)
  BY <1>9 DEF Finish
<1>10. CASE Close(s)
  <2>1. CASE pc[s] = "spawning"
    BY <1>10, <2>1 DEF Close, Kill
  <2>2. CASE pc[s] # "spawning"
    BY <1>10, <2>2 DEF Close
  <2> QED BY <2>1, <2>2
<1>11. CASE Disconnect(s) \/ DeadlinePasses(s)
  BY <1>11 DEF Disconnect, DeadlinePasses
<1>12. CASE CliClosesStdout(s) \/ NoticeExit(s)
  BY <1>12 DEF CliClosesStdout, NoticeExit
<1>13. ASSUME NEW result \in {"ok", "fail"}, CliExits(s, result) PROVE Goal
  BY <1>13 DEF CliExits
<1> QED
  BY <1>1, <1>2, <1>3, <1>4, <1>5, <1>6, <1>7, <1>8, <1>9, <1>10, <1>11,
     <1>12, <1>13 DEF StreamNext

\* A row becomes ended only by an event that says so.
LEMMA AppendEnds ==
  ASSUME NEW r \in Runs, NEW type, NEW old, old = runs[r],
         old \in Ledger!Row, type # "run.cancelled",
         NEW row,
         row = Ledger!Updated(Ledger!Ensured(r, type, Now), type, Now),
         row.status \in Ledger!EndStatuses
  PROVE  old.status \in Ledger!EndStatuses \/ type \in Ends
<1> USE DEF Ledger!Row, Ledger!Updated, Ledger!Ensured, Ledger!StatusOf,
            Ledger!ErrorOf, Ledger!Terminal, Ledger!EndStatuses,
            Ledger!FirstStatuses, Ledger!None, Ledger!Never, Now, Ends
<1>1. CASE type = "run.started"
  BY <1>1
<1>2. CASE type \in Ledger!Terminal
  BY <1>2
<1>3. CASE type \notin Ledger!Terminal \cup {"run.started"}
  BY <1>3
<1> QED BY <1>1, <1>2, <1>3

LEMMA StartEInv ==
  ASSUME PInv, EInv, NEW r \in Runs, StartRoute(r)
  PROVE  EInv'
<1>1. UNCHANGED <<target, pc, proc, code>>
  BY DEF StartRoute, StartRun, streamVars, procVars
<1>2. \A q \in Runs : RowEnded(q)' => RowEnded(q)
  <2> DEFINE new == [status |-> "running",
                     started |-> IF runs[r].status = None THEN Now
                                 ELSE runs[r].started,
                     completed |-> runs[r].completed,
                     error |-> runs[r].error]
  <2>1. runs' = runs \/ runs' = [runs EXCEPT ![r] = new]
    BY DEF StartRoute, Write, Ledger!Created, Ledger!None, None
  <2>2. new.status = "running"
    OBVIOUS
  <2>3. runs \in [Runs -> Ledger!Row]
    BY DEF PInv, PipelineTypeOK
  <2> HIDE DEF new
  <2> QED BY <2>1, <2>2, <2>3 DEF RowEnded, Ledger!EndStatuses
<1> QED BY <1>1, <1>2 DEF EInv, Known, Followers, Over, Running

LEMMA EventEInv ==
  ASSUME PInv, EInv, NEW s \in Streams, EventRoute(s)
  PROVE  EInv'
<1>1. /\ Known(s)'
      /\ Over(s) => Over(s)'
      /\ Emitted(s) \in Ends => Over(s)'
      /\ pc[s] = "idle" \/ target'[s] = target[s]
      /\ pc'[s] # "idle"
      /\ \A t \in Streams \ {s} :
           /\ target'[t] = target[t] /\ pc'[t] = pc[t]
           /\ proc'[t] = proc[t] /\ code'[t] = code[t]
  BY StreamOver DEF EventRoute, PInv, EInv
<1>2. target'[s] \in Runs
  BY StreamSInv DEF EventRoute, PInv, SInv, StreamTypes
<1>3. \A r \in Runs : RowEnded(r)' =>
        RowEnded(r) \/ (r = target'[s] /\ Emitted(s) \in Ends)
  <2>1. CASE Emitted(s) = None
    BY <2>1 DEF EventRoute, RowEnded
  <2>2. CASE Emitted(s) # None
    <3> DEFINE r == target'[s]
               type == Recorded(Emitted(s))
               row == Ledger!Updated(Ledger!Ensured(r, type, Now), type, Now)
    <3>1. runs' = runs \/ runs' = [runs EXCEPT ![r] = row]
      BY <2>2 DEF EventRoute, Append, Write
    <3>2. Emitted(s) # "run.cancelled"
      BY StreamSInv DEF EventRoute, Emitted, PInv, SInv, StreamTypes, Events, None
    <3>3. type # "run.cancelled" /\ (type \in Ends => Emitted(s) \in Ends)
      BY <3>2 DEF Recorded, Ends
    <3>5. runs \in [Runs -> Ledger!Row]
      BY DEF PInv, PipelineTypeOK
    <3>6. r \in Runs
      BY <1>2
    <3>4. row.status \in Ledger!EndStatuses =>
            RowEnded(r) \/ Emitted(s) \in Ends
      <4> HIDE DEF type
      <4> QED BY <3>3, <3>5, <3>6, AppendEnds DEF RowEnded
    <3> HIDE DEF r, type, row
    <3>7. \A q \in Runs : RowEnded(q)' =>
            RowEnded(q) \/ (q = r /\ Emitted(s) \in Ends)
      BY <3>1, <3>4, <3>5, <3>6 DEF RowEnded
    <3> QED BY <3>7 DEF r
  <2> QED BY <2>1, <2>2
<1>4. \A r \in Runs : Followers(r) \subseteq Followers(r)'
  BY <1>1 DEF Followers
<1>5. \A r \in Runs : r = target'[s] => s \in Followers(r)'
  BY <1>1 DEF Followers
<1>6. ASSUME NEW r \in Runs, RowEnded(r)'
      PROVE  /\ Followers(r)' # {}
             /\ \A t \in Followers(r)' : Followers(r)' = {t} => Over(t)'
  <2>1. CASE r = target'[s] /\ Emitted(s) \in Ends
    <3>1. s \in Followers(r)'
      BY <1>5, <2>1
    <3> QED BY <1>1, <2>1, <3>1
  <2>2. CASE RowEnded(r)
    <3>1. Followers(r) # {} /\ Followers(r) \subseteq Followers(r)'
      BY <1>4, <2>2 DEF EInv
    <3>2. ASSUME NEW t \in Followers(r)', Followers(r)' = {t}
          PROVE  Over(t)'
      <4>1. Followers(r) = {t} /\ t \in Streams
        BY <3>1, <3>2 DEF Followers
      <4>2. Over(t)
        BY <2>2, <4>1 DEF EInv
      <4> QED BY <1>1, <4>1, <4>2 DEF Over, Running
    <3> QED BY <3>1, <3>2
  <2> QED BY <1>3, <1>6, <2>1, <2>2
<1>7. \A t \in Streams : Known(t)'
  BY <1>1 DEF EInv, Known
<1> QED BY <1>6, <1>7 DEF EInv

LEMMA NextEInv == PInv /\ EInv /\ [PipelineNext]_pipelineVars => EInv'
<1> SUFFICES ASSUME PInv, EInv, [PipelineNext]_pipelineVars PROVE EInv'
  OBVIOUS
<1>1. ASSUME NEW r \in Runs, NEW k \in Stops, StopRoute(k, r) PROVE EInv'
  <2>1. UNCHANGED <<target, pc, proc, code, runs>>
    BY <1>1 DEF StopRoute, StopRun, streamVars
  <2> QED BY <2>1 DEF EInv, Known, RowEnded, Followers, Over, Running
<1>2. CASE UNCHANGED pipelineVars
  <2>1. UNCHANGED <<target, pc, proc, code, runs>>
    BY <1>2 DEF pipelineVars, vars, streamVars, procVars
  <2> QED BY <2>1 DEF EInv, Known, RowEnded, Followers, Over, Running
<1> QED BY <1>1, <1>2, StartEInv, EventEInv DEF PipelineNext

\* The ledger never calls a run ended while a CLI of it still runs, unless a
\* second stream was opened for the run.
THEOREM EndedCorrect == PipelineSpec => []EndedRunsNothing
<1>1. PInv /\ EInv => EndedRunsNothing
  <2> SUFFICES ASSUME PInv, EInv, NEW s \in Streams, Running(s),
                      RowEnded(target[s])
               PROVE  Shared(s)
    BY DEF EndedRunsNothing
  <2>1. s \in Followers(target[s]) /\ target[s] \in Runs
    BY DEF PInv, SInv, StreamTypes, Honest, Followers, Running, Alive, None
  <2>2. Followers(target[s]) # {s}
    BY <2>1 DEF EInv, Over
  <2> QED BY <2>1, <2>2 DEF Followers, Shared
<1>2. PipelineSpec => [](PInv /\ EInv)
  <2>1. PipelineInit => PInv /\ EInv
    BY InitPInv, InitEInv
  <2>2. PInv /\ EInv /\ [PipelineNext]_pipelineVars => (PInv /\ EInv)'
    BY NextPInv, NextEInv
  <2> QED BY <2>1, <2>2, PTL DEF PipelineSpec
<1> QED BY <1>1, <1>2, PTL

-----------------------------------------------------------------------------
(* The end of a stream is the end of its run *)

\* The event a stream is suspended on, where the next step depends on it.
Says(s) ==
  /\ pc[s] \in {"idle", "spawning", "reading", "draining", "killing"} =>
       out[s] = None
  /\ pc[s] = "ejecting" => out[s] \in {"run.failed", "run.disconnected"}
  /\ pc[s] = "last" =>
       out[s] \in Ends \cup {"assistant.completed", "run.interrupted"}

\* The stream is suspended on the end of its run.
Reports(s) == pc[s] \in {"ejecting", "last"} /\ out[s] \in Ends

\* The inductive invariant: an end that was reported is on record, unless the
\* write was lost or another stream of the run has its say.
RInv ==
  \A s \in Streams :
    /\ Says(s)
    /\ Reports(s) => \/ RowEnded(target[s])
                      \/ target[s] \in lost
                      \/ Followers(target[s]) # {s}

LEMMA InitRInv == PipelineInit => RInv
BY DEF PipelineInit, Init, RInv, Says, Reports, None

LEMMA StreamSays ==
  ASSUME SInv, NEW s \in Streams, Says(s), StreamNext(s)
  PROVE  /\ Says(s)'
         /\ Reports(s)' => \/ Emitted(s) = out'[s]
                           \/ (Reports(s) /\ Emitted(s) = None)
         /\ pc[s] # "done" /\ pc'[s] = "done" /\ ~gone[s] =>
              Reports(s) \/ out[s] = "run.disconnected"
         /\ \A t \in Streams \ {s} : out'[t] = out[t]
<1> DEFINE Goal == /\ Says(s)'
                   /\ Reports(s)' => \/ Emitted(s) = out'[s]
                                     \/ (Reports(s) /\ Emitted(s) = None)
                   /\ pc[s] # "done" /\ pc'[s] = "done" /\ ~gone[s] =>
                        Reports(s) \/ out[s] = "run.disconnected"
                   /\ \A t \in Streams \ {s} : out'[t] = out[t]
<1> USE DEF SInv, StreamTypes, Says, Reports, Emitted, Ends, Awaiting,
            Stages, InTry, Ended, Events, None, Go, registry, streamVars,
            procVars
<1>1. ASSUME NEW r \in Runs, Open(s, r) PROVE Goal
  BY <1>1 DEF Open
<1>2. CASE Proceed(s)  BY <1>2 DEF Proceed
<1>3. CASE Spawn(s)  BY <1>3 DEF Spawn
<1>4. CASE SpawnReturns(s)  BY <1>4 DEF SpawnReturns
<1>5. CASE ReadChunk(s) \/ Ping(s) \/ Resume(s) \/ ReadEof(s)
  BY <1>5 DEF ReadChunk, Ping, Resume, ReadEof
<1>6. CASE ResumeTooLate(s) \/ DrainTimesOut(s)
  BY <1>6 DEF ResumeTooLate, DrainTimesOut, Kill
<1>7. CASE ReadRaises(s) \/ Drained(s)
  BY <1>7 DEF ReadRaises, Drained
<1>8. CASE KillReturns(s) \/ Eject(s)
  BY <1>8 DEF KillReturns, Eject
<1>9. CASE Finish(s)
  BY <1>9 DEF Finish
<1>10. CASE Close(s)
  BY <1>10 DEF Close
<1>11. CASE Disconnect(s) \/ DeadlinePasses(s)
  BY <1>11 DEF Disconnect, DeadlinePasses
<1>12. CASE CliClosesStdout(s) \/ NoticeExit(s)
  BY <1>12 DEF CliClosesStdout, NoticeExit
<1>13. ASSUME NEW result \in {"ok", "fail"}, CliExits(s, result) PROVE Goal
  BY <1>13 DEF CliExits
<1> QED
  BY <1>1, <1>2, <1>3, <1>4, <1>5, <1>6, <1>7, <1>8, <1>9, <1>10, <1>11,
     <1>12, <1>13 DEF StreamNext

\* An event that says so makes a row ended.
LEMMA AppendEnded ==
  ASSUME NEW r \in Runs, runs[r] \in Ledger!Row, NEW type \in Ends
  PROVE  Ledger!Updated(Ledger!Ensured(r, type, Now), type, Now).status
           \in Ledger!EndStatuses
BY DEF Ledger!Row, Ledger!Updated, Ledger!Ensured, Ledger!StatusOf,
       Ledger!Terminal, Ledger!EndStatuses, Ends

LEMMA StartRInv ==
  ASSUME PInv, RInv, NEW r \in Runs, StartRoute(r)
  PROVE  RInv'
<1>1. UNCHANGED <<target, pc, out>> /\ r \notin started
  BY DEF StartRoute, StartRun, streamVars
<1>2. lost \subseteq lost' /\ \A q \in Runs \ {r} : runs'[q] = runs[q]
  <2>1. runs \in [Runs -> Ledger!Row]
    BY DEF PInv, PipelineTypeOK
  <2> QED BY <2>1 DEF StartRoute, Write, Ledger!Created
<1>3. \A s \in Streams : Reports(s) => target[s] \in Runs \ {r}
  BY <1>1 DEF PInv, SInv, StreamTypes, Reports
<1> QED BY <1>1, <1>2, <1>3 DEF RInv, Says, Reports, Followers, RowEnded

LEMMA EventRInv ==
  ASSUME PInv, RInv, EInv, NEW s \in Streams, EventRoute(s)
  PROVE  RInv'
<1>1. /\ Says(s)'
      /\ Reports(s)' => \/ Emitted(s) = out'[s]
                        \/ (Reports(s) /\ Emitted(s) = None)
      /\ \A t \in Streams \ {s} : out'[t] = out[t]
  BY StreamSays DEF EventRoute, PInv, RInv
<1>2. /\ pc[s] = "idle" \/ target'[s] = target[s]
      /\ pc'[s] # "idle"
      /\ \A t \in Streams \ {s} :
           target'[t] = target[t] /\ pc'[t] = pc[t]
  BY StreamOver DEF EventRoute, PInv, EInv
<1>3. target'[s] \in Runs
  BY StreamSInv DEF EventRoute, PInv, SInv, StreamTypes
<1>4. /\ lost \subseteq lost'
      /\ \A q \in Runs : q # target'[s] => runs'[q] = runs[q]
  <2>1. runs \in [Runs -> Ledger!Row]
    BY DEF PInv, PipelineTypeOK
  <2> QED BY <1>3, <2>1 DEF EventRoute, Append, Write
<1>5. \A r \in Runs : Followers(r) \subseteq Followers(r)'
  BY <1>2 DEF Followers
<1>6. ASSUME NEW t \in Streams, t # s, Reports(t)'
      PROVE  \/ RowEnded(target[t])'
             \/ target'[t] \in lost'
             \/ Followers(target[t])' # {t}
  <2>1. Reports(t) /\ target'[t] = target[t] /\ target[t] \in Runs
    BY <1>1, <1>2, <1>6 DEF Reports, PInv, SInv, StreamTypes
  <2>2. CASE target'[s] = target[t]
    <3>1. s \in Followers(target[t])'
      BY <1>2, <2>1, <2>2 DEF Followers
    <3> QED BY <1>6, <3>1
  <2>3. CASE RowEnded(target[t]) /\ target'[s] # target[t]
    BY <1>4, <2>1, <2>3 DEF RowEnded
  <2>4. CASE target[t] \in lost
    BY <1>4, <2>1, <2>4
  <2>5. CASE Followers(target[t]) # {t}
    <3>1. t \in Followers(target[t])
      BY <2>1 DEF Followers, Reports
    <3>2. Followers(target[t]) \subseteq Followers(target[t])'
      BY <1>2, <2>1 DEF Followers
    <3> QED BY <2>5, <3>1, <3>2
  <2> QED BY <2>1, <2>2, <2>3, <2>4, <2>5 DEF RInv
<1>7. ASSUME Reports(s)'
      PROVE  \/ RowEnded(target[s])'
             \/ target'[s] \in lost'
             \/ Followers(target[s])' # {s}
  <2>1. CASE Emitted(s) = out'[s]
    <3> DEFINE r == target'[s]
               type == out'[s]
               row == Ledger!Updated(Ledger!Ensured(r, type, Now), type, Now)
    <3>1. type \in Ends
      BY <1>7 DEF Reports
    <3>2. Recorded(Emitted(s)) = type /\ Emitted(s) # None
      BY <2>1, <3>1 DEF Recorded, Ends, None
    <3>3. \/ runs' = [runs EXCEPT ![r] = row]
          \/ lost' = lost \cup {r}
      BY <3>2 DEF EventRoute, Append, Write
    <3>4. row.status \in Ledger!EndStatuses
      <4>1. runs[r] \in Ledger!Row
        BY <1>3 DEF PInv, PipelineTypeOK
      <4> HIDE DEF type
      <4> QED BY <1>3, <3>1, <4>1, AppendEnded
    <3>5. runs \in [Runs -> Ledger!Row]
      BY DEF PInv, PipelineTypeOK
    <3> HIDE DEF row
    <3> QED BY <1>3, <3>3, <3>4, <3>5 DEF RowEnded
  <2>2. CASE Reports(s) /\ Emitted(s) = None
    <3>1. UNCHANGED <<runs, lost>> /\ target'[s] = target[s]
      BY <1>2, <2>2 DEF EventRoute, Reports
    <3>2. CASE Followers(target[s]) # {s}
      <4>1. s \in Followers(target[s])
        BY <2>2 DEF Followers, Reports
      <4>2. Followers(target[s]) \subseteq Followers(target[s])'
        BY <1>2, <3>1 DEF Followers
      <4> QED BY <3>2, <4>1, <4>2
    <3> QED BY <2>2, <3>1, <3>2 DEF RInv, RowEnded
  <2> QED BY <1>1, <1>7, <2>1, <2>2
<1>8. \A t \in Streams : Says(t)'
  BY <1>1, <1>2 DEF RInv, Says
<1> QED BY <1>6, <1>7, <1>8 DEF RInv

LEMMA NextRInv ==
  PInv /\ EInv /\ RInv /\ [PipelineNext]_pipelineVars => RInv'
<1> SUFFICES ASSUME PInv, EInv, RInv, [PipelineNext]_pipelineVars PROVE RInv'
  OBVIOUS
<1>1. ASSUME NEW r \in Runs, NEW k \in Stops, StopRoute(k, r) PROVE RInv'
  <2>1. UNCHANGED <<target, pc, out, runs, lost>>
    BY <1>1 DEF StopRoute, StopRun, streamVars
  <2> QED BY <2>1 DEF RInv, Says, Reports, RowEnded, Followers
<1>2. CASE UNCHANGED pipelineVars
  <2>1. UNCHANGED <<target, pc, out, runs, lost>>
    BY <1>2 DEF pipelineVars, vars, streamVars
  <2> QED BY <2>1 DEF RInv, Says, Reports, RowEnded, Followers
<1> QED BY <1>1, <1>2, StartRInv, EventRInv DEF PipelineNext

\* A stream that ends with its client still there leaves an ended run in the
\* ledger, unless the run was declared disconnected, a write was lost or
\* another stream of the run has its say.
THEOREM ReportedCorrect == PipelineSpec => EndReported
<1>1. ASSUME PInv, EInv, RInv, [PipelineNext]_pipelineVars, NEW s \in Streams,
             pc[s] # "done", pc'[s] = "done", ~gone[s]
      PROVE  \/ RowEnded(target[s])
             \/ out[s] = "run.disconnected"
             \/ target[s] \in lost
             \/ Shared(s)
  <2>1. StreamNext(s)
    <3>1. PICK t \in Streams : EventRoute(t)
      BY <1>1 DEF PipelineNext, pipelineVars, vars, streamVars, StartRoute,
                  StartRun, StopRoute, StopRun
    <3>2. t # s => pc'[s] = pc[s]
      BY <1>1, <3>1, StreamOver DEF EventRoute, PInv, EInv
    <3> QED BY <1>1, <3>1, <3>2 DEF EventRoute
  <2>2. Reports(s) \/ out[s] = "run.disconnected"
    BY <1>1, <2>1, StreamSays DEF PInv, RInv
  <2>3. Reports(s) /\ Followers(target[s]) # {s} => Shared(s)
    BY DEF Followers, Reports, Shared
  <2> QED BY <1>1, <2>2, <2>3 DEF RInv
<1>2. PipelineSpec => [](PInv /\ EInv /\ RInv)
  <2>1. PipelineInit => PInv /\ EInv /\ RInv
    BY InitPInv, InitEInv, InitRInv
  <2>2. /\ PInv /\ EInv /\ RInv
        /\ [PipelineNext]_pipelineVars
        => (PInv /\ EInv /\ RInv)'
    BY NextPInv, NextEInv, NextRInv
  <2> QED BY <2>1, <2>2, PTL DEF PipelineSpec
<1>3. PInv /\ EInv /\ RInv /\ [PipelineNext]_pipelineVars =>
        [\A s \in Streams :
           (pc[s] # "done" /\ pc'[s] = "done" /\ ~gone[s]) =>
             \/ RowEnded(target[s])
             \/ out[s] = "run.disconnected"
             \/ target[s] \in lost
             \/ Shared(s)]_pipelineVars
  BY <1>1
<1> QED BY <1>2, <1>3, PTL DEF PipelineSpec, EndReported
=============================================================================
