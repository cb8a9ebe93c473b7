----------------------- MODULE ProcessManagerProofs ------------------------
(***************************************************************************)
(* Safety of the process manager for every set of processes and requests.  *)
(***************************************************************************)
EXTENDS ProcessManager, TLAPS

\* What the operating system and asyncio know of an exit agrees.
ExitKnown(id) ==
  /\ leader[id] \in {"zombie", "reaped"} <=> wstatus[id] # None
  /\ returncode[id] # None => /\ leader[id] = "reaped"
                              /\ returncode[id] = wstatus[id]

\* How far the start_process call of an entry can be, by the entry's status.
StartPhase(id) ==
  /\ entry[id].status = "starting" <=> starter[id] = "spawning"
  /\ entry[id].status = None <=> starter[id] = "idle"
  /\ starter[id] = "idle" => leader[id] = None
  /\ starter[id] = "spawning" => leader[id] # None
  /\ entry[id].status \in {None, "starting", "running"} =>
       entry[id].error = None /\ entry[id].exitCode = None
  /\ entry[id].status = "running" => leader[id] # None
  /\ entry[id].error \in {"workdir", "spawn"} => leader[id] = None
  /\ entry[id].status = "error" => entry[id].error # None
  /\ reader[id] = "reading" => leader[id] # None /\ starter[id] = "done"

\* The exit code of an entry is the one asyncio delivered.
ExitRecorded(id) ==
  /\ entry[id].exitCode # None => entry[id].exitCode = returncode[id]
  /\ entry[id].error = "exit" => entry[id].exitCode \notin {None, "ok"}
  /\ entry[id].status = "stopped" \/ entry[id].error = "exit" => Exited(id)

\* A stop request waits only for a process that was spawned and registered.
StopTarget(k) ==
  stopper[k].pc # "idle" =>
    /\ stopper[k].id \in Ids
    /\ leader[stopper[k].id] # None
    /\ entry[stopper[k].id].status \in {"running", "stopped", "error"}

\* The inductive invariant.
IInv ==
  /\ TypeOK
  /\ \A id \in Ids : ExitKnown(id) /\ StartPhase(id) /\ ExitRecorded(id)
  /\ \A k \in Stoppers : StopTarget(k)

LEMMA InitIInv == Init => IInv
BY DEF Init, IInv, TypeOK, ExitKnown, StartPhase, ExitRecorded, StopTarget,
       NoEntry, NoStop, Entry, Stop, Statuses, ExitCodes, None, Exited

\* start_process preserves the invariant up to the return of the spawn.
LEMMA StartIInv ==
  ASSUME IInv, NEW id \in Ids,
         StartProcess(id) \/ StartRefused(id) \/ SpawnReturns(id)
  PROVE  IInv'
<1> USE DEF IInv, TypeOK, ExitKnown, StartPhase, ExitRecorded, StopTarget,
            Statuses, ExitCodes, None, Exited, osVars
<1>1. CASE StartProcess(id)
  <2>1. /\ Starting \in Entry
        /\ Starting.status = "starting" /\ Starting.exitCode = None
        /\ Starting.error = None
    BY DEF Starting, NoEntry, Entry
  <2>2. TypeOK'
    BY <1>1, <2>1 DEF StartProcess
  <2>3. ASSUME NEW i \in Ids
        PROVE  (ExitKnown(i) /\ StartPhase(i) /\ ExitRecorded(i))'
    BY <1>1, <2>1 DEF StartProcess
  <2>4. ASSUME NEW j \in Stoppers PROVE StopTarget(j)'
    BY <1>1, <2>1 DEF StartProcess
  <2> QED BY <2>2, <2>3, <2>4
<1>2. CASE StartRefused(id)
  BY <1>2 DEF StartRefused, Failed, Entry
<1>3. CASE SpawnReturns(id)
  BY <1>3 DEF SpawnReturns, Entry
<1> QED BY <1>1, <1>2, <1>3

\* The tail of stop_process preserves it for a shell that is reaped.
LEMMA MarkStoppedIInv ==
  ASSUME IInv, NEW k \in Stoppers, NEW id \in Ids, MarkStopped(k, id),
         Exited(id), entry[id].status \in {"running", "stopped", "error"}
  PROVE  IInv'
<1> USE DEF IInv, TypeOK, Statuses, ExitCodes, None, Exited, osVars,
            MarkStopped, NoStop
<1>a. returncode[id] \in ExitCodes \cup {None}
  OBVIOUS
<1>1. TypeOK'
  <2>1. stopper' \in [Stoppers -> Stop]
    BY DEF Stop
  <2>2. entry' \in [Ids -> Entry]
    BY DEF Entry
  <2> QED BY <2>1, <2>2
<1>2. ASSUME NEW i \in Ids
      PROVE  (ExitKnown(i) /\ StartPhase(i) /\ ExitRecorded(i))'
  BY DEF ExitKnown, StartPhase, ExitRecorded
<1>3. ASSUME NEW j \in Stoppers PROVE StopTarget(j)'
  BY DEF StopTarget
<1> QED BY <1>1, <1>2, <1>3

\* stop_process preserves it, whichever way the stopped process ends.
LEMMA StopIInv ==
  ASSUME IInv, NEW k \in Stoppers,
         \/ \E id \in Ids : StopFinished(k, id) \/ StopSendsTerm(k, id)
         \/ StopWaited(k)
         \/ StopTimeout(k)
  PROVE  IInv'
<1>1. ASSUME NEW id \in Ids, StopFinished(k, id) PROVE IInv'
  <2>1. Exited(id)
    BY <1>1 DEF StopFinished, IInv, ExitKnown, Exited
  <2> QED BY <1>1, <2>1, MarkStoppedIInv DEF StopFinished
<1>2. ASSUME NEW id \in Ids, StopSendsTerm(k, id) PROVE IInv'
  <2> USE <1>2 DEF IInv, StopSendsTerm
  <2>1. leader[id] # None
    BY DEF StartPhase, None
  <2>2. stopper' \in [Stoppers -> Stop]
    <3>1. [pc |-> "terming", id |-> id] \in Stop
      BY DEF Stop
    <3> QED BY <3>1 DEF TypeOK
  <2>3. termed' \in [Ids -> BOOLEAN]
    BY DEF TypeOK
  <2>4. TypeOK'
    BY <2>2, <2>3 DEF TypeOK
  <2>5. ASSUME NEW i \in Ids
        PROVE  (ExitKnown(i) /\ StartPhase(i) /\ ExitRecorded(i))'
    BY DEF ExitKnown, StartPhase, ExitRecorded, Exited
  <2>6. ASSUME NEW j \in Stoppers PROVE StopTarget(j)'
    BY <2>1 DEF StopTarget, TypeOK
  <2> QED BY <2>4, <2>5, <2>6
<1>3. CASE StopWaited(k)
  <2>1. stopper[k].id \in Ids /\ Exited(stopper[k].id)
    BY <1>3 DEF StopWaited, IInv, StopTarget, ExitKnown, Exited
  <2>2. entry[stopper[k].id].status \in {"running", "stopped", "error"}
    BY <1>3 DEF StopWaited, IInv, StopTarget
  <2> QED BY <1>3, <2>1, <2>2, MarkStoppedIInv DEF StopWaited
<1>4. CASE StopTimeout(k)
  <2> DEFINE id == stopper[k].id
  <2>1. /\ id \in Ids
        /\ leader[id] # None
        /\ entry[id].status \in {"running", "stopped", "error"}
    BY <1>4 DEF StopTimeout, IInv, StopTarget
  <2>2. CASE leader[id] = "reaped"
    BY <1>4, <2>1, <2>2, MarkStoppedIInv DEF StopTimeout, Exited
  <2>3. CASE leader[id] # "reaped"
    <3> USE <1>4, <2>1, <2>3 DEF StopTimeout, IInv
    <3>1. stopper' \in [Stoppers -> Stop]
      <4>1. [pc |-> "killing", id |-> id] \in Stop
        BY DEF Stop
      <4> QED BY <4>1 DEF TypeOK
    <3>2. TypeOK'
      BY <3>1 DEF TypeOK, ExitCodes, None
    <3>3. ASSUME NEW i \in Ids
          PROVE  (ExitKnown(i) /\ StartPhase(i) /\ ExitRecorded(i))'
      BY DEF ExitKnown, StartPhase, ExitRecorded, Exited, TypeOK, None
    <3>4. ASSUME NEW j \in Stoppers PROVE StopTarget(j)'
      BY DEF StopTarget, TypeOK, None
    <3> QED BY <3>2, <3>3, <3>4
  <2> QED BY <2>2, <2>3
<1> QED BY <1>1, <1>2, <1>3, <1>4

\* The reader preserves it: it writes an entry only with a delivered status.
LEMMA ReaderIInv ==
  ASSUME IInv, NEW id \in Ids, ReaderEof(id) \/ ReaderBreaks(id)
  PROVE  IInv'
<1> USE DEF IInv, TypeOK, Statuses, ExitCodes, None, Exited, osVars
<1>1. /\ reader[id] = "reading"
      /\ RecordExit(id)
      /\ reader' = [reader EXCEPT ![id] = "done"]
      /\ UNCHANGED <<table, starter, stopper, osVars>>
  BY DEF ReaderEof, ReaderBreaks
<1>2. TypeOK'
  BY <1>1 DEF RecordExit, Entry
<1>3. ASSUME NEW i \in Ids
      PROVE  (ExitKnown(i) /\ StartPhase(i) /\ ExitRecorded(i))'
  <2>1. entry[id].status \in {"running", "stopped", "error"}
    BY <1>1 DEF StartPhase, Entry
  <2> QED BY <1>1, <2>1 DEF ExitKnown, StartPhase, ExitRecorded, RecordExit
<1>4. ASSUME NEW j \in Stoppers PROVE StopTarget(j)'
  BY <1>1 DEF StopTarget, RecordExit
<1> QED BY <1>2, <1>3, <1>4

\* So do remove_process and everything the operating system does.
LEMMA WorldIInv ==
  ASSUME IInv, NEW id \in Ids,
         \/ RemoveProcess(id)
         \/ \E code \in {"ok", "fail", "term"} : LeaderExits(id, code)
         \/ HelperForks(id)
         \/ HelperExits(id)
         \/ Reap(id)
         \/ DeliverExit(id)
  PROVE  IInv'
<1> USE DEF IInv, TypeOK, ExitKnown, StartPhase, ExitRecorded, StopTarget,
            Statuses, ExitCodes, None, Exited, osVars
<1>1. CASE RemoveProcess(id)  BY <1>1 DEF RemoveProcess
<1>2. ASSUME NEW code \in {"ok", "fail", "term"}, LeaderExits(id, code)
      PROVE  IInv'
  BY <1>2 DEF LeaderExits
<1>3. CASE HelperForks(id)    BY <1>3 DEF HelperForks
<1>4. CASE HelperExits(id)    BY <1>4 DEF HelperExits
<1>5. CASE Reap(id)           BY <1>5 DEF Reap
<1>6. CASE DeliverExit(id)    BY <1>6 DEF DeliverExit
<1> QED BY <1>1, <1>2, <1>3, <1>4, <1>5, <1>6

LEMMA NextIInv == IInv /\ [Next]_vars => IInv'
<1> SUFFICES ASSUME IInv, [Next]_vars PROVE IInv'
  OBVIOUS
<1>1. CASE Next
  BY <1>1, StartIInv, StopIInv, ReaderIInv, WorldIInv DEF Next
<1>2. CASE UNCHANGED vars
  BY <1>2 DEF vars, IInv, TypeOK, ExitKnown, StartPhase, ExitRecorded,
              StopTarget, Exited
<1> QED BY <1>1, <1>2

\* The inductive invariant holds in every state.
THEOREM Inductive == Spec => []IInv
BY InitIInv, NextIInv, PTL DEF Spec

\* Every variable of the process manager keeps its type.
THEOREM TypeCorrect == Spec => []TypeOK
BY Inductive, PTL DEF IInv

\* A stopped entry, or one that failed with an exit code, belongs to a shell
\* that is dead and reaped: for any number of processes and stop requests.
THEOREM EndedCorrect == Spec => []EndedMeansExited
<1>1. IInv => EndedMeansExited
  BY DEF IInv, ExitRecorded, EndedMeansExited
<1> QED BY <1>1, Inductive, PTL

\* The exit code an entry reports is the one the shell exited with.
THEOREM ExitCodeCorrect == Spec => []ExitCodeTruthful
<1>1. IInv => ExitCodeTruthful
  BY DEF IInv, ExitRecorded, ExitKnown, ExitCodeTruthful
<1> QED BY <1>1, Inductive, PTL

\* remove_process forgets no live shell but one that is still being started.
THEOREM RemovalCorrect == Spec => RemovalLosesNoProcess
<1>1. ASSUME IInv, [Next]_vars, NEW id \in table \ table',
             leader[id] = "alive"
      PROVE  starter[id] = "spawning"
  <2>1. id \in Ids /\ RemoveProcess(id)
    BY <1>1 DEF IInv, TypeOK, Next, vars, StartProcess, StartRefused,
                SpawnReturns, ReaderEof, ReaderBreaks,
                RemoveProcess, LeaderExits, HelperForks, HelperExits, Reap,
                DeliverExit, StopFinished, StopSendsTerm, StopWaited,
                StopTimeout, MarkStopped
  <2>2. entry[id].status \in {None, "starting", "stopped", "error"}
    BY <2>1, <1>1 DEF RemoveProcess, IInv, TypeOK, Entry, Statuses
  <2>3. entry[id].error \in {None, "workdir", "spawn", "exit"}
    BY <2>1, <1>1 DEF IInv, TypeOK, Entry
  <2>4. StartPhase(id) /\ ExitRecorded(id)
    BY <2>1, <1>1 DEF IInv
  <2> QED
    BY <1>1, <2>2, <2>3, <2>4 DEF StartPhase, ExitRecorded, Exited, None
<1>2. IInv /\ [Next]_vars =>
        [\A id \in table \ table' :
           leader[id] = "alive" => starter[id] = "spawning"]_vars
  BY <1>1
<1> QED BY <1>2, Inductive, PTL DEF Spec, RemovalLosesNoProcess

-----------------------------------------------------------------------------
(* The process manager implements the life of a process *)

\* What clients see of a process, and whether its shell has exited.
Shown(id) == [status |-> entry[id].status, code |-> entry[id].exitCode]

Shell(id) == IF wstatus[id] = None THEN leader[id] ELSE wstatus[id]

Asked(k) == IF stopper[k].pc = "idle" THEN None ELSE stopper[k].id

\* A step as clients see it, process by process and request by request.
ShowsOne(id, status, code) ==
  \A i \in Ids :
    Shown(i)' = IF i = id THEN [status |-> status, code |-> code] ELSE Shown(i)

ShellTurns(id, s) ==
  \A i \in Ids : Shell(i)' = IF i = id THEN s ELSE Shell(i)

AsksTurn(k, id) ==
  \A j \in Stoppers : Asked(j)' = IF j = k THEN id ELSE Asked(j)

ShowsSame == \A i \in Ids : Shown(i)' = Shown(i)

ShellsSame == \A i \in Ids : Shell(i)' = Shell(i)

AsksSame == \A k \in Stoppers : Asked(k)' = Asked(k)

\* The lemmas that follow lift such a step to one of the life.
LEMMA UnseenStep ==
  ASSUME UNCHANGED table, ShowsSame, ShellsSame, AsksSame
  PROVE  UNCHANGED Life!vars
BY DEF Life!vars, ShowsSame, ShellsSame, AsksSame, Shown, Shell, Asked

LEMMA ShowStep ==
  ASSUME NEW id \in Ids, NEW status, NEW code, ShowsOne(id, status, code)
  PROVE  Life!Show(id, status, code)
BY DEF ShowsOne, Life!Show, Shown

LEMMA StartStep ==
  ASSUME NEW id \in Ids, entry[id].status = None, table' = table \cup {id},
         ShowsOne(id, "starting", None), ShellTurns(id, "alive"), AsksSame
  PROVE  Life!Start(id)
<1>1. Life!Show(id, "starting", None)
  BY ShowStep
<1> QED
  BY <1>1 DEF Life!Start, ShellTurns, AsksSame, Shell, Asked, None, Life!None

LEMMA RefuseStep ==
  ASSUME NEW id \in Ids, entry[id].status = None, table' = table \cup {id},
         ShowsOne(id, "error", None), ShellsSame, AsksSame
  PROVE  Life!Refuse(id)
<1>1. Life!Show(id, "error", None)
  BY ShowStep
<1> QED
  BY <1>1 DEF Life!Refuse, ShellsSame, AsksSame, Shell, Asked, None, Life!None

LEMMA RunStep ==
  ASSUME NEW id \in Ids, entry[id].status = "starting", UNCHANGED table,
         ShowsOne(id, "running", None), ShellsSame, AsksSame
  PROVE  Life!Run(id)
<1>1. Life!Show(id, "running", None)
  BY ShowStep
<1> QED
  BY <1>1 DEF Life!Run, ShellsSame, AsksSame, Shell, Asked, None, Life!None

LEMMA ExitStep ==
  ASSUME NEW id \in Ids, Shell(id) = "alive", NEW code \in ExitCodes,
         UNCHANGED table, ShowsSame, ShellTurns(id, code), AsksSame
  PROVE  Life!Exit(id)
BY DEF Life!Exit, ShowsSame, ShellTurns, AsksSame, Shown, Shell, Asked,
       ExitCodes, Life!ExitCodes

LEMMA NoticeStep ==
  ASSUME NEW id \in Ids, NEW code \in ExitCodes, Shell(id) = code,
         entry[id].status = "running", UNCHANGED table,
         ShowsOne(id, IF code = "ok" THEN "stopped" ELSE "error", code),
         ShellsSame, AsksSame
  PROVE  Life!Notice(id)
<1>1. Life!Show(id, IF code = "ok" THEN "stopped" ELSE "error", code)
  BY ShowStep
<1>2. code \in Life!ExitCodes
  BY DEF ExitCodes, Life!ExitCodes
<1> QED
  BY <1>1, <1>2 DEF Life!Notice, ShellsSame, AsksSame, Shell, Asked

LEMMA CompleteStep ==
  ASSUME NEW id \in Ids, NEW code \in ExitCodes, Shell(id) = code,
         entry[id].status = "stopped", entry[id].exitCode = None,
         UNCHANGED table, ShowsOne(id, "stopped", code), ShellsSame, AsksSame
  PROVE  Life!Complete(id)
<1>1. Life!Show(id, "stopped", code)
  BY ShowStep
<1>2. code \in Life!ExitCodes
  BY DEF ExitCodes, Life!ExitCodes
<1> QED
  BY <1>1, <1>2
  DEF Life!Complete, ShellsSame, AsksSame, Shell, Asked, None, Life!None

LEMMA ShowStoppedStep ==
  ASSUME NEW id \in Ids, Shell(id) \in ExitCodes,
         NEW code \in {entry[id].exitCode, Shell(id)},
         UNCHANGED table, ShowsOne(id, "stopped", code), ShellsSame
  PROVE  Life!ShowStopped(id)
<1>1. Life!Show(id, "stopped", code)
  BY ShowStep
<1>2. UNCHANGED <<table, [i \in Ids |-> Shell(i)]>>
  BY DEF ShellsSame
<1>3. Shell(id) \in Life!ExitCodes
  BY DEF ExitCodes, Life!ExitCodes
<1>4. code \in {[i \in Ids |-> Shown(i)][id].code, [i \in Ids |-> Shell(i)][id]}
  BY DEF Shown
<1> QED
  BY <1>1, <1>2, <1>3, <1>4 DEF Life!ShowStopped, Shell, Shown

LEMMA AskStep ==
  ASSUME NEW k \in Stoppers, NEW id \in Ids, Asked(k) = None, id \in table,
         entry[id].status = "running",
         UNCHANGED table, ShowsSame, ShellsSame, AsksTurn(k, id)
  PROVE  Life!Ask(k, id)
BY DEF Life!Ask, ShowsSame, ShellsSame, AsksTurn, Shown, Shell, Asked, None,
       Life!None

LEMMA AnswerStep ==
  ASSUME NEW k \in Stoppers, NEW id \in Ids, Asked(k) = id,
         Life!ShowStopped(id), AsksTurn(k, None)
  PROVE  Life!Answer(k)
BY IdsAssumption DEF Life!Answer, AsksTurn, Asked, None, Life!None

LEMMA ForgetStep ==
  ASSUME NEW id \in Ids, id \in table, entry[id].status # "running",
         table' = table \ {id}, ShowsSame, ShellsSame, AsksSame
  PROVE  Life!Forget(id)
BY DEF Life!Forget, ShowsSame, ShellsSame, AsksSame, Shown, Shell, Asked

LEMMA InitLife == Init => Life!Init
BY DEF Init, Life!Init, NoEntry, NoStop, None, Life!None

\* Of the invariant, what the steps below need of each process.
LEMMA Facts ==
  ASSUME IInv
  PROVE  /\ entry \in [Ids -> Entry]
         /\ leader \in [Ids -> {None, "alive", "zombie", "reaped"}]
         /\ wstatus \in [Ids -> ExitCodes \cup {None}]
         /\ stopper \in [Stoppers -> Stop]
         /\ table \subseteq Ids
         /\ \A i \in Ids : ExitKnown(i) /\ StartPhase(i) /\ ExitRecorded(i)
         /\ \A k \in Stoppers : StopTarget(k)
         /\ \A i \in Ids : Exited(i) =>
              Shell(i) \in ExitCodes /\ Shell(i) = wstatus[i]
BY DEF IInv, TypeOK, ExitKnown, Exited, Shell

LEMMA StartLife ==
  ASSUME IInv, NEW id \in Ids,
         StartProcess(id) \/ StartRefused(id) \/ SpawnReturns(id)
  PROVE  Life!Next
<1>1. CASE StartProcess(id)
  <2>1. AsksSame
    BY <1>1 DEF StartProcess, AsksSame, Asked
  <2>2. ShowsOne(id, "starting", None)
    BY <1>1, Facts DEF StartProcess, Starting, NoEntry, ShowsOne, Shown
  <2>3. wstatus[id] = None
    BY <1>1, Facts DEF StartProcess, StartPhase, ExitKnown, None
  <2>4. ShellTurns(id, "alive")
    BY <1>1, <2>3, Facts DEF StartProcess, ShellTurns, Shell
  <2>5. entry[id].status = None
    BY <1>1, Facts DEF StartProcess, StartPhase
  <2> QED
    BY <1>1, <2>1, <2>2, <2>4, <2>5, StartStep DEF StartProcess, Life!Next
<1>2. CASE StartRefused(id)
  <2>1. AsksSame /\ ShellsSame
    BY <1>2 DEF StartRefused, osVars, AsksSame, Asked, ShellsSame, Shell
  <2>2. ShowsOne(id, "error", None)
    BY <1>2, Facts DEF StartRefused, Failed, ShowsOne, Shown
  <2>3. entry[id].status = None
    BY <1>2, Facts DEF StartRefused, StartPhase
  <2> QED
    BY <1>2, <2>1, <2>2, <2>3, RefuseStep DEF StartRefused, Life!Next
<1>3. CASE SpawnReturns(id)
  <2>1. AsksSame /\ ShellsSame
    BY <1>3 DEF SpawnReturns, osVars, AsksSame, Asked, ShellsSame, Shell
  <2>2. entry[id].status = "starting" /\ entry[id].exitCode = None
    BY <1>3, Facts DEF SpawnReturns, StartPhase
  <2>3. ShowsOne(id, "running", None)
    BY <1>3, <2>2, Facts DEF SpawnReturns, ShowsOne, Shown, Entry
  <2> QED
    BY <1>3, <2>1, <2>2, <2>3, RunStep DEF SpawnReturns, Life!Next
<1> QED BY <1>1, <1>2, <1>3

\* The tail of stop_process shows the process as stopped and answers.
LEMMA MarkStoppedLife ==
  ASSUME IInv, NEW k \in Stoppers, NEW id \in Ids, MarkStopped(k, id),
         Exited(id)
  PROVE  Life!ShowStopped(id) /\ AsksTurn(k, None)
<1>1. PICK code : code = returncode[id]
  OBVIOUS
<1>2. code \in {entry[id].exitCode, Shell(id)}
  BY <1>1, Facts DEF ExitKnown, ExitRecorded
<1>3. ShowsOne(id, "stopped", code)
  BY <1>1, Facts DEF MarkStopped, ShowsOne, Shown
<1>4. ShellsSame
  BY DEF MarkStopped, osVars, ShellsSame, Shell
<1>5. AsksTurn(k, None)
  BY Facts DEF MarkStopped, NoStop, AsksTurn, Asked
<1>6. Shell(id) \in ExitCodes
  BY Facts
<1> QED
  BY <1>2, <1>3, <1>4, <1>5, <1>6, ShowStoppedStep DEF MarkStopped

LEMMA StopLife ==
  ASSUME IInv, NEW k \in Stoppers,
         \/ \E id \in Ids : StopFinished(k, id) \/ StopSendsTerm(k, id)
         \/ StopWaited(k)
         \/ StopTimeout(k)
  PROVE  Life!Next \/ UNCHANGED Life!vars
<1>1. ASSUME NEW id \in Ids, StopFinished(k, id) PROVE Life!Next
  <2>1. Exited(id)
    BY <1>1, Facts DEF StopFinished, ExitKnown, Exited
  <2>2. Life!ShowStopped(id) /\ AsksTurn(k, None)
    BY <1>1, <2>1, MarkStoppedLife DEF StopFinished
  <2>3. UNCHANGED [j \in Stoppers |-> Asked(j)]
    BY <1>1, <2>2 DEF StopFinished, AsksTurn, Asked
  <2>4. Life!StopAtOnce(id)
    BY <1>1, <2>2, <2>3, Facts DEF StopFinished, Life!StopAtOnce, Asked
  <2> QED BY <2>4 DEF Life!Next
<1>2. ASSUME NEW id \in Ids, StopSendsTerm(k, id) PROVE Life!Next
  <2>1. ShowsSame /\ ShellsSame
    BY <1>2 DEF StopSendsTerm, ShowsSame, ShellsSame, Shown, Shell
  <2>2. Asked(k) = None /\ AsksTurn(k, id)
    BY <1>2, Facts DEF StopSendsTerm, AsksTurn, Asked
  <2>3. Life!Ask(k, id)
    BY <1>2, <2>1, <2>2, AskStep DEF StopSendsTerm
  <2> QED BY <2>3 DEF Life!Next
<1>3. ASSUME NEW id \in Ids, id = stopper[k].id, stopper[k].pc # "idle",
             Exited(id), MarkStopped(k, id)
      PROVE  Life!Next
  <2>1. Life!ShowStopped(id) /\ AsksTurn(k, None)
    BY <1>3, MarkStoppedLife
  <2>2. Asked(k) = id
    BY <1>3 DEF Asked
  <2>3. Life!Answer(k)
    BY <2>1, <2>2, AnswerStep
  <2> QED BY <2>3 DEF Life!Next
<1>4. CASE StopWaited(k)
  <2>1. stopper[k].id \in Ids /\ Exited(stopper[k].id)
    BY <1>4, Facts DEF StopWaited, StopTarget, ExitKnown, Exited
  <2> QED BY <1>3, <1>4, <2>1 DEF StopWaited
<1>5. CASE StopTimeout(k)
  <2>1. PICK id \in Ids : id = stopper[k].id /\ leader[id] # None
    BY <1>5, Facts DEF StopTimeout, StopTarget
  <2>2. CASE leader[id] = "reaped"
    BY <1>3, <1>5, <2>1, <2>2 DEF StopTimeout, Exited
  <2>3. CASE leader[id] # "reaped"
    <3>1. ShowsSame
      BY <1>5, <2>1, <2>3 DEF StopTimeout, ShowsSame, Shown
    <3>2. AsksSame
      BY <1>5, <2>1, <2>3, Facts DEF StopTimeout, AsksSame, Asked, Stop
    <3>3. CASE leader[id] = "alive"
      <4>1. wstatus[id] = None
        BY <3>3, Facts DEF ExitKnown
      <4>2. ShellTurns(id, "kill")
        BY <1>5, <2>1, <2>3, <4>1, Facts
        DEF StopTimeout, ShellTurns, Shell, None
      <4>3. Shell(id) = "alive"
        BY <3>3, <4>1 DEF Shell
      <4>4. Life!Exit(id)
        BY <1>5, <2>1, <2>3, <3>1, <3>2, <4>2, <4>3, ExitStep
        DEF StopTimeout, ExitCodes
      <4> QED BY <4>4 DEF Life!Next
    <3>4. CASE leader[id] = "zombie"
      <4>1. wstatus[id] # None
        BY <3>4, Facts DEF ExitKnown
      <4>2. ShellsSame
        BY <1>5, <2>1, <2>3, <4>1, Facts DEF StopTimeout, ShellsSame, Shell
      <4> QED
        BY <1>5, <2>1, <2>3, <3>1, <3>2, <4>2, UnseenStep DEF StopTimeout
    <3> QED BY <2>1, <2>3, <3>3, <3>4, Facts
  <2> QED BY <2>2, <2>3
<1> QED BY <1>1, <1>2, <1>4, <1>5

LEMMA ReaderLife ==
  ASSUME IInv, NEW id \in Ids, ReaderEof(id) \/ ReaderBreaks(id)
  PROVE  Life!Next \/ UNCHANGED Life!vars
<1>1. /\ reader[id] = "reading"
      /\ RecordExit(id)
      /\ UNCHANGED <<table, starter, stopper, osVars>>
  BY DEF ReaderEof, ReaderBreaks
<1>2. ShellsSame /\ AsksSame /\ UNCHANGED table
  BY <1>1 DEF osVars, ShellsSame, AsksSame, Shell, Asked
<1>3. PICK code : code = returncode[id]
  OBVIOUS
<1>4. CASE code = None
  <2>1. ShowsSame
    BY <1>1, <1>3, <1>4 DEF RecordExit, ShowsSame, Shown
  <2> QED BY <1>2, <2>1, UnseenStep
<1>5. CASE code # None
  <2>1. code \in ExitCodes /\ Shell(id) = code
    BY <1>3, <1>5, Facts DEF ExitKnown, Exited
  <2>2. CASE entry[id].status = "running"
    <3>1. ShowsOne(id, IF code = "ok" THEN "stopped" ELSE "error", code)
      BY <1>1, <1>3, <1>5, <2>2, Facts DEF RecordExit, ShowsOne, Shown
    <3>2. Life!Notice(id)
      BY <1>2, <2>1, <2>2, <3>1, NoticeStep
    <3> QED BY <3>2 DEF Life!Next
  <2>3. CASE entry[id].status \in {"stopped", "error"}
    <3>1. \A i \in Ids : Shown(i)' =
            IF i = id THEN [status |-> entry[id].status, code |-> code]
                      ELSE Shown(i)
      BY <1>1, <1>3, <1>5, <2>3, Facts DEF RecordExit, Shown, Entry
    <3>2. CASE entry[id].exitCode = None
      <4>1. entry[id].status = "stopped"
        BY <1>1, <2>3, <3>2, Facts DEF StartPhase, ExitRecorded, Entry, None
      <4>2. ShowsOne(id, "stopped", code)
        BY <3>1, <4>1 DEF ShowsOne
      <4>3. Life!Complete(id)
        BY <1>2, <2>1, <3>2, <4>1, <4>2, CompleteStep
      <4> QED BY <4>3 DEF Life!Next
    <3>3. CASE entry[id].exitCode # None
      <4>1. entry[id].exitCode = code
        BY <1>3, <3>3, Facts DEF ExitRecorded
      <4>2. ShowsSame
        BY <3>1, <4>1 DEF ShowsSame, Shown
      <4> QED BY <1>2, <4>2, UnseenStep
    <3> QED BY <3>2, <3>3
  <2>4. entry[id].status \in {"running", "stopped", "error"}
    BY <1>1, Facts DEF StartPhase, Entry, Statuses, None
  <2> QED BY <2>2, <2>3, <2>4
<1> QED BY <1>4, <1>5

LEMMA WorldLife ==
  ASSUME IInv, NEW id \in Ids,
         \/ RemoveProcess(id)
         \/ \E code \in {"ok", "fail", "term"} : LeaderExits(id, code)
         \/ HelperForks(id)
         \/ HelperExits(id)
         \/ Reap(id)
         \/ DeliverExit(id)
  PROVE  Life!Next \/ UNCHANGED Life!vars
<1>1. CASE RemoveProcess(id)
  <2>1. ShowsSame /\ ShellsSame /\ AsksSame
    BY <1>1 DEF RemoveProcess, osVars, ShowsSame, ShellsSame, AsksSame, Shown,
                Shell, Asked
  <2>2. Life!Forget(id)
    BY <1>1, <2>1, ForgetStep DEF RemoveProcess
  <2> QED BY <2>2 DEF Life!Next
<1>2. ASSUME NEW code \in {"ok", "fail", "term"}, LeaderExits(id, code)
      PROVE  Life!Next
  <2>1. ShowsSame /\ AsksSame
    BY <1>2 DEF LeaderExits, ShowsSame, AsksSame, Shown, Asked
  <2>2. wstatus[id] = None
    BY <1>2, Facts DEF LeaderExits, ExitKnown
  <2>3. Shell(id) = "alive"
    BY <1>2, <2>2 DEF LeaderExits, Shell
  <2>4. ShellTurns(id, code)
    BY <1>2, Facts DEF LeaderExits, ShellTurns, Shell, None
  <2>5. Life!Exit(id)
    BY <1>2, <2>1, <2>3, <2>4, ExitStep DEF LeaderExits, ExitCodes
  <2> QED BY <2>5 DEF Life!Next
<1>3. CASE HelperForks(id) \/ HelperExits(id) \/ DeliverExit(id)
  <2>1. ShowsSame /\ ShellsSame /\ AsksSame /\ UNCHANGED table
    BY <1>3 DEF HelperForks, HelperExits, DeliverExit, ShowsSame, ShellsSame,
                AsksSame, Shown, Shell, Asked
  <2> QED BY <2>1, UnseenStep
<1>4. CASE Reap(id)
  <2>1. wstatus[id] # None
    BY <1>4, Facts DEF Reap, ExitKnown
  <2>2. ShowsSame /\ ShellsSame /\ AsksSame /\ UNCHANGED table
    BY <1>4, <2>1, Facts DEF Reap, ShowsSame, ShellsSame, AsksSame, Shown,
                             Shell, Asked
  <2> QED BY <2>2, UnseenStep
<1> QED BY <1>1, <1>2, <1>3, <1>4

LEMMA NextLife == IInv /\ [Next]_vars => [Life!Next]_Life!vars
<1> SUFFICES ASSUME IInv, [Next]_vars PROVE Life!Next \/ UNCHANGED Life!vars
  OBVIOUS
<1>1. CASE Next
  BY <1>1, StartLife, StopLife, ReaderLife, WorldLife DEF Next
<1>2. CASE UNCHANGED vars
  <2>1. ShowsSame /\ ShellsSame /\ AsksSame /\ UNCHANGED table
    BY <1>2 DEF vars, ShowsSame, ShellsSame, AsksSame, Shown, Shell, Asked
  <2> QED BY <2>1, UnseenStep
<1> QED BY <1>1, <1>2

\* The process manager implements the life of a process that clients rely on,
\* for any number of processes and requests: no end is taken back, no exit
\* code is lost, and nothing is shown as stopped whose shell has not exited.
THEOREM Implements == Spec => ImplementsLife
BY InitLife, NextLife, Inductive, PTL DEF Spec, ImplementsLife, Life!Spec
=============================================================================
