-------------------------- MODULE ProcessManager ---------------------------
(***************************************************************************)
(* The process manager of the adapter (process_manager.py): a table of     *)
(* managed shell processes, started, stopped, followed and removed by      *)
(* coroutines that interleave at every await of one asyncio event loop.    *)
(*                                                                         *)
(* One step is what a coroutine does between two awaits.  The entry's lock *)
(* (proc._lock) is never held across an await, so it never delays anybody. *)
(*                                                                         *)
(* Simplifications:                                                        *)
(*  - log lines, timestamps, commands and environments are left out;       *)
(*    stoppedAt only says whether the time was recorded;                   *)
(*  - the descendants of the shell are one helper that stays in the        *)
(*    shell's process group and holds its stdout;                          *)
(*  - process ids are not reused by the operating system.                  *)
(***************************************************************************)
EXTENDS Naturals

CONSTANTS Ids,       \* the ids start_process draws (uuid4)
          Stoppers   \* concurrent stop requests

None == "none"

\* A process id is never mistaken for none: uuid4 draws no such string.
ASSUME IdsAssumption == None \notin Ids

ExitCodes == {"ok", "fail", "term", "kill"}   \* 0, another code, -15, -9

Statuses == {None, "starting", "running", "stopped", "error"}

VARIABLES
  table,       \* the keys of _processes
  entry,       \* entry[id]: the ManagedProcess object (it outlives its key)
  starter,     \* starter[id]: where the start_process call of id stands
  reader,      \* reader[id]: the _stream_output task of id
  stopper,     \* stopper[k]: where the stop_process call of request k stands
  leader,      \* leader[id]: the shell, as the operating system sees it
  helper,      \* helper[id]: its descendants
  termed,      \* termed[id]: SIGTERM was sent to the process group
  wstatus,     \* wstatus[id]: the exit status the operating system holds
  returncode   \* returncode[id]: the exit status asyncio has delivered

vars == <<table, entry, starter, reader, stopper, leader, helper, termed,
          wstatus, returncode>>

osVars == <<leader, helper, termed, wstatus, returncode>>

NoEntry == [status |-> None, exitCode |-> None, stoppedAt |-> FALSE,
            error |-> None]

NoStop == [pc |-> "idle", id |-> None]

Init ==
  /\ table = {}
  /\ entry = [id \in Ids |-> NoEntry]
  /\ starter = [id \in Ids |-> "idle"]
  /\ reader = [id \in Ids |-> None]
  /\ stopper = [k \in Stoppers |-> NoStop]
  /\ leader = [id \in Ids |-> None]
  /\ helper = [id \in Ids |-> None]
  /\ termed = [id \in Ids |-> FALSE]
  /\ wstatus = [id \in Ids |-> None]
  /\ returncode = [id \in Ids |-> None]

-----------------------------------------------------------------------------
(* start_process *)

\* mutant: a status outside ProcessStatus
StartingPending == [NoEntry EXCEPT !.status = "pending"]

Starting == [NoEntry EXCEPT !.status = "starting"]

Failed(reason) == [status |-> "error", exitCode |-> None, stoppedAt |-> TRUE,
                   error |-> reason]

\* The entry enters the table as STARTING, and create_subprocess_shell forks
\* the shell before its first await.
StartProcess(id) ==
  /\ starter[id] = "idle"
  /\ table' = table \cup {id}
  /\ entry' = [entry EXCEPT ![id] = Starting]
  /\ starter' = [starter EXCEPT ![id] = "spawning"]
  /\ leader' = [leader EXCEPT ![id] = "alive"]
  /\ UNCHANGED <<reader, stopper, helper, termed, wstatus, returncode>>

\* _resolve_workdir or the fork raises: the entry stays in the table, in ERROR.
StartRefused(id) ==
  /\ starter[id] = "idle"
  /\ table' = table \cup {id}
  /\ \E reason \in {"workdir", "spawn"} :
       entry' = [entry EXCEPT ![id] = Failed(reason)]
  /\ starter' = [starter EXCEPT ![id] = "done"]
  /\ UNCHANGED <<reader, stopper, osVars>>

SpawnReturns(id) ==
  /\ starter[id] = "spawning"
  /\ entry' = [entry EXCEPT ![id].status = "running"]
  /\ starter' = [starter EXCEPT ![id] = "done"]
  /\ reader' = [reader EXCEPT ![id] = "reading"]
  /\ UNCHANGED <<table, stopper, osVars>>

-----------------------------------------------------------------------------
(* stop_process *)

\* mutant: the exit code of a stopped process is taken for granted
MarkStoppedAssumed(k, id) ==
  /\ entry' = [entry EXCEPT
                 ![id] = [status |-> "stopped", exitCode |-> "term",
                          stoppedAt |-> TRUE, error |-> @.error]]
  /\ stopper' = [stopper EXCEPT ![k] = NoStop]
  /\ UNCHANGED <<table, starter, reader, osVars>>

\* The tail of stop_process, run without an await after the last wait.
MarkStopped(k, id) ==
  /\ entry' = [entry EXCEPT
                 ![id] = [status |-> "stopped", exitCode |-> returncode[id],
                          stoppedAt |-> TRUE, error |-> @.error]]
  /\ stopper' = [stopper EXCEPT ![k] = NoStop]
  /\ UNCHANGED <<table, starter, reader, osVars>>

\* The exit is already known, or getpgid raises ProcessLookupError because
\* the shell was reaped before asyncio learnt of it: nothing is signalled.
StopFinished(k, id) ==
  /\ stopper[k].pc = "idle"
  /\ id \in table
  /\ entry[id].status = "running"
  /\ returncode[id] # None \/ leader[id] = "reaped"
  /\ MarkStopped(k, id)

StopSendsTerm(k, id) ==
  /\ stopper[k].pc = "idle"
  /\ id \in table
  /\ entry[id].status = "running"
  /\ returncode[id] = None
  /\ leader[id] # "reaped"
  /\ termed' = [termed EXCEPT ![id] = TRUE]
  /\ stopper' = [stopper EXCEPT ![k] = [pc |-> "terming", id |-> id]]
  /\ UNCHANGED <<table, entry, starter, reader, leader, helper, wstatus,
                 returncode>>

\* wait() returns, within the five seconds or after the SIGKILL.
StopWaited(k) ==
  /\ stopper[k].pc \in {"terming", "killing"}
  /\ returncode[stopper[k].id] # None
  /\ MarkStopped(k, stopper[k].id)

\* mutant: no SIGKILL after the five seconds
StopTimeoutPatient(k) ==
  /\ stopper[k].pc = "terming"
  /\ stopper' = [stopper EXCEPT ![k].pc = "killing"]
  /\ UNCHANGED <<table, entry, starter, reader, osVars>>

\* The five seconds are over.  A group with a shell that is gone cannot be
\* looked up any more; any other group dies of SIGKILL at once.
StopTimeout(k) ==
  LET id == stopper[k].id IN
  /\ stopper[k].pc = "terming"
  /\ \/ /\ leader[id] = "reaped"
        /\ MarkStopped(k, id)
     \/ /\ leader[id] # "reaped"
        /\ leader' = [leader EXCEPT ![id] = "zombie"]
        /\ helper' = [helper EXCEPT ![id] = IF @ = "alive" THEN "dead" ELSE @]
        /\ wstatus' = [wstatus EXCEPT ![id] = IF @ = None THEN "kill" ELSE @]
        /\ stopper' = [stopper EXCEPT ![k] = [pc |-> "killing", id |-> id]]
        /\ UNCHANGED <<table, entry, starter, reader, termed, returncode>>

-----------------------------------------------------------------------------
(* _stream_output *)

\* mutant: the end of stdout is taken for the end of the process
RecordExitAtEof(id) ==
  entry' = [entry EXCEPT
              ![id] = [status |-> "stopped", exitCode |-> returncode[id],
                       stoppedAt |-> TRUE, error |-> @.error]]

\* mutant: STOPPED and ERROR are overwritten
RecordExitAlways(id) ==
  LET code == returncode[id]
  IN entry' =
       IF code = None THEN entry
       ELSE [entry EXCEPT
               ![id] = [status |-> IF code = "ok" THEN "stopped" ELSE "error",
                        exitCode |-> code,
                        stoppedAt |-> TRUE,
                        error |-> IF code = "ok" THEN @.error ELSE "exit"]]

\* What the reader records once its loop over stdout has ended: nothing when
\* asyncio has not delivered the exit status yet.
RecordExit(id) ==
  LET code == returncode[id]
      status == entry[id].status
  IN entry' =
       IF code = None THEN entry
       ELSE IF status \in {"stopped", "error"}
         THEN [entry EXCEPT ![id].exitCode = code]
         ELSE [entry EXCEPT
                 ![id] = [status |-> IF code = "ok" THEN "stopped" ELSE "error",
                          exitCode |-> code,
                          stoppedAt |-> TRUE,
                          error |-> IF code = "ok" THEN @.error ELSE "exit"]]

\* Everybody who held the write end of the pipe is gone.
StdoutClosed(id) == leader[id] # "alive" /\ helper[id] # "alive"

\* mutant: the reader leaves without recording the exit
ReaderEofSilent(id) ==
  /\ reader[id] = "reading"
  /\ StdoutClosed(id)
  /\ reader' = [reader EXCEPT ![id] = "done"]
  /\ UNCHANGED <<table, entry, starter, stopper, osVars>>

ReaderEof(id) ==
  /\ reader[id] = "reading"
  /\ StdoutClosed(id)
  /\ RecordExit(id)
  /\ reader' = [reader EXCEPT ![id] = "done"]
  /\ UNCHANGED <<table, starter, stopper, osVars>>

\* The loop ends on an exception (a line longer than the stream's limit), or
\* the process closes its stdout early, whatever the process does next.
ReaderBreaks(id) ==
  /\ reader[id] = "reading"
  /\ ~StdoutClosed(id)
  /\ RecordExit(id)
  /\ reader' = [reader EXCEPT ![id] = "done"]
  /\ UNCHANGED <<table, starter, stopper, osVars>>

-----------------------------------------------------------------------------
(* remove_process *)

\* mutant: running processes are removed as well
RemoveProcessUnchecked(id) ==
  /\ id \in table
  /\ table' = table \ {id}
  /\ reader' = [reader EXCEPT ![id] = IF @ = "reading" THEN "done" ELSE @]
  /\ UNCHANGED <<entry, starter, stopper, osVars>>

RemoveProcess(id) ==
  /\ id \in table
  /\ entry[id].status # "running"
  /\ table' = table \ {id}
  /\ reader' = [reader EXCEPT ![id] = IF @ = "reading" THEN "done" ELSE @]
  /\ UNCHANGED <<entry, starter, stopper, osVars>>

-----------------------------------------------------------------------------
(* The operating system and asyncio's child watcher *)

LeaderExits(id, code) ==
  /\ leader[id] = "alive"
  /\ code = "term" => termed[id]
  /\ leader' = [leader EXCEPT ![id] = "zombie"]
  /\ wstatus' = [wstatus EXCEPT ![id] = code]
  /\ UNCHANGED <<table, entry, starter, reader, stopper, helper, termed,
                 returncode>>

HelperForks(id) ==
  /\ leader[id] = "alive"
  /\ helper[id] = None
  /\ helper' = [helper EXCEPT ![id] = "alive"]
  /\ UNCHANGED <<table, entry, starter, reader, stopper, leader, termed,
                 wstatus, returncode>>

HelperExits(id) ==
  /\ helper[id] = "alive"
  /\ helper' = [helper EXCEPT ![id] = "dead"]
  /\ UNCHANGED <<table, entry, starter, reader, stopper, leader, termed,
                 wstatus, returncode>>

\* The watcher (a thread of its own on some platforms) collects the zombie ...
Reap(id) ==
  /\ leader[id] = "zombie"
  /\ leader' = [leader EXCEPT ![id] = "reaped"]
  /\ UNCHANGED <<table, entry, starter, reader, stopper, helper, termed,
                 wstatus, returncode>>

\* ... and schedules the callback that sets process.returncode.
DeliverExit(id) ==
  /\ leader[id] = "reaped"
  /\ returncode[id] = None
  /\ returncode' = [returncode EXCEPT ![id] = wstatus[id]]
  /\ UNCHANGED <<table, entry, starter, reader, stopper, leader, helper,
                 termed, wstatus>>

-----------------------------------------------------------------------------

Next ==
  \/ \E id \in Ids :
       \/ StartProcess(id)
       \/ StartRefused(id)
       \/ SpawnReturns(id)
       \/ ReaderEof(id)
       \/ ReaderBreaks(id)
       \/ RemoveProcess(id)
       \/ \E code \in {"ok", "fail", "term"} : LeaderExits(id, code)
       \/ HelperForks(id)
       \/ HelperExits(id)
       \/ Reap(id)
       \/ DeliverExit(id)
  \/ \E k \in Stoppers :
       \/ \E id \in Ids : StopFinished(k, id)
       \/ \E id \in Ids : StopSendsTerm(k, id)
       \/ StopWaited(k)
       \/ StopTimeout(k)

\* The event loop resumes whatever it can, timers fire, and the watcher reaps.
\* Users and the processes themselves owe nothing.
Fairness ==
  /\ \A id \in Ids : /\ WF_vars(ReaderEof(id))
                     /\ WF_vars(Reap(id))
                     /\ WF_vars(DeliverExit(id))
  /\ \A k \in Stoppers : WF_vars(StopWaited(k)) /\ WF_vars(StopTimeout(k))

Spec == Init /\ [][Next]_vars /\ Fairness

-----------------------------------------------------------------------------

Entry == [status : Statuses, exitCode : ExitCodes \cup {None},
          stoppedAt : BOOLEAN, error : {None, "workdir", "spawn", "exit"}]

Stop == [pc : {"idle", "terming", "killing"}, id : Ids \cup {None}]

\* The values each variable may take.
TypeOK ==
  /\ table \subseteq Ids
  /\ entry \in [Ids -> Entry]
  /\ starter \in [Ids -> {"idle", "spawning", "done"}]
  /\ reader \in [Ids -> {None, "reading", "done"}]
  /\ stopper \in [Stoppers -> Stop]
  /\ leader \in [Ids -> {None, "alive", "zombie", "reaped"}]
  /\ helper \in [Ids -> {None, "alive", "dead"}]
  /\ termed \in [Ids -> BOOLEAN]
  /\ wstatus \in [Ids -> ExitCodes \cup {None}]
  /\ returncode \in [Ids -> ExitCodes \cup {None}]

Exited(id) == leader[id] = "reaped"

\* An entry the manager calls stopped, or failed with an exit code, belongs to
\* a shell that is dead and reaped, however stop_process, its timeout, the
\* SIGKILL and _stream_output interleave.
EndedMeansExited ==
  \A id \in Ids :
    entry[id].status = "stopped" \/ entry[id].error = "exit" => Exited(id)

\* The exit code the manager reports is the one the shell exited with, and an
\* entry that says "Exit code: ..." reports a failure, also after two stop
\* requests and the reader have all written it.
ExitCodeTruthful ==
  \A id \in Ids :
    /\ entry[id].exitCode # None => entry[id].exitCode = wstatus[id]
    /\ entry[id].error = "exit" => entry[id].exitCode \notin {None, "ok"}

\* remove_process never forgets a live shell, except one whose start_process
\* has not returned yet: ERROR and STOPPED entries have nothing left to kill.
RemovalLosesNoProcess ==
  [][\A id \in table \ table' :
       leader[id] = "alive" => starter[id] = "spawning"]_vars

\* The life of a process as clients see it: the shell has exited as soon as
\* there is a status to collect, and a request waits from its signal on.
Life == INSTANCE ProcessLife
          WITH Requests <- Stoppers,
               listed <- table,
               shown <- [id \in Ids |-> [status |-> entry[id].status,
                                         code |-> entry[id].exitCode]],
               shell <- [id \in Ids |->
                           IF wstatus[id] = None THEN leader[id] ELSE wstatus[id]],
               asked <- [k \in Stoppers |->
                           IF stopper[k].pc = "idle" THEN None ELSE stopper[k].id]

\* Signals, time-outs, the reader and the watcher together implement that life:
\* an entry that has ended stays ended and keeps its exit code, and a failed
\* one becomes stopped only by a request that was waiting when it failed.
ImplementsLife == Life!Spec

\* Every stop request is answered, even for a shell that ignores SIGTERM, a
\* process that exits at the same moment, or one that another request stops.
StopAnswered ==
  \A k \in Stoppers : stopper[k].pc # "idle" ~> stopper[k].pc = "idle"

\* A reader that still follows a process whose exit status is known and whose
\* descendants are gone makes the entry leave RUNNING.
ExitNoticed ==
  \A id \in Ids :
    (reader[id] = "reading" /\ returncode[id] # None /\ helper[id] # "alive")
      ~> entry[id].status # "running"

\* No live shell is unknown to the manager: what remove_process's refusal
\* "Cannot remove a running process. Stop it first." is there to ensure.
NoUntrackedProcess ==
  \A id \in Ids : leader[id] = "alive" => id \in table
=============================================================================
