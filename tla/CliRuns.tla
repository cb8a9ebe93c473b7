------------------------------ MODULE CliRuns ------------------------------
(***************************************************************************)
(* Runs of the Hermes CLI (hermes_cli_backend.py): start_run registers a   *)
(* run, every event stream opened for it may spawn the CLI and follows its *)
(* output, stop_run signals or cancels it.  All of it interleaves at the   *)
(* awaits and yields of one asyncio event loop, without a lock.            *)
(*                                                                         *)
(* A stream is an asynchronous generator.  out[s] is the event it is       *)
(* suspended on; the consumer takes it and resumes the generator, or goes  *)
(* away (a closed connection cancels the generator wherever it stands).    *)
(*                                                                         *)
(* Simplifications: output is one kind of chunk; the CLI has no descendant *)
(* that keeps its stdout open; the spawn takes less than the inactivity    *)
(* time-out; the clock is reduced to one fact, late[s], that the stream's  *)
(* deadline has passed.                                                    *)
(***************************************************************************)
EXTENDS Naturals

CONSTANTS Runs,      \* the run ids start_run draws
          Streams,   \* the event streams clients open
          Stops      \* the stop requests

None == "none"

\* No stream is the absence of one.
ASSUME StreamsAssumption == None \notin Streams

VARIABLES
  started,   \* the runs start_run has returned
  active,    \* the keys of _active_cli_runs
  handle,    \* handle[r]: the stream that put its process in _processes[r]
  target,    \* target[s]: the run stream s was opened for
  pc,        \* pc[s]: where the generator of s stands
  out,       \* out[s]: the event it is suspended on
  late,      \* late[s]: its deadline has passed
  gone,      \* gone[s]: its client has disconnected
  proc,      \* proc[s]: the process it spawned
  code,      \* code[s]: process.returncode, once asyncio knows of the exit
  termed,    \* termed[s]: that process was sent SIGTERM
  reply      \* reply[k]: what stop request k was answered, for which run

registry == <<started, active, handle>>
streamVars == <<target, pc, out, late, gone>>
procVars == <<proc, code, termed>>
vars == <<registry, streamVars, procVars, reply>>

Events == {"run.started", "adapter.warning", "assistant.delta", "ping",
           "run.disconnected", "run.failed", "assistant.completed",
           "run.completed", "run.interrupted"}

\* Inside the try block whose finally unregisters the run.
InTry == {"reading", "yielded", "draining", "killing", "ejecting"}

\* The generator has returned, or it has ended with an exception.
Ended == {"done", "broken"}

Stages == {"idle", "opened", "warned", "spawning", "last"} \cup InTry \cup Ended

Exits == {"ok", "fail", "killed"}

Init ==
  /\ started = {} /\ active = {}
  /\ handle = [r \in Runs |-> None]
  /\ target = [s \in Streams |-> None]
  /\ pc = [s \in Streams |-> "idle"]
  /\ out = [s \in Streams |-> None]
  /\ late = [s \in Streams |-> FALSE]
  /\ gone = [s \in Streams |-> FALSE]
  /\ proc = [s \in Streams |-> None]
  /\ code = [s \in Streams |-> None]
  /\ termed = [s \in Streams |-> FALSE]
  /\ reply = [k \in Stops |-> [answer |-> None, run |-> None]]

-----------------------------------------------------------------------------
(* start_run *)

\* mutant: registered before it has an id the caller knows
StartRunUnannounced(r) ==
  /\ r \notin started
  /\ active' = active \cup {r}
  /\ UNCHANGED <<started, handle, streamVars, procVars, reply>>

StartRun(r) ==
  /\ r \notin started
  /\ started' = started \cup {r}
  /\ active' = active \cup {r}
  /\ UNCHANGED <<handle, streamVars, procVars, reply>>

-----------------------------------------------------------------------------
(* stream_run_events *)

\* The generator moves to a stage, suspended on an event or awaiting.
Go(s, stage, event) ==
  /\ pc' = [pc EXCEPT ![s] = stage]
  /\ out' = [out EXCEPT ![s] = event]

\* mutant: the finally block forgets one registry, or the other
UnregisterActive(s) ==
  /\ active' = active \ {target[s]}
  /\ UNCHANGED handle

UnregisterHandle(s) ==
  /\ handle' = [handle EXCEPT ![target[s]] = None]
  /\ UNCHANGED active

\* The finally block: both registries forget the run, whoever registered it.
Unregister(s) ==
  /\ handle' = [handle EXCEPT ![target[s]] = None]
  /\ active' = active \ {target[s]}

Alive == {"alive", "mute"}      \* mute: it runs on, but has closed its stdout

Running(s) == proc[s] \in Alive
Exited(s) == proc[s] \in Exits

\* mutant: the silent CLI is left alone
KillNothing(s) == UNCHANGED proc

\* process.kill(): nothing happens to a process that is gone.
Kill(s) == proc' = [proc EXCEPT ![s] = IF @ \in Alive THEN "killed" ELSE @]

Open(s, r) ==
  /\ pc[s] = "idle"
  /\ r \in started
  /\ target' = [target EXCEPT ![s] = r]
  /\ \/ r \in active /\ Go(s, "opened", "run.started")
     \/ r \notin active /\ Go(s, "last", "run.failed")
  /\ UNCHANGED <<registry, late, gone, procVars, reply>>

\* The consumer resumes the generator after run.started ...
Proceed(s) ==
  /\ pc[s] = "opened" /\ ~gone[s]
  /\ Go(s, "warned", "adapter.warning")
  /\ UNCHANGED <<registry, target, late, gone, procVars, reply>>

\* ... and after adapter.warning: create_subprocess_exec forks before its first
\* await, or raises, outside the try block: the run stays registered.
Spawn(s) ==
  /\ pc[s] = "warned" /\ ~gone[s]
  /\ \/ /\ proc' = [proc EXCEPT ![s] = "alive"]
        /\ Go(s, "spawning", None)
     \/ /\ Go(s, "last", "run.interrupted")
        /\ UNCHANGED proc
  /\ UNCHANGED <<registry, target, late, gone, code, termed, reply>>

\* mutant: the process is not registered
SpawnReturnsUnregistered(s) ==
  /\ pc[s] = "spawning" /\ ~gone[s]
  /\ Go(s, "reading", None)
  /\ UNCHANGED <<registry, target, late, gone, procVars, reply>>

SpawnReturns(s) ==
  /\ pc[s] = "spawning" /\ ~gone[s]
  /\ handle' = [handle EXCEPT ![target[s]] = s]
  /\ Go(s, "reading", None)
  /\ UNCHANGED <<started, active, target, late, gone, procVars, reply>>

\* A line of output.  After the deadline every readline() is called with a
\* timeout that is not positive and gives up before it reads anything.
ReadChunk(s) ==
  /\ pc[s] = "reading" /\ ~gone[s]
  /\ ~late[s]
  /\ Go(s, "yielded", "assistant.delta")
  /\ UNCHANGED <<registry, target, late, gone, procVars, reply>>

\* Thirty seconds without output: a ping, before and after the deadline.
Ping(s) ==
  /\ pc[s] = "reading" /\ ~gone[s]
  /\ Go(s, "yielded", "ping")
  /\ UNCHANGED <<registry, target, late, gone, procVars, reply>>

Resume(s) ==
  /\ pc[s] = "yielded" /\ ~gone[s]
  /\ Go(s, "reading", None)
  /\ UNCHANGED <<registry, target, late, gone, procVars, reply>>

\* A consumer that kept the generator suspended on its event for more than
\* the inactivity timeout finds the run declared silent, and its CLI killed.
ResumeTooLate(s) ==
  /\ pc[s] = "yielded" /\ ~gone[s]
  /\ Kill(s)
  /\ Go(s, "ejecting", "run.disconnected")
  /\ UNCHANGED <<registry, target, late, gone, code, termed, reply>>

ReadEof(s) ==
  /\ pc[s] = "reading" /\ ~gone[s]
  /\ ~late[s]
  /\ proc[s] # "alive"
  /\ Go(s, "draining", None)
  /\ UNCHANGED <<registry, target, late, gone, procVars, reply>>

\* An output line beyond the stream's limit makes readline() raise ValueError:
\* the finally block runs, nobody kills the CLI, and the route turns the
\* exception into run.interrupted.
ReadRaises(s) ==
  /\ pc[s] = "reading" /\ ~gone[s]
  /\ ~late[s]
  /\ Unregister(s)
  /\ Go(s, "last", "run.interrupted")
  /\ UNCHANGED <<started, target, late, gone, procVars, reply>>

\* mutant: a CLI that was stopped is waited for
DrainedOk(s) ==
  /\ pc[s] = "draining" /\ ~gone[s]
  /\ code[s] = "ok" /\ ~late[s]
  /\ Unregister(s)
  /\ Go(s, "last", "assistant.completed")
  /\ UNCHANGED <<started, target, late, gone, procVars, reply>>

\* mutant: the return code is not looked at
DrainedBlind(s) ==
  /\ pc[s] = "draining" /\ ~gone[s]
  /\ code[s] # None /\ ~late[s]
  /\ Unregister(s)
  /\ Go(s, "last", "assistant.completed")
  /\ UNCHANGED <<started, target, late, gone, procVars, reply>>

\* The process has exited in time: unregister, then report how it ended.
Drained(s) ==
  /\ pc[s] = "draining" /\ ~gone[s]
  /\ code[s] # None /\ ~late[s]
  /\ Unregister(s)
  /\ Go(s, "last",
        IF code[s] = "ok" THEN "assistant.completed" ELSE "run.failed")
  /\ UNCHANGED <<started, target, late, gone, procVars, reply>>

\* TimeoutError once stdout is at its end: kill, then wait for the process.
DrainTimesOut(s) ==
  /\ pc[s] = "draining" /\ ~gone[s]
  /\ late[s]
  /\ Kill(s)
  /\ Go(s, "killing", None)
  /\ UNCHANGED <<registry, target, late, gone, code, termed, reply>>

\* mutant: the time-out is not reported
KillReturnsSilent(s) ==
  /\ pc[s] = "killing" /\ ~gone[s]
  /\ code[s] # None
  /\ Go(s, "ejecting", None)
  /\ UNCHANGED <<registry, target, late, gone, procVars, reply>>

\* The failure is reported before the finally block runs.
KillReturns(s) ==
  /\ pc[s] = "killing" /\ ~gone[s]
  /\ code[s] # None
  /\ Go(s, "ejecting", "run.failed")
  /\ UNCHANGED <<registry, target, late, gone, procVars, reply>>

Eject(s) ==
  /\ pc[s] = "ejecting" /\ ~gone[s]
  /\ Unregister(s)
  /\ Go(s, "done", None)
  /\ UNCHANGED <<started, target, late, gone, procVars, reply>>

\* The events after the finally block.
Finish(s) ==
  /\ pc[s] = "last" /\ ~gone[s]
  /\ \/ out[s] = "assistant.completed" /\ Go(s, "last", "run.completed")
     \/ out[s] = "run.interrupted" /\ Go(s, "broken", None)
     \/ /\ out[s] \notin {"assistant.completed", "run.interrupted"}
        /\ Go(s, "done", None)
  /\ UNCHANGED <<registry, target, late, gone, procVars, reply>>

Disconnect(s) ==
  /\ pc[s] \notin {"idle"} \cup Ended /\ ~gone[s]
  /\ gone' = [gone EXCEPT ![s] = TRUE]
  /\ UNCHANGED <<registry, target, pc, out, late, procVars, reply>>

\* CancelledError at an await, GeneratorExit at a yield.  Inside the try block
\* the run is unregistered; a spawn under way is undone; no other process is
\* killed, and a run that was never spawned stays registered.
Close(s) ==
  /\ gone[s] /\ pc[s] \notin Ended
  /\ Go(s, "done", None)
  /\ IF pc[s] \in InTry THEN Unregister(s) ELSE UNCHANGED <<active, handle>>
  /\ IF pc[s] = "spawning" THEN Kill(s) ELSE UNCHANGED proc
  /\ UNCHANGED <<started, target, late, gone, code, termed, reply>>

\* deadline, counted from the moment the process is registered.  It passes
\* where the code looks at it: before a readline() and before the last wait.
DeadlinePasses(s) ==
  /\ pc[s] \in {"reading", "draining"} /\ ~gone[s]
  /\ ~late[s]
  /\ late' = [late EXCEPT ![s] = TRUE]
  /\ UNCHANGED <<registry, target, pc, out, gone, procVars, reply>>

-----------------------------------------------------------------------------
(* stop_run, and the CLI process itself *)

\* The process that stop_run finds, if asyncio still takes it for running.
Stoppable(r) == handle[r] # None /\ code[handle[r]] = None

Answer(k, r, answer) ==
  reply' = [reply EXCEPT ![k] = [answer |-> answer, run |-> r]]

StopRun(k, r) ==
  /\ reply[k].answer = None
  /\ r \in started
  /\ \/ /\ Stoppable(r)
        /\ termed' = [termed EXCEPT ![handle[r]] = TRUE]
        /\ Answer(k, r, "stopping")
        /\ UNCHANGED active
     \/ /\ ~Stoppable(r) /\ r \in active
        /\ active' = active \ {r}
        /\ Answer(k, r, "cancelled")
        /\ UNCHANGED termed
     \/ /\ ~Stoppable(r) /\ r \notin active
        /\ Answer(k, r, "not_found")
        /\ UNCHANGED <<active, termed>>
  /\ UNCHANGED <<started, handle, streamVars, proc, code>>

\* SIGTERM without a handler ends in a failure code, like an error.
CliExits(s, result) ==
  /\ Running(s)
  /\ proc' = [proc EXCEPT ![s] = result]
  /\ UNCHANGED <<registry, streamVars, code, termed, reply>>

CliClosesStdout(s) ==
  /\ proc[s] = "alive"
  /\ proc' = [proc EXCEPT ![s] = "mute"]
  /\ UNCHANGED <<registry, streamVars, code, termed, reply>>

\* asyncio's child watcher sets process.returncode.
NoticeExit(s) ==
  /\ Exited(s) /\ code[s] = None
  /\ code' = [code EXCEPT ![s] = proc[s]]
  /\ UNCHANGED <<registry, streamVars, proc, termed, reply>>

-----------------------------------------------------------------------------

\* The steps of a stream, its client and its process.
StreamNext(s) ==
  \/ \E r \in Runs : Open(s, r)
  \/ Proceed(s) \/ Spawn(s) \/ SpawnReturns(s)
  \/ ReadChunk(s) \/ Ping(s) \/ Resume(s) \/ ResumeTooLate(s)
  \/ ReadEof(s) \/ ReadRaises(s) \/ Drained(s) \/ DrainTimesOut(s)
  \/ KillReturns(s) \/ Eject(s) \/ Finish(s)
  \/ Disconnect(s) \/ Close(s)
  \/ DeadlinePasses(s)
  \/ \E result \in {"ok", "fail"} : CliExits(s, result)
  \/ CliClosesStdout(s)
  \/ NoticeExit(s)

Next ==
  \/ \E r \in Runs : StartRun(r) \/ \E k \in Stops : StopRun(k, r)
  \/ \E s \in Streams : StreamNext(s)

\* The event loop runs whatever is ready and a connected client keeps reading.
\* readline() returns at the end of stdout without waiting, and a ping is only
\* sent when it did not: pings cannot hold off ReadEof for ever.  The CLI honours
\* SIGTERM; apart from that it need not exit or write, and clients owe nothing.
Fairness ==
  \A s \in Streams :
    /\ WF_vars(Proceed(s)) /\ WF_vars(Spawn(s)) /\ WF_vars(SpawnReturns(s))
    /\ WF_vars(Resume(s)) /\ SF_vars(ReadEof(s))
    /\ WF_vars(Drained(s)) /\ WF_vars(DrainTimesOut(s))
    /\ WF_vars(KillReturns(s)) /\ WF_vars(Eject(s)) /\ WF_vars(Finish(s))
    /\ WF_vars(Close(s)) /\ WF_vars(NoticeExit(s))
    /\ WF_vars(termed[s] /\ CliExits(s, "fail"))

Spec == Init /\ [][Next]_vars /\ Fairness

-----------------------------------------------------------------------------

\* The values each variable may take.
TypeOK ==
  /\ started \subseteq Runs /\ active \subseteq started
  /\ handle \in [Runs -> Streams \cup {None}]
  /\ target \in [Streams -> Runs \cup {None}]
  /\ pc \in [Streams -> Stages]
  /\ out \in [Streams -> Events \cup {None}]
  /\ late \in [Streams -> BOOLEAN]
  /\ gone \in [Streams -> BOOLEAN]
  /\ proc \in [Streams -> {None} \cup Alive \cup Exits]
  /\ code \in [Streams -> {None} \cup Exits]
  /\ termed \in [Streams -> BOOLEAN]
  /\ reply \in [Stops -> [answer : {None, "stopping", "cancelled", "not_found"},
                          run : Runs \cup {None}]]

\* The process stop_run would signal is one that a stream of that very run
\* still follows: a stop never reaches a process nobody accounts for, also
\* when several streams of a run register and unregister it in turn.
HandleIsFollowed ==
  \A r \in Runs : handle[r] # None =>
    /\ pc[handle[r]] \in InTry
    /\ target[handle[r]] = r
    /\ proc[handle[r]] # None

\* A CLI process outlives its event stream only when the client went away or
\* the stream broke on an exception: no time-out and no normal end leaves one.
OrphanOnlyAfterLoss ==
  \A s \in Streams :
    Running(s) /\ pc[s] \in Ended => gone[s] \/ pc[s] = "broken"

\* A run that was followed to its end is not executed again: a stream opened
\* for it later finds it unregistered and spawns nothing.
EndedRunIsNotReopened ==
  [][\A s, t \in Streams :
       (/\ pc[s] = "idle" /\ pc'[s] = "opened"
        /\ target[t] = target'[s] /\ pc[t] = "done" /\ proc[t] # None)
       => gone[t]]_vars

\* A stop that signals nobody misses a live CLI that a connected stream
\* follows only when another stream of the same run was opened as well: the
\* first of them to end unregisters the process of the other.
StopFindsRun ==
  [][\A k \in Stops, s \in Streams :
       (/\ reply'[k] # reply[k] /\ reply'[k].answer # "stopping"
        /\ target[s] = reply'[k].run /\ Running(s) /\ pc[s] \in InTry)
       => \E t \in Streams \ {s} : target[t] = target[s]]_vars

\* When the CLI has exited or was told to, or the deadline has passed, the
\* stream comes to an end, connected or not, and whatever is closed meanwhile:
\* only the loop that reads the output may go on after the deadline.
StreamEnds ==
  \A s \in Streams :
    (Exited(s) \/ termed[s] \/ late[s])
      ~> (pc[s] \in Ended \/ (late[s] /\ pc[s] \in {"reading", "yielded"}))

\* README.md: "HERMES_STUDIO_CLI_RUN_TIMEOUT | 3600 | Timeout for local/SSH
\* CLI-backed runs": a run past its deadline comes to an end.
DeadlineEndsRun ==
  \A s \in Streams : late[s] ~> pc[s] \in Ended

\* docs/REAL_HERMES_SMOKE_TEST.md: "Stop button cancels the active run": once
\* a stop was answered "cancelled", no process is spawned for the run.
CancelledRunIsNotSpawned ==
  [][\A k \in Stops, s \in Streams :
       (/\ reply[k].answer = "cancelled" /\ reply[k].run = target[s]
        /\ proc[s] = None)
       => proc'[s] = None]_vars
=============================================================================
