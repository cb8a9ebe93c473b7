---------------------------- MODULE ProcessLife ----------------------------
(***************************************************************************)
(* What the process manager promises its clients of managed processes:     *)
(* which of them are listed, what is shown of each and how that relates to *)
(* the shell behind it.  Nothing is said here of signals, time-outs, pipes *)
(* or the child watcher.                                                   *)
(***************************************************************************)

CONSTANTS Ids,       \* the processes
          Requests   \* concurrent requests to stop one

None == "none"

ExitCodes == {"ok", "fail", "term", "kill"}

VARIABLES
  listed,   \* the processes the manager knows
  shown,    \* shown[id]: the status and the exit code it shows of one
  shell,    \* shell[id]: None, "alive", or what the shell exited with
  asked     \* asked[k]: the process a request waits for

vars == <<listed, shown, shell, asked>>

Init ==
  /\ listed = {}
  /\ shown = [id \in Ids |-> [status |-> None, code |-> None]]
  /\ shell = [id \in Ids |-> None]
  /\ asked = [k \in Requests |-> None]

Show(id, status, code) ==
  shown' = [shown EXCEPT ![id] = [status |-> status, code |-> code]]

Start(id) ==
  /\ shown[id].status = None
  /\ listed' = listed \cup {id}
  /\ Show(id, "starting", None)
  /\ shell' = [shell EXCEPT ![id] = "alive"]
  /\ UNCHANGED asked

\* No shell came to be.
Refuse(id) ==
  /\ shown[id].status = None
  /\ listed' = listed \cup {id}
  /\ Show(id, "error", None)
  /\ UNCHANGED <<shell, asked>>

Run(id) ==
  /\ shown[id].status = "starting"
  /\ Show(id, "running", None)
  /\ UNCHANGED <<listed, shell, asked>>

Exit(id) ==
  /\ shell[id] = "alive"
  /\ \E code \in ExitCodes : shell' = [shell EXCEPT ![id] = code]
  /\ UNCHANGED <<listed, shown, asked>>

\* The exit of a running process is noticed.
Notice(id) ==
  /\ shown[id].status = "running"
  /\ \E code \in ExitCodes :
       /\ shell[id] = code
       /\ Show(id, IF code = "ok" THEN "stopped" ELSE "error", code)
  /\ UNCHANGED <<listed, shell, asked>>

\* So is the exit code of one that was stopped before it was known.
Complete(id) ==
  /\ shown[id] = [status |-> "stopped", code |-> None]
  /\ \E code \in ExitCodes :
       /\ shell[id] = code
       /\ Show(id, "stopped", code)
  /\ UNCHANGED <<listed, shell, asked>>

\* Only a shell that has exited is shown as stopped; its exit code may not be
\* known yet, but one that is shown already stays.
ShowStopped(id) ==
  /\ shell[id] \in ExitCodes
  /\ \E code \in {shown[id].code, shell[id]} : Show(id, "stopped", code)
  /\ UNCHANGED <<listed, shell>>

StopAtOnce(id) ==
  /\ id \in listed
  /\ shown[id].status = "running"
  /\ ShowStopped(id)
  /\ UNCHANGED asked

Ask(k, id) ==
  /\ asked[k] = None
  /\ id \in listed
  /\ shown[id].status = "running"
  /\ asked' = [asked EXCEPT ![k] = id]
  /\ UNCHANGED <<listed, shown, shell>>

\* The request that waited is answered; its process may have failed meanwhile.
Answer(k) ==
  /\ asked[k] # None
  /\ ShowStopped(asked[k])
  /\ asked' = [asked EXCEPT ![k] = None]

Forget(id) ==
  /\ id \in listed
  /\ shown[id].status # "running"
  /\ listed' = listed \ {id}
  /\ UNCHANGED <<shown, shell, asked>>

Next ==
  \/ \E id \in Ids : \/ Start(id)
                     \/ Refuse(id)
                     \/ Run(id)
                     \/ Exit(id)
                     \/ Notice(id)
                     \/ Complete(id)
                     \/ StopAtOnce(id)
                     \/ Forget(id)
  \/ \E k \in Requests : Answer(k) \/ \E id \in Ids : Ask(k, id)

Spec == Init /\ [][Next]_vars
=============================================================================
