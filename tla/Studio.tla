------------------------------- MODULE Studio -------------------------------
(***************************************************************************)
(* The parts of the frontend beside the run in view: the stores of items,  *)
(* the board, the approvals, the connection with the adapter, navigation,  *)
(* the reader of event streams and the comparison of revisions.  They      *)
(* share no state, so a behaviour moves one of them, chosen at the start,  *)
(* and the others keep one of their initial states.                        *)
(***************************************************************************)
EXTENDS ItemStore, Kanban, Approvals, Connection, Navigation, SseStream, LineDiff

VARIABLE part    \* the part that moves

studioVars == <<part, vars, boardVars, approvalVars, connectionVars,
                navigationVars, streamVars, diffVars>>

Parts == {"items", "board", "approvals", "connection", "navigation", "stream", "diff"}

\* Where a part that does not move stays.
ItemsIdle == store = "logs" /\ server = [i \in Items |-> 1]
BoardIdles == storedCards = [c \in Cards |-> NoCard]
ApprovalsIdles == decisions = [a \in ApprovalIds |-> Unlisted]
ConnectionIdle == tauri = FALSE /\ adapterUp = FALSE /\ screen = "startup"
DiffIdle == previous = <<>> /\ current = <<>>

StudioInit ==
  /\ part \in Parts
  /\ (IF part = "items" THEN TRUE ELSE ItemsIdle) /\ Init
  /\ (IF part = "board" THEN TRUE ELSE BoardIdles) /\ BoardInit
  /\ (IF part = "approvals" THEN TRUE ELSE ApprovalsIdles) /\ ApprovalsInit
  /\ (IF part = "connection" THEN TRUE ELSE ConnectionIdle) /\ ConnectionInit
  /\ NavigationInit
  /\ StreamInit
  /\ (IF part = "diff" THEN TRUE ELSE DiffIdle) /\ DiffInit

ItemsMove ==
  /\ part = "items" /\ Next
  /\ UNCHANGED <<part, boardVars, approvalVars, connectionVars, navigationVars,
                 streamVars, diffVars>>

BoardMoves ==
  /\ part = "board" /\ BoardNext
  /\ UNCHANGED <<part, vars, approvalVars, connectionVars, navigationVars,
                 streamVars, diffVars>>

ApprovalsMove ==
  /\ part = "approvals" /\ ApprovalsNext
  /\ UNCHANGED <<part, vars, boardVars, connectionVars, navigationVars,
                 streamVars, diffVars>>

ConnectionMoves ==
  /\ part = "connection" /\ ConnectionNext
  /\ UNCHANGED <<part, vars, boardVars, approvalVars, navigationVars,
                 streamVars, diffVars>>

NavigationMoves ==
  /\ part = "navigation" /\ NavigationNext
  /\ UNCHANGED <<part, vars, boardVars, approvalVars, connectionVars,
                 streamVars, diffVars>>

StreamMoves ==
  /\ part = "stream" /\ StreamNext
  /\ UNCHANGED <<part, vars, boardVars, approvalVars, connectionVars,
                 navigationVars, diffVars>>

DiffMoves ==
  /\ part = "diff" /\ DiffNext
  /\ UNCHANGED <<part, vars, boardVars, approvalVars, connectionVars,
                 navigationVars, streamVars>>

StudioNext ==
  \/ ItemsMove \/ BoardMoves \/ ApprovalsMove \/ ConnectionMoves
  \/ NavigationMoves \/ StreamMoves \/ DiffMoves

StudioSpec == StudioInit /\ [][StudioNext]_studioVars

\* Every part keeps to its types: its steps count no further than the wizard
\* has steps, and a store holds versions of items and nothing else.
StudioTypeOK ==
  TypeOK /\ BoardTypeOK /\ ApprovalsTypeOK /\ ConnectionTypeOK /\ NavigationTypeOK

\* No button or field stays disabled once nothing is under way, whatever
\* failed, was lost or overtaken: the flags of every store go with the
\* requests that set them.
NothingStaysBusy == ButtonsComeBack /\ BoardButtonsComeBack /\ ApprovalButtonsComeBack
=============================================================================
