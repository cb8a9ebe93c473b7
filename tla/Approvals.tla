----------------------------- MODULE Approvals -----------------------------
(***************************************************************************)
(* The approvals a run waits for, in the frontend: their store             *)
(* (approvalStore.ts), fed by the answers of the adapter and by the events *)
(* of the runs it follows, and the surfaces that show and decide them      *)
(* (ApprovalsSurface.tsx, ApprovalCenter.tsx, RunLedger.tsx).  A step is   *)
(* what runs between two awaits.                                           *)
(*                                                                         *)
(* Simplifications: an approval keeps its status; the order of the lists,  *)
(* their limit of a hundred, risks and the texts are left out, and so the  *)
(* filter by risk.  The first of a list is any of it.                      *)
(***************************************************************************)
EXTENDS Naturals, Sequences, SequencesExt

CONSTANTS ApprovalIds,
          Filters,       \* filters the surfaces offer
          MaxQueries,    \* bound on the requests under way
          MaxNotices     \* bound on the events under way

ASSUME ApprovalIdsAssumption == ApprovalIds \subseteq Nat \ {0}
ASSUME FiltersAssumption ==
  "all" \in Filters /\ Filters \subseteq {"all", "pending", "approved", "denied"}

VARIABLES
  approvals,           \* the status of each approval listed
  pending,             \* those listed as pending
  selectedApproval,    \* the detail shown
  selectedApprovalId,
  filter, isListing, isDeciding,
  queries,             \* requests on their way to the adapter
  verdicts,            \* answers on their way back, in the order they were served
  notices,             \* events of the streams on their way
  decisions,           \* the status of each approval in the adapter
  pendingLoaded,       \* history: the pending ones were answered
  pendingExcused       \* history: something was late, lost or not streamed

approvalVars == <<approvals, pending, selectedApproval, selectedApprovalId, filter,
                  isListing, isDeciding, queries, verdicts, notices, decisions,
                  pendingLoaded, pendingExcused>>

Unlisted == "not listed"
NoApproval == 0
Decided == {"approved", "denied", "expired"}
Statuses == {"pending"} \cup Decided
NoDetail == [id |-> NoApproval, status |-> Unlisted]

Query(asks, id, of) == [asks |-> asks, id |-> id, of |-> of]
Lists == {"listApprovals", "listPendingApprovals", "getRunApprovals"}
Verdict == [approveApproval |-> "approved", denyApproval |-> "denied"]

ApprovalsIdle == queries = <<>> /\ verdicts = <<>> /\ notices = <<>>

ApprovalsInit ==
  /\ approvals = [a \in ApprovalIds |-> Unlisted] /\ pending = {}
  /\ selectedApproval = NoDetail /\ selectedApprovalId = NoApproval
  /\ filter = "all" /\ isListing = FALSE /\ isDeciding = FALSE
  /\ queries = <<>> /\ verdicts = <<>> /\ notices = <<>>
  /\ decisions \in [ApprovalIds -> {Unlisted, "pending"}]
  /\ pendingLoaded = FALSE /\ pendingExcused = FALSE

Listed(statuses) == {a \in ApprovalIds : statuses[a] # Unlisted}

-----------------------------------------------------------------------------
(* The store *)

upsertApproval(a, status) == [approvals EXCEPT ![a] = status]

\* mutant: a decided approval stays pending
PendingKept(a, status) == IF status = "pending" THEN pending \cup {a} ELSE pending

\* One approval is heard of: it is pending or it is not.
PendingWith(a, status) == IF status = "pending" THEN pending \cup {a} ELSE pending \ {a}

\* The pending ones are answered: the others stay listed as they are.
WithPending(statuses) ==
  [a \in ApprovalIds |->
     IF statuses[a] # Unlisted THEN statuses[a]
     ELSE IF approvals[a] = "pending" THEN Unlisted ELSE approvals[a]]

AskAdapter(more) ==
  /\ Len(queries) + Len(verdicts) + Len(more) <= MaxQueries
  /\ queries' = queries \o more
  /\ isListing' = (isListing \/ \E n \in DOMAIN more : more[n].asks \in Lists)
  /\ UNCHANGED <<approvals, pending, selectedApproval, verdicts, notices, decisions,
                 pendingLoaded, pendingExcused>>

loadPendingApprovals == <<Query("listPendingApprovals", NoApproval, "pending")>>
loadApprovals(by) == <<Query("listApprovals", NoApproval, by)>>

-----------------------------------------------------------------------------
(* The surfaces *)

\* Mission control, or the end of the start of the application.
LoadPending ==
  /\ AskAdapter(loadPendingApprovals)
  /\ UNCHANGED <<selectedApprovalId, filter, isDeciding>>

\* A surface is mounted, or its list is refreshed.
RefreshApprovals ==
  /\ AskAdapter(loadPendingApprovals \o loadApprovals(filter))
  /\ UNCHANGED <<selectedApprovalId, filter, isDeciding>>

setFilter(by) ==
  /\ filter' = by
  /\ AskAdapter(loadApprovals(by))
  /\ UNCHANGED <<selectedApprovalId, isDeciding>>

loadApprovalsForRun ==
  /\ filter' = "all"
  /\ AskAdapter(<<Query("getRunApprovals", NoApproval, "all")>>)
  /\ UNCHANGED <<selectedApprovalId, isDeciding>>

loadApprovalDetail(a) ==
  /\ a \in Listed(approvals) \cup pending
  /\ AskAdapter(<<Query("getApproval", a, "all")>>)
  /\ selectedApprovalId' = a
  /\ UNCHANGED <<filter, isDeciding>>

\* What a surface shows: the detail, else what is selected, else the first.
Displayed ==
  IF selectedApproval # NoDetail THEN {selectedApproval}
  ELSE LET ids == IF selectedApprovalId \in Listed(approvals) THEN {selectedApprovalId}
                  ELSE Listed(approvals)
       IN  {[id |-> a, status |-> approvals[a]] : a \in ids}

Decide(a, asks) ==
  /\ isDeciding = FALSE
  /\ [id |-> a, status |-> "pending"] \in Displayed
  /\ AskAdapter(<<Query(asks, a, "all")>>)
  /\ isDeciding' = TRUE
  /\ UNCHANGED <<selectedApprovalId, filter>>

-----------------------------------------------------------------------------
(* The adapter, the streams and the answers *)

\* An event is streamed when this window follows the run.
Streams(type, a, streamed) ==
  notices' = IF streamed THEN Append(notices, [type |-> type, id |-> a, status |-> decisions'[a]])
             ELSE notices

AnsweredBy(query) ==
  [a \in ApprovalIds |->
     CASE query.asks = "getRunApprovals" -> decisions'[a]
       [] query.asks \in Lists ->
            IF query.of \in {"all", decisions'[a]} THEN decisions'[a] ELSE Unlisted
       [] OTHER -> IF a = query.id THEN decisions'[a] ELSE Unlisted]

\* A decision is taken of a pending approval, which the run is told.
ServeQuery(n, streamed) ==
  LET q == queries[n] IN
  /\ IF q.asks \in DOMAIN Verdict
     THEN /\ decisions[q.id] = "pending"
          /\ decisions' = [decisions EXCEPT ![q.id] = Verdict[q.asks]]
          /\ Len(notices) < MaxNotices
          /\ Streams("approval.resolved", q.id, streamed)
     ELSE streamed = FALSE /\ UNCHANGED <<decisions, notices>>
  /\ queries' = RemoveAt(queries, n)
  /\ verdicts' = Append(verdicts, [query |-> q, statuses |-> AnsweredBy(q)])
  /\ UNCHANGED <<approvals, pending, selectedApproval, selectedApprovalId, filter,
                 isListing, isDeciding, pendingLoaded, pendingExcused>>

\* A tool asks for an approval, or one expires.
RunAsks(a, status, streamed) ==
  /\ decisions[a] = IF status = "pending" THEN Unlisted ELSE "pending"
  /\ Len(notices) < MaxNotices
  /\ decisions' = [decisions EXCEPT ![a] = status]
  /\ Streams(IF status = "pending" THEN "approval.requested" ELSE "approval.resolved",
             a, streamed)
  /\ pendingExcused' = (pendingExcused \/ ~streamed)
  /\ UNCHANGED <<approvals, pending, selectedApproval, selectedApprovalId, filter,
                 isListing, isDeciding, queries, verdicts, pendingLoaded>>

SettlesPending(excused) ==
  pendingExcused' =
    IF /\ queries' = <<>> /\ verdicts' = <<>> /\ notices' = <<>>
       /\ pending' = {a \in ApprovalIds : decisions'[a] = "pending"}
    THEN FALSE ELSE excused

\* What is heard of an approval is late: it has changed, and no event that
\* says so is still to come.
Late(a, status) ==
  /\ (status = "pending") # (decisions[a] = "pending")
  /\ \A n \in DOMAIN notices' : notices'[n].id # a

\* An event of a stream.
recordEvent ==
  /\ notices # <<>>
  /\ LET e == Head(notices) IN
     /\ approvals' = upsertApproval(e.id, e.status)
     /\ pending' = PendingWith(e.id, e.status)
     /\ selectedApproval' = IF selectedApprovalId = e.id
                            THEN [id |-> e.id, status |-> e.status] ELSE selectedApproval
     /\ selectedApprovalId' = IF selectedApprovalId = NoApproval THEN e.id
                              ELSE selectedApprovalId
     /\ notices' = Tail(notices)
     /\ UNCHANGED <<filter, isListing, isDeciding, queries, verdicts, decisions,
                    pendingLoaded>>
     /\ SettlesPending(pendingExcused \/ Late(e.id, e.status))

\* What is selected once a list is answered, first being its first.
Selects(query, first) ==
  CASE query.asks = "listApprovals" ->
         IF selectedApprovalId = NoApproval THEN first ELSE selectedApprovalId
    [] query.asks = "getRunApprovals" -> first
    [] OTHER -> selectedApprovalId

ListAnswered(n, first) ==
  LET q == verdicts[n].query
      said == verdicts[n].statuses
      opens == q.asks # "listPendingApprovals" /\ selectedApprovalId' # NoApproval
  IN
  /\ q.asks \in Lists
  /\ first \in IF Listed(said) = {} THEN {NoApproval} ELSE Listed(said)
  /\ approvals' = IF q.asks = "listPendingApprovals" THEN WithPending(said) ELSE said
  /\ pending' = IF q.asks = "listPendingApprovals" THEN Listed(said) ELSE pending
  /\ pendingLoaded' = (pendingLoaded \/ q.asks = "listPendingApprovals")
  /\ selectedApprovalId' = Selects(q, first)
  /\ queries' = IF opens THEN Append(queries, Query("getApproval", selectedApprovalId', "all"))
                ELSE queries
  /\ verdicts' = RemoveAt(verdicts, n)
  /\ isListing' = FALSE
  /\ UNCHANGED <<selectedApproval, filter, isDeciding, notices, decisions>>
  /\ SettlesPending(\/ pendingExcused
                    \/ q.asks = "listPendingApprovals" /\ \E a \in ApprovalIds : Late(a, said[a]))

OneAnswered(n) ==
  LET q == verdicts[n].query
      status == verdicts[n].statuses[q.id]
  IN
  /\ q.asks \notin Lists
  /\ approvals' = upsertApproval(q.id, status)
  /\ pending' = PendingWith(q.id, status)
  /\ selectedApproval' = [id |-> q.id, status |-> status]
  /\ selectedApprovalId' = q.id
  /\ verdicts' = RemoveAt(verdicts, n)
  /\ isDeciding' = (isDeciding /\ q.asks = "getApproval")
  /\ UNCHANGED <<filter, isListing, queries, notices, decisions, pendingLoaded>>
  /\ SettlesPending(pendingExcused \/ Late(q.id, status))

QueryFails(query) ==
  /\ isListing' = (isListing /\ query.asks \notin Lists)
  /\ isDeciding' = (isDeciding /\ query.asks \notin DOMAIN Verdict)
  /\ UNCHANGED <<approvals, pending, selectedApproval, selectedApprovalId, filter,
                 notices, decisions, pendingLoaded>>

FailQuery(n) ==
  /\ QueryFails(queries[n])
  /\ queries' = RemoveAt(queries, n)
  /\ UNCHANGED verdicts
  /\ SettlesPending(pendingExcused)

LoseVerdict(n) ==
  /\ QueryFails(verdicts[n].query)
  /\ verdicts' = RemoveAt(verdicts, n)
  /\ UNCHANGED queries
  /\ SettlesPending(TRUE)

ApprovalsNext ==
  \/ LoadPending \/ RefreshApprovals \/ loadApprovalsForRun \/ recordEvent
  \/ \E by \in Filters : setFilter(by)
  \/ \E a \in ApprovalIds :
       \/ loadApprovalDetail(a)
       \/ \E asks \in DOMAIN Verdict : Decide(a, asks)
       \/ \E status \in {"pending", "expired"}, streamed \in BOOLEAN : RunAsks(a, status, streamed)
  \/ \E n \in DOMAIN queries :
       \/ \E streamed \in BOOLEAN : ServeQuery(n, streamed)
       \/ FailQuery(n)
  \/ \E n \in DOMAIN verdicts :
       \/ \E first \in ApprovalIds \cup {NoApproval} : ListAnswered(n, first)
       \/ OneAnswered(n) \/ LoseVerdict(n)

ApprovalsSpec == ApprovalsInit /\ [][ApprovalsNext]_approvalVars

-----------------------------------------------------------------------------
(* Properties *)

ApprovalsTypeOK ==
  /\ approvals \in [ApprovalIds -> Statuses \cup {Unlisted}]
  /\ decisions \in [ApprovalIds -> Statuses \cup {Unlisted}]
  /\ pending \subseteq ApprovalIds
  /\ selectedApprovalId \in ApprovalIds \cup {NoApproval}
  /\ filter \in Filters

\* The approvals the user is asked for are those the adapter waits for, as
\* soon as nothing is under way: a decided one does not come back.  A late
\* event or answer, an answer that is lost and a run this window does not
\* follow excuse it until it is so again.
PendingIsAwaited ==
  ApprovalsIdle /\ pendingLoaded /\ ~pendingExcused =>
    pending = {a \in ApprovalIds : decisions[a] = "pending"}

ApprovalButtonsComeBack == ApprovalsIdle => ~isListing /\ ~isDeciding
=============================================================================
