---------------------------- MODULE StudioProofs ----------------------------
(***************************************************************************)
(* The parts of the frontend beside the run in view, proved together.  The *)
(* approvals, the connection, navigation, the stream reader and the        *)
(* comparison of texts have their inductive invariants here, the item      *)
(* stores and the board in modules of their own; the last part shows that  *)
(* they hold of every behaviour of the whole, for any items, cards,        *)
(* approvals, tabs, histories and texts.                                   *)
(***************************************************************************)
EXTENDS Studio, ItemStoreProofs, KanbanProofs, FiniteSetTheorems

-----------------------------------------------------------------------------
(* The approvals: what is under way *)

QueryKinds ==
  {q \in [asks : Lists \cup {"getApproval"} \cup DOMAIN Verdict,
          id : ApprovalIds \cup {NoApproval},
          of : {"all", "pending", "approved", "denied"}] :
     /\ q.asks \notin Lists => q.id \in ApprovalIds
     /\ q.asks = "listPendingApprovals" => q.of = "pending"}

VerdictKinds ==
  {v \in [query : QueryKinds, statuses : [ApprovalIds -> Statuses \cup {Unlisted}]] :
     v.query.asks = "listPendingApprovals" =>
       \A a \in ApprovalIds : v.statuses[a] \in {"pending", Unlisted}}

NoticeKinds ==
  [type : {"approval.requested", "approval.resolved"}, id : ApprovalIds, status : Statuses]

QueriesUnderWay == Range(queries) \cup {v.query : v \in Range(verdicts)}

\* An event about an approval, or the answer to a decision, is on its way.
ToldSoon(a) ==
  \/ \E e \in Range(notices) : e.id = a
  \/ \E v \in Range(verdicts) : v.query.asks \in DOMAIN Verdict /\ v.query.id = a

ApprovalsTyped ==
  /\ ApprovalsTypeOK
  /\ queries \in Seq(QueryKinds)
  /\ verdicts \in Seq(VerdictKinds)
  /\ notices \in Seq(NoticeKinds)

\* A flag is up only while a request that lowers it is under way.
ApprovalFlagsHeld ==
  /\ isListing => \E q \in QueriesUnderWay : q.asks \in Lists
  /\ isDeciding => \E q \in QueriesUnderWay : q.asks \in DOMAIN Verdict

\* An approval is shown as pending just when the adapter waits for it, unless
\* what changes that is on its way.
PendingFollows ==
  pendingLoaded /\ ~pendingExcused =>
    \A a \in ApprovalIds : (a \in pending <=> decisions[a] = "pending") \/ ToldSoon(a)

ApprovalsInv == ApprovalsTyped /\ ApprovalFlagsHeld /\ PendingFollows

-----------------------------------------------------------------------------
LEMMA InitApprovals == ApprovalsInit => ApprovalsInv
<1> SUFFICES ASSUME ApprovalsInit PROVE ApprovalsInv
  OBVIOUS
<1>1. ApprovalsTypeOK
  BY FiltersAssumption DEF ApprovalsInit, ApprovalsTypeOK, Statuses, Unlisted
<1>2. ApprovalsTyped
  BY <1>1 DEF ApprovalsInit, ApprovalsTyped
<1>3. QED
  BY <1>2 DEF ApprovalsInit, ApprovalsInv, ApprovalFlagsHeld, PendingFollows

\* Requests are sent: nothing that is on its way is taken away.
LEMMA AskKeeps ==
  ASSUME ApprovalsInv, NEW more \in Seq(QueryKinds), AskAdapter(more),
         selectedApprovalId' \in ApprovalIds \cup {NoApproval}, filter' \in Filters,
         isDeciding' => isDeciding \/ \E q \in Range(more) : q.asks \in DOMAIN Verdict
  PROVE  ApprovalsInv'
<1>1. /\ queries' \in Seq(QueryKinds)
      /\ Range(queries') = Range(queries) \cup Range(more)
  BY SomeJoin DEF AskAdapter, ApprovalsInv, ApprovalsTyped
<1>2. UNCHANGED <<approvals, pending, selectedApproval, verdicts, notices, decisions,
                  pendingLoaded, pendingExcused>>
  BY DEF AskAdapter
<1>3. ApprovalsTyped'
  BY <1>1, <1>2 DEF ApprovalsInv, ApprovalsTyped, ApprovalsTypeOK
<1>4. QueriesUnderWay' = QueriesUnderWay \cup Range(more)
  BY <1>1, <1>2 DEF QueriesUnderWay
<1>5. isListing' => isListing \/ \E q \in Range(more) : q.asks \in Lists
  BY DEF AskAdapter, Range
<1>6. ApprovalFlagsHeld'
  BY <1>4, <1>5 DEF ApprovalsInv, ApprovalFlagsHeld
<1>7. PendingFollows'
  BY <1>2 DEF ApprovalsInv, PendingFollows, ToldSoon
<1>8. QED
  BY <1>3, <1>6, <1>7 DEF ApprovalsInv

\* The surfaces send requests only.
LEMMA SurfaceKeeps ==
  ASSUME ApprovalsInv,
         \/ LoadPending \/ RefreshApprovals \/ loadApprovalsForRun
         \/ \E by \in Filters : setFilter(by)
         \/ \E a \in ApprovalIds :
              loadApprovalDetail(a) \/ \E asks \in DOMAIN Verdict : Decide(a, asks)
  PROVE  ApprovalsInv'
<1>1. /\ selectedApprovalId \in ApprovalIds \cup {NoApproval} /\ filter \in Filters
      /\ Filters \subseteq {"all", "pending", "approved", "denied"}
  BY FiltersAssumption DEF ApprovalsInv, ApprovalsTyped, ApprovalsTypeOK
<1>2. loadPendingApprovals \in Seq(QueryKinds)
  BY DEF loadPendingApprovals, Query, QueryKinds, Lists, NoApproval
<1>3. \A by \in Filters : loadApprovals(by) \in Seq(QueryKinds)
  BY <1>1 DEF loadApprovals, Query, QueryKinds, Lists, NoApproval
<1>4. CASE LoadPending
  BY <1>1, <1>2, <1>4, AskKeeps DEF LoadPending
<1>5. CASE RefreshApprovals
  <2>1. PICK more : more = loadPendingApprovals \o loadApprovals(filter)
    OBVIOUS
  <2>2. more \in Seq(QueryKinds)
    BY <1>1, <1>2, <1>3, <2>1, SomeJoin
  <2>3. QED
    BY <1>1, <1>5, <2>1, <2>2, AskKeeps DEF RefreshApprovals
<1>6. CASE loadApprovalsForRun
  <2>1. <<Query("getRunApprovals", NoApproval, "all")>> \in Seq(QueryKinds)
    BY DEF Query, QueryKinds, Lists, NoApproval
  <2>2. QED
    BY <1>1, <1>6, <2>1, AskKeeps, FiltersAssumption DEF loadApprovalsForRun
<1>7. ASSUME NEW by \in Filters, setFilter(by)
      PROVE  ApprovalsInv'
  BY <1>1, <1>3, <1>7, AskKeeps DEF setFilter
<1>8. ASSUME NEW a \in ApprovalIds, loadApprovalDetail(a)
      PROVE  ApprovalsInv'
  <2>1. <<Query("getApproval", a, "all")>> \in Seq(QueryKinds)
    BY DEF Query, QueryKinds, Lists
  <2>2. QED
    BY <1>1, <1>8, <2>1, AskKeeps DEF loadApprovalDetail
<1>9. ASSUME NEW a \in ApprovalIds, NEW asks \in DOMAIN Verdict, Decide(a, asks)
      PROVE  ApprovalsInv'
  <2>1. Query(asks, a, "all") \in QueryKinds /\ Query(asks, a, "all").asks = asks
    BY DEF Query, QueryKinds, Lists, Verdict
  <2> DEFINE q == Query(asks, a, "all")
  <2> HIDE DEF q
  <2>2. <<q>> \in Seq(QueryKinds) /\ q \in Range(<<q>>)
    BY <2>1 DEF q, Range
  <2>3. \E e \in Range(<<q>>) : e.asks \in DOMAIN Verdict
    BY <2>1, <2>2 DEF q
  <2>4. AskAdapter(<<q>>) /\ UNCHANGED <<selectedApprovalId, filter>>
    BY <1>9 DEF Decide, q
  <2>5. /\ selectedApprovalId' \in ApprovalIds \cup {NoApproval} /\ filter' \in Filters
        /\ isDeciding' => isDeciding \/ \E e \in Range(<<q>>) : e.asks \in DOMAIN Verdict
    BY <1>1, <2>3, <2>4, Zenon
  <2>6. QED
    BY <2>2, <2>4, <2>5, AskKeeps, Zenon
<1>10. QED
  BY <1>4, <1>5, <1>6, <1>7, <1>8, <1>9

-----------------------------------------------------------------------------
\* A request that is served becomes an answer.
LEMMA ServeKeeps ==
  ASSUME ApprovalsInv, NEW n \in DOMAIN queries, NEW streamed \in BOOLEAN,
         ServeQuery(n, streamed)
  PROVE  ApprovalsInv'
<1> DEFINE q == queries[n]
<1>1. /\ q \in QueryKinds
      /\ Range(queries) = Range(queries') \cup {q}
      /\ queries' \in Seq(QueryKinds)
  <2>1. queries \in Seq(QueryKinds) /\ queries' = Rest(queries, n)
    BY DEF ServeQuery, RemoveAt, Rest, ApprovalsInv, ApprovalsTyped
  <2>2. QED
    BY <2>1, OneLeaves
<1> HIDE DEF q
<1>2. /\ q.asks \notin Lists => q.id \in ApprovalIds
      /\ q.asks = "listPendingApprovals" => q.of = "pending"
  BY <1>1 DEF QueryKinds
<1>3. /\ decisions \in [ApprovalIds -> Statuses \cup {Unlisted}]
      /\ decisions' \in [ApprovalIds -> Statuses \cup {Unlisted}]
      /\ notices' \in Seq(NoticeKinds) /\ Range(notices) \subseteq Range(notices')
      /\ q.asks \in DOMAIN Verdict => q.id \in ApprovalIds
      /\ \A a \in ApprovalIds :
           decisions'[a] # decisions[a] => q.asks \in DOMAIN Verdict /\ a = q.id
  <2>1. decisions \in [ApprovalIds -> Statuses \cup {Unlisted}] /\ notices \in Seq(NoticeKinds)
    BY DEF ApprovalsInv, ApprovalsTyped, ApprovalsTypeOK
  <2>2. CASE q.asks \in DOMAIN Verdict
    <3>1. q.id \in ApprovalIds /\ Verdict[q.asks] \in Statuses
      BY <1>2, <2>2 DEF Verdict, Lists, Statuses, Decided
    <3>2. decisions' = [decisions EXCEPT ![q.id] = Verdict[q.asks]]
      BY <2>2 DEF ServeQuery, q
    <3>3. decisions' \in [ApprovalIds -> Statuses \cup {Unlisted}] /\ decisions'[q.id] \in Statuses
      BY <2>1, <3>1, <3>2
    <3>4. PICK e : e = [type |-> "approval.resolved", id |-> q.id, status |-> decisions'[q.id]]
      OBVIOUS
    <3>5. e \in NoticeKinds
      BY <3>1, <3>3, <3>4 DEF NoticeKinds
    <3>6. notices' = notices \/ notices' = Append(notices, e)
      BY <2>2, <3>4 DEF ServeQuery, Streams, q
    <3>7. notices' \in Seq(NoticeKinds) /\ Range(notices) \subseteq Range(notices')
      <4>1. /\ Append(notices, e) \in Seq(NoticeKinds)
            /\ Range(Append(notices, e)) = Range(notices) \cup {e}
        BY <2>1, <3>5, OneJoins
      <4>2. QED
        BY <2>1, <3>6, <4>1, Zenon
    <3>8. QED
      BY <2>1, <2>2, <3>1, <3>2, <3>3, <3>7
  <2>3. CASE q.asks \notin DOMAIN Verdict
    BY <2>1, <2>3 DEF ServeQuery, q
  <2>4. QED
    BY <2>2, <2>3
<1>4. PICK v : v = [query |-> q, statuses |-> AnsweredBy(q)]
  OBVIOUS
<1>5. v \in VerdictKinds
  <2>1. AnsweredBy(q) \in [ApprovalIds -> Statuses \cup {Unlisted}]
    BY <1>3 DEF AnsweredBy
  <2>2. ASSUME q.asks = "listPendingApprovals", NEW a \in ApprovalIds
        PROVE  AnsweredBy(q)[a] \in {"pending", Unlisted}
    BY <1>2, <1>3, <2>2 DEF AnsweredBy, Lists, Statuses, Decided, Unlisted
  <2>3. QED
    BY <1>1, <1>4, <2>1, <2>2 DEF VerdictKinds
<1>6. /\ verdicts' \in Seq(VerdictKinds)
      /\ Range(verdicts') = Range(verdicts) \cup {v}
  BY <1>4, <1>5, OneJoins DEF ServeQuery, q, ApprovalsInv, ApprovalsTyped
<1>7. UNCHANGED <<approvals, pending, selectedApproval, selectedApprovalId, filter,
                  isListing, isDeciding, pendingLoaded, pendingExcused>>
  BY DEF ServeQuery
<1>8. ApprovalsTyped'
  BY <1>1, <1>3, <1>6, <1>7 DEF ApprovalsInv, ApprovalsTyped, ApprovalsTypeOK
<1>9. QueriesUnderWay \subseteq QueriesUnderWay'
  BY <1>1, <1>4, <1>6 DEF QueriesUnderWay
<1>10. ApprovalFlagsHeld'
  BY <1>7, <1>9 DEF ApprovalsInv, ApprovalFlagsHeld
<1>11. \A a \in ApprovalIds : /\ ToldSoon(a) => ToldSoon(a)'
                              /\ decisions'[a] # decisions[a] => ToldSoon(a)'
  BY <1>3, <1>4, <1>6 DEF ToldSoon
<1>12. PendingFollows'
  BY <1>7, <1>11 DEF ApprovalsInv, PendingFollows
<1>13. QED
  BY <1>8, <1>10, <1>12 DEF ApprovalsInv

\* A run asks or no longer waits: the event of its stream says so, or the
\* history excuses it.
LEMMA RunAsksKeeps ==
  ASSUME ApprovalsInv, NEW a \in ApprovalIds, NEW status \in {"pending", "expired"},
         NEW streamed \in BOOLEAN, RunAsks(a, status, streamed)
  PROVE  ApprovalsInv'
<1>1. /\ decisions \in [ApprovalIds -> Statuses \cup {Unlisted}]
      /\ notices \in Seq(NoticeKinds)
  BY DEF ApprovalsInv, ApprovalsTyped, ApprovalsTypeOK
<1>2. /\ decisions' = [decisions EXCEPT ![a] = status]
      /\ pendingExcused' = (pendingExcused \/ ~streamed)
      /\ UNCHANGED <<approvals, pending, selectedApproval, selectedApprovalId, filter,
                     isListing, isDeciding, queries, verdicts, pendingLoaded>>
  BY DEF RunAsks
<1>3. PICK e : e = [type |-> IF status = "pending" THEN "approval.requested"
                                                  ELSE "approval.resolved",
                    id |-> a, status |-> status]
  OBVIOUS
<1>4. e \in NoticeKinds /\ e.id = a
  BY <1>3 DEF NoticeKinds, Statuses, Decided
<1>5. notices' = IF streamed THEN Append(notices, e) ELSE notices
  BY <1>1, <1>2, <1>3 DEF RunAsks, Streams
<1>6. /\ notices' \in Seq(NoticeKinds) /\ Range(notices) \subseteq Range(notices')
      /\ streamed => e \in Range(notices')
  BY <1>1, <1>4, <1>5, OneJoins
<1>7. ApprovalsTyped'
  BY <1>1, <1>2, <1>6 DEF ApprovalsInv, ApprovalsTyped, ApprovalsTypeOK, Statuses, Decided
<1>8. ApprovalFlagsHeld'
  BY <1>2 DEF ApprovalsInv, ApprovalFlagsHeld, QueriesUnderWay
<1>9. \A b \in ApprovalIds : /\ ToldSoon(b) => ToldSoon(b)'
                             /\ b = a /\ streamed => ToldSoon(b)'
                             /\ b # a => decisions'[b] = decisions[b]
  BY <1>1, <1>2, <1>4, <1>6 DEF ToldSoon
<1>10. PendingFollows'
  BY <1>2, <1>9 DEF ApprovalsInv, PendingFollows
<1>11. QED
  BY <1>7, <1>8, <1>10 DEF ApprovalsInv

-----------------------------------------------------------------------------
\* A step that settles is right, or it is excused as it says.
LEMMA SettledFollows ==
  ASSUME ApprovalsTyped', pending' = {a \in ApprovalIds : decisions'[a] = "pending"}
  PROVE  PendingFollows'
BY DEF PendingFollows

\* An event arrives.
LEMMA EventKeeps ==
  ASSUME ApprovalsInv, recordEvent
  PROVE  ApprovalsInv'
<1> DEFINE e == Head(notices)
<1>1. /\ e \in NoticeKinds /\ notices' \in Seq(NoticeKinds)
      /\ Range(notices) = Range(notices') \cup {e}
  <2>1. notices \in Seq(NoticeKinds) /\ notices # <<>> /\ notices' = Tail(notices)
    BY DEF recordEvent, ApprovalsInv, ApprovalsTyped
  <2>2. QED
    BY <2>1, FirstLeaves
<1>2. /\ approvals' = upsertApproval(e.id, e.status)
      /\ pending' = PendingWith(e.id, e.status)
      /\ selectedApprovalId' = IF selectedApprovalId = NoApproval THEN e.id
                               ELSE selectedApprovalId
      /\ UNCHANGED <<filter, isListing, isDeciding, queries, verdicts, decisions,
                     pendingLoaded>>
      /\ SettlesPending(pendingExcused \/ Late(e.id, e.status))
  BY DEF recordEvent
<1> HIDE DEF e
<1>3. e.id \in ApprovalIds /\ e.status \in Statuses
  BY <1>1 DEF NoticeKinds
<1>4. ApprovalsTyped'
  BY <1>1, <1>2, <1>3 DEF ApprovalsInv, ApprovalsTyped, ApprovalsTypeOK, upsertApproval, PendingWith
<1>5. ApprovalFlagsHeld'
  BY <1>2 DEF ApprovalsInv, ApprovalFlagsHeld, QueriesUnderWay
<1>6. CASE pending' = {a \in ApprovalIds : decisions'[a] = "pending"}
  BY <1>4, <1>5, <1>6, SettledFollows DEF ApprovalsInv
<1>7. CASE pending' # {a \in ApprovalIds : decisions'[a] = "pending"}
  <2> SUFFICES ASSUME pendingLoaded', ~pendingExcused', NEW a \in ApprovalIds
               PROVE  (a \in pending' <=> decisions'[a] = "pending") \/ ToldSoon(a)'
    BY <1>4, <1>5 DEF ApprovalsInv, PendingFollows
  <2>1. ~pendingExcused /\ ~Late(e.id, e.status)
    BY <1>2, <1>7 DEF SettlesPending
  <2>2. (a \in pending <=> decisions[a] = "pending") \/ ToldSoon(a)
    BY <1>2, <2>1 DEF ApprovalsInv, PendingFollows
  <2>3. CASE a = e.id
    <3>1. a \in pending' <=> e.status = "pending"
      BY <1>2, <2>3 DEF PendingWith
    <3>2. \/ e.status = "pending" <=> decisions'[a] = "pending"
          \/ \E f \in Range(notices') : f.id = a
      BY <1>2, <2>1, <2>3 DEF Late, Range
    <3>3. QED
      BY <3>1, <3>2 DEF ToldSoon
  <2>4. CASE a # e.id
    <3>1. a \in pending' <=> a \in pending
      BY <1>2, <2>4 DEF PendingWith
    <3>2. ToldSoon(a) => ToldSoon(a)'
      BY <1>1, <1>2, <2>4 DEF ToldSoon
    <3>3. QED
      BY <1>2, <2>2, <3>1, <3>2
  <2>5. QED
    BY <2>3, <2>4
<1>8. QED
  BY <1>6, <1>7

\* What a request that ends leaves under way of the others.
LEMMA EndedQuery ==
  ASSUME ApprovalsInv, NEW q \in QueryKinds,
         QueriesUnderWay \subseteq QueriesUnderWay' \cup {q},
         isListing' => isListing /\ q.asks \notin Lists,
         isDeciding' => isDeciding /\ q.asks \notin DOMAIN Verdict
  PROVE  ApprovalFlagsHeld'
BY DEF ApprovalsInv, ApprovalFlagsHeld

\* An answer that is taken out of those under way.
LEMMA VerdictLeaves ==
  ASSUME ApprovalsInv, NEW n \in DOMAIN verdicts, verdicts' = RemoveAt(verdicts, n),
         queries' \in Seq(QueryKinds), Range(queries) \subseteq Range(queries')
  PROVE  /\ verdicts[n] \in VerdictKinds /\ verdicts' \in Seq(VerdictKinds)
         /\ Range(verdicts) = Range(verdicts') \cup {verdicts[n]}
         /\ QueriesUnderWay \subseteq QueriesUnderWay' \cup {verdicts[n].query}
<1>1. verdicts \in Seq(VerdictKinds) /\ verdicts' = Rest(verdicts, n)
  BY DEF RemoveAt, Rest, ApprovalsInv, ApprovalsTyped
<1>2. /\ verdicts[n] \in VerdictKinds /\ verdicts' \in Seq(VerdictKinds)
      /\ Range(verdicts) = Range(verdicts') \cup {verdicts[n]}
  BY <1>1, OneLeaves
<1>3. QED
  BY <1>2 DEF QueriesUnderWay

\* A request fails, or its answer is lost.
LEMMA FailKeeps ==
  ASSUME ApprovalsInv,
         \/ \E n \in DOMAIN queries : FailQuery(n)
         \/ \E n \in DOMAIN verdicts : LoseVerdict(n)
  PROVE  ApprovalsInv'
<1>1. ASSUME NEW n \in DOMAIN queries, FailQuery(n)
      PROVE  ApprovalsInv'
  <2> DEFINE q == queries[n]
  <2>1. queries \in Seq(QueryKinds) /\ queries' = Rest(queries, n)
    BY <1>1 DEF FailQuery, RemoveAt, Rest, ApprovalsInv, ApprovalsTyped
  <2>2. /\ q \in QueryKinds /\ queries' \in Seq(QueryKinds)
        /\ Range(queries) = Range(queries') \cup {q}
    BY <2>1, OneLeaves
  <2>3. /\ QueryFails(q) /\ UNCHANGED verdicts /\ SettlesPending(pendingExcused)
    BY <1>1 DEF FailQuery
  <2> HIDE DEF q
  <2>4. ApprovalsTyped'
    BY <2>2, <2>3 DEF QueryFails, ApprovalsInv, ApprovalsTyped, ApprovalsTypeOK
  <2>5. QueriesUnderWay \subseteq QueriesUnderWay' \cup {q}
    BY <2>2, <2>3 DEF QueriesUnderWay
  <2>6. ApprovalFlagsHeld'
    BY <2>2, <2>3, <2>5, EndedQuery DEF QueryFails
  <2>7. \A a \in ApprovalIds : ToldSoon(a) => ToldSoon(a)'
    BY <2>3 DEF QueryFails, ToldSoon
  <2>8. CASE pending' = {a \in ApprovalIds : decisions'[a] = "pending"}
    BY <2>4, <2>6, <2>8, SettledFollows DEF ApprovalsInv
  <2>9. CASE pending' # {a \in ApprovalIds : decisions'[a] = "pending"}
    BY <2>3, <2>4, <2>6, <2>7, <2>9
       DEF QueryFails, SettlesPending, PendingFollows, ApprovalsInv
  <2>10. QED
    BY <2>8, <2>9
<1>2. ASSUME NEW n \in DOMAIN verdicts, LoseVerdict(n)
      PROVE  ApprovalsInv'
  <2> DEFINE q == verdicts[n].query
  <2>1. /\ QueryFails(q) /\ UNCHANGED queries /\ SettlesPending(TRUE)
        /\ verdicts' = RemoveAt(verdicts, n)
    BY <1>2 DEF LoseVerdict
  <2>2. /\ verdicts[n] \in VerdictKinds /\ verdicts' \in Seq(VerdictKinds)
        /\ QueriesUnderWay \subseteq QueriesUnderWay' \cup {q}
    BY <2>1, VerdictLeaves DEF ApprovalsInv, ApprovalsTyped
  <2>3. q \in QueryKinds
    BY <2>2 DEF VerdictKinds
  <2> HIDE DEF q
  <2>4. ApprovalsTyped'
    BY <2>1, <2>2 DEF QueryFails, ApprovalsInv, ApprovalsTyped, ApprovalsTypeOK
  <2>5. ApprovalFlagsHeld'
    BY <2>1, <2>2, <2>3, EndedQuery DEF QueryFails
  <2>6. PendingFollows'
    <3>1. CASE pending' = {a \in ApprovalIds : decisions'[a] = "pending"}
      BY <2>4, <3>1, SettledFollows
    <3>2. CASE pending' # {a \in ApprovalIds : decisions'[a] = "pending"}
      BY <2>1, <3>2 DEF SettlesPending, PendingFollows
    <3>3. QED
      BY <3>1, <3>2
  <2>7. QED
    BY <2>4, <2>5, <2>6 DEF ApprovalsInv
<1>3. QED
  BY <1>1, <1>2

\* A list arrives; the pending ones replace what is shown as pending.
LEMMA ListKeeps ==
  ASSUME ApprovalsInv, NEW n \in DOMAIN verdicts, NEW first \in ApprovalIds \cup {NoApproval},
         ListAnswered(n, first)
  PROVE  ApprovalsInv'
<1> DEFINE q == verdicts[n].query
           said == verdicts[n].statuses
<1>1. /\ q.asks \in Lists
      /\ approvals' = IF q.asks = "listPendingApprovals" THEN WithPending(said) ELSE said
      /\ pending' = IF q.asks = "listPendingApprovals" THEN Listed(said) ELSE pending
      /\ pendingLoaded' = (pendingLoaded \/ q.asks = "listPendingApprovals")
      /\ selectedApprovalId' = Selects(q, first)
      /\ \/ queries' = queries
         \/ /\ selectedApprovalId' # NoApproval
            /\ queries' = Append(queries, Query("getApproval", selectedApprovalId', "all"))
      /\ verdicts' = RemoveAt(verdicts, n)
      /\ isListing' = FALSE
      /\ UNCHANGED <<selectedApproval, filter, isDeciding, notices, decisions>>
      /\ SettlesPending(\/ pendingExcused
                        \/ /\ q.asks = "listPendingApprovals"
                           /\ \E a \in ApprovalIds : Late(a, said[a]))
  BY DEF ListAnswered
<1>2. queries \in Seq(QueryKinds) /\ verdicts \in Seq(VerdictKinds) /\ ApprovalsTypeOK
  BY DEF ApprovalsInv, ApprovalsTyped
<1>3. selectedApprovalId' \in ApprovalIds \cup {NoApproval}
  BY <1>1, <1>2 DEF Selects, ApprovalsTypeOK
<1>4. queries' \in Seq(QueryKinds) /\ Range(queries) \subseteq Range(queries')
  <2>1. CASE queries' = queries
    BY <1>2, <2>1
  <2>2. CASE queries' # queries
    <3>1. PICK e : e = Query("getApproval", selectedApprovalId', "all")
      OBVIOUS
    <3>2. selectedApprovalId' \in ApprovalIds /\ queries' = Append(queries, e)
      BY <1>1, <1>3, <2>2, <3>1
    <3>3. e \in QueryKinds
      BY <3>1, <3>2 DEF Query, QueryKinds, Lists
    <3>4. /\ Append(queries, e) \in Seq(QueryKinds)
          /\ Range(Append(queries, e)) = Range(queries) \cup {e}
      BY <1>2, <3>3, OneJoins
    <3>5. QED
      BY <3>2, <3>4
  <2>3. QED
    BY <2>1, <2>2
<1>5. /\ verdicts[n] \in VerdictKinds /\ verdicts' \in Seq(VerdictKinds)
      /\ Range(verdicts) = Range(verdicts') \cup {verdicts[n]}
      /\ QueriesUnderWay \subseteq QueriesUnderWay' \cup {q}
  BY <1>1, <1>4, VerdictLeaves
<1>6. /\ q \in QueryKinds /\ said \in [ApprovalIds -> Statuses \cup {Unlisted}]
      /\ q.asks = "listPendingApprovals" =>
           \A a \in ApprovalIds : said[a] \in {"pending", Unlisted}
  BY <1>5 DEF VerdictKinds
<1>7. ApprovalsTyped'
  <2>1. approvals' \in [ApprovalIds -> Statuses \cup {Unlisted}] /\ pending' \subseteq ApprovalIds
    BY <1>1, <1>2, <1>6 DEF ApprovalsTypeOK, WithPending, Listed
  <2>2. QED
    BY <1>1, <1>3, <1>4, <1>5, <2>1 DEF ApprovalsInv, ApprovalsTyped, ApprovalsTypeOK
<1>8. ApprovalFlagsHeld'
  <2>1. q.asks \notin DOMAIN Verdict
    BY <1>1 DEF Verdict, Lists
  <2>2. QED
    BY <1>1, <1>5, <1>6, <2>1, EndedQuery
<1>9. CASE pending' = {a \in ApprovalIds : decisions'[a] = "pending"}
  BY <1>7, <1>8, <1>9, SettledFollows DEF ApprovalsInv
<1>10. CASE pending' # {a \in ApprovalIds : decisions'[a] = "pending"}
  <2> SUFFICES ASSUME pendingLoaded', ~pendingExcused', NEW a \in ApprovalIds
               PROVE  (a \in pending' <=> decisions'[a] = "pending") \/ ToldSoon(a)'
    BY <1>7, <1>8 DEF ApprovalsInv, PendingFollows
  <2>1. /\ ~pendingExcused
        /\ q.asks = "listPendingApprovals" => ~Late(a, said[a])
    BY <1>1, <1>10 DEF SettlesPending
  <2>2. CASE q.asks = "listPendingApprovals"
    <3>1. a \in pending' <=> said[a] = "pending"
      BY <1>1, <1>6, <2>2 DEF Listed, Unlisted
    <3>2. \/ said[a] = "pending" <=> decisions'[a] = "pending"
          \/ \E e \in Range(notices') : e.id = a
      BY <1>1, <2>1, <2>2 DEF Late, Range
    <3>3. QED
      BY <3>1, <3>2 DEF ToldSoon
  <2>3. CASE q.asks # "listPendingApprovals"
    <3>1. (a \in pending <=> decisions[a] = "pending") \/ ToldSoon(a)
      BY <1>1, <2>1, <2>3 DEF ApprovalsInv, PendingFollows
    <3>2. ToldSoon(a) => ToldSoon(a)'
      BY <1>1, <1>5 DEF ToldSoon, Lists, Verdict
    <3>3. QED
      BY <1>1, <2>3, <3>1, <3>2
  <2>4. QED
    BY <2>2, <2>3
<1>11. QED
  BY <1>9, <1>10

\* The answer about one approval arrives: its detail, or a decision.
LEMMA OneKeeps ==
  ASSUME ApprovalsInv, NEW n \in DOMAIN verdicts, OneAnswered(n)
  PROVE  ApprovalsInv'
<1> DEFINE q == verdicts[n].query
           status == verdicts[n].statuses[q.id]
<1>1. /\ q.asks \notin Lists
      /\ approvals' = upsertApproval(q.id, status)
      /\ pending' = PendingWith(q.id, status)
      /\ selectedApprovalId' = q.id
      /\ verdicts' = RemoveAt(verdicts, n)
      /\ isDeciding' = (isDeciding /\ q.asks = "getApproval")
      /\ UNCHANGED <<filter, isListing, queries, notices, decisions, pendingLoaded>>
      /\ SettlesPending(pendingExcused \/ Late(q.id, status))
  BY DEF OneAnswered
<1>2. /\ verdicts[n] \in VerdictKinds /\ verdicts' \in Seq(VerdictKinds)
      /\ Range(verdicts) = Range(verdicts') \cup {verdicts[n]}
      /\ QueriesUnderWay \subseteq QueriesUnderWay' \cup {q}
  BY <1>1, VerdictLeaves DEF ApprovalsInv, ApprovalsTyped
<1>3. q \in QueryKinds /\ q.id \in ApprovalIds /\ status \in Statuses \cup {Unlisted}
  BY <1>1, <1>2 DEF VerdictKinds, QueryKinds
<1>4. ApprovalsTyped'
  BY <1>1, <1>2, <1>3
     DEF ApprovalsInv, ApprovalsTyped, ApprovalsTypeOK, upsertApproval, PendingWith
<1>5. ApprovalFlagsHeld'
  <2>1. q.asks = "getApproval" => q.asks \notin DOMAIN Verdict
    BY DEF Verdict
  <2>2. QED
    BY <1>1, <1>2, <1>3, <2>1, EndedQuery
<1>6. CASE pending' = {a \in ApprovalIds : decisions'[a] = "pending"}
  BY <1>4, <1>5, <1>6, SettledFollows DEF ApprovalsInv
<1>7. CASE pending' # {a \in ApprovalIds : decisions'[a] = "pending"}
  <2> SUFFICES ASSUME pendingLoaded', ~pendingExcused', NEW a \in ApprovalIds
               PROVE  (a \in pending' <=> decisions'[a] = "pending") \/ ToldSoon(a)'
    BY <1>4, <1>5 DEF ApprovalsInv, PendingFollows
  <2>1. ~pendingExcused /\ ~Late(q.id, status)
    BY <1>1, <1>7 DEF SettlesPending
  <2>2. (a \in pending <=> decisions[a] = "pending") \/ ToldSoon(a)
    BY <1>1, <2>1 DEF ApprovalsInv, PendingFollows
  <2>3. CASE a = q.id
    <3>1. a \in pending' <=> status = "pending"
      BY <1>1, <2>3 DEF PendingWith
    <3>2. \/ status = "pending" <=> decisions'[a] = "pending"
          \/ \E e \in Range(notices') : e.id = a
      BY <1>1, <2>1, <2>3 DEF Late, Range
    <3>3. QED
      BY <3>1, <3>2 DEF ToldSoon
  <2>4. CASE a # q.id
    <3>1. a \in pending' <=> a \in pending
      BY <1>1, <2>4 DEF PendingWith
    <3>2. ToldSoon(a) => ToldSoon(a)'
      BY <1>1, <1>2, <2>4 DEF ToldSoon
    <3>3. QED
      BY <1>1, <2>2, <3>1, <3>2
  <2>5. QED
    BY <2>3, <2>4
<1>8. QED
  BY <1>6, <1>7

-----------------------------------------------------------------------------
LEMMA NextApprovals == ApprovalsInv /\ [ApprovalsNext]_approvalVars => ApprovalsInv'
<1>1. ASSUME ApprovalsInv, ApprovalsNext
      PROVE  ApprovalsInv'
  BY <1>1, SurfaceKeeps, EventKeeps, RunAsksKeeps, ServeKeeps, FailKeeps, ListKeeps, OneKeeps
     DEF ApprovalsNext
<1>2. ASSUME ApprovalsInv, UNCHANGED approvalVars
      PROVE  ApprovalsInv'
  BY <1>2 DEF approvalVars, ApprovalsInv, ApprovalsTyped, ApprovalsTypeOK, ApprovalFlagsHeld,
              QueriesUnderWay, PendingFollows, ToldSoon
<1>3. QED
  BY <1>1, <1>2

LEMMA ApprovalsInductive == ApprovalsSpec => []ApprovalsInv
BY InitApprovals, NextApprovals, PTL DEF ApprovalsSpec

LEMMA NobodyTells ==
  ASSUME ApprovalsInv, ApprovalsIdle
  PROVE  PendingIsAwaited /\ ApprovalButtonsComeBack
<1>1. Range(queries) = {} /\ Range(verdicts) = {} /\ Range(notices) = {}
  BY NothingHeld DEF ApprovalsInv, ApprovalsTyped, ApprovalsIdle
<1>2. QueriesUnderWay = {} /\ \A a \in ApprovalIds : ~ToldSoon(a)
  BY <1>1 DEF QueriesUnderWay, ToldSoon
<1>3. pending \subseteq ApprovalIds
  BY DEF ApprovalsInv, ApprovalsTyped, ApprovalsTypeOK
<1>4. PendingIsAwaited
  BY <1>2, <1>3 DEF ApprovalsInv, PendingFollows, PendingIsAwaited
<1>5. QED
  BY <1>2, <1>4 DEF ApprovalsInv, ApprovalFlagsHeld, ApprovalButtonsComeBack

\* The approvals shown as pending are those the adapter waits for, once
\* nothing is under way, whatever the order of the answers and the events.
THEOREM PendingAreAwaited == ApprovalsSpec => []PendingIsAwaited
<1>1. ApprovalsInv => PendingIsAwaited
  BY NobodyTells DEF PendingIsAwaited
<1>2. QED
  BY <1>1, ApprovalsInductive, PTL

-----------------------------------------------------------------------------
(* The connection *)

\* In a browser nothing is asked of the host and nothing is polled.
BrowserIsIdle == ~tauri => ~pollTimer /\ checking = "nothing" /\ ~authPending

\* The inductive invariant: KeepsTrying fails in a browser that would poll.
ConnectionInv == BrowserIsIdle /\ KeepsTrying

LEMMA InitConnection == ConnectionInit => ConnectionInv
BY DEF ConnectionInit, ConnectionInv, BrowserIsIdle, KeepsTrying

LEMMA NextConnection ==
  ConnectionInv /\ [ConnectionNext]_connectionVars => ConnectionInv'
<1> SUFFICES ASSUME ConnectionInv, [ConnectionNext]_connectionVars
             PROVE  ConnectionInv'
  OBVIOUS
<1> USE DEF ConnectionInv, BrowserIsIdle, KeepsTrying
<1>1. ASSUME NEW found \in BOOLEAN, AuthAnswers(found) PROVE ConnectionInv'
  BY <1>1 DEF AuthAnswers, CheckFails, startPolling, startVars
<1>2. ASSUME NEW hermes \in BOOLEAN, HealthAnswers(hermes) PROVE ConnectionInv'
  BY <1>2 DEF HealthAnswers, startVars
<1>3. CASE CheckBreaks
  BY <1>3 DEF CheckBreaks, CheckFails, startPolling, startVars
<1>4. CASE PollTick
  BY <1>4 DEF PollTick, checkConnection, startVars
<1>5. CASE RefreshRuntime
  BY <1>5 DEF RefreshRuntime, checkConnection, startVars
<1>6. ASSUME NEW config \in WizardChoices, handleNext(config) PROVE ConnectionInv'
  BY <1>6 DEF handleNext, ShowApp, checkConnection, checkVars
<1>7. CASE handleBack
  BY <1>7 DEF handleBack, checkVars
<1>8. CASE beginStartup
  BY <1>8 DEF beginStartup, checkVars
<1>9. ASSUME NEW phase \in {"ready", "starting", "error"}, Ensured(phase) PROVE ConnectionInv'
  BY <1>9 DEF Ensured, checkVars
<1>10. ASSUME NEW phase \in {"ready", "error"}, AdapterStatus(phase) PROVE ConnectionInv'
  BY <1>10 DEF AdapterStatus, checkVars
<1>11. CASE onReady
  BY <1>11 DEF onReady, ShowApp, checkConnection
<1>12. CASE handleRetry
  BY <1>12 DEF handleRetry, checkVars
<1>13. CASE AdapterChanges
  BY <1>13 DEF AdapterChanges, startVars, checkVars
<1>14. CASE UNCHANGED connectionVars
  BY <1>14 DEF connectionVars
<1>15. QED
  BY <1>1, <1>2, <1>3, <1>4, <1>5, <1>6, <1>7, <1>8, <1>9, <1>10, <1>11, <1>12,
     <1>13, <1>14 DEF ConnectionNext

\* Whatever fails, as long as the application is not connected a check is
\* under way or the poll timer is armed, and a connected one is not polled.
THEOREM ConnectionIsRetried == ConnectionSpec => []KeepsTrying
<1>1. ConnectionInv => KeepsTrying
  BY DEF ConnectionInv
<1>2. QED
  BY <1>1, InitConnection, NextConnection, PTL DEF ConnectionSpec

\* The types, one variable at a time.
ConnectionTyped ==
  /\ screen \in {"wizard", "startup", "app"}
  /\ wizardStep \in 1..6 /\ wizardConfig \in Configs
  /\ startupPhase \in {"starting", "checking", "ready", "error"}
  /\ checking \in {"nothing", "auth", "health"}
  /\ tauri \in BOOLEAN /\ ensuring \in BOOLEAN /\ token \in BOOLEAN
  /\ authPending \in BOOLEAN /\ connected \in BOOLEAN /\ hermesConnected \in BOOLEAN
  /\ pollTimer \in BOOLEAN /\ storesLoaded \in BOOLEAN /\ firstCheck \in BOOLEAN
  /\ adapterUp \in BOOLEAN

\* Every step of the wizard hands on a configuration.
LEMMA ChoicesAreConfigs ==
  ASSUME wizardConfig \in Configs, hermesConnected \in BOOLEAN, NEW config \in WizardChoices
  PROVE  config \in Configs
<1>1. HermesDiscoveryStep \subseteq Configs
  BY DEF HermesDiscoveryStep, Configs
<1>2. WorkspaceStep \subseteq Configs
  BY DEF WorkspaceStep, Configs
<1>3. BackendStep \subseteq Configs
  BY DEF BackendStep, Configs
<1>4. QED
  BY <1>1, <1>2, <1>3 DEF WizardChoices

LEMMA CheckTyped ==
  ASSUME ConnectionTyped, NEW first \in BOOLEAN, checkConnection(first)
  PROVE  /\ checking' \in {"nothing", "auth", "health"}
         /\ token' \in BOOLEAN /\ authPending' \in BOOLEAN
         /\ connected' \in BOOLEAN /\ hermesConnected' \in BOOLEAN
         /\ pollTimer' \in BOOLEAN /\ storesLoaded' \in BOOLEAN /\ firstCheck' \in BOOLEAN
BY DEF checkConnection, ConnectionTyped

LEMMA InitConnectionTyped == ConnectionInit => ConnectionTyped
<1>1. NoChoice \in Configs
  BY DEF Configs, NoChoice, BackendModes
<1>2. ASSUME ConnectionInit PROVE ConnectionTyped
  <2>1. wizardStep \in 1..6
    BY <1>2 DEF ConnectionInit
  <2>2. wizardConfig \in Configs
    BY <1>1, <1>2 DEF ConnectionInit
  <2>3. QED
    BY <1>2, <2>1, <2>2, Zenon DEF ConnectionInit, ConnectionTyped
<1>3. QED
  BY <1>2

LEMMA NextConnectionTyped ==
  ConnectionTyped /\ [ConnectionNext]_connectionVars => ConnectionTyped'
<1> SUFFICES ASSUME ConnectionTyped, [ConnectionNext]_connectionVars
             PROVE  ConnectionTyped'
  OBVIOUS
<1>1. ASSUME NEW found \in BOOLEAN, AuthAnswers(found) PROVE ConnectionTyped'
  <2>1. token' \in BOOLEAN /\ authPending' \in BOOLEAN
    BY <1>1 DEF AuthAnswers, ConnectionTyped
  <2>2. UNCHANGED <<tauri, startVars, adapterUp>>
    BY <1>1 DEF AuthAnswers
  <2>3. CASE UNCHANGED <<firstCheck, connected, hermesConnected, pollTimer, storesLoaded>>
    <3>1. checking' \in {checking, "health"} \/ CheckFails
      BY <1>1 DEF AuthAnswers
    <3>2. checking' \in {"nothing", "auth", "health"}
      BY <3>1 DEF ConnectionTyped, CheckFails
    <3>3. QED
      BY <2>1, <2>2, <2>3, <3>2 DEF ConnectionTyped, startVars
  <2>4. CASE CheckFails
    BY <2>1, <2>2, <2>4 DEF ConnectionTyped, CheckFails, startPolling, startVars
  <2>5. QED
    BY <1>1, <2>3, <2>4 DEF AuthAnswers
<1>2. ASSUME NEW hermes \in BOOLEAN, HealthAnswers(hermes) PROVE ConnectionTyped'
  BY <1>2 DEF ConnectionTyped, HealthAnswers, startVars
<1>3. CASE CheckBreaks
  BY <1>3 DEF ConnectionTyped, CheckBreaks, CheckFails, startPolling, startVars
<1>4. CASE PollTick
  <2>1. CASE connected
    BY <1>4, <2>1 DEF ConnectionTyped, PollTick, startVars
  <2>2. CASE ~connected
    <3>1. checkConnection(FALSE) /\ UNCHANGED <<tauri, startVars, adapterUp>>
      BY <1>4, <2>2 DEF PollTick
    <3>2. QED
      BY <3>1, CheckTyped DEF ConnectionTyped, startVars
  <2>3. QED
    BY <2>1, <2>2
<1>5. CASE RefreshRuntime
  BY <1>5, CheckTyped DEF RefreshRuntime, ConnectionTyped, startVars
<1>6. ASSUME NEW config \in WizardChoices, handleNext(config) PROVE ConnectionTyped'
  <2>1. config \in Configs
    BY ChoicesAreConfigs DEF ConnectionTyped
  <2>2. CASE wizardStep = 6
    <3>1. screen' = "app" /\ checkConnection(TRUE) /\ wizardStep' = wizardStep
      BY <1>6, <2>2 DEF handleNext, ShowApp
    <3>2. QED
      BY <1>6, <2>1, <3>1, CheckTyped DEF handleNext, ConnectionTyped
  <2>3. CASE wizardStep # 6
    BY <1>6, <2>1, <2>3 DEF handleNext, ConnectionTyped, checkVars
  <2>4. QED
    BY <2>2, <2>3
<1>7. CASE handleBack
  BY <1>7 DEF ConnectionTyped, handleBack, checkVars
<1>8. CASE beginStartup
  BY <1>8 DEF ConnectionTyped, beginStartup, checkVars
<1>9. ASSUME NEW phase \in {"ready", "starting", "error"}, Ensured(phase)
      PROVE  ConnectionTyped'
  <2>1. startupPhase' \in {"starting", "checking", "ready", "error"} /\ ensuring' \in BOOLEAN
    BY <1>9 DEF ConnectionTyped, Ensured
  <2>2. UNCHANGED <<tauri, screen, wizardStep, wizardConfig, checkVars, adapterUp>>
    BY <1>9 DEF Ensured
  <2>3. QED
    BY <2>1, <2>2 DEF ConnectionTyped, checkVars
<1>10. ASSUME NEW phase \in {"ready", "error"}, AdapterStatus(phase)
       PROVE  ConnectionTyped'
  BY <1>10 DEF ConnectionTyped, AdapterStatus, checkVars
<1>11. CASE onReady
  BY <1>11, CheckTyped DEF onReady, ShowApp, ConnectionTyped
<1>12. CASE handleRetry
  BY <1>12 DEF ConnectionTyped, handleRetry, checkVars
<1>13. CASE AdapterChanges
  BY <1>13 DEF ConnectionTyped, AdapterChanges, startVars, checkVars
<1>14. CASE UNCHANGED connectionVars
  BY <1>14 DEF ConnectionTyped, connectionVars
<1>15. QED
  BY <1>1, <1>2, <1>3, <1>4, <1>5, <1>6, <1>7, <1>8, <1>9, <1>10, <1>11, <1>12,
     <1>13, <1>14 DEF ConnectionNext

-----------------------------------------------------------------------------
(* Navigation *)

\* The tables of the layout: each mode has a home among its surfaces.
LEMMA HomeOfMode ==
  ASSUME NEW mode \in VALID_MODES
  PROVE  /\ setActiveMode(mode) \in Routes
         /\ setActiveMode(mode).mode = mode
         /\ setActiveMode(mode).tab \in MODE_SURFACES[mode]
<1>1. VALID_MODES = {"create", "code", "automate", "manage"}
  BY DEF VALID_MODES, MODE_SURFACES
<1>2. MODE_HOME_SURFACE[mode] \in MODE_SURFACES[mode]
  BY <1>1 DEF MODE_HOME_SURFACE, MODE_SURFACES
<1>3. MODE_HOME_SURFACE[mode] \in CENTER_TABS
  BY <1>2 DEF CENTER_TABS
<1>4. QED
  BY <1>2, <1>3 DEF setActiveMode, Route, Routes

\* Every tab is found in a mode that has it.
LEMMA ModeOfTab ==
  ASSUME NEW tab \in CENTER_TABS
  PROVE  /\ setActiveTab(tab) \in Routes
         /\ setActiveTab(tab).tab = tab
         /\ tab \in MODE_SURFACES[setActiveTab(tab).mode]
<1>1. VALID_MODES = {"create", "code", "automate", "manage"}
  BY DEF VALID_MODES, MODE_SURFACES
<1>2. /\ findModeForTab(tab) \in VALID_MODES
      /\ tab \in MODE_SURFACES[findModeForTab(tab)]
  BY <1>1 DEF findModeForTab, CENTER_TABS, MODE_SURFACES
<1>3. QED
  BY <1>2 DEF setActiveTab, Route, Routes

\* The history after a change: a new entry shows what the window shows.
LEMMA SyncedEntries ==
  ASSUME entries \in Seq(Routes), NEW at \in 1..Len(entries), NEW to \in Routes,
         SyncEntries(to, entries, at)
  PROVE  /\ entries' \in Seq(Routes) /\ position' \in 1..Len(entries')
         /\ to = route => entries' = entries /\ position' = at
         /\ to # route => entries'[position'] = to
<1>1. CASE to = route
  BY <1>1 DEF SyncEntries
<1>2. CASE to # route
  <2>1. entries' = SubSeq(entries, 1, at - 1) \o <<to, to>> /\ position' = at + 1
    BY <1>2 DEF SyncEntries
  <2>2. SubSeq(entries, 1, at - 1) \in Seq(Routes) /\ Len(SubSeq(entries, 1, at - 1)) = at - 1
    OBVIOUS
  <2>3. <<to, to>> \in Seq(Routes) /\ Len(<<to, to>>) = 2 /\ <<to, to>>[2] = to
    OBVIOUS
  <2>4. entries' \in Seq(Routes) /\ Len(entries') = at + 1 /\ entries'[at + 1] = to
    BY <2>1, <2>2, <2>3
  <2>5. QED
    BY <1>2, <2>1, <2>4
<1>3. QED
  BY <1>1, <1>2

-----------------------------------------------------------------------------

\* The values of the variables; what is saved is what is shown.
Typed ==
  /\ route \in Routes /\ prefs \in {NoPrefs, route}
  /\ entries \in Seq(Routes) /\ position \in 1..Len(entries)
  /\ timers \in Seq(CENTER_TABS) /\ mismatched \in BOOLEAN

\* An entry the window does not show yet has a timer that will, and that one
\* is the last.
TimerWillShow ==
  entries[position] # route => timers # <<>> /\ timers[Len(timers)] # route.tab

\* The inductive invariant.
NavigationInv == Typed /\ TimerWillShow /\ TabIsMounted

LEMMA InitNavigation == NavigationInit => NavigationInv
<1>1. Route("create", "mission") = setActiveMode("create") /\ "create" \in VALID_MODES
  BY DEF setActiveMode, MODE_HOME_SURFACE, VALID_MODES, MODE_SURFACES
<1>2. Route("create", "mission") \in Routes
  BY <1>1, HomeOfMode
<1>3. Route("create", "mission").tab = "mission"
  BY DEF Route
<1>4. ASSUME NavigationInit PROVE NavigationInv
  <2>1. /\ route = Route("create", "mission") /\ prefs = NoPrefs /\ mismatched = FALSE
        /\ entries = <<route, route>> /\ position = 2 /\ timers = <<>>
    BY <1>4 DEF NavigationInit, Starts
  <2>2. entries[position] = route /\ entries \in Seq(Routes) /\ position \in 1..Len(entries)
    BY <1>2, <2>1
  <2>3. timers \in Seq(CENTER_TABS) /\ prefs \in {NoPrefs, route}
    BY <2>1
  <2>4. mismatched \in BOOLEAN
    BY <2>1
  <2>5. Typed
    BY <1>2, <2>1, <2>2, <2>3, <2>4, Zenon DEF Typed
  <2>6. QED
    BY <1>3, <2>1, <2>2, <2>5 DEF NavigationInv, TimerWillShow, TabIsMounted, surfacesToMount
<1>5. QED
  BY <1>4

\* A change to a surface the mode has, or excused.
LEMMA GoToKeeps ==
  ASSUME NavigationInv, NEW to \in Routes, GoTo(to), UNCHANGED timers,
         mismatched' \in BOOLEAN,
         ~mismatched' => to.tab \in {"mission"} \cup MODE_SURFACES[to.mode]
  PROVE  NavigationInv'
<1> USE DEF NavigationInv, Typed
<1>1. route' = to /\ prefs' = to /\ SyncEntries(to, entries, position)
  BY DEF GoTo, Saves
<1>2. /\ entries' \in Seq(Routes) /\ position' \in 1..Len(entries')
      /\ to = route => entries' = entries /\ position' = position
      /\ to # route => entries'[position'] = to
  BY <1>1, SyncedEntries
<1>3. TimerWillShow'
  BY <1>1, <1>2 DEF TimerWillShow
<1>4. QED
  BY <1>1, <1>2, <1>3 DEF TabIsMounted, surfacesToMount

\* Going back or forward: an entry that is not shown at once sets a timer.
LEMMA PopKeeps ==
  ASSUME NavigationInv, NEW to, handlePopState(to)
  PROVE  NavigationInv'
<1> USE DEF NavigationInv, Typed
<1> DEFINE entry == entries[to]
<1>1. to \in 1..Len(entries) /\ entry \in Routes /\ entry.mode \in VALID_MODES
      /\ entry.tab \in CENTER_TABS
  <2>1. to \in DOMAIN entries
    BY DEF handlePopState
  <2>2. to \in 1..Len(entries) /\ entry \in Routes
    BY <2>1
  <2>3. QED
    BY <2>2 DEF Routes
<1>2. /\ route' = setActiveMode(entry.mode) /\ prefs' = route'
      /\ SyncEntries(route', entries, to)
      /\ timers' = Append(timers, entry.tab)
  BY DEF handlePopState, Saves
<1>3. /\ route' \in Routes /\ route'.mode = entry.mode
      /\ route'.tab \in MODE_SURFACES[entry.mode]
  BY <1>1, <1>2, HomeOfMode
<1>4. /\ entries' \in Seq(Routes) /\ position' \in 1..Len(entries')
      /\ route' = route => entries' = entries /\ position' = to
      /\ route' # route => entries'[position'] = route'
  BY <1>1, <1>2, <1>3, SyncedEntries
<1>5. timers' \in Seq(CENTER_TABS) /\ timers' # <<>> /\ timers'[Len(timers')] = entry.tab
  BY <1>1, <1>2
<1>6. entry # route' => entry.tab # route'.tab
  BY <1>1, <1>3 DEF Routes
<1>7. TimerWillShow'
  BY <1>4, <1>5, <1>6 DEF TimerWillShow
<1>8. mismatched' = FALSE
  BY DEF handlePopState
<1>9. TabIsMounted'
  BY <1>2, <1>3 DEF TabIsMounted, surfacesToMount
<1>10. QED
  BY <1>2, <1>3, <1>4, <1>5, <1>7, <1>8, <1>9

\* A timer fires: the last one shows its surface, or it is shown already.
LEMMA TimerKeeps ==
  ASSUME NavigationInv, TimerFires
  PROVE  NavigationInv'
<1> USE DEF NavigationInv, Typed
<1> DEFINE to == setActiveTab(Head(timers))
<1>1. timers # <<>> /\ Head(timers) \in CENTER_TABS /\ timers' = Tail(timers)
  BY DEF TimerFires
<1>2. to \in Routes /\ to.tab = Head(timers) /\ to.tab \in MODE_SURFACES[to.mode]
  BY <1>1, ModeOfTab
<1>3. route' = to /\ prefs' = to /\ SyncEntries(to, entries, position)
  BY DEF TimerFires, GoTo, Saves
<1>4. /\ entries' \in Seq(Routes) /\ position' \in 1..Len(entries')
      /\ to = route => entries' = entries /\ position' = position
      /\ to # route => entries'[position'] = to
  BY <1>2, <1>3, SyncedEntries
<1>5. /\ Tail(timers) \in Seq(CENTER_TABS)
      /\ Tail(timers) = <<>> => Head(timers) = timers[Len(timers)]
      /\ Tail(timers) # <<>> => Tail(timers)[Len(Tail(timers))] = timers[Len(timers)]
  <2>1. PICK rest \in Seq(CENTER_TABS) : rest = Tail(timers)
    <3>1. Tail(timers) \in Seq(CENTER_TABS)
      BY <1>1
    <3>2. QED
      BY <3>1, Zenon
  <2>2. PICK last \in Nat \ {0} : last = Len(timers)
    BY <1>1, EmptySeq
  <2>3. Len(rest) = last - 1 /\ Head(timers) = timers[1]
    BY <1>1, <2>1, <2>2
  <2>4. \A n \in 1..(last - 1) : rest[n] = timers[n + 1]
    BY <1>1, <2>1, <2>2
  <2>5. ASSUME rest = <<>> PROVE Head(timers) = timers[last]
    <3>1. Len(rest) = 0
      BY <2>5, EmptySeq
    <3>2. last = 1
      BY <2>3, <3>1
    <3>3. QED
      BY <2>3, <3>2
  <2>6. ASSUME rest # <<>> PROVE rest[Len(rest)] = timers[last]
    <3>1. last - 1 # 0
      BY <2>3, <2>6, EmptySeq
    <3>2. last - 1 \in 1..(last - 1) /\ (last - 1) + 1 = last
      BY <3>1
    <3>3. QED
      BY <2>3, <2>4, <3>2
  <2>7. QED
    BY <2>1, <2>2, <2>5, <2>6, Zenon
<1>6. TimerWillShow'
  BY <1>1, <1>2, <1>3, <1>4, <1>5 DEF TimerWillShow
<1>7. mismatched' = FALSE
  BY DEF TimerFires
<1>8. TabIsMounted'
  BY <1>2, <1>3 DEF TabIsMounted, surfacesToMount
<1>9. QED
  BY <1>1, <1>2, <1>3, <1>4, <1>5, <1>6, <1>7, <1>8

LEMMA RestartKeeps ==
  ASSUME NavigationInv, Restart
  PROVE  NavigationInv'
<1> USE DEF NavigationInv, Typed
<1>1. Route("create", "mission") \in Routes /\ Route("create", "mission").tab = "mission"
  <2>1. "create" \in VALID_MODES /\ Route("create", "mission") = setActiveMode("create")
    BY DEF VALID_MODES, MODE_SURFACES, setActiveMode, MODE_HOME_SURFACE
  <2>2. QED
    BY <2>1, HomeOfMode DEF Route
<1>2. /\ route' \in {route, Route("create", "mission")} /\ entries' = <<route', route'>>
      /\ position' = 2 /\ timers' = <<>> /\ prefs' = prefs /\ mismatched' = mismatched
      /\ prefs # NoPrefs => route' = route
  BY DEF Restart
<1>3. entries'[position'] = route'
  BY <1>2
<1>4. entries' \in Seq(Routes) /\ position' \in 1..Len(entries')
  BY <1>1, <1>2
<1>5. route' \in Routes /\ prefs' \in {NoPrefs, route'} /\ timers' \in Seq(CENTER_TABS)
  BY <1>1, <1>2
<1>6. QED
  BY <1>1, <1>2, <1>3, <1>4, <1>5 DEF TimerWillShow, TabIsMounted, surfacesToMount

LEMMA NextNavigation ==
  NavigationInv /\ [NavigationNext]_navigationVars => NavigationInv'
<1> SUFFICES ASSUME NavigationInv, [NavigationNext]_navigationVars
             PROVE  NavigationInv'
  OBVIOUS
<1>1. ASSUME NEW tab \in Tabs, OpenTab(tab) PROVE NavigationInv'
  <2>1. tab \in CENTER_TABS
    BY TabsAssumption
  <2>2. QED
    BY <1>1, <2>1, ModeOfTab, GoToKeeps DEF OpenTab
<1>2. ASSUME NEW mode \in VALID_MODES, OpenMode(mode) PROVE NavigationInv'
  BY <1>2, HomeOfMode, GoToKeeps DEF OpenMode
<1>3. ASSUME NEW link \in DeepLinks, navigateTo(link) PROVE NavigationInv'
  <2>1. link \in Routes
    BY DeepLinksAssumption
  <2>2. QED
    BY <1>3, <2>1, GoToKeeps DEF navigateTo
<1>4. CASE handlePopState(position - 1)
  BY <1>4, PopKeeps
<1>5. CASE handlePopState(position + 1)
  BY <1>5, PopKeeps
<1>6. CASE TimerFires
  BY <1>6, TimerKeeps
<1>7. CASE Restart
  BY <1>7, RestartKeeps
<1>8. CASE UNCHANGED navigationVars
  BY <1>8 DEF navigationVars, NavigationInv, Typed, TimerWillShow, TabIsMounted, surfacesToMount
<1>9. QED
  BY <1>1, <1>2, <1>3, <1>4, <1>5, <1>6, <1>7, <1>8 DEF NavigationNext

\* Whatever tabs, modes, going back, timers and restarts, the active tab is
\* one of those CenterArea mounts, unless a link named one of another mode.
THEOREM WindowIsNeverBlank == NavigationSpec => []TabIsMounted
<1>1. NavigationInv => TabIsMounted
  BY DEF NavigationInv
<1>2. QED
  BY <1>1, InitNavigation, NextNavigation, PTL DEF NavigationSpec

\* Once the timers of going back have fired the path of the window is that of
\* the tab it shows, for any length of the history.
THEOREM PathIsThatOfTheTab == NavigationSpec => []UrlShowsTab
<1>1. NavigationInv => UrlShowsTab
  BY DEF NavigationInv, TimerWillShow, UrlShowsTab
<1>2. QED
  BY <1>1, InitNavigation, NextNavigation, PTL DEF NavigationSpec

-----------------------------------------------------------------------------
(* The stream of events *)

Splittings == [blocks : Seq(Seq(Symbols)), remainder : Seq(Symbols)]
NoBlocks == [blocks |-> <<>>, remainder |-> <<>>]

LEMMA SplitsTyped ==
  ASSUME NEW split \in Splittings, NEW symbol \in Symbols
  PROVE  Splits(split, symbol) \in Splittings
<1>1. split.blocks \in Seq(Seq(Symbols)) /\ split.remainder \in Seq(Symbols)
  BY DEF Splittings
<1>2. Append(split.remainder, symbol) \in Seq(Symbols)
  BY <1>1, AppendProperties
<1>3. ASSUME EndsBlock(split, symbol)
      PROVE  /\ Append(split.blocks, Front(split.remainder)) \in Seq(Seq(Symbols))
             /\ <<>> \in Seq(Symbols)
  <2>1. Front(split.remainder) \in Seq(Symbols)
    BY <1>1, <1>3 DEF EndsBlock, Front
  <2>2. QED
    BY <1>1, <2>1, AppendProperties, EmptySeq
<1>4. CASE EndsBlock(split, symbol)
  BY <1>3, <1>4 DEF Splits, Splittings
<1>5. CASE ~EndsBlock(split, symbol)
  <2>1. Splits(split, symbol) = [split EXCEPT !.remainder = Append(@, symbol)]
    BY <1>5 DEF Splits
  <2>2. QED
    BY <1>1, <1>2, <2>1 DEF Splittings
<1>6. QED
  BY <1>4, <1>5

\* The blocks of a text are those of the text without its last symbol, and one step.
LEMMA SplitSteps ==
  /\ splitSSEBlocks[<<>>] = NoBlocks
  /\ \A t \in Seq(Symbols), x \in Symbols :
       splitSSEBlocks[Append(t, x)] = Splits(splitSSEBlocks[t], x)
<1> DEFINE step == [v \in Splittings |-> [x \in Symbols |-> Splits(v, x)]]
           Runs(f) == f = [text \in Seq(Symbols) |->
                             IF text = <<>> THEN [blocks |-> <<>>, remainder |-> <<>>]
                             ELSE Splits(f[Front(text)], Last(text))]
<1>1. NoBlocks \in Splittings
  BY EmptySeq DEF NoBlocks, Splittings
<1>2. step \in [Splittings -> [Symbols -> Splittings]]
  BY SplitsTyped
<1>3. PICK f \in [Seq(Symbols) -> Splittings] : Recurses(f, Symbols, NoBlocks, step)
  <2> HIDE DEF step
  <2> QED BY <1>1, <1>2, Recursion
<1>4. ASSUME NEW text \in Seq(Symbols)
      PROVE  f[text] = IF text = <<>> THEN [blocks |-> <<>>, remainder |-> <<>>]
                       ELSE Splits(f[Front(text)], Last(text))
  <2>1. ASSUME text # <<>>
        PROVE  step[f[Front(text)]][Last(text)] = Splits(f[Front(text)], Last(text))
    <3>1. Front(text) \in Seq(Symbols) /\ Last(text) \in Symbols
      BY <2>1, FrontAndLast
    <3>2. f[Front(text)] \in Splittings
      BY <3>1
    <3>3. QED
      BY <3>1, <3>2
  <2> HIDE DEF step
  <2>2. f[text] = IF text = <<>> THEN NoBlocks ELSE step[f[Front(text)]][Last(text)]
    BY <1>3 DEF Recurses
  <2>3. QED
    BY <2>1, <2>2 DEF NoBlocks
<1>5. Runs(f)
  BY <1>4
<1>6. PICK g : g = (CHOOSE h : Runs(h))
  OBVIOUS
<1>7. Runs(g)
  <2> HIDE DEF Runs
  <2> QED BY <1>5, <1>6, Zenon
<1>8. splitSSEBlocks = g
  BY <1>6 DEF splitSSEBlocks
<1>9. g[<<>>] = NoBlocks
  BY <1>7, EmptySeq DEF NoBlocks
<1>10. ASSUME NEW t \in Seq(Symbols), NEW x \in Symbols
       PROVE  g[Append(t, x)] = Splits(g[t], x)
  <2>1. /\ Append(t, x) \in Seq(Symbols) /\ Append(t, x) # <<>>
        /\ Front(Append(t, x)) = t /\ Last(Append(t, x)) = x
    BY AppendProperties, FrontOfAppend
  <2>2. QED
    BY <1>7, <2>1
<1>11. QED
  BY <1>8, <1>9, <1>10

Parsed == {parseSSEEvent(block) : block \in Seq(Symbols)}

LEMMA PushesTyped ==
  ASSUME NEW events \in Seq(Parsed), NEW block \in Seq(Symbols)
  PROVE  Pushes(events, block) \in Seq(Parsed)
<1>1. parseSSEEvent(block) \in Parsed
  BY DEF Parsed
<1>2. PICK event \in Parsed : event = parseSSEEvent(block)
  BY <1>1, Zenon
<1>3. Append(events, event) \in Seq(Parsed)
  BY AppendProperties
<1>4. QED
  BY <1>2, <1>3 DEF Pushes

\* Likewise the events of blocks.
LEMMA EventSteps ==
  /\ EventsOf[<<>>] = <<>>
  /\ \A t \in Seq(Seq(Symbols)), x \in Seq(Symbols) :
       EventsOf[Append(t, x)] = Pushes(EventsOf[t], x)
<1> DEFINE step == [v \in Seq(Parsed) |-> [x \in Seq(Symbols) |-> Pushes(v, x)]]
           Runs(f) == f = [blocks \in Seq(Seq(Symbols)) |->
                             IF blocks = <<>> THEN <<>>
                             ELSE Pushes(f[Front(blocks)], Last(blocks))]
<1>1. <<>> \in Seq(Parsed)
  BY EmptySeq
<1>2. step \in [Seq(Parsed) -> [Seq(Symbols) -> Seq(Parsed)]]
  BY PushesTyped
<1>3. PICK f \in [Seq(Seq(Symbols)) -> Seq(Parsed)] : Recurses(f, Seq(Symbols), <<>>, step)
  <2> HIDE DEF step
  <2> QED BY <1>1, <1>2, Recursion
<1>4. ASSUME NEW blocks \in Seq(Seq(Symbols))
      PROVE  f[blocks] = IF blocks = <<>> THEN <<>> ELSE Pushes(f[Front(blocks)], Last(blocks))
  <2>1. ASSUME blocks # <<>>
        PROVE  step[f[Front(blocks)]][Last(blocks)] = Pushes(f[Front(blocks)], Last(blocks))
    <3>1. Front(blocks) \in Seq(Seq(Symbols)) /\ Last(blocks) \in Seq(Symbols)
      BY <2>1, FrontAndLast
    <3>2. f[Front(blocks)] \in Seq(Parsed)
      BY <3>1
    <3>3. QED
      BY <3>1, <3>2
  <2> HIDE DEF step
  <2>2. f[blocks] = IF blocks = <<>> THEN <<>> ELSE step[f[Front(blocks)]][Last(blocks)]
    BY <1>3 DEF Recurses
  <2>3. QED
    BY <2>1, <2>2
<1>5. Runs(f)
  BY <1>4
<1>6. PICK g : g = (CHOOSE h : Runs(h))
  OBVIOUS
<1>7. Runs(g)
  <2> HIDE DEF Runs
  <2> QED BY <1>5, <1>6, Zenon
<1>8. EventsOf = g
  BY <1>6 DEF EventsOf
<1>9. g[<<>>] = <<>>
  BY <1>7, EmptySeq
<1>10. ASSUME NEW t \in Seq(Seq(Symbols)), NEW x \in Seq(Symbols)
       PROVE  g[Append(t, x)] = Pushes(g[t], x)
  <2>1. /\ Append(t, x) \in Seq(Seq(Symbols)) /\ Append(t, x) # <<>>
        /\ Front(Append(t, x)) = t /\ Last(Append(t, x)) = x
    BY AppendProperties, FrontOfAppend
  <2>2. QED
    BY <1>7, <2>1
<1>11. QED
  BY <1>8, <1>9, <1>10

LEMMA SplittingTyped ==
  \A text \in Seq(Symbols) : splitSSEBlocks[text] \in Splittings
<1> DEFINE P == {text \in Seq(Symbols) : splitSSEBlocks[text] \in Splittings}
<1>1. <<>> \in P
  <2>1. NoBlocks \in Splittings /\ <<>> \in Seq(Symbols)
    BY EmptySeq DEF NoBlocks, Splittings
  <2>2. QED
    BY <2>1, SplitSteps
<1>2. ASSUME NEW s \in Seq(Symbols), NEW x \in Symbols, s \in P PROVE Append(s, x) \in P
  BY <1>2, SplitSteps, SplitsTyped, AppendProperties
<1>3. Seq(Symbols) \subseteq P
  <2> HIDE DEF P
  <2> QED BY <1>1, <1>2, OnSequences
<1>4. QED
  BY <1>3

LEMMA EventsTyped ==
  \A blocks \in Seq(Seq(Symbols)) : EventsOf[blocks] \in Seq(Parsed)
<1> DEFINE P == {blocks \in Seq(Seq(Symbols)) : EventsOf[blocks] \in Seq(Parsed)}
<1>1. <<>> \in P
  BY EventSteps, EmptySeq
<1>2. ASSUME NEW s \in Seq(Seq(Symbols)), NEW x \in Seq(Symbols), s \in P
      PROVE  Append(s, x) \in P
  BY <1>2, EventSteps, PushesTyped, AppendProperties
<1>3. Seq(Seq(Symbols)) \subseteq P
  <2> HIDE DEF P
  <2> QED BY <1>1, <1>2, OnSequences
<1>4. QED
  BY <1>3

\* The events of blocks read in two parts are those of each.
LEMMA EventsInParts ==
  ASSUME NEW a \in Seq(Seq(Symbols)), NEW b \in Seq(Seq(Symbols))
  PROVE  EventsOf[a \o b] = EventsOf[a] \o EventsOf[b]
<1> DEFINE P == {c \in Seq(Seq(Symbols)) : EventsOf[a \o c] = EventsOf[a] \o EventsOf[c]}
<1>0. EventsOf[a] \in Seq(Parsed)
  BY EventsTyped
<1>join. \A p, q \in Seq(Parsed), d \in Parsed :
         p \o q \in Seq(Parsed) /\ p \o Append(q, d) = Append(p \o q, d)
  BY AppendJoins
<1>1. <<>> \in P
  <2>1. a \o <<>> = a /\ EventsOf[a] \o <<>> = EventsOf[a]
    BY <1>0, ConcatEmptySeq
  <2>2. QED
    BY <2>1, EventSteps, EmptySeq
<1>2. ASSUME NEW c \in Seq(Seq(Symbols)), NEW x \in Seq(Symbols), c \in P
      PROVE  Append(c, x) \in P
  <2>1. a \o Append(c, x) = Append(a \o c, x) /\ a \o c \in Seq(Seq(Symbols))
    BY AppendJoins
  <2>2. EventsOf[a \o Append(c, x)] = Pushes(EventsOf[a] \o EventsOf[c], x)
    BY <1>2, <2>1, EventSteps
  <2>3. EventsOf[Append(c, x)] = Pushes(EventsOf[c], x)
    BY EventSteps
  <2>4. EventsOf[c] \in Seq(Parsed) /\ parseSSEEvent(x) \in Parsed
    BY EventsTyped DEF Parsed
  <2>5. Pushes(EventsOf[a] \o EventsOf[c], x) = EventsOf[a] \o Pushes(EventsOf[c], x)
    <3>1. PICK e \in Parsed, s \in Seq(Parsed), t \in Seq(Parsed) :
            e = parseSSEEvent(x) /\ s = EventsOf[a] /\ t = EventsOf[c]
      BY <1>0, <2>4, Zenon
    <3>2. Append(s \o t, e) = s \o Append(t, e)
      BY <1>join
    <3>3. QED
      BY <3>1, <3>2 DEF Pushes
  <2>6. QED
    BY <2>2, <2>3, <2>5, AppendProperties
<1>3. Seq(Seq(Symbols)) \subseteq P
  <2> HIDE DEF P
  <2> QED BY <1>1, <1>2, OnSequences
<1>4. QED
  BY <1>3

\* What remains holds no block.
LEMMA RemainderHoldsNone ==
  \A text \in Seq(Symbols) :
    splitSSEBlocks[splitSSEBlocks[text].remainder]
      = [blocks |-> <<>>, remainder |-> splitSSEBlocks[text].remainder]
<1> DEFINE r(text) == splitSSEBlocks[text].remainder
           P == {text \in Seq(Symbols) : splitSSEBlocks[r(text)] = [blocks |-> <<>>, remainder |-> r(text)]}
<1>1. <<>> \in P
  BY SplitSteps, EmptySeq DEF NoBlocks
<1>2. ASSUME NEW s \in Seq(Symbols), NEW x \in Symbols, s \in P PROVE Append(s, x) \in P
  <2>1. splitSSEBlocks[s] \in Splittings
    BY SplittingTyped
  <2>2. r(s) \in Seq(Symbols) /\ splitSSEBlocks[Append(s, x)] = Splits(splitSSEBlocks[s], x)
    BY <2>1, SplitSteps DEF Splittings
  <2>3. CASE EndsBlock(splitSSEBlocks[s], x)
    <3>1. r(Append(s, x)) = <<>>
      BY <2>2, <2>3 DEF Splits
    <3>2. QED
      BY <3>1, SplitSteps, AppendProperties DEF NoBlocks
  <2>4. CASE ~EndsBlock(splitSSEBlocks[s], x)
    <3>1. r(Append(s, x)) = Append(r(s), x)
      BY <2>1, <2>2, <2>4 DEF Splits, Splittings
    <3>2. splitSSEBlocks[Append(r(s), x)] = Splits(splitSSEBlocks[r(s)], x)
      BY <2>2, SplitSteps
    <3>3. splitSSEBlocks[r(s)] = [blocks |-> <<>>, remainder |-> r(s)]
      BY <1>2
    <3>4. ~EndsBlock([blocks |-> <<>>, remainder |-> r(s)], x)
      BY <2>4 DEF EndsBlock
    <3>5. Splits([blocks |-> <<>>, remainder |-> r(s)], x)
            = [blocks |-> <<>>, remainder |-> Append(r(s), x)]
      BY <3>4 DEF Splits
    <3>6. QED
      BY <3>1, <3>2, <3>3, <3>5, AppendProperties
  <2>5. QED
    BY <2>3, <2>4
<1>3. Seq(Symbols) \subseteq P
  <2> HIDE DEF P
  <2> QED BY <1>1, <1>2, OnSequences
<1>4. QED
  BY <1>3

\* A text read in two parts: what remains of the first goes before the second.
LEMMA SplitInParts ==
  ASSUME NEW text \in Seq(Symbols), NEW chunk \in Seq(Symbols),
         NEW r, r = splitSSEBlocks[text].remainder
  PROVE  /\ splitSSEBlocks[text \o chunk].blocks
              = splitSSEBlocks[text].blocks \o splitSSEBlocks[r \o chunk].blocks
         /\ splitSSEBlocks[text \o chunk].remainder = splitSSEBlocks[r \o chunk].remainder
<1> DEFINE A(c) == splitSSEBlocks[text \o c]
           B(c) == splitSSEBlocks[r \o c]
           P == {c \in Seq(Symbols) :
                   /\ A(c).blocks = splitSSEBlocks[text].blocks \o B(c).blocks
                   /\ A(c).remainder = B(c).remainder}
<1>0. splitSSEBlocks[text].blocks \in Seq(Seq(Symbols)) /\ r \in Seq(Symbols)
  BY SplittingTyped DEF Splittings
<1>1. <<>> \in P
  <2>1. /\ text \o <<>> = text /\ r \o <<>> = r
        /\ splitSSEBlocks[text].blocks \o <<>> = splitSSEBlocks[text].blocks
    BY <1>0, ConcatEmptySeq
  <2>2. splitSSEBlocks[r] = [blocks |-> <<>>, remainder |-> r]
    BY RemainderHoldsNone
  <2>3. A(<<>>) = splitSSEBlocks[text] /\ B(<<>>) = [blocks |-> <<>>, remainder |-> r]
    BY <2>1, <2>2
  <2>4. <<>> \in Seq(Symbols)
    BY EmptySeq
  <2>5. B(<<>>).blocks = <<>> /\ B(<<>>).remainder = r
    BY <2>3
  <2>6. A(<<>>).blocks = splitSSEBlocks[text].blocks \o B(<<>>).blocks
    BY <2>1, <2>3, <2>5, Zenon
  <2>7. A(<<>>).remainder = B(<<>>).remainder
    BY <2>3, <2>5, Zenon
  <2>8. QED
    BY <2>4, <2>6, <2>7, Zenon
<1>2. ASSUME NEW c \in Seq(Symbols), NEW x \in Symbols, c \in P PROVE Append(c, x) \in P
  <2>0. Append(c, x) \in Seq(Symbols)
    BY AppendProperties
  <2>1. /\ text \o Append(c, x) = Append(text \o c, x) /\ text \o c \in Seq(Symbols)
        /\ r \o Append(c, x) = Append(r \o c, x) /\ r \o c \in Seq(Symbols)
    <3>1. \A p, q \in Seq(Symbols), y \in Symbols :
            p \o q \in Seq(Symbols) /\ p \o Append(q, y) = Append(p \o q, y)
      BY AppendJoins
    <3>2. QED
      BY <1>0, <3>1
  <2>2. /\ A(Append(c, x)) = Splits(A(c), x) /\ A(c) \in Splittings
        /\ B(Append(c, x)) = Splits(B(c), x) /\ B(c) \in Splittings
    BY <2>1, SplitSteps, SplittingTyped
  <2>3. /\ A(c).blocks = splitSSEBlocks[text].blocks \o B(c).blocks
        /\ A(c).remainder = B(c).remainder
    BY <1>2
  <2>4. EndsBlock(A(c), x) <=> EndsBlock(B(c), x)
    BY <2>3 DEF EndsBlock
  <2>5. CASE EndsBlock(B(c), x)
    <3> DEFINE block == Front(B(c).remainder)
    <3>1. block \in Seq(Symbols) /\ B(c).blocks \in Seq(Seq(Symbols))
      BY <2>2, <2>5, FrontAndLast DEF EndsBlock, Splittings
    <3>2. /\ A(Append(c, x)) = [blocks |-> Append(A(c).blocks, block), remainder |-> <<>>]
          /\ B(Append(c, x)) = [blocks |-> Append(B(c).blocks, block), remainder |-> <<>>]
      BY <2>2, <2>3, <2>4, <2>5 DEF Splits
    <3>3. Append(splitSSEBlocks[text].blocks \o B(c).blocks, block)
            = splitSSEBlocks[text].blocks \o Append(B(c).blocks, block)
      <4>1. \A p, q \in Seq(Seq(Symbols)), y \in Seq(Symbols) :
              p \o q \in Seq(Seq(Symbols)) /\ p \o Append(q, y) = Append(p \o q, y)
        BY AppendJoins
      <4> HIDE DEF block, B
      <4>2. QED
        BY <1>0, <3>1, <4>1
    <3>4. /\ A(Append(c, x)).blocks = splitSSEBlocks[text].blocks \o B(Append(c, x)).blocks
          /\ A(Append(c, x)).remainder = B(Append(c, x)).remainder
      <4> HIDE DEF block, A, B
      <4>1. /\ A(Append(c, x)).blocks = Append(A(c).blocks, block)
            /\ B(Append(c, x)).blocks = Append(B(c).blocks, block)
            /\ A(Append(c, x)).remainder = <<>> /\ B(Append(c, x)).remainder = <<>>
        BY <3>2
      <4>2. QED
        BY <2>3, <3>3, <4>1, Zenon
    <3>5. QED
      BY <2>0, <3>4
  <2>6. CASE ~EndsBlock(B(c), x)
    <3>1. /\ A(Append(c, x)) = [A(c) EXCEPT !.remainder = Append(@, x)]
          /\ B(Append(c, x)) = [B(c) EXCEPT !.remainder = Append(@, x)]
      BY <2>2, <2>4, <2>6 DEF Splits
    <3>2. /\ A(Append(c, x)).blocks = A(c).blocks /\ B(Append(c, x)).blocks = B(c).blocks
          /\ A(Append(c, x)).remainder = Append(A(c).remainder, x)
          /\ B(Append(c, x)).remainder = Append(B(c).remainder, x)
      <4> HIDE DEF A, B
      <4> QED BY <2>2, <3>1 DEF Splittings
    <3>3. QED
      BY <2>0, <2>3, <3>2
  <2>7. QED
    BY <2>5, <2>6
<1>3. Seq(Symbols) \subseteq P
  <2> HIDE DEF P
  <2> QED BY <1>1, <1>2, OnSequences
<1>4. QED
  BY <1>3

\* The text received is one of symbols, and has been parsed.
StreamInv ==
  /\ received \in Seq(Symbols)
  /\ ChunksDoNotMatter

LEMMA InitStreamInv == StreamInit => StreamInv
<1>1. EventsOf[splitSSEBlocks[<<>>].blocks] = <<>> /\ splitSSEBlocks[<<>>].remainder = <<>>
  BY SplitSteps, EventSteps DEF NoBlocks
<1>2. QED
  BY <1>1, EmptySeq DEF StreamInit, StreamInv, ChunksDoNotMatter, parseSSEStream

LEMMA NextStreamInv ==
  StreamInv /\ [StreamNext]_streamVars => StreamInv'
<1>1. ASSUME StreamInv, NEW chunk \in Seq(Symbols), ReadChunk(chunk) PROVE StreamInv'
  <2>1. PICK text \in Seq(Symbols) : text = received
    <3>1. received \in Seq(Symbols)
      BY <1>1 DEF StreamInv
    <3>2. QED
      BY <3>1, Zenon
  <2>2. PICK r : r = splitSSEBlocks[text].remainder
    OBVIOUS
  <2>3. buffer = r /\ parsed = EventsOf[splitSSEBlocks[text].blocks]
    BY <1>1, <2>1, <2>2 DEF StreamInv, ChunksDoNotMatter, parseSSEStream
  <2>4. /\ received' = text \o chunk
        /\ parsed' = parsed \o EventsOf[splitSSEBlocks[r \o chunk].blocks]
        /\ buffer' = splitSSEBlocks[r \o chunk].remainder
    BY <1>1, <2>1, <2>3 DEF ReadChunk, Decoded, parseSSEStream
  <2>5. /\ splitSSEBlocks[text \o chunk].blocks
              = splitSSEBlocks[text].blocks \o splitSSEBlocks[r \o chunk].blocks
        /\ splitSSEBlocks[text \o chunk].remainder = splitSSEBlocks[r \o chunk].remainder
    BY <2>2, SplitInParts
  <2>6. /\ splitSSEBlocks[text].blocks \in Seq(Seq(Symbols))
        /\ splitSSEBlocks[r \o chunk].blocks \in Seq(Seq(Symbols))
    <3>1. splitSSEBlocks[text] \in Splittings
      BY SplittingTyped
    <3>2. r \o chunk \in Seq(Symbols)
      BY <2>2, <3>1, ConcatProperties DEF Splittings
    <3>3. splitSSEBlocks[r \o chunk] \in Splittings
      BY <3>2, SplittingTyped
    <3>4. QED
      BY <3>1, <3>3 DEF Splittings
  <2>7. parsed' = EventsOf[splitSSEBlocks[text \o chunk].blocks]
    BY <2>3, <2>4, <2>5, <2>6, EventsInParts
  <2>8. text \o chunk \in Seq(Symbols)
    BY ConcatProperties
  <2>9. QED
    BY <2>4, <2>5, <2>7, <2>8 DEF StreamInv, ChunksDoNotMatter, parseSSEStream
<1>2. ASSUME StreamInv, UNCHANGED streamVars PROVE StreamInv'
  BY <1>2 DEF StreamInv, ChunksDoNotMatter, parseSSEStream, streamVars
<1>3. SeqOf(Symbols, 3) \subseteq Seq(Symbols)
  <2> SUFFICES ASSUME NEW c \in SeqOf(Symbols, 3) PROVE c \in Seq(Symbols)
    OBVIOUS
  <2>1. PICK m \in 0..3 : c \in [1..m -> Symbols]
    BY Zenon DEF SeqOf
  <2>2. m \in Nat
    OBVIOUS
  <2>3. QED
    BY <2>1, <2>2, IsASeq
<1>4. QED
  BY <1>1, <1>2, <1>3 DEF StreamNext

\* However the stream is cut, the events handed on are those of the text.
THEOREM StreamReassembled == StreamSpec => []ChunksDoNotMatter
<1>1. StreamInv => ChunksDoNotMatter
  BY DEF StreamInv
<1>2. QED
  BY <1>1, InitStreamInv, NextStreamInv, PTL DEF StreamSpec

-----------------------------------------------------------------------------
(* The comparison of two texts: its table *)

\* What buildLineDiff writes into a cell of a table, where eq are the places of
\* equal lines.
Value(f, m, n, eq, i, j) ==
  IF i = m \/ j = n THEN 0
  ELSE IF <<i + 1, j + 1>> \in eq THEN f[<<i + 1, j + 1>>] + 1
  ELSE IF f[<<i + 1, j>>] > f[<<i, j + 1>>] THEN f[<<i + 1, j>>]
  ELSE f[<<i, j + 1>>]

Tabulates(f, m, n, eq) ==
  \A i \in 0..m, j \in 0..n : f[<<i, j>>] = Value(f, m, n, eq, i, j)

\* A table can be filled, from its end.
LEMMA TableExists ==
  ASSUME NEW m \in Nat, NEW n \in Nat, NEW eq
  PROVE  \E f \in [(0..m) \X (0..n) -> Nat] : Tabulates(f, m, n, eq)
<1> DEFINE Cells == (0..m) \X (0..n)
           Filled(f, d) == \A i \in 0..m, j \in 0..n :
                             (m - i) + (n - j) <= d => f[<<i, j>>] = Value(f, m, n, eq, i, j)
           N == {d \in Nat : \E f \in [Cells -> Nat] : Filled(f, d)}
<1>1. 0 \in N
  <2>1. PICK f : f = [c \in Cells |-> 0]
    OBVIOUS
  <2>2. ASSUME NEW i \in 0..m, NEW j \in 0..n, (m - i) + (n - j) <= 0
        PROVE  f[<<i, j>>] = Value(f, m, n, eq, i, j)
    <3>1. i = m /\ j = n
      BY <2>2
    <3>2. f[<<i, j>>] = 0
      BY <2>1
    <3>3. QED
      BY <3>1, <3>2 DEF Value
  <2>3. f \in [Cells -> Nat]
    BY <2>1
  <2>4. QED
    BY <2>2, <2>3
<1>2. ASSUME NEW d \in Nat, d \in N PROVE d + 1 \in N
  <2>1. PICK f \in [Cells -> Nat] : Filled(f, d)
    BY <1>2
  <2>2. PICK g : g = [c \in Cells |-> IF (m - c[1]) + (n - c[2]) = d + 1
                                      THEN Value(f, m, n, eq, c[1], c[2]) ELSE f[c]]
    OBVIOUS
  <2>3. ASSUME NEW i \in 0..m, NEW j \in 0..n PROVE Value(f, m, n, eq, i, j) \in Nat
    <3>1. CASE i = m \/ j = n
      BY <3>1 DEF Value
    <3>2. CASE ~(i = m \/ j = n)
      <4>1. i + 1 \in 0..m /\ j + 1 \in 0..n
        BY <3>2
      <4>2. f[<<i + 1, j + 1>>] \in Nat /\ f[<<i + 1, j>>] \in Nat /\ f[<<i, j + 1>>] \in Nat
        BY <4>1
      <4>3. QED
        BY <4>2 DEF Value
    <3>3. QED
      BY <3>1, <3>2
  <2>4. ASSUME NEW i \in 0..m, NEW j \in 0..n
        PROVE  g[<<i, j>>] = IF (m - i) + (n - j) = d + 1
                             THEN Value(f, m, n, eq, i, j) ELSE f[<<i, j>>]
    BY <2>2
  <2>5. g \in [Cells -> Nat]
    BY <2>2, <2>3
  <2>6. ASSUME NEW i \in 0..m, NEW j \in 0..n, (m - i) + (n - j) <= d + 1
        PROVE  Value(g, m, n, eq, i, j) = Value(f, m, n, eq, i, j)
    <3>1. CASE i = m \/ j = n
      BY <3>1 DEF Value
    <3>2. CASE ~(i = m \/ j = n)
      <4>1. i + 1 \in 0..m /\ j + 1 \in 0..n
        BY <3>2
      <4>2. /\ (m - (i + 1)) + (n - (j + 1)) # d + 1
            /\ (m - (i + 1)) + (n - j) # d + 1
            /\ (m - i) + (n - (j + 1)) # d + 1
        BY <2>6
      <4>3. /\ g[<<i + 1, j + 1>>] = f[<<i + 1, j + 1>>]
            /\ g[<<i + 1, j>>] = f[<<i + 1, j>>]
            /\ g[<<i, j + 1>>] = f[<<i, j + 1>>]
        BY <2>4, <4>1, <4>2
      <4>4. QED
        BY <4>3 DEF Value
    <3>3. QED
      BY <3>1, <3>2
  <2>7. ASSUME NEW i \in 0..m, NEW j \in 0..n, (m - i) + (n - j) <= d + 1
        PROVE  g[<<i, j>>] = Value(g, m, n, eq, i, j)
    <3>1. CASE (m - i) + (n - j) = d + 1
      BY <2>4, <2>6, <2>7, <3>1
    <3>2. CASE (m - i) + (n - j) # d + 1
      <4>1. (m - i) + (n - j) <= d
        BY <2>7, <3>2
      <4>2. f[<<i, j>>] = Value(f, m, n, eq, i, j)
        BY <2>1, <4>1
      <4>3. QED
        BY <2>4, <2>6, <2>7, <3>2, <4>2
    <3>3. QED
      BY <3>1, <3>2
  <2>8. Filled(g, d + 1)
    BY <2>7
  <2>9. QED
    <3> HIDE DEF Cells, Filled
    <3> QED BY <2>5, <2>8
<1>3. m + n \in N
  <2> HIDE DEF N
  <2>1. Nat \subseteq N
    BY <1>1, <1>2, Numbers
  <2>2. QED
    BY <2>1
<1>4. PICK f \in [Cells -> Nat] : Filled(f, m + n)
  BY <1>3
<1>5. Tabulates(f, m, n, eq)
  <2>1. ASSUME NEW i \in 0..m, NEW j \in 0..n PROVE (m - i) + (n - j) <= m + n
    OBVIOUS
  <2>2. QED
    BY <1>4, <2>1 DEF Tabulates
<1>6. QED
  BY <1>5

\* Whatever fills it is a number.
LEMMA TableTyped ==
  ASSUME NEW m \in Nat, NEW n \in Nat, NEW eq, NEW f, Tabulates(f, m, n, eq)
  PROVE  \A i \in 0..m, j \in 0..n : f[<<i, j>>] \in Nat
<1> DEFINE N == {d \in Nat : \A i \in 0..m, j \in 0..n :
                               (m - i) + (n - j) <= d => f[<<i, j>>] \in Nat}
<1>1. 0 \in N
  <2>1. ASSUME NEW i \in 0..m, NEW j \in 0..n, (m - i) + (n - j) <= 0
        PROVE  f[<<i, j>>] \in Nat
    <3>1. i = m
      BY <2>1
    <3>2. f[<<i, j>>] = Value(f, m, n, eq, i, j)
      BY DEF Tabulates
    <3>3. QED
      BY <3>1, <3>2 DEF Value
  <2>2. QED
    BY <2>1
<1>2. ASSUME NEW d \in Nat, d \in N PROVE d + 1 \in N
  <2>1. ASSUME NEW i \in 0..m, NEW j \in 0..n, (m - i) + (n - j) <= d + 1
        PROVE  f[<<i, j>>] \in Nat
    <3>0. f[<<i, j>>] = Value(f, m, n, eq, i, j)
      BY DEF Tabulates
    <3>1. CASE i = m \/ j = n
      BY <3>0, <3>1 DEF Value
    <3>2. CASE ~(i = m \/ j = n)
      <4>1. i + 1 \in 0..m /\ j + 1 \in 0..n
        BY <3>2
      <4>2. /\ (m - (i + 1)) + (n - (j + 1)) <= d
            /\ (m - (i + 1)) + (n - j) <= d
            /\ (m - i) + (n - (j + 1)) <= d
        BY <2>1
      <4>3. f[<<i + 1, j + 1>>] \in Nat /\ f[<<i + 1, j>>] \in Nat /\ f[<<i, j + 1>>] \in Nat
        BY <1>2, <4>1, <4>2
      <4>4. QED
        BY <3>0, <4>3 DEF Value
    <3>3. QED
      BY <3>1, <3>2
  <2>2. d + 1 \in Nat
    OBVIOUS
  <2>3. QED
    BY <2>1, <2>2
<1>3. m + n \in N
  <2> HIDE DEF N
  <2>1. Nat \subseteq N
    BY <1>1, <1>2, Numbers
  <2>2. QED
    BY <2>1
<1>4. ASSUME NEW i \in 0..m, NEW j \in 0..n PROVE (m - i) + (n - j) <= m + n
  OBVIOUS
<1>5. QED
  BY <1>3, <1>4

\* No more pairs can be kept, beyond a place, than the table says there.
Beyond(pairs, i, j) == \A p \in pairs : p[1] > i /\ p[2] > j

LEMMA TableBounds ==
  ASSUME NEW m \in Nat, NEW n \in Nat, NEW eq \in SUBSET ((1..m) \X (1..n)),
         NEW f, Tabulates(f, m, n, eq)
  PROVE  \A pairs \in SUBSET eq : NoneCross(pairs) => Cardinality(pairs) <= f[<<0, 0>>]
<1> DEFINE Bounded(i, j) == \A pairs \in SUBSET eq :
                              NoneCross(pairs) /\ Beyond(pairs, i, j)
                                => Cardinality(pairs) <= f[<<i, j>>]
           N == {d \in Nat : \A i \in 0..m, j \in 0..n :
                               (m - i) + (n - j) <= d => Bounded(i, j)}
<1>1. \A i \in 0..m, j \in 0..n : f[<<i, j>>] \in Nat
  BY TableTyped
<1>2. ASSUME NEW pairs \in SUBSET eq PROVE IsFiniteSet(pairs) /\ Cardinality(pairs) \in Nat
  <2>1. IsFiniteSet(1..m) /\ IsFiniteSet(1..n)
    BY FS_Interval
  <2>2. IsFiniteSet((1..m) \X (1..n))
    BY <2>1, FS_Product
  <2>3. pairs \in SUBSET ((1..m) \X (1..n))
    OBVIOUS
  <2>4. IsFiniteSet(pairs)
    BY <2>2, <2>3, FS_Subset
  <2>5. QED
    BY <2>4, FS_CardinalityType
<1>3. ASSUME NEW i \in 0..m, NEW j \in 0..n, i = m \/ j = n PROVE Bounded(i, j)
  <2> SUFFICES ASSUME NEW pairs \in SUBSET eq, Beyond(pairs, i, j)
               PROVE  Cardinality(pairs) <= f[<<i, j>>]
    OBVIOUS
  <2>1. \A p \in pairs : p[1] \in 1..m /\ p[2] \in 1..n
    OBVIOUS
  <2>2. pairs = {}
    BY <1>3, <2>1 DEF Beyond
  <2>3. Cardinality(pairs) = 0
    BY <2>2, FS_EmptySet
  <2>4. f[<<i, j>>] \in Nat
    BY <1>1
  <2>5. QED
    BY <2>3, <2>4
<1>4. 0 \in N
  <2>1. ASSUME NEW i \in 0..m, NEW j \in 0..n, (m - i) + (n - j) <= 0 PROVE Bounded(i, j)
    <3>1. i = m
      BY <2>1
    <3>2. QED
      BY <1>3, <3>1
  <2>2. QED
    BY <2>1
<1>5. ASSUME NEW d \in Nat, d \in N PROVE d + 1 \in N
  <2>1. ASSUME NEW i \in 0..m, NEW j \in 0..n, (m - i) + (n - j) <= d + 1, i # m, j # n
        PROVE  Bounded(i, j)
    <3> SUFFICES ASSUME NEW pairs \in SUBSET eq, NoneCross(pairs), Beyond(pairs, i, j)
                 PROVE  Cardinality(pairs) <= f[<<i, j>>]
      OBVIOUS
    <3>1. i + 1 \in 0..m /\ j + 1 \in 0..n
      BY <2>1
    <3>2. Bounded(i + 1, j + 1) /\ Bounded(i + 1, j) /\ Bounded(i, j + 1)
      <4>1. /\ (m - (i + 1)) + (n - (j + 1)) <= d
            /\ (m - (i + 1)) + (n - j) <= d
            /\ (m - i) + (n - (j + 1)) <= d
        BY <2>1
      <4> HIDE DEF Bounded
      <4>2. QED
        BY <1>5, <3>1, <4>1
    <3>3. f[<<i, j>>] = Value(f, m, n, eq, i, j)
      BY DEF Tabulates
    <3>4. \A p \in pairs : p \in eq /\ p[1] \in 1..m /\ p[2] \in 1..n /\ p = <<p[1], p[2]>>
      OBVIOUS
    <3>5. \A p, q \in pairs : p[1] = i + 1 /\ q[2] = j + 1 => p = q
      BY <3>4 DEF NoneCross, Beyond
    <3>6. CASE <<i + 1, j + 1>> \in eq
      <4>1. f[<<i, j>>] = f[<<i + 1, j + 1>>] + 1
        BY <2>1, <3>3, <3>6 DEF Value
      <4>2. PICK x : \A p \in pairs : p # x => p[1] > i + 1 /\ p[2] > j + 1
        <5>1. CASE \E p \in pairs : p[1] = i + 1 \/ p[2] = j + 1
          <6>1. PICK x \in pairs : x[1] = i + 1 \/ x[2] = j + 1
            BY <5>1
          <6>2. ASSUME NEW p \in pairs, p # x PROVE p[1] > i + 1 /\ p[2] > j + 1
            <7>1. /\ p[1] > i /\ p[2] > j /\ x[1] > i /\ x[2] > j
                  /\ (p[1] < x[1] /\ p[2] < x[2]) \/ (x[1] < p[1] /\ x[2] < p[2])
              BY <6>2 DEF NoneCross, Beyond
            <7>2. p[1] \in Int /\ p[2] \in Int /\ x[1] \in Int /\ x[2] \in Int
              BY <3>4
            <7>3. QED
              BY <6>1, <7>1, <7>2
          <6>3. QED
            BY <6>2
        <5>2. CASE ~ \E p \in pairs : p[1] = i + 1 \/ p[2] = j + 1
          BY <3>4, <5>2 DEF Beyond
        <5>3. QED
          BY <5>1, <5>2
      <4>3. /\ pairs \ {x} \in SUBSET eq /\ NoneCross(pairs \ {x})
            /\ Beyond(pairs \ {x}, i + 1, j + 1)
        BY <4>2 DEF NoneCross, Beyond
      <4>4. Cardinality(pairs \ {x}) <= f[<<i + 1, j + 1>>]
        BY <3>2, <4>3
      <4>5. /\ Cardinality(pairs) <= Cardinality(pairs \ {x}) + 1
            /\ Cardinality(pairs \ {x}) \in Nat /\ Cardinality(pairs) \in Nat
        <5>1. /\ Cardinality(pairs \ {x})
                   = IF x \in pairs THEN Cardinality(pairs) - 1 ELSE Cardinality(pairs)
              /\ Cardinality(pairs) \in Nat
          BY <1>2, FS_RemoveElement
        <5>2. Cardinality(pairs \ {x}) \in Nat
          BY <1>2, <4>3
        <5>3. QED
          BY <5>1, <5>2
      <4>6. f[<<i + 1, j + 1>>] \in Nat
        BY <1>1, <3>1
      <4>7. QED
        BY <4>1, <4>4, <4>5, <4>6
    <3>7. CASE <<i + 1, j + 1>> \notin eq
      <4>1. /\ f[<<i, j>>] >= f[<<i + 1, j>>] /\ f[<<i, j>>] >= f[<<i, j + 1>>]
            /\ f[<<i, j>>] \in Nat /\ f[<<i + 1, j>>] \in Nat /\ f[<<i, j + 1>>] \in Nat
        <5>1. f[<<i, j>>] \in Nat /\ f[<<i + 1, j>>] \in Nat /\ f[<<i, j + 1>>] \in Nat
          BY <1>1, <3>1
        <5>2. QED
          BY <2>1, <3>3, <3>7, <5>1 DEF Value
      <4>2. Beyond(pairs, i + 1, j) \/ Beyond(pairs, i, j + 1)
        <5>1. ASSUME NEW p \in pairs, p[1] = i + 1, NEW q \in pairs, q[2] = j + 1 PROVE FALSE
          BY <3>4, <3>5, <3>7, <5>1
        <5>2. QED
          BY <3>4, <5>1 DEF Beyond
      <4>3. Cardinality(pairs) <= f[<<i + 1, j>>] \/ Cardinality(pairs) <= f[<<i, j + 1>>]
        BY <3>2, <4>2
      <4>4. Cardinality(pairs) \in Nat
        BY <1>2
      <4>5. QED
        BY <4>1, <4>3, <4>4
    <3>8. QED
      BY <3>6, <3>7
  <2>2. ASSUME NEW i \in 0..m, NEW j \in 0..n, (m - i) + (n - j) <= d + 1 PROVE Bounded(i, j)
    <3> HIDE DEF Bounded
    <3> QED BY <1>3, <2>1, <2>2
  <2>3. d + 1 \in Nat
    OBVIOUS
  <2>4. QED
    <3> HIDE DEF Bounded
    <3> QED BY <2>2, <2>3
<1>6. m + n \in N
  <2> HIDE DEF N
  <2>1. Nat \subseteq N
    BY <1>4, <1>5, Numbers
  <2>2. QED
    BY <2>1
<1>7. Bounded(0, 0)
  <2>1. 0 \in 0..m /\ 0 \in 0..n /\ (m - 0) + (n - 0) <= m + n
    OBVIOUS
  <2> HIDE DEF Bounded
  <2>2. QED
    BY <1>6, <2>1
<1>8. ASSUME NEW pairs \in SUBSET eq PROVE Beyond(pairs, 0, 0)
  <2>1. \A p \in pairs : p[1] \in 1..m /\ p[2] \in 1..n
    OBVIOUS
  <2>2. QED
    BY <2>1 DEF Beyond
<1>9. QED
  BY <1>7, <1>8

\* The table of the comparison is filled.
LEMMA TableFilled ==
  ASSUME NEW S, NEW old \in Seq(S), NEW new \in Seq(S)
  PROVE  Tabulates(TableOf(old, new), Len(old), Len(new), EqualLines(old, new))
<1> DEFINE Body(f, cell) ==
             IF cell[1] = Len(old) \/ cell[2] = Len(new) THEN 0
             ELSE IF old[cell[1] + 1] = new[cell[2] + 1]
             THEN f[<<cell[1] + 1, cell[2] + 1>>] + 1
             ELSE IF f[<<cell[1] + 1, cell[2]>>] > f[<<cell[1], cell[2] + 1>>]
             THEN f[<<cell[1] + 1, cell[2]>>]
             ELSE f[<<cell[1], cell[2] + 1>>]
           Runs(f) == f = [cell \in (0..Len(old)) \X (0..Len(new)) |-> Body(f, cell)]
           eq == EqualLines(old, new)
<1>1. PICK m \in Nat, n \in Nat : m = Len(old) /\ n = Len(new)
  <2>1. Len(old) \in Nat /\ Len(new) \in Nat
    BY LenProperties
  <2>2. QED
    BY <2>1, Zenon
<1>2. PICK f \in [(0..m) \X (0..n) -> Nat] : Tabulates(f, m, n, eq)
  BY TableExists
<1>3. ASSUME NEW i \in 0..m, NEW j \in 0..n, i # m, j # n
      PROVE  <<i + 1, j + 1>> \in eq <=> old[i + 1] = new[j + 1]
  <2>1. i + 1 \in 1..m /\ j + 1 \in 1..n
    BY <1>3
  <2>2. QED
    BY <1>1, <2>1 DEF EqualLines
<1>4. Runs(f)
  <2>1. ASSUME NEW i \in 0..m, NEW j \in 0..n
        PROVE  f[<<i, j>>] = IF i = m \/ j = n THEN 0
                             ELSE IF old[i + 1] = new[j + 1] THEN f[<<i + 1, j + 1>>] + 1
                             ELSE IF f[<<i + 1, j>>] > f[<<i, j + 1>>] THEN f[<<i + 1, j>>]
                             ELSE f[<<i, j + 1>>]
    <3>1. f[<<i, j>>] = Value(f, m, n, eq, i, j)
      BY <1>2 DEF Tabulates
    <3> HIDE DEF eq
    <3>2. QED
      BY <1>3, <3>1 DEF Value
  <2>2. ASSUME NEW cell \in (0..m) \X (0..n) PROVE f[cell] = Body(f, cell)
    <3>1. PICK i \in 0..m, j \in 0..n : cell = <<i, j>>
      OBVIOUS
    <3>2. cell[1] = i /\ cell[2] = j
      BY <3>1
    <3>3. f[<<i, j>>] = IF i = Len(old) \/ j = Len(new) THEN 0
                        ELSE IF old[i + 1] = new[j + 1] THEN f[<<i + 1, j + 1>>] + 1
                        ELSE IF f[<<i + 1, j>>] > f[<<i, j + 1>>] THEN f[<<i + 1, j>>]
                        ELSE f[<<i, j + 1>>]
      BY <1>1, <2>1, Zenon
    <3>4. QED
      BY <3>1, <3>2, <3>3, Zenon
  <2> HIDE DEF Body
  <2>3. f = [cell \in (0..m) \X (0..n) |-> Body(f, cell)]
    BY <2>2
  <2>4. QED
    BY <1>1, <2>3
<1>5. PICK g : g = (CHOOSE h : Runs(h))
  OBVIOUS
<1>6. Runs(g)
  <2> HIDE DEF Runs
  <2> QED BY <1>4, <1>5, Zenon
<1>7. TableOf(old, new) = g
  BY <1>5 DEF TableOf
<1>8. ASSUME NEW i \in 0..m, NEW j \in 0..n
      PROVE  g[<<i, j>>] = Value(g, m, n, eq, i, j)
  <2>1. g[<<i, j>>] = IF i = m \/ j = n THEN 0
                      ELSE IF old[i + 1] = new[j + 1] THEN g[<<i + 1, j + 1>>] + 1
                      ELSE IF g[<<i + 1, j>>] > g[<<i, j + 1>>] THEN g[<<i + 1, j>>]
                      ELSE g[<<i, j + 1>>]
    BY <1>1, <1>6
  <2> HIDE DEF eq
  <2>2. QED
    BY <1>3, <2>1 DEF Value
<1>9. QED
  BY <1>1, <1>7, <1>8 DEF Tabulates

-----------------------------------------------------------------------------
\* The text that rows spell grows with them.
LEMMA TextSteps ==
  ASSUME NEW types
  PROVE  /\ TextOf(types)[<<>>] = <<>>
         /\ \A these \in Seq(Rows), row \in Rows :
              TextOf(types)[Append(these, row)]
                = IF row.type \in types THEN Append(TextOf(types)[these], row.text)
                  ELSE TextOf(types)[these]
<1> DEFINE Spells(text, row) == IF row.type \in types THEN Append(text, row.text) ELSE text
           step == [v \in Seq(LineTexts) |-> [row \in Rows |-> Spells(v, row)]]
           Runs(f) == f = [these \in Seq(Rows) |->
                             IF these = <<>> THEN <<>>
                             ELSE IF Last(these).type \in types
                             THEN Append(f[Front(these)], Last(these).text)
                             ELSE f[Front(these)]]
<1>1. <<>> \in Seq(LineTexts)
  BY EmptySeq
<1>2. step \in [Seq(LineTexts) -> [Rows -> Seq(LineTexts)]]
  <2>1. ASSUME NEW v \in Seq(LineTexts), NEW row \in Rows PROVE Spells(v, row) \in Seq(LineTexts)
    <3>1. PICK t \in LineTexts : t = row.text
      BY DEF Rows
    <3>2. Append(v, t) \in Seq(LineTexts)
      BY AppendProperties
    <3>3. QED
      BY <3>1, <3>2
  <2> HIDE DEF Spells
  <2>2. QED
    BY <2>1
<1>3. PICK f \in [Seq(Rows) -> Seq(LineTexts)] : Recurses(f, Rows, <<>>, step)
  <2> HIDE DEF step
  <2> QED BY <1>1, <1>2, Recursion
<1>4. ASSUME NEW these \in Seq(Rows)
      PROVE  f[these] = IF these = <<>> THEN <<>> ELSE Spells(f[Front(these)], Last(these))
  <2>1. ASSUME these # <<>>
        PROVE  step[f[Front(these)]][Last(these)] = Spells(f[Front(these)], Last(these))
    <3>1. Front(these) \in Seq(Rows) /\ Last(these) \in Rows
      BY <2>1, FrontAndLast
    <3>2. f[Front(these)] \in Seq(LineTexts)
      BY <3>1
    <3>3. QED
      BY <3>1, <3>2
  <2> HIDE DEF step, Spells
  <2>2. f[these] = IF these = <<>> THEN <<>> ELSE step[f[Front(these)]][Last(these)]
    BY <1>3 DEF Recurses
  <2>3. QED
    BY <2>1, <2>2
<1>5. Runs(f)
  BY <1>4
<1>6. PICK g : g = (CHOOSE h : Runs(h))
  OBVIOUS
<1>7. Runs(g)
  <2> HIDE DEF Runs
  <2> QED BY <1>5, <1>6, Zenon
<1>8. TextOf(types) = g
  BY <1>6 DEF TextOf
<1>9. g[<<>>] = <<>>
  BY <1>7, EmptySeq
<1>10. ASSUME NEW t \in Seq(Rows), NEW x \in Rows
       PROVE  g[Append(t, x)] = Spells(g[t], x)
  <2>1. /\ Append(t, x) \in Seq(Rows) /\ Append(t, x) # <<>>
        /\ Front(Append(t, x)) = t /\ Last(Append(t, x)) = x
    BY AppendProperties, FrontOfAppend
  <2>2. QED
    BY <1>7, <2>1
<1>11. QED
  BY <1>8, <1>9, <1>10

-----------------------------------------------------------------------------
\* The walk has spelt what it passed, and what it kept and what the table says
\* is still to be kept are together all that can be.
DiffInv ==
  /\ previous \in Seq(LineTexts) /\ current \in Seq(LineTexts)
  /\ oldIndex \in 0..Len(previousLines) /\ newIndex \in 0..Len(currentLines)
  /\ rows \in Seq(Rows)
  /\ TextOf({"same", "removed"})[rows] = SubSeq(previousLines, 1, oldIndex)
  /\ TextOf({"same", "added"})[rows] = SubSeq(currentLines, 1, newIndex)
  /\ TextOf({"same"})[rows] \in Seq(LineTexts)
  /\ Len(TextOf({"same"})[rows]) + dp[<<oldIndex, newIndex>>] = dp[<<0, 0>>]

LEMMA ComparedTyped ==
  ASSUME NEW text \in Seq(LineTexts)
  PROVE  Compared(text) \in Seq(LineTexts)
BY MaxDiffLinesAssumption DEF Compared

LEMMA InitDiffInv == DiffInit => DiffInv
<1> SUFFICES ASSUME DiffInit PROVE DiffInv
  OBVIOUS
<1>1. Texts \subseteq Seq(LineTexts)
  <2> SUFFICES ASSUME NEW text \in Texts PROVE text \in Seq(LineTexts)
    OBVIOUS
  <2>1. PICK k \in 0..MaxLines : text \in [1..k -> LineTexts]
    BY Zenon DEF Texts, SeqOf
  <2>2. k \in Nat
    BY MaxLinesAssumption
  <2>3. QED
    BY <2>1, <2>2
<1>2. previous \in Seq(LineTexts) /\ current \in Seq(LineTexts)
  BY <1>1 DEF DiffInit
<1>3. previousLines \in Seq(LineTexts) /\ currentLines \in Seq(LineTexts)
  BY <1>2, ComparedTyped DEF previousLines, currentLines
<1>4. oldIndex \in 0..Len(previousLines) /\ newIndex \in 0..Len(currentLines)
  BY <1>3, LenProperties DEF DiffInit
<1>5. rows = <<>> /\ oldIndex = 0 /\ newIndex = 0
  BY DEF DiffInit
<1>6. SubSeq(previousLines, 1, 0) = <<>> /\ SubSeq(currentLines, 1, 0) = <<>>
  BY SubSeqEmpty
<1>7. \A types : TextOf(types)[rows] = <<>>
  BY <1>5, TextSteps
<1>8. dp[<<0, 0>>] \in Nat
  <2>1. Tabulates(dp, Len(previousLines), Len(currentLines), EqualLines(previousLines, currentLines))
    BY <1>3, TableFilled DEF dp
  <2>2. Len(previousLines) \in Nat /\ Len(currentLines) \in Nat
    BY <1>3, LenProperties
  <2>3. 0 \in 0..Len(previousLines) /\ 0 \in 0..Len(currentLines)
    BY <2>2
  <2>4. QED
    BY <2>1, <2>2, <2>3, TableTyped
<1>9. <<>> \in Seq(LineTexts) /\ <<>> \in Seq(Rows) /\ Len(<<>>) = 0
  BY EmptySeq
<1>10. /\ TextOf({"same"})[rows] \in Seq(LineTexts)
       /\ Len(TextOf({"same"})[rows]) + dp[<<oldIndex, newIndex>>] = dp[<<0, 0>>]
  <2>1. dp[<<oldIndex, newIndex>>] = dp[<<0, 0>>]
    BY <1>5
  <2>2. TextOf({"same"})[rows] \in Seq(LineTexts) /\ Len(TextOf({"same"})[rows]) = 0
    BY <1>7, <1>9, Zenon
  <2>3. QED
    BY <1>8, <2>1, <2>2
<1>11. /\ TextOf({"same", "removed"})[rows] = SubSeq(previousLines, 1, oldIndex)
       /\ TextOf({"same", "added"})[rows] = SubSeq(currentLines, 1, newIndex)
  BY <1>5, <1>6, <1>7
<1>12. QED
  BY <1>2, <1>4, <1>5, <1>9, <1>10, <1>11 DEF DiffInv

\* What stands before a place, with the line there.
LEMMA OneLineMore ==
  ASSUME NEW S, NEW s \in Seq(S), NEW n \in 0..(Len(s) - 1)
  PROVE  s[n + 1] \in S /\ Append(SubSeq(s, 1, n), s[n + 1]) = SubSeq(s, 1, n + 1)
<1>1. /\ Len(s) \in Nat /\ 1 \in 1..Len(s) /\ n + 1 \in 1..Len(s) /\ (n + 1) - 1 = n
      /\ \A k \in 1..n : k \in 1..Len(s)
  BY LenProperties
<1>2. SubSeq(s, 1, n + 1) = SubSeq(s, 1, n) \o <<s[n + 1]>>
  BY <1>1, SubSeqRecursiveSecond
<1>3. s[n + 1] \in S /\ SubSeq(s, 1, n) \in Seq(S)
  BY <1>1
<1>4. QED
  BY <1>2, <1>3, AppendIsConcat

\* A row joins the rows.
LEMMA RowJoins ==
  ASSUME DiffInv, NEW row \in Rows, rows' = Append(rows, row)
  PROVE  /\ rows' \in Seq(Rows)
         /\ \A types : TextOf(types)[rows']
                        = IF row.type \in types THEN Append(TextOf(types)[rows], row.text)
                          ELSE TextOf(types)[rows]
<1>1. rows \in Seq(Rows)
  BY DEF DiffInv
<1>2. QED
  BY <1>1, TextSteps, AppendProperties

\* What the table says where the walk is, and what it says next.
LEMMA TableHere ==
  ASSUME DiffInv
  PROVE  /\ previousLines \in Seq(LineTexts) /\ currentLines \in Seq(LineTexts)
         /\ Len(previousLines) \in Nat /\ Len(currentLines) \in Nat
         /\ \A i \in 0..Len(previousLines), j \in 0..Len(currentLines) :
              /\ dp[<<i, j>>] \in Nat
              /\ i = Len(previousLines) \/ j = Len(currentLines) => dp[<<i, j>>] = 0
              /\ i # Len(previousLines) /\ j # Len(currentLines) =>
                   IF previousLines[i + 1] = currentLines[j + 1]
                   THEN dp[<<i, j>>] = dp[<<i + 1, j + 1>>] + 1
                   ELSE dp[<<i, j>>] = IF dp[<<i + 1, j>>] > dp[<<i, j + 1>>]
                                       THEN dp[<<i + 1, j>>] ELSE dp[<<i, j + 1>>]
<1>1. previousLines \in Seq(LineTexts) /\ currentLines \in Seq(LineTexts)
  BY ComparedTyped DEF DiffInv, previousLines, currentLines
<1>2. PICK m \in Nat, n \in Nat : m = Len(previousLines) /\ n = Len(currentLines)
  <2>1. Len(previousLines) \in Nat /\ Len(currentLines) \in Nat
    BY <1>1, LenProperties
  <2>2. QED
    BY <2>1, Zenon
<1>3. PICK eq : eq = EqualLines(previousLines, currentLines)
  OBVIOUS
<1>4. PICK f : f = dp
  OBVIOUS
<1>5. Tabulates(f, m, n, eq)
  BY <1>1, <1>2, <1>3, <1>4, TableFilled DEF dp
<1>6. \A i \in 0..m, j \in 0..n : f[<<i, j>>] \in Nat
  BY <1>5, TableTyped
<1>7. ASSUME NEW i \in 0..m, NEW j \in 0..n, i # m, j # n
      PROVE  <<i + 1, j + 1>> \in eq <=> previousLines[i + 1] = currentLines[j + 1]
  <2>1. i + 1 \in 1..m /\ j + 1 \in 1..n
    BY <1>7
  <2>2. QED
    BY <1>2, <1>3, <2>1 DEF EqualLines
<1>8. \A i \in 0..m, j \in 0..n : f[<<i, j>>] = Value(f, m, n, eq, i, j)
  BY <1>5 DEF Tabulates
<1>9. ASSUME NEW i \in 0..m, NEW j \in 0..n
      PROVE  /\ i = m \/ j = n => f[<<i, j>>] = 0
             /\ i # m /\ j # n =>
                  IF previousLines[i + 1] = currentLines[j + 1]
                  THEN f[<<i, j>>] = f[<<i + 1, j + 1>>] + 1
                  ELSE f[<<i, j>>] = IF f[<<i + 1, j>>] > f[<<i, j + 1>>]
                                     THEN f[<<i + 1, j>>] ELSE f[<<i, j + 1>>]
  <2>1. f[<<i, j>>] = Value(f, m, n, eq, i, j)
    BY <1>8
  <2>2. QED
    BY <1>7, <2>1 DEF Value
<1>10. QED
  BY <1>1, <1>2, <1>4, <1>6, <1>9

\* A row for the next line of a text, or of both, as the table has it.
LEMMA StepDiffInv ==
  ASSUME DiffInv, NEW type \in {"same", "removed", "added"}, NEW text \in LineTexts,
         NEW old \in Nat, NEW new \in Nat, NEW i, NEW j,
         Push(Row(type, text, old, new), i, j),
         i \in 0..Len(previousLines), j \in 0..Len(currentLines),
         IF type = "added" THEN i = oldIndex
         ELSE i = oldIndex + 1 /\ text = previousLines[i],
         IF type = "removed" THEN j = newIndex
         ELSE j = newIndex + 1 /\ text = currentLines[j],
         IF type = "same" THEN dp[<<oldIndex, newIndex>>] = dp[<<i, j>>] + 1
         ELSE dp[<<oldIndex, newIndex>>] = dp[<<i, j>>]
  PROVE  DiffInv'
<1> DEFINE row == Row(type, text, old, new)
           Spelt(types) == TextOf(types)[rows]
<1>0. /\ previousLines \in Seq(LineTexts) /\ currentLines \in Seq(LineTexts)
      /\ Len(previousLines) \in Nat /\ Len(currentLines) \in Nat
      /\ dp[<<i, j>>] \in Nat
      /\ oldIndex \in 0..Len(previousLines) /\ newIndex \in 0..Len(currentLines)
  BY TableHere DEF DiffInv
<1>1. row \in Rows /\ row.type = type /\ row.text = text
  BY DEF Row, Rows
<1>2. /\ rows' = Append(rows, row) /\ oldIndex' = i /\ newIndex' = j
      /\ previous' = previous /\ current' = current
  BY DEF Push
<1> HIDE DEF row
<1>3. /\ rows' \in Seq(Rows)
      /\ \A types : TextOf(types)[rows'] = IF type \in types THEN Append(Spelt(types), text)
                                            ELSE Spelt(types)
  BY <1>1, <1>2, RowJoins
<1>4. previousLines' = previousLines /\ currentLines' = currentLines /\ dp' = dp
  BY <1>2 DEF previousLines, currentLines, dp
<1>5. TextOf({"same", "removed"})[rows'] = SubSeq(previousLines, 1, i)
  <2>1. Spelt({"same", "removed"}) = SubSeq(previousLines, 1, oldIndex)
    BY DEF DiffInv
  <2>2. CASE type = "added"
    BY <1>3, <2>1, <2>2
  <2>3. CASE type # "added"
    <3>1. oldIndex \in 0..(Len(previousLines) - 1) /\ text = previousLines[oldIndex + 1]
      BY <1>0, <2>3
    <3>2. Append(SubSeq(previousLines, 1, oldIndex), previousLines[oldIndex + 1])
            = SubSeq(previousLines, 1, oldIndex + 1)
      BY <1>0, <3>1, OneLineMore
    <3>3. TextOf({"same", "removed"})[rows'] = Append(Spelt({"same", "removed"}), text)
      BY <1>3, <2>3
    <3>4. QED
      BY <2>1, <2>3, <3>1, <3>2, <3>3
  <2>4. QED
    BY <2>2, <2>3
<1>6. TextOf({"same", "added"})[rows'] = SubSeq(currentLines, 1, j)
  <2>1. Spelt({"same", "added"}) = SubSeq(currentLines, 1, newIndex)
    BY DEF DiffInv
  <2>2. CASE type = "removed"
    BY <1>3, <2>1, <2>2
  <2>3. CASE type # "removed"
    <3>1. newIndex \in 0..(Len(currentLines) - 1) /\ text = currentLines[newIndex + 1]
      BY <1>0, <2>3
    <3>2. Append(SubSeq(currentLines, 1, newIndex), currentLines[newIndex + 1])
            = SubSeq(currentLines, 1, newIndex + 1)
      BY <1>0, <3>1, OneLineMore
    <3>3. TextOf({"same", "added"})[rows'] = Append(Spelt({"same", "added"}), text)
      BY <1>3, <2>3
    <3>4. QED
      BY <2>1, <2>3, <3>1, <3>2, <3>3
  <2>4. QED
    BY <2>2, <2>3
<1>7. /\ TextOf({"same"})[rows'] \in Seq(LineTexts)
      /\ Len(TextOf({"same"})[rows']) + dp[<<i, j>>] = dp[<<0, 0>>]
  <2>1. PICK s \in Seq(LineTexts) : s = Spelt({"same"})
    <3>1. Spelt({"same"}) \in Seq(LineTexts)
      BY DEF DiffInv
    <3>2. QED
      BY <3>1, Zenon
  <2>2. Len(s) + dp[<<oldIndex, newIndex>>] = dp[<<0, 0>>] /\ Len(s) \in Nat
    BY <2>1, LenProperties DEF DiffInv
  <2>3. CASE type = "same"
    <3>1. TextOf({"same"})[rows'] = Append(s, text)
      BY <1>3, <2>1, <2>3
    <3>2. Append(s, text) \in Seq(LineTexts) /\ Len(Append(s, text)) = Len(s) + 1
      BY AppendProperties
    <3>3. dp[<<oldIndex, newIndex>>] = dp[<<i, j>>] + 1
      BY <2>3
    <3>4. Len(Append(s, text)) + dp[<<i, j>>] = dp[<<0, 0>>]
      <4>1. PICK e \in Nat : e = dp[<<i, j>>]
        BY <1>0, Zenon
      <4>2. PICK k \in Nat : k = Len(s)
        BY <2>2, Zenon
      <4>3. k + (e + 1) = dp[<<0, 0>>]
        BY <2>2, <3>3, <4>1, <4>2, Zenon
      <4>4. (k + 1) + e = k + (e + 1)
        OBVIOUS
      <4>5. (k + 1) + e = dp[<<0, 0>>]
        BY <4>3, <4>4, Zenon
      <4>6. QED
        BY <3>2, <4>1, <4>2, <4>5, Zenon
    <3>5. QED
      BY <3>1, <3>2, <3>4, Zenon
  <2>4. CASE type # "same"
    <3>1. TextOf({"same"})[rows'] = s
      BY <1>3, <2>1, <2>4
    <3>2. dp[<<oldIndex, newIndex>>] = dp[<<i, j>>]
      BY <2>4
    <3>3. QED
      BY <2>2, <3>1, <3>2
  <2>5. QED
    BY <2>3, <2>4
<1>8. previous \in Seq(LineTexts) /\ current \in Seq(LineTexts)
  BY DEF DiffInv
<1>9. QED
  BY <1>2, <1>3, <1>4, <1>5, <1>6, <1>7, <1>8 DEF DiffInv

LEMMA NextDiffInv ==
  DiffInv /\ [DiffNext]_diffVars => DiffInv'
<1> SUFFICES ASSUME DiffInv, [DiffNext]_diffVars PROVE DiffInv'
  OBVIOUS
<1>0. /\ previousLines \in Seq(LineTexts) /\ currentLines \in Seq(LineTexts)
      /\ Len(previousLines) \in Nat /\ Len(currentLines) \in Nat
      /\ oldIndex \in 0..Len(previousLines) /\ newIndex \in 0..Len(currentLines)
      /\ oldIndex + 1 \in Nat /\ newIndex + 1 \in Nat /\ 0 \in Nat
  <2>1. /\ previousLines \in Seq(LineTexts) /\ currentLines \in Seq(LineTexts)
        /\ Len(previousLines) \in Nat /\ Len(currentLines) \in Nat
    BY TableHere
  <2>2. oldIndex \in 0..Len(previousLines) /\ newIndex \in 0..Len(currentLines)
    BY DEF DiffInv
  <2>3. QED
    BY <2>1, <2>2
<1>1. ASSUME MoreOld
      PROVE  /\ oldIndex + 1 \in 0..Len(previousLines) /\ oldIndex # Len(previousLines)
             /\ previousLines[oldIndex + 1] \in LineTexts
  BY <1>0, <1>1, ElementOfSeq DEF MoreOld
<1>2. ASSUME MoreNew
      PROVE  /\ newIndex + 1 \in 0..Len(currentLines) /\ newIndex # Len(currentLines)
             /\ currentLines[newIndex + 1] \in LineTexts
  BY <1>0, <1>2, ElementOfSeq DEF MoreNew
<1>3. CASE Same
  <2>1. MoreOld /\ MoreNew /\ previousLines[oldIndex + 1] = currentLines[newIndex + 1]
    BY <1>3 DEF Same
  <2>2. dp[<<oldIndex, newIndex>>] = dp[<<oldIndex + 1, newIndex + 1>>] + 1
    BY <1>0, <1>1, <1>2, <2>1, TableHere
  <2>3. Push(Row("same", previousLines[oldIndex + 1], oldIndex + 1, newIndex + 1),
             oldIndex + 1, newIndex + 1)
    BY <1>3 DEF Same
  <2>4. QED
    BY <1>0, <1>1, <1>2, <2>1, <2>2, <2>3, StepDiffInv
<1>4. CASE Removed
  <2>1. MoreOld /\ (~MoreNew \/ (Differ /\ SkipsOld))
    BY <1>4 DEF Removed
  <2>2. dp[<<oldIndex, newIndex>>] = dp[<<oldIndex + 1, newIndex>>]
    <3>1. CASE ~MoreNew
      <4>1. newIndex = Len(currentLines)
        BY <1>0, <3>1 DEF MoreNew
      <4>2. QED
        BY <1>0, <1>1, <2>1, <4>1, TableHere
    <3>2. CASE Differ /\ SkipsOld
      <4>1. MoreNew /\ previousLines[oldIndex + 1] # currentLines[newIndex + 1]
        BY <3>2 DEF Differ
      <4>2. /\ dp[<<oldIndex, newIndex>>]
                 = IF dp[<<oldIndex + 1, newIndex>>] > dp[<<oldIndex, newIndex + 1>>]
                   THEN dp[<<oldIndex + 1, newIndex>>] ELSE dp[<<oldIndex, newIndex + 1>>]
            /\ dp[<<oldIndex + 1, newIndex>>] \in Nat /\ dp[<<oldIndex, newIndex + 1>>] \in Nat
        BY <1>0, <1>1, <1>2, <2>1, <4>1, TableHere
      <4>3. QED
        BY <3>2, <4>2 DEF SkipsOld
    <3>3. QED
      BY <2>1, <3>1, <3>2
  <2>3. Push(Row("removed", previousLines[oldIndex + 1], oldIndex + 1, 0), oldIndex + 1, newIndex)
    BY <1>4 DEF Removed
  <2>4. QED
    BY <1>0, <1>1, <2>1, <2>2, <2>3, StepDiffInv
<1>5. CASE Added
  <2>1. MoreNew /\ (~MoreOld \/ (Differ /\ ~SkipsOld))
    BY <1>5 DEF Added
  <2>2. dp[<<oldIndex, newIndex>>] = dp[<<oldIndex, newIndex + 1>>]
    <3>1. CASE ~MoreOld
      <4>1. oldIndex = Len(previousLines)
        BY <1>0, <3>1 DEF MoreOld
      <4>2. QED
        BY <1>0, <1>2, <2>1, <4>1, TableHere
    <3>2. CASE Differ /\ ~SkipsOld
      <4>1. MoreOld /\ previousLines[oldIndex + 1] # currentLines[newIndex + 1]
        BY <3>2 DEF Differ
      <4>2. /\ dp[<<oldIndex, newIndex>>]
                 = IF dp[<<oldIndex + 1, newIndex>>] > dp[<<oldIndex, newIndex + 1>>]
                   THEN dp[<<oldIndex + 1, newIndex>>] ELSE dp[<<oldIndex, newIndex + 1>>]
            /\ dp[<<oldIndex + 1, newIndex>>] \in Nat /\ dp[<<oldIndex, newIndex + 1>>] \in Nat
        BY <1>0, <1>1, <1>2, <2>1, <4>1, TableHere
      <4>3. QED
        BY <3>2, <4>2 DEF SkipsOld
    <3>3. QED
      BY <2>1, <3>1, <3>2
  <2>3. Push(Row("added", currentLines[newIndex + 1], 0, newIndex + 1), oldIndex, newIndex + 1)
    BY <1>5 DEF Added
  <2>4. QED
    BY <1>0, <1>2, <2>1, <2>2, <2>3, StepDiffInv
<1>6. CASE UNCHANGED diffVars
  BY <1>6 DEF diffVars, DiffInv, previousLines, currentLines, dp
<1>7. QED
  BY <1>3, <1>4, <1>5, <1>6 DEF DiffNext

\* The rows are a diff of the two texts, and one that keeps most lines.
THEOREM DiffIsRight == DiffSpec => []DiffRebuildsBoth
<1>1. ASSUME DiffInv, Walked
      PROVE  /\ TextOf({"same", "removed"})[rows] = previousLines
             /\ TextOf({"same", "added"})[rows] = currentLines
             /\ Len(TextOf({"same"})[rows]) = dp[<<0, 0>>]
  <2>1. /\ previousLines \in Seq(LineTexts) /\ currentLines \in Seq(LineTexts)
        /\ oldIndex = Len(previousLines) /\ newIndex = Len(currentLines)
    BY <1>1, TableHere DEF Walked, MoreOld, MoreNew, DiffInv
  <2>2. /\ SubSeq(previousLines, 1, Len(previousLines)) = previousLines
        /\ SubSeq(currentLines, 1, Len(currentLines)) = currentLines
    BY <2>1, SubSeqFull
  <2>3. dp[<<oldIndex, newIndex>>] = 0
    BY <1>1, <2>1, TableHere DEF DiffInv
  <2>4. Len(TextOf({"same"})[rows]) \in Nat
    BY <1>1, LenProperties DEF DiffInv
  <2>5. /\ TextOf({"same", "removed"})[rows] = SubSeq(previousLines, 1, oldIndex)
        /\ TextOf({"same", "added"})[rows] = SubSeq(currentLines, 1, newIndex)
    BY <1>1 DEF DiffInv
  <2>6. /\ TextOf({"same", "removed"})[rows] = previousLines
        /\ TextOf({"same", "added"})[rows] = currentLines
    BY <2>1, <2>2, <2>5, Zenon
  <2>7. Len(TextOf({"same"})[rows]) = dp[<<0, 0>>]
    <3>1. Len(TextOf({"same"})[rows]) + dp[<<oldIndex, newIndex>>] = dp[<<0, 0>>]
      BY <1>1 DEF DiffInv
    <3>2. QED
      BY <2>3, <2>4, <3>1
  <2>8. QED
    BY <2>6, <2>7
<1>2. ASSUME DiffInv, NEW pairs \in SUBSET EqualLines(previousLines, currentLines), NoneCross(pairs)
      PROVE  Cardinality(pairs) <= dp[<<0, 0>>]
  <2>1. PICK m \in Nat, n \in Nat : m = Len(previousLines) /\ n = Len(currentLines)
    BY <1>2, TableHere
  <2>2. PICK eq : eq = EqualLines(previousLines, currentLines)
    OBVIOUS
  <2>3. eq \in SUBSET ((1..m) \X (1..n))
    BY <2>1, <2>2 DEF EqualLines
  <2>4. PICK f : f = dp
    OBVIOUS
  <2>5. Tabulates(f, m, n, eq)
    BY <1>2, <2>1, <2>2, <2>4, TableFilled, TableHere DEF dp
  <2>6. Cardinality(pairs) <= f[<<0, 0>>]
    BY <1>2, <2>2, <2>3, <2>5, TableBounds
  <2>7. QED
    BY <2>4, <2>6
<1>3. DiffInv => DiffRebuildsBoth
  BY <1>1, <1>2 DEF DiffRebuildsBoth
<1>4. QED
  BY <1>3, InitDiffInv, NextDiffInv, PTL DEF DiffSpec

-----------------------------------------------------------------------------
(* The whole: a step of the studio is a step of one part, and of no other *)

LEMMA OnePartMoves ==
  ASSUME [StudioNext]_studioVars
  PROVE  /\ [Next]_vars /\ [BoardNext]_boardVars /\ [ApprovalsNext]_approvalVars
         /\ [ConnectionNext]_connectionVars /\ [NavigationNext]_navigationVars
         /\ [StreamNext]_streamVars /\ [DiffNext]_diffVars
<1>1. CASE ItemsMove
  BY <1>1 DEF ItemsMove
<1>2. CASE BoardMoves
  BY <1>2 DEF BoardMoves
<1>3. CASE ApprovalsMove
  BY <1>3 DEF ApprovalsMove
<1>4. CASE ConnectionMoves
  BY <1>4 DEF ConnectionMoves
<1>5. CASE NavigationMoves
  BY <1>5 DEF NavigationMoves
<1>6. CASE StreamMoves
  BY <1>6 DEF StreamMoves
<1>7. CASE DiffMoves
  BY <1>7 DEF DiffMoves
<1>8. CASE UNCHANGED studioVars
  BY <1>8 DEF studioVars
<1>9. QED
  BY <1>1, <1>2, <1>3, <1>4, <1>5, <1>6, <1>7, <1>8 DEF StudioNext

\* The studio implements each of its parts: what is proved of a part alone
\* holds in the whole window.
THEOREM EachPartRuns ==
  StudioSpec => /\ Spec /\ BoardSpec /\ ApprovalsSpec /\ ConnectionSpec
                /\ NavigationSpec /\ StreamSpec /\ DiffSpec
<1>1. StudioInit => /\ Init /\ BoardInit /\ ApprovalsInit /\ ConnectionInit
                    /\ NavigationInit /\ StreamInit /\ DiffInit
  BY DEF StudioInit
<1>2. [StudioNext]_studioVars =>
        /\ [Next]_vars /\ [BoardNext]_boardVars /\ [ApprovalsNext]_approvalVars
        /\ [ConnectionNext]_connectionVars /\ [NavigationNext]_navigationVars
        /\ [StreamNext]_streamVars /\ [DiffNext]_diffVars
  BY OnePartMoves
<1>3. QED
  BY <1>1, <1>2, PTL
     DEF StudioSpec, Spec, BoardSpec, ApprovalsSpec, ConnectionSpec, NavigationSpec,
         StreamSpec, DiffSpec

\* The inductive invariants of the parts.
StudioInv ==
  /\ StoreTyped /\ FlagsHeld
  /\ BoardHeld /\ Following
  /\ ApprovalsInv
  /\ ConnectionTyped
  /\ NavigationInv

LEMMA StudioInductive == StudioSpec => []StudioInv
<1>1. ConnectionSpec => []ConnectionTyped
  BY InitConnectionTyped, NextConnectionTyped, PTL DEF ConnectionSpec
<1>2. NavigationSpec => []NavigationInv
  BY InitNavigation, NextNavigation, PTL DEF NavigationSpec
<1>3. QED
  BY <1>1, <1>2, EachPartRuns, ItemsInductive, BoardInductive, ApprovalsInductive, PTL
     DEF StudioInv

\* Every part keeps to its types whatever the others do.
THEOREM StudioTypeCorrect == StudioSpec => []StudioTypeOK
<1>1. StudioInv => StudioTypeOK
  <2> SUFFICES ASSUME StudioInv PROVE StudioTypeOK
    OBVIOUS
  <2>1. TypeOK
    BY DEF StudioInv, StoreTyped
  <2>2. BoardTypeOK
    <3>1. Values \subseteq CardValues
      BY DEF Values
    <3>2. storedCards \in Boards /\ activeBoard \in {NoBoard} \cup Boards
      BY DEF StudioInv, BoardHeld, BoardTyped
    <3>3. Boards \subseteq [Cards -> CardValues]
      BY <3>1 DEF Boards
    <3>4. QED
      BY <3>2, <3>3 DEF StudioInv, BoardHeld, BoardTyped, BoardTypeOK
  <2>3. ApprovalsTypeOK
    BY DEF StudioInv, ApprovalsInv, ApprovalsTyped
  <2>4. ConnectionTypeOK
    BY DEF StudioInv, ConnectionTyped, ConnectionTypeOK
  <2>5. NavigationTypeOK
    <3>1. position \in DOMAIN entries
      BY DEF StudioInv, NavigationInv, Typed
    <3>2. QED
      BY <3>1 DEF StudioInv, NavigationInv, Typed, NavigationTypeOK
  <2>6. QED
    BY <2>1, <2>2, <2>3, <2>4, <2>5 DEF StudioTypeOK
<1>2. QED
  BY <1>1, StudioInductive, PTL

\* No flag of a store, of the board or of the approvals stays up once nothing
\* is under way in its part, whatever failed, was lost or overtaken.
THEOREM NothingIsLeftBusy == StudioSpec => []NothingStaysBusy
<1>1. StudioInv => NothingStaysBusy
  <2> SUFFICES ASSUME StudioInv PROVE NothingStaysBusy
    OBVIOUS
  <2>1. ButtonsComeBack
    BY QuietHasNothing DEF StudioInv, FlagsHeld, ButtonsComeBack
  <2>2. BoardButtonsComeBack
    BY BoardRests DEF StudioInv
  <2>3. ApprovalButtonsComeBack
    BY NobodyTells DEF StudioInv, ApprovalButtonsComeBack
  <2>4. QED
    BY <2>1, <2>2, <2>3 DEF NothingStaysBusy
<1>2. QED
  BY <1>1, StudioInductive, PTL

\* Once nothing is under way the window agrees with the adapter and with
\* itself, but for what each property excuses: its lists, details, board and
\* approvals are right, a tab is shown, and it is connected or trying to be;
\* events and rows are those of the texts, read or compared.
THEOREM StudioAgrees ==
  StudioSpec => /\ []SettledListIsServers /\ []ShownIsSelected
                /\ []BoardSettles /\ []PendingIsAwaited
                /\ []KeepsTrying /\ []TabIsMounted /\ []UrlShowsTab
                /\ []ChunksDoNotMatter /\ []DiffRebuildsBoth
BY EachPartRuns, ListsAgree, DetailAgrees, BoardShowsCards, PendingAreAwaited,
   ConnectionIsRetried, WindowIsNeverBlank, PathIsThatOfTheTab, StreamReassembled,
   DiffIsRight, PTL
=============================================================================
