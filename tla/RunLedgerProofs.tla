-------------------------- MODULE RunLedgerProofs --------------------------
(***************************************************************************)
(* Safety of the run ledger for any runs, clock, limit and number of       *)
(* events.                                                                 *)
(***************************************************************************)
EXTENDS RunLedger, FiniteSetTheorems, TLAPS

\* A row that is absent holds nothing.
AbsentIsBlank == \A r \in Runs : runs[r].status = None => runs[r] = NoRow

\* The inductive invariant: a row that is absent must be blank, or a row that
\* a late event brings back would inherit an end nobody recorded.
IInv ==
  /\ TypeOK
  /\ AbsentIsBlank
  /\ EventsHaveRun
  /\ EndIsRecorded
  /\ ErrorIsRecorded

LEMMA InitIInv == Init => IInv
<1> USE DEF Init, IInv, None, Never, EndStatuses, FirstStatuses
<1>1. ASSUME Init PROVE \A r \in Runs : runs[r] = NoRow
  BY <1>1
<1>2. NoRow \in Row /\ NoRow.status = None /\ NoRow.error = None
  BY DEF NoRow, Row
<1> QED
  BY <1>1, <1>2 DEF TypeOK, AbsentIsBlank, EventsHaveRun, EndIsRecorded,
                    ErrorIsRecorded

\* create_run writes a row of the right type that keeps the end of an old one.
LEMMA CreatedRow ==
  ASSUME IInv, NEW r \in Runs, NEW status \in FirstStatuses, NEW now \in Times,
         NEW q \in Runs
  PROVE  /\ Created(r, status, now)[q] \in Row
         /\ q # r => Created(r, status, now)[q] = runs[q]
         /\ Created(r, status, now)[q].status \in EndStatuses => q # r
         /\ Created(r, status, now)[q].error = runs[q].error
         /\ Created(r, status, now)[q].status \in {None} \cup EndStatuses =>
              Created(r, status, now)[q] = runs[q]
<1> DEFINE new == [status |-> status,
                   started |-> IF runs[r].status = None THEN now
                                                        ELSE runs[r].started,
                   completed |-> runs[r].completed,
                   error |-> runs[r].error]
<1>1. runs \in [Runs -> Row]
  BY DEF IInv, TypeOK
<1>2. Created(r, status, now) = [runs EXCEPT ![r] = new]
  BY DEF Created
<1>3. /\ new \in Row
      /\ new.status = status
      /\ new.error = runs[r].error
  BY <1>1 DEF Row
<1>4. status \notin {None} \cup EndStatuses
  BY DEF FirstStatuses, EndStatuses, None
<1> HIDE DEF new
<1> QED BY <1>1, <1>2, <1>3, <1>4

\* create_run preserves the invariant, pruning included.
LEMMA CreateIInv ==
  ASSUME IInv, NEW r \in Runs, NEW status \in FirstStatuses, NEW now \in Times,
         CreateRun(r, status, now)
  PROVE  IInv'
<1> DEFINE rows == Created(r, status, now)
           kept == Kept(rows)
<1>1. /\ runs' = [q \in Runs |-> IF q \in kept THEN rows[q] ELSE NoRow]
      /\ run_events' = {e \in run_events : e.run \in kept}
  BY DEF CreateRun
<1>2. \A q \in kept : q \in Runs /\ rows[q].status # None
  BY DEF Kept, Present
<1>3. /\ NoRow \in Row /\ NoRow.status = None /\ NoRow.error = None
      /\ NoRow.status \notin EndStatuses
  BY DEF NoRow, Row, None, Never, EndStatuses
<1>4. \A q \in Runs :
        /\ rows[q] \in Row
        /\ rows[q].error = runs[q].error
        /\ rows[q].status \in {None} \cup EndStatuses => rows[q] = runs[q]
  BY CreatedRow
<1> HIDE DEF rows, kept
<1>5. TypeOK'
  BY <1>1, <1>3, <1>4 DEF IInv, TypeOK
<1>6. AbsentIsBlank'
  BY <1>1, <1>2 DEF AbsentIsBlank
<1>7. EventsHaveRun'
  BY <1>1, <1>2 DEF EventsHaveRun
<1>8. EndIsRecorded'
  <2> SUFFICES ASSUME NEW q \in Runs, runs'[q].status \in EndStatuses
               PROVE  \E e \in run_events' : /\ e.run = q
                                             /\ StatusOf(e.type) = runs'[q].status
                                             /\ e.at = runs'[q].completed
    BY DEF EndIsRecorded
  <2>1. q \in kept /\ runs'[q] = runs[q]
    BY <1>1, <1>3, <1>4
  <2>2. PICK e \in run_events : /\ e.run = q
                                /\ StatusOf(e.type) = runs[q].status
                                /\ e.at = runs[q].completed
    BY <2>1 DEF IInv, EndIsRecorded
  <2> QED BY <1>1, <2>1, <2>2
<1>9. ErrorIsRecorded'
  <2> SUFFICES ASSUME NEW q \in Runs, runs'[q].error # None
               PROVE  /\ runs'[q].status \notin {"completed", "cancelled"}
                      /\ \E e \in run_events' :
                           e.run = q /\ e.type = "run.failed"
    BY DEF ErrorIsRecorded
  <2>1. q \in kept /\ runs'[q] = rows[q] /\ runs[q].error # None
    BY <1>1, <1>3, <1>4
  <2>2. /\ runs[q].status \notin {"completed", "cancelled"}
        /\ \E e \in run_events : e.run = q /\ e.type = "run.failed"
    BY <2>1 DEF IInv, ErrorIsRecorded
  <2> QED BY <1>1, <1>4, <2>1, <2>2 DEF EndStatuses
<1> QED BY <1>5, <1>6, <1>7, <1>8, <1>9 DEF IInv

\* What append_event makes of a row: an end comes from a terminal event or was
\* there before, and so does an error.
LEMMA AppendedRow ==
  ASSUME IInv, NEW r \in Runs, NEW type \in Types, NEW at \in Times,
         NEW new, new = Updated(Ensured(r, type, at), type, at)
  PROVE  /\ new \in Row
         /\ new.status # None
         /\ type \in Terminal => /\ new.status = StatusOf(type)
                                 /\ new.completed = at
                                 /\ new.error = ErrorOf(type)
         /\ type \notin Terminal => /\ new.status \in EndStatuses => new = runs[r]
                                    /\ new.error # None => runs[r].error # None
<1> DEFINE row == Ensured(r, type, at)
<1>1. runs[r] \in Row
  BY DEF IInv, TypeOK
<1>2. StatusOf(type) \in {"completed", "failed", "cancelled", "running"}
      /\ (type \notin Terminal => StatusOf(type) = "running")
  BY DEF StatusOf, Terminal
<1>3. /\ row \in Row
      /\ row.status # None
      /\ type \notin Terminal => /\ row.status \in EndStatuses => row = runs[r]
                                 /\ row.error # None => runs[r].error # None
  <2>1. CASE runs[r].status # None
    BY <1>1, <2>1 DEF Ensured
  <2>2. CASE runs[r].status = None
    <3> DEFINE end == IF type \in Terminal THEN at ELSE Never
    <3>1. row = [status |-> StatusOf(type), started |-> at,
                 completed |-> end, error |-> ErrorOf(type)]
      BY <2>2 DEF Ensured
    <3>2. /\ ErrorOf(type) \in {None, "message"}
          /\ type \notin Terminal => ErrorOf(type) = None
          /\ end \in Times \cup {Never}
      BY DEF Terminal, ErrorOf
    <3> HIDE DEF end, row
    <3> QED
      BY <1>2, <3>1, <3>2 DEF Row, EndStatuses, FirstStatuses, None
  <2> QED BY <2>1, <2>2
<1>4. new = Updated(row, type, at)
  OBVIOUS
<1> HIDE DEF row
<1>5. CASE type \in Terminal
  <2>1. new = [status |-> StatusOf(type), started |-> row.started,
               completed |-> at, error |-> ErrorOf(type)]
    BY <1>4, <1>5 DEF Updated, Terminal
  <2>2. ErrorOf(type) \in {None, "message"}
    BY DEF ErrorOf
  <2>3. StatusOf(type) \in {"completed", "failed", "cancelled"}
    BY <1>5 DEF StatusOf, Terminal
  <2> QED BY <1>3, <1>5, <2>1, <2>2, <2>3 DEF Row, EndStatuses, None
<1>6. CASE type \notin Terminal
  <2>1. new \in {row, [row EXCEPT !.status = "running"]}
    BY <1>4, <1>6 DEF Updated
  <2>2. CASE new = row
    BY <1>3, <1>6, <2>2
  <2>3. CASE new = [row EXCEPT !.status = "running"]
    <3>1. new = [status |-> "running", started |-> row.started,
                 completed |-> row.completed, error |-> row.error]
      BY <1>3, <2>3 DEF Row
    <3>2. new \in Row /\ new.status = "running" /\ new.error = row.error
      BY <1>3, <3>1 DEF Row, FirstStatuses
    <3> QED BY <1>3, <1>6, <3>2 DEF EndStatuses, None
  <2> QED BY <2>1, <2>2, <2>3
<1> QED BY <1>5, <1>6

\* append_event preserves the invariant.
LEMMA AppendIInv ==
  ASSUME IInv, NEW r \in Runs, NEW type \in Types, NEW at \in Times,
         AppendEvent(r, type, at)
  PROVE  IInv'
<1> DEFINE new == Updated(Ensured(r, type, at), type, at)
           event == [run |-> r, type |-> type, at |-> at]
<1>1. /\ runs' = [runs EXCEPT ![r] = new]
      /\ run_events' = run_events \cup {event}
  BY DEF AppendEvent
<1>2. /\ new \in Row
      /\ new.status # None
      /\ type \in Terminal => /\ new.status = StatusOf(type)
                              /\ new.completed = at
                              /\ new.error = ErrorOf(type)
      /\ type \notin Terminal => /\ new.status \in EndStatuses => new = runs[r]
                                 /\ new.error # None => runs[r].error # None
  BY AppendedRow
<1>3. event \in Event /\ event.run = r /\ event.type = type /\ event.at = at
  BY DEF Event
<1>4. runs \in [Runs -> Row] /\ run_events \subseteq Event
  BY DEF IInv, TypeOK
<1>5. \A q \in Runs : runs'[q] = IF q = r THEN new ELSE runs[q]
  BY <1>1, <1>4
<1> HIDE DEF new, event
<1>6. TypeOK'
  BY <1>1, <1>2, <1>3, <1>4 DEF TypeOK
<1>7. AbsentIsBlank'
  BY <1>2, <1>5 DEF IInv, AbsentIsBlank
<1>8. EventsHaveRun'
  BY <1>1, <1>2, <1>3, <1>4, <1>5 DEF IInv, EventsHaveRun, Event
<1>9. EndIsRecorded'
  <2> SUFFICES ASSUME NEW q \in Runs, runs'[q].status \in EndStatuses
               PROVE  \E e \in run_events' : /\ e.run = q
                                             /\ StatusOf(e.type) = runs'[q].status
                                             /\ e.at = runs'[q].completed
    BY DEF EndIsRecorded
  <2>1. CASE q = r /\ type \in Terminal
    BY <2>1, <1>1, <1>2, <1>3, <1>5
  <2>2. CASE ~(q = r /\ type \in Terminal)
    <3>1. runs'[q] = runs[q]
      BY <2>2, <1>2, <1>5
    <3>2. PICK e \in run_events : /\ e.run = q
                                  /\ StatusOf(e.type) = runs[q].status
                                  /\ e.at = runs[q].completed
      BY <3>1 DEF IInv, EndIsRecorded
    <3> QED BY <1>1, <3>1, <3>2
  <2> QED BY <2>1, <2>2
<1>10. ErrorIsRecorded'
  <2> SUFFICES ASSUME NEW q \in Runs, runs'[q].error # None
               PROVE  /\ runs'[q].status \notin {"completed", "cancelled"}
                      /\ \E e \in run_events' :
                           e.run = q /\ e.type = "run.failed"
    BY DEF ErrorIsRecorded
  <2>1. CASE q = r /\ type \in Terminal
    <3>1. type = "run.failed" /\ runs'[q].status = "failed"
      BY <2>1, <1>2, <1>5 DEF StatusOf, ErrorOf
    <3> QED BY <2>1, <3>1, <1>1, <1>3
  <2>2. CASE ~(q = r /\ type \in Terminal)
    <3>1. /\ runs[q].error # None
          /\ runs'[q].status \in EndStatuses => runs'[q] = runs[q]
      BY <2>2, <1>2, <1>5
    <3>2. /\ runs[q].status \notin {"completed", "cancelled"}
          /\ \E e \in run_events : e.run = q /\ e.type = "run.failed"
      BY <3>1 DEF IInv, ErrorIsRecorded
    <3> QED BY <1>1, <3>1, <3>2 DEF EndStatuses
  <2> QED BY <2>1, <2>2
<1> QED BY <1>6, <1>7, <1>8, <1>9, <1>10 DEF IInv

LEMMA NextIInv == IInv /\ [Next]_vars => IInv'
<1> SUFFICES ASSUME IInv, [Next]_vars PROVE IInv'
  OBVIOUS
<1>1. CASE Next
  <2>1. CASE UNCHANGED vars
    BY <2>1 DEF vars, IInv, TypeOK, AbsentIsBlank, EventsHaveRun,
                EndIsRecorded, ErrorIsRecorded
  <2> QED BY <1>1, <2>1, CreateIInv, AppendIInv DEF Next, CreateRunRefused
<1>2. CASE UNCHANGED vars
  BY <1>2 DEF vars, IInv, TypeOK, AbsentIsBlank, EventsHaveRun,
              EndIsRecorded, ErrorIsRecorded
<1> QED BY <1>1, <1>2

\* The inductive invariant holds in every state.
THEOREM Inductive == Spec => []IInv
BY InitIInv, NextIInv, PTL DEF Spec

\* Both tables keep their types.
THEOREM TypeCorrect == Spec => []TypeOK
BY Inductive, PTL DEF IInv

\* No event outlives its run, whatever is pruned and recreated.
THEOREM EventsCorrect == Spec => []EventsHaveRun
BY Inductive, PTL DEF IInv

\* A run shown as ended was ended by an event on record, at the shown time.
THEOREM EndCorrect == Spec => []EndIsRecorded
BY Inductive, PTL DEF IInv

\* An error is shown only with a failure on record and without a better end.
THEOREM ErrorCorrect == Spec => []ErrorIsRecorded
BY Inductive, PTL DEF IInv

\* Output, warnings and interruptions after the end of a run leave its row.
THEOREM LateEventsCorrect == Spec => LateEventsDoNotReopen
<1>1. ASSUME IInv, [Next]_vars, NEW e \in run_events' \ run_events,
             e.type \notin Terminal \cup {"run.started"},
             NEW q \in Runs, runs[q].status \in EndStatuses
      PROVE  runs'[q] = runs[q]
  <2>1. PICK r \in Runs, at \in Times, type \in Types : AppendEvent(r, type, at)
    BY <1>1 DEF Next, vars, CreateRun, CreateRunRefused
  <2>2. type = e.type
    BY <1>1, <2>1 DEF AppendEvent
  <2>3. Updated(runs[q], type, at) = runs[q]
    BY <1>1, <2>2 DEF Updated, EndStatuses
  <2>4. Ensured(q, type, at) = runs[q]
    BY <1>1 DEF Ensured, EndStatuses, None
  <2>5. runs' = [runs EXCEPT ![r] = Updated(Ensured(r, type, at), type, at)]
    BY <2>1 DEF AppendEvent
  <2>6. runs \in [Runs -> Row]
    BY <1>1 DEF IInv, TypeOK
  <2> QED BY <2>3, <2>4, <2>5, <2>6
<1>2. IInv /\ [Next]_vars =>
        [\A e \in run_events' \ run_events :
           e.type \notin Terminal \cup {"run.started"} =>
             \A r \in Runs :
               runs[r].status \in EndStatuses => runs'[r] = runs[r]]_vars
  BY <1>1
<1> QED BY <1>2, Inductive, PTL DEF Spec, LateEventsDoNotReopen

-----------------------------------------------------------------------------
(* What pruning keeps *)

\* L is a strict total order on P.
TotalOn(L, P) ==
  /\ \A a \in P : <<a, a>> \notin L
  /\ \A a, b, c \in P : <<a, b>> \in L /\ <<b, c>> \in L => <<a, c>> \in L
  /\ \A a, b \in P : a = b \/ <<a, b>> \in L \/ <<b, a>> \in L

\* The elements of P before a.
Below(L, P, a) == {x \in P : <<x, a>> \in L}

\* A finite set has a first element.
LEMMA HasFirst ==
  ASSUME NEW P, IsFiniteSet(P), NEW L, TotalOn(L, P),
         NEW D \in SUBSET P, D # {}
  PROVE  \E m \in D : \A x \in D : <<x, m>> \notin L
<1> DEFINE below(a) == {x \in P : <<x, a>> \in L}
           T == {below(a) : a \in D}
<1>1. T \subseteq FiniteSubsetsOf(P)
  <2> SUFFICES ASSUME NEW a \in D PROVE below(a) \in FiniteSubsetsOf(P)
    OBVIOUS
  <2>1. below(a) \in SUBSET P
    OBVIOUS
  <2> HIDE DEF below
  <2>2. IsFiniteSet(below(a))
    BY <2>1, FS_Subset
  <2> QED BY <2>1, <2>2 DEF FiniteSubsetsOf
<1>2. T # {}
  OBVIOUS
<1>3. PICK B \in T : \A C \in T : <<C, B>> \notin StrictSubsetOrdering(P)
  <2> HIDE DEF T
  <2> QED BY <1>1, <1>2, FS_StrictSubsetOrderingWellFounded, WFMin
<1>4. PICK m \in D : B = below(m)
  OBVIOUS
<1>5. ASSUME NEW x \in D, <<x, m>> \in L PROVE FALSE
  <2>1. below(x) \subseteq below(m) /\ x \in below(m) /\ x \notin below(x)
    BY <1>5 DEF TotalOn
  <2>2. <<below(x), below(m)>> \in (SUBSET P) \X (SUBSET P)
    OBVIOUS
  <2>3. <<below(x), below(m)>> \in StrictSubsetOrdering(P)
    <3> HIDE DEF below
    <3> QED BY <2>1, <2>2 DEF StrictSubsetOrdering
  <2>4. below(x) \in T
    OBVIOUS
  <2> QED BY <1>3, <1>4, <2>3, <2>4
<1> QED BY <1>5

\* The first N elements of a finite set: N of them, when others are left, and
\* all before those.
LEMMA FirstOnes ==
  ASSUME NEW P, IsFiniteSet(P), NEW L, TotalOn(L, P), NEW N \in Nat \ {0},
         NEW K \in SUBSET P,
         \A a \in P : a \in K <=> Cardinality(Below(L, P, a)) < N,
         NEW r \in P, r \notin K
  PROVE  /\ Cardinality(K) = N
         /\ \A a \in K : <<a, r>> \in L
<1> DEFINE below(a) == {x \in P : <<x, a>> \in L}
<1>1. \A a \in P : IsFiniteSet(below(a)) /\ Cardinality(below(a)) \in Nat
  <2> SUFFICES ASSUME NEW a \in P
               PROVE  IsFiniteSet(below(a)) /\ Cardinality(below(a)) \in Nat
    OBVIOUS
  <2>1. below(a) \in SUBSET P
    OBVIOUS
  <2> HIDE DEF below
  <2>2. IsFiniteSet(below(a))
    BY <2>1, FS_Subset
  <2> QED BY <2>2, FS_CardinalityType
<1>2. K \subseteq P /\ \A a \in P : a \in K <=> Cardinality(below(a)) < N
  BY DEF Below
<1>3. \A a, b \in P : <<a, b>> \in L => below(a) \in SUBSET below(b)
  BY DEF TotalOn
<1>4. IsFiniteSet(K) /\ Cardinality(K) \in Nat
  BY <1>2, FS_Subset, FS_CardinalityType
<1>5. \A a, b \in P : <<a, b>> \in L /\ b \in K => a \in K
  <2> SUFFICES ASSUME NEW a \in P, NEW b \in P, <<a, b>> \in L, b \in K
               PROVE  a \in K
    OBVIOUS
  <2>1. below(a) \in SUBSET below(b)
    BY <1>3
  <2> HIDE DEF below
  <2>2. Cardinality(below(a)) <= Cardinality(below(b))
    BY <1>1, <2>1, FS_Subset
  <2> QED BY <1>1, <1>2, <2>2
<1>6. \A a \in K : <<a, r>> \in L
  BY <1>2, <1>5 DEF TotalOn
<1>7. N <= Cardinality(K)
  <2>1. PICK m \in P \ K : \A x \in P \ K : <<x, m>> \notin L
    <3>1. P \ K \in SUBSET P /\ P \ K # {}
      OBVIOUS
    <3> QED BY <3>1, HasFirst
  <2>2. below(m) \in SUBSET K
    BY <2>1
  <2>3. N <= Cardinality(below(m))
    <3> HIDE DEF below
    <3> QED BY <1>1, <1>2
  <2> HIDE DEF below
  <2>4. Cardinality(below(m)) <= Cardinality(K)
    BY <1>4, <2>2, FS_Subset
  <2> QED BY <1>1, <1>4, <2>3, <2>4
<1>8. Cardinality(K) <= N
  <2>1. CASE K = {}
    <3>1. Cardinality(K) = 0
      BY <2>1, FS_EmptySet, Zenon
    <3> QED BY <3>1
  <2>2. CASE K # {}
    <3> DEFINE back == {e \in P \X P : <<e[2], e[1]>> \in L}
    <3>1. TotalOn(back, P)
      <4>1. \A a, b \in P : <<a, b>> \in back <=> <<b, a>> \in L
        OBVIOUS
      <4> HIDE DEF back
      <4> QED BY <4>1 DEF TotalOn
    <3>2. PICK k \in K : \A x \in K : <<x, k>> \notin back
      <4> HIDE DEF back
      <4> QED BY <1>2, <2>2, <3>1, HasFirst
    <3>3. K \in SUBSET (below(k) \cup {k})
      BY <1>2, <3>2 DEF TotalOn
    <3> HIDE DEF below, back
    <3>4. /\ IsFiniteSet(below(k) \cup {k})
          /\ Cardinality(below(k) \cup {k}) <= Cardinality(below(k)) + 1
          /\ Cardinality(below(k)) < N /\ Cardinality(below(k)) \in Nat
      <4>1. IsFiniteSet(below(k)) /\ Cardinality(below(k)) \in Nat
        BY <1>1, <1>2
      <4>2. /\ IsFiniteSet(below(k) \cup {k})
            /\ Cardinality(below(k) \cup {k}) =
                 IF k \in below(k) THEN Cardinality(below(k))
                                  ELSE Cardinality(below(k)) + 1
        BY <4>1, FS_AddElement
      <4> QED BY <1>2, <4>1, <4>2
    <3>5. Cardinality(K) <= Cardinality(below(k) \cup {k})
      BY <3>3, <3>4, FS_Subset
    <3>6. Cardinality(below(k) \cup {k}) \in Nat
      BY <3>4, FS_CardinalityType
    <3> QED BY <1>4, <3>4, <3>5, <3>6
  <2> QED BY <2>1, <2>2
<1> QED BY <1>4, <1>6, <1>7, <1>8

\* The ledger holds finitely many rows.
FewRows == IsFiniteSet(Present(runs))

LEMMA NextFewRows == IInv /\ FewRows /\ [Next]_vars => FewRows'
<1> SUFFICES ASSUME IInv, FewRows, [Next]_vars PROVE FewRows'
  OBVIOUS
<1>1. ASSUME NEW r \in Runs, Present(runs)' \subseteq Present(runs) \cup {r}
      PROVE  FewRows'
  BY <1>1, FS_AddElement, FS_Subset DEF FewRows
<1>2. ASSUME NEW r \in Runs, NEW at \in Times, NEW status \in FirstStatuses,
             CreateRun(r, status, at)
      PROVE  FewRows'
  <2> DEFINE rows == Created(r, status, at)
  <2>1. \A q \in Runs \ {r} : rows[q] = runs[q]
    BY CreatedRow
  <2>2. /\ Kept(rows) \subseteq Present(rows)
        /\ runs' = [q \in Runs |-> IF q \in Kept(rows) THEN rows[q] ELSE NoRow]
    BY <1>2 DEF Kept, CreateRun
  <2> HIDE DEF rows
  <2>3. Present(runs)' \subseteq Present(runs) \cup {r}
    BY <2>1, <2>2 DEF Present, NoRow, None
  <2> QED BY <1>1, <2>3
<1>3. ASSUME NEW r \in Runs, NEW at \in Times, NEW type \in Types,
             AppendEvent(r, type, at)
      PROVE  FewRows'
  <2>1. \A q \in Runs \ {r} : runs'[q] = runs[q]
    BY <1>3 DEF AppendEvent, IInv, TypeOK
  <2> QED BY <1>1, <2>1 DEF Present
<1>4. CASE UNCHANGED vars
  BY <1>4 DEF vars, FewRows, Present
<1> QED BY <1>2, <1>3, <1>4 DEF Next, CreateRunRefused

\* The order of pruning is total on the rows.
LEMMA BeforeTotal ==
  ASSUME NEW rows, \A q \in Runs : rows[q] \in Row
  PROVE  TotalOn({e \in Runs \X Runs : Before(rows, e[1], e[2])}, Present(rows))
<1> DEFINE L == {e \in Runs \X Runs : Before(rows, e[1], e[2])}
<1>1. \A a, b \in Runs : <<a, b>> \in L <=> Before(rows, a, b)
  OBVIOUS
<1>2. \A a \in Runs : a \in Nat /\ rows[a].started \in Nat
  <2>1. Times \cup {Never} \subseteq Nat
    BY TimesAssumption DEF Never
  <2>2. \A row \in Row : row.started \in Times \cup {Never}
    BY DEF Row
  <2> HIDE DEF L
  <2> QED BY <2>1, <2>2, RunsAssumption
<1>3. Present(rows) \subseteq Runs
  BY DEF Present
<1> HIDE DEF L
<1>4. TotalOn(L, Runs)
  BY <1>1, <1>2 DEF TotalOn, Before
<1>5. TotalOn(L, Present(rows))
  BY <1>3, <1>4 DEF TotalOn
<1> QED BY <1>5 DEF L

\* A run leaves the ledger only when the limit is reached, and every run that
\* remains is newer.
THEOREM PruneCorrect == Spec => PruneDropsOldest
<1>1. ASSUME IInv, FewRows, [Next]_vars, NEW r \in Present(runs) \ Present(runs')
      PROVE  /\ Cardinality(Present(runs')) = Retained
             /\ \A q \in Present(runs') :
                  \/ runs'[q].started > runs[r].started
                  \/ runs'[q].started = runs[r].started /\ q > r
  <2>1. PICK n \in Runs, at \in Times, status \in FirstStatuses :
          CreateRun(n, status, at)
    <3>1. ASSUME NEW n \in Runs, NEW at \in Times, NEW type \in Types,
                 AppendEvent(n, type, at)
          PROVE  FALSE
      <4>1. Updated(Ensured(n, type, at), type, at).status # None
        BY <1>1, <3>1, AppendedRow
      <4> HIDE DEF Updated, Ensured
      <4> QED BY <1>1, <3>1, <4>1 DEF AppendEvent, Present, IInv, TypeOK
    <3> QED BY <1>1, <3>1 DEF Next, CreateRunRefused, vars, Present
  <2> DEFINE rows == Created(n, status, at)
             P == Present(rows)
             L == {e \in Runs \X Runs : Before(rows, e[1], e[2])}
             K == Kept(rows)
  <2>2. runs' = [q \in Runs |-> IF q \in K THEN rows[q] ELSE NoRow]
    BY <2>1 DEF CreateRun
  <2>3. \A q \in Runs : rows[q] \in Row
    BY <1>1, CreatedRow
  <2>4. \A q \in Runs \ {n} : rows[q] = runs[q]
    BY <1>1, CreatedRow
  <2>5. runs[n].status # None =>
          rows[n].started = runs[n].started /\ rows[n].status # None
    BY <1>1 DEF Created, IInv, TypeOK, FirstStatuses, None
  <2> HIDE DEF rows
  <2>6. r \in P /\ rows[r].started = runs[r].started
    BY <2>4, <2>5 DEF Present
  <2>7. K \subseteq P /\ P \subseteq Runs /\ \A q \in P : rows[q].status # None
    BY DEF Kept, Present
  <2>8. Present(runs') = K
    BY <2>2, <2>7 DEF Present, NoRow, None
  <2>9. IsFiniteSet(P)
    <3>1. P \in SUBSET (Present(runs) \cup {n})
      BY <2>4 DEF Present
    <3> QED BY <1>1, <3>1, FS_AddElement, FS_Subset DEF FewRows
  <2>10. TotalOn(L, P)
    BY <2>3, BeforeTotal
  <2>11. \A a \in P : a \in K <=> Cardinality(Below(L, P, a)) < Retained
    <3>1. \A a \in P : Below(L, P, a) = {x \in P : Before(rows, x, a)}
      BY <2>7 DEF Below
    <3>2. K = {a \in P : Cardinality({x \in P : Before(rows, x, a)}) < Retained}
      BY DEF Kept
    <3> HIDE DEF L, P, K
    <3> QED BY <3>1, <3>2
  <2>12. r \notin K
    BY <2>8
  <2>13. /\ Cardinality(K) = Retained
         /\ \A q \in K : <<q, r>> \in L
    <3>1. r \in P /\ K \in SUBSET P /\ Retained \in Nat \ {0}
      BY <2>6, <2>7, RetainedAssumption
    <3> HIDE DEF L, P, K
    <3> QED BY <2>9, <2>10, <2>11, <2>12, <3>1, FirstOnes
  <2>14. \A q \in K : Before(rows, q, r) /\ runs'[q] = rows[q]
    BY <2>2, <2>7, <2>13
  <2> QED BY <2>6, <2>8, <2>13, <2>14 DEF Before
<1>2. Spec => [](IInv /\ FewRows)
  <2>1. Init => FewRows
    <3>1. Init => Present(runs) = {}
      BY DEF Init, Present, NoRow, None
    <3> QED BY <3>1, FS_EmptySet DEF FewRows
  <2> QED BY <2>1, InitIInv, NextIInv, NextFewRows, PTL DEF Spec
<1>3. IInv /\ FewRows /\ [Next]_vars =>
        [\A r \in Present(runs) \ Present(runs') :
           /\ Cardinality(Present(runs')) = Retained
           /\ \A q \in Present(runs') :
                \/ runs'[q].started > runs[r].started
                \/ runs'[q].started = runs[r].started /\ q > r]_vars
  BY <1>1
<1> QED BY <1>2, <1>3, PTL DEF Spec, PruneDropsOldest
=============================================================================
