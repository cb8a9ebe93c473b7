---------------------------- MODULE KanbanProofs ----------------------------
(***************************************************************************)
(* The board shows the cards of the adapter once nothing is under way, for *)
(* any number of cards and requests: what a move shows early is confirmed, *)
(* taken back or excused.                                                  *)
(***************************************************************************)
EXTENDS Kanban, SequenceFacts

-----------------------------------------------------------------------------
(* What is under way *)

\* The values a card can have, and the boards.
Values == {v \in CardValues : v.column = NoColumn => v \in {NoCard, Archived}}
Boards == [Cards -> Values]

\* What the editor does after a request: it closes last.
Plans == {rest \in Seq({"moveCard", "linkCard", "close"}) :
            \A n \in DOMAIN rest : rest[n] = "close" => n = Len(rest)}

CallKinds ==
  {call \in [does : Reads \cup Writes \cup {"createCardFromRun"},
             card : Cards \cup {"none"}, column : Columns \cup {NoColumn},
             rest : Plans, prev : {NoBoard} \cup Boards] :
     /\ call.does \notin Reads \/ call.rest # <<>> => call.card \in Cards
     /\ (call.does \notin Reads /\ call.does # "archiveCard") \/ call.rest # <<>> =>
          call.column \in Columns}

ReplyKinds == [call : CallKinds, cards : Boards]

CallsUnderWay == Range(sent) \cup {reply.call : reply \in Range(replies)}

BoardTyped ==
  /\ activeBoard \in {NoBoard} \cup Boards
  /\ storedCards \in Boards
  /\ editor \in {Closed, NewCard} \cup [card : Cards, column : Columns]
  /\ sent \in Seq(CallKinds)
  /\ replies \in Seq(ReplyKinds)
  /\ {activeBoardId, isLoading, isSaving, boardExcused} \subseteq BOOLEAN

\* A flag is up only while a request that lowers it is under way.
BoardFlagsHeld ==
  /\ isLoading => \E call \in CallsUnderWay : call.does \in Reads
  /\ isSaving => \E call \in CallsUnderWay : call.does \in Writes

-----------------------------------------------------------------------------
(* What is shown follows what is stored *)

\* How far a card has come: its column changes with a move only, and never
\* once it is archived.
Rank(value) ==
  IF value = NoCard THEN 0 ELSE IF value = Archived THEN MaxEdits + 2 ELSE value.text + 1

\* An answer after the first n tells a card.
ToldAfter(c, n) ==
  \E m \in DOMAIN replies : m > n /\ replies[m].call.card = c /\ replies[m].call.does \notin Reads

MovedAfter(c, n) ==
  \E m \in DOMAIN replies : m > n /\ replies[m].call.card = c /\ replies[m].call.does = "moveCard"

\* The board comes with one of some requests, or with an answer.
Comes(calls) ==
  \E call \in calls \cup {reply.call : reply \in Range(replies)} : call.does \in Reads

Moves(c, calls) == \E call \in calls : call.does = "moveCard" /\ call.card = c

\* No answer after the first n has an older value of a card.
Behind(value, c, n) ==
  /\ Rank(value) <= Rank(storedCards[c])
  /\ \A m \in DOMAIN replies : m > n => Rank(value) <= Rank(replies[m].cards[c])

Apart(v, w) == IsCard(v) /\ IsCard(w) /\ v.column # w.column

\* Each answer has what is stored, unless a later one tells what changed.
AnswersFollow ==
  \A n \in DOMAIN replies, c \in Cards :
    /\ Behind(replies[n].cards[c], c, n)
    /\ replies[n].cards[c] # storedCards[c] => ToldAfter(c, n)
    /\ Apart(replies[n].cards[c], storedCards[c]) => MovedAfter(c, n)

\* So has a board, with the answers and some requests under way.
Shows(board, calls) ==
  board # NoBoard =>
    \A c \in Cards :
      /\ Behind(board[c], c, 0)
      /\ board[c] # storedCards[c] => ToldAfter(c, 0) \/ Comes(calls) \/ Moves(c, calls)
      /\ Apart(board[c], storedCards[c]) => MovedAfter(c, 0) \/ Moves(c, calls)

\* What a move takes back when it fails has what is stored, or the board has
\* come further since, so that it is excused.
Restores(call, board, calls) ==
  call.prev # NoBoard =>
    /\ board # NoBoard
    /\ Rank(call.prev[call.card]) <= Rank(board[call.card])
    /\ call.prev[call.card] # storedCards[call.card] =>
         \/ ToldAfter(call.card, 0) \/ Comes(calls)
         \/ Rank(call.prev[call.card]) < Rank(board[call.card])
    /\ ~Apart(call.prev[call.card], storedCards[call.card])

MovesRestore(left, board, calls) ==
  \A call \in left : call.does = "moveCard" => Restores(call, board, calls)

Following ==
  ~boardExcused =>
    /\ ~MovesMeet /\ AnswersFollow
    /\ Shows(activeBoard, Range(sent))
    /\ MovesRestore(Range(sent), activeBoard, Range(sent))

BoardHeld == BoardTyped /\ BoardFlagsHeld

-----------------------------------------------------------------------------
\* A sequence of at most one request.
AskKinds == {<<>>} \cup {<<call>> : call \in CallKinds}

LEMMA ValuesFacts ==
  /\ NoCard \in Values /\ Archived \in Values /\ ~IsCard(NoCard) /\ ~IsCard(Archived)
  /\ \A column \in Columns, text \in 0..MaxEdits :
       /\ [column |-> column, text |-> text] \in Values
       /\ IsCard([column |-> column, text |-> text])
  /\ \A v \in Values : IsCard(v) => v.column \in Columns /\ v.text \in 0..MaxEdits
  /\ \A v \in Values : v = [column |-> v.column, text |-> v.text]
BY MaxEditsAssumption, ColumnsAssumption
   DEF Values, CardValues, NoCard, Archived, NoColumn, IsCard

LEMMA BoardInitHeld == BoardInit => BoardHeld
<1> SUFFICES ASSUME BoardInit PROVE BoardHeld
  OBVIOUS
<1>1. (CHOOSE c \in Columns : TRUE) \in Columns
  BY ColumnsAssumption
<1>2. {NoCard, [column |-> CHOOSE c \in Columns : TRUE, text |-> 0]} \subseteq Values
  BY <1>1, ValuesFacts, MaxEditsAssumption
<1>3. storedCards \in Boards
  BY <1>2 DEF BoardInit, Boards
<1>4. BoardTyped
  <2>1. activeBoard \in {NoBoard} \cup Boards
        /\ editor \in {Closed, NewCard} \cup [card : Cards, column : Columns]
    BY DEF BoardInit
  <2>2. sent \in Seq(CallKinds) /\ replies \in Seq(ReplyKinds)
    BY DEF BoardInit
  <2>3. {activeBoardId, isLoading, isSaving, boardExcused} \subseteq BOOLEAN
    BY DEF BoardInit
  <2>4. QED
    BY <1>3, <2>1, <2>2, <2>3 DEF BoardTyped
<1>5. QED
  BY <1>4 DEF BoardHeld, BoardInit, BoardFlagsHeld

\* A board with cards is not the absence of one.
LEMMA BoardsAreBoards ==
  ASSUME NEW board \in Boards, NEW c \in Cards
  PROVE  board # NoBoard
<1>1. DOMAIN board = Cards
  BY DEF Boards
<1>2. DOMAIN NoBoard = {}
  BY DEF NoBoard
<1>3. QED
  BY <1>1, <1>2

LEMMA OptimisticShows ==
  ASSUME NEW call \in CallKinds, NEW board \in {NoBoard} \cup Boards
  PROVE  /\ Optimistic(call, board) \in {NoBoard} \cup Boards
         /\ board = NoBoard => Optimistic(call, board) = NoBoard
         /\ board # NoBoard =>
              /\ Optimistic(call, board) # NoBoard
              /\ \A c \in Cards :
                   /\ Rank(Optimistic(call, board)[c]) = Rank(board[c])
                   /\ call.does # "moveCard" \/ c # call.card =>
                        Optimistic(call, board)[c] = board[c]
<1>1. CASE call.does = "moveCard" /\ board # NoBoard /\ IsCard(board[call.card])
  <2> DEFINE c == call.card
             value == [column |-> call.column, text |-> board[c].text]
             after == [board EXCEPT ![c] = value]
  <2>1. Optimistic(call, board) = after
    BY <1>1 DEF Optimistic, updateBoardCard
  <2>2. c \in Cards /\ call.column \in Columns
    BY <1>1 DEF CallKinds, Reads
  <2>3. board \in Boards /\ board[c] \in Values
    BY <1>1, <2>2 DEF Boards
  <2>4. value \in Values /\ IsCard(value) /\ IsCard(board[c]) /\ value.text = board[c].text
    BY <1>1, <2>2, <2>3, ValuesFacts
  <2>5. Rank(value) = Rank(board[c])
    <3>1. \A v \in Values : IsCard(v) => Rank(v) = v.text + 1
      BY ValuesFacts DEF Rank
    <3>2. QED
      BY <2>3, <2>4, <3>1
  <2> HIDE DEF value
  <2>6. after \in Boards /\ after[c] = value /\ \A d \in Cards : d # c => after[d] = board[d]
    BY <2>2, <2>3, <2>4 DEF Boards
  <2>7. \A d \in Cards : Rank(after[d]) = Rank(board[d])
    BY <2>5, <2>6
  <2> HIDE DEF after
  <2>8. after # NoBoard
    BY <2>2, <2>6, BoardsAreBoards
  <2>9. QED
    BY <1>1, <2>1, <2>6, <2>7, <2>8
<1>2. CASE ~(call.does = "moveCard" /\ board # NoBoard /\ IsCard(board[call.card]))
  <2>1. Optimistic(call, board) = board
    BY <1>2 DEF Optimistic
  <2>2. QED
    BY <2>1
<1>3. QED
  BY <1>1, <1>2

\* What a request sent after others leaves.
LEMMA SendTyped ==
  ASSUME NEW left \in Seq(CallKinds), NEW more \in AskKinds,
         NEW board \in {NoBoard} \cup Boards, NEW loading \in BOOLEAN, NEW saving \in BOOLEAN,
         Send(left, more, board, loading, saving)
  PROVE  /\ activeBoard' \in {NoBoard} \cup Boards
         /\ sent' \in Seq(CallKinds)
         /\ Range(sent') = Range(left) \cup Range(more)
         /\ isLoading' \in BOOLEAN /\ isSaving' \in BOOLEAN
         /\ isLoading' => loading \/ \E call \in Range(more) : call.does \in Reads
         /\ isSaving' => saving \/ \E call \in Range(more) : call.does \in Writes
<1>1. more = <<>> \/ \E call \in CallKinds : more = <<call>>
  BY DEF AskKinds
<1>2. more \in Seq(CallKinds)
  <2>1. <<>> \in Seq(CallKinds) /\ \A call \in CallKinds : <<call>> \in Seq(CallKinds)
    OBVIOUS
  <2>2. QED
    BY <1>1, <2>1
<1>3. sent' = left \o more
  BY DEF Send
<1>4. sent' \in Seq(CallKinds) /\ Range(sent') = Range(left) \cup Range(more)
  BY <1>2, <1>3, SomeJoin
<1>5. activeBoard' \in {NoBoard} \cup Boards
  <2>1. CASE more = <<>>
    BY <2>1 DEF Send
  <2>2. ASSUME NEW call \in CallKinds, more = <<call>>
        PROVE  activeBoard' \in {NoBoard} \cup Boards
    <3>1. more # <<>> /\ more[1] = call
      BY <2>2
    <3>2. activeBoard' = Optimistic(call, board)
      BY <3>1 DEF Send
    <3>3. QED
      BY <3>2, OptimisticShows
  <2>3. QED
    BY <1>1, <2>1, <2>2
<1>6. /\ isLoading' <=> (loading \/ \E n \in DOMAIN more : more[n].does \in Reads)
      /\ isSaving' <=> (saving \/ \E n \in DOMAIN more : more[n].does \in Writes)
      /\ isLoading' \in BOOLEAN /\ isSaving' \in BOOLEAN
  BY DEF Send
<1>7. \A n \in DOMAIN more : more[n] \in Range(more)
  BY DEF Range
<1>8. QED
  BY <1>4, <1>5, <1>6, <1>7

\* The next request of the editor, and the refresh of the board.
LEMMA ContinuedTyped ==
  ASSUME NEW call \in CallKinds, NEW board \in {NoBoard} \cup Boards
  PROVE  /\ Continued(call, board) \in AskKinds
         /\ \A k \in Range(Continued(call, board)) : k.does = "moveCard" => k.prev = board
<1>1. CASE call.rest \in {<<>>, <<"close">>}
  BY <1>1 DEF Continued, AskKinds, Range
<1>2. CASE call.rest \notin {<<>>, <<"close">>}
  <2>1. call.rest \in Plans /\ call.rest # <<>> /\ call.rest # <<"close">>
    BY <1>2 DEF CallKinds
  <2>2. PICK rest : rest = call.rest
    OBVIOUS
  <2>3. /\ rest \in Seq({"moveCard", "linkCard", "close"}) /\ rest # <<>> /\ rest # <<"close">>
        /\ \A n \in DOMAIN rest : rest[n] = "close" => n = Len(rest)
    BY <2>1, <2>2 DEF Plans
  <2>4. Head(rest) \in {"moveCard", "linkCard"}
    <3>1. Head(rest) = rest[1] /\ 1 \in DOMAIN rest /\ Len(rest) \in Nat
          /\ rest[1] \in {"moveCard", "linkCard", "close"}
      BY <2>3
    <3>2. ASSUME rest[1] = "close" PROVE FALSE
      <4>1. Len(rest) = 1
        BY <2>3, <3>1, <3>2
      <4>2. rest = <<"close">>
        BY <2>3, <3>2, <4>1
      <4>3. QED
        BY <2>3, <4>2
    <3>3. QED
      BY <3>1, <3>2
  <2>5. Tail(rest) \in Plans
    <3>1. Tail(rest) \in Seq({"moveCard", "linkCard", "close"}) /\ Len(Tail(rest)) = Len(rest) - 1
          /\ Len(rest) \in Nat
      BY <2>3
    <3>2. ASSUME NEW n \in DOMAIN Tail(rest), Tail(rest)[n] = "close"
          PROVE  n = Len(Tail(rest))
      <4>1. n \in 1..(Len(rest) - 1) /\ Tail(rest)[n] = rest[n + 1] /\ n + 1 \in DOMAIN rest
        BY <2>3, <3>1
      <4>2. n + 1 = Len(rest)
        BY <2>3, <3>2, <4>1
      <4>3. QED
        BY <3>1, <4>1, <4>2
    <3>3. QED
      BY <3>1, <3>2 DEF Plans
  <2>6. call.card \in Cards /\ call.column \in Columns
    BY <2>1 DEF CallKinds
  <2>7. PICK next : next = Call(Head(rest), call.card, call.column, Tail(rest),
                                IF Head(rest) = "moveCard" THEN board ELSE NoBoard)
    OBVIOUS
  <2>8. next \in CallKinds /\ (next.does = "moveCard" => next.prev = board)
    BY <2>4, <2>5, <2>6, <2>7 DEF Call, CallKinds, Writes, Reads
  <2>9. Continued(call, board) = <<next>>
    BY <1>2, <2>2, <2>7 DEF Continued
  <2>10. QED
    BY <2>8, <2>9 DEF AskKinds, Range
<1>3. QED
  BY <1>1, <1>2

LEMMA RefreshTyped ==
  ASSUME NEW card \in Cards \cup {"none"}, NEW column \in Columns \cup {NoColumn},
         NEW rest \in Plans, rest # <<>> => card \in Cards /\ column \in Columns
  PROVE  /\ refreshBoard(card, column, rest) \in AskKinds
         /\ \E call \in Range(refreshBoard(card, column, rest)) : call.does \in Reads
         /\ \A call \in Range(refreshBoard(card, column, rest)) : call.does # "moveCard"
<1>1. PICK call : call = Call(IF activeBoardId THEN "loadBoard" ELSE "loadDefaultBoard",
                             card, column, rest, NoBoard)
  OBVIOUS
<1>2. call \in CallKinds /\ call.does \in Reads /\ call.does # "moveCard"
  BY <1>1 DEF Call, CallKinds, Reads
<1>3. refreshBoard(card, column, rest) = <<call>>
  BY <1>1 DEF refreshBoard
<1>4. QED
  BY <1>2, <1>3 DEF AskKinds, Range

-----------------------------------------------------------------------------
(* The types and the flags *)

\* All but one of the requests are still under way.
StillUnderWay(left, gone) ==
  CallsUnderWay \subseteq Range(left) \cup {r.call : r \in Range(replies')} \cup {gone}

\* What a request that is over and the one sent after it leave of the flags.
LEMMA FlagsFollow ==
  ASSUME BoardHeld, NEW left \in Seq(CallKinds), NEW more \in AskKinds,
         NEW board \in {NoBoard} \cup Boards, NEW loading \in BOOLEAN, NEW saving \in BOOLEAN,
         Send(left, more, board, loading, saving), NEW gone \in CallKinds,
         StillUnderWay(left, gone),
         loading => isLoading /\ gone.does \notin Reads,
         saving => isSaving /\ gone.does \notin Writes
  PROVE  BoardFlagsHeld'
<1>1. /\ Range(sent') = Range(left) \cup Range(more)
      /\ isLoading' => loading \/ \E call \in Range(more) : call.does \in Reads
      /\ isSaving' => saving \/ \E call \in Range(more) : call.does \in Writes
  BY SendTyped
<1>2. /\ CallsUnderWay \subseteq CallsUnderWay' \cup {gone}
      /\ Range(more) \subseteq CallsUnderWay'
  BY <1>1 DEF CallsUnderWay, StillUnderWay
<1>3. isLoading' => \E call \in CallsUnderWay' : call.does \in Reads
  BY <1>1, <1>2 DEF BoardHeld, BoardFlagsHeld
<1>4. isSaving' => \E call \in CallsUnderWay' : call.does \in Writes
  BY <1>1, <1>2 DEF BoardHeld, BoardFlagsHeld
<1>5. QED
  BY <1>3, <1>4 DEF BoardFlagsHeld

LEMMA AskHeld ==
  ASSUME BoardHeld, NEW more \in AskKinds, AskBoard(more),
         editor' \in {Closed, NewCard} \cup [card : Cards, column : Columns]
  PROVE  BoardHeld'
<1>1. /\ activeBoard \in {NoBoard} \cup Boards /\ sent \in Seq(CallKinds)
      /\ isLoading \in BOOLEAN /\ isSaving \in BOOLEAN
      /\ Send(sent, more, activeBoard, isLoading, isSaving)
      /\ UNCHANGED <<activeBoardId, replies, storedCards>>
      /\ boardExcused' \in BOOLEAN
  BY DEF AskBoard, BoardHeld, BoardTyped
<1>2. PICK left, board, loading, saving : /\ left = sent /\ board = activeBoard
                                          /\ loading = isLoading /\ saving = isSaving
  OBVIOUS
<1>3. /\ left \in Seq(CallKinds) /\ board \in {NoBoard} \cup Boards
      /\ loading \in BOOLEAN /\ saving \in BOOLEAN
      /\ Send(left, more, board, loading, saving)
  BY <1>1, <1>2
<1>4. /\ activeBoard' \in {NoBoard} \cup Boards /\ sent' \in Seq(CallKinds)
      /\ isLoading' \in BOOLEAN /\ isSaving' \in BOOLEAN
  BY <1>3, SendTyped
<1>5. BoardTyped'
  BY <1>1, <1>4 DEF BoardHeld, BoardTyped
<1>6. BoardFlagsHeld'
  <2>1. /\ Range(sent') = Range(left) \cup Range(more)
        /\ isLoading' => loading \/ \E call \in Range(more) : call.does \in Reads
        /\ isSaving' => saving \/ \E call \in Range(more) : call.does \in Writes
    BY <1>3, SendTyped
  <2>2. CallsUnderWay' = CallsUnderWay \cup Range(more)
    BY <1>1, <1>2, <2>1 DEF CallsUnderWay
  <2>3. QED
    BY <1>2, <2>1, <2>2 DEF BoardHeld, BoardFlagsHeld
<1>7. QED
  BY <1>5, <1>6 DEF BoardHeld

\* What the surface asks.
BoardAsks(more) ==
  /\ AskBoard(more)
  /\ editor' = editor
  /\ \A call \in Range(more) : call.does = "moveCard" => call.prev = activeBoard

BoardSurface ==
  \/ loadDefaultBoard \/ Refresh
  \/ \E form \in CardEditor : submitEditor(form.column, form.links)
  \/ \E c \in Cards, column \in Columns :
       \/ moveToColumn(c, column)
       \/ \E does \in {"createCard", "createCardFromRun"} : createCardFrom(c, column, does)
  \/ \E c \in Cards : archiveCard(c)

LEMMA PlansFacts ==
  /\ <<>> \in Plans /\ <<"close">> \in Plans
  /\ \A move \in {<<>>, <<"moveCard">>}, links \in {<<>>, <<"linkCard">>, <<"linkCard", "linkCard">>} :
       move \o links \o <<"close">> \in Plans
<1>1. <<>> \in Plans /\ <<"close">> \in Plans
  BY DEF Plans
<1>2. ASSUME NEW move \in {<<>>, <<"moveCard">>},
             NEW links \in {<<>>, <<"linkCard">>, <<"linkCard", "linkCard">>}
      PROVE  move \o links \o <<"close">> \in Plans
  <2> DEFINE K == {"moveCard", "linkCard", "close"}
  <2>1. /\ move \in Seq(K) /\ links \in Seq(K)
        /\ \A n \in DOMAIN move : move[n] # "close"
        /\ \A n \in DOMAIN links : links[n] # "close"
    <3>1. \A x \in K : <<x>> \in Seq(K) /\ DOMAIN <<x>> = {1} /\ <<x>>[1] = x
      OBVIOUS
    <3>2. \A x \in K : /\ <<x, x>> \in Seq(K) /\ DOMAIN <<x, x>> = {1, 2}
                       /\ <<x, x>>[1] = x /\ <<x, x>>[2] = x
      OBVIOUS
    <3>3. <<>> \in Seq(K) /\ DOMAIN <<>> = {}
      OBVIOUS
    <3>4. move \in Seq(K) /\ \A n \in DOMAIN move : move[n] # "close"
      <4>1. CASE move = <<>>
        BY <3>3, <4>1
      <4>2. CASE move = <<"moveCard">>
        BY <3>1, <4>2
      <4>3. QED
        BY <4>1, <4>2
    <3>5. links \in Seq(K) /\ \A n \in DOMAIN links : links[n] # "close"
      <4>1. CASE links = <<>>
        BY <3>3, <4>1
      <4>2. CASE links = <<"linkCard">>
        BY <3>1, <4>2
      <4>3. CASE links = <<"linkCard", "linkCard">>
        BY <3>2, <4>3
      <4>4. QED
        BY <4>1, <4>2, <4>3
    <3>6. QED
      BY <3>4, <3>5
  <2>2. PICK ml : ml = move \o links
    OBVIOUS
  <2>3. ml \in Seq(K) /\ \A n \in DOMAIN ml : ml[n] # "close"
    BY <2>1, <2>2
  <2>4. ml \o <<"close">> = Append(ml, "close")
    BY <2>3, AppendIsConcat
  <2>5. Append(ml, "close") \in Plans
    <3>1. PICK rest : rest = Append(ml, "close")
      OBVIOUS
    <3>2. rest \in Seq(K) /\ Len(rest) = Len(ml) + 1 /\ Len(ml) \in Nat
      BY <2>3, <3>1
    <3>3. ASSUME NEW n \in DOMAIN rest, rest[n] = "close"
          PROVE  n = Len(rest)
      <4>1. n \in 1..(Len(ml) + 1)
        BY <3>2
      <4>2. CASE n \in 1..Len(ml)
        BY <2>3, <3>1, <3>3, <4>2
      <4>3. CASE n \notin 1..Len(ml)
        BY <3>2, <4>1, <4>3
      <4>4. QED
        BY <4>2, <4>3
    <3>4. QED
      BY <3>1, <3>2, <3>3 DEF Plans
  <2>6. QED
    BY <2>2, <2>4, <2>5
<1>3. QED
  BY <1>1, <1>2

LEMMA SurfaceAsks ==
  ASSUME BoardTyped, BoardSurface
  PROVE  \E more \in AskKinds : BoardAsks(more)
<1>1. /\ activeBoard \in {NoBoard} \cup Boards
      /\ editor \in {Closed, NewCard} \cup [card : Cards, column : Columns]
  BY DEF BoardTyped
<1>2. ASSUME NEW call \in CallKinds, AskBoard(<<call>>), editor' = editor,
             call.does = "moveCard" => call.prev = activeBoard
      PROVE  \E more \in AskKinds : BoardAsks(more)
  <2>1. <<call>> \in AskKinds /\ Range(<<call>>) = {call}
    BY DEF AskKinds, Range
  <2>2. QED
    BY <1>2, <2>1 DEF BoardAsks
<1>3. CASE loadDefaultBoard
  <2>1. PICK call : call = Call("loadDefaultBoard", "none", NoColumn, <<>>, NoBoard)
    OBVIOUS
  <2>2. call \in CallKinds /\ call.does # "moveCard"
    BY <2>1, PlansFacts DEF Call, CallKinds, Reads
  <2>3. QED
    BY <1>2, <1>3, <2>1, <2>2 DEF loadDefaultBoard
<1>4. CASE Refresh
  <2>1. /\ refreshBoard("none", NoColumn, <<>>) \in AskKinds
        /\ \A call \in Range(refreshBoard("none", NoColumn, <<>>)) : call.does # "moveCard"
    BY RefreshTyped, PlansFacts
  <2>2. QED
    BY <1>4, <2>1 DEF Refresh, BoardAsks
<1>5. ASSUME NEW form \in CardEditor, submitEditor(form.column, form.links)
      PROVE  \E more \in AskKinds : BoardAsks(more)
  <2>1. form.column \in Columns /\ form.links \in {<<>>, <<"linkCard">>, <<"linkCard", "linkCard">>}
    BY DEF CardEditor
  <2>2. editor # Closed /\ editor' = editor
    BY <1>5 DEF submitEditor
  <2>3. CASE editor = NewCard
    <3>1. PICK c \in Cards : AskBoard(<<Call("createCard", c, form.column, <<"close">>, NoBoard)>>)
      BY <1>5, <2>3 DEF submitEditor
    <3>2. PICK call : call = Call("createCard", c, form.column, <<"close">>, NoBoard)
      OBVIOUS
    <3>3. call \in CallKinds /\ call.does # "moveCard"
      BY <2>1, <3>2, PlansFacts DEF Call, CallKinds, Reads, Writes
    <3>4. QED
      BY <1>2, <2>2, <3>1, <3>2, <3>3
  <2>4. CASE editor # NewCard
    <3>1. PICK move \in {<<>>, <<"moveCard">>} :
            move = IF form.column = editor.column THEN <<>> ELSE <<"moveCard">>
      OBVIOUS
    <3>2. PICK plan : plan = move \o form.links \o <<"close">>
      OBVIOUS
    <3>3. plan \in Plans
      BY <2>1, <3>1, <3>2, PlansFacts
    <3>4. AskBoard(<<Call("updateCard", editor.card, form.column, plan, NoBoard)>>)
      BY <1>5, <2>4, <3>1, <3>2 DEF submitEditor
    <3>5. editor.card \in Cards
      BY <1>1, <2>2, <2>4
    <3>6. PICK call : call = Call("updateCard", editor.card, form.column, plan, NoBoard)
      OBVIOUS
    <3>7. call \in CallKinds /\ call.does # "moveCard"
      BY <2>1, <3>3, <3>5, <3>6 DEF Call, CallKinds, Reads, Writes
    <3>8. QED
      BY <1>2, <2>2, <3>4, <3>6, <3>7
  <2>5. QED
    BY <2>3, <2>4
<1>6. ASSUME NEW c \in Cards, NEW column \in Columns, moveToColumn(c, column)
      PROVE  \E more \in AskKinds : BoardAsks(more)
  <2>1. PICK call : call = Call("moveCard", c, column, <<>>, activeBoard)
    OBVIOUS
  <2>2. call \in CallKinds /\ call.prev = activeBoard
    BY <1>1, <2>1, PlansFacts DEF Call, CallKinds, Reads, Writes
  <2>3. QED
    BY <1>2, <1>6, <2>1, <2>2 DEF moveToColumn
<1>7. ASSUME NEW c \in Cards, NEW column \in Columns,
             NEW does \in {"createCard", "createCardFromRun"}, createCardFrom(c, column, does)
      PROVE  \E more \in AskKinds : BoardAsks(more)
  <2>1. PICK call : call = Call(does, c, column, <<>>, NoBoard)
    OBVIOUS
  <2>2. call \in CallKinds /\ call.does # "moveCard"
    BY <2>1, PlansFacts DEF Call, CallKinds, Reads, Writes
  <2>3. QED
    BY <1>2, <1>7, <2>1, <2>2 DEF createCardFrom
<1>8. ASSUME NEW c \in Cards, archiveCard(c)
      PROVE  \E more \in AskKinds : BoardAsks(more)
  <2>1. PICK call : call = Call("archiveCard", c, NoColumn, <<>>, NoBoard)
    OBVIOUS
  <2>2. call \in CallKinds /\ call.does # "moveCard"
    BY <2>1, PlansFacts DEF Call, CallKinds, Reads, Writes
  <2>3. QED
    BY <1>2, <1>8, <2>1, <2>2 DEF archiveCard
<1>9. QED
  BY <1>3, <1>4, <1>5, <1>6, <1>7, <1>8 DEF BoardSurface

\* The editor opens and closes.
LEMMA EditorTyped ==
  ASSUME BoardTyped, SetEditor
  PROVE  editor' \in {Closed, NewCard} \cup [card : Cards, column : Columns]
<1>1. ASSUME NEW c \in OnBoard, editor' = [card |-> c, column |-> activeBoard[c].column]
      PROVE  editor' \in [card : Cards, column : Columns]
  <2>1. c \in Cards /\ activeBoard # NoBoard /\ IsCard(activeBoard[c])
    BY DEF OnBoard
  <2>2. activeBoard[c] \in Values
    BY <2>1 DEF BoardTyped, Boards
  <2>3. QED
    BY <1>1, <2>1, <2>2, ValuesFacts
<1>2. QED
  BY <1>1 DEF SetEditor

-----------------------------------------------------------------------------
(* The adapter and the answers *)

LEMMA RankFacts ==
  /\ \A v \in Values : Rank(v) \in 0..(MaxEdits + 2)
  /\ \A v \in Values : IsCard(v) => Rank(v) = v.text + 1
  /\ Rank(NoCard) = 0 /\ Rank(Archived) = MaxEdits + 2
  /\ \A v \in Values : ~IsCard(v) => v \in {NoCard, Archived}
  /\ \A v, w \in Values : Rank(v) = Rank(w) /\ ~Apart(v, w) => v = w
<1>1. \A v \in Values : IsCard(v) => Rank(v) = v.text + 1 /\ v.text \in 0..MaxEdits
  BY ValuesFacts DEF Rank
<1>2. Rank(NoCard) = 0 /\ Rank(Archived) = MaxEdits + 2
  BY DEF Rank, NoCard, Archived, NoColumn
<1>3. \A v \in Values : ~IsCard(v) => v \in {NoCard, Archived}
  BY DEF Values, IsCard
<1>4. \A v \in Values : Rank(v) \in 0..(MaxEdits + 2)
  BY <1>1, <1>2, <1>3, MaxEditsAssumption
<1>5. ASSUME NEW v \in Values, NEW w \in Values, Rank(v) = Rank(w), ~Apart(v, w)
      PROVE  v = w
  <2>1. CASE IsCard(v) /\ IsCard(w)
    <3>1. v.column = w.column
      BY <1>5, <2>1 DEF Apart
    <3>2. v.text = w.text
      BY <1>1, <1>5, <2>1
    <3>3. QED
      BY <3>1, <3>2, ValuesFacts
  <2>2. CASE IsCard(v) /\ ~IsCard(w)
    BY <1>1, <1>2, <1>3, <1>5, <2>2, MaxEditsAssumption
  <2>3. CASE ~IsCard(v) /\ IsCard(w)
    BY <1>1, <1>2, <1>3, <1>5, <2>3, MaxEditsAssumption
  <2>4. CASE ~IsCard(v) /\ ~IsCard(w)
    BY <1>2, <1>3, <1>5, <2>4, MaxEditsAssumption
  <2>5. QED
    BY <2>1, <2>2, <2>3, <2>4
<1>6. QED
  BY <1>1, <1>2, <1>3, <1>4, <1>5

\* What a request changes of the stored cards: its card only, which never goes
\* back, and whose column changes with a move only.
LEMMA StoredRises ==
  ASSUME storedCards \in Boards, NEW call \in CallKinds, CanStore(call),
         storedCards' = StoredAfter(call)
  PROVE  /\ storedCards' \in Boards
         /\ \A c \in Cards :
              /\ Rank(storedCards[c]) <= Rank(storedCards'[c])
              /\ storedCards'[c] # storedCards[c] => call.does \notin Reads /\ c = call.card
              /\ IsCard(storedCards'[c]) /\ storedCards[c] # NoCard =>
                   /\ IsCard(storedCards[c])
                   /\ \/ storedCards'[c].column = storedCards[c].column
                      \/ call.does = "moveCard" /\ c = call.card
<1> DEFINE c == call.card
           was == storedCards[c]
<1>1. CASE call.does \in Reads
  <2>1. storedCards' = storedCards
    BY <1>1 DEF StoredAfter, Reads
  <2>2. QED
    <3>1. \A d \in Cards : storedCards[d] \in Values
      BY DEF Boards
    <3>2. \A d \in Cards : IsCard(storedCards[d]) => storedCards[d] # NoCard
      BY ValuesFacts
    <3>3. \A d \in Cards : storedCards[d] # NoCard /\ IsCard(storedCards[d]) => IsCard(storedCards[d])
      OBVIOUS
    <3>4. \A d \in Cards : Rank(storedCards[d]) \in Nat
      BY <3>1, RankFacts
    <3>5. QED
      BY <2>1, <3>3, <3>4
<1>2. CASE call.does \notin Reads
  <2>1. c \in Cards /\ was \in Values /\ (call.does # "archiveCard" => call.column \in Columns)
    BY <1>2 DEF CallKinds, Boards
  <2>2. PICK value \in Values :
          /\ storedCards' = [storedCards EXCEPT ![c] = value]
          /\ Rank(was) <= Rank(value)
          /\ IsCard(value) /\ was # NoCard =>
               /\ IsCard(was)
               /\ value.column = was.column \/ call.does = "moveCard"
    <3>1. CASE call.does \in {"createCard", "createCardFromRun"}
      <4> DEFINE value == [column |-> call.column, text |-> 0]
      <4>1. storedCards' = [storedCards EXCEPT ![c] = value] /\ was = NoCard
        BY <3>1 DEF StoredAfter, CanStore, Reads
      <4>2. value \in Values
        BY <2>1, <3>1, ValuesFacts, MaxEditsAssumption
      <4>3. Rank(was) <= Rank(value)
        <5>1. Rank(value) \in 0..(MaxEdits + 2)
          BY <4>2, RankFacts
        <5> HIDE DEF value, was
        <5>2. QED
          BY <4>1, <5>1, RankFacts, MaxEditsAssumption
      <4>4. QED
        BY <4>1, <4>2, <4>3
    <3>2. CASE call.does \in {"updateCard", "linkCard"}
      <4> DEFINE value == [column |-> was.column, text |-> was.text + 1]
      <4>1. IsCard(was) /\ was.text < MaxEdits
        BY <3>2 DEF CanStore, Reads
      <4>2. was.column \in Columns /\ was.text \in 0..MaxEdits
        BY <2>1, <4>1, ValuesFacts
      <4>3. value \in Values /\ IsCard(value)
        BY <4>1, <4>2, ValuesFacts, MaxEditsAssumption
      <4>4. [was EXCEPT !.text = @ + 1] = value
        <5>1. was = [column |-> was.column, text |-> was.text]
          BY <2>1, ValuesFacts
        <5>2. QED
          BY <5>1
      <4>5. storedCards' = [storedCards EXCEPT ![c].text = @ + 1]
        BY <3>2 DEF StoredAfter
      <4>6. storedCards' = [storedCards EXCEPT ![c] = value]
        BY <4>4, <4>5
      <4>7. Rank(was) = was.text + 1 /\ Rank(value) = was.text + 2
        <5>1. value.text = was.text + 1
          OBVIOUS
        <5>2. Rank(was) = was.text + 1 /\ Rank(value) = value.text + 1
          <6> HIDE DEF value, was
          <6> QED BY <2>1, <4>1, <4>3, RankFacts
        <5>3. QED
          BY <4>2, <5>1, <5>2
      <4>8. Rank(was) <= Rank(value)
        BY <4>2, <4>7
      <4>9. value.column = was.column
        OBVIOUS
      <4>10. QED
        BY <4>1, <4>3, <4>6, <4>8, <4>9
    <3>3. CASE call.does = "moveCard"
      <4> DEFINE value == [column |-> call.column, text |-> was.text]
      <4>1. IsCard(was)
        BY <3>3 DEF CanStore, Reads
      <4>2. was.text \in 0..MaxEdits /\ call.column \in Columns
        BY <2>1, <3>3, <4>1, ValuesFacts
      <4>3. value \in Values /\ IsCard(value)
        BY <4>2, ValuesFacts
      <4>4. [was EXCEPT !.column = call.column] = value
        <5>1. was = [column |-> was.column, text |-> was.text]
          BY <2>1, ValuesFacts
        <5>2. QED
          BY <5>1
      <4>5. storedCards' = [storedCards EXCEPT ![c].column = call.column]
        BY <3>3 DEF StoredAfter
      <4>6. storedCards' = [storedCards EXCEPT ![c] = value]
        BY <4>4, <4>5
      <4>7. Rank(was) <= Rank(value)
        <5>1. value.text = was.text
          OBVIOUS
        <5>2. Rank(was) = was.text + 1 /\ Rank(value) = value.text + 1
          <6> HIDE DEF value, was
          <6> QED BY <2>1, <4>1, <4>3, RankFacts
        <5>3. QED
          BY <4>2, <5>1, <5>2
      <4>8. QED
        BY <3>3, <4>1, <4>3, <4>6, <4>7
    <3>4. CASE call.does = "archiveCard"
      <4>1. storedCards' = [storedCards EXCEPT ![c] = Archived]
        BY <3>4 DEF StoredAfter
      <4>2. Rank(was) \in 0..(MaxEdits + 2)
        BY <2>1, RankFacts
      <4>3. Rank(was) <= Rank(Archived)
        <5> HIDE DEF was
        <5> QED BY <4>2, RankFacts, MaxEditsAssumption
      <4>4. QED
        BY <4>1, <4>3, ValuesFacts
    <3>5. QED
      BY <1>2, <3>1, <3>2, <3>3, <3>4 DEF CallKinds, Writes, Reads
  <2>3. /\ storedCards' \in Boards /\ storedCards'[c] = value
        /\ \A d \in Cards : d # c => storedCards'[d] = storedCards[d]
    BY <2>1, <2>2 DEF Boards
  <2>4. \A d \in Cards : Rank(storedCards[d]) \in Nat
    BY RankFacts DEF Boards
  <2>5. QED
    BY <1>2, <2>2, <2>3, <2>4
<1>3. QED
  BY <1>1, <1>2

\* A request that is served.
LEMMA StoreHeld ==
  ASSUME BoardHeld, NEW n \in DOMAIN sent, Store(n)
  PROVE  /\ BoardHeld'
         /\ sent[n] \in CallKinds /\ Range(sent) = Range(sent') \cup {sent[n]}
<1> DEFINE k == sent[n]
<1>1. sent \in Seq(CallKinds) /\ replies \in Seq(ReplyKinds) /\ sent' = Rest(sent, n)
  BY DEF Store, RemoveAt, Rest, BoardHeld, BoardTyped
<1>2. k \in CallKinds /\ sent' \in Seq(CallKinds) /\ Range(sent) = Range(sent') \cup {k}
  BY <1>1, OneLeaves
<1>3. storedCards \in Boards /\ CanStore(k) /\ storedCards' = StoredAfter(k)
  BY DEF Store, BoardHeld, BoardTyped
<1> HIDE DEF k
<1>4. storedCards' \in Boards
  BY <1>2, <1>3, StoredRises
<1>5. PICK r : r = [call |-> k, cards |-> storedCards']
  OBVIOUS
<1>6. r \in ReplyKinds /\ r.call = k
  BY <1>2, <1>4, <1>5 DEF ReplyKinds
<1>7. replies' = Append(replies, r)
  BY <1>5 DEF Store, k
<1>8. replies' \in Seq(ReplyKinds) /\ Range(replies') = Range(replies) \cup {r}
  BY <1>1, <1>6, <1>7, OneJoins
<1>9. UNCHANGED <<activeBoard, activeBoardId, isLoading, isSaving, editor, boardExcused>>
  BY DEF Store
<1>10. BoardTyped'
  BY <1>2, <1>4, <1>8, <1>9 DEF BoardHeld, BoardTyped
<1>11. CallsUnderWay' = CallsUnderWay
  BY <1>2, <1>6, <1>8 DEF CallsUnderWay
<1>12. BoardFlagsHeld'
  BY <1>9, <1>11 DEF BoardHeld, BoardFlagsHeld
<1>13. QED
  BY <1>2, <1>10, <1>12 DEF BoardHeld, k

LEMMA SettlesTyped ==
  ASSUME NEW excused \in BOOLEAN, Settles(excused)
  PROVE  boardExcused' \in BOOLEAN
BY DEF Settles

\* A request that fails, before or after it was served.
LEMMA RefusedHeld ==
  ASSUME BoardHeld, NEW left \in Seq(CallKinds), NEW call \in CallKinds, Refused(left, call),
         replies' \in Seq(ReplyKinds), boardExcused' \in BOOLEAN,
         StillUnderWay(left, call)
  PROVE  BoardHeld'
<1> DEFINE stops == call.does \in {"createCard", "updateCard", "createCardFromRun"}
<1>1. PICK board : board = CASE call.does = "loadDefaultBoard" -> NoBoard
                             [] call.does = "moveCard" -> Rollback(call, activeBoard)
                             [] OTHER -> activeBoard
  OBVIOUS
<1>2. board \in {NoBoard} \cup Boards
  BY <1>1 DEF Rollback, BoardHeld, BoardTyped, CallKinds
<1>3. PICK more : more = IF stops THEN <<>> ELSE Continued(call, board)
  OBVIOUS
<1>4. more \in AskKinds
  BY <1>2, <1>3, ContinuedTyped DEF AskKinds
<1>5. PICK loading, saving : /\ loading = (isLoading /\ call.does \notin Reads)
                             /\ saving = (isSaving /\ call.does \notin Writes)
  OBVIOUS
<1>6. /\ loading \in BOOLEAN /\ saving \in BOOLEAN
      /\ loading => isLoading /\ call.does \notin Reads
      /\ saving => isSaving /\ call.does \notin Writes
  BY <1>5
<1>7. /\ Send(left, more, board, loading, saving)
      /\ editor' = IF Closes(call) /\ ~stops THEN Closed ELSE editor
      /\ UNCHANGED <<activeBoardId, storedCards>>
  BY <1>1, <1>3, <1>5 DEF Refused
<1>8. /\ activeBoard' \in {NoBoard} \cup Boards /\ sent' \in Seq(CallKinds)
      /\ isLoading' \in BOOLEAN /\ isSaving' \in BOOLEAN
  BY <1>2, <1>4, <1>6, <1>7, SendTyped
<1>9. BoardTyped'
  BY <1>7, <1>8 DEF BoardHeld, BoardTyped
<1>10. BoardFlagsHeld'
  BY <1>2, <1>4, <1>6, <1>7, FlagsFollow
<1>11. QED
  BY <1>9, <1>10 DEF BoardHeld

LEMMA FailHeld ==
  ASSUME BoardHeld,
         \/ \E n \in DOMAIN sent : FailCall(n)
         \/ \E n \in DOMAIN replies : LoseReply(n)
  PROVE  BoardHeld'
<1>1. ASSUME NEW n \in DOMAIN sent, FailCall(n)
      PROVE  BoardHeld'
  <2>1. PICK left, call : left = RemoveAt(sent, n) /\ call = sent[n]
    OBVIOUS
  <2>2. sent \in Seq(CallKinds) /\ replies \in Seq(ReplyKinds) /\ left = Rest(sent, n)
    BY <2>1 DEF RemoveAt, Rest, BoardHeld, BoardTyped
  <2>3. call \in CallKinds /\ left \in Seq(CallKinds) /\ Range(sent) = Range(left) \cup {call}
    BY <2>1, <2>2, OneLeaves
  <2>4. replies' = replies /\ Refused(left, call)
    BY <1>1, <2>1 DEF FailCall
  <2>5. boardExcused' \in BOOLEAN
    BY <1>1 DEF FailCall, Settles
  <2>6. StillUnderWay(left, call)
    BY <2>3, <2>4 DEF CallsUnderWay, StillUnderWay
  <2>7. QED
    BY <2>2, <2>3, <2>4, <2>5, <2>6, RefusedHeld
<1>2. ASSUME NEW n \in DOMAIN replies, LoseReply(n)
      PROVE  BoardHeld'
  <2>1. PICK left, call : left = sent /\ call = replies[n].call
    OBVIOUS
  <2>2. /\ sent \in Seq(CallKinds) /\ replies \in Seq(ReplyKinds)
        /\ replies' = Rest(replies, n)
    BY <1>2 DEF LoseReply, RemoveAt, Rest, BoardHeld, BoardTyped
  <2>3. /\ replies[n] \in ReplyKinds /\ replies' \in Seq(ReplyKinds)
        /\ Range(replies) = Range(replies') \cup {replies[n]}
    BY <2>2, OneLeaves
  <2>4. left \in Seq(CallKinds) /\ call \in CallKinds /\ Refused(left, call)
    BY <1>2, <2>1, <2>2, <2>3 DEF LoseReply, ReplyKinds
  <2>5. boardExcused' \in BOOLEAN
    BY <1>2 DEF LoseReply, Settles
  <2>6. StillUnderWay(left, call)
    BY <2>1, <2>3 DEF CallsUnderWay, StillUnderWay
  <2>7. QED
    BY <2>3, <2>4, <2>5, <2>6, RefusedHeld
<1>3. QED
  BY <1>1, <1>2

\* What an answer shows and what is asked next.
LEMMA AnsweredTyped ==
  ASSUME BoardTyped, NEW r \in ReplyKinds
  PROVE  /\ BoardAfter(r.call, r.cards) \in {NoBoard} \cup Boards
         /\ Refreshes(r.call) =>
              /\ refreshBoard(r.call.card, r.call.column, r.call.rest) \in AskKinds
              /\ \E k \in Range(refreshBoard(r.call.card, r.call.column, r.call.rest)) :
                   k.does \in Reads
              /\ \A k \in Range(refreshBoard(r.call.card, r.call.column, r.call.rest)) :
                   k.does # "moveCard"
         /\ Continued(r.call, BoardAfter(r.call, r.cards)) \in AskKinds
         /\ \A k \in Range(Continued(r.call, BoardAfter(r.call, r.cards))) :
              k.does = "moveCard" => k.prev = BoardAfter(r.call, r.cards)
<1>1. r.call \in CallKinds /\ r.cards \in Boards /\ activeBoard \in {NoBoard} \cup Boards
  BY DEF ReplyKinds, BoardTyped
<1>2. PICK board : board = BoardAfter(r.call, r.cards)
  OBVIOUS
<1>3. board \in {NoBoard} \cup Boards
  <2>1. CASE r.call.does \in Reads
    BY <1>1, <1>2, <2>1 DEF BoardAfter, Reads
  <2>2. CASE r.call.does = "createCardFromRun"
    BY <1>1, <1>2, <2>2 DEF BoardAfter, Reads
  <2>3. CASE r.call.does \in Writes
    <3>1. r.call.card \in Cards
      BY <1>1, <2>3 DEF CallKinds, Writes, Reads
    <3>2. board = updateBoardCard(activeBoard, r.call.card, r.cards[r.call.card])
      BY <1>2, <2>3 DEF BoardAfter, Writes, Reads
    <3>3. r.cards[r.call.card] \in Values
      BY <1>1, <3>1 DEF Boards
    <3>4. QED
      BY <1>1, <3>1, <3>2, <3>3 DEF updateBoardCard, Boards
  <2>4. QED
    BY <1>1, <2>1, <2>2, <2>3 DEF CallKinds
<1>4. /\ Continued(r.call, board) \in AskKinds
      /\ \A k \in Range(Continued(r.call, board)) : k.does = "moveCard" => k.prev = board
  BY <1>1, <1>3, ContinuedTyped
<1>5. ASSUME Refreshes(r.call)
      PROVE  /\ refreshBoard(r.call.card, r.call.column, r.call.rest) \in AskKinds
             /\ \E k \in Range(refreshBoard(r.call.card, r.call.column, r.call.rest)) :
                  k.does \in Reads
             /\ \A k \in Range(refreshBoard(r.call.card, r.call.column, r.call.rest)) :
                  k.does # "moveCard"
  <2>1. /\ r.call.card \in Cards \cup {"none"} /\ r.call.column \in Columns \cup {NoColumn}
        /\ r.call.rest \in Plans
        /\ r.call.rest # <<>> => r.call.card \in Cards /\ r.call.column \in Columns
    BY <1>1 DEF CallKinds
  <2>2. QED
    BY <2>1, RefreshTyped
<1>6. QED
  BY <1>2, <1>3, <1>4, <1>5

LEMMA AnsweredHeld ==
  ASSUME BoardHeld, NEW n \in DOMAIN replies, Answered(n)
  PROVE  BoardHeld'
<1>1. PICK r, left : r = replies[n] /\ left = sent
  OBVIOUS
<1>2. /\ sent \in Seq(CallKinds) /\ replies \in Seq(ReplyKinds)
      /\ replies' = Rest(replies, n)
  BY DEF Answered, RemoveAt, Rest, BoardHeld, BoardTyped
<1>3. /\ r \in ReplyKinds /\ replies' \in Seq(ReplyKinds)
      /\ Range(replies) = Range(replies') \cup {r}
  BY <1>1, <1>2, OneLeaves
<1>4. PICK call : call = r.call
  OBVIOUS
<1>5. call \in CallKinds
  BY <1>3, <1>4 DEF ReplyKinds
<1>6. PICK board : board = BoardAfter(call, r.cards)
  OBVIOUS
<1>7. PICK more : more = IF Refreshes(call) THEN refreshBoard(call.card, call.column, call.rest)
                        ELSE Continued(call, board)
  OBVIOUS
<1>8. board \in {NoBoard} \cup Boards /\ more \in AskKinds
  BY <1>3, <1>4, <1>6, <1>7, AnsweredTyped DEF BoardHeld
<1>9. PICK loading, saving : /\ loading = (isLoading /\ call.does \notin Reads)
                             /\ saving = (isSaving /\ call.does \notin Writes)
  OBVIOUS
<1>10. /\ loading \in BOOLEAN /\ saving \in BOOLEAN
       /\ loading => isLoading /\ call.does \notin Reads
       /\ saving => isSaving /\ call.does \notin Writes
  BY <1>9
<1>11. /\ Send(left, more, board, loading, saving)
       /\ activeBoardId' = (activeBoardId \/ call.does \in Reads)
       /\ editor' = IF Closes(call) /\ ~Refreshes(call) THEN Closed ELSE editor
       /\ UNCHANGED storedCards
       /\ Settles(boardExcused \/ n # 1)
  BY <1>1, <1>4, <1>6, <1>7, <1>9 DEF Answered
<1>12. left \in Seq(CallKinds)
  BY <1>1, <1>2
<1>13. /\ activeBoard' \in {NoBoard} \cup Boards /\ sent' \in Seq(CallKinds)
       /\ isLoading' \in BOOLEAN /\ isSaving' \in BOOLEAN
  BY <1>8, <1>10, <1>11, <1>12, SendTyped
<1>14. BoardTyped'
  <2>1. boardExcused' \in BOOLEAN /\ activeBoardId' \in BOOLEAN
    BY <1>11 DEF Settles
  <2>2. QED
    BY <1>3, <1>11, <1>13, <2>1 DEF BoardHeld, BoardTyped
<1>15. StillUnderWay(left, call)
  BY <1>1, <1>3, <1>4 DEF CallsUnderWay, StillUnderWay
<1>16. BoardFlagsHeld'
  BY <1>5, <1>8, <1>10, <1>11, <1>12, <1>15, FlagsFollow
<1>17. QED
  BY <1>14, <1>16 DEF BoardHeld

LEMMA BoardNextHeld == BoardHeld /\ [BoardNext]_boardVars => BoardHeld'
<1>1. ASSUME BoardHeld, BoardSurface PROVE BoardHeld'
  <2>1. PICK more \in AskKinds : BoardAsks(more)
    BY <1>1, SurfaceAsks DEF BoardHeld
  <2>2. editor' \in {Closed, NewCard} \cup [card : Cards, column : Columns]
    BY <1>1, <2>1 DEF BoardAsks, BoardHeld, BoardTyped
  <2>3. QED
    BY <1>1, <2>1, <2>2, AskHeld DEF BoardAsks
<1>2. ASSUME BoardHeld, SetEditor PROVE BoardHeld'
  <2>1. editor' \in {Closed, NewCard} \cup [card : Cards, column : Columns]
    BY <1>2, EditorTyped DEF BoardHeld
  <2>2. UNCHANGED <<activeBoard, activeBoardId, isLoading, isSaving, sent, replies,
                    storedCards, boardExcused>>
    BY <1>2 DEF SetEditor
  <2>3. QED
    BY <1>2, <2>1, <2>2 DEF BoardHeld, BoardTyped, BoardFlagsHeld, CallsUnderWay
<1>3. ASSUME BoardHeld, NEW n \in DOMAIN sent, Store(n) PROVE BoardHeld'
  BY <1>3, StoreHeld
<1>4. ASSUME BoardHeld, NEW n \in DOMAIN replies, Answered(n) PROVE BoardHeld'
  BY <1>4, AnsweredHeld
<1>5. ASSUME BoardHeld, \/ \E n \in DOMAIN sent : FailCall(n)
                        \/ \E n \in DOMAIN replies : LoseReply(n)
      PROVE  BoardHeld'
  BY <1>5, FailHeld
<1>6. ASSUME BoardHeld, UNCHANGED boardVars PROVE BoardHeld'
  BY <1>6 DEF boardVars, BoardHeld, BoardTyped, BoardFlagsHeld, CallsUnderWay
<1>7. QED
  BY <1>1, <1>2, <1>3, <1>4, <1>5, <1>6 DEF BoardNext, BoardSurface

-----------------------------------------------------------------------------
(* What is shown follows what is stored *)

\* A move under way is the only one.
LEMMA OnlyMove ==
  ASSUME BoardTyped, ~MovesMeet, NEW n \in DOMAIN sent, sent[n].does = "moveCard"
  PROVE  /\ \A call \in Range(Rest(sent, n)) : call.does # "moveCard"
         /\ \A r \in Range(replies) : r.call.does # "moveCard"
         /\ \A c \in Cards, m \in Nat : ~MovedAfter(c, m)
<1>1. sent \in Seq(CallKinds) /\ replies \in Seq(ReplyKinds)
  BY DEF BoardTyped
<1>2. \A m \in DOMAIN sent : sent[m].does = "moveCard" => m = n
  BY DEF MovesMeet
<1>3. \A m \in DOMAIN replies : replies[m].call.does # "moveCard"
  BY DEF MovesMeet
<1>4. PICK left : left = Rest(sent, n)
  OBVIOUS
<1>5. /\ left \in Seq(CallKinds) /\ Len(left) = Len(sent) - 1
      /\ \A m \in 1..(Len(sent) - 1) : left[m] = IF m < n THEN sent[m] ELSE sent[m + 1]
  BY <1>1, <1>4, OneLeaves
<1>6. ASSUME NEW call \in Range(left)
      PROVE  call.does # "moveCard"
  <2>1. PICK m \in 1..(Len(sent) - 1) : call = left[m]
    <3>1. DOMAIN left = 1..Len(left)
      BY <1>5
    <3>2. PICK p \in DOMAIN left : call = left[p]
      BY Zenon DEF Range
    <3>3. p \in 1..(Len(sent) - 1)
      BY <1>5, <3>1, <3>2, Zenon
    <3>4. QED
      BY <3>2, <3>3, Zenon
  <2>2. n \in 1..Len(sent) /\ Len(sent) \in Nat
    BY <1>1
  <2>3. PICK p \in DOMAIN sent : p # n /\ call = sent[p]
    <3>1. CASE m < n
      <4>1. m \in DOMAIN sent /\ m # n /\ call = sent[m]
        BY <1>1, <1>5, <2>1, <2>2, <3>1
      <4>2. QED
        BY <4>1
    <3>2. CASE ~(m < n)
      <4>1. m + 1 \in DOMAIN sent /\ m + 1 # n /\ call = sent[m + 1]
        BY <1>1, <1>5, <2>1, <2>2, <3>2
      <4>2. QED
        BY <4>1
    <3>3. QED
      BY <3>1, <3>2
  <2>4. QED
    BY <1>2, <2>3
<1>7. \A r \in Range(replies) : r.call.does # "moveCard"
  BY <1>3 DEF Range
<1>8. \A c \in Cards, m \in Nat : ~MovedAfter(c, m)
  BY <1>3 DEF MovedAfter
<1>9. QED
  BY <1>4, <1>6, <1>7, <1>8

\* So is one that is sent.
LEMMA NewMove ==
  ASSUME BoardTyped', ~MovesMeet', NEW left \in Seq(CallKinds), NEW k \in CallKinds,
         sent' = left \o <<k>>, k.does = "moveCard"
  PROVE  /\ \A call \in Range(left) : call.does # "moveCard"
         /\ \A c \in Cards : ~MovedAfter(c, 0)'
<1>1. \A m \in DOMAIN replies' : replies'[m].call.does # "moveCard"
  <2>1. PICK n : n = Len(left) + 1
    OBVIOUS
  <2>2. sent' = Append(left, k)
    BY AppendIsConcat
  <2>3. n \in DOMAIN sent' /\ sent'[n] = k
    BY <2>1, <2>2
  <2>4. QED
    BY <2>3 DEF MovesMeet
<1>2. ASSUME NEW m \in DOMAIN left
      PROVE  left[m].does # "moveCard"
  <2>1. PICK n : n = Len(left) + 1
    OBVIOUS
  <2>2. sent' = Append(left, k)
    BY AppendIsConcat
  <2>3. n \in DOMAIN sent' /\ sent'[n] = k /\ m \in DOMAIN sent' /\ sent'[m] = left[m] /\ m # n
    BY <2>1, <2>2
  <2>4. QED
    BY <2>3 DEF MovesMeet
<1>3. \A call \in Range(left) : call.does # "moveCard"
  BY <1>2 DEF Range
<1>4. QED
  BY <1>1, <1>3 DEF MovedAfter

\* Once nothing is under way and the board is right, it follows.
LEMMA SettledBoard ==
  ASSUME BoardTyped', sent' = <<>>, replies' = <<>>, activeBoard' = storedCards'
  PROVE  Following'
<1>1. DOMAIN sent' = {} /\ DOMAIN replies' = {} /\ Range(sent') = {}
  <2>1. DOMAIN <<>> = {}
    OBVIOUS
  <2>2. QED
    BY <2>1 DEF Range
<1>2. ~MovesMeet' /\ AnswersFollow'
  BY <1>1 DEF MovesMeet, AnswersFollow
<1>3. \A c \in Cards : storedCards'[c] \in Values
  BY DEF BoardTyped, Boards
<1>4. \A v \in Values : Rank(v) <= Rank(v)
  BY RankFacts
<1>5. Shows(activeBoard, Range(sent))'
  BY <1>1, <1>3, <1>4 DEF Shows, Behind, Apart
<1>6. MovesRestore(Range(sent), activeBoard, Range(sent))'
  BY <1>1 DEF MovesRestore
<1>7. QED
  BY <1>2, <1>5, <1>6 DEF Following

\* The next request is sent: a move shows at once, and it can be taken back.
LEMMA SendFollows ==
  ASSUME BoardTyped', NEW left \in Seq(CallKinds), NEW more \in AskKinds,
         NEW board \in {NoBoard} \cup Boards, NEW loading \in BOOLEAN, NEW saving \in BOOLEAN,
         Send(left, more, board, loading, saving),
         NEW calls \in SUBSET CallKinds,
         calls = Range(left) \cup {call \in Range(more) : call.does \in Reads},
         \A call \in Range(more) : call.does = "moveCard" => call.prev = board,
         ~MovesMeet', AnswersFollow', Shows(board, calls)',
         MovesRestore(Range(left), board, calls)'
  PROVE  Following'
<1>1. PICK all : all = Range(sent')
  OBVIOUS
<1>2. all = Range(left) \cup Range(more) /\ calls \subseteq all
  BY <1>1, SendTyped
<1>3. \A c \in Cards : (Moves(c, calls) => Moves(c, all)) /\ (Comes(calls)' => Comes(all)')
  BY <1>2 DEF Moves, Comes
<1>4. PICK shown : shown = activeBoard'
  OBVIOUS
<1>5. ASSUME Shows(shown, all)', MovesRestore(all, shown, all)'
      PROVE  Following'
  <2>1. Shows(activeBoard, Range(sent))'
    BY <1>1, <1>4, <1>5 DEF Shows
  <2>2. MovesRestore(Range(sent), activeBoard, Range(sent))'
    BY <1>1, <1>4, <1>5 DEF MovesRestore, Restores
  <2>3. QED
    BY <2>1, <2>2 DEF Following
<1>6. CASE \A call \in Range(more) : call.does # "moveCard"
  <2>1. shown = board
    <3>1. CASE more = <<>>
      BY <1>4, <3>1 DEF Send
    <3>2. ASSUME NEW k \in CallKinds, more = <<k>>
          PROVE  shown = board
      <4>1. more[1] = k /\ more # <<>> /\ k \in Range(more)
        BY <3>2 DEF Range
      <4>2. shown = Optimistic(k, board) /\ k.does # "moveCard"
        BY <1>4, <1>6, <4>1 DEF Send
      <4>3. QED
        BY <4>2 DEF Optimistic
    <3>3. QED
      BY <3>1, <3>2 DEF AskKinds
  <2>2. Shows(shown, all)'
    BY <1>3, <2>1 DEF Shows, Moves
  <2>3. MovesRestore(all, shown, all)'
    <3> SUFFICES ASSUME NEW call \in all, call.does = "moveCard"
                 PROVE  Restores(call, shown, all)'
      BY DEF MovesRestore
    <3>1. call \in Range(left)
      BY <1>2, <1>6
    <3>2. Restores(call, board, calls)'
      BY <3>1 DEF MovesRestore
    <3>3. Comes(calls)' => Comes(all)'
      BY <1>2 DEF Comes
    <3>4. QED
      BY <2>1, <3>2, <3>3 DEF Restores
  <2>4. QED
    BY <1>5, <2>2, <2>3
<1>7. CASE \E call \in Range(more) : call.does = "moveCard"
  <2>1. PICK k \in CallKinds : more = <<k>>
    BY <1>7 DEF AskKinds, Range
  <2>2. more[1] = k /\ more # <<>> /\ Range(more) = {k} /\ DOMAIN more = {1}
    BY <2>1 DEF Range
  <2>3. k.does = "moveCard" /\ k.prev = board /\ k.card \in Cards /\ k.does \notin Reads
    BY <1>7, <2>2 DEF CallKinds, Reads
  <2>4. shown = Optimistic(k, board) /\ sent' = left \o <<k>>
    BY <1>4, <2>1, <2>2 DEF Send
  <2>5. /\ \A call \in Range(left) : call.does # "moveCard"
        /\ \A c \in Cards : ~MovedAfter(c, 0)'
    BY <2>3, <2>4, NewMove
  <2>6. calls = Range(left) /\ all = Range(left) \cup {k}
    BY <1>2, <2>2, <2>3
  <2>7. /\ board = NoBoard => shown = NoBoard
        /\ board # NoBoard =>
             /\ shown # NoBoard
             /\ \A c \in Cards : /\ Rank(shown[c]) = Rank(board[c])
                                 /\ c # k.card => shown[c] = board[c]
    BY <2>4, OptimisticShows
  <2>8. Shows(shown, all)'
    <3> SUFFICES ASSUME shown # NoBoard, NEW c \in Cards
                 PROVE  /\ Behind(shown[c], c, 0)'
                        /\ shown[c] # storedCards'[c] =>
                             ToldAfter(c, 0)' \/ Comes(all)' \/ Moves(c, all)
                        /\ Apart(shown[c], storedCards'[c]) => MovedAfter(c, 0)' \/ Moves(c, all)
      BY DEF Shows, Moves
    <3>1. /\ Behind(board[c], c, 0)'
          /\ board[c] # storedCards'[c] => ToldAfter(c, 0)' \/ Comes(calls)' \/ Moves(c, calls)
          /\ Apart(board[c], storedCards'[c]) => MovedAfter(c, 0)' \/ Moves(c, calls)
      BY <2>7 DEF Shows, Moves
    <3>2. Behind(shown[c], c, 0)'
      BY <2>7, <3>1 DEF Behind
    <3>3. CASE c = k.card
      <4>1. Moves(c, all)
        BY <2>3, <2>6, <3>3 DEF Moves
      <4>2. QED
        BY <3>2, <4>1
    <3>4. CASE c # k.card
      <4>1. shown[c] = board[c]
        BY <2>7, <3>4
      <4>2. QED
        BY <1>3, <3>1, <3>2, <4>1
    <3>5. QED
      BY <3>3, <3>4
  <2>9. MovesRestore(all, shown, all)'
    <3> SUFFICES ASSUME NEW call \in all, call.does = "moveCard"
                 PROVE  Restores(call, shown, all)'
      BY DEF MovesRestore
    <3>1. call = k
      BY <2>5, <2>6
    <3> SUFFICES ASSUME board # NoBoard
                 PROVE  /\ shown # NoBoard
                        /\ Rank(board[k.card]) <= Rank(shown[k.card])
                        /\ board[k.card] # storedCards'[k.card] =>
                             ToldAfter(k.card, 0)' \/ Comes(all)'
                        /\ ~Apart(board[k.card], storedCards'[k.card])
      BY <2>3, <3>1 DEF Restores
    <3>2. /\ board[k.card] # storedCards'[k.card] =>
               ToldAfter(k.card, 0)' \/ Comes(calls)' \/ Moves(k.card, calls)
          /\ Apart(board[k.card], storedCards'[k.card]) =>
               MovedAfter(k.card, 0)' \/ Moves(k.card, calls)
      BY <2>3 DEF Shows, Moves
    <3>3. ~Moves(k.card, calls)
      BY <2>5, <2>6 DEF Moves
    <3>4. board[k.card] \in Values
      BY <2>3 DEF Boards
    <3>5. Rank(board[k.card]) <= Rank(shown[k.card])
      BY <2>3, <2>7, <3>4, RankFacts
    <3>6. QED
      BY <1>3, <2>3, <2>5, <2>7, <3>2, <3>3, <3>5
  <2>10. QED
    BY <1>5, <2>8, <2>9
<1>8. QED
  BY <1>6, <1>7

LEMMA StoreMoves ==
  ASSUME BoardTyped, ~MovesMeet, NEW n \in DOMAIN sent, Store(n)
  PROVE  ~MovesMeet'
<1>1. PICK k : k = sent[n]
  OBVIOUS
<1>2. PICK r : r = [call |-> k, cards |-> storedCards']
  OBVIOUS
<1>3. r.call = k
  BY <1>2
<1>4. /\ sent \in Seq(CallKinds) /\ replies \in Seq(ReplyKinds)
      /\ sent' = Rest(sent, n) /\ replies' = Append(replies, r)
  BY <1>1, <1>2 DEF Store, RemoveAt, Rest, BoardTyped
<1>5. PICK left : left = Rest(sent, n)
  OBVIOUS
<1>6. /\ left \in Seq(CallKinds) /\ Len(left) = Len(sent) - 1 /\ n \in 1..Len(sent) /\ Len(sent) \in Nat
      /\ \A m \in 1..(Len(sent) - 1) : left[m] = IF m < n THEN sent[m] ELSE sent[m + 1]
  BY <1>4, <1>5, OneLeaves
<1> DEFINE at(m) == IF m < n THEN m ELSE m + 1
<1>7. ASSUME NEW m \in DOMAIN left
      PROVE  at(m) \in DOMAIN sent /\ at(m) # n /\ left[m] = sent[at(m)]
  <2>1. m \in 1..(Len(sent) - 1)
    <3>1. DOMAIN left = 1..Len(left)
      BY <1>6
    <3>2. QED
      BY <1>6, <3>1, Zenon
  <2>2. CASE m < n
    BY <1>4, <1>6, <2>1, <2>2
  <2>3. CASE ~(m < n)
    BY <1>4, <1>6, <2>1, <2>3
  <2>4. QED
    BY <2>2, <2>3
<1>8. \A m, p \in DOMAIN left : m # p => at(m) # at(p)
  BY <1>6
<1> HIDE DEF at
<1>9. /\ \A m \in 1..Len(replies) : replies'[m] = replies[m]
      /\ replies'[Len(replies) + 1] = r /\ Len(replies) \in Nat
      /\ \A m \in DOMAIN replies' : m \in DOMAIN replies \/ m = Len(replies) + 1
      /\ DOMAIN replies = 1..Len(replies)
  BY <1>4
<1>10. \A m \in DOMAIN replies : replies'[m] = replies[m]
  BY <1>9
<1>11. CASE k.does = "moveCard"
  <2>1. /\ \A m \in DOMAIN sent : sent[m].does = "moveCard" => m = n
        /\ \A m \in DOMAIN replies : replies[m].call.does # "moveCard"
    BY <1>1, <1>11 DEF MovesMeet
  <2>2. \A m \in DOMAIN left : left[m].does # "moveCard"
    BY <1>7, <2>1
  <2>3. \A m \in DOMAIN replies' : replies'[m].call.does = "moveCard" => m = Len(replies) + 1
    BY <1>9, <1>10, <2>1
  <2>4. QED
    BY <1>4, <1>5, <2>2, <2>3 DEF MovesMeet
<1>12. CASE k.does # "moveCard"
  <2>1. \A m \in DOMAIN replies' :
          replies'[m].call.does = "moveCard" =>
            m \in DOMAIN replies /\ replies[m].call.does = "moveCard"
    BY <1>3, <1>9, <1>10, <1>12
  <2>2. \A m \in DOMAIN left :
          left[m].does = "moveCard" => at(m) \in DOMAIN sent /\ sent[at(m)].does = "moveCard"
    BY <1>7
  <2>3. sent' = left
    BY <1>4, <1>5
  <2>4. QED
    BY <1>8, <2>1, <2>2, <2>3 DEF MovesMeet
<1>13. QED
  BY <1>11, <1>12

\* A request is served: its answer tells what it changed.
LEMMA StoreFollows ==
  ASSUME BoardHeld, Following, NEW n \in DOMAIN sent, Store(n)
  PROVE  Following'
<1>1. CASE boardExcused
  BY <1>1 DEF Store, Following
<1>2. CASE ~boardExcused
  <2>1. PICK k : k = sent[n]
    OBVIOUS
  <2>2. PICK r : r = [call |-> k, cards |-> storedCards']
    OBVIOUS
  <2>3. PICK calls, left, board, L : /\ calls = Range(sent) /\ left = Range(sent')
                                     /\ board = activeBoard /\ L = Len(replies)
    OBVIOUS
  <2>4. /\ ~MovesMeet /\ AnswersFollow /\ Shows(board, calls)
        /\ MovesRestore(calls, board, calls)
    BY <1>2, <2>3 DEF Following
  <2>5. /\ r.call = k /\ r.cards = storedCards' /\ k \in CallKinds /\ calls = left \cup {k}
        /\ activeBoard' = board /\ replies' = Append(replies, r) /\ replies \in Seq(ReplyKinds)
        /\ L \in Nat /\ DOMAIN replies = 1..L
    BY <2>1, <2>2, <2>3, StoreHeld DEF Store, BoardHeld, BoardTyped
  <2>6. /\ DOMAIN replies' = 1..(L + 1) /\ replies'[L + 1] = r
        /\ \A m \in 1..L : replies'[m] = replies[m]
    BY <2>3, <2>5
  <2>7. /\ storedCards \in Boards /\ storedCards' \in Boards
        /\ \A c \in Cards :
              /\ Rank(storedCards[c]) <= Rank(storedCards'[c])
              /\ storedCards'[c] # storedCards[c] => k.does \notin Reads /\ c = k.card
              /\ IsCard(storedCards'[c]) /\ storedCards[c] # NoCard =>
                   /\ IsCard(storedCards[c])
                   /\ \/ storedCards'[c].column = storedCards[c].column
                      \/ k.does = "moveCard" /\ c = k.card
    <3>1. storedCards \in Boards /\ CanStore(k) /\ storedCards' = StoredAfter(k)
      BY <2>1 DEF Store, BoardHeld, BoardTyped
    <3>2. QED
      BY <2>5, <3>1, StoredRises
  <2>8. \A c \in Cards : /\ Rank(storedCards[c]) \in Nat /\ Rank(storedCards'[c]) \in Nat
                         /\ storedCards[c] \in Values /\ storedCards'[c] \in Values
    BY <2>7, RankFacts DEF Boards
  <2>9. ASSUME NEW c \in Cards, NEW p \in 0..L
        PROVE  /\ ToldAfter(c, p) => ToldAfter(c, p)'
               /\ MovedAfter(c, p) => MovedAfter(c, p)'
               /\ c = k.card /\ k.does \notin Reads => ToldAfter(c, p)'
               /\ c = k.card /\ k.does = "moveCard" => MovedAfter(c, p)'
    <3>1. \A m \in DOMAIN replies : m \in DOMAIN replies' /\ replies'[m] = replies[m]
      BY <2>5, <2>6
    <3>2. L + 1 \in DOMAIN replies' /\ L + 1 > p
      BY <2>5, <2>6
    <3>3. QED
      BY <2>5, <2>6, <3>1, <3>2 DEF ToldAfter, MovedAfter
  <2>10. ASSUME NEW c \in Cards, NEW p \in 0..L, NEW v \in Values, Behind(v, c, p)
         PROVE  /\ Behind(v, c, p)'
                /\ v # storedCards'[c] => v # storedCards[c] \/ ToldAfter(c, p)'
                /\ Apart(v, storedCards'[c]) =>
                     Apart(v, storedCards[c]) \/ (k.does = "moveCard" /\ c = k.card)
    <3>1. Rank(v) \in Nat
      BY RankFacts
    <3>2. Rank(v) <= Rank(storedCards[c])
      BY <2>10 DEF Behind
    <3>3. Rank(v) <= Rank(storedCards'[c])
      BY <2>7, <2>8, <3>1, <3>2
    <3>4. Behind(v, c, p)'
      BY <2>5, <2>6, <2>10, <3>3 DEF Behind
    <3>5. v # storedCards'[c] => v # storedCards[c] \/ ToldAfter(c, p)'
      BY <2>7, <2>9
    <3>6. ASSUME Apart(v, storedCards'[c])
          PROVE  Apart(v, storedCards[c]) \/ (k.does = "moveCard" /\ c = k.card)
      <4>1. IsCard(v) /\ IsCard(storedCards'[c]) /\ v.column # storedCards'[c].column
        BY <3>6 DEF Apart
      <4>2. Rank(v) > 0
        <5>1. v.text \in Nat /\ Rank(v) = v.text + 1
          BY <4>1, RankFacts, ValuesFacts
        <5>2. QED
          BY <5>1
      <4>3. storedCards[c] # NoCard
        BY <3>2, <4>2, RankFacts, <2>8, <3>1
      <4>4. QED
        BY <2>7, <4>1, <4>3 DEF Apart
    <3>7. QED
      BY <3>4, <3>5, <3>6
  <2>11. ~MovesMeet'
    BY <2>4, StoreMoves DEF BoardHeld
  <2>12. AnswersFollow'
    <3> SUFFICES ASSUME NEW m \in DOMAIN replies', NEW c \in Cards
                 PROVE  /\ Behind(replies[m].cards[c], c, m)'
                        /\ replies'[m].cards[c] # storedCards'[c] => ToldAfter(c, m)'
                        /\ Apart(replies'[m].cards[c], storedCards'[c]) => MovedAfter(c, m)'
      BY DEF AnswersFollow
    <3>1. CASE m \in 1..L
      <4>1. PICK v : v = replies[m].cards[c]
        OBVIOUS
      <4>2. replies'[m].cards[c] = v
        BY <2>6, <3>1, <4>1
      <4>3. v \in Values
        <5>1. replies[m] \in ReplyKinds
          BY <2>5, <3>1
        <5>2. replies[m].cards \in Boards
          BY <5>1 DEF ReplyKinds
        <5>3. QED
          BY <4>1, <5>2 DEF Boards
      <4>4. /\ Behind(v, c, m)
            /\ v # storedCards[c] => ToldAfter(c, m)
            /\ Apart(v, storedCards[c]) => MovedAfter(c, m)
        BY <2>4, <2>5, <3>1, <4>1 DEF AnswersFollow
      <4>5. m \in 0..L
        BY <2>5, <3>1
      <4>6. Behind(v, c, m)'
        BY <2>10, <4>3, <4>4, <4>5
      <4>7. v # storedCards'[c] => ToldAfter(c, m)'
        BY <2>9, <2>10, <4>3, <4>4, <4>5
      <4>8. Apart(v, storedCards'[c]) => MovedAfter(c, m)'
        BY <2>9, <2>10, <4>3, <4>4, <4>5
      <4>9. QED
        BY <4>2, <4>6, <4>7, <4>8 DEF Behind
    <3>2. CASE m = L + 1
      <4>1. replies'[m].cards[c] = storedCards'[c]
        BY <2>5, <2>6, <3>2
      <4>2. \A p \in DOMAIN replies' : ~(p > m)
        BY <2>5, <2>6, <3>2
      <4>3. Rank(storedCards'[c]) <= Rank(storedCards'[c])
        BY <2>8
      <4>4. QED
        BY <4>1, <4>2, <4>3 DEF Behind, Apart
    <3>3. QED
      BY <2>5, <2>6, <3>1, <3>2
  <2>13. Comes(calls) => Comes(left)'
    <3>1. Range(replies') = Range(replies) \cup {r}
      <4>1. r \in ReplyKinds
        BY <2>2, <2>5, <2>7 DEF ReplyKinds
      <4>2. QED
        BY <2>5, <4>1, OneJoins
    <3>2. QED
      BY <2>5, <3>1 DEF Comes
  <2>14. Shows(board, left)'
    <3> SUFFICES ASSUME board # NoBoard, NEW c \in Cards
                 PROVE  /\ Behind(board[c], c, 0)'
                        /\ board[c] # storedCards'[c] =>
                             ToldAfter(c, 0)' \/ Comes(left)' \/ Moves(c, left)
                        /\ Apart(board[c], storedCards'[c]) => MovedAfter(c, 0)' \/ Moves(c, left)
      BY DEF Shows, Moves
    <3>1. /\ Behind(board[c], c, 0)
          /\ board[c] # storedCards[c] => ToldAfter(c, 0) \/ Comes(calls) \/ Moves(c, calls)
          /\ Apart(board[c], storedCards[c]) => MovedAfter(c, 0) \/ Moves(c, calls)
      BY <2>4 DEF Shows
    <3>2. board[c] \in Values /\ 0 \in 0..L
      BY <2>3, <2>5 DEF BoardHeld, BoardTyped, Boards
    <3>3. Moves(c, calls) => Moves(c, left) \/ (k.does = "moveCard" /\ k.card = c)
      BY <2>5 DEF Moves
    <3>4. k.does = "moveCard" => k.does \notin Reads
      BY DEF Reads
    <3>5. /\ Behind(board[c], c, 0)'
          /\ board[c] # storedCards'[c] => board[c] # storedCards[c] \/ ToldAfter(c, 0)'
          /\ Apart(board[c], storedCards'[c]) =>
               Apart(board[c], storedCards[c]) \/ (k.does = "moveCard" /\ c = k.card)
      BY <2>10, <3>1, <3>2
    <3>6. /\ ToldAfter(c, 0) => ToldAfter(c, 0)'
          /\ MovedAfter(c, 0) => MovedAfter(c, 0)'
          /\ c = k.card /\ k.does \notin Reads => ToldAfter(c, 0)'
          /\ c = k.card /\ k.does = "moveCard" => MovedAfter(c, 0)'
      BY <2>9, <3>2
    <3>7. QED
      BY <2>13, <3>1, <3>3, <3>4, <3>5, <3>6
  <2>15. MovesRestore(left, board, left)'
    <3> SUFFICES ASSUME NEW call \in left, call.does = "moveCard"
                 PROVE  Restores(call, board, left)'
      BY DEF MovesRestore
    <3>1. k.does # "moveCard"
      <4>1. left = Range(Rest(sent, n))
        BY <2>3 DEF Store, RemoveAt, Rest
      <4>2. QED
        BY <2>1, <2>4, <4>1, OnlyMove DEF BoardHeld
    <3>2. PICK c, v : c = call.card /\ v = call.prev[c]
      OBVIOUS
    <3>3. call \in calls /\ calls \subseteq CallKinds
      <4>1. sent \in Seq(CallKinds)
        BY DEF BoardHeld, BoardTyped
      <4>2. Range(sent) \subseteq CallKinds
        BY <4>1, RangeEquality
      <4>3. QED
        BY <2>3, <2>5, <4>2
    <3>4. c \in Cards /\ (call.prev # NoBoard => v \in Values)
      BY <3>2, <3>3 DEF CallKinds, Reads, Boards
    <3> SUFFICES ASSUME call.prev # NoBoard
                 PROVE  /\ board # NoBoard
                        /\ Rank(v) <= Rank(board[c])
                        /\ v # storedCards'[c] =>
                             ToldAfter(c, 0)' \/ Comes(left)' \/ Rank(v) < Rank(board[c])
                        /\ ~Apart(v, storedCards'[c])
      BY <3>2 DEF Restores
    <3>5. /\ board # NoBoard /\ Rank(v) <= Rank(board[c])
          /\ v # storedCards[c] => ToldAfter(c, 0) \/ Comes(calls) \/ Rank(v) < Rank(board[c])
          /\ ~Apart(v, storedCards[c])
      BY <2>4, <3>2, <3>3 DEF MovesRestore, Restores
    <3>6. Behind(board[c], c, 0)
      BY <2>4, <3>4, <3>5 DEF Shows
    <3>7. v \in Values /\ 0 \in 0..L /\ board[c] \in Values
      BY <2>3, <2>5, <3>4, <3>5 DEF BoardHeld, BoardTyped, Boards
    <3>8. Behind(v, c, 0)
      <4>1. Rank(v) \in Nat /\ Rank(board[c]) \in Nat /\ Rank(storedCards[c]) \in Nat
        BY <2>8, <3>4, <3>7, RankFacts
      <4>2. \A m \in DOMAIN replies : Rank(replies[m].cards[c]) \in Nat
        <5>1. \A m \in DOMAIN replies : replies[m] \in ReplyKinds
          BY <2>5
        <5>2. \A m \in DOMAIN replies : replies[m].cards \in Boards
          BY <5>1 DEF ReplyKinds
        <5>3. \A m \in DOMAIN replies : replies[m].cards[c] \in Values
          BY <3>4, <5>2 DEF Boards
        <5>4. QED
          BY <5>3, RankFacts
      <4>3. QED
        BY <3>5, <3>6, <4>1, <4>2 DEF Behind
    <3>9. /\ v # storedCards'[c] => v # storedCards[c] \/ ToldAfter(c, 0)'
          /\ Apart(v, storedCards'[c]) => Apart(v, storedCards[c])
      BY <2>10, <3>1, <3>4, <3>7, <3>8
    <3>10. ToldAfter(c, 0) => ToldAfter(c, 0)'
      BY <2>9, <3>4, <3>7
    <3>11. QED
      BY <2>13, <3>5, <3>9, <3>10
  <2>16. QED
    <3>1. Shows(activeBoard, Range(sent))'
      BY <2>3, <2>5, <2>14 DEF Shows
    <3>2. MovesRestore(Range(sent), activeBoard, Range(sent))'
      BY <2>3, <2>5, <2>15 DEF MovesRestore, Restores
    <3>3. QED
      BY <2>11, <2>12, <3>1, <3>2 DEF Following
<1>3. QED
  BY <1>1, <1>2 DEF BoardHeld, BoardTyped

\* Nothing is served or answered: more requests are under way.
LEMMA StillFollows ==
  ASSUME UNCHANGED <<replies, storedCards>>, NEW board \in {NoBoard} \cup Boards,
         NEW left \in SUBSET CallKinds, NEW few \in SUBSET CallKinds,
         NEW calls \in SUBSET CallKinds, few \subseteq calls,
         AnswersFollow, Shows(board, few), MovesRestore(left, board, few)
  PROVE  AnswersFollow' /\ Shows(board, calls)' /\ MovesRestore(left, board, calls)'
<1>1. /\ Comes(few) => Comes(calls)'
      /\ \A c \in Cards : Moves(c, few) => Moves(c, calls)
  BY DEF Comes, Moves
<1>2. \A c \in Cards, m \in Nat : /\ ToldAfter(c, m)' <=> ToldAfter(c, m)
                                  /\ MovedAfter(c, m)' <=> MovedAfter(c, m)
  BY DEF ToldAfter, MovedAfter
<1>3. AnswersFollow'
  BY DEF AnswersFollow, Behind, ToldAfter, MovedAfter
<1>4. Shows(board, calls)'
  <2> SUFFICES ASSUME board # NoBoard, NEW c \in Cards
               PROVE  /\ Behind(board[c], c, 0)'
                      /\ board[c] # storedCards'[c] =>
                           ToldAfter(c, 0)' \/ Comes(calls)' \/ Moves(c, calls)
                      /\ Apart(board[c], storedCards'[c]) => MovedAfter(c, 0)' \/ Moves(c, calls)
    BY DEF Shows, Moves
  <2>1. /\ Behind(board[c], c, 0)
        /\ board[c] # storedCards[c] => ToldAfter(c, 0) \/ Comes(few) \/ Moves(c, few)
        /\ Apart(board[c], storedCards[c]) => MovedAfter(c, 0) \/ Moves(c, few)
    BY DEF Shows
  <2>2. Behind(board[c], c, 0)'
    BY <2>1 DEF Behind
  <2>3. QED
    BY <1>1, <1>2, <2>1, <2>2
<1>5. MovesRestore(left, board, calls)'
  BY <1>1 DEF MovesRestore, Restores, ToldAfter
<1>6. QED
  BY <1>3, <1>4, <1>5

LEMMA AskFollows ==
  ASSUME BoardHeld, BoardHeld', Following, NEW more \in AskKinds, BoardAsks(more)
  PROVE  Following'
<1>1. CASE boardExcused'
  BY <1>1 DEF Following
<1>2. CASE ~boardExcused'
  <2>1. ~boardExcused /\ ~MovesMeet' /\ UNCHANGED <<replies, storedCards>>
    BY <1>2 DEF BoardAsks, AskBoard
  <2>2. PICK left, board, loading, saving :
          left = sent /\ board = activeBoard /\ loading = isLoading /\ saving = isSaving
    OBVIOUS
  <2>3. /\ left \in Seq(CallKinds) /\ board \in {NoBoard} \cup Boards
        /\ loading \in BOOLEAN /\ saving \in BOOLEAN
        /\ Send(left, more, board, loading, saving)
    BY <2>2 DEF BoardAsks, AskBoard, BoardHeld, BoardTyped
  <2>4. PICK few, calls : /\ few = Range(left)
                          /\ calls = Range(left) \cup {call \in Range(more) : call.does \in Reads}
    OBVIOUS
  <2>5. few \in SUBSET CallKinds /\ calls \in SUBSET CallKinds /\ few \subseteq calls
    <3>1. Range(left) \subseteq CallKinds
      BY <2>3, RangeEquality
    <3>2. Range(more) \subseteq CallKinds
      BY DEF AskKinds, Range
    <3>3. QED
      BY <2>4, <3>1, <3>2
  <2>6. AnswersFollow /\ Shows(board, few) /\ MovesRestore(few, board, few)
    BY <2>1, <2>2, <2>4 DEF Following
  <2>7. AnswersFollow' /\ Shows(board, calls)' /\ MovesRestore(few, board, calls)'
    BY <2>1, <2>3, <2>5, <2>6, StillFollows
  <2>8. MovesRestore(Range(left), board, calls)'
    BY <2>4, <2>7 DEF MovesRestore, Restores
  <2>9. \A call \in Range(more) : call.does = "moveCard" => call.prev = board
    BY <2>2 DEF BoardAsks
  <2>10. BoardTyped'
    BY DEF BoardHeld
  <2>11. QED
    BY <2>1, <2>3, <2>4, <2>5, <2>7, <2>8, <2>9, <2>10, SendFollows
<1>3. QED
  BY <1>1, <1>2

\* The board that a request which fails leaves.
LEMMA BoardAfterFailure ==
  ASSUME BoardHeld, Following, ~boardExcused, NEW n \in DOMAIN sent,
         sent[n].does \notin Reads, ~MoveOverlapped(sent[n], activeBoard),
         NEW left \in SUBSET CallKinds, left = Range(Rest(sent, n)),
         NEW board \in {NoBoard} \cup Boards,
         board = IF sent[n].does = "moveCard" THEN sent[n].prev ELSE activeBoard
  PROVE  Shows(board, left) /\ MovesRestore(left, board, left)
<1>1. PICK k, shown, calls : k = sent[n] /\ shown = activeBoard /\ calls = Range(sent)
  OBVIOUS
<1>2. /\ ~MovesMeet /\ Shows(shown, calls) /\ MovesRestore(calls, shown, calls)
  BY <1>1 DEF Following
<1>3. sent \in Seq(CallKinds) /\ replies \in Seq(ReplyKinds) /\ shown \in {NoBoard} \cup Boards
  BY <1>1 DEF BoardHeld, BoardTyped
<1>4. k \in CallKinds /\ calls = left \cup {k} /\ k \in calls
  BY <1>1, <1>3, OneLeaves
<1>5. k.does \notin Reads
  BY <1>1
<1>6. Comes(calls) => Comes(left)
  BY <1>4, <1>5 DEF Comes
<1>7. CASE k.does # "moveCard"
  <2>1. board = shown
    BY <1>1, <1>7
  <2>2. \A c \in Cards : Moves(c, calls) => Moves(c, left)
    BY <1>4, <1>7 DEF Moves
  <2>3. Shows(board, left)
    BY <1>2, <1>6, <2>1, <2>2 DEF Shows
  <2>4. MovesRestore(left, board, left)
    BY <1>2, <1>4, <1>6, <2>1 DEF MovesRestore, Restores
  <2>5. QED
    BY <2>3, <2>4
<1>8. CASE k.does = "moveCard"
  <2>1. board = k.prev
    BY <1>1, <1>8
  <2>2. \A call \in left : call.does # "moveCard"
    BY <1>1, <1>2, <1>8, OnlyMove DEF BoardHeld
  <2>3. MovesRestore(left, board, left)
    BY <2>2 DEF MovesRestore
  <2>4. Shows(board, left)
    <3> SUFFICES ASSUME board # NoBoard, NEW c \in Cards
                 PROVE  /\ Behind(board[c], c, 0)
                        /\ board[c] # storedCards[c] => ToldAfter(c, 0) \/ Comes(left) \/ Moves(c, left)
                        /\ Apart(board[c], storedCards[c]) => MovedAfter(c, 0) \/ Moves(c, left)
      BY DEF Shows
    <3>1. Restores(k, shown, calls)
      BY <1>2, <1>4, <1>8 DEF MovesRestore
    <3>2. /\ shown # NoBoard
          /\ board[k.card] # storedCards[k.card] =>
               \/ ToldAfter(k.card, 0) \/ Comes(calls)
               \/ Rank(board[k.card]) < Rank(shown[k.card])
          /\ ~Apart(board[k.card], storedCards[k.card])
      BY <2>1, <3>1 DEF Restores
    <3>3. shown = board \/ shown = Optimistic(k, board)
      BY <1>1, <1>8, <2>1 DEF MoveOverlapped
    <3>4. board \in Boards /\ shown \in Boards
      BY <1>3, <3>2
    <3>5. /\ Rank(board[c]) \in Nat /\ Rank(board[c]) = Rank(shown[c])
          /\ c # k.card => shown[c] = board[c]
      <4>1. Rank(board[c]) \in Nat
        BY <3>4, RankFacts DEF Boards
      <4>2. /\ Rank(Optimistic(k, board)[c]) = Rank(board[c])
            /\ c # k.card => Optimistic(k, board)[c] = board[c]
        BY <1>4, OptimisticShows
      <4>3. QED
        BY <3>3, <4>1, <4>2
    <3>6. /\ Behind(shown[c], c, 0)
          /\ shown[c] # storedCards[c] => ToldAfter(c, 0) \/ Comes(calls) \/ Moves(c, calls)
          /\ Apart(shown[c], storedCards[c]) => MovedAfter(c, 0) \/ Moves(c, calls)
      BY <1>2, <3>2 DEF Shows
    <3>7. Behind(board[c], c, 0)
      BY <3>5, <3>6 DEF Behind
    <3>8. CASE c = k.card
      BY <1>6, <3>2, <3>5, <3>7, <3>8
    <3>9. CASE c # k.card
      <4>1. Moves(c, calls) => Moves(c, left)
        BY <1>4, <3>9 DEF Moves
      <4>2. QED
        BY <1>6, <3>5, <3>6, <3>7, <3>9, <4>1
    <3>10. QED
      BY <3>8, <3>9
  <2>5. QED
    BY <2>3, <2>4
<1>9. QED
  BY <1>7, <1>8

LEMMA FailFollows ==
  ASSUME BoardHeld, BoardHeld', Following, NEW n \in DOMAIN sent, FailCall(n)
  PROVE  Following'
<1> DEFINE settled == sent' = <<>> /\ replies' = <<>> /\ activeBoard' = storedCards'
<1>1. CASE boardExcused'
  BY <1>1 DEF Following
<1>2. CASE settled
  BY <1>2, SettledBoard DEF BoardHeld
<1>3. CASE ~boardExcused' /\ ~settled
  <2>1. /\ ~boardExcused /\ sent[n].does \notin Reads /\ ~MovesMeet'
        /\ ~MoveOverlapped(sent[n], activeBoard)
    BY <1>3 DEF FailCall, Settles
  <2>2. PICK k, left : k = sent[n] /\ left = Rest(sent, n)
    OBVIOUS
  <2>3. sent \in Seq(CallKinds)
    BY DEF BoardHeld, BoardTyped
  <2>4. k \in CallKinds /\ left \in Seq(CallKinds)
    BY <2>2, <2>3, OneLeaves
  <2>5. Refused(left, k) /\ replies' = replies
    BY <2>2 DEF FailCall, RemoveAt, Rest
  <2>6. PICK board : board = IF k.does = "moveCard" THEN k.prev ELSE activeBoard
    OBVIOUS
  <2>7. board \in {NoBoard} \cup Boards
    BY <2>4, <2>6 DEF BoardHeld, BoardTyped, CallKinds
  <2>8. PICK more : more = IF k.does \in {"createCard", "updateCard", "createCardFromRun"}
                           THEN <<>> ELSE Continued(k, board)
    OBVIOUS
  <2>9. more \in AskKinds /\ \A call \in Range(more) : call.does = "moveCard" => call.prev = board
    <3>1. <<>> \in AskKinds /\ Range(<<>>) = {}
      BY DEF AskKinds, Range
    <3>2. QED
      BY <2>4, <2>7, <2>8, <3>1, ContinuedTyped
  <2>10. PICK loading, saving : /\ loading = (isLoading /\ k.does \notin Reads)
                                /\ saving = (isSaving /\ k.does \notin Writes)
    OBVIOUS
  <2>11. loading \in BOOLEAN /\ saving \in BOOLEAN
    BY <2>10
  <2>12. /\ Send(left, more, board, loading, saving)
         /\ UNCHANGED storedCards
    <3>1. k.does # "loadDefaultBoard"
      BY <2>1, <2>2 DEF Reads
    <3>2. board = CASE k.does = "loadDefaultBoard" -> NoBoard
                    [] k.does = "moveCard" -> Rollback(k, activeBoard)
                    [] OTHER -> activeBoard
      BY <2>6, <3>1 DEF Rollback
    <3>3. QED
      BY <2>5, <2>8, <2>10, <3>2 DEF Refused
  <2>13. PICK few, calls : /\ few = Range(left)
                           /\ calls = Range(left) \cup {call \in Range(more) : call.does \in Reads}
    OBVIOUS
  <2>14. few \in SUBSET CallKinds /\ calls \in SUBSET CallKinds /\ few \subseteq calls
    <3>1. Range(left) \subseteq CallKinds
      BY <2>4, RangeEquality
    <3>2. Range(more) \subseteq CallKinds
      BY <2>9 DEF AskKinds, Range
    <3>3. QED
      BY <2>13, <3>1, <3>2
  <2>15. Shows(board, few) /\ MovesRestore(few, board, few)
    BY <2>1, <2>2, <2>6, <2>7, <2>13, <2>14, BoardAfterFailure
  <2>16. AnswersFollow' /\ Shows(board, calls)' /\ MovesRestore(few, board, calls)'
    <3>1. AnswersFollow
      BY <2>1 DEF Following
    <3>2. UNCHANGED <<replies, storedCards>>
      BY <2>5, <2>12
    <3>3. QED
      BY <2>7, <2>14, <2>15, <3>1, <3>2, StillFollows
  <2>17. MovesRestore(Range(left), board, calls)'
    BY <2>13, <2>16 DEF MovesRestore, Restores
  <2>18. BoardTyped'
    BY DEF BoardHeld
  <2>19. QED
    BY <2>1, <2>4, <2>7, <2>9, <2>11, <2>12, <2>13, <2>14, <2>16, <2>17, <2>18, SendFollows
<1>4. QED
  BY <1>1, <1>2, <1>3 DEF BoardHeld, BoardTyped

\* An answer that is lost excuses the board.
LEMMA LoseFollows ==
  ASSUME BoardHeld', NEW n \in DOMAIN replies, LoseReply(n)
  PROVE  Following'
<1>1. boardExcused' \/ (sent' = <<>> /\ replies' = <<>> /\ activeBoard' = storedCards')
  BY DEF LoseReply, Settles
<1>2. CASE boardExcused'
  BY <1>2 DEF Following
<1>3. CASE sent' = <<>> /\ replies' = <<>> /\ activeBoard' = storedCards'
  BY <1>3, SettledBoard DEF BoardHeld
<1>4. QED
  BY <1>1, <1>2, <1>3

\* What an answer shows of a card: its value, or what was shown before it.
LEMMA AfterAnswer ==
  ASSUME BoardTyped, NEW r \in ReplyKinds, NEW c \in Cards,
         NEW board \in {NoBoard} \cup Boards, board = BoardAfter(r.call, r.cards)
  PROVE  /\ activeBoard # NoBoard => board # NoBoard
         /\ board # NoBoard =>
              \/ board[c] = r.cards[c]
              \/ /\ activeBoard # NoBoard /\ board[c] = activeBoard[c]
                 /\ r.call.does \notin Reads
                 /\ r.call.does = "createCardFromRun" \/ r.call.card # c
<1>1. r.call \in CallKinds /\ r.cards \in Boards /\ activeBoard \in {NoBoard} \cup Boards
  BY DEF ReplyKinds, BoardTyped
<1>2. CASE r.call.does \in Reads
  <2>1. board = r.cards
    BY <1>2 DEF BoardAfter, Reads
  <2>2. board # NoBoard
    BY <1>1, <2>1, BoardsAreBoards
  <2>3. QED
    BY <2>1, <2>2
<1>3. CASE r.call.does = "createCardFromRun"
  <2>1. board = activeBoard /\ r.call.does \notin Reads
    BY <1>3 DEF BoardAfter, Reads
  <2>2. QED
    BY <1>3, <2>1
<1>4. CASE r.call.does \in Writes
  <2>1. r.call.card \in Cards /\ r.call.does \notin Reads
    BY <1>1, <1>4 DEF CallKinds, Writes, Reads
  <2>2. board = updateBoardCard(activeBoard, r.call.card, r.cards[r.call.card])
    BY <1>4 DEF BoardAfter, Writes, Reads
  <2>3. CASE activeBoard = NoBoard
    BY <2>2, <2>3 DEF updateBoardCard
  <2>4. CASE activeBoard # NoBoard
    <3>1. activeBoard \in Boards
      BY <1>1, <2>4
    <3>2. board = [activeBoard EXCEPT ![r.call.card] = r.cards[r.call.card]]
      BY <2>2, <2>4 DEF updateBoardCard
    <3>3. r.cards[r.call.card] \in Values
      BY <1>1, <2>1 DEF Boards
    <3>4. /\ board \in Boards /\ board[r.call.card] = r.cards[r.call.card]
          /\ c # r.call.card => board[c] = activeBoard[c]
      BY <2>1, <3>1, <3>2, <3>3 DEF Boards
    <3>5. board # NoBoard
      BY <3>4, BoardsAreBoards
    <3>6. QED
      BY <2>1, <2>4, <3>4, <3>5
  <2>5. QED
    BY <2>3, <2>4
<1>5. QED
  BY <1>1, <1>2, <1>3, <1>4 DEF CallKinds

\* The first answer is taken out of those under way.
LEMMA FirstAnswer ==
  ASSUME BoardTyped, NEW r \in ReplyKinds, replies # <<>>, r = replies[1],
         replies' = Rest(replies, 1), UNCHANGED storedCards
  PROVE  /\ \A c \in Cards, v \in Values :
              Behind(v, c, 0) => Behind(v, c, 0)' /\ Rank(v) <= Rank(r.cards[c])
         /\ \A c \in Cards :
              /\ ToldAfter(c, 0) =>
                   ToldAfter(c, 0)' \/ (r.call.card = c /\ r.call.does \notin Reads)
              /\ MovedAfter(c, 0) =>
                   MovedAfter(c, 0)' \/ (r.call.card = c /\ r.call.does = "moveCard")
         /\ AnswersFollow =>
              /\ AnswersFollow'
              /\ \A c \in Cards :
                   /\ Behind(r.cards[c], c, 0)'
                   /\ r.cards[c] # storedCards[c] => ToldAfter(c, 0)'
                   /\ Apart(r.cards[c], storedCards[c]) => MovedAfter(c, 0)'
<1>1. PICK L : L = Len(replies)
  OBVIOUS
<1>2. /\ replies \in Seq(ReplyKinds) /\ L \in Nat /\ L > 0
      /\ DOMAIN replies = 1..L /\ 1 \in DOMAIN replies
  BY <1>1 DEF BoardTyped
<1>3. /\ Rest(replies, 1) \in Seq(ReplyKinds) /\ Len(Rest(replies, 1)) = L - 1
      /\ \A m \in 1..(L - 1) : Rest(replies, 1)[m] = IF m < 1 THEN replies[m] ELSE replies[m + 1]
  BY <1>1, <1>2, OneLeaves
<1>4. DOMAIN replies' = 1..(L - 1) /\ \A m \in DOMAIN replies' : replies'[m] = replies[m + 1]
  BY <1>2, <1>3
<1>5. \A m \in DOMAIN replies' : m + 1 \in DOMAIN replies
  BY <1>2, <1>4
<1>6. ASSUME NEW m \in DOMAIN replies, m # 1
      PROVE  m - 1 \in DOMAIN replies' /\ replies'[m - 1] = replies[m]
  <2>1. m - 1 \in 1..(L - 1) /\ (m - 1) + 1 = m
    BY <1>2, <1>6
  <2>2. m - 1 \in DOMAIN replies'
    BY <1>4, <2>1
  <2>3. replies'[m - 1] = replies[(m - 1) + 1]
    BY <1>4, <2>2
  <2>4. QED
    BY <2>1, <2>2, <2>3
<1>7. ASSUME NEW c \in Cards, NEW p \in 0..L
      PROVE  /\ ToldAfter(c, p + 1) => ToldAfter(c, p)'
             /\ MovedAfter(c, p + 1) => MovedAfter(c, p)'
             /\ \A v \in Values : Behind(v, c, p + 1) => Behind(v, c, p)'
  <2>1. ASSUME ToldAfter(c, p + 1) PROVE ToldAfter(c, p)'
    <3>1. PICK m \in DOMAIN replies :
            m > p + 1 /\ replies[m].call.card = c /\ replies[m].call.does \notin Reads
      BY <2>1 DEF ToldAfter
    <3>2. m # 1 /\ m - 1 > p
      BY <1>2, <3>1
    <3>3. QED
      BY <1>6, <3>1, <3>2 DEF ToldAfter
  <2>2. ASSUME MovedAfter(c, p + 1) PROVE MovedAfter(c, p)'
    <3>1. PICK m \in DOMAIN replies :
            m > p + 1 /\ replies[m].call.card = c /\ replies[m].call.does = "moveCard"
      BY <2>2 DEF MovedAfter
    <3>2. m # 1 /\ m - 1 > p
      BY <1>2, <3>1
    <3>3. QED
      BY <1>6, <3>1, <3>2 DEF MovedAfter
  <2>3. ASSUME NEW v \in Values, Behind(v, c, p + 1) PROVE Behind(v, c, p)'
    <3>1. ASSUME NEW m \in DOMAIN replies', m > p
          PROVE  Rank(v) <= Rank(replies'[m].cards[c])
      <4>1. m + 1 \in DOMAIN replies /\ m + 1 > p + 1 /\ replies'[m] = replies[m + 1]
        BY <1>2, <1>4, <1>5, <3>1
      <4>2. QED
        BY <2>3, <4>1 DEF Behind
    <3>2. QED
      BY <2>3, <3>1 DEF Behind
  <2>4. QED
    BY <2>1, <2>2, <2>3
<1>8. ASSUME NEW c \in Cards, NEW v \in Values, Behind(v, c, 0)
      PROVE  Behind(v, c, 0)' /\ Rank(v) <= Rank(r.cards[c])
  <2>1. Behind(v, c, 1)
    BY <1>2, <1>8 DEF Behind
  <2>2. 0 \in 0..L /\ 0 + 1 = 1 /\ 1 > 0
    BY <1>2
  <2>3. Behind(v, c, 0)'
    BY <1>7, <2>1, <2>2
  <2>4. QED
    BY <1>2, <1>8, <2>2, <2>3 DEF Behind
<1>9. ASSUME NEW c \in Cards
      PROVE  /\ ToldAfter(c, 0) =>
                  ToldAfter(c, 0)' \/ (r.call.card = c /\ r.call.does \notin Reads)
             /\ MovedAfter(c, 0) =>
                  MovedAfter(c, 0)' \/ (r.call.card = c /\ r.call.does = "moveCard")
  <2>1. 0 \in 0..L /\ 0 + 1 = 1
    BY <1>2
  <2>2. \A m \in DOMAIN replies : m > 0 => m = 1 \/ m > 1
    BY <1>2
  <2>3. /\ ToldAfter(c, 0) =>
             ToldAfter(c, 1) \/ (r.call.card = c /\ r.call.does \notin Reads)
        /\ MovedAfter(c, 0) =>
             MovedAfter(c, 1) \/ (r.call.card = c /\ r.call.does = "moveCard")
    BY <2>2 DEF ToldAfter, MovedAfter
  <2>4. QED
    BY <1>7, <2>1, <2>3
<1>10. ASSUME AnswersFollow
       PROVE  /\ AnswersFollow'
              /\ \A c \in Cards :
                   /\ Behind(r.cards[c], c, 0)'
                   /\ r.cards[c] # storedCards[c] => ToldAfter(c, 0)'
                   /\ Apart(r.cards[c], storedCards[c]) => MovedAfter(c, 0)'
  <2>1. ASSUME NEW p \in 0..(L - 1), NEW c \in Cards, NEW v \in Values,
               v = replies[p + 1].cards[c]
        PROVE  /\ Behind(v, c, p)'
               /\ v # storedCards[c] => ToldAfter(c, p)'
               /\ Apart(v, storedCards[c]) => MovedAfter(c, p)'
    <3>1. p + 1 \in DOMAIN replies /\ p \in 0..L
      BY <1>2
    <3>2. /\ Behind(v, c, p + 1)
          /\ v # storedCards[c] => ToldAfter(c, p + 1)
          /\ Apart(v, storedCards[c]) => MovedAfter(c, p + 1)
      BY <1>10, <2>1, <3>1 DEF AnswersFollow
    <3>3. QED
      BY <1>7, <3>1, <3>2
  <2>2. ASSUME NEW p \in 0..(L - 1), NEW c \in Cards
        PROVE  replies[p + 1].cards[c] \in Values
    <3>1. replies[p + 1] \in ReplyKinds
      BY <1>2
    <3>2. replies[p + 1].cards \in Boards
      BY <3>1 DEF ReplyKinds
    <3>3. QED
      BY <3>2 DEF Boards
  <2>3. AnswersFollow'
    <3> SUFFICES ASSUME NEW m \in DOMAIN replies', NEW c \in Cards
                 PROVE  /\ Behind(replies[m].cards[c], c, m)'
                        /\ replies'[m].cards[c] # storedCards'[c] => ToldAfter(c, m)'
                        /\ Apart(replies'[m].cards[c], storedCards'[c]) => MovedAfter(c, m)'
      BY DEF AnswersFollow
    <3>1. m \in 0..(L - 1) /\ replies'[m] = replies[m + 1]
      BY <1>2, <1>4
    <3>2. PICK v : v = replies[m + 1].cards[c]
      OBVIOUS
    <3>3. v \in Values
      BY <2>2, <3>1, <3>2
    <3>4. /\ Behind(v, c, m)'
          /\ v # storedCards[c] => ToldAfter(c, m)'
          /\ Apart(v, storedCards[c]) => MovedAfter(c, m)'
      BY <2>1, <3>1, <3>2, <3>3
    <3>5. replies'[m].cards[c] = v
      BY <3>1, <3>2
    <3>6. Behind(replies[m].cards[c], c, m)'
      BY <3>4, <3>5 DEF Behind
    <3>7. QED
      BY <3>4, <3>5, <3>6
  <2>4. ASSUME NEW c \in Cards
        PROVE  /\ Behind(r.cards[c], c, 0)'
               /\ r.cards[c] # storedCards[c] => ToldAfter(c, 0)'
               /\ Apart(r.cards[c], storedCards[c]) => MovedAfter(c, 0)'
    <3>1. 0 \in 0..(L - 1) /\ 0 + 1 = 1
      BY <1>2
    <3>2. PICK v : v = r.cards[c]
      OBVIOUS
    <3>3. v \in Values /\ v = replies[0 + 1].cards[c]
      BY <2>2, <3>1, <3>2
    <3>4. QED
      BY <2>1, <3>1, <3>2, <3>3
  <2>5. QED
    BY <2>3, <2>4
<1>11. QED
  BY <1>8, <1>9, <1>10

LEMMA AnsweredFollows ==
  ASSUME BoardHeld, BoardHeld', Following, NEW n \in DOMAIN replies, Answered(n)
  PROVE  Following'
<1> DEFINE settled == sent' = <<>> /\ replies' = <<>> /\ activeBoard' = storedCards'
<1>1. CASE boardExcused'
  BY <1>1 DEF Following
<1>2. CASE settled
  BY <1>2, SettledBoard DEF BoardHeld
<1>3. CASE ~boardExcused' /\ ~settled
  <2>1. ~boardExcused /\ n = 1 /\ ~MovesMeet'
    BY <1>3 DEF Answered, Settles
  <2>2. PICK r, left : r = replies[1] /\ left = sent
    OBVIOUS
  <2>3. PICK k : k = r.call
    OBVIOUS
  <2>4. /\ sent \in Seq(CallKinds) /\ replies \in Seq(ReplyKinds) /\ replies # <<>>
        /\ replies' = Rest(replies, 1) /\ UNCHANGED storedCards
    BY <2>1 DEF Answered, RemoveAt, Rest, BoardHeld, BoardTyped
  <2>5. /\ r \in ReplyKinds /\ k \in CallKinds /\ left \in Seq(CallKinds)
        /\ Range(replies) = Range(replies') \cup {r}
    <3>1. 1 \in DOMAIN replies
      BY <2>1
    <3>2. /\ replies[1] \in ReplyKinds
          /\ Range(replies) = Range(replies') \cup {replies[1]}
      BY <2>4, <3>1, OneLeaves
    <3>3. QED
      BY <2>2, <2>3, <2>4, <3>2 DEF ReplyKinds
  <2>6. PICK board : board = BoardAfter(r.call, r.cards)
    OBVIOUS
  <2>7. PICK more : more = IF Refreshes(k) THEN refreshBoard(k.card, k.column, k.rest)
                           ELSE Continued(k, board)
    OBVIOUS
  <2>8. /\ board \in {NoBoard} \cup Boards /\ more \in AskKinds
        /\ \A call \in Range(more) : call.does = "moveCard" => call.prev = board
        /\ Refreshes(k) => \E call \in Range(more) : call.does \in Reads
    BY <2>3, <2>5, <2>6, <2>7, AnsweredTyped DEF BoardHeld
  <2>9. PICK loading, saving : /\ loading = (isLoading /\ k.does \notin Reads)
                               /\ saving = (isSaving /\ k.does \notin Writes)
    OBVIOUS
  <2>10. loading \in BOOLEAN /\ saving \in BOOLEAN
    BY <2>9
  <2>11. Send(left, more, board, loading, saving)
    BY <2>1, <2>2, <2>3, <2>6, <2>7, <2>9 DEF Answered
  <2>12. PICK few, calls, shown :
           /\ few = Range(left) /\ shown = activeBoard
           /\ calls = Range(left) \cup {call \in Range(more) : call.does \in Reads}
    OBVIOUS
  <2>13. few \in SUBSET CallKinds /\ calls \in SUBSET CallKinds /\ few \subseteq calls
    <3>1. Range(left) \subseteq CallKinds
      BY <2>5, RangeEquality
    <3>2. Range(more) \subseteq CallKinds
      BY <2>8 DEF AskKinds, Range
    <3>3. QED
      BY <2>12, <3>1, <3>2
  <2>14. AnswersFollow /\ Shows(shown, few) /\ MovesRestore(few, shown, few)
    BY <2>1, <2>2, <2>12 DEF Following
  <2>15. AnswersFollow'
    BY <2>2, <2>4, <2>5, <2>14, FirstAnswer DEF BoardHeld
  <2>16. ASSUME NEW c \in Cards
         PROVE  /\ Behind(r.cards[c], c, 0)'
                /\ r.cards[c] # storedCards[c] => ToldAfter(c, 0)'
                /\ Apart(r.cards[c], storedCards[c]) => MovedAfter(c, 0)'
                /\ ToldAfter(c, 0) =>
                     ToldAfter(c, 0)' \/ (k.card = c /\ k.does \notin Reads)
                /\ MovedAfter(c, 0) =>
                     MovedAfter(c, 0)' \/ (k.card = c /\ k.does = "moveCard")
                /\ \A v \in Values :
                     Behind(v, c, 0) => Behind(v, c, 0)' /\ Rank(v) <= Rank(r.cards[c])
    BY <2>2, <2>3, <2>4, <2>5, <2>14, FirstAnswer DEF BoardHeld
  <2>17. ASSUME NEW c \in Cards
         PROVE  /\ shown # NoBoard => board # NoBoard
                /\ board # NoBoard =>
                     \/ board[c] = r.cards[c]
                     \/ /\ shown # NoBoard /\ board[c] = shown[c] /\ k.does \notin Reads
                        /\ k.does = "createCardFromRun" \/ k.card # c
    BY <2>3, <2>5, <2>6, <2>8, <2>12, AfterAnswer DEF BoardHeld
  <2>18. /\ Comes(few) => Comes(calls)' \/ k.does \in Reads
         /\ k.does = "createCardFromRun" => Comes(calls)'
         /\ \A c \in Cards : Moves(c, few) => Moves(c, calls)
    <3>1. Comes(few) => Comes(calls)' \/ k.does \in Reads
      BY <2>3, <2>5, <2>13 DEF Comes
    <3>2. k.does = "createCardFromRun" => Comes(calls)'
      BY <2>8, <2>12 DEF Comes, Refreshes
    <3>3. \A c \in Cards : Moves(c, few) => Moves(c, calls)
      BY <2>13 DEF Moves
    <3>4. QED
      BY <3>1, <3>2, <3>3
  <2>19. shown \in {NoBoard} \cup Boards /\ r.cards \in Boards /\ storedCards \in Boards
    BY <2>5, <2>12 DEF BoardHeld, BoardTyped, ReplyKinds
  <2>20. Shows(board, calls)'
    <3> SUFFICES ASSUME board # NoBoard, NEW c \in Cards
                 PROVE  /\ Behind(board[c], c, 0)'
                        /\ board[c] # storedCards'[c] =>
                             ToldAfter(c, 0)' \/ Comes(calls)' \/ Moves(c, calls)
                        /\ Apart(board[c], storedCards'[c]) => MovedAfter(c, 0)' \/ Moves(c, calls)
      BY DEF Shows, Moves
    <3>1. CASE board[c] = r.cards[c]
      BY <2>4, <2>16, <3>1 DEF Behind
    <3>2. CASE board[c] # r.cards[c]
      <4>1. /\ shown # NoBoard /\ board[c] = shown[c] /\ k.does \notin Reads
            /\ k.does = "createCardFromRun" \/ k.card # c
        BY <2>17, <3>2
      <4>2. PICK v : v = board[c]
        OBVIOUS
      <4>3. v \in Values
        BY <2>8, <4>2 DEF Boards
      <4>4. /\ Behind(v, c, 0)
            /\ v # storedCards[c] => ToldAfter(c, 0) \/ Comes(few) \/ Moves(c, few)
            /\ Apart(v, storedCards[c]) => MovedAfter(c, 0) \/ Moves(c, few)
        BY <2>14, <4>1, <4>2 DEF Shows
      <4>5. Behind(v, c, 0)'
        BY <2>16, <4>3, <4>4
      <4>6. v # storedCards[c] => ToldAfter(c, 0)' \/ Comes(calls)' \/ Moves(c, calls)
        BY <2>16, <2>18, <4>1, <4>4
      <4>7. Apart(v, storedCards[c]) => MovedAfter(c, 0)' \/ Moves(c, calls)
        BY <2>16, <2>18, <4>1, <4>4
      <4>8. QED
        BY <2>4, <4>2, <4>5, <4>6, <4>7 DEF Behind
    <3>3. QED
      BY <3>1, <3>2
  <2>21. MovesRestore(few, board, calls)'
    <3> SUFFICES ASSUME NEW call \in few, call.does = "moveCard", call.prev # NoBoard
                 PROVE  Restores(call, board, calls)'
      BY DEF MovesRestore, Restores
    <3>1. PICK c, v : c = call.card /\ v = call.prev[c]
      OBVIOUS
    <3>2. c \in Cards /\ v \in Values
      <4>1. call \in CallKinds
        BY <2>13
      <4>2. QED
        BY <3>1, <4>1 DEF CallKinds, Reads, Boards
    <3>3. /\ shown # NoBoard /\ Rank(v) <= Rank(shown[c])
          /\ v # storedCards[c] => ToldAfter(c, 0) \/ Comes(few) \/ Rank(v) < Rank(shown[c])
          /\ ~Apart(v, storedCards[c])
      BY <2>14, <3>1 DEF MovesRestore, Restores
    <3>4. Behind(shown[c], c, 0)
      BY <2>14, <3>2, <3>3 DEF Shows
    <3>5. PICK w, s : w = r.cards[c] /\ s = shown[c]
      OBVIOUS
    <3>6. w \in Values /\ s \in Values /\ storedCards[c] \in Values
      BY <2>19, <3>2, <3>3, <3>5 DEF Boards
    <3>7. /\ Rank(v) \in Nat /\ Rank(w) \in Nat /\ Rank(s) \in Nat
          /\ Rank(v) <= Rank(s) /\ Rank(s) <= Rank(w)
      <4>1. Rank(v) \in Nat /\ Rank(w) \in Nat /\ Rank(s) \in Nat
        BY <3>2, <3>6, RankFacts
      <4>2. Behind(s, c, 0)
        BY <3>4, <3>5
      <4>3. Rank(s) <= Rank(w)
        BY <2>16, <3>2, <3>5, <3>6, <4>2
      <4>4. QED
        BY <3>3, <3>5, <4>1, <4>3
    <3>8. board # NoBoard
      BY <2>17, <3>2, <3>3
    <3>9. /\ Rank(v) <= Rank(board[c])
          /\ v # storedCards[c] => ToldAfter(c, 0)' \/ Comes(calls)' \/ Rank(v) < Rank(board[c])
      <4>1. CASE board[c] = w
        <5>1. w # storedCards[c] => ToldAfter(c, 0)'
          BY <2>16, <3>2, <3>5
        <5>2. w = storedCards[c] /\ v # storedCards[c] => Rank(v) # Rank(w)
          BY <3>2, <3>3, <3>6, RankFacts
        <5>3. QED
          BY <3>7, <4>1, <5>1, <5>2
      <4>2. CASE board[c] # w
        <5>1. /\ board[c] = s /\ k.does \notin Reads
              /\ k.does = "createCardFromRun" \/ k.card # c
          BY <2>17, <3>2, <3>5, <3>8, <4>2
        <5>2. v # storedCards[c] => ToldAfter(c, 0) \/ Comes(few) \/ Rank(v) < Rank(s)
          BY <3>3, <3>5
        <5>3. v # storedCards[c] => ToldAfter(c, 0)' \/ Comes(calls)' \/ Rank(v) < Rank(s)
          BY <2>16, <2>18, <3>2, <5>1, <5>2
        <5>4. QED
          BY <3>7, <5>1, <5>3
      <4>3. QED
        BY <4>1, <4>2
    <3>10. QED
      BY <2>4, <3>1, <3>3, <3>8, <3>9 DEF Restores
  <2>22. MovesRestore(Range(left), board, calls)'
    BY <2>12, <2>21 DEF MovesRestore, Restores
  <2>23. BoardTyped'
    BY DEF BoardHeld
  <2>24. QED
    BY <2>1, <2>5, <2>8, <2>10, <2>11, <2>12, <2>13, <2>15, <2>20, <2>22, <2>23, SendFollows
<1>4. QED
  BY <1>1, <1>2, <1>3 DEF BoardHeld, BoardTyped

-----------------------------------------------------------------------------
LEMMA BoardInitFollows == BoardInit => Following
<1> SUFFICES ASSUME BoardInit PROVE Following
  OBVIOUS
<1>1. sent = <<>> /\ replies = <<>> /\ activeBoard = NoBoard
  BY DEF BoardInit
<1>2. DOMAIN sent = {} /\ DOMAIN replies = {} /\ Range(sent) = {}
  <2>1. DOMAIN <<>> = {}
    OBVIOUS
  <2>2. QED
    BY <1>1, <2>1 DEF Range
<1>3. QED
  BY <1>1, <1>2 DEF Following, MovesMeet, AnswersFollow, Shows, MovesRestore

LEMMA BoardNextFollows ==
  BoardHeld /\ Following /\ BoardHeld' /\ [BoardNext]_boardVars => Following'
<1> SUFFICES ASSUME BoardHeld, Following, BoardHeld', [BoardNext]_boardVars
             PROVE  Following'
  OBVIOUS
<1>1. CASE BoardSurface
  BY <1>1, SurfaceAsks, AskFollows DEF BoardHeld
<1>2. ASSUME UNCHANGED <<activeBoard, sent, replies, storedCards, boardExcused>>
      PROVE  Following'
  BY <1>2 DEF Following, MovesMeet, AnswersFollow, Shows, MovesRestore, Restores, Behind,
              ToldAfter, MovedAfter, Comes, Moves
<1>3. CASE SetEditor
  BY <1>2, <1>3 DEF SetEditor
<1>4. CASE UNCHANGED boardVars
  BY <1>2, <1>4 DEF boardVars
<1>5. ASSUME NEW n \in DOMAIN sent, Store(n) PROVE Following'
  BY <1>5, StoreFollows
<1>6. ASSUME NEW n \in DOMAIN sent, FailCall(n) PROVE Following'
  BY <1>6, FailFollows
<1>7. ASSUME NEW n \in DOMAIN replies, Answered(n) PROVE Following'
  BY <1>7, AnsweredFollows
<1>8. ASSUME NEW n \in DOMAIN replies, LoseReply(n) PROVE Following'
  BY <1>8, LoseFollows
<1>9. QED
  BY <1>1, <1>3, <1>4, <1>5, <1>6, <1>7, <1>8 DEF BoardNext, BoardSurface

LEMMA BoardInductive == BoardSpec => [](BoardHeld /\ Following)
<1>1. BoardHeld /\ Following /\ [BoardNext]_boardVars => (BoardHeld /\ Following)'
  BY BoardNextHeld, BoardNextFollows
<1>2. QED
  BY <1>1, BoardInitHeld, BoardInitFollows, PTL DEF BoardSpec

\* Nothing is left that could still set the board right.
LEMMA BoardRests ==
  ASSUME BoardHeld, Following
  PROVE  BoardSettles /\ BoardButtonsComeBack
<1> SUFFICES ASSUME BoardIdle
             PROVE  /\ activeBoard # NoBoard /\ ~boardExcused => activeBoard = storedCards
                    /\ ~isLoading /\ ~isSaving
  BY DEF BoardSettles, BoardButtonsComeBack
<1>1. DOMAIN replies = {} /\ Range(sent) = {} /\ Range(replies) = {}
  <2>1. DOMAIN <<>> = {}
    OBVIOUS
  <2>2. QED
    BY <2>1 DEF BoardIdle, Range
<1>2. ~isLoading /\ ~isSaving
  BY <1>1 DEF BoardHeld, BoardFlagsHeld, CallsUnderWay
<1>3. ASSUME activeBoard # NoBoard, ~boardExcused
      PROVE  activeBoard = storedCards
  <2>1. activeBoard \in Boards /\ storedCards \in Boards
    BY <1>3 DEF BoardHeld, BoardTyped
  <2>2. \A c \in Cards : activeBoard[c] = storedCards[c]
    BY <1>1, <1>3 DEF Following, Shows, ToldAfter, Comes, Moves
  <2>3. QED
    BY <2>1, <2>2 DEF Boards
<1>4. QED
  BY <1>2, <1>3

\* The board shows the cards of the adapter once nothing is under way: what a
\* move shows early is confirmed by its answer or taken back, whatever the
\* order in which requests are served, for any number of cards and requests.
THEOREM BoardShowsCards == BoardSpec => []BoardSettles
<1>1. BoardHeld /\ Following => BoardSettles
  BY BoardRests
<1>2. QED
  BY <1>1, BoardInductive, PTL
=============================================================================
