------------------------------- MODULE Kanban -------------------------------
(***************************************************************************)
(* The Kanban board of the frontend: its store (kanbanStore.ts), the       *)
(* surface that drives it (KanbanBoard.tsx), and the cards of the adapter, *)
(* with the requests and the answers on their way.  A move is shown before *)
(* it is answered and taken back when it fails.  A step is what runs       *)
(* between two awaits.                                                     *)
(*                                                                         *)
(* Simplifications: there is the default board only, the one the adapter   *)
(* has; a card keeps its column and a number that each change of its text  *)
(* or links raises; positions, priorities and messages are left out.       *)
(***************************************************************************)
EXTENDS Naturals, Sequences, SequencesExt

CONSTANTS Cards, Columns,
          MaxEdits,     \* bound on the changes of a card
          MaxCalls      \* bound on the requests under way

ASSUME MaxEditsAssumption == MaxEdits \in Nat \ {0}   \* an archived card changed once
ASSUME ColumnsAssumption == Columns # {} /\ "archived" \notin Columns   \* NoColumn

VARIABLES
  activeBoard,     \* the cards shown, or NoBoard
  activeBoardId,   \* whether a board was ever answered
  isLoading, isSaving,
  editor,          \* the card the editor was opened with
  sent,            \* requests on their way to the adapter
  replies,         \* answers on their way back, in the order they were served
  storedCards,     \* the cards of the adapter
  boardExcused     \* history: an answer was overtaken or lost since all was well

boardVars == <<activeBoard, activeBoardId, isLoading, isSaving, editor, sent,
               replies, storedCards, boardExcused>>

NoColumn == "archived"
NoCard == [column |-> NoColumn, text |-> 0]      \* not created yet
Archived == [column |-> NoColumn, text |-> 1]
IsCard(value) == value.column # NoColumn
CardValues == [column : Columns \cup {NoColumn}, text : 0..MaxEdits]
NoBoard == <<>>   \* a board without cards has them all archived
Closed == [card |-> "none", column |-> NoColumn]
NewCard == [card |-> "new", column |-> NoColumn]

BoardIdle == sent = <<>> /\ replies = <<>>

BoardInit ==
  /\ activeBoard = NoBoard /\ activeBoardId = FALSE
  /\ isLoading = FALSE /\ isSaving = FALSE
  /\ editor = Closed
  /\ sent = <<>> /\ replies = <<>>
  /\ storedCards \in [Cards -> {NoCard, [column |-> CHOOSE c \in Columns : TRUE, text |-> 0]}]
  /\ boardExcused = FALSE

\* A request: what it does, to which card, the column it goes to, what the
\* editor does after it, and the board before it for a move.
Call(does, card, column, rest, prev) ==
  [does |-> does, card |-> card, column |-> column, rest |-> rest, prev |-> prev]

Reads == {"loadDefaultBoard", "loadBoard"}
Writes == {"createCard", "updateCard", "moveCard", "archiveCard", "linkCard"}

-----------------------------------------------------------------------------
(* The store *)

\* A card leaves every column and enters its own, if there is a board.
updateBoardCard(board, card, value) ==
  IF board = NoBoard THEN board ELSE [board EXCEPT ![card] = value]

\* Before the first answer the default board is asked for, then the board.
refreshBoard(card, column, rest) ==
  <<Call(IF activeBoardId THEN "loadBoard" ELSE "loadDefaultBoard",
         card, column, rest, NoBoard)>>

\* A card that is not on the board is moved without being shown to.
Optimistic(call, board) ==
  IF call.does = "moveCard" /\ board # NoBoard /\ IsCard(board[call.card])
  THEN updateBoardCard(board, call.card,
                       [column |-> call.column, text |-> board[call.card].text])
  ELSE board

\* mutant: the move stays shown
KeepMove(call, board) == board

\* A failed move puts back the board that was shown before it, without what
\* has changed on it since.
Rollback(call, board) == call.prev

\* Another answer changed the board while the move was under way.
MoveOverlapped(call, board) ==
  call.does = "moveCard" /\ board \notin {call.prev, Optimistic(call, call.prev)}

\* Two moves are under way: the second takes the first for settled.
MovesMeet ==
  LET asked    == {n \in DOMAIN sent : sent[n].does = "moveCard"}
      answered == {n \in DOMAIN replies : replies[n].call.does = "moveCard"}
  IN
  \/ asked # {} /\ answered # {}
  \/ \E m, n \in asked : m # n
  \/ \E m, n \in answered : m # n

\* What the editor does once one of its requests is over.
Continued(call, board) ==
  IF call.rest \in {<<>>, <<"close">>} THEN <<>>
  ELSE <<Call(Head(call.rest), call.card, call.column, Tail(call.rest),
              IF Head(call.rest) = "moveCard" THEN board ELSE NoBoard)>>

Closes(call) == call.rest = <<"close">>

\* The next request goes out after those left: the flags are set and a move
\* is shown at once.
Send(left, more, board, loading, saving) ==
  /\ sent' = left \o more
  /\ activeBoard' = IF more = <<>> THEN board ELSE Optimistic(more[1], board)
  /\ isLoading' = (loading \/ \E n \in DOMAIN more : more[n].does \in Reads)
  /\ isSaving' = (saving \/ \E n \in DOMAIN more : more[n].does \in Writes)

Settles(excused) ==
  boardExcused' = IF sent' = <<>> /\ replies' = <<>> /\ activeBoard' = storedCards'
                  THEN FALSE ELSE excused \/ MovesMeet'

-----------------------------------------------------------------------------
(* The surface *)

OnBoard == IF activeBoard = NoBoard THEN {} ELSE {c \in Cards : IsCard(activeBoard[c])}

AskBoard(more) ==
  /\ Len(sent) + Len(replies) < MaxCalls
  /\ Send(sent, more, activeBoard, isLoading, isSaving)
  /\ UNCHANGED <<activeBoardId, replies, storedCards>>
  /\ boardExcused' = (boardExcused \/ MovesMeet')

\* The surface is mounted without a board, or Retry.
loadDefaultBoard ==
  /\ activeBoard = NoBoard
  /\ AskBoard(<<Call("loadDefaultBoard", "none", NoColumn, <<>>, NoBoard)>>)
  /\ UNCHANGED editor

\* The button, or the event of a run that says the board was updated.
Refresh == AskBoard(refreshBoard("none", NoColumn, <<>>)) /\ UNCHANGED editor

SetEditor ==
  /\ \/ activeBoard # NoBoard /\ isSaving = FALSE /\ editor' = NewCard
     \/ \E c \in OnBoard : editor' = [card |-> c, column |-> activeBoard[c].column]
     \/ editor' = Closed
  /\ editor' # editor
  /\ UNCHANGED <<activeBoard, activeBoardId, isLoading, isSaving, sent, replies,
                 storedCards, boardExcused>>

\* What the form of the editor submits: the column, and the links of a session
\* and of a run that are new.
CardEditor ==
  [column : Columns, links : {<<>>, <<"linkCard">>, <<"linkCard", "linkCard">>}]

\* Created cards are new ones.
Fresh(c) == storedCards[c] = NoCard

\* The editor updates, moves and links, one after the other, or creates.
submitEditor(column, links) ==
  /\ editor # Closed /\ isSaving = FALSE
  /\ IF editor = NewCard
     THEN \E c \in Cards :
            Fresh(c) /\ AskBoard(<<Call("createCard", c, column, <<"close">>, NoBoard)>>)
     ELSE AskBoard(<<Call("updateCard", editor.card, column,
                       (IF column = editor.column THEN <<>> ELSE <<"moveCard">>)
                         \o links \o <<"close">>, NoBoard)>>)
  /\ UNCHANGED editor

moveToColumn(c, column) ==
  /\ isSaving = FALSE /\ c \in OnBoard /\ column # activeBoard[c].column
  /\ AskBoard(<<Call("moveCard", c, column, <<>>, activeBoard)>>)
  /\ UNCHANGED editor

archiveCard(c) ==
  /\ isSaving = FALSE /\ c \in OnBoard
  /\ AskBoard(<<Call("archiveCard", c, NoColumn, <<>>, NoBoard)>>)
  /\ UNCHANGED editor

\* The ledger creates the card of a run past the store, then refreshes it;
\* the sessions panel creates one with the store.
createCardFrom(c, column, does) ==
  /\ Fresh(c)
  /\ does = "createCard" => isSaving = FALSE
  /\ AskBoard(<<Call(does, c, column, <<>>, NoBoard)>>)
  /\ UNCHANGED editor

-----------------------------------------------------------------------------
(* The adapter and the answers *)

StoredAfter(call) ==
  CASE call.does \in {"createCard", "createCardFromRun"} ->
         [storedCards EXCEPT ![call.card] = [column |-> call.column, text |-> 0]]
    [] call.does \in {"updateCard", "linkCard"} ->
         [storedCards EXCEPT ![call.card].text = @ + 1]
    [] call.does = "moveCard" -> [storedCards EXCEPT ![call.card].column = call.column]
    [] call.does = "archiveCard" -> [storedCards EXCEPT ![call.card] = Archived]
    [] OTHER -> storedCards

CanStore(call) ==
  CASE call.does \in Reads -> TRUE
    [] call.does \in {"createCard", "createCardFromRun"} -> storedCards[call.card] = NoCard
    [] call.does \in {"updateCard", "linkCard"} ->
         IsCard(storedCards[call.card]) /\ storedCards[call.card].text < MaxEdits
    [] call.does = "archiveCard" -> storedCards[call.card] # NoCard   \* again, too
    [] OTHER -> IsCard(storedCards[call.card])

Store(n) ==
  /\ CanStore(sent[n])
  /\ storedCards' = StoredAfter(sent[n])
  /\ sent' = RemoveAt(sent, n)
  /\ replies' = Append(replies, [call |-> sent[n], cards |-> storedCards'])
  /\ UNCHANGED <<activeBoard, activeBoardId, isLoading, isSaving, editor, boardExcused>>

BoardAfter(call, cards) ==
  CASE call.does \in Reads -> cards
    [] call.does = "createCardFromRun" -> activeBoard
    [] OTHER -> updateBoardCard(activeBoard, call.card, cards[call.card])

\* Creating, moving and archiving refresh the board before the editor goes on.
Refreshes(call) ==
  call.does \in {"createCard", "createCardFromRun", "moveCard", "archiveCard"}

Answered(n) ==
  LET call  == replies[n].call
      board == BoardAfter(call, replies[n].cards)
  IN
  /\ replies' = RemoveAt(replies, n)
  /\ activeBoardId' = (activeBoardId \/ call.does \in Reads)
  /\ Send(sent, IF Refreshes(call) THEN refreshBoard(call.card, call.column, call.rest)
                ELSE Continued(call, board),
          board, isLoading /\ call.does \notin Reads, isSaving /\ call.does \notin Writes)
  /\ editor' = IF Closes(call) /\ ~Refreshes(call) THEN Closed ELSE editor
  /\ UNCHANGED storedCards
  /\ Settles(boardExcused \/ n # 1)

\* The default board that does not load takes the board away; a card that is
\* not created or not updated leaves the editor open.
Refused(left, call) ==
  LET board == CASE call.does = "loadDefaultBoard" -> NoBoard
                 [] call.does = "moveCard" -> Rollback(call, activeBoard)
                 [] OTHER -> activeBoard
      stops == call.does \in {"createCard", "updateCard", "createCardFromRun"}
  IN
  /\ Send(left, IF stops THEN <<>> ELSE Continued(call, board),
          board, isLoading /\ call.does \notin Reads, isSaving /\ call.does \notin Writes)
  /\ editor' = IF Closes(call) /\ ~stops THEN Closed ELSE editor
  /\ UNCHANGED <<activeBoardId, storedCards>>

\* A request fails before it is served.  Only a refresh that fails, and a
\* move that does so when the board has changed since, excuse the board.
FailCall(n) ==
  /\ replies' = replies
  /\ Refused(RemoveAt(sent, n), sent[n])
  /\ Settles(\/ boardExcused \/ sent[n].does \in Reads
             \/ MoveOverlapped(sent[n], activeBoard))

\* An answer is lost.
LoseReply(n) ==
  /\ replies' = RemoveAt(replies, n)
  /\ Refused(sent, replies[n].call)
  /\ Settles(TRUE)

BoardNext ==
  \/ loadDefaultBoard \/ Refresh \/ SetEditor
  \/ \E form \in CardEditor : submitEditor(form.column, form.links)
  \/ \E c \in Cards, column \in Columns :
       \/ moveToColumn(c, column)
       \/ \E does \in {"createCard", "createCardFromRun"} : createCardFrom(c, column, does)
  \/ \E c \in Cards : archiveCard(c)
  \/ \E n \in DOMAIN sent : Store(n) \/ FailCall(n)
  \/ \E n \in DOMAIN replies : Answered(n) \/ LoseReply(n)

BoardSpec == BoardInit /\ [][BoardNext]_boardVars

-----------------------------------------------------------------------------
(* Properties *)

BoardTypeOK ==
  /\ activeBoard \in {NoBoard} \cup [Cards -> CardValues]
  /\ storedCards \in [Cards -> CardValues]
  /\ {activeBoardId, isLoading, isSaving, boardExcused} \subseteq BOOLEAN

\* The board shows the cards of the adapter, each in its column, as soon as
\* nothing is under way: what a move shows early is confirmed or taken back.
\* A lost or overtaken answer, a refresh that fails, and a failed move that
\* takes back what came in since excuse it until it is right again.
BoardSettles ==
  BoardIdle /\ activeBoard # NoBoard /\ ~boardExcused => activeBoard = storedCards

\* Nothing stays disabled once nothing is under way.
BoardButtonsComeBack == BoardIdle => ~isLoading /\ ~isSaving
=============================================================================
