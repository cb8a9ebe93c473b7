----------------------------- MODULE ItemStore -----------------------------
(***************************************************************************)
(* One store of the frontend that lists items of the adapter, and what of  *)
(* one of them is shown, with the requests under way: any of the stores of *)
(* Surfaces, chosen at the start.  The stores share no item, so each is    *)
(* taken alone.  A step is what runs between two awaits; the adapter       *)
(* serves the requests in any order and their answers arrive in any order. *)
(*                                                                         *)
(* Simplifications: an item is a version that each change raises, kept for *)
(* the list only; the order of a list is left open where its first item    *)
(* is selected.  A handler that makes several requests at once makes one.  *)
(***************************************************************************)
EXTENDS Surfaces, Sequences

CONSTANTS Items,         \* items the adapter may have
          MaxVersion,    \* bound on the changes of an item
          MaxRequests    \* bound on the requests under way

ASSUME ItemsAssumption == Items \subseteq Nat \ {0}
ASSUME MaxVersionAssumption == MaxVersion \in Nat \ {0, 1}   \* a change can be told

NoItem == 0
Versions == 0..MaxVersion    \* 0: there is no such item

VARIABLES
  store,       \* the store
  list,        \* the versions it lists
  selected,    \* the item selected
  shown,       \* the item whose detail it has
  loaded,      \* history: a list was answered
  flags,       \* its flags
  asked,       \* requests on their way to the adapter
  answers,     \* answers on their way back, in the order they were served
  server,      \* what the adapter has
  excused      \* history: what was overtaken or failed since all was well

vars == <<store, list, selected, shown, loaded, flags, asked, answers, server, excused>>

\* A request carries the name of its handler.
Request(handler, item) == [handler |-> handler, item |-> item]

Init ==
  /\ store \in StoreNames
  /\ server \in [Items -> {0, 1}]
  /\ list = [i \in Items |-> 0] /\ loaded = FALSE
  /\ selected = NoItem /\ shown = NoItem
  /\ flags = {}
  /\ asked = <<>> /\ answers = <<>>
  /\ excused = {}

Without(seq, n) == SubSeq(seq, 1, n - 1) \o SubSeq(seq, n + 1, Len(seq))
Present(versions) == {i \in Items : versions[i] # 0}

Quiet == asked = <<>> /\ answers = <<>>

-----------------------------------------------------------------------------
(* What the parts of a handler do.  first: the first item of the list      *)

SelectedBy(effects, item, first) ==
  CASE "select" \in effects -> item
    [] "select first" \in effects -> first
    [] "keep or select first" \in effects -> IF selected = NoItem THEN first ELSE selected
    [] "deselect" \in effects -> NoItem
    [] "deselect it" \in effects -> IF selected = item THEN NoItem ELSE selected
    [] OTHER -> selected

ShownBy(effects, item, first) ==
  CASE "show" \in effects -> item
    [] "hide" \in effects -> NoItem
    [] "hide if empty" \in effects -> IF first = NoItem THEN NoItem ELSE shown
    [] "keep or show first" \in effects -> IF shown = NoItem THEN first ELSE shown
    [] OTHER -> shown

\* mutant: an answer about an item that is not listed is dropped
ListOfListed(effects, item, versions) ==
  CASE "list" \in effects -> versions
    [] effects \cap {"put", "put if listed"} # {} /\ list[item] # 0 ->
         [list EXCEPT ![item] = versions[item]]
    [] "drop" \in effects -> [list EXCEPT ![item] = 0]
    [] OTHER -> list

ListBy(effects, item, versions) ==
  CASE "list" \in effects -> versions
    [] \/ "put" \in effects
       \/ "put if listed" \in effects /\ list[item] # 0 ->
         [list EXCEPT ![item] = versions[item]]
    [] "drop" \in effects -> [list EXCEPT ![item] = 0]
    [] OTHER -> list

\* First items of a list, and the order is the adapter's.
Firsts(versions) == IF Present(versions) = {} THEN {NoItem} ELSE Present(versions)

\* The request of a handler called on an item, if there is one to fetch.
Calls(handlers, item) ==
  LET Wanted == {h \in handlers : Named[h].request # "item" \/ item # NoItem}
      Of(h)  == IF Named[h].request = "ask" THEN NoItem ELSE item
  IN  IF Wanted = {} THEN <<>>
      ELSE LET h == CHOOSE g \in Wanted : TRUE IN <<Request(h, Of(h))>>

\* An effect fetches the detail when another item is selected; with none
\* selected there is no detail.
Followed == IF selected' = selected THEN <<>> ELSE Calls(Follows(store), selected')

BeginOf(calls) == UNION {Named[calls[n].handler].begin : n \in DOMAIN calls}
BusyOf(calls) == UNION {Named[calls[n].handler].busy : n \in DOMAIN calls}

\* The excuses end when nothing is under way and all agrees again.
Agrees(versions, has, of, it) ==
  {e \in {"list", "shown"} :
     IF e = "list" THEN versions = has ELSE it \in {NoItem, of}}

-----------------------------------------------------------------------------
(* Steps *)

Targets(on) ==
  CASE on = "all"      -> {NoItem}
    [] on = "empty"    -> IF Present(list) = {} THEN {NoItem} ELSE {}
    [] on = "any"      -> Items
    [] on = "listed"   -> Present(list)
    [] on = "selected" -> {selected} \ {NoItem}
    [] on = "other"    -> Present(list) \ {selected}
    [] on = "shown"    -> {shown} \ {NoItem}
    [] on = "new"      -> {i \in Items : server[i] = 0}

Offered(button, item) ==
  /\ button.unless \cap flags = {}
  /\ item \in Targets(button.on)

\* A button is pressed, or an effect of a component runs.
Ask(button, item) ==
  /\ Offered(button, item)
  /\ LET calls  == Calls(button.handlers, item)
         begin  == button.first \cup BeginOf(calls)
     IN  /\ Len(asked) + Len(answers) + Len(calls) <= MaxRequests
         /\ selected' = SelectedBy(begin, item, NoItem)
         /\ shown' = IF Follows(store) # {} /\ selected' = NoItem THEN NoItem
                     ELSE ShownBy(begin, item, NoItem)
         /\ asked' = asked \o calls \o Followed
         /\ flags' = flags \cup BusyOf(calls) \cup BusyOf(Followed)
  /\ Len(asked') + Len(answers) <= MaxRequests
  /\ UNCHANGED <<store, list, loaded, answers, server, excused>>

\* What the adapter has once it served a request.
ServerAfter(request, item) ==
  CASE request = "add" -> [server EXCEPT ![item] = 1]
    [] request = "change" -> [server EXCEPT ![item] = @ + 1]
    [] request = "remove" -> [server EXCEPT ![item] = 0]
    [] request = "activate" ->
         [i \in Items |-> IF server[i] = 0 THEN 0 ELSE IF i = item THEN 2 ELSE 1]
    [] OTHER -> server

CanServe(request, item) ==
  CASE request = "add" -> server[item] = 0
    [] request = "change" -> server[item] \in 1..(MaxVersion - 1)
    [] request \in {"remove", "activate"} -> server[item] # 0
    [] OTHER -> TRUE

\* What an answer says: of all items for a list, of its own if it is put in
\* the list.
Said(effects, item, versions) ==
  [i \in Items |-> IF \/ "list" \in effects
                      \/ i = item /\ effects \cap {"put", "put if listed"} # {}
                   THEN versions[i] ELSE 0]

Serve(n) ==
  LET r == asked[n]
      h == Named[r.handler]
  IN
  /\ CanServe(h.request, r.item)
  /\ server' = ServerAfter(h.request, r.item)
  /\ asked' = Without(asked, n)
  /\ answers' = Append(answers,
       [handler |-> r.handler, item |-> r.item,
        versions |-> Said(h.answer, r.item, server')])
  /\ excused' = IF n # 1 /\ store \in Heedless THEN excused \cup {"shown"} ELSE excused
  /\ UNCHANGED <<store, list, selected, shown, loaded, flags>>

Settle(excuses) ==
  excused' = IF asked' = <<>> /\ answers' = <<>>
             THEN excuses \ Agrees(list', server', selected', shown')
             ELSE excuses

\* mutant: the flag stays when nothing follows
StillBusy(handler, calls) == IF handler.next = {} THEN flags ELSE (flags \ handler.busy) \cup BusyOf(calls)

BusyAfter(handler, calls) == (flags \ handler.busy) \cup BusyOf(calls)

\* The answer arrives, and the handler calls the next one with what is
\* selected by then.
Arrive(n, first) ==
  LET a == answers[n]
      h == Named[a.handler]
      next == Calls(h.next, IF "list" \in h.answer THEN selected' ELSE NoItem)
  IN
  /\ first \in Firsts(a.versions)
  /\ list' = ListBy(h.answer, a.item, a.versions)
  /\ loaded' = (loaded \/ h.request = "list")
  /\ selected' = SelectedBy(h.answer, a.item, first)
  /\ shown' = IF Follows(store) # {} /\ selected' = NoItem THEN NoItem
              ELSE ShownBy(h.answer, a.item, first)
  /\ asked' = asked \o next \o Followed
  /\ answers' = Without(answers, n)
  /\ flags' = BusyAfter(h, next \o Followed)
  /\ UNCHANGED <<store, server>>
  /\ Settle(excused \cup (IF n = 1 THEN {}
                          ELSE {"list"} \cup (IF store \in Heedless THEN {"shown"} ELSE {})))

Failed(handler, item) ==
  /\ selected' = selected
  /\ shown' = ShownBy(handler.fail, item, NoItem)
  /\ flags' = flags \ handler.busy

\* A request fails before it is served.
Fail(n) ==
  /\ Failed(Named[asked[n].handler], asked[n].item)
  /\ asked' = Without(asked, n)
  /\ UNCHANGED <<store, list, loaded, answers, server>>
  /\ Settle(excused \cup IF Named[asked[n].handler].request = "list"
                        THEN {"list", "shown"} ELSE {"shown"})

\* An answer is lost, or does not come in time.
Lose(n) ==
  /\ Failed(Named[answers[n].handler], answers[n].item)
  /\ answers' = Without(answers, n)
  /\ UNCHANGED <<store, list, loaded, asked, server>>
  /\ Settle(excused \cup {"list", "shown"})

Next ==
  \/ \E button \in Buttons[store], item \in Items \cup {NoItem} : Ask(button, item)
  \/ \E n \in DOMAIN asked : Serve(n) \/ Fail(n)
  \/ \E n \in DOMAIN answers, first \in Items \cup {NoItem} : Arrive(n, first)
  \/ \E n \in DOMAIN answers : Lose(n)

Spec == Init /\ [][Next]_vars

-----------------------------------------------------------------------------
(* Properties *)

TypeOK ==
  /\ store \in StoreNames
  /\ list \in [Items -> Versions] /\ server \in [Items -> Versions]
  /\ selected \in Items \cup {NoItem} /\ shown \in Items \cup {NoItem}
  /\ excused \subseteq {"list", "shown"}

\* A store that has loaded its list lists what the adapter has as soon as
\* nothing is under way, unless an answer was lost or overtaken by another or
\* the list could not be loaded.
SettledListIsServers ==
  loaded /\ Quiet /\ "list" \notin excused => list = server

\* The detail shown is that of the item selected as soon as nothing is under
\* way: no answer is shown beside the name of another item.  A failed request
\* excuses it; an answer overtaken by another does so only in the stores that
\* do not look at what is selected.
ShownIsSelected ==
  Quiet /\ selected # NoItem /\ "shown" \notin excused =>
    shown \in {NoItem, selected}

\* No button stays disabled for good: the flags go with the requests.
ButtonsComeBack == Quiet => flags = {}
=============================================================================
