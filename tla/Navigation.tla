----------------------------- MODULE Navigation -----------------------------
(***************************************************************************)
(* Which surface the window shows: the mode and the tab of the layout      *)
(* store (layoutStore.ts) with the preferences it saves, the history of    *)
(* the window that AppFrame.tsx keeps in step with them (studioRouter.ts), *)
(* and the surfaces CenterArea.tsx mounts.                                 *)
(*                                                                         *)
(* Simplifications: a URL is the mode and the surface of its path; the     *)
(* panels, their sizes and the sidebar are left out.  The effects of React *)
(* run in the step that changes the mode or the tab.                       *)
(***************************************************************************)
EXTENDS Naturals, Sequences

CONSTANTS Tabs,          \* tabs the user goes to
          DeepLinks,     \* links that open the application
          MaxHistory     \* bound on the entries of the history

MODE_SURFACES ==
  [create   |-> {"mission", "design", "artifacts", "board", "chat"},
   code     |-> {"runs", "processes", "checkpoints", "worktrees", "delegations"},
   automate |-> {"extensions", "delegations", "cron", "context"},
   manage   |-> {"sessions", "approvals", "profiles", "settings"}]

MODE_HOME_SURFACE ==
  [create |-> "mission", code |-> "runs", automate |-> "extensions", manage |-> "sessions"]

VALID_MODES == DOMAIN MODE_SURFACES
CENTER_TABS == UNION {MODE_SURFACES[mode] : mode \in VALID_MODES}
Route(mode, tab) == [mode |-> mode, tab |-> tab]
Routes == [mode : VALID_MODES, tab : CENTER_TABS]

ASSUME TabsAssumption == Tabs \subseteq CENTER_TABS
ASSUME DeepLinksAssumption == DeepLinks \subseteq Routes

VARIABLES
  route,        \* the active mode and tab
  prefs,        \* those saved, if any
  entries,      \* the history of the window
  position,     \* the entry it is at
  timers,       \* surfaces that going back or forward has yet to show
  mismatched    \* history: a link, or what was saved of it, named a surface of another mode

navigationVars == <<route, prefs, entries, position, timers, mismatched>>

NoPrefs == Route("none", "none")

\* mutant: the tab changes, the mode stays
TabOnly(tab) == Route(route.mode, tab)

\* The first mode that has the tab: "delegations" is found in code.
findModeForTab(tab) ==
  CASE tab \in MODE_SURFACES.create   -> "create"
    [] tab \in MODE_SURFACES.code     -> "code"
    [] tab \in MODE_SURFACES.automate -> "automate"
    [] OTHER                          -> "manage"

setActiveTab(tab) == Route(findModeForTab(tab), tab)
setActiveMode(mode) == Route(mode, MODE_HOME_SURFACE[mode])

\* On a start the entry is replaced and another is pushed.
Starts(at) == route = at /\ entries = <<at, at>> /\ position = 2 /\ timers = <<>>

NavigationInit ==
  /\ prefs = NoPrefs /\ mismatched = FALSE
  /\ Starts(Route("create", "mission"))

\* mutant: the entry follows the mode, not the tab
EntryOfMode(to, list, at) ==
  IF to.mode = route.mode THEN entries' = list /\ position' = at
  ELSE entries' = SubSeq(list, 1, at - 1) \o <<to, to>> /\ position' = at + 1

\* When the mode or the tab has changed, one effect replaces the entry and
\* another pushes the same one; what lay ahead is gone.
SyncEntries(to, list, at) ==
  IF to = route THEN entries' = list /\ position' = at
  ELSE entries' = SubSeq(list, 1, at - 1) \o <<to, to>> /\ position' = at + 1

Saves(to) == prefs' = to

GoTo(to) ==
  /\ Len(entries) < MaxHistory
  /\ route' = to
  /\ Saves(to)
  /\ SyncEntries(to, entries, position)

-----------------------------------------------------------------------------
\* A tab or a command, or an item of a rail, which sets its mode first.
OpenTab(tab) == GoTo(setActiveTab(tab)) /\ mismatched' = FALSE /\ UNCHANGED timers

\* The mode switcher or a key.
OpenMode(mode) == GoTo(setActiveMode(mode)) /\ mismatched' = FALSE /\ UNCHANGED timers

\* A link opens what it names.
navigateTo(link) ==
  /\ GoTo(link)
  /\ mismatched' = (link.tab \notin MODE_SURFACES[link.mode])
  /\ UNCHANGED timers

\* Back and forward set the mode of the entry, and its surface by a timer.
handlePopState(to) ==
  /\ to \in DOMAIN entries /\ to # position
  /\ Len(timers) < 2
  /\ LET entry == entries[to] IN
     /\ route' = setActiveMode(entry.mode)
     /\ Saves(route')
     /\ SyncEntries(route', entries, to)
     /\ timers' = Append(timers, entry.tab)
  /\ mismatched' = FALSE

TimerFires ==
  /\ timers # <<>>
  /\ GoTo(setActiveTab(Head(timers)))
  /\ timers' = Tail(timers)
  /\ mismatched' = FALSE

\* The window is closed and opened again: it starts with what was saved.
Restart ==
  /\ LET to == IF prefs = NoPrefs THEN Route("create", "mission") ELSE prefs
     IN  route' = to /\ entries' = <<to, to>>
  /\ position' = 2 /\ timers' = <<>>
  /\ UNCHANGED <<prefs, mismatched>>

NavigationNext ==
  \/ \E tab \in Tabs : OpenTab(tab)
  \/ \E mode \in VALID_MODES : OpenMode(mode)
  \/ \E link \in DeepLinks : navigateTo(link)
  \/ handlePopState(position - 1) \/ handlePopState(position + 1)
  \/ TimerFires \/ Restart

NavigationSpec == NavigationInit /\ [][NavigationNext]_navigationVars

-----------------------------------------------------------------------------
(* Properties *)

NavigationTypeOK ==
  /\ route \in Routes /\ prefs \in Routes \cup {NoPrefs}
  /\ position \in DOMAIN entries /\ mismatched \in BOOLEAN

\* CenterArea mounts the surfaces of the mode, and mission control.
surfacesToMount == {"mission"} \cup MODE_SURFACES[route.mode]

\* The window is never blank: the active tab is one of those mounted, in
\* whatever order tabs, modes, going back, timers and restarts come.  Only a
\* link that names a surface of another mode leaves it blank, and a restart
\* after one.
TabIsMounted == ~mismatched => route.tab \in surfacesToMount

\* The path of the window is that of the tab it shows once the timers of
\* going back and forward have fired: a reload, a link copied from it and the
\* next step back start from there.
UrlShowsTab == timers = <<>> => entries[position] = route
=============================================================================
