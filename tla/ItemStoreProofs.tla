-------------------------- MODULE ItemStoreProofs ---------------------------
(***************************************************************************)
(* The stores of items, proved for any number of items, requests and       *)
(* versions, one store at a time: what their handlers ask and do, the      *)
(* flags they raise, the list against the server's items, and the detail   *)
(* against what is selected.  Artifacts and delegations ask for what is    *)
(* selected and select what an answer shows, cron shows a copy of the row  *)
(* selected, and the others show the last detail they asked for.           *)
(***************************************************************************)
EXTENDS ItemStore, SequenceFacts

-----------------------------------------------------------------------------
(* The handlers of each store *)

HandlersIn ==
  [artifacts |-> {selectArtifact, loadArtifacts, createArtifact, updateArtifact,
                   loadRevisions, revertArtifact, createVariantGroup, addVariant,
                   applyVariant, runBrowserEvidence, importDesign},
   checkpoints |-> {loadCheckpoints, loadDiff},
   context |-> {loadCurrentContext, loadWorkspaceContext, loadRunContext, loadSessionContext},
   cron |-> {loadJobs, loadJobsAfterAction, handleCreate, handleToggleEnabled, handleDelete,
              handleDeleteSelected},
   delegations |-> {loadDelegations, loadDelegationDetail},
   inventory |-> {loadLocalHermesStatus, loadInventory, checkHermesRelease, testMcpServer,
                   configureToolset, checkSkills, updateSkills, installSkill,
                   pruneCheckpointStore},
   logs |-> {loadRecent},
   models |-> {loadConfig, applySelection},
   packs |-> {loadPacks, enablePack, disablePack, installPack},
   processes |-> {loadProcesses, startProcess, stopProcess, loadLogs, removeProcess},
   profiles |-> {loadProfiles, loadProfilesActivating, activateProfile},
   sessions |-> {loadFromAdapter, showSession},
   worktrees |-> {loadWorktrees, createWorktree, removeWorktree, startRun}]

Names == DOMAIN Named

\* Each store has handlers, and they are named.
LEMMA HandlersNamed ==
  ASSUME NEW s \in StoreNames, NEW h \in HandlersIn[s]
  PROVE  NameOf(h) \in Names /\ Named[NameOf(h)] = h
<1>1. \E n \in Names : Named[n] = h
  <2>1. CASE s = "artifacts"
    BY <2>1 DEF HandlersIn, Named, Names
  <2>2. CASE s = "checkpoints"
    BY <2>2 DEF HandlersIn, Named, Names
  <2>3. CASE s = "context"
    BY <2>3 DEF HandlersIn, Named, Names
  <2>4. CASE s = "cron"
    BY <2>4 DEF HandlersIn, Named, Names
  <2>5. CASE s = "delegations"
    BY <2>5 DEF HandlersIn, Named, Names
  <2>6. CASE s = "inventory"
    BY <2>6 DEF HandlersIn, Named, Names
  <2>7. CASE s = "logs"
    BY <2>7 DEF HandlersIn, Named, Names
  <2>8. CASE s = "models"
    BY <2>8 DEF HandlersIn, Named, Names
  <2>9. CASE s = "packs"
    BY <2>9 DEF HandlersIn, Named, Names
  <2>10. CASE s = "processes"
    BY <2>10 DEF HandlersIn, Named, Names
  <2>11. CASE s = "profiles"
    BY <2>11 DEF HandlersIn, Named, Names
  <2>12. CASE s = "sessions"
    BY <2>12 DEF HandlersIn, Named, Names
  <2>13. CASE s = "worktrees"
    BY <2>13 DEF HandlersIn, Named, Names
  <2>14. QED
    BY <2>1, <2>2, <2>3, <2>4, <2>5, <2>6, <2>7, <2>8, <2>9, <2>10, <2>11, <2>12, <2>13 DEF StoreNames, Buttons
<1>2. QED
  BY <1>1 DEF NameOf, Names

\* The handlers that other handlers of the store call once they are answered.
NextOf(s) ==
  CASE s = "artifacts" -> {"selectArtifact", "loadArtifacts"}
    [] s = "cron" -> {"loadJobs", "loadJobsAfterAction"}
    [] s = "delegations" -> {"loadDelegationDetail"}
    [] s = "inventory" -> {"loadInventory", "loadLocalHermesStatus"}
    [] s = "profiles" -> {"loadProfilesActivating"}
    [] s = "worktrees" -> {"loadWorktrees"}
    [] OTHER -> {}

LEMMA NextNamed ==
  ASSUME NEW s \in StoreNames, NEW g \in NextOf(s) \cup Follows(s)
  PROVE  g \in Names /\ Named[g] \in HandlersIn[s]
BY DEF NextOf, Follows, HandlersIn, Names, Named, StoreNames, Buttons

\* Stores that load their list again after some of their changes.
ReloadStores == {"cron", "profiles", "worktrees"}
Reloads(s, h) == s \in ReloadStores /\ h.next # {}

\* A change of what is listed is told by the answer or by the list that is
\* loaded next.
FitsList(s, h) ==
  /\ h.request = "list" => "list" \in h.answer
  /\ h.request \in {"add", "change", "remove", "activate"} =>
       \/ Reloads(s, h) \/ "list" \in h.answer
       \/ h.request \in {"add", "change"} /\ "put" \in h.answer
       \/ h.request = "change" /\ "put if listed" \in h.answer
       \/ h.request = "remove" /\ "drop" \in h.answer
  /\ "drop" \in h.answer =>
       h.request = "remove" /\ h.answer \cap {"list", "put", "put if listed"} = {}
  /\ "list" \in h.answer => h.answer \cap {"put", "put if listed"} = {}
  /\ "put if listed" \in h.answer => h.request = "change" /\ s \notin ReloadStores

Selecting == {"select", "select first", "keep or select first", "deselect", "deselect it"}
Showing == {"show", "keep or show first"}

\* How the handlers of a store keep the detail with the selection.
FitsShown(s, h) ==
  CASE s \in {"artifacts", "delegations"} ->
         /\ h.begin \subseteq {"select"} /\ (h.begin # {} => "show" \in h.answer)
         /\ "keep or show first" \notin h.answer
         /\ "show" \in h.answer =>
              /\ h.request # "ask" /\ h.answer \cap Selecting = {"select"}
              /\ h.answer \cap {"hide", "hide if empty"} = {}
         /\ "show" \notin h.answer /\ h.answer \cap Selecting # {} =>
              /\ h.answer \cap {"select", "deselect", "deselect it"} = {} /\ "list" \in h.answer
              /\ h.next = IF s = "artifacts" THEN {"selectArtifact"} ELSE {"loadDelegationDetail"}
    [] s = "cron" ->
         /\ h.begin = {} /\ h.fail = {}
         /\ \/ h.answer \cap (Selecting \cup Showing \cup {"hide", "hide if empty"}) = {}
            \/ h.answer = {"list", "keep or select first", "keep or show first"}
            \/ h.answer = {"deselect", "hide"}
    [] s \in Heedless ->
         /\ h.next = {} /\ h.begin \subseteq {"select"}
         /\ "show" \in h.answer => h.answer = {"show"} /\ h.request = "item"
         /\ h.answer \cap (Selecting \cup {"keep or show first"}) \subseteq {"select first"}
         /\ "select first" \in h.answer => s = "sessions"
         /\ "select" \in h.begin => "show" \in h.answer
    [] OTHER -> (h.begin \cup h.answer \cup h.fail) \cap Showing = {}

Fits(s, h) == h.next \subseteq NextOf(s) /\ FitsList(s, h) /\ FitsShown(s, h)

LEMMA HandlersFit ==
  ASSUME NEW s \in StoreNames, NEW h \in HandlersIn[s]
  PROVE  Fits(s, h)
<1>1. CASE s = "artifacts"
  <2>1. Fits("artifacts", selectArtifact) /\ Fits("artifacts", loadArtifacts) /\
       Fits("artifacts", createArtifact) /\ Fits("artifacts", updateArtifact) /\
       Fits("artifacts", loadRevisions) /\ Fits("artifacts", revertArtifact) /\
       Fits("artifacts", createVariantGroup) /\ Fits("artifacts", addVariant) /\
       Fits("artifacts", applyVariant) /\ Fits("artifacts", runBrowserEvidence) /\
       Fits("artifacts", importDesign)
    BY DEF Fits, NextOf, ReloadStores, Reloads, FitsList, FitsShown, Heedless, Selecting, Showing, Handler, ArtifactsApi, Replaced, selectArtifact, loadArtifacts,
           createArtifact, updateArtifact, loadRevisions, revertArtifact, createVariantGroup,
           addVariant, applyVariant, runBrowserEvidence, importDesign
  <2>2. QED
    BY <1>1, <2>1 DEF HandlersIn
<1>2. CASE s = "checkpoints"
  <2>1. Fits("checkpoints", loadCheckpoints) /\ Fits("checkpoints", loadDiff)
    BY DEF Fits, NextOf, ReloadStores, Reloads, FitsList, FitsShown, Heedless, Selecting, Showing, Handler, CheckpointsApi, loadCheckpoints, loadDiff
  <2>2. QED
    BY <1>2, <2>1 DEF HandlersIn
<1>3. CASE s = "context"
  <2>1. Fits("context", loadCurrentContext) /\ Fits("context", loadWorkspaceContext) /\
       Fits("context", loadRunContext) /\ Fits("context", loadSessionContext)
    BY DEF Fits, NextOf, ReloadStores, Reloads, FitsList, FitsShown, Heedless, Selecting, Showing, Handler, ContextApi, loadCurrentContext, loadWorkspaceContext,
           loadRunContext, loadSessionContext
  <2>2. QED
    BY <1>3, <2>1 DEF HandlersIn
<1>4. CASE s = "cron"
  <2>1. Fits("cron", loadJobs) /\ Fits("cron", loadJobsAfterAction) /\
       Fits("cron", handleCreate) /\ Fits("cron", handleToggleEnabled) /\
       Fits("cron", handleDelete) /\ Fits("cron", handleDeleteSelected)
    BY DEF Fits, NextOf, ReloadStores, Reloads, FitsList, FitsShown, Heedless, Selecting, Showing, Handler, CronApi, loadJobs, loadJobsAfterAction, handleCreate,
           handleToggleEnabled, handleDelete, handleDeleteSelected
  <2>2. QED
    BY <1>4, <2>1 DEF HandlersIn
<1>5. CASE s = "delegations"
  <2>1. Fits("delegations", loadDelegations) /\ Fits("delegations", loadDelegationDetail)
    BY DEF Fits, NextOf, ReloadStores, Reloads, FitsList, FitsShown, Heedless, Selecting, Showing, Handler, DelegationsApi, loadDelegations, loadDelegationDetail
  <2>2. QED
    BY <1>5, <2>1 DEF HandlersIn
<1>6. CASE s = "inventory"
  <2>1. Fits("inventory", loadLocalHermesStatus) /\ Fits("inventory", loadInventory) /\
       Fits("inventory", checkHermesRelease) /\ Fits("inventory", testMcpServer) /\
       Fits("inventory", configureToolset) /\ Fits("inventory", checkSkills) /\
       Fits("inventory", updateSkills) /\ Fits("inventory", installSkill) /\
       Fits("inventory", pruneCheckpointStore)
    BY DEF Fits, NextOf, ReloadStores, Reloads, FitsList, FitsShown, Heedless, Selecting, Showing, Handler, InventoryApi, loadLocalHermesStatus, loadInventory,
           checkHermesRelease, testMcpServer, configureToolset, checkSkills, updateSkills,
           installSkill, pruneCheckpointStore
  <2>2. QED
    BY <1>6, <2>1 DEF HandlersIn
<1>7. CASE s = "logs"
  <2>1. Fits("logs", loadRecent)
    BY DEF Fits, NextOf, ReloadStores, Reloads, FitsList, FitsShown, Heedless, Selecting, Showing, Handler, LogsApi, loadRecent
  <2>2. QED
    BY <1>7, <2>1 DEF HandlersIn
<1>8. CASE s = "models"
  <2>1. Fits("models", loadConfig) /\ Fits("models", applySelection)
    BY DEF Fits, NextOf, ReloadStores, Reloads, FitsList, FitsShown, Heedless, Selecting, Showing, Handler, ModelsApi, loadConfig, applySelection
  <2>2. QED
    BY <1>8, <2>1 DEF HandlersIn
<1>9. CASE s = "packs"
  <2>1. Fits("packs", loadPacks) /\ Fits("packs", enablePack) /\ Fits("packs", disablePack) /\
       Fits("packs", installPack)
    BY DEF Fits, NextOf, ReloadStores, Reloads, FitsList, FitsShown, Heedless, Selecting, Showing, Handler, ToolPacksApi, loadPacks, enablePack, disablePack, installPack
  <2>2. QED
    BY <1>9, <2>1 DEF HandlersIn
<1>10. CASE s = "processes"
  <2>1. Fits("processes", loadProcesses) /\ Fits("processes", startProcess) /\
       Fits("processes", stopProcess) /\ Fits("processes", loadLogs) /\
       Fits("processes", removeProcess)
    BY DEF Fits, NextOf, ReloadStores, Reloads, FitsList, FitsShown, Heedless, Selecting, Showing, Handler, ProcessesApi, loadProcesses, startProcess, stopProcess, loadLogs,
           removeProcess
  <2>2. QED
    BY <1>10, <2>1 DEF HandlersIn
<1>11. CASE s = "profiles"
  <2>1. Fits("profiles", loadProfiles) /\ Fits("profiles", loadProfilesActivating) /\
       Fits("profiles", activateProfile)
    BY DEF Fits, NextOf, ReloadStores, Reloads, FitsList, FitsShown, Heedless, Selecting, Showing, Handler, ProfilesApi, loadProfiles, loadProfilesActivating, activateProfile
  <2>2. QED
    BY <1>11, <2>1 DEF HandlersIn
<1>12. CASE s = "sessions"
  <2>1. Fits("sessions", loadFromAdapter) /\ Fits("sessions", showSession)
    BY DEF Fits, NextOf, ReloadStores, Reloads, FitsList, FitsShown, Heedless, Selecting, Showing, Handler, SessionsApi, loadFromAdapter, showSession
  <2>2. QED
    BY <1>12, <2>1 DEF HandlersIn
<1>13. CASE s = "worktrees"
  <2>1. Fits("worktrees", loadWorktrees) /\ Fits("worktrees", createWorktree) /\
       Fits("worktrees", removeWorktree) /\ Fits("worktrees", startRun)
    BY DEF Fits, NextOf, ReloadStores, Reloads, FitsList, FitsShown, Heedless, Selecting, Showing, Handler, WorktreesApi, loadWorktrees, createWorktree, removeWorktree,
           startRun
  <2>2. QED
    BY <1>13, <2>1 DEF HandlersIn
<1>14. QED
  BY <1>1, <1>2, <1>3, <1>4, <1>5, <1>6, <1>7, <1>8, <1>9, <1>10, <1>11, <1>12, <1>13 DEF
     StoreNames, Buttons

\* The buttons of a store call its handlers, one at a time.
LEMMA ButtonsCall ==
  ASSUME NEW s \in StoreNames, NEW b \in Buttons[s]
  PROVE  b.handlers = {} \/ \E h \in HandlersIn[s] : b.handlers = {NameOf(h)}
<1>1. CASE s = "artifacts"
  BY <1>1 DEF HandlersIn, Buttons, Shown, Press, Button, ArtifactList, ArtifactPrompt,
         ArtifactEditor, ArtifactVariants, ArtifactHistory, DesignCanvas, SessionsPanel,
         KanbanBoard, RunLedgerActions
<1>2. CASE s = "checkpoints"
  BY <1>2 DEF HandlersIn, Buttons, Shown, Press, Button, CheckpointTimeline
<1>3. CASE s = "context"
  BY <1>3 DEF HandlersIn, Buttons, Shown, Press, Button, ContextInspector, SessionActions,
         SessionsPanel, KanbanBoard, RunLedgerActions, ApprovalActions
<1>4. CASE s = "cron"
  BY <1>4 DEF HandlersIn, Buttons, Shown, Press, Button, CronPanel, CronSurface
<1>5. CASE s = "delegations"
  BY <1>5 DEF HandlersIn, Buttons, Shown, Press, Button, DelegationPanel, DelegationsSurface,
         MissionControl
<1>6. CASE s = "inventory"
  BY <1>6 DEF HandlersIn, Buttons, Shown, Press, Button, ExtensionsPanel, SkillsCatalog,
         McpCatalog, RuntimeStatus, CheckpointPruning, MissionControl
<1>7. CASE s = "logs"
  BY <1>7 DEF HandlersIn, Buttons, Shown, Press, Button, LogsContent, RunLedgerActions
<1>8. CASE s = "models"
  BY <1>8 DEF HandlersIn, Buttons, Shown, Press, Button, ModelSection, MissionControl
<1>9. CASE s = "packs"
  BY <1>9 DEF HandlersIn, Buttons, Shown, Press, Button, PackCatalog
<1>10. CASE s = "processes"
  BY <1>10 DEF HandlersIn, Buttons, Shown, Press, Button, ProcessCockpit, ProcessCard,
         MissionControl
<1>11. CASE s = "profiles"
  BY <1>11 DEF HandlersIn, Buttons, Shown, Press, Button, ProfilesSurface, ProfilesList
<1>12. CASE s = "sessions"
  BY <1>12 DEF HandlersIn, Buttons, Shown, Press, Button, SessionsSurface, SessionActions,
         SessionsPanel, RunLedgerActions, ApprovalActions
<1>13. CASE s = "worktrees"
  BY <1>13 DEF HandlersIn, Buttons, Shown, Press, Button, WorktreeLauncher
<1>14. QED
  BY <1>1, <1>2, <1>3, <1>4, <1>5, <1>6, <1>7, <1>8, <1>9, <1>10, <1>11, <1>12, <1>13 DEF
     StoreNames, Buttons

\* What a button changes at once in the stores that look at what is selected.
FitsFirst(s, first) ==
  \/ first = {}
  \/ s = "delegations" /\ first = {"select", "hide"}
  \/ s = "cron" /\ first = {"select", "show"}
  \/ s \in {"models", "processes"} /\ first = {"select"}

LEMMA ButtonsFirst ==
  ASSUME NEW s \in StoreNames \ Heedless, NEW b \in Buttons[s]
  PROVE  FitsFirst(s, b.first)
<1>1. CASE s = "artifacts"
  BY <1>1 DEF FitsFirst, Buttons, Shown, Press, Button, ArtifactList, ArtifactPrompt,
         ArtifactEditor, ArtifactVariants, ArtifactHistory, DesignCanvas, SessionsPanel,
         KanbanBoard, RunLedgerActions
<1>2. CASE s = "cron"
  BY <1>2 DEF FitsFirst, Buttons, Shown, Press, Button, CronPanel, CronSurface,
         selectJob
<1>3. CASE s = "delegations"
  BY <1>3 DEF FitsFirst, Buttons, Shown, Press, Button, DelegationPanel,
         DelegationsSurface, MissionControl, selectDelegation
<1>4. CASE s = "inventory"
  BY <1>4 DEF FitsFirst, Buttons, Shown, Press, Button, ExtensionsPanel,
         SkillsCatalog, McpCatalog, RuntimeStatus, CheckpointPruning, MissionControl
<1>5. CASE s = "models"
  BY <1>5 DEF FitsFirst, Buttons, Shown, Press, Button, ModelSection, MissionControl,
         selectModel
<1>6. CASE s = "packs"
  BY <1>6 DEF FitsFirst, Buttons, Shown, Press, Button, PackCatalog
<1>7. CASE s = "processes"
  BY <1>7 DEF FitsFirst, Buttons, Shown, Press, Button, ProcessCockpit, ProcessCard,
         MissionControl, selectProcess
<1>8. CASE s = "profiles"
  BY <1>8 DEF FitsFirst, Buttons, Shown, Press, Button, ProfilesSurface, ProfilesList
<1>9. CASE s = "worktrees"
  BY <1>9 DEF FitsFirst, Buttons, Shown, Press, Button, WorktreeLauncher
<1>10. QED
  BY <1>1, <1>2, <1>3, <1>4, <1>5, <1>6, <1>7, <1>8, <1>9 DEF StoreNames, Buttons, Heedless

\* The buttons of the others, one by one.
LEMMA HeedlessButtons ==
  ASSUME NEW s \in Heedless, NEW b \in Buttons[s]
  PROVE  CASE s = "checkpoints" ->
                \/ b.first = {} /\ b.handlers = {NameOf(loadCheckpoints)}
                \/ b.first = {"select", "hide"} /\ b.handlers = {NameOf(loadDiff)}
                \/ b.first = {} /\ b.on = "selected" /\ b.handlers = {NameOf(loadDiff)}
                \/ b.first = {"deselect", "hide"} /\ b.handlers = {}
           [] s = "context" ->
                b.first = {} /\ \E h \in HandlersIn["context"] : b.handlers = {NameOf(h)}
           [] s = "logs" ->
                /\ b.first = {"select", "hide"} \/ (b.first = {} /\ b.on = "selected")
                /\ b.handlers = {NameOf(loadRecent)}
           [] s = "sessions" ->
                \/ b.first = {} /\ b.handlers = {NameOf(loadFromAdapter)}
                \/ b.first = {"select"} /\ b.handlers = {}
<1>1. CASE s = "checkpoints"
  BY <1>1 DEF HandlersIn, Buttons, Shown, Press, Button, CheckpointTimeline, selectCheckpoint,
         clearDiff
<1>2. CASE s = "context"
  BY <1>2 DEF HandlersIn, Buttons, Shown, Press, Button, ContextInspector, SessionActions,
         SessionsPanel, KanbanBoard, RunLedgerActions, ApprovalActions
<1>3. CASE s = "logs"
  BY <1>3 DEF HandlersIn, Buttons, Shown, Press, Button, LogsContent, RunLedgerActions,
         setSource
<1>4. CASE s = "sessions"
  BY <1>4 DEF HandlersIn, Buttons, Shown, Press, Button, SessionsSurface, SessionActions,
         SessionsPanel, RunLedgerActions, ApprovalActions, setActiveSession
<1>5. QED
  BY <1>1, <1>2, <1>3, <1>4 DEF Heedless

-----------------------------------------------------------------------------
(* What is under way, and the flags *)

ItemCallKinds == [handler : Names, item : Items \cup {NoItem}]
AnswerKinds ==
  [handler : Names, item : Items \cup {NoItem}, versions : [Items -> Versions]]

UnderWay == Range(asked) \cup Range(answers)

StoreTyped ==
  /\ TypeOK
  /\ asked \in Seq(ItemCallKinds) /\ answers \in Seq(AnswerKinds)
  /\ \A c \in UnderWay : Named[c.handler] \in HandlersIn[store]

\* A flag is up only while a request that lowers it is under way.
FlagsHeld == \A f \in flags : \E c \in UnderWay : f \in Named[c.handler].busy

\* A handler is called, unless it fetches an item and there is none.
LEMMA CallMade ==
  ASSUME NEW handlers \in SUBSET Names, NEW item \in Items \cup {NoItem}
  PROVE  \/ /\ Calls(handlers, item) = <<>>
            /\ \A h \in handlers : Named[h].request = "item" /\ item = NoItem
         \/ \E c \in ItemCallKinds :
              /\ Calls(handlers, item) = <<c>> /\ c.handler \in handlers
              /\ Named[c.handler].request # "ask" => c.item = item
              /\ Named[c.handler].request = "item" => item # NoItem
<1> DEFINE Wanted == {h \in handlers : Named[h].request # "item" \/ item # NoItem}
<1>1. CASE Wanted = {}
  BY <1>1 DEF Calls
<1>2. CASE Wanted # {}
  <2>1. PICK h \in Wanted : h = CHOOSE g \in Wanted : TRUE
    BY <1>2
  <2>2. PICK c : c = Request(h, IF Named[h].request = "ask" THEN NoItem ELSE item)
    OBVIOUS
  <2>3. Calls(handlers, item) = <<c>>
    BY <1>2, <2>1, <2>2 DEF Calls
  <2>4. /\ c \in ItemCallKinds /\ c.handler = h
        /\ Named[h].request # "ask" => c.item = item
    BY <2>2 DEF Request, ItemCallKinds
  <2>5. QED
    BY <2>1, <2>3, <2>4
<1>3. QED
  BY <1>1, <1>2

LEMMA CallsMade ==
  ASSUME NEW handlers \in SUBSET Names, NEW item \in Items \cup {NoItem}
  PROVE  /\ Calls(handlers, item) \in Seq(ItemCallKinds)
         /\ \A c \in Range(Calls(handlers, item)) : c.handler \in handlers
<1>1. CASE Calls(handlers, item) = <<>>
  <2>1. <<>> \in Seq(ItemCallKinds) /\ Range(<<>>) = {}
    BY DEF Range
  <2>2. QED
    BY <1>1, <2>1
<1>2. ASSUME NEW c \in ItemCallKinds, Calls(handlers, item) = <<c>>, c.handler \in handlers
      PROVE  /\ Calls(handlers, item) \in Seq(ItemCallKinds)
             /\ \A d \in Range(Calls(handlers, item)) : d.handler \in handlers
  <2>1. <<c>> \in Seq(ItemCallKinds) /\ Range(<<c>>) = {c}
    BY DEF Range
  <2>2. QED
    BY <1>2, <2>1
<1>3. QED
  BY <1>1, <1>2, CallMade

\* What follows a selection.
LEMMA FollowMade ==
  ASSUME store \in StoreNames, selected' \in Items \cup {NoItem}
  PROVE  /\ Followed \in Seq(ItemCallKinds)
         /\ \A c \in Range(Followed) : c.handler \in Follows(store)
<1>1. CASE selected' = selected
  <2>1. <<>> \in Seq(ItemCallKinds) /\ Range(<<>>) = {}
    BY DEF Range
  <2>2. QED
    BY <1>1, <2>1 DEF Followed
<1>2. CASE selected' # selected
  <2>1. Follows(store) \in SUBSET Names
    BY NextNamed
  <2>2. PICK item \in Items \cup {NoItem} : item = selected'
    OBVIOUS
  <2>3. PICK handlers \in SUBSET Names : handlers = Follows(store)
    BY <2>1
  <2>4. Followed = Calls(handlers, item)
    BY <1>2, <2>2, <2>3 DEF Followed
  <2>5. QED
    BY <2>3, <2>4, CallsMade
<1>3. QED
  BY <1>1, <1>2

\* The flags of calls are those of their handlers.
LEMMA BusyCalls ==
  ASSUME NEW calls \in Seq(ItemCallKinds), NEW f \in BusyOf(calls)
  PROVE  \E c \in Range(calls) : f \in Named[c.handler].busy
BY DEF BusyOf, Range

\* The handlers of a button.
LEMMA ButtonHandlers ==
  ASSUME NEW s \in StoreNames, NEW b \in Buttons[s]
  PROVE  b.handlers \in SUBSET Names /\ \A h \in b.handlers : Named[h] \in HandlersIn[s]
BY ButtonsCall, HandlersNamed

\* What the parts of a handler do is of the items.
LEMMA PartsTyped ==
  ASSUME TypeOK, NEW item \in Items \cup {NoItem}, NEW first \in Items \cup {NoItem},
         NEW effects
  PROVE  /\ SelectedBy(effects, item, first) \in Items \cup {NoItem}
         /\ ShownBy(effects, item, first) \in Items \cup {NoItem}
BY DEF SelectedBy, ShownBy, TypeOK

LEMMA InitItems == Init => StoreTyped /\ FlagsHeld
<1> SUFFICES ASSUME Init PROVE StoreTyped /\ FlagsHeld
  OBVIOUS
<1>1. TypeOK
  BY MaxVersionAssumption DEF Init, TypeOK, Versions
<1>2. /\ asked \in Seq(ItemCallKinds) /\ answers \in Seq(AnswerKinds)
      /\ Range(asked) = {} /\ Range(answers) = {} /\ flags = {}
  BY DEF Init, Range
<1>3. QED
  BY <1>1, <1>2 DEF StoreTyped, FlagsHeld, UnderWay

\* A button asks: what it calls, and what follows the selection.
AskDoes(button, item, calls, after) ==
  /\ calls = Calls(button.handlers, item) /\ after = Followed
  /\ selected' = SelectedBy(button.first \cup BeginOf(calls), item, NoItem)
  /\ shown' = IF Follows(store) # {} /\ selected' = NoItem THEN NoItem
              ELSE ShownBy(button.first \cup BeginOf(calls), item, NoItem)
  /\ selected' \in Items \cup {NoItem} /\ shown' \in Items \cup {NoItem}
  /\ \A c \in Range(calls) \cup Range(after) : Named[c.handler] \in HandlersIn[store]
  /\ asked' = asked \o calls \o after /\ asked' \in Seq(ItemCallKinds)
  /\ Range(asked') = Range(asked) \cup Range(calls) \cup Range(after)
  /\ flags' = flags \cup BusyOf(calls) \cup BusyOf(after)
  /\ UNCHANGED <<store, list, loaded, answers, server, excused>>

LEMMA AskStep ==
  ASSUME StoreTyped, NEW button \in Buttons[store], NEW item \in Items \cup {NoItem},
         Ask(button, item)
  PROVE  \E calls, after \in Seq(ItemCallKinds) : AskDoes(button, item, calls, after)
<1>1. store \in StoreNames /\ TypeOK /\ asked \in Seq(ItemCallKinds)
  BY DEF StoreTyped, TypeOK
<1>2. button.handlers \in SUBSET Names /\ \A h \in button.handlers : Named[h] \in HandlersIn[store]
  BY <1>1, ButtonHandlers
<1>3. PICK calls : calls = Calls(button.handlers, item)
  OBVIOUS
<1>4. calls \in Seq(ItemCallKinds) /\ \A c \in Range(calls) : Named[c.handler] \in HandlersIn[store]
  BY <1>2, <1>3, CallsMade
<1>5. PICK begin : begin = button.first \cup BeginOf(calls)
  OBVIOUS
<1>6. /\ selected' = SelectedBy(begin, item, NoItem)
      /\ shown' = IF Follows(store) # {} /\ selected' = NoItem THEN NoItem
                  ELSE ShownBy(begin, item, NoItem)
      /\ asked' = asked \o calls \o Followed
      /\ flags' = flags \cup BusyOf(calls) \cup BusyOf(Followed)
      /\ UNCHANGED <<store, list, loaded, answers, server, excused>>
  BY <1>3, <1>5 DEF Ask
<1>7. selected' \in Items \cup {NoItem} /\ shown' \in Items \cup {NoItem}
  BY <1>1, <1>6, PartsTyped
<1>8. PICK after : after = Followed
  OBVIOUS
<1>9. after \in Seq(ItemCallKinds) /\ \A c \in Range(after) : Named[c.handler] \in HandlersIn[store]
  BY <1>1, <1>7, <1>8, FollowMade, NextNamed
<1>10. /\ asked' \in Seq(ItemCallKinds)
       /\ Range(asked') = Range(asked) \cup Range(calls) \cup Range(after)
  <2>1. asked \o calls \in Seq(ItemCallKinds) /\ Range(asked \o calls) = Range(asked) \cup Range(calls)
    BY <1>1, <1>4, SomeJoin
  <2>2. PICK both : both = asked \o calls
    OBVIOUS
  <2>3. both \in Seq(ItemCallKinds)
    BY <2>1, <2>2
  <2>4. both \o after \in Seq(ItemCallKinds) /\ Range(both \o after) = Range(both) \cup Range(after)
    BY <1>9, <2>3, SomeJoin
  <2>5. QED
    BY <1>6, <1>8, <2>1, <2>2, <2>4
<1>11. AskDoes(button, item, calls, after)
  BY <1>3, <1>4, <1>5, <1>6, <1>7, <1>8, <1>9, <1>10 DEF AskDoes
<1>12. QED
  BY <1>4, <1>9, <1>11

LEMMA AskTyped ==
  ASSUME StoreTyped, FlagsHeld, NEW button \in Buttons[store], NEW item \in Items \cup {NoItem},
         Ask(button, item)
  PROVE  StoreTyped' /\ FlagsHeld'
<1>1. PICK calls, after \in Seq(ItemCallKinds) : AskDoes(button, item, calls, after)
  BY AskStep
<1>2. UnderWay' = UnderWay \cup Range(calls) \cup Range(after)
  BY <1>1 DEF AskDoes, UnderWay
<1>3. StoreTyped'
  BY <1>1, <1>2 DEF AskDoes, StoreTyped, TypeOK
<1>4. FlagsHeld'
  <2>1. ASSUME NEW f \in flags' PROVE \E c \in UnderWay' : f \in Named[c.handler].busy
    <3>1. CASE f \in flags
      BY <1>2, <3>1 DEF FlagsHeld
    <3>2. CASE f \in BusyOf(calls)
      BY <1>2, <3>2, BusyCalls
    <3>3. CASE f \in BusyOf(after)
      BY <1>2, <3>3, BusyCalls
    <3>4. QED
      BY <1>1, <3>1, <3>2, <3>3 DEF AskDoes
  <2>2. QED
    BY <2>1 DEF FlagsHeld
<1>5. QED
  BY <1>3, <1>4

\* The adapter serves a request.
LEMMA ServeTyped ==
  ASSUME StoreTyped, FlagsHeld, NEW n \in DOMAIN asked, Serve(n)
  PROVE  StoreTyped' /\ FlagsHeld'
<1> DEFINE r == asked[n]
<1>1. PICK a : a = [handler |-> r.handler, item |-> r.item,
                   versions |-> Said(Named[r.handler].answer, r.item, server')]
  OBVIOUS
<1>2. /\ CanServe(Named[r.handler].request, r.item)
      /\ server' = ServerAfter(Named[r.handler].request, r.item)
      /\ asked' = Rest(asked, n) /\ answers' = Append(answers, a)
      /\ excused' \subseteq excused \cup {"shown"}
      /\ UNCHANGED <<store, list, selected, shown, loaded, flags>>
  BY <1>1 DEF Serve, Without, Rest
<1>3. /\ asked \in Seq(ItemCallKinds) /\ answers \in Seq(AnswerKinds) /\ TypeOK
      /\ \A c \in UnderWay : Named[c.handler] \in HandlersIn[store]
  BY DEF StoreTyped
<1>4. /\ r \in ItemCallKinds /\ asked' \in Seq(ItemCallKinds)
      /\ Range(asked) = Range(asked') \cup {r}
  BY <1>2, <1>3, OneLeaves
<1> HIDE DEF r
<1>5. server' \in [Items -> Versions]
  <2>1. server \in [Items -> Versions] /\ {0, 1, 2} \subseteq Versions
    BY <1>3, MaxVersionAssumption DEF TypeOK, Versions
  <2>2. CASE Named[r.handler].request = "change"
    <3>1. server' = [server EXCEPT ![r.item] = @ + 1] /\ server[r.item] \in 1..(MaxVersion - 1)
      BY <1>2, <2>2 DEF ServerAfter, CanServe
    <3>2. server[r.item] + 1 \in Versions
      BY <3>1, MaxVersionAssumption DEF Versions
    <3>3. QED
      BY <2>1, <3>1, <3>2
  <2>3. CASE Named[r.handler].request # "change"
    BY <1>2, <2>1, <2>3 DEF ServerAfter
  <2>4. QED
    BY <2>2, <2>3
<1>6. a \in AnswerKinds
  <2>1. Said(Named[r.handler].answer, r.item, server') \in [Items -> Versions]
    <3>1. 0 \in Versions /\ \A i \in Items : server'[i] \in Versions
      BY <1>5, MaxVersionAssumption DEF Versions
    <3>2. QED
      BY <3>1 DEF Said
  <2>2. QED
    BY <1>1, <1>4, <2>1 DEF ItemCallKinds, AnswerKinds
<1>7. answers' \in Seq(AnswerKinds) /\ Range(answers') = Range(answers) \cup {a}
  BY <1>2, <1>3, <1>6, OneJoins
<1>8. a.handler = r.handler /\ r \in UnderWay
  BY <1>1, <1>4 DEF UnderWay
<1>9. StoreTyped'
  BY <1>2, <1>3, <1>4, <1>5, <1>7, <1>8 DEF StoreTyped, TypeOK, UnderWay
<1>10. FlagsHeld'
  BY <1>2, <1>4, <1>7, <1>8 DEF FlagsHeld, UnderWay
<1>11. QED
  BY <1>9, <1>10

\* An answer that is taken out, and what is called then.
LEMMA AnswerLeaves ==
  ASSUME StoreTyped, NEW n \in DOMAIN answers, answers' = Without(answers, n)
  PROVE  /\ answers[n] \in AnswerKinds /\ answers' \in Seq(AnswerKinds)
         /\ Range(answers) = Range(answers') \cup {answers[n]}
         /\ Named[answers[n].handler] \in HandlersIn[store]
<1>1. answers \in Seq(AnswerKinds) /\ answers' = Rest(answers, n)
  BY DEF StoreTyped, Without, Rest
<1>2. /\ answers[n] \in AnswerKinds /\ answers' \in Seq(AnswerKinds)
      /\ Range(answers) = Range(answers') \cup {answers[n]}
  BY <1>1, OneLeaves
<1>3. QED
  BY <1>2 DEF StoreTyped, UnderWay

\* What the arrival of an answer does, with the calls it makes.
ArriveDoes(n, next, after, a, h) ==
  /\ a = answers[n] /\ h = Named[a.handler]
  /\ next = Calls(h.next, IF "list" \in h.answer THEN selected' ELSE NoItem)
  /\ after = Followed
  /\ \A c \in Range(next) \cup Range(after) : Named[c.handler] \in HandlersIn[store]
  /\ asked' = asked \o next \o after /\ asked' \in Seq(ItemCallKinds)
  /\ Range(asked') = Range(asked) \cup Range(next) \cup Range(after)
  /\ flags' \subseteq (flags \ h.busy) \cup BusyOf(next) \cup BusyOf(after)
  /\ selected' \in Items \cup {NoItem} /\ shown' \in Items \cup {NoItem}

LEMMA ArriveStep ==
  ASSUME StoreTyped, NEW n \in DOMAIN answers, NEW first \in Items \cup {NoItem},
         Arrive(n, first)
  PROVE  \E next, after \in Seq(ItemCallKinds), a \in AnswerKinds, h \in HandlersIn[store] :
           ArriveDoes(n, next, after, a, h)
<1>1. store \in StoreNames /\ TypeOK /\ asked \in Seq(ItemCallKinds)
  BY DEF StoreTyped, TypeOK
<1>2. PICK a : a = answers[n]
  OBVIOUS
<1>3. PICK h : h = Named[a.handler]
  OBVIOUS
<1>4. a \in AnswerKinds /\ h \in HandlersIn[store]
  BY <1>2, <1>3, AnswerLeaves DEF Arrive
<1>5. /\ selected' = SelectedBy(h.answer, a.item, first)
      /\ shown' = IF Follows(store) # {} /\ selected' = NoItem THEN NoItem
                  ELSE ShownBy(h.answer, a.item, first)
  BY <1>2, <1>3 DEF Arrive
<1>6. selected' \in Items \cup {NoItem} /\ shown' \in Items \cup {NoItem}
  BY <1>1, <1>4, <1>5, PartsTyped DEF AnswerKinds
<1>7. PICK item : item = IF "list" \in h.answer THEN selected' ELSE NoItem
  OBVIOUS
<1>8. PICK next : next = Calls(h.next, item)
  OBVIOUS
<1>9. PICK after : after = Followed
  OBVIOUS
<1>10. asked' = asked \o next \o after /\ flags' = BusyAfter(h, next \o after)
  BY <1>2, <1>3, <1>7, <1>8, <1>9 DEF Arrive
<1>11. next \in Seq(ItemCallKinds) /\ \A c \in Range(next) : Named[c.handler] \in HandlersIn[store]
  <2>1. h.next \in SUBSET Names /\ \A g \in h.next : Named[g] \in HandlersIn[store]
    BY <1>1, <1>4, HandlersFit, NextNamed DEF Fits
  <2>2. item \in Items \cup {NoItem}
    BY <1>6, <1>7
  <2>3. QED
    BY <1>8, <2>1, <2>2, CallsMade
<1>12. after \in Seq(ItemCallKinds) /\ \A c \in Range(after) : Named[c.handler] \in HandlersIn[store]
  BY <1>1, <1>6, <1>9, FollowMade, NextNamed
<1>13. asked \o next \in Seq(ItemCallKinds) /\ Range(asked \o next) = Range(asked) \cup Range(next)
  BY <1>1, <1>11, SomeJoin
<1>14. PICK both : both = asked \o next
  OBVIOUS
<1>15. both \in Seq(ItemCallKinds)
  BY <1>13, <1>14
<1>16. both \o after \in Seq(ItemCallKinds) /\ Range(both \o after) = Range(both) \cup Range(after)
  BY <1>12, <1>15, SomeJoin
<1>17. asked' \in Seq(ItemCallKinds) /\ Range(asked') = Range(asked) \cup Range(next) \cup Range(after)
  BY <1>10, <1>13, <1>14, <1>16
<1>18. next \o after \in Seq(ItemCallKinds) /\ Range(next \o after) = Range(next) \cup Range(after)
  BY <1>11, <1>12, SomeJoin
<1>19. BusyOf(next \o after) \subseteq BusyOf(next) \cup BusyOf(after)
  <2>1. PICK more \in Seq(ItemCallKinds) : more = next \o after
    BY <1>18
  <2>2. ASSUME NEW f \in BusyOf(more) PROVE f \in BusyOf(next) \cup BusyOf(after)
    <3>1. PICK c \in Range(more) : f \in Named[c.handler].busy
      BY <2>2, BusyCalls
    <3>2. c \in Range(next) \/ c \in Range(after)
      BY <1>18, <2>1, <3>1
    <3>3. QED
      BY <3>1, <3>2 DEF BusyOf, Range
  <2>3. QED
    BY <2>1, <2>2
<1>20. flags' \subseteq (flags \ h.busy) \cup BusyOf(next) \cup BusyOf(after)
  BY <1>10, <1>19 DEF BusyAfter
<1>21. ArriveDoes(n, next, after, a, h)
  BY <1>2, <1>3, <1>4, <1>6, <1>7, <1>8, <1>9, <1>10, <1>11, <1>12, <1>17, <1>20
     DEF ArriveDoes
<1>22. QED
  BY <1>4, <1>11, <1>12, <1>21

\* The list after an answer, and the excuses that are left.
LEMMA ListTyped ==
  ASSUME TypeOK, NEW effects, NEW item \in Items \cup {NoItem},
         NEW versions \in [Items -> Versions]
  PROVE  ListBy(effects, item, versions) \in [Items -> Versions]
<1>1. 0 \in Versions /\ list \in [Items -> Versions]
  BY MaxVersionAssumption DEF TypeOK, Versions
<1>2. [list EXCEPT ![item] = 0] \in [Items -> Versions]
  BY <1>1
<1>3. [list EXCEPT ![item] = versions[item]] \in [Items -> Versions]
  <2>1. item \in Items => versions[item] \in Versions
    OBVIOUS
  <2>2. QED
    BY <1>1, <2>1
<1>4. QED
  BY <1>1, <1>2, <1>3 DEF ListBy

LEMMA ArriveTyped ==
  ASSUME StoreTyped, FlagsHeld, NEW n \in DOMAIN answers, NEW first \in Items \cup {NoItem},
         Arrive(n, first)
  PROVE  StoreTyped' /\ FlagsHeld'
<1>1. PICK next, after \in Seq(ItemCallKinds), a \in AnswerKinds, h \in HandlersIn[store] :
        ArriveDoes(n, next, after, a, h)
  BY ArriveStep
<1> USE DEF ArriveDoes
<1>2. /\ answers' \in Seq(AnswerKinds)
      /\ Range(answers) = Range(answers') \cup {a}
  BY <1>1, AnswerLeaves DEF Arrive
<1>3. store' = store /\ server' = server /\ list' = ListBy(h.answer, a.item, a.versions)
  BY <1>1 DEF Arrive
<1>4. list' \in [Items -> Versions]
  BY <1>1, <1>3, ListTyped DEF StoreTyped, AnswerKinds
<1>5. excused' \subseteq {"list", "shown"}
  BY DEF Arrive, Settle, StoreTyped, TypeOK
<1>6. UnderWay' \cup {a} = UnderWay \cup Range(next) \cup Range(after) \cup {a}
  BY <1>1, <1>2 DEF UnderWay
<1>7. StoreTyped'
  <2>1. TypeOK'
    BY <1>1, <1>3, <1>4, <1>5 DEF StoreTyped, TypeOK
  <2>2. UnderWay' \subseteq UnderWay \cup Range(next) \cup Range(after)
    BY <1>1, <1>2 DEF UnderWay
  <2>3. QED
    BY <1>1, <1>2, <1>3, <2>1, <2>2 DEF StoreTyped
<1>8. FlagsHeld'
  <2>1. ASSUME NEW f \in flags' PROVE \E c \in UnderWay' : f \in Named[c.handler].busy
    <3>1. CASE f \in flags /\ f \notin h.busy
      <4>1. PICK c \in UnderWay : f \in Named[c.handler].busy
        BY <3>1 DEF FlagsHeld
      <4>2. c # a
        BY <1>1, <3>1, <4>1
      <4>3. QED
        BY <1>6, <4>1, <4>2
    <3>2. CASE f \in BusyOf(next)
      BY <1>1, <3>2, BusyCalls DEF UnderWay
    <3>3. CASE f \in BusyOf(after)
      BY <1>1, <3>3, BusyCalls DEF UnderWay
    <3>4. QED
      BY <1>1, <3>1, <3>2, <3>3
  <2>2. QED
    BY <2>1 DEF FlagsHeld
<1>9. QED
  BY <1>7, <1>8

\* A request fails, or its answer is lost.
LEMMA FailStep ==
  ASSUME StoreTyped,
         (\E n \in DOMAIN asked : Fail(n)) \/ (\E n \in DOMAIN answers : Lose(n))
  PROVE  \E c \in UnderWay :
           /\ UnderWay \subseteq UnderWay' \cup {c} /\ UnderWay' \subseteq UnderWay
           /\ asked' \in Seq(ItemCallKinds) /\ answers' \in Seq(AnswerKinds)
           /\ Failed(Named[c.handler], c.item)
           /\ c.item \in Items \cup {NoItem} /\ store' = store
           /\ \E excuses \in SUBSET {"list", "shown"} : "shown" \in excuses /\ Settle(excuses)
<1>1. \E excuses \in SUBSET {"list", "shown"} : "shown" \in excuses /\ Settle(excuses)
  <2>1. excused \subseteq {"list", "shown"}
    BY DEF StoreTyped, TypeOK
  <2>2. QED
    BY <2>1 DEF Fail, Lose
<1>2. ASSUME NEW n \in DOMAIN asked, Fail(n)
      PROVE  \E c \in UnderWay :
               /\ UnderWay \subseteq UnderWay' \cup {c} /\ UnderWay' \subseteq UnderWay
               /\ asked' \in Seq(ItemCallKinds) /\ answers' \in Seq(AnswerKinds)
               /\ Failed(Named[c.handler], c.item)
  <2>1. asked \in Seq(ItemCallKinds) /\ asked' = Rest(asked, n) /\ answers' = answers
    BY <1>2 DEF Fail, Without, Rest, StoreTyped
  <2>2. asked' \in Seq(ItemCallKinds) /\ Range(asked) = Range(asked') \cup {asked[n]}
    BY <2>1, OneLeaves
  <2>3. QED
    BY <1>2, <2>1, <2>2 DEF Fail, StoreTyped, UnderWay
<1>3. ASSUME NEW n \in DOMAIN answers, Lose(n)
      PROVE  \E c \in UnderWay :
               /\ UnderWay \subseteq UnderWay' \cup {c} /\ UnderWay' \subseteq UnderWay
               /\ asked' \in Seq(ItemCallKinds) /\ answers' \in Seq(AnswerKinds)
               /\ Failed(Named[c.handler], c.item)
  BY <1>3, AnswerLeaves DEF Lose, StoreTyped, UnderWay
<1>4. \A c \in UnderWay : c.item \in Items \cup {NoItem}
  <2>1. Range(asked) \subseteq ItemCallKinds /\ Range(answers) \subseteq AnswerKinds
    BY RangeOfSeq DEF StoreTyped
  <2>2. QED
    BY <2>1 DEF UnderWay, ItemCallKinds, AnswerKinds
<1>5. store' = store
  BY DEF Fail, Lose
<1>6. QED
  BY <1>1, <1>2, <1>3, <1>4, <1>5

LEMMA FailTyped ==
  ASSUME StoreTyped, FlagsHeld,
         (\E n \in DOMAIN asked : Fail(n)) \/ (\E n \in DOMAIN answers : Lose(n))
  PROVE  StoreTyped' /\ FlagsHeld'
<1>1. PICK c \in UnderWay :
        /\ UnderWay \subseteq UnderWay' \cup {c} /\ UnderWay' \subseteq UnderWay
        /\ asked' \in Seq(ItemCallKinds) /\ answers' \in Seq(AnswerKinds)
        /\ Failed(Named[c.handler], c.item)
        /\ c.item \in Items \cup {NoItem}
        /\ \E excuses \in SUBSET {"list", "shown"} : Settle(excuses)
  BY FailStep
<1>2. excused' \subseteq {"list", "shown"}
  BY <1>1 DEF Settle
<1>3. UNCHANGED <<store, list, selected, server>>
  BY DEF Fail, Lose, Failed
<1>4. shown' \in Items \cup {NoItem}
  BY <1>1, PartsTyped DEF Failed, StoreTyped
<1>5. StoreTyped'
  BY <1>1, <1>2, <1>3, <1>4 DEF StoreTyped, TypeOK
<1>6. FlagsHeld'
  BY <1>1 DEF Failed, FlagsHeld
<1>7. QED
  BY <1>5, <1>6

LEMMA NextItems == StoreTyped /\ FlagsHeld /\ [Next]_vars => StoreTyped' /\ FlagsHeld'
<1>1. ASSUME StoreTyped, FlagsHeld, Next
      PROVE  StoreTyped' /\ FlagsHeld'
  <2>1. store \in StoreNames
    BY <1>1 DEF StoreTyped, TypeOK
  <2>2. QED
    BY <1>1, AskTyped, ServeTyped, ArriveTyped, FailTyped DEF Next
<1>2. ASSUME StoreTyped, FlagsHeld, UNCHANGED vars
      PROVE  StoreTyped' /\ FlagsHeld'
  BY <1>2 DEF vars, StoreTyped, TypeOK, FlagsHeld, UnderWay
<1>3. QED
  BY <1>1, <1>2

LEMMA ItemsInductive == Spec => [](StoreTyped /\ FlagsHeld)
BY InitItems, NextItems, PTL DEF Spec

LEMMA QuietHasNothing ==
  ASSUME StoreTyped, Quiet
  PROVE  UnderWay = {}
BY NothingHeld DEF StoreTyped, Quiet, UnderWay

\* No button stays disabled once nothing is under way, in any of the stores.
THEOREM FlagsGo == Spec => []ButtonsComeBack
<1>1. StoreTyped /\ FlagsHeld => ButtonsComeBack
  BY QuietHasNothing DEF FlagsHeld, ButtonsComeBack
<1>2. QED
  BY <1>1, ItemsInductive, PTL

-----------------------------------------------------------------------------
(* The list *)

Effects(call) == Named[call.handler].answer

\* An answer tells the version of an item.
Tells(a, i) ==
  \/ "list" \in Effects(a)
  \/ a.item = i /\ Effects(a) \cap {"put", "put if listed", "drop"} # {}

\* What the last of the first n answers of a queue that tell of an item says,
\* or what was listed before when none does.
LastSaid(q, n, had, i) ==
  {q[k].versions[i] : k \in {j \in 1..n : /\ Tells(q[j], i)
                                          /\ \A m \in (j + 1)..n : ~Tells(q[m], i)}}
  \cup (IF \A k \in 1..n : ~Tells(q[k], i) THEN had ELSE {})

ListedNow(i) == IF loaded THEN {list[i]} ELSE {}

\* A change is shown by the list that is about to be loaded.
ReloadDue ==
  /\ store \in ReloadStores
  /\ \/ \E c \in Range(asked) : Named[c.handler].request = "list"
     \/ \E a \in Range(answers) : Named[a.handler].next # {}

\* The answers under way end with what the adapter has.
LastSays(i) == LastSaid(answers, Len(answers), ListedNow(i), i) \subseteq {server[i]}

\* A change that is shown only on an item that is listed finds it listed.
ListedBefore(i) ==
  \A k \in 1..Len(answers) :
    "put if listed" \in Effects(answers[k]) /\ answers[k].item = i =>
      0 \notin LastSaid(answers, k - 1, ListedNow(i), i)

DropsSay ==
  \A a \in Range(answers) : "drop" \in Effects(a) => \A i \in Items : a.versions[i] = 0

ListFollows ==
  "list" \notin excused => \A i \in Items : ListedBefore(i) /\ (ReloadDue \/ LastSays(i))

ListInv == DropsSay /\ ListFollows

LEMMA UnderWayFits ==
  ASSUME StoreTyped, NEW c \in UnderWay
  PROVE  Named[c.handler] \in HandlersIn[store] /\ Fits(store, Named[c.handler])
BY HandlersFit DEF StoreTyped, TypeOK

\* What a reload calls is the list.
LEMMA ReloadLists ==
  ASSUME NEW s \in ReloadStores, NEW g \in NextOf(s)
  PROVE  Named[g].request = "list"
<1>1. g \in {"loadJobs", "loadJobsAfterAction", "loadProfilesActivating", "loadWorktrees"}
  BY DEF ReloadStores, NextOf
<1>2. /\ loadJobs.request = "list" /\ loadJobsAfterAction.request = "list"
      /\ loadProfilesActivating.request = "list" /\ loadWorktrees.request = "list"
  BY DEF loadJobs, loadJobsAfterAction, loadProfiles, loadProfilesActivating, loadWorktrees,
         Handler, CronApi, ProfilesApi, WorktreesApi
<1>3. QED
  BY <1>1, <1>2 DEF Named

LEMMA SaidBefore ==
  ASSUME NEW p, NEW q, NEW n \in Nat, NEW had, NEW i, \A k \in 1..n : p[k] = q[k]
  PROVE  LastSaid(p, n, had, i) = LastSaid(q, n, had, i)
<1> DEFINE LastOf(s) == {j \in 1..n : Tells(s[j], i) /\ \A m \in (j + 1)..n : ~Tells(s[m], i)}
<1>1. ASSUME NEW j \in 1..n, NEW m \in (j + 1)..n PROVE m \in 1..n
  OBVIOUS
<1>2. LastOf(p) = LastOf(q) /\ LastOf(p) \subseteq 1..n
  BY <1>1
<1>3. {p[k].versions[i] : k \in LastOf(p)} = {q[k].versions[i] : k \in LastOf(q)}
  BY <1>2
<1>4. (\A k \in 1..n : ~Tells(p[k], i)) <=> (\A k \in 1..n : ~Tells(q[k], i))
  OBVIOUS
<1>5. QED
  BY <1>3, <1>4 DEF LastSaid

\* The last answer says it if it tells of the item.
LEMMA SaidLast ==
  ASSUME NEW q, NEW n \in Nat \ {0}, NEW had, NEW i
  PROVE  LastSaid(q, n, had, i) =
           IF Tells(q[n], i) THEN {q[n].versions[i]} ELSE LastSaid(q, n - 1, had, i)
<1>1. CASE Tells(q[n], i)
  <2>1. {j \in 1..n : Tells(q[j], i) /\ \A m \in (j + 1)..n : ~Tells(q[m], i)} = {n}
    BY <1>1
  <2>2. ~(\A k \in 1..n : ~Tells(q[k], i))
    BY <1>1
  <2>3. QED
    BY <1>1, <2>1, <2>2 DEF LastSaid
<1>2. CASE ~Tells(q[n], i)
  <2>1. {j \in 1..n : Tells(q[j], i) /\ \A m \in (j + 1)..n : ~Tells(q[m], i)}
          = {j \in 1..(n - 1) : Tells(q[j], i) /\ \A m \in (j + 1)..(n - 1) : ~Tells(q[m], i)}
    BY <1>2
  <2>2. (\A k \in 1..n : ~Tells(q[k], i)) <=> (\A k \in 1..(n - 1) : ~Tells(q[k], i))
    BY <1>2
  <2>3. QED
    BY <1>2, <2>1, <2>2 DEF LastSaid
<1>3. QED
  BY <1>1, <1>2

\* The first answer is listed: the others say what they said.
LEMMA SaidFirst ==
  ASSUME NEW p, NEW q, NEW n \in Nat, NEW had, NEW now, NEW i,
         \A k \in 1..n : p[k] = q[k + 1],
         now \subseteq IF Tells(q[1], i) THEN {q[1].versions[i]} ELSE had
  PROVE  LastSaid(p, n, now, i) \subseteq LastSaid(q, n + 1, had, i)
<1>1. ASSUME NEW v, NEW k \in 1..n, Tells(p[k], i), \A m \in (k + 1)..n : ~Tells(p[m], i),
             v = p[k].versions[i]
      PROVE  v \in LastSaid(q, n + 1, had, i)
  <2>1. k + 1 \in 1..(n + 1) /\ p[k] = q[k + 1]
    OBVIOUS
  <2>2. ASSUME NEW m \in ((k + 1) + 1)..(n + 1) PROVE ~Tells(q[m], i)
    <3>1. m - 1 \in (k + 1)..n /\ m - 1 \in 1..n /\ (m - 1) + 1 = m
      BY <1>1
    <3>2. p[m - 1] = q[m]
      BY <3>1
    <3>3. QED
      BY <1>1, <3>1, <3>2
  <2>3. Tells(q[k + 1], i) /\ v = q[k + 1].versions[i]
    BY <1>1, <2>1
  <2>4. QED
    BY <2>1, <2>2, <2>3 DEF LastSaid
<1>2. ASSUME NEW v \in now, \A k \in 1..n : ~Tells(p[k], i)
      PROVE  v \in LastSaid(q, n + 1, had, i)
  <2>1. ASSUME NEW m \in 2..(n + 1) PROVE ~Tells(q[m], i)
    <3>1. m - 1 \in 1..n /\ (m - 1) + 1 = m
      OBVIOUS
    <3>2. p[m - 1] = q[m]
      BY <3>1
    <3>3. QED
      BY <1>2, <3>1, <3>2
  <2>2. CASE Tells(q[1], i)
    <3>1. v = q[1].versions[i] /\ 1 \in 1..(n + 1) /\ 1 + 1 = 2
      BY <2>2
    <3>2. 1 \in {j \in 1..(n + 1) : /\ Tells(q[j], i)
                                    /\ \A m \in (j + 1)..(n + 1) : ~Tells(q[m], i)}
      BY <2>1, <2>2, <3>1
    <3>3. QED
      BY <3>1, <3>2 DEF LastSaid
  <2>3. CASE ~Tells(q[1], i)
    <3>1. v \in had
      BY <2>3
    <3>2. \A m \in 1..(n + 1) : m = 1 \/ m \in 2..(n + 1)
      OBVIOUS
    <3>3. \A m \in 1..(n + 1) : ~Tells(q[m], i)
      BY <2>1, <2>3, <3>2
    <3>4. QED
      BY <3>1, <3>3 DEF LastSaid
  <2>4. QED
    BY <2>2, <2>3
<1>3. QED
  <2>1. ASSUME NEW v \in LastSaid(p, n, now, i) PROVE v \in LastSaid(q, n + 1, had, i)
    <3>1. \/ \E k \in 1..n : /\ Tells(p[k], i) /\ \A m \in (k + 1)..n : ~Tells(p[m], i)
                             /\ v = p[k].versions[i]
          \/ v \in now /\ \A k \in 1..n : ~Tells(p[k], i)
      BY <2>1 DEF LastSaid
    <3>2. QED
      BY <1>1, <1>2, <3>1
  <2>2. QED
    BY <2>1

LEMMA InitList == Init => ListInv
<1> SUFFICES ASSUME Init PROVE ListInv
  OBVIOUS
<1>1. answers = <<>> /\ Range(answers) = {} /\ Len(answers) = 0 /\ ~loaded
  BY DEF Init, Range
<1>2. \A i : LastSaid(answers, 0, ListedNow(i), i) = {}
  BY <1>1 DEF LastSaid, ListedNow
<1>3. QED
  BY <1>1, <1>2 DEF ListInv, DropsSay, ListFollows, ListedBefore, LastSays

\* Nothing under way and the list is the adapter's: all is well again.
LEMMA SettledList ==
  ASSUME StoreTyped', answers' = <<>>, list' = server'
  PROVE  ListFollows'
<1>1. Len(answers') = 0
  BY DEF StoreTyped
<1>2. \A i : LastSaid(answers', 0, ListedNow(i)', i) \subseteq {server'[i]}
  BY DEF LastSaid, ListedNow
<1>3. QED
  BY <1>1, <1>2 DEF ListFollows, ListedBefore, LastSays

LEMMA SettleList ==
  ASSUME NEW excuses, Settle(excuses), "list" \notin excused'
  PROVE  "list" \notin excuses \/ (answers' = <<>> /\ list' = server')
BY DEF Settle, Agrees

\* The list and the answers stay as they are.
LEMMA ListStays ==
  ASSUME StoreTyped, ListInv, StoreTyped',
         UNCHANGED <<store, list, loaded, answers, server>>,
         "list" \notin excused' => "list" \notin excused,
         ReloadDue => ReloadDue'
  PROVE  ListInv'
<1>1. \A i \in Items : LastSays(i) => LastSays(i)'
  BY DEF LastSays, ListedNow
<1>2. \A i \in Items : ListedBefore(i) => ListedBefore(i)'
  BY DEF ListedBefore, ListedNow, Effects
<1>3. ListFollows'
  BY <1>1, <1>2 DEF ListInv, ListFollows
<1>4. DropsSay'
  BY DEF ListInv, DropsSay, Effects
<1>5. QED
  BY <1>3, <1>4 DEF ListInv

LEMMA FailList ==
  ASSUME StoreTyped, FlagsHeld, ListInv, NEW n \in DOMAIN asked, Fail(n)
  PROVE  ListInv'
<1>1. StoreTyped'
  BY FailTyped
<1>2. asked \in Seq(ItemCallKinds) /\ asked' = Rest(asked, n)
  BY DEF Fail, Without, Rest, StoreTyped
<1>3. Range(asked) = Range(asked') \cup {asked[n]}
  BY <1>2, OneLeaves
<1>4. UNCHANGED <<store, list, loaded, answers, server>>
  BY DEF Fail
<1>5. PICK excuses : /\ Settle(excuses)
                     /\ "list" \notin excuses =>
                          "list" \notin excused /\ Named[asked[n].handler].request # "list"
  BY DEF Fail
<1>6. CASE "list" \in excuses
  <2>1. ListFollows'
    BY <1>1, <1>5, <1>6, SettleList, SettledList DEF ListFollows
  <2>2. QED
    BY <1>4, <2>1 DEF ListInv, DropsSay, Effects
<1>7. CASE "list" \notin excuses
  <2>1. ReloadDue => ReloadDue'
    BY <1>3, <1>4, <1>5, <1>7 DEF ReloadDue
  <2>2. QED
    BY <1>1, <1>4, <1>5, <1>7, <2>1, ListStays
<1>8. QED
  BY <1>6, <1>7

LEMMA LoseList ==
  ASSUME StoreTyped, FlagsHeld, ListInv, NEW n \in DOMAIN answers, Lose(n)
  PROVE  ListInv'
<1>1. StoreTyped'
  BY FailTyped
<1>2. Range(answers') \subseteq Range(answers)
  BY AnswerLeaves DEF Lose
<1>3. PICK excuses : Settle(excuses) /\ "list" \in excuses
  BY DEF Lose
<1>4. ListFollows'
  BY <1>1, <1>3, SettleList, SettledList DEF ListFollows
<1>5. QED
  BY <1>2, <1>4 DEF ListInv, DropsSay, Effects

LEMMA AskList ==
  ASSUME StoreTyped, FlagsHeld, ListInv, NEW button \in Buttons[store],
         NEW item \in Items \cup {NoItem}, Ask(button, item)
  PROVE  ListInv'
<1>1. StoreTyped'
  BY AskTyped
<1>2. /\ Range(asked) \subseteq Range(asked')
      /\ UNCHANGED <<store, list, loaded, answers, server, excused>>
  BY AskStep DEF AskDoes
<1>3. ReloadDue => ReloadDue'
  BY <1>2 DEF ReloadDue
<1>4. QED
  BY <1>1, <1>2, <1>3, ListStays

\* The adapter serves a request: what it changes is told by the answer, or by
\* the list that is loaded then.
LEMMA ServeList ==
  ASSUME StoreTyped, FlagsHeld, ListInv, NEW n \in DOMAIN asked, Serve(n)
  PROVE  ListInv'
<1>1. PICK h : h = Named[asked[n].handler]
  OBVIOUS
<1>2. PICK a : a = [handler |-> asked[n].handler, item |-> asked[n].item,
                   versions |-> Said(h.answer, asked[n].item, server')]
  OBVIOUS
<1>3. /\ CanServe(h.request, a.item) /\ server' = ServerAfter(h.request, a.item)
      /\ asked' = Rest(asked, n) /\ answers' = Append(answers, a)
      /\ UNCHANGED <<store, list, loaded>>
      /\ "list" \notin excused' => "list" \notin excused
  BY <1>1, <1>2 DEF Serve, Without, Rest
<1>4. /\ asked \in Seq(ItemCallKinds) /\ answers \in Seq(AnswerKinds)
      /\ server \in [Items -> Versions] /\ server' \in [Items -> Versions]
      /\ StoreTyped'
  BY ServeTyped DEF StoreTyped, TypeOK
<1>5. /\ asked[n] \in UnderWay /\ a.item \in Items \cup {NoItem}
      /\ Range(asked) = Range(asked') \cup {asked[n]}
  <2>1. asked[n] \in ItemCallKinds /\ Range(asked) = Range(asked') \cup {asked[n]}
    BY <1>3, <1>4, OneLeaves
  <2>2. a.item = asked[n].item
    BY <1>2
  <2>3. QED
    BY <2>1, <2>2 DEF UnderWay, ItemCallKinds
<1>6. Fits(store, h) /\ Effects(a) = h.answer /\ Named[a.handler] = h
  BY <1>1, <1>2, <1>5, UnderWayFits DEF Effects
<1>7. PICK len \in Nat : len = Len(answers)
  BY <1>4
<1>8. a \in AnswerKinds /\ Range(answers') = Range(answers) \cup {a}
  <2>1. answers' \in Seq(AnswerKinds) /\ answers'[len + 1] = a /\ len + 1 \in DOMAIN answers'
    BY <1>3, <1>4, <1>7 DEF StoreTyped
  <2>2. a \in AnswerKinds
    BY <2>1
  <2>3. QED
    BY <1>3, <1>4, <2>2, OneJoins
<1>9. Len(answers') = len + 1 /\ answers'[len + 1] = a /\ \A k \in 1..len : answers'[k] = answers[k]
  BY <1>3, <1>4, <1>7
<1>10. \A i : ListedNow(i)' = ListedNow(i)
  BY <1>3 DEF ListedNow
<1>11. ASSUME NEW i, NEW k \in 0..len
       PROVE  LastSaid(answers', k, ListedNow(i), i) = LastSaid(answers, k, ListedNow(i), i)
  BY <1>9, SaidBefore
<1>12. \A i \in Items : a.versions[i] = IF \/ "list" \in h.answer
                                          \/ (i = a.item /\ h.answer \cap {"put", "put if listed"} # {})
                                       THEN server'[i] ELSE 0
  BY <1>2 DEF Said
<1>13. FitsList(store, h)
  BY <1>6 DEF Fits
<1>14. DropsSay'
  <2>1. "drop" \in Effects(a) => \A i \in Items : a.versions[i] = 0
    BY <1>6, <1>12, <1>13 DEF FitsList
  <2>2. QED
    BY <1>8, <2>1 DEF ListInv, DropsSay, Effects
<1>15. ASSUME "list" \notin excused', NEW i \in Items PROVE ListedBefore(i)'
  <2>1. ListedBefore(i) /\ (ReloadDue \/ LastSays(i))
    BY <1>3, <1>15 DEF ListInv, ListFollows
  <2>2. ASSUME NEW k \in 1..(len + 1), "put if listed" \in Effects(answers'[k]),
               answers'[k].item = i
        PROVE  0 \notin LastSaid(answers', k - 1, ListedNow(i), i)
    <3>1. CASE k \in 1..len
      <4>1. answers'[k] = answers[k] /\ k - 1 \in 0..len
        BY <1>9, <3>1
      <4>2. 0 \notin LastSaid(answers, k - 1, ListedNow(i), i)
        BY <1>7, <2>1, <2>2, <3>1, <4>1 DEF ListedBefore
      <4>3. QED
        BY <1>11, <4>1, <4>2
    <3>2. CASE k = len + 1
      <4>1. h.request = "change" /\ store \notin ReloadStores /\ a.item = i
        BY <1>6, <1>9, <1>13, <2>2, <3>2 DEF FitsList
      <4>2. server[i] # 0
        BY <1>3, <4>1 DEF CanServe
      <4>3. LastSaid(answers, len, ListedNow(i), i) \subseteq {server[i]}
        BY <1>7, <2>1, <4>1 DEF ReloadDue, LastSays
      <4>4. k - 1 = len /\ len \in 0..len
        BY <3>2
      <4>5. LastSaid(answers', len, ListedNow(i), i) = LastSaid(answers, len, ListedNow(i), i)
        BY <1>11, <4>4
      <4>6. LastSaid(answers', k - 1, ListedNow(i), i) = LastSaid(answers', len, ListedNow(i), i)
        BY <4>4
      <4>7. QED
        BY <4>2, <4>3, <4>5, <4>6
    <3>3. k \in 1..len \/ k = len + 1
      OBVIOUS
    <3>4. QED
      BY <3>1, <3>2, <3>3
  <2>3. QED
    BY <1>9, <1>10, <2>2 DEF ListedBefore, Effects
<1>16. ASSUME "list" \notin excused', NEW i \in Items, ~ReloadDue' PROVE LastSays(i)'
  <2>1. ReloadDue \/ LastSays(i)
    BY <1>3, <1>16 DEF ListInv, ListFollows
  <2>2. LastSaid(answers', len + 1, ListedNow(i), i) =
          IF Tells(a, i) THEN {a.versions[i]} ELSE LastSaid(answers, len, ListedNow(i), i)
    <3>1. LastSaid(answers', len + 1, ListedNow(i), i) =
            IF Tells(answers'[len + 1], i) THEN {answers'[len + 1].versions[i]}
            ELSE LastSaid(answers', (len + 1) - 1, ListedNow(i), i)
      <4>1. PICK q : q = answers'
        OBVIOUS
      <4>2. len + 1 \in Nat \ {0}
        OBVIOUS
      <4>3. PICK m \in Nat \ {0} : m = len + 1
        BY <4>2
      <4>4. LastSaid(q, m, ListedNow(i), i) =
              IF Tells(q[m], i) THEN {q[m].versions[i]} ELSE LastSaid(q, m - 1, ListedNow(i), i)
        BY SaidLast
      <4>5. QED
        BY <4>1, <4>3, <4>4
    <3>2. (len + 1) - 1 = len /\ len \in 0..len
      OBVIOUS
    <3>3. QED
      BY <1>9, <1>11, <3>1, <3>2
  <2>3. ~Reloads(store, h)
    BY <1>3, <1>6, <1>8, <1>16 DEF ReloadDue, Reloads
  <2>4. ReloadDue => "list" \in h.answer
    <3>1. SUFFICES ASSUME ReloadDue PROVE h.request = "list"
      BY <1>13 DEF FitsList
    <3>2. \A b \in Range(answers) : Named[b.handler].next = {}
      BY <1>3, <1>8, <1>16, <3>1 DEF ReloadDue
    <3>3. PICK c \in Range(asked) : Named[c.handler].request = "list"
      BY <3>1, <3>2 DEF ReloadDue
    <3>4. c \notin Range(asked')
      BY <1>3, <1>16, <3>1, <3>3 DEF ReloadDue
    <3>5. QED
      BY <1>1, <1>5, <3>3, <3>4
  <2>5. CASE Tells(a, i)
    <3>1. a.versions[i] = server'[i]
      <4>1. CASE "list" \in h.answer \/ h.answer \cap {"put", "put if listed"} # {}
        BY <1>6, <1>12, <2>5, <4>1 DEF Tells
      <4>2. CASE "list" \notin h.answer /\ h.answer \cap {"put", "put if listed"} = {}
        <5>1. "drop" \in h.answer /\ a.item = i
          BY <1>6, <2>5, <4>2 DEF Tells
        <5>2. h.request = "remove"
          BY <1>13, <5>1 DEF FitsList
        <5>3. server'[i] = 0
          BY <1>3, <1>4, <5>1, <5>2 DEF ServerAfter
        <5>4. QED
          BY <1>12, <4>2, <5>3
      <4>3. QED
        BY <4>1, <4>2
    <3>2. QED
      BY <1>9, <1>10, <2>2, <2>5, <3>1 DEF LastSays
  <2>6. CASE ~Tells(a, i)
    <3>1. "list" \notin h.answer
      BY <1>6, <2>6 DEF Tells
    <3>2. LastSaid(answers, len, ListedNow(i), i) \subseteq {server[i]}
      BY <1>7, <2>1, <2>4, <3>1 DEF LastSays
    <3>3. server'[i] = server[i]
      <4>1. CASE h.request \in {"add", "change", "remove", "activate"}
        <5>1. h.answer \cap {"put", "put if listed", "drop"} # {} /\ h.request # "activate"
          BY <1>13, <2>3, <3>1, <4>1 DEF FitsList
        <5>2. a.item # i
          BY <1>6, <2>6, <5>1 DEF Tells
        <5>3. QED
          BY <1>3, <1>4, <4>1, <5>1, <5>2 DEF ServerAfter
      <4>2. CASE h.request \notin {"add", "change", "remove", "activate"}
        BY <1>3, <4>2 DEF ServerAfter
      <4>3. QED
        BY <4>1, <4>2
    <3>4. QED
      BY <1>9, <1>10, <2>2, <2>6, <3>2, <3>3 DEF LastSays
  <2>7. QED
    BY <2>5, <2>6
<1>17. ListFollows'
  BY <1>15, <1>16 DEF ListFollows
<1>18. QED
  BY <1>14, <1>17 DEF ListInv

\* A list is due while it is called for.
LEMMA ReloadCalled ==
  ASSUME store \in ReloadStores, NEW handlers \in SUBSET NextOf(store), handlers # {},
         NEW item \in Items \cup {NoItem}
  PROVE  \E c \in Range(Calls(handlers, item)) : Named[c.handler].request = "list"
<1>1. handlers \in SUBSET Names /\ \A g \in handlers : Named[g].request = "list"
  BY NextNamed, ReloadLists DEF ReloadStores, StoreNames, Buttons
<1>2. PICK c \in ItemCallKinds : Calls(handlers, item) = <<c>> /\ c.handler \in handlers
  BY <1>1, CallMade
<1>3. Range(<<c>>) = {c}
  BY DEF Range
<1>4. QED
  BY <1>1, <1>2, <1>3

\* An answer arrives in its turn: it is listed.
LEMMA ArriveList ==
  ASSUME StoreTyped, FlagsHeld, ListInv, NEW n \in DOMAIN answers,
         NEW first \in Items \cup {NoItem}, Arrive(n, first)
  PROVE  ListInv'
<1>1. PICK next, after \in Seq(ItemCallKinds), a \in AnswerKinds, h \in HandlersIn[store] :
        ArriveDoes(n, next, after, a, h)
  BY ArriveStep
<1> USE DEF ArriveDoes
<1>2. /\ StoreTyped' /\ store \in StoreNames /\ store' = store /\ server' = server
      /\ list' = ListBy(h.answer, a.item, a.versions)
      /\ loaded' = (loaded \/ h.request = "list")
      /\ answers' = Rest(answers, n) /\ answers \in Seq(AnswerKinds)
      /\ list \in [Items -> Versions]
  BY <1>1, ArriveTyped DEF Arrive, StoreTyped, TypeOK, Without, Rest
<1>3. /\ Len(answers') = Len(answers) - 1
      /\ \A m \in 1..(Len(answers) - 1) :
           answers'[m] = IF m < n THEN answers[m] ELSE answers[m + 1]
      /\ Range(answers) = Range(answers') \cup {a}
  BY <1>1, <1>2, OneLeaves
<1>4. DropsSay' /\ ("drop" \in h.answer => \A i \in Items : a.versions[i] = 0)
  BY <1>1, <1>3 DEF ListInv, DropsSay, Effects
<1>5. PICK excuses : /\ Settle(excuses)
                     /\ "list" \notin excuses => "list" \notin excused /\ n = 1
  BY DEF Arrive
<1>6. CASE "list" \in excuses
  BY <1>2, <1>4, <1>5, <1>6, SettleList, SettledList DEF ListFollows, ListInv
<1>7. CASE "list" \notin excuses
  <2>1. n = 1 /\ "list" \notin excused /\ a = answers[1]
    BY <1>1, <1>5, <1>7
  <2>2. PICK len \in Nat : Len(answers) = len + 1
    <3>1. Len(answers) \in Nat /\ Len(answers) - 1 \in Nat /\ (Len(answers) - 1) + 1 = Len(answers)
      BY <1>2, <2>1
    <3>2. QED
      BY <3>1
  <2>3. Len(answers') = len /\ \A m \in 1..len : answers'[m] = answers[m + 1]
    BY <1>3, <2>1, <2>2
  <2>4. FitsList(store, h)
    BY <1>2, HandlersFit DEF Fits
  <2>5. ASSUME NEW i \in Items
        PROVE  ListedNow(i)' \subseteq IF Tells(answers[1], i) THEN {answers[1].versions[i]} ELSE ListedNow(i)
    <3>1. CASE "list" \in h.answer
      <4>1. Tells(answers[1], i)
        BY <1>1, <2>1, <3>1 DEF Tells, Effects
      <4>2. list' = a.versions
        BY <1>2, <2>4, <3>1 DEF ListBy, FitsList
      <4>3. QED
        BY <2>1, <4>1, <4>2 DEF ListedNow
    <3>2. CASE "list" \notin h.answer /\ a.item = i /\ h.answer \cap {"put", "put if listed", "drop"} # {}
      <4>1. (loaded' <=> loaded) /\ Tells(answers[1], i)
        <5>1. h.request # "list"
          BY <2>4, <3>2 DEF FitsList
        <5>2. Tells(a, i)
          BY <1>1, <3>2 DEF Tells, Effects
        <5>3. QED
          BY <1>2, <2>1, <5>1, <5>2
      <4>2. CASE "put" \in h.answer
        <5>1. list' = [list EXCEPT ![a.item] = a.versions[a.item]]
          BY <1>2, <2>4, <3>2, <4>2 DEF ListBy, FitsList
        <5>2. list'[i] = a.versions[i]
          BY <1>2, <3>2, <5>1
        <5>3. QED
          BY <2>1, <4>1, <5>2 DEF ListedNow
      <4>3. CASE "put" \notin h.answer /\ "put if listed" \in h.answer
        <5>1. ListedBefore(i) /\ 1 \in 1..Len(answers) /\ 1 - 1 = 0
          BY <2>1, <2>2 DEF ListInv, ListFollows
        <5>2. 0 \notin LastSaid(answers, 0, ListedNow(i), i)
          BY <1>1, <2>1, <3>2, <4>3, <5>1 DEF ListedBefore, Effects
        <5>3. LastSaid(answers, 0, ListedNow(i), i) = ListedNow(i)
          BY DEF LastSaid
        <5>4. loaded => list[i] # 0
          BY <5>2, <5>3 DEF ListedNow
        <5>5. loaded => list' = [list EXCEPT ![a.item] = a.versions[a.item]]
          BY <1>2, <2>4, <3>2, <4>3, <5>4 DEF ListBy, FitsList
        <5>6. loaded => list'[i] = a.versions[i]
          BY <1>2, <3>2, <5>5
        <5>7. QED
          BY <2>1, <4>1, <5>6 DEF ListedNow
      <4>4. CASE h.answer \cap {"put", "put if listed"} = {}
        <5>1. "drop" \in h.answer /\ a.versions[i] = 0
          BY <1>4, <3>2, <4>4
        <5>2. list' = [list EXCEPT ![a.item] = 0]
          BY <1>2, <3>2, <4>4, <5>1 DEF ListBy
        <5>3. list'[i] = 0
          BY <1>2, <3>2, <5>2
        <5>4. QED
          BY <2>1, <4>1, <5>1, <5>3 DEF ListedNow
      <4>5. QED
        BY <4>2, <4>3, <4>4
    <3>3. CASE ~("list" \in h.answer) /\ ~(a.item = i /\ h.answer \cap {"put", "put if listed", "drop"} # {})
      <4>1. (loaded' <=> loaded) /\ ~Tells(answers[1], i)
        <5>1. h.request # "list"
          BY <2>4, <3>3 DEF FitsList
        <5>2. ~Tells(a, i)
          BY <1>1, <3>3 DEF Tells, Effects
        <5>3. QED
          BY <1>2, <2>1, <5>1, <5>2
      <4>2. list'[i] = list[i]
        <5>1. CASE a.item = i
          BY <1>2, <3>3, <5>1 DEF ListBy
        <5>2. CASE a.item # i
          BY <1>2, <3>3, <5>2 DEF ListBy
        <5>3. QED
          BY <5>1, <5>2
      <4>3. QED
        BY <4>1, <4>2 DEF ListedNow
    <3>4. QED
      BY <3>1, <3>2, <3>3
  <2>6. ASSUME NEW i \in Items, NEW k \in 0..len
        PROVE  LastSaid(answers', k, ListedNow(i)', i) \subseteq LastSaid(answers, k + 1, ListedNow(i), i)
    <3>1. k \in Nat /\ \A m \in 1..k : answers'[m] = answers[m + 1]
      BY <2>3
    <3>2. PICK now : now = ListedNow(i)'
      OBVIOUS
    <3>3. QED
      BY <2>5, <3>1, <3>2, SaidFirst
  <2>7. ASSUME NEW i \in Items PROVE ListedBefore(i)'
    <3>1. ASSUME NEW k \in 1..len, "put if listed" \in Effects(answers'[k]), answers'[k].item = i
          PROVE  0 \notin LastSaid(answers', k - 1, ListedNow(i)', i)
      <4>1. k + 1 \in 1..Len(answers) /\ answers'[k] = answers[k + 1] /\ (k + 1) - 1 = k
            /\ k - 1 \in 0..len /\ (k - 1) + 1 = k
        BY <2>2, <2>3
      <4>2. 0 \notin LastSaid(answers, k, ListedNow(i), i)
        BY <2>1, <3>1, <4>1 DEF ListInv, ListFollows, ListedBefore
      <4>3. LastSaid(answers', k - 1, ListedNow(i)', i) \subseteq LastSaid(answers, k, ListedNow(i), i)
        BY <2>6, <4>1
      <4>4. QED
        BY <4>2, <4>3
    <3>2. QED
      BY <2>3, <3>1 DEF ListedBefore, Effects
  <2>8. ASSUME NEW i \in Items, LastSays(i) PROVE LastSays(i)'
    <3>1. len \in 0..len
      OBVIOUS
    <3>2. QED
      BY <1>2, <2>2, <2>3, <2>6, <2>8, <3>1 DEF LastSays
  <2>9. ReloadDue => ReloadDue'
    <3>1. SUFFICES ASSUME ReloadDue PROVE ReloadDue'
      OBVIOUS
    <3>2. store \in ReloadStores
      BY <3>1 DEF ReloadDue
    <3>3. CASE h.next # {}
      <4>1. h.next \in SUBSET NextOf(store)
        BY <1>2, HandlersFit DEF Fits
      <4>2. PICK item \in Items \cup {NoItem} : item = IF "list" \in h.answer THEN selected' ELSE NoItem
        BY <1>1
      <4>3. \E c \in Range(next) : Named[c.handler].request = "list"
        BY <1>1, <3>2, <3>3, <4>1, <4>2, ReloadCalled
      <4>4. QED
        BY <1>1, <1>2, <3>2, <4>3 DEF ReloadDue
    <3>4. CASE h.next = {}
      BY <1>1, <1>2, <1>3, <3>1, <3>4 DEF ReloadDue
    <3>5. QED
      BY <3>3, <3>4
  <2>10. ListFollows'
    BY <2>1, <2>7, <2>8, <2>9 DEF ListInv, ListFollows
  <2>11. QED
    BY <1>4, <2>10 DEF ListInv
<1>8. QED
  BY <1>6, <1>7

LEMMA NextList ==
  StoreTyped /\ FlagsHeld /\ ListInv /\ [Next]_vars => ListInv'
<1>1. ASSUME StoreTyped, FlagsHeld, ListInv, Next PROVE ListInv'
  BY <1>1, AskList, ServeList, FailList, ArriveList, LoseList DEF Next
<1>2. ASSUME StoreTyped, FlagsHeld, ListInv, UNCHANGED vars PROVE ListInv'
  <2>1. StoreTyped' /\ (ReloadDue => ReloadDue')
    BY <1>2 DEF vars, StoreTyped, TypeOK, UnderWay, ReloadDue
  <2>2. UNCHANGED <<store, list, loaded, answers, server>> /\ excused' = excused
    BY <1>2 DEF vars
  <2>3. QED
    BY <1>2, <2>1, <2>2, ListStays
<1>3. QED
  BY <1>1, <1>2

\* A store that has loaded its list lists what the adapter has as soon as
\* nothing is under way, unless an answer was lost or overtaken.
THEOREM ListsAgree == Spec => []SettledListIsServers
<1>1. StoreTyped /\ ListInv => SettledListIsServers
  <2>1. SUFFICES ASSUME StoreTyped, ListInv, loaded, Quiet, "list" \notin excused
                 PROVE  list = server
    BY DEF SettledListIsServers
  <2>2. answers = <<>> /\ Len(answers) = 0 /\ ~ReloadDue
    <3>1. UnderWay = {}
      BY <2>1, QuietHasNothing
    <3>2. QED
      BY <2>1, <3>1 DEF Quiet, ReloadDue, UnderWay
  <2>3. ASSUME NEW i \in Items PROVE list[i] = server[i]
    <3>1. LastSaid(answers, 0, ListedNow(i), i) \subseteq {server[i]}
      BY <2>1, <2>2 DEF ListInv, ListFollows, LastSays
    <3>2. LastSaid(answers, 0, ListedNow(i), i) = {list[i]}
      BY <2>1 DEF LastSaid, ListedNow
    <3>3. QED
      BY <3>1, <3>2
  <2>4. QED
    BY <2>1, <2>3 DEF StoreTyped, TypeOK
<1>2. QED
  BY <1>1, ItemsInductive, InitItems, NextItems, InitList, NextList, PTL DEF Spec

-----------------------------------------------------------------------------
(* What is shown *)

\* The answer of a call is shown.
Fetches(c) == "show" \in Effects(c)

\* The item of the last call of a queue whose answer is shown, or what was
\* shown before when there is none.
LastFetched(q, had) ==
  {q[k].item : k \in {j \in 1..Len(q) : /\ Fetches(q[j])
                                        /\ \A m \in (j + 1)..Len(q) : ~Fetches(q[m])}}
  \cup (IF \A k \in 1..Len(q) : ~Fetches(q[k]) THEN had ELSE {})

\* Stores that show no detail of an item.
BlankStores == {"inventory", "models", "packs", "processes", "profiles", "worktrees"}

BlankShows == store \in BlankStores => shown = NoItem

\* The jobs of cron show a copy of the row that is selected.
CronShows == store = "cron" => shown = selected

\* Two stores ask for the detail of what is selected, and select what an answer
\* shows.
CarefulShows ==
  store \in {"artifacts", "delegations"} /\ "shown" \notin excused =>
    selected = NoItem \/ shown \in {NoItem, selected} \/ \E c \in UnderWay : Fetches(c)

\* The others show whatever was asked last.
HeedlessShows ==
  store \in Heedless /\ "shown" \notin excused /\ selected # NoItem =>
    LastFetched(asked, LastFetched(answers, {shown} \ {NoItem})) \subseteq {selected}

ShownFollows == BlankShows /\ CronShows /\ CarefulShows /\ HeedlessShows

LEMMA InitShown == Init => ShownFollows
<1> SUFFICES ASSUME Init PROVE ShownFollows
  OBVIOUS
<1>1. shown = NoItem /\ selected = NoItem
  BY DEF Init
<1>2. QED
  BY <1>1 DEF ShownFollows, BlankShows, CronShows, CarefulShows, HeedlessShows

\* What calls begin with is what their handlers begin with.
LEMMA BeginCalls ==
  ASSUME NEW calls \in Seq(ItemCallKinds), NEW e \in BeginOf(calls)
  PROVE  \E c \in Range(calls) : e \in Named[c.handler].begin
BY DEF BeginOf, Range

LEMMA BeginsFit ==
  ASSUME StoreTyped, NEW calls \in Seq(ItemCallKinds), NEW e \in BeginOf(calls),
         \A c \in Range(calls) : Named[c.handler] \in HandlersIn[store]
  PROVE  \E c \in Range(calls) : /\ e \in Named[c.handler].begin
                                 /\ FitsShown(store, Named[c.handler])
<1>1. PICK c \in Range(calls) : e \in Named[c.handler].begin
  BY BeginCalls
<1>2. Fits(store, Named[c.handler])
  BY HandlersFit DEF StoreTyped, TypeOK
<1>3. QED
  BY <1>1, <1>2 DEF Fits

\* Most stores show no detail.
LEMMA BlankNext ==
  ASSUME StoreTyped, FlagsHeld, BlankShows, Next
  PROVE  BlankShows'
<1> SUFFICES ASSUME store' \in BlankStores PROVE shown' = NoItem
  BY DEF BlankShows
<1>1. store' = store /\ store \in StoreNames
  BY DEF Next, Ask, Serve, Fail, Arrive, Lose, StoreTyped, TypeOK
<1>2. shown = NoItem /\ store \in BlankStores /\ store \notin Heedless /\ store # "cron"
  BY <1>1 DEF BlankShows, BlankStores, Heedless
<1>3. ASSUME NEW s \in BlankStores, NEW h, FitsShown(s, h)
      PROVE  (h.begin \cup h.answer \cup h.fail) \cap Showing = {}
  BY <1>3 DEF FitsShown, BlankStores, Heedless
<1>4. ASSUME NEW effects, effects \cap Showing = {}, NEW item, NEW first
      PROVE  ShownBy(effects, item, first) = NoItem
  BY <1>2, <1>4 DEF ShownBy, Showing
<1>5. ASSUME NEW button \in Buttons[store], NEW item \in Items \cup {NoItem}, Ask(button, item)
      PROVE  shown' = NoItem
  <2>1. PICK calls, after \in Seq(ItemCallKinds) : AskDoes(button, item, calls, after)
    BY <1>5, AskStep
  <2>2. BeginOf(calls) \cap Showing = {}
    BY <1>2, <1>3, <2>1, BeginsFit DEF AskDoes
  <2>3. button.first \cap Showing = {}
    BY <1>1, <1>2, ButtonsFirst DEF FitsFirst, Showing, BlankStores
  <2>4. (button.first \cup BeginOf(calls)) \cap Showing = {}
    BY <2>2, <2>3
  <2>5. QED
    BY <1>4, <2>1, <2>4 DEF AskDoes
<1>6. ASSUME NEW n \in DOMAIN answers, NEW first \in Items \cup {NoItem}, Arrive(n, first)
      PROVE  shown' = NoItem
  <2>1. PICK next, after \in Seq(ItemCallKinds), a \in AnswerKinds, h \in HandlersIn[store] :
          ArriveDoes(n, next, after, a, h)
    BY <1>6, ArriveStep
  <2>2. FitsShown(store, h)
    BY <1>1, HandlersFit DEF Fits
  <2>3. h.answer \cap Showing = {}
    BY <1>2, <1>3, <2>2
  <2>4. QED
    BY <1>4, <1>6, <2>1, <2>3 DEF ArriveDoes, Arrive
<1>7. ASSUME (\E n \in DOMAIN asked : Fail(n)) \/ (\E n \in DOMAIN answers : Lose(n))
      PROVE  shown' = NoItem
  <2>1. PICK c \in UnderWay : Failed(Named[c.handler], c.item)
    BY <1>7, FailStep
  <2>2. FitsShown(store, Named[c.handler])
    BY UnderWayFits DEF Fits
  <2>3. Named[c.handler].fail \cap Showing = {}
    BY <1>2, <1>3, <2>2
  <2>4. QED
    BY <1>4, <2>1, <2>3 DEF Failed
<1>8. ASSUME NEW n \in DOMAIN asked, Serve(n)
      PROVE  shown' = NoItem
  BY <1>2, <1>8 DEF Serve
<1>9. QED
  BY <1>5, <1>6, <1>7, <1>8 DEF Next

\* The jobs of cron: what is selected and what is shown change together.
LEMMA CronNext ==
  ASSUME StoreTyped, FlagsHeld, CronShows, Next
  PROVE  CronShows'
<1> SUFFICES ASSUME store' = "cron" PROVE shown' = selected'
  BY DEF CronShows
<1>1. store' = store /\ store \in StoreNames
  BY DEF Next, Ask, Serve, Fail, Arrive, Lose, StoreTyped, TypeOK
<1>2. shown = selected /\ store = "cron" /\ store \notin Heedless /\ Follows(store) = {}
  BY <1>1 DEF CronShows, Heedless, Follows
<1>3. ASSUME NEW h, FitsShown("cron", h)
      PROVE  /\ h.begin = {} /\ h.fail = {}
             /\ \/ h.answer \cap (Selecting \cup Showing \cup {"hide", "hide if empty"}) = {}
                \/ h.answer = {"list", "keep or select first", "keep or show first"}
                \/ h.answer = {"deselect", "hide"}
  BY <1>3 DEF FitsShown, Heedless
<1>4. ASSUME NEW button \in Buttons[store], NEW item \in Items \cup {NoItem}, Ask(button, item)
      PROVE  shown' = selected'
  <2>1. PICK calls, after \in Seq(ItemCallKinds) : AskDoes(button, item, calls, after)
    BY <1>4, AskStep
  <2>2. BeginOf(calls) = {}
    BY <1>2, <1>3, <2>1, BeginsFit DEF AskDoes
  <2>3. button.first = {} \/ button.first = {"select", "show"}
    BY <1>1, <1>2, ButtonsFirst DEF FitsFirst
  <2>4. \/ button.first \cup BeginOf(calls) = {}
        \/ button.first \cup BeginOf(calls) = {"select", "show"}
    BY <2>2, <2>3
  <2>5. QED
    BY <1>2, <2>1, <2>4 DEF AskDoes, SelectedBy, ShownBy
<1>5. ASSUME NEW n \in DOMAIN answers, NEW first \in Items \cup {NoItem}, Arrive(n, first)
      PROVE  shown' = selected'
  <2>1. PICK next, after \in Seq(ItemCallKinds), a \in AnswerKinds, h \in HandlersIn[store] :
          ArriveDoes(n, next, after, a, h)
    BY <1>5, ArriveStep
  <2>2. FitsShown("cron", h)
    BY <1>1, <1>2, HandlersFit DEF Fits
  <2>3. /\ selected' = SelectedBy(h.answer, answers[n].item, first)
        /\ shown' = ShownBy(h.answer, answers[n].item, first)
    BY <1>2, <1>5, <2>1 DEF ArriveDoes, Arrive
  <2>4. CASE h.answer \cap (Selecting \cup Showing \cup {"hide", "hide if empty"}) = {}
    BY <1>2, <2>3, <2>4 DEF SelectedBy, ShownBy, Selecting, Showing
  <2>5. CASE h.answer = {"list", "keep or select first", "keep or show first"}
    BY <1>2, <2>3, <2>5 DEF SelectedBy, ShownBy
  <2>6. CASE h.answer = {"deselect", "hide"}
    BY <1>2, <2>3, <2>6 DEF SelectedBy, ShownBy
  <2>7. QED
    BY <1>3, <2>2, <2>4, <2>5, <2>6
<1>6. ASSUME (\E n \in DOMAIN asked : Fail(n)) \/ (\E n \in DOMAIN answers : Lose(n))
      PROVE  shown' = selected'
  <2>1. PICK c \in UnderWay : Failed(Named[c.handler], c.item)
    BY <1>6, FailStep
  <2>2. FitsShown(store, Named[c.handler])
    BY UnderWayFits DEF Fits
  <2>3. Named[c.handler].fail = {}
    BY <1>2, <1>3, <2>2
  <2>4. QED
    BY <1>2, <2>1, <2>3 DEF Failed, ShownBy
<1>7. ASSUME NEW n \in DOMAIN asked, Serve(n)
      PROVE  shown' = selected'
  BY <1>2, <1>7 DEF Serve
<1>8. QED
  BY <1>4, <1>5, <1>6, <1>7 DEF Next

\* A request that is served keeps its handler and its item.
LEMMA ServeStep ==
  ASSUME StoreTyped, FlagsHeld, NEW n \in DOMAIN asked, Serve(n)
  PROVE  \E a \in AnswerKinds :
           /\ a.handler = asked[n].handler /\ a.item = asked[n].item
           /\ answers' = Append(answers, a) /\ asked' = Rest(asked, n)
           /\ Range(answers') = Range(answers) \cup {a}
           /\ Range(asked) = Range(asked') \cup {asked[n]}
<1>1. PICK a : /\ a.handler = asked[n].handler /\ a.item = asked[n].item
               /\ answers' = Append(answers, a)
  BY DEF Serve
<1>2. /\ asked \in Seq(ItemCallKinds) /\ answers \in Seq(AnswerKinds)
      /\ answers' \in Seq(AnswerKinds) /\ asked' = Rest(asked, n)
  BY ServeTyped DEF StoreTyped, Serve, Without, Rest
<1>3. a \in AnswerKinds
  <2>1. PICK len \in Nat : len = Len(answers)
    BY <1>2
  <2>2. len + 1 \in DOMAIN answers' /\ answers'[len + 1] = a
    BY <1>1, <1>2, <2>1
  <2>3. QED
    BY <1>2, <2>2
<1>4. Range(answers') = Range(answers) \cup {a}
  BY <1>1, <1>2, <1>3, OneJoins
<1>5. Range(asked) = Range(asked') \cup {asked[n]}
  BY <1>2, OneLeaves
<1>6. QED
  BY <1>1, <1>2, <1>3, <1>4, <1>5

LEMMA SettleShown ==
  ASSUME NEW excuses, Settle(excuses), "shown" \notin excused', "shown" \in excuses
  PROVE  asked' = <<>> /\ answers' = <<>> /\ shown' \in {NoItem, selected'}
BY DEF Settle, Agrees

\* Artifacts and delegations.
LEMMA CarefulNext ==
  ASSUME StoreTyped, FlagsHeld, CarefulShows, Next
  PROVE  CarefulShows'
<1> DEFINE Well == selected = NoItem \/ shown \in {NoItem, selected} \/ \E c \in UnderWay : Fetches(c)
<1> SUFFICES ASSUME store' \in {"artifacts", "delegations"}, "shown" \notin excused'
             PROVE  Well'
  BY DEF CarefulShows
<1>1. store' = store /\ store \in StoreNames
  BY DEF Next, Ask, Serve, Fail, Arrive, Lose, StoreTyped, TypeOK
<1>2. /\ store \in {"artifacts", "delegations"} /\ store \notin Heedless
      /\ Follows(store) = {}
      /\ "shown" \notin excused => Well
  BY <1>1 DEF CarefulShows, Heedless, Follows
<1>3. ASSUME NEW h, FitsShown(store, h)
      PROVE  /\ h.begin \subseteq {"select"} /\ (h.begin # {} => "show" \in h.answer)
             /\ "keep or show first" \notin h.answer
             /\ "show" \in h.answer => /\ h.answer \cap Selecting = {"select"}
                                       /\ h.answer \cap {"hide", "hide if empty"} = {}
             /\ "show" \notin h.answer /\ h.answer \cap Selecting # {} =>
                  /\ "list" \in h.answer
                  /\ h.next = {"selectArtifact"} \/ h.next = {"loadDelegationDetail"}
  BY <1>2, <1>3 DEF FitsShown
<1>4. ASSUME NEW button \in Buttons[store], NEW item \in Items \cup {NoItem}, Ask(button, item)
      PROVE  Well'
  <2>1. PICK calls, after \in Seq(ItemCallKinds) : AskDoes(button, item, calls, after)
    BY <1>4, AskStep
  <2>2. UnderWay' = UnderWay \cup Range(calls) \cup Range(after) /\ excused' = excused
    BY <2>1 DEF AskDoes, UnderWay
  <2>3. ASSUME NEW e \in BeginOf(calls)
        PROVE  e = "select" /\ \E c \in Range(calls) : Fetches(c)
    <3>1. PICK c \in Range(calls) : e \in Named[c.handler].begin /\ FitsShown(store, Named[c.handler])
      BY <2>1, BeginsFit DEF AskDoes
    <3>2. QED
      BY <1>3, <3>1 DEF Fetches, Effects
  <2>4. button.first = {} \/ button.first = {"select", "hide"}
    BY <1>1, <1>2, ButtonsFirst DEF FitsFirst
  <2>5. CASE button.first = {"select", "hide"}
    <3>1. button.first \cup BeginOf(calls) = {"select", "hide"}
      BY <2>3, <2>5
    <3>2. shown' = NoItem
      BY <1>2, <2>1, <3>1 DEF AskDoes, ShownBy
    <3>3. QED
      BY <3>2
  <2>6. CASE button.first = {} /\ BeginOf(calls) = {}
    <3>1. button.first \cup BeginOf(calls) = {}
      BY <2>6
    <3>2. selected' = selected /\ shown' = shown
      BY <1>2, <2>1, <3>1 DEF AskDoes, ShownBy, SelectedBy
    <3>3. QED
      BY <1>2, <2>2, <3>2
  <2>7. CASE BeginOf(calls) # {}
    BY <2>2, <2>3, <2>7
  <2>8. QED
    BY <2>4, <2>5, <2>6, <2>7
<1>5. ASSUME NEW n \in DOMAIN asked, Serve(n) PROVE Well'
  <2>1. PICK a \in AnswerKinds :
           /\ a.handler = asked[n].handler /\ a.item = asked[n].item
           /\ answers' = Append(answers, a) /\ asked' = Rest(asked, n)
           /\ Range(answers') = Range(answers) \cup {a}
           /\ Range(asked) = Range(asked') \cup {asked[n]}
    BY <1>5, ServeStep
  <2>2. selected' = selected /\ shown' = shown /\ excused' = excused
    BY <1>2, <1>5 DEF Serve
  <2>3. ASSUME NEW c \in UnderWay, Fetches(c) PROVE \E d \in UnderWay' : Fetches(d)
    BY <2>1, <2>3 DEF UnderWay, Fetches, Effects
  <2>4. QED
    BY <1>2, <2>2, <2>3
<1>6. ASSUME NEW n \in DOMAIN answers, NEW first \in Items \cup {NoItem}, Arrive(n, first)
      PROVE  Well'
  <2>1. PICK next, after \in Seq(ItemCallKinds), a \in AnswerKinds, h \in HandlersIn[store] :
          ArriveDoes(n, next, after, a, h)
    BY <1>6, ArriveStep
  <2>2. FitsShown(store, h)
    BY <1>1, HandlersFit DEF Fits
  <2>3. /\ selected' = SelectedBy(h.answer, a.item, first)
        /\ shown' = ShownBy(h.answer, a.item, first)
    BY <1>2, <1>6, <2>1 DEF ArriveDoes, Arrive
  <2>4. Range(answers) = Range(answers') \cup {a}
    BY <1>6, <2>1, AnswerLeaves DEF ArriveDoes, Arrive
  <2>5. "shown" \notin excused \/ shown' \in {NoItem, selected'}
    <3>1. PICK excuses : Settle(excuses) /\ excused \subseteq excuses
      BY <1>6 DEF Arrive
    <3>2. QED
      BY <3>1, SettleShown
  <2>6. CASE "show" \in h.answer
    <3>1. /\ h.answer \cap Selecting = {"select"} /\ "keep or show first" \notin h.answer
          /\ h.answer \cap {"hide", "hide if empty"} = {}
      BY <1>3, <2>2, <2>6
    <3>2. shown' = a.item
      BY <2>3, <2>6, <3>1 DEF ShownBy
    <3>3. selected' = a.item
      <4>1. /\ "select" \in h.answer /\ "select first" \notin h.answer
            /\ "keep or select first" \notin h.answer /\ "deselect" \notin h.answer
            /\ "deselect it" \notin h.answer
        <5>1. \A e \in Selecting : e \in h.answer <=> e = "select"
          BY <3>1
        <5>2. QED
          BY <5>1 DEF Selecting
      <4>2. QED
        BY <2>3, <4>1 DEF SelectedBy
    <3>4. QED
      BY <3>2, <3>3
  <2>7. CASE "show" \notin h.answer /\ h.answer \cap Selecting = {}
    <3>1. selected' = selected /\ shown' \in {NoItem, shown}
      BY <1>3, <2>2, <2>3, <2>7 DEF SelectedBy, ShownBy, Selecting
    <3>2. ASSUME NEW c \in UnderWay, Fetches(c) PROVE c \in UnderWay'
      <4>1. c # a
        BY <2>1, <2>7, <3>2 DEF ArriveDoes, Fetches, Effects
      <4>2. QED
        BY <2>1, <2>4, <4>1 DEF ArriveDoes, UnderWay
    <3>3. QED
      BY <1>2, <2>5, <3>1, <3>2
  <2>8. CASE "show" \notin h.answer /\ h.answer \cap Selecting # {}
    <3>1. "list" \in h.answer /\ (h.next = {"selectArtifact"} \/ h.next = {"loadDelegationDetail"})
      BY <1>3, <2>2, <2>8
    <3>2. h.next \in SUBSET Names /\ \A g \in h.next : "show" \in Named[g].answer
      <4>1. "show" \in selectArtifact.answer /\ "show" \in loadDelegationDetail.answer
        BY DEF selectArtifact, loadDelegationDetail, Handler
      <4>2. QED
        BY <3>1, <4>1 DEF Named, Names
    <3>3. PICK item \in Items \cup {NoItem} : item = selected'
      BY <2>1 DEF ArriveDoes
    <3>4. next = Calls(h.next, item)
      BY <2>1, <3>1, <3>3 DEF ArriveDoes
    <3>5. CASE item = NoItem
      BY <3>3, <3>5
    <3>6. CASE item # NoItem
      <4>1. PICK c \in ItemCallKinds : Calls(h.next, item) = <<c>> /\ c.handler \in h.next
        BY <3>1, <3>2, <3>6, CallMade
      <4>2. Range(<<c>>) = {c}
        BY DEF Range
      <4>3. c \in UnderWay' /\ Fetches(c)
        BY <2>1, <3>2, <3>4, <4>1, <4>2 DEF ArriveDoes, UnderWay, Fetches, Effects
      <4>4. QED
        BY <4>3
    <3>7. QED
      BY <3>5, <3>6
  <2>9. QED
    BY <2>6, <2>7, <2>8
<1>7. ASSUME (\E n \in DOMAIN asked : Fail(n)) \/ (\E n \in DOMAIN answers : Lose(n))
      PROVE  Well'
  BY <1>7, FailStep, SettleShown
<1>8. QED
  BY <1>4, <1>5, <1>6, <1>7 DEF Next

\* Calls that join a queue: one of them is the last, or what was before.
LEMMA FetchedJoins ==
  ASSUME NEW S, NEW q \in Seq(S), NEW t \in Seq(S), NEW had, NEW v \in LastFetched(q \o t, had)
  PROVE  \/ \E c \in Range(t) : Fetches(c) /\ v = c.item
         \/ v \in LastFetched(q, had) /\ \A c \in Range(t) : ~Fetches(c)
<1>1. PICK both \in Seq(S) : both = q \o t
  BY ConcatProperties
<1>2. PICK a \in Nat, b \in Nat : a = Len(q) /\ b = Len(t)
  OBVIOUS
<1>3. /\ Len(both) = a + b
      /\ \A k \in 1..(a + b) : both[k] = IF k <= a THEN q[k] ELSE t[k - a]
  BY <1>1, <1>2, ConcatProperties
<1>4. (\A k \in 1..a : both[k] = q[k]) /\ (\A k \in 1..b : both[a + k] = t[k])
  <2>1. ASSUME NEW k \in 1..a PROVE both[k] = q[k]
    BY <1>3
  <2>2. ASSUME NEW k \in 1..b PROVE both[a + k] = t[k]
    <3>1. a + k \in 1..(a + b) /\ ~(a + k <= a) /\ (a + k) - a = k
      OBVIOUS
    <3>2. QED
      BY <1>3, <3>1
  <2>3. QED
    BY <2>1, <2>2
<1>5. Range(t) = {t[k] : k \in 1..b}
  BY <1>2, RangeEquality
<1>6. v \in LastFetched(both, had)
  BY <1>1
<1>7. ASSUME NEW k \in 1..(a + b), Fetches(both[k]),
             \A m \in (k + 1)..(a + b) : ~Fetches(both[m]), v = both[k].item
      PROVE  \/ \E c \in Range(t) : Fetches(c) /\ v = c.item
             \/ v \in LastFetched(q, had) /\ \A c \in Range(t) : ~Fetches(c)
  <2>1. CASE k \in 1..a
    <3>1. \A m \in 1..b : ~Fetches(t[m])
      <4>1. \A m \in 1..b : a + m \in (k + 1)..(a + b)
        BY <2>1
      <4>2. QED
        BY <1>4, <1>7, <4>1
    <3>2. \A m \in (k + 1)..a : ~Fetches(q[m])
      <4>1. \A m \in (k + 1)..a : m \in 1..a /\ m \in (k + 1)..(a + b)
        BY <2>1
      <4>2. QED
        BY <1>4, <1>7, <4>1
    <3>3. Fetches(q[k]) /\ v = q[k].item
      BY <1>4, <1>7, <2>1
    <3>4. QED
      BY <1>2, <1>5, <2>1, <3>1, <3>2, <3>3 DEF LastFetched
  <2>2. CASE k \notin 1..a
    <3>1. k - a \in 1..b /\ a + (k - a) = k
      BY <2>2
    <3>2. t[k - a] = both[k]
      BY <1>4, <3>1
    <3>3. QED
      BY <1>5, <1>7, <3>1, <3>2
  <2>3. QED
    BY <2>1, <2>2
<1>8. ASSUME v \in had, \A k \in 1..(a + b) : ~Fetches(both[k])
      PROVE  v \in LastFetched(q, had) /\ \A c \in Range(t) : ~Fetches(c)
  <2>1. (\A k \in 1..a : k \in 1..(a + b)) /\ (\A k \in 1..b : a + k \in 1..(a + b))
    OBVIOUS
  <2>2. (\A k \in 1..a : ~Fetches(q[k])) /\ (\A k \in 1..b : ~Fetches(t[k]))
    BY <1>4, <1>8, <2>1
  <2>3. QED
    BY <1>2, <1>5, <1>8, <2>2 DEF LastFetched
<1>9. QED
  <2>1. \/ \E k \in 1..(a + b) : /\ Fetches(both[k])
                                 /\ \A m \in (k + 1)..(a + b) : ~Fetches(both[m])
                                 /\ v = both[k].item
        \/ v \in had /\ \A k \in 1..(a + b) : ~Fetches(both[k])
    BY <1>3, <1>6 DEF LastFetched
  <2>2. QED
    BY <1>7, <1>8, <2>1

\* The first call of a queue is answered.
LEMMA FetchedFirst ==
  ASSUME NEW S, NEW q \in Seq(S), 1 \in DOMAIN q, NEW had, NEW now,
         now \subseteq IF Fetches(q[1]) THEN {q[1].item} ELSE had
  PROVE  LastFetched(Rest(q, 1), now) \subseteq LastFetched(q, had)
<1>1. PICK p \in Seq(S) : p = Rest(q, 1)
  BY OneLeaves
<1>2. PICK b \in Nat : Len(p) = b /\ Len(q) = b + 1
  <2>1. Len(p) = Len(q) - 1 /\ Len(p) \in Nat /\ Len(q) \in Nat
    BY <1>1, OneLeaves
  <2>2. QED
    BY <2>1
<1>3. \A m \in 1..b : p[m] = q[m + 1]
  <2>1. \A m \in 1..(Len(q) - 1) : p[m] = IF m < 1 THEN q[m] ELSE q[m + 1]
    BY <1>1, OneLeaves
  <2>2. \A m \in 1..b : m \in 1..(Len(q) - 1) /\ ~(m < 1)
    BY <1>2
  <2>3. QED
    BY <2>1, <2>2
<1>4. ASSUME NEW m \in 2..(b + 1) PROVE m - 1 \in 1..b /\ q[m] = p[m - 1]
  <2>1. m - 1 \in 1..b /\ (m - 1) + 1 = m
    OBVIOUS
  <2>2. QED
    BY <1>3, <2>1
<1>5. ASSUME NEW k \in 1..b, Fetches(p[k]), \A m \in (k + 1)..b : ~Fetches(p[m])
      PROVE  p[k].item \in LastFetched(q, had)
  <2>1. ASSUME NEW m \in ((k + 1) + 1)..(b + 1) PROVE ~Fetches(q[m])
    <3>1. m \in 2..(b + 1) /\ m - 1 \in (k + 1)..b
      OBVIOUS
    <3>2. QED
      BY <1>4, <1>5, <3>1
  <2>2. k + 1 \in 1..(b + 1) /\ Fetches(q[k + 1]) /\ p[k].item = q[k + 1].item
    BY <1>3, <1>5
  <2>3. QED
    BY <1>2, <2>1, <2>2 DEF LastFetched
<1>6. ASSUME NEW v \in now, \A k \in 1..b : ~Fetches(p[k])
      PROVE  v \in LastFetched(q, had)
  <2>1. \A m \in 2..(b + 1) : ~Fetches(q[m])
    BY <1>4, <1>6
  <2>2. CASE Fetches(q[1])
    <3>1. 1 \in 1..(b + 1) /\ 1 + 1 = 2 /\ v = q[1].item
      BY <2>2
    <3>2. QED
      BY <1>2, <2>1, <2>2, <3>1 DEF LastFetched
  <2>3. CASE ~Fetches(q[1])
    <3>1. \A m \in 1..(b + 1) : m = 1 \/ m \in 2..(b + 1)
      OBVIOUS
    <3>2. \A m \in 1..(b + 1) : ~Fetches(q[m])
      BY <2>1, <2>3, <3>1
    <3>3. QED
      BY <1>2, <2>3, <3>2 DEF LastFetched
  <2>4. QED
    BY <2>2, <2>3
<1>7. ASSUME NEW v \in LastFetched(p, now) PROVE v \in LastFetched(q, had)
  <2>1. \/ \E k \in 1..b : /\ Fetches(p[k]) /\ \A m \in (k + 1)..b : ~Fetches(p[m])
                           /\ v = p[k].item
        \/ v \in now /\ \A k \in 1..b : ~Fetches(p[k])
    BY <1>2, <1>7 DEF LastFetched
  <2>2. QED
    BY <1>5, <1>6, <2>1
<1>8. QED
  BY <1>1, <1>7

LEMMA FetchedMore ==
  ASSUME NEW q, NEW had, NEW more, had \subseteq more
  PROVE  LastFetched(q, had) \subseteq LastFetched(q, more)
BY DEF LastFetched

LEMMA FetchedNone ==
  ASSUME NEW had
  PROVE  LastFetched(<<>>, had) = had
BY DEF LastFetched

\* Whatever was asked last and is not answered yet.
Pending == LastFetched(asked, LastFetched(answers, {shown} \ {NoItem}))

\* Nothing is under way, and what is shown is what is selected.
LEMMA HeedlessSettled ==
  ASSUME NEW excuses, Settle(excuses), "shown" \notin excused', "shown" \in excuses
  PROVE  Pending' \subseteq {selected'}
<1>1. asked' = <<>> /\ answers' = <<>> /\ shown' \in {NoItem, selected'}
  BY SettleShown
<1>2. LastFetched(<<>>, LastFetched(<<>>, {shown'} \ {NoItem})) = {shown'} \ {NoItem}
  BY FetchedNone
<1>3. QED
  BY <1>1, <1>2 DEF Pending

\* The buttons of these stores ask for the detail of what they select.
LEMMA HeedlessPress ==
  ASSUME NEW s \in Heedless, NEW b \in Buttons[s]
  PROVE  \/ /\ b.handlers = {}
            /\ b.first = {"deselect", "hide"} \/ (b.first = {"select"} /\ s = "sessions")
         \/ \E h \in HandlersIn[s] :
              /\ b.handlers = {NameOf(h)}
              /\ \/ "show" \notin h.answer /\ b.first \cup h.begin = {}
                 \/ /\ "show" \in h.answer /\ h.request = "item"
                    /\ \/ b.first \cup h.begin \in {{"select"}, {"select", "hide"}}
                       \/ b.first \cup h.begin = {} /\ b.on = "selected"
<1>1. CASE s = "checkpoints"
  <2>1. \/ b.first = {} /\ b.handlers = {NameOf(loadCheckpoints)}
        \/ b.first = {"select", "hide"} /\ b.handlers = {NameOf(loadDiff)}
        \/ b.first = {} /\ b.on = "selected" /\ b.handlers = {NameOf(loadDiff)}
        \/ b.first = {"deselect", "hide"} /\ b.handlers = {}
    BY <1>1, HeedlessButtons
  <2>2. /\ loadCheckpoints.begin = {} /\ "show" \notin loadCheckpoints.answer
        /\ loadDiff.begin = {} /\ "show" \in loadDiff.answer /\ loadDiff.request = "item"
    BY DEF loadCheckpoints, loadDiff, Handler, CheckpointsApi
  <2>3. loadCheckpoints \in HandlersIn[s] /\ loadDiff \in HandlersIn[s]
    BY <1>1 DEF HandlersIn
  <2>4. QED
    BY <2>1, <2>2, <2>3
<1>2. CASE s = "context"
  <2>1. b.first = {} /\ \E h \in HandlersIn["context"] : b.handlers = {NameOf(h)}
    BY <1>2, HeedlessButtons
  <2>2. \A h \in HandlersIn["context"] :
           h.begin = {"select"} /\ "show" \in h.answer /\ h.request = "item"
    BY DEF HandlersIn, loadCurrentContext, loadWorkspaceContext, loadRunContext,
           loadSessionContext, Handler, ContextApi
  <2>3. QED
    BY <1>2, <2>1, <2>2
<1>3. CASE s = "logs"
  <2>1. /\ b.first = {"select", "hide"} \/ (b.first = {} /\ b.on = "selected")
        /\ b.handlers = {NameOf(loadRecent)}
    BY <1>3, HeedlessButtons
  <2>2. loadRecent.begin = {} /\ "show" \in loadRecent.answer /\ loadRecent.request = "item"
    BY DEF loadRecent, Handler, LogsApi
  <2>3. loadRecent \in HandlersIn[s]
    BY <1>3 DEF HandlersIn
  <2>4. QED
    BY <2>1, <2>2, <2>3
<1>4. CASE s = "sessions"
  <2>1. \/ b.first = {} /\ b.handlers = {NameOf(loadFromAdapter)}
        \/ b.first = {"select"} /\ b.handlers = {}
    BY <1>4, HeedlessButtons
  <2>2. loadFromAdapter.begin = {} /\ "show" \notin loadFromAdapter.answer
    BY DEF loadFromAdapter, Handler
  <2>3. loadFromAdapter \in HandlersIn[s]
    BY <1>4 DEF HandlersIn
  <2>4. QED
    BY <1>4, <2>1, <2>2, <2>3
<1>5. QED
  BY <1>1, <1>2, <1>3, <1>4 DEF Heedless

\* What follows a selection fetches it.
LEMMA FollowFetches ==
  ASSUME StoreTyped, selected' \in Items \cup {NoItem}
  PROVE  /\ \A c \in Range(Followed) : Fetches(c) /\ c.item = selected'
         /\ selected' # selected /\ selected' # NoItem /\ store \in {"sessions", "logs"} =>
              \E c \in Range(Followed) : TRUE
<1>1. Range(<<>>) = {}
  BY DEF Range
<1>2. CASE selected' = selected
  BY <1>1, <1>2 DEF Followed
<1>3. CASE selected' # selected
  <2>1. PICK item \in Items \cup {NoItem} : item = selected'
    OBVIOUS
  <2>2. /\ Follows(store) \in SUBSET Names
        /\ \A g \in Follows(store) : "show" \in Named[g].answer /\ Named[g].request = "item"
    <3>1. /\ "show" \in showSession.answer /\ showSession.request = "item"
          /\ "show" \in loadRecent.answer /\ loadRecent.request = "item"
      BY DEF showSession, loadRecent, Handler, SessionsApi, LogsApi
    <3>2. QED
      BY <3>1 DEF Follows, Named, Names
  <2>3. Followed = Calls(Follows(store), item)
    BY <1>3, <2>1 DEF Followed
  <2>4. \/ /\ Followed = <<>>
           /\ \A h \in Follows(store) : item = NoItem
        \/ \E c \in ItemCallKinds : Followed = <<c>> /\ c.handler \in Follows(store) /\ c.item = item
    BY <2>2, <2>3, CallMade
  <2>5. store \in {"sessions", "logs"} => Follows(store) # {}
    BY DEF Follows
  <2>6. CASE Followed = <<>> /\ \A h \in Follows(store) : item = NoItem
    BY <1>1, <2>1, <2>5, <2>6
  <2>7. ASSUME NEW c \in ItemCallKinds, Followed = <<c>>, c.handler \in Follows(store), c.item = item
        PROVE  /\ \A d \in Range(Followed) : Fetches(d) /\ d.item = selected'
               /\ \E d \in Range(Followed) : TRUE
    <3>1. Range(<<c>>) = {c}
      BY DEF Range
    <3>2. QED
      BY <2>1, <2>2, <2>7, <3>1 DEF Fetches, Effects
  <2>8. QED
    BY <2>4, <2>6, <2>7
<1>4. QED
  BY <1>2, <1>3

\* What a button calls fetches what it selects.
LEMMA PressFetches ==
  ASSUME StoreTyped, store \in Heedless, NEW button \in Buttons[store],
         NEW item \in Items \cup {NoItem}, Ask(button, item), selected' # NoItem,
         NEW calls \in Seq(ItemCallKinds), NEW after \in Seq(ItemCallKinds),
         AskDoes(button, item, calls, after)
  PROVE  /\ \A c \in Range(calls) \cup Range(after) : Fetches(c) => c.item = selected'
         /\ selected' = selected \/ \E c \in Range(calls) \cup Range(after) : Fetches(c)
         /\ shown' \in {NoItem, shown}
<1>1. /\ \A c \in Range(after) : Fetches(c) /\ c.item = selected'
      /\ selected' # selected /\ store = "sessions" => \E c \in Range(after) : TRUE
  BY FollowFetches DEF AskDoes
<1>2. store \in StoreNames /\ Range(<<>>) = {} /\ BeginOf(<<>>) = {}
  BY DEF StoreTyped, TypeOK, Range, BeginOf
<1>3. PICK begin : begin = button.first \cup BeginOf(calls)
  OBVIOUS
<1>4. /\ selected' = SelectedBy(begin, item, NoItem)
      /\ shown' \in {NoItem, ShownBy(begin, item, NoItem)}
      /\ calls = Calls(button.handlers, item)
  BY <1>3 DEF AskDoes
<1>5. /\ begin = {} => selected' = selected /\ shown' \in {NoItem, shown}
      /\ begin \in {{"select"}, {"select", "hide"}} => selected' = item /\ shown' \in {NoItem, shown}
      /\ begin = {"deselect", "hide"} => selected' = NoItem
  <2>1. begin = {} => selected' = selected /\ shown' \in {NoItem, shown}
    BY <1>4 DEF SelectedBy, ShownBy
  <2>2. begin = {"select"} => selected' = item /\ shown' \in {NoItem, shown}
    BY <1>4 DEF SelectedBy, ShownBy
  <2>3. begin = {"select", "hide"} => selected' = item /\ shown' \in {NoItem, shown}
    BY <1>4 DEF SelectedBy, ShownBy
  <2>4. begin = {"deselect", "hide"} => selected' = NoItem
    BY <1>4 DEF SelectedBy
  <2>5. QED
    BY <2>1, <2>2, <2>3, <2>4
<1>6. CASE /\ button.handlers = {}
           /\ \/ button.first = {"deselect", "hide"}
              \/ (button.first = {"select"} /\ store = "sessions")
  <2>1. calls = <<>>
    BY <1>4, <1>6 DEF Calls
  <2>2. begin = button.first
    BY <1>2, <1>3, <2>1
  <2>3. store = "sessions" /\ button.first = {"select"}
    BY <1>5, <1>6, <2>2
  <2>4. QED
    BY <1>1, <1>2, <1>5, <2>1, <2>2, <2>3
<1>7. ASSUME NEW h \in HandlersIn[store], button.handlers = {NameOf(h)},
             \/ "show" \notin h.answer /\ button.first \cup h.begin = {}
             \/ /\ "show" \in h.answer /\ h.request = "item"
                /\ \/ button.first \cup h.begin \in {{"select"}, {"select", "hide"}}
                   \/ button.first \cup h.begin = {} /\ button.on = "selected"
      PROVE  /\ \A c \in Range(calls) : Fetches(c) => c.item = selected'
             /\ selected' = selected \/ \E c \in Range(calls) : Fetches(c)
             /\ shown' \in {NoItem, shown}
  <2>1. NameOf(h) \in Names /\ Named[NameOf(h)] = h
    BY <1>2, HandlersNamed
  <2>2. PICK handlers \in SUBSET Names : handlers = button.handlers
    BY <1>7, <2>1
  <2>3. \/ /\ calls = <<>> /\ h.request = "item" /\ item = NoItem
        \/ \E c \in ItemCallKinds :
             /\ calls = <<c>> /\ c.handler = NameOf(h)
             /\ h.request # "ask" => c.item = item
             /\ h.request = "item" => item # NoItem
    BY <1>4, <1>7, <2>1, <2>2, CallMade
  <2>4. button.on = "selected" => item = selected
    BY DEF Ask, Offered, Targets
  <2>5. CASE calls = <<>> /\ h.request = "item" /\ item = NoItem
    <3>1. begin = button.first
      BY <1>2, <1>3, <2>5
    <3>2. button.first \in {{}, {"select"}, {"select", "hide"}, {"hide"}}
      BY <1>7
    <3>3. CASE button.first = {"hide"}
      <4>1. selected' = selected /\ shown' = NoItem
        BY <1>4, <3>1, <3>3 DEF SelectedBy, ShownBy
      <4>2. QED
        BY <1>2, <2>5, <4>1
    <3>4. CASE button.first # {"hide"}
      BY <1>2, <1>5, <2>5, <3>1, <3>2, <3>4
    <3>5. QED
      BY <3>3, <3>4
  <2>6. ASSUME NEW c \in ItemCallKinds, calls = <<c>>, c.handler = NameOf(h),
               h.request # "ask" => c.item = item,
               h.request = "item" => item # NoItem
        PROVE  /\ \A d \in Range(calls) : Fetches(d) => d.item = selected'
               /\ selected' = selected \/ \E d \in Range(calls) : Fetches(d)
               /\ shown' \in {NoItem, shown}
    <3>1. Range(<<c>>) = {c}
      BY DEF Range
    <3>2. BeginOf(<<c>>) = Named[c.handler].begin
      BY DEF BeginOf
    <3>3. begin = button.first \cup h.begin
      BY <1>3, <2>1, <2>6, <3>2
    <3>4. Fetches(c) <=> "show" \in h.answer
      BY <2>1, <2>6 DEF Fetches, Effects
    <3>5. CASE "show" \notin h.answer /\ button.first \cup h.begin = {}
      BY <1>5, <2>6, <3>1, <3>3, <3>4, <3>5
    <3>6. CASE "show" \in h.answer /\ h.request = "item"
      BY <1>5, <1>7, <2>4, <2>6, <3>1, <3>3, <3>4, <3>6
    <3>7. QED
      BY <1>7, <3>5, <3>6
  <2>7. QED
    BY <2>3, <2>5, <2>6
<1>8. QED
  BY <1>1, <1>6, <1>7, HeedlessPress

\* Stores that show whatever was asked last.
LEMMA HeedlessAsk ==
  ASSUME StoreTyped, HeedlessShows, store \in Heedless, NEW button \in Buttons[store],
         NEW item \in Items \cup {NoItem}, Ask(button, item),
         "shown" \notin excused', selected' # NoItem
  PROVE  Pending' \subseteq {selected'}
<1>1. PICK calls, after \in Seq(ItemCallKinds) : AskDoes(button, item, calls, after)
  BY AskStep
<1>2. /\ \A c \in Range(calls) \cup Range(after) : Fetches(c) => c.item = selected'
      /\ selected' = selected \/ \E c \in Range(calls) \cup Range(after) : Fetches(c)
      /\ shown' \in {NoItem, shown}
  BY <1>1, PressFetches
<1>3. /\ asked \in Seq(ItemCallKinds) /\ asked' = asked \o calls \o after /\ answers' = answers
      /\ excused' = excused
  BY <1>1 DEF AskDoes, StoreTyped
<1>4. PICK had : had = LastFetched(answers', {shown'} \ {NoItem})
  OBVIOUS
<1>5. had \subseteq LastFetched(answers, {shown} \ {NoItem})
  <2>1. {shown'} \ {NoItem} \subseteq {shown} \ {NoItem}
    BY <1>2
  <2>2. QED
    BY <1>3, <1>4, <2>1, FetchedMore
<1>6. PICK both \in Seq(ItemCallKinds) : both = asked \o calls
  BY <1>3, ConcatProperties
<1>7. ASSUME NEW v \in LastFetched(both \o after, had) PROVE v = selected'
  <2>1. \/ \E c \in Range(after) : Fetches(c) /\ v = c.item
        \/ v \in LastFetched(both, had) /\ \A c \in Range(after) : ~Fetches(c)
    BY <1>7, FetchedJoins
  <2>2. CASE v \in LastFetched(both, had) /\ \A c \in Range(after) : ~Fetches(c)
    <3>1. v \in LastFetched(asked \o calls, had)
      BY <1>6, <2>2
    <3>2. \/ \E c \in Range(calls) : Fetches(c) /\ v = c.item
          \/ v \in LastFetched(asked, had) /\ \A c \in Range(calls) : ~Fetches(c)
      BY <1>3, <3>1, FetchedJoins
    <3>3. CASE v \in LastFetched(asked, had) /\ \A c \in Range(calls) : ~Fetches(c)
      <4>1. selected' = selected
        BY <1>2, <2>2, <3>3
      <4>2. LastFetched(asked, had) \subseteq Pending
        BY <1>5, FetchedMore DEF Pending
      <4>3. Pending \subseteq {selected}
        BY <1>3, <4>1 DEF HeedlessShows, Pending
      <4>4. QED
        BY <3>3, <4>1, <4>2, <4>3
    <3>4. QED
      BY <1>2, <3>2, <3>3
  <2>3. QED
    BY <1>2, <2>1, <2>2
<1>8. Pending' = LastFetched(both \o after, had)
  BY <1>3, <1>4, <1>6 DEF Pending
<1>9. QED
  BY <1>7, <1>8

\* The request in turn is served: its answer is the last.
LEMMA HeedlessServe ==
  ASSUME StoreTyped, FlagsHeld, HeedlessShows, store \in Heedless, NEW n \in DOMAIN asked, Serve(n),
         "shown" \notin excused', selected' # NoItem
  PROVE  Pending' \subseteq {selected'}
<1>1. PICK a \in AnswerKinds :
           /\ a.handler = asked[n].handler /\ a.item = asked[n].item
           /\ answers' = Append(answers, a) /\ asked' = Rest(asked, n)
           /\ Range(answers') = Range(answers) \cup {a}
           /\ Range(asked) = Range(asked') \cup {asked[n]}
  BY ServeStep
<1>2. n = 1 /\ "shown" \notin excused /\ selected' = selected /\ shown' = shown
  BY DEF Serve
<1>3. asked \in Seq(ItemCallKinds) /\ answers \in Seq(AnswerKinds)
  BY DEF StoreTyped
<1>4. PICK had : had = {shown} \ {NoItem}
  OBVIOUS
<1>5. <<a>> \in Seq(AnswerKinds) /\ Range(<<a>>) = {a} /\ answers' = answers \o <<a>>
  BY <1>1, <1>3, AppendIsConcat DEF Range
<1>6. PICK now : now = LastFetched(answers \o <<a>>, had)
  OBVIOUS
<1>7. now \subseteq IF Fetches(asked[1]) THEN {asked[1].item} ELSE LastFetched(answers, had)
  <2>1. Fetches(a) <=> Fetches(asked[1])
    BY <1>1, <1>2 DEF Fetches, Effects
  <2>2. ASSUME NEW v \in LastFetched(answers \o <<a>>, had)
        PROVE  \/ Fetches(a) /\ v = a.item
               \/ v \in LastFetched(answers, had) /\ ~Fetches(a)
    BY <1>3, <1>5, <2>2, FetchedJoins
  <2>3. QED
    BY <1>1, <1>2, <1>6, <2>1, <2>2
<1>8. LastFetched(Rest(asked, 1), now) \subseteq LastFetched(asked, LastFetched(answers, had))
  <2>1. 1 \in DOMAIN asked
    BY <1>2
  <2>2. QED
    BY <1>3, <1>7, <2>1, FetchedFirst
<1>9. LastFetched(asked, LastFetched(answers, had)) \subseteq {selected}
  BY <1>2, <1>4 DEF HeedlessShows
<1>10. Pending' = LastFetched(Rest(asked, 1), now)
  BY <1>1, <1>2, <1>4, <1>5, <1>6 DEF Pending
<1>11. QED
  BY <1>2, <1>8, <1>9, <1>10

\* The answer in turn arrives: it is shown, or another item is fetched.
LEMMA HeedlessArrive ==
  ASSUME StoreTyped, HeedlessShows, store \in Heedless, NEW n \in DOMAIN answers,
         NEW first \in Items \cup {NoItem}, Arrive(n, first),
         "shown" \notin excused', selected' # NoItem
  PROVE  Pending' \subseteq {selected'}
<1>1. PICK next, after \in Seq(ItemCallKinds), a \in AnswerKinds, h \in HandlersIn[store] :
        ArriveDoes(n, next, after, a, h)
  BY ArriveStep
<1>2. PICK excuses : /\ Settle(excuses)
                     /\ "shown" \notin excuses => "shown" \notin excused /\ n = 1
  BY DEF Arrive
<1>3. CASE "shown" \in excuses
  BY <1>2, <1>3, HeedlessSettled
<1>4. CASE "shown" \notin excuses
  <2>1. n = 1 /\ "shown" \notin excused /\ a = answers[1] /\ h = Named[a.handler]
    BY <1>1, <1>2, <1>4 DEF ArriveDoes
  <2>2. store \in StoreNames /\ asked \in Seq(ItemCallKinds) /\ answers \in Seq(AnswerKinds)
    BY DEF StoreTyped, TypeOK
  <2>3. FitsShown(store, h)
    BY <2>2, HandlersFit DEF Fits
  <2>4. /\ h.next = {}
        /\ "show" \in h.answer => h.answer = {"show"}
        /\ h.answer \cap (Selecting \cup {"keep or show first"}) \subseteq {"select first"}
        /\ "select first" \in h.answer => store = "sessions"
    BY <2>3 DEF FitsShown, Heedless
  <2>5. /\ asked' = asked \o after /\ answers' = Rest(answers, 1)
        /\ selected' = SelectedBy(h.answer, a.item, first)
        /\ shown' \in {NoItem, ShownBy(h.answer, a.item, first)}
    <3>1. next = <<>>
      BY <1>1, <2>4 DEF ArriveDoes, Calls
    <3>2. asked \o next = asked
      BY <2>2, <3>1
    <3>3. QED
      BY <1>1, <2>1, <3>2 DEF ArriveDoes, Arrive, Without, Rest
  <2>6. /\ \A c \in Range(after) : Fetches(c) /\ c.item = selected'
        /\ selected' # selected /\ store = "sessions" => \E c \in Range(after) : TRUE
    BY <1>1, FollowFetches DEF ArriveDoes
  <2>7. selected' = selected \/ store = "sessions"
    <3>1. CASE "select first" \in h.answer
      BY <2>4, <3>1
    <3>2. CASE "select first" \notin h.answer
      <4>1. \A e \in Selecting : e \notin h.answer
        BY <2>4, <3>2
      <4>2. QED
        BY <2>5, <4>1 DEF SelectedBy, Selecting
    <3>3. QED
      BY <3>1, <3>2
  <2>8. {shown'} \ {NoItem} \subseteq
          IF Fetches(answers[1]) THEN {answers[1].item} ELSE {shown} \ {NoItem}
    <3>1. Fetches(answers[1]) <=> "show" \in h.answer
      BY <2>1 DEF Fetches, Effects
    <3>2. CASE "show" \in h.answer
      <4>1. shown' \in {NoItem, a.item}
        BY <2>4, <2>5, <3>2 DEF ShownBy
      <4>2. QED
        BY <2>1, <3>1, <3>2, <4>1
    <3>3. CASE "show" \notin h.answer
      <4>1. "keep or show first" \notin h.answer
        <5>1. \A e : e \in h.answer /\ e = "keep or show first" => e \in {"select first"}
          BY <2>4, Zenon
        <5>2. "keep or show first" \notin {"select first"}
          OBVIOUS
        <5>3. QED
          BY <5>1, <5>2, Zenon
      <4>2. shown' \in {NoItem, shown}
        BY <2>5, <3>3, <4>1 DEF ShownBy
      <4>3. QED
        BY <3>1, <3>3, <4>2
    <3>4. QED
      BY <3>2, <3>3
  <2>9. PICK now : now = {shown'} \ {NoItem}
    OBVIOUS
  <2>10. PICK had : had = LastFetched(answers', now)
    OBVIOUS
  <2>11. had \subseteq LastFetched(answers, {shown} \ {NoItem})
    <3>1. 1 \in DOMAIN answers
      BY <2>1
    <3>2. now \subseteq IF Fetches(answers[1]) THEN {answers[1].item} ELSE {shown} \ {NoItem}
      BY <2>8, <2>9
    <3>3. LastFetched(Rest(answers, 1), now) \subseteq LastFetched(answers, {shown} \ {NoItem})
      BY <2>2, <3>1, <3>2, FetchedFirst
    <3>4. QED
      BY <2>5, <2>10, <3>3
  <2>12. ASSUME NEW v \in LastFetched(asked \o after, had) PROVE v = selected'
    <3>1. \/ \E c \in Range(after) : Fetches(c) /\ v = c.item
          \/ v \in LastFetched(asked, had) /\ \A c \in Range(after) : ~Fetches(c)
      BY <2>2, <2>12, FetchedJoins
    <3>2. CASE v \in LastFetched(asked, had) /\ \A c \in Range(after) : ~Fetches(c)
      <4>1. selected' = selected
        BY <2>6, <2>7, <3>2
      <4>2. LastFetched(asked, had) \subseteq Pending
        BY <2>11, FetchedMore DEF Pending
      <4>3. Pending \subseteq {selected}
        BY <2>1, <4>1 DEF HeedlessShows, Pending
      <4>4. QED
        BY <3>2, <4>1, <4>2, <4>3
    <3>3. QED
      BY <2>6, <3>1, <3>2
  <2>13. Pending' = LastFetched(asked \o after, had)
    BY <2>5, <2>9, <2>10 DEF Pending
  <2>14. QED
    BY <2>12, <2>13
<1>5. QED
  BY <1>3, <1>4

LEMMA HeedlessNext ==
  ASSUME StoreTyped, FlagsHeld, HeedlessShows, Next
  PROVE  HeedlessShows'
<1> SUFFICES ASSUME store' \in Heedless, "shown" \notin excused', selected' # NoItem
             PROVE  Pending' \subseteq {selected'}
  BY DEF HeedlessShows, Pending
<1>1. store' = store /\ store \in StoreNames
  BY DEF Next, Ask, Serve, Fail, Arrive, Lose, StoreTyped, TypeOK
<1>2. ASSUME (\E n \in DOMAIN asked : Fail(n)) \/ (\E n \in DOMAIN answers : Lose(n))
      PROVE  Pending' \subseteq {selected'}
  BY <1>2, FailStep, HeedlessSettled
<1>3. QED
  BY <1>1, <1>2, HeedlessAsk, HeedlessServe, HeedlessArrive DEF Next

LEMMA NextShown ==
  StoreTyped /\ FlagsHeld /\ ShownFollows /\ [Next]_vars => ShownFollows'
<1>1. ASSUME StoreTyped, FlagsHeld, ShownFollows, Next PROVE ShownFollows'
  BY <1>1, BlankNext, CronNext, CarefulNext, HeedlessNext DEF ShownFollows
<1>2. ASSUME ShownFollows, UNCHANGED vars PROVE ShownFollows'
  BY <1>2 DEF vars, ShownFollows, BlankShows, CronShows, CarefulShows, HeedlessShows, UnderWay
<1>3. QED
  BY <1>1, <1>2

\* The detail shown is that of the item selected as soon as nothing is under
\* way, in any of the stores.
THEOREM DetailAgrees == Spec => []ShownIsSelected
<1>1. StoreTyped /\ ShownFollows => ShownIsSelected
  <2>1. SUFFICES ASSUME StoreTyped, ShownFollows, Quiet, selected # NoItem, "shown" \notin excused
                 PROVE  shown \in {NoItem, selected}
    BY DEF ShownIsSelected
  <2>2. UnderWay = {} /\ asked = <<>> /\ answers = <<>>
    BY <2>1, QuietHasNothing DEF Quiet
  <2>3. store \in BlankStores \cup {"cron"} \cup {"artifacts", "delegations"} \cup Heedless
    BY <2>1 DEF StoreTyped, TypeOK, StoreNames, Buttons, BlankStores, Heedless
  <2>4. CASE store \in Heedless
    <3>1. LastFetched(<<>>, LastFetched(<<>>, {shown} \ {NoItem})) = {shown} \ {NoItem}
      BY FetchedNone
    <3>2. {shown} \ {NoItem} \subseteq {selected}
      BY <2>1, <2>2, <2>4, <3>1 DEF ShownFollows, HeedlessShows
    <3>3. QED
      BY <3>2
  <2>5. CASE store \notin Heedless
    BY <2>1, <2>2, <2>3, <2>5 DEF ShownFollows, BlankShows, CronShows, CarefulShows
  <2>6. QED
    BY <2>4, <2>5
<1>2. QED
  BY <1>1, ItemsInductive, InitItems, NextItems, InitShown, NextShown, PTL DEF Spec
=============================================================================
