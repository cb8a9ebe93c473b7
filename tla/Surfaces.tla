------------------------------ MODULE Surfaces ------------------------------
(***************************************************************************)
(* What the components of the frontend (components/) offer on the items of *)
(* a store: the effects that run when they are shown, and their buttons,   *)
(* with what disables them.  Layout, wording, forms and what is not kept   *)
(* in a store are left out.                                                *)
(***************************************************************************)
EXTENDS StoreHandlers

(* A button is offered on some items, unless a flag of the store disables  *)
(* it; it changes the store at once and then calls the handlers.           *)
Button(on, unless, first, handlers) ==
  [on |-> on, unless |-> unless, first |-> first,
   handlers |-> {NameOf(h) : h \in handlers}]

\* What loads when a component is shown, or on a timer: a button of nobody.
Shown(handler) == Button("all", {}, {}, {handler})
Press(on, unless, handler) == Button(on, unless, {}, {handler})

(* Artifacts: the buttons work on the detail that is shown *)

ArtifactList ==
  {Shown(loadArtifacts), Press("all", {"loading"}, loadArtifacts),
   Press("listed", {}, selectArtifact)}

ArtifactPrompt ==
  {Press("new", {}, createArtifact), Press("shown", {}, createVariantGroup)}

ArtifactEditor ==
  {Press("shown", {"saving"}, updateArtifact),
   Press("shown", {"saving"}, runBrowserEvidence)}

ArtifactVariants ==
  {Press("shown", {"saving"}, createVariantGroup),
   Press("shown", {"saving"}, addVariant),
   Press("shown", {"saving"}, applyVariant)}

ArtifactHistory ==
  {Press("shown", {}, loadRevisions), Press("shown", {"saving"}, revertArtifact)}

DesignCanvas ==
  {Shown(loadArtifacts), Press("listed", {}, selectArtifact),
   Press("new", {"saving"}, importDesign)}

(* Checkpoints: a second click on the checkpoint clears it *)

CheckpointTimeline ==
  {Press("empty", {"loading"}, loadCheckpoints), Press("all", {}, loadCheckpoints),
   Button("other", {}, selectCheckpoint, {loadDiff}),
   Button("selected", {}, clearDiff, {}),
   Press("selected", {}, loadDiff)}

(* Context *)

ContextInspector ==
  {Press("any", {}, loadCurrentContext), Press("any", {}, loadWorkspaceContext),
   Press("selected", {}, loadCurrentContext)}

(* Cron *)

CronPanel ==
  {Shown(loadJobs), Press("all", {"loading"}, loadJobs),
   Button("listed", {}, selectJob, {})}

CronSurface ==
  {Shown(loadJobs), Press("new", {}, handleCreate),
   Press("listed", {}, handleToggleEnabled),
   Press("selected", {}, handleDeleteSelected), Press("other", {}, handleDelete),
   Button("listed", {}, selectJob, {})}

(* Delegations *)

DelegationPanel ==
  {Shown(loadDelegations), Press("all", {"loading"}, loadDelegations),
   Button("listed", {}, selectDelegation, {loadDelegationDetail})}

DelegationsSurface == {Shown(loadDelegations)}

(* Logs *)

LogsContent == {Button("any", {}, setSource, {loadRecent}), Press("selected", {}, loadRecent)}

(* Processes *)

\* The list is loaded every five seconds.
ProcessCockpit ==
  {Shown(loadProcesses), Press("new", {}, startProcess)}

ProcessCard ==
  {Press("listed", {}, stopProcess), Press("listed", {}, removeProcess),
   Button("listed", {}, selectProcess, {loadLogs}), Press("listed", {}, loadLogs)}

(* Profiles *)

ProfilesSurface ==
  {Shown(loadProfiles), Press("listed", {"activating"}, activateProfile)}

ProfilesList == {Press("listed", {"activating"}, activateProfile)}

(* Sessions *)

SessionsSurface ==
  {Shown(loadFromAdapter), Button("listed", {}, setActiveSession, {})}

\* Restore chooses the session that is shown; Inspect asks for its context.
SessionActions ==
  [sessions |-> {Button("shown", {}, setActiveSession, {})},
   context |-> {Press("any", {}, loadSessionContext)}]

SessionsPanel ==
  [sessions |-> {Button("listed", {}, setActiveSession, {})},
   artifacts |-> {Press("new", {"saving"}, createArtifact)},
   context |-> {Press("any", {}, loadSessionContext)}]

(* Worktrees *)

WorktreeLauncher ==
  {Press("empty", {"loading"}, loadWorktrees), Press("all", {}, loadWorktrees),
   Press("new", {"creating"}, createWorktree), Press("listed", {}, removeWorktree),
   Press("listed", {}, startRun)}

(* Extensions *)

PackCatalog ==
  {Shown(loadPacks), Press("listed", {}, enablePack), Press("listed", {}, disablePack),
   Press("new", {}, installPack)}

ExtensionsPanel == {Shown(loadInventory)}

SkillsCatalog ==
  {Press("all", {"skillActionLoading"}, checkSkills),
   Press("listed", {"skillActionLoading"}, updateSkills),
   Press("new", {"skillActionLoading"}, installSkill)}

McpCatalog ==
  {Press("all", {}, testMcpServer), Press("listed", {}, configureToolset)}

(* Model section of the right panel *)

ModelSection ==
  {Shown(loadConfig), Press("all", {"loading"}, loadConfig),
   Button("listed", {}, selectModel, {}), Press("selected", {"saving"}, applySelection)}

(* The runtime panel and mission control load what several stores keep *)

RuntimeStatus ==
  {Shown(loadLocalHermesStatus), Press("all", {"releaseLoading"}, checkHermesRelease)}

CheckpointPruning == {Press("all", {"checkpointPruning"}, pruneCheckpointStore)}

MissionControl ==
  [processes |-> {Shown(loadProcesses), Press("new", {}, startProcess)},
   delegations |-> {Shown(loadDelegations)},
   inventory |-> {Shown(loadInventory), Shown(loadLocalHermesStatus)},
   models |-> {Shown(loadConfig)}]

(* What the board and the ledger of runs do beside their own store *)

\* A summary of a card loads the list again, like an import.
KanbanBoard ==
  [artifacts |-> {Shown(loadArtifacts), Press("new", {"saving"}, importDesign),
                  Press("listed", {}, selectArtifact)},
   context |-> {Press("any", {}, loadRunContext), Press("any", {}, loadSessionContext)}]

\* An extraction presses once for each artifact it found; a session is chosen
\* whether it is listed or not; a snapshot may load the lines first.
RunLedgerActions ==
  [artifacts |-> {Press("new", {"saving"}, createArtifact)},
   sessions |-> {Button("any", {}, setActiveSession, {})},
   context |-> {Press("any", {}, loadRunContext)},
   logs |-> {Press("selected", {}, loadRecent)}]

\* From an approval to its session or its context.
ApprovalActions ==
  [sessions |-> {Button("any", {}, setActiveSession, {})},
   context |-> {Press("any", {}, loadRunContext), Press("any", {}, loadSessionContext)}]

-----------------------------------------------------------------------------
(* The buttons on the items of each store *)

Buttons ==
  [artifacts |-> ArtifactList \cup ArtifactPrompt \cup ArtifactEditor
                 \cup ArtifactVariants \cup ArtifactHistory \cup DesignCanvas
                 \cup SessionsPanel.artifacts \cup KanbanBoard.artifacts
                 \cup RunLedgerActions.artifacts,
   checkpoints |-> CheckpointTimeline,
   context |-> ContextInspector \cup SessionActions.context \cup SessionsPanel.context
               \cup KanbanBoard.context \cup RunLedgerActions.context
               \cup ApprovalActions.context,
   cron |-> CronPanel \cup CronSurface,
   delegations |-> DelegationPanel \cup DelegationsSurface
                   \cup MissionControl.delegations,
   inventory |-> ExtensionsPanel \cup SkillsCatalog \cup McpCatalog
                 \cup RuntimeStatus \cup CheckpointPruning
                 \cup MissionControl.inventory,
   logs |-> LogsContent \cup RunLedgerActions.logs,
   models |-> ModelSection \cup MissionControl.models,
   packs |-> PackCatalog,
   processes |-> ProcessCockpit \cup ProcessCard \cup MissionControl.processes,
   profiles |-> ProfilesSurface \cup ProfilesList,
   sessions |-> SessionsSurface \cup SessionActions.sessions
                \cup SessionsPanel.sessions \cup RunLedgerActions.sessions
                \cup ApprovalActions.sessions,
   worktrees |-> WorktreeLauncher]

StoreNames == DOMAIN Buttons

\* Effects that fetch the detail whenever another item is selected.
Follows(name) ==
  CASE name = "sessions" -> {"showSession"}
    [] name = "logs" -> {"loadRecent"}
    [] OTHER -> {}

\* Stores which show an answer without asking whether it is still wanted.
Heedless == {"checkpoints", "context", "logs", "sessions"}
=============================================================================
