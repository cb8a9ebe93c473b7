--------------------------- MODULE StoreHandlers ---------------------------
(***************************************************************************)
(* The asynchronous handlers of the frontend's stores that list items of   *)
(* the adapter (stores/*.ts), one definition each, and the requests of the *)
(* client they send (studioClient.ts).  ItemStore says what the parts of a *)
(* handler do.                                                             *)
(*                                                                         *)
(* Simplifications: messages and error texts, notices, the fields of an    *)
(* item, filters and searches are left out.                                *)
(***************************************************************************)
EXTENDS Naturals

(* What a request asks of the adapter: the list, one item or what belongs  *)
(* to one, a new item, a change or the removal of one, the choice of the   *)
(* active one, or something that is not listed.                            *)
Requests == {"list", "item", "add", "change", "remove", "activate", "ask"}

ArtifactsApi ==
  [listArtifacts |-> "list", getArtifact |-> "item", createArtifact |-> "add",
   updateArtifact |-> "change", listArtifactRevisions |-> "ask",
   revertArtifact |-> "change", createArtifactVariantGroup |-> "ask",
   addArtifactVariant |-> "ask", applyArtifactVariant |-> "change",
   runArtifactBrowserEvidence |-> "change"]

CheckpointsApi == [listCheckpoints |-> "list", getCheckpointDiff |-> "item"]

ContextApi ==
  [getCurrentContext |-> "item", getRunContext |-> "item",
   getSessionContext |-> "item", getCurrentWorkspaceContext |-> "item"]

CronApi == [listCronJobs |-> "list"]

DelegationsApi == [listDelegations |-> "list", getDelegation |-> "item"]

LogsApi == [getLogs |-> "item"]

ProcessesApi ==
  [listProcesses |-> "list", startProcess |-> "add", stopProcess |-> "change",
   getProcessLogs |-> "ask", removeProcess |-> "remove"]

ProfilesApi == [getProfiles |-> "list", activateProfile |-> "activate"]

SessionsApi == [getSessions |-> "list", getSession |-> "item"]

WorktreesApi ==
  [listWorktrees |-> "list", createWorktree |-> "add",
   removeWorktree |-> "remove", startRunInWorktree |-> "ask"]

ToolPacksApi ==
  [getToolPacks |-> "list", enableToolPack |-> "change",
   disableToolPack |-> "change", installToolPack |-> "add"]

ModelsApi == [getModelConfig |-> "list", updateModelConfig |-> "activate"]

InventoryApi ==
  [getHermesInventory |-> "list", checkHermesSkills |-> "ask",
   updateHermesSkills |-> "change", installHermesSkill |-> "add",
   localStatus |-> "ask", getHermesRelease |-> "ask",
   testHermesMcpServer |-> "ask", configureHermesToolset |-> "change",
   pruneHermesCheckpointStore |-> "ask"]

-----------------------------------------------------------------------------
(* A handler marks the store busy and changes it, sends its request, and   *)
(* changes the store again when the answer arrives or the request fails;   *)
(* then it may call another handler.                                       *)

Handler(busy, begin, request, answer, fail, next) ==
  [busy |-> busy, begin |-> begin, request |-> request, answer |-> answer,
   fail |-> fail, next |-> next]

(* artifactStore.ts *)

\* replaceArtifact puts the summary of the answer into the list.
Replaced == {"put", "show", "select"}
\* mutant: the answer is shown, and what is selected stays
ShowArtifact == Handler({}, {}, ArtifactsApi.getArtifact, {"show"}, {}, {})

selectArtifact ==
  Handler({}, {"select"}, ArtifactsApi.getArtifact, {"show", "select"}, {}, {})

loadArtifacts ==
  Handler({"loading"}, {}, ArtifactsApi.listArtifacts,
          {"list", "select first", "hide if empty"}, {"hide"}, {"selectArtifact"})

createArtifact ==
  Handler({"saving"}, {}, ArtifactsApi.createArtifact, Replaced, {}, {})

updateArtifact ==
  Handler({"saving"}, {}, ArtifactsApi.updateArtifact, Replaced, {}, {})

\* loadRevisions adds to the detail when it is still the one shown.
loadRevisions ==
  Handler({}, {}, ArtifactsApi.listArtifactRevisions, {}, {}, {})

revertArtifact ==
  Handler({"saving"}, {}, ArtifactsApi.revertArtifact, Replaced, {}, {})

\* A variant group is put into the detail of its artifact only.
createVariantGroup ==
  Handler({"saving"}, {}, ArtifactsApi.createArtifactVariantGroup, {}, {}, {})

addVariant ==
  Handler({"saving"}, {}, ArtifactsApi.addArtifactVariant, {}, {}, {})

applyVariant ==
  Handler({"saving"}, {}, ArtifactsApi.applyArtifactVariant, Replaced, {}, {})

runBrowserEvidence ==
  Handler({"saving"}, {}, ArtifactsApi.runArtifactBrowserEvidence, Replaced, {}, {})

(* checkpointStore.ts: the diff is what is shown of a checkpoint *)

loadCheckpoints ==
  Handler({"loading"}, {}, CheckpointsApi.listCheckpoints, {"list"}, {}, {})

selectCheckpoint == {"select", "hide"}

\* loadDiff shows the diff whichever checkpoint is selected by then.
loadDiff ==
  Handler({"diffLoading"}, {}, CheckpointsApi.getCheckpointDiff, {"show"}, {}, {})

clearDiff == {"deselect", "hide"}

(* contextStore.ts: the scopes are the items *)

loadCurrentContext ==
  Handler({"loading"}, {"select"}, ContextApi.getCurrentContext, {"show"}, {}, {})
loadWorkspaceContext ==
  Handler({"loading"}, {"select"}, ContextApi.getCurrentWorkspaceContext, {"show"}, {}, {})
loadRunContext ==
  Handler({"loading"}, {"select"}, ContextApi.getRunContext, {"show"}, {}, {})
loadSessionContext ==
  Handler({"loading"}, {"select"}, ContextApi.getSessionContext, {"show"}, {}, {})

(* cronStore.ts: the job selected is a copy of a row *)

\* A selection is kept even when the job is gone.
loadJobs ==
  Handler({"loading"}, {}, CronApi.listCronJobs,
          {"list", "keep or select first", "keep or show first"}, {}, {})

selectJob == {"select", "show"}

(* delegationStore.ts *)

loadDelegationDetail ==
  Handler({}, {"select"}, DelegationsApi.getDelegation, {"show", "select"}, {}, {})

loadDelegations ==
  Handler({"loading"}, {}, DelegationsApi.listDelegations,
          {"list", "keep or select first"}, {}, {"loadDelegationDetail"})

selectDelegation == {"select", "hide"}

(* logStore.ts: the sources are the items, their lines are shown *)

loadRecent == Handler({}, {}, LogsApi.getLogs, {"show"}, {}, {})

setSource == {"select", "hide"}

(* processStore.ts: the logs are kept by process, nothing else is shown *)

loadProcesses ==
  Handler({"loading"}, {}, ProcessesApi.listProcesses, {"list"}, {}, {})
startProcess ==
  Handler({}, {}, ProcessesApi.startProcess, {"put", "select"}, {}, {})
stopProcess ==
  Handler({}, {}, ProcessesApi.stopProcess, {"put if listed"}, {}, {})
loadLogs ==
  Handler({}, {}, ProcessesApi.getProcessLogs, {}, {}, {})
removeProcess ==
  Handler({}, {}, ProcessesApi.removeProcess, {"drop", "deselect it"}, {}, {})

\* selectProcess also loads the logs.
selectProcess == {"select"}

(* profileStore.ts: the profiles and the active one are asked for together *)

loadProfiles ==
  Handler({}, {}, ProfilesApi.getProfiles, {"list"}, {}, {})

\* activatingProfileId is reset after the reload that follows.
loadProfilesActivating == [loadProfiles EXCEPT !.busy = {"activating"}]

activateProfile ==
  Handler({"activating"}, {}, ProfilesApi.activateProfile, {}, {},
          {"loadProfilesActivating"})

(* sessionStore.ts, and the detail the panel fetches for the active session *)

loadFromAdapter ==
  Handler({}, {}, SessionsApi.getSessions, {"list", "select first"}, {}, {})

setActiveSession == {"select"}

\* The answer is shown whichever session is active by then.
showSession ==
  Handler({"detailLoading"}, {}, SessionsApi.getSession, {"show"}, {}, {})

(* worktreeStore.ts *)

loadWorktrees ==
  Handler({"loading"}, {}, WorktreesApi.listWorktrees, {"list"}, {}, {})
createWorktree ==
  Handler({"creating"}, {}, WorktreesApi.createWorktree, {}, {}, {"loadWorktrees"})
removeWorktree ==
  Handler({}, {}, WorktreesApi.removeWorktree, {"drop"}, {}, {})
startRun ==
  Handler({}, {}, WorktreesApi.startRunInWorktree, {}, {}, {})

(* toolPackStore.ts *)

loadPacks ==
  Handler({"loading"}, {}, ToolPacksApi.getToolPacks, {"list"}, {}, {})
enablePack ==
  Handler({}, {}, ToolPacksApi.enableToolPack, {"put if listed"}, {}, {})
disablePack ==
  Handler({}, {}, ToolPacksApi.disableToolPack, {"put if listed"}, {}, {})
installPack ==
  Handler({}, {}, ToolPacksApi.installToolPack, {"put"}, {}, {})

(* modelStore.ts: what is selected is a draft of the configuration *)

loadConfig ==
  Handler({"loading"}, {}, ModelsApi.getModelConfig,
          {"list", "keep or select first"}, {}, {})
selectModel == {"select"}
applySelection ==
  Handler({"saving"}, {}, ModelsApi.updateModelConfig, {"list", "select"}, {}, {})

(* hermesInventoryStore.ts: skills and toolsets are the items *)

loadLocalHermesStatus ==
  Handler({}, {}, InventoryApi.localStatus, {}, {}, {})
loadInventory ==
  Handler({"loading"}, {}, InventoryApi.getHermesInventory, {"list"}, {},
          {"loadLocalHermesStatus"})
checkHermesRelease ==
  Handler({"releaseLoading"}, {}, InventoryApi.getHermesRelease, {}, {}, {})
testMcpServer ==
  Handler({"mcpProbing"}, {}, InventoryApi.testHermesMcpServer, {}, {}, {})
configureToolset ==
  Handler({"configuringToolset"}, {}, InventoryApi.configureHermesToolset,
          {"list"}, {}, {})
checkSkills ==
  Handler({"skillActionLoading"}, {}, InventoryApi.checkHermesSkills, {}, {}, {})
updateSkills ==
  Handler({"skillActionLoading"}, {}, InventoryApi.updateHermesSkills,
          {"list"}, {}, {})
installSkill ==
  Handler({"skillActionLoading"}, {}, InventoryApi.installHermesSkill,
          {"list"}, {}, {"loadInventory"})
pruneCheckpointStore ==
  Handler({"checkpointPruning"}, {}, InventoryApi.pruneHermesCheckpointStore,
          {}, {}, {})

(* Handlers of the components, on top of those of the stores *)

\* An import of the design canvas loads the list again.
importDesign == [createArtifact EXCEPT !.next = {"loadArtifacts"}]

\* A cron job is changed by a command of Hermes, then the list is loaded.
loadJobsAfterAction == [loadJobs EXCEPT !.busy = @ \cup {"actionLoading"}]

handleCreate == Handler({}, {}, "add", {}, {}, {"loadJobs"})
handleToggleEnabled ==
  Handler({"actionLoading"}, {}, "change", {}, {}, {"loadJobsAfterAction"})

\* handleDelete clears the selection when it was its job when it was clicked.
handleDelete ==
  Handler({"actionLoading"}, {}, "remove", {}, {}, {"loadJobsAfterAction"})
handleDeleteSelected == [handleDelete EXCEPT !.answer = {"deselect", "hide"}]

-----------------------------------------------------------------------------
\* The handlers by their names.
Named ==
  [selectArtifact |-> selectArtifact, loadArtifacts |-> loadArtifacts,
   createArtifact |-> createArtifact, updateArtifact |-> updateArtifact,
   loadRevisions |-> loadRevisions, revertArtifact |-> revertArtifact,
   createVariantGroup |-> createVariantGroup, addVariant |-> addVariant,
   applyVariant |-> applyVariant, runBrowserEvidence |-> runBrowserEvidence,
   loadCheckpoints |-> loadCheckpoints, loadDiff |-> loadDiff,
   loadCurrentContext |-> loadCurrentContext,
   loadWorkspaceContext |-> loadWorkspaceContext,
   loadRunContext |-> loadRunContext,
   loadSessionContext |-> loadSessionContext, loadJobs |-> loadJobs,
   loadDelegationDetail |-> loadDelegationDetail,
   loadDelegations |-> loadDelegations, loadRecent |-> loadRecent,
   loadProcesses |-> loadProcesses, startProcess |-> startProcess,
   stopProcess |-> stopProcess, loadLogs |-> loadLogs,
   removeProcess |-> removeProcess, loadProfiles |-> loadProfiles,
   activateProfile |-> activateProfile, loadFromAdapter |-> loadFromAdapter,
   showSession |-> showSession, loadWorktrees |-> loadWorktrees,
   createWorktree |-> createWorktree, removeWorktree |-> removeWorktree,
   startRun |-> startRun, loadPacks |-> loadPacks, enablePack |-> enablePack,
   disablePack |-> disablePack, installPack |-> installPack,
   loadConfig |-> loadConfig, applySelection |-> applySelection,
   loadLocalHermesStatus |-> loadLocalHermesStatus,
   loadInventory |-> loadInventory, checkHermesRelease |-> checkHermesRelease,
   testMcpServer |-> testMcpServer, configureToolset |-> configureToolset,
   checkSkills |-> checkSkills, updateSkills |-> updateSkills,
   installSkill |-> installSkill,
   pruneCheckpointStore |-> pruneCheckpointStore,
   importDesign |-> importDesign, loadJobsAfterAction |-> loadJobsAfterAction,
   handleCreate |-> handleCreate, handleToggleEnabled |-> handleToggleEnabled,
   handleDelete |-> handleDelete,
   handleDeleteSelected |-> handleDeleteSelected,
   loadProfilesActivating |-> loadProfilesActivating]

\* A request carries the name of its handler: one for all that do the same.
NameOf(handler) == CHOOSE n \in DOMAIN Named : Named[n] = handler
=============================================================================
