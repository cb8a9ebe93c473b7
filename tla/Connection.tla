----------------------------- MODULE Connection -----------------------------
(***************************************************************************)
(* From the start of the window to its connection with the adapter: the    *)
(* first-run wizard (FirstRunWizard.tsx and its steps), the start-up       *)
(* screen (StartupScreen.tsx), the screen App.tsx shows, and the check of  *)
(* the connection with its poll timer (adapterStore.ts) and the token it   *)
(* needs (initializeAdapterAuth of studioClient.ts).                       *)
(*                                                                         *)
(* Simplifications: messages, versions and the modes a backend reports are *)
(* left out; the timers are steps that may be taken at any time; the theme *)
(* of the wizard is left out.  The effects of AppFrame run in the step     *)
(* that shows it.                                                          *)
(***************************************************************************)
EXTENDS Naturals

VARIABLES
  tauri,           \* the window is one of the desktop application
  screen,          \* the wizard, the start-up screen or the application
  wizardStep,      \* index of the step of the wizard
  wizardConfig,    \* its configuration
  startupPhase,    \* phase of the start-up screen
  ensuring,        \* the host was asked to run the adapter
  token,           \* the client has a token
  authPending,     \* authBootstrapPromise
  checking,        \* what the check under way waits for
  connected, hermesConnected,
  pollTimer,       \* whether it is armed
  storesLoaded,    \* the stores were loaded after the first check
  firstCheck,      \* the check under way is that of AppFrame
  adapterUp        \* whether the adapter answers

connectionVars == <<tauri, screen, wizardStep, wizardConfig, startupPhase, ensuring,
                    token, authPending, checking, connected, hermesConnected,
                    pollTimer, storesLoaded, firstCheck, adapterUp>>

startVars == <<screen, wizardStep, wizardConfig, startupPhase, ensuring>>
checkVars == <<token, authPending, checking, connected, hermesConnected, pollTimer,
               storesLoaded, firstCheck>>

STEPS == <<"welcome", "hermes", "workspace", "theme", "backend", "ready">>
BackendModes == {"local", "gateway", "mock"}
Configs == [hermesFound : BOOLEAN, workspace : BOOLEAN, backendMode : BackendModes]

NoChoice == [hermesFound |-> FALSE, workspace |-> FALSE, backendMode |-> "local"]

ConnectionInit ==
  /\ tauri \in BOOLEAN /\ adapterUp \in BOOLEAN
  /\ screen \in {"wizard", "startup"}    \* isWizardCompleted
  /\ wizardStep = 1 /\ wizardConfig = NoChoice
  /\ startupPhase = "starting" /\ ensuring = FALSE
  /\ token = FALSE /\ authPending = FALSE
  /\ checking = "nothing" /\ connected = FALSE /\ hermesConnected = FALSE
  /\ pollTimer = FALSE /\ storesLoaded = FALSE /\ firstCheck = FALSE

-----------------------------------------------------------------------------
(* The check of the connection *)

\* mutant: the timer is armed before the store says that it is not connected
StartPollingFirst == pollTimer' = (pollTimer \/ ~connected)

\* A poll timer is armed unless there is one or the store says connected.
startPolling == pollTimer' = (pollTimer \/ ~connected')

\* A check asks for the token, or joins the question under way; with one it
\* asks for the health.  Without the host the window says it is connected.
checkConnection(first) ==
  /\ firstCheck' = first
  /\ IF tauri
     THEN /\ checking' = IF token THEN "health" ELSE "auth"
          /\ authPending' = (authPending \/ ~token)
          /\ UNCHANGED <<token, connected, hermesConnected, pollTimer, storesLoaded>>
     ELSE /\ connected' = TRUE /\ hermesConnected' = FALSE
          /\ storesLoaded' = (storesLoaded \/ first)
          /\ UNCHANGED <<token, authPending, checking, pollTimer>>

CheckFails ==
  /\ checking' = "nothing" /\ firstCheck' = FALSE
  /\ connected' = FALSE /\ hermesConnected' = FALSE
  /\ startPolling
  /\ UNCHANGED storesLoaded

\* The host answers with a token or without; a check that waits no more is
\* not concerned.
AuthAnswers(found) ==
  /\ authPending
  /\ authPending' = FALSE
  /\ token' = (token \/ found)
  /\ CASE checking # "auth" ->
            UNCHANGED <<checking, firstCheck, connected, hermesConnected, pollTimer, storesLoaded>>
       [] checking = "auth" /\ found ->
            /\ checking' = "health"
            /\ UNCHANGED <<firstCheck, connected, hermesConnected, pollTimer, storesLoaded>>
       [] OTHER -> CheckFails
  /\ UNCHANGED <<tauri, startVars, adapterUp>>

\* The loads of AppFrame follow its own check only.
HealthAnswers(hermes) ==
  /\ checking = "health" /\ adapterUp
  /\ checking' = "nothing" /\ firstCheck' = FALSE
  /\ connected' = TRUE /\ hermesConnected' = hermes
  /\ pollTimer' = FALSE                               \* stopPolling
  /\ storesLoaded' = (storesLoaded \/ firstCheck)
  /\ UNCHANGED <<tauri, startVars, token, authPending, adapterUp>>

\* The request fails, or what the check waits for takes five seconds.
CheckBreaks ==
  /\ checking # "nothing"
  /\ CheckFails
  /\ UNCHANGED <<tauri, startVars, token, authPending, adapterUp>>

\* The poll timer fires: it stops itself or checks, unless a check is under
\* way.
PollTick ==
  /\ pollTimer /\ checking = "nothing"
  /\ IF connected
     THEN /\ pollTimer' = FALSE
          /\ UNCHANGED <<token, authPending, checking, connected, hermesConnected,
                         storesLoaded, firstCheck>>
     ELSE checkConnection(FALSE)
  /\ UNCHANGED <<tauri, startVars, adapterUp>>

\* The runtime panel and the command palette check on demand.
RefreshRuntime ==
  /\ screen = "app" /\ checking = "nothing"
  /\ checkConnection(FALSE)
  /\ UNCHANGED <<tauri, startVars, adapterUp>>

-----------------------------------------------------------------------------
(* The wizard *)

\* Each step of the wizard hands what was chosen in it to the next.
HermesDiscoveryStep ==
  {[wizardConfig EXCEPT !.hermesFound = found] : found \in {hermesConnected, FALSE}}
WorkspaceStep == {[wizardConfig EXCEPT !.workspace = chosen] : chosen \in BOOLEAN}
BackendStep == {[wizardConfig EXCEPT !.backendMode = mode] : mode \in BackendModes}

WizardChoices ==
  CASE STEPS[wizardStep] = "hermes"    -> HermesDiscoveryStep
    [] STEPS[wizardStep] = "workspace" -> WorkspaceStep
    [] STEPS[wizardStep] = "backend"   -> BackendStep
    [] OTHER                           -> {wizardConfig}

\* AppFrame is shown: it checks the connection.
ShowApp == screen' = "app" /\ checkConnection(TRUE)

\* mutant: the wizard goes one step past its last
NextPastTheEnd(config) ==
  /\ screen = "wizard"
  /\ wizardConfig' = config
  /\ IF wizardStep > 6
     THEN ShowApp /\ UNCHANGED wizardStep
     ELSE wizardStep' = wizardStep + 1 /\ UNCHANGED <<screen, checkVars>>
  /\ UNCHANGED <<tauri, startupPhase, ensuring, adapterUp>>

handleNext(config) ==
  /\ screen = "wizard"
  /\ wizardConfig' = config
  /\ IF wizardStep = 6
     THEN ShowApp /\ UNCHANGED wizardStep
     ELSE wizardStep' = wizardStep + 1 /\ UNCHANGED <<screen, checkVars>>
  /\ UNCHANGED <<tauri, startupPhase, ensuring, adapterUp>>

handleBack ==
  /\ screen = "wizard" /\ wizardStep > 1
  /\ wizardStep' = wizardStep - 1
  /\ UNCHANGED <<tauri, screen, wizardConfig, startupPhase, ensuring, checkVars, adapterUp>>

-----------------------------------------------------------------------------
(* The start-up screen *)

beginStartup ==
  /\ screen = "startup" /\ startupPhase = "starting"
  /\ startupPhase' = IF tauri THEN "checking" ELSE "ready"
  /\ ensuring' = tauri
  /\ UNCHANGED <<tauri, screen, wizardStep, wizardConfig, checkVars, adapterUp>>

\* ensure_adapter_running answers ready, starting or not in time.
Ensured(phase) ==
  /\ screen = "startup" /\ ensuring
  /\ phase = "ready" => adapterUp
  /\ startupPhase' = IF phase = "starting" THEN startupPhase ELSE phase
  /\ ensuring' = FALSE
  /\ UNCHANGED <<tauri, screen, wizardStep, wizardConfig, checkVars, adapterUp>>

\* The host says so by an event, an error that was shown before or not.
AdapterStatus(phase) ==
  /\ screen = "startup" /\ tauri /\ startupPhase # "starting"
  /\ phase = "ready" => adapterUp
  /\ startupPhase' = phase
  /\ UNCHANGED <<tauri, screen, wizardStep, wizardConfig, ensuring, checkVars, adapterUp>>

\* onReady is called after it is ready, or when an error is skipped.
onReady ==
  /\ screen = "startup" /\ startupPhase \in {"ready", "error"}
  /\ ShowApp
  /\ ensuring' = FALSE
  /\ UNCHANGED <<tauri, wizardStep, wizardConfig, startupPhase, adapterUp>>

\* Retry reloads the window.
handleRetry ==
  /\ screen = "startup" /\ startupPhase = "error"
  /\ startupPhase' = "starting" /\ ensuring' = FALSE
  /\ UNCHANGED <<tauri, screen, wizardStep, wizardConfig, checkVars, adapterUp>>

AdapterChanges ==
  /\ adapterUp' = ~adapterUp
  /\ UNCHANGED <<tauri, startVars, checkVars>>

ConnectionNext ==
  \/ \E found \in BOOLEAN : AuthAnswers(found)
  \/ \E hermes \in BOOLEAN : HealthAnswers(hermes)
  \/ CheckBreaks \/ PollTick \/ RefreshRuntime
  \/ \E config \in WizardChoices : handleNext(config)
  \/ handleBack
  \/ beginStartup
  \/ \E phase \in {"ready", "starting", "error"} : Ensured(phase)
  \/ \E phase \in {"ready", "error"} : AdapterStatus(phase)
  \/ onReady \/ handleRetry
  \/ AdapterChanges

ConnectionSpec == ConnectionInit /\ [][ConnectionNext]_connectionVars

-----------------------------------------------------------------------------
(* Properties *)

ConnectionTypeOK ==
  /\ screen \in {"wizard", "startup", "app"}
  /\ wizardStep \in 1..6 /\ wizardConfig \in Configs
  /\ startupPhase \in {"starting", "checking", "ready", "error"}
  /\ checking \in {"nothing", "auth", "health"}
  /\ {tauri, ensuring, token, authPending, connected, hermesConnected, pollTimer,
      storesLoaded, firstCheck, adapterUp} \subseteq BOOLEAN

\* The application never gives up: as long as it says it is not connected, a
\* check is under way or the poll timer will start one; and a timer does not
\* poll an adapter the application is connected to.
KeepsTrying ==
  /\ screen = "app" /\ ~connected => checking # "nothing" \/ pollTimer
  /\ connected => ~pollTimer
=============================================================================
