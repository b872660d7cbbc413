------------------------------- MODULE Sidecar -------------------------------
(***************************************************************************)
(* Sidecar mode (index.ts, applySidecar) around its supervisor: startOnce  *)
(* prepares the data directory, starts the agent, registers it as a        *)
(* provider of the host (provider.ts) and refreshes that registration by a *)
(* timer; teardown stops the timer and disposes of the supervisor.  When   *)
(* the plugin is loaded again in adapter mode, it removes the route.       *)
(*                                                                         *)
(* AgentProcess and DataDir are instantiated: their actions are steps of   *)
(* this system, and the sidecar waits for some of them.  A port is the     *)
(* process that listens on it; after its exit it is Gone, for the next     *)
(* agent listens on another (listen 127.0.0.1:0).  While this process runs *)
(* no other writes the settings of its host.                               *)
(***************************************************************************)
EXTENDS Integers, FiniteSets

CONSTANTS
    Us,             \* this DSH process
    Others,         \* the other DSH processes of the user
    Teardown,       \* the one call of dispose()
    Children, None, RestartDelay, RestartMaxDelay, MaxConsecutiveCrashes,
    Gone,           \* the port of an agent that has exited
    Unread          \* the token of an agent that has not read its configuration

Callers == {Teardown}
Hosts   == {Us} \cup Others

ASSUME OptionsAssumption ==
    /\ RestartDelay \in Nat /\ RestartMaxDelay \in Nat
    /\ MaxConsecutiveCrashes \in Nat \ {0}
ASSUME OthersAssumption == Us \notin Others
ASSUME NothingAssumption ==
    /\ {None, Gone} \cap Children = {} /\ Gone # None
    /\ {None, Unread} \cap Hosts = {} /\ Unread # None

VARIABLES
    windows, status, killed, child, state, ready, uptime, crashes, backoff,
    timer, stopping, disposed, startPc, pc, target, hears,
    tokenFile, tmpFile, configFile, at, token,
    accepts,        \* the token each agent has read from its configuration
    chain,          \* where startOnce(), then the refresh by timer, waits
    first,          \* that refresh is the one of startOnce()
    info,           \* the port of the READY line that startOnce() was given
    credential,     \* the host's credential behind apiKeyEnv
    route,          \* the port in the host's llm-pi-ai.providers.kilo2dsh
    unloaded,       \* disposed, of applySidecar
    cleaning        \* removeProviderRoute, of a later load in adapter mode

Agent == INSTANCE AgentProcess
Dir   == INSTANCE DataDir

agentVars == <<windows, status, killed, child, state, ready, uptime, crashes,
               backoff, timer, startPc, stopping, disposed, pc, target, hears>>
dirVars   == <<tokenFile, tmpFile, configFile, at, token>>
hostVars  == <<credential, route>>
ownVars   == <<accepts, chain, first, info, hostVars, unloaded, cleaning>>
vars      == <<agentVars, dirVars, ownVars>>

Running == Agent!Running

\* The host keeps its settings: an earlier run may have left it the credential of
\* a token of its own, and a route to an agent that is gone.
Init ==
    /\ Agent!Init
    /\ Dir!Init
    /\ accepts = [c \in Children |-> Unread]
    /\ chain = "starting" /\ first = TRUE
    /\ info = None
    /\ credential \in Others \cup {None} /\ route \in {None, Gone}
    /\ route # None => credential # None
    /\ unloaded = FALSE /\ cleaning = "no"

-----------------------------------------------------------------------------
(* startOnce() up to the READY line                                        *)

\* A plausible bug: startOnce() goes on although start() rejected.
StartOnceHearsAny ==
    chain' = IF chain = "starting" /\ startPc' = "settled" THEN "health" ELSE chain

\* start() resolves or rejects, the first time for startOnce().
StartOnceHears ==
    IF chain # "starting" \/ startPc' # "settled"
    THEN UNCHANGED chain
    ELSE chain' = IF state' = "ready" THEN "health" ELSE "ended"

\* A port whose agent exits.
Closes(port) ==
    IF port \in Children /\ status'[port] # "running" THEN Gone ELSE port

\* What a step of the supervisor or of an agent means for the sidecar.
Follows ==
    /\ StartOnceHears
    /\ info' = IF chain' = "health" /\ chain = "starting" THEN child' ELSE Closes(info)
    /\ route' = Closes(route)
    /\ accepts' = [c \in Children |->
                     IF status'[c] = "running" THEN accepts[c] ELSE Unread]
    /\ UNCHANGED <<dirVars, first, credential, unloaded, cleaning>>

\* ensureToken and writeAgentConfig; startOnce() rejects when they do.
Prepares ==
    /\ Dir!Prepare(Us) \/ Dir!FilesFail(Us)
    /\ chain' = IF at'[Us] = "failed" THEN "ended" ELSE chain
    /\ UNCHANGED <<agentVars, accepts, first, info, hostVars, unloaded, cleaning>>

\* The supervisor is made and started, without a look at disposed.
StartsAgent ==
    /\ at[Us] = "configured"
    /\ Agent!StartCalled
    /\ Follows

\* LoadConfig of the agent (main.go): without a file it cannot become ready.
ReadsConfig(c) ==
    /\ c \in Running /\ accepts[c] = Unread
    /\ accepts' = [accepts EXCEPT ![c] = configFile]
    /\ UNCHANGED <<agentVars, dirVars, chain, first, info, hostVars, unloaded,
                   cleaning>>

AgentReady ==
    /\ child # None /\ accepts[child] \in Hosts
    /\ Agent!Ready
    /\ Follows

AgentSteps ==
    /\ \/ Agent!StartFails \/ Agent!KillTreeEnds \/ Agent!Stabilizes
       \/ Agent!RestartFires
       \/ \E c \in Children, how \in {"exited", "signaled"} : Agent!ChildExits(c, how)
       \/ Agent!Asked(Teardown) \/ Agent!GraceEnds(Teardown)
    /\ Follows

-----------------------------------------------------------------------------
(* refreshModels() and scheduleRefresh()                                   *)

\* After a refresh, startOnce() schedules the next in any case; the timer only
\* while the agent is ready and the plugin loaded.
RefreshEnds ==
    /\ first' = FALSE
    /\ chain' = IF first \/ (~unloaded /\ state = "ready") THEN "timer" ELSE "ended"

\* waitCatalogReady: the agent has a listing, or the wait has been long enough.
CatalogReady ==
    /\ chain = "health"
    /\ chain' = "listing"
    /\ UNCHANGED <<agentVars, dirVars, accepts, first, info, hostVars, unloaded,
                   cleaning>>

\* fetchModels: the port answers, and its agent knows the token.  A plausible
\* bug takes a refusal for a listing.
ModelsUnchecked == info \in Running
ModelsListed    == info \in Running /\ accepts[info] = token[Us]

FetchesModels ==
    /\ chain = "listing" /\ ModelsListed
    /\ chain' = "crediting"
    /\ UNCHANGED <<agentVars, dirVars, accepts, first, info, hostVars, unloaded,
                   cleaning>>

\* registerProvider: the credential, then the route.
SetsCredential ==
    /\ chain = "crediting"
    /\ credential' = token[Us]
    /\ chain' = "routing"
    /\ UNCHANGED <<agentVars, dirVars, accepts, first, info, route, unloaded, cleaning>>

SetsRoute ==
    /\ chain = "routing"
    /\ route' = info
    /\ RefreshEnds
    /\ UNCHANGED <<agentVars, dirVars, accepts, info, credential, unloaded, cleaning>>

\* Any of the three requests fails; refreshModels() logs it and returns.
RefreshFails ==
    /\ chain \in {"listing", "crediting", "routing"}
    /\ RefreshEnds
    /\ UNCHANGED <<agentVars, dirVars, accepts, info, hostVars, unloaded, cleaning>>

\* The timer of scheduleRefresh; a plausible bug: it does not look at disposed.
TimerUnasked ==
    /\ chain = "timer"
    /\ chain' = "listing"
    /\ UNCHANGED <<agentVars, dirVars, accepts, first, info, hostVars, unloaded,
                   cleaning>>
TimerFires ==
    /\ chain = "timer"
    /\ chain' = IF unloaded THEN "ended" ELSE "listing"
    /\ UNCHANGED <<agentVars, dirVars, accepts, first, info, hostVars, unloaded,
                   cleaning>>

-----------------------------------------------------------------------------
(* teardown() and the next load                                            *)

\* The timer is cleared, and the supervisor disposed of, if there is one yet.
Unload ==
    /\ ~unloaded
    /\ unloaded' = TRUE
    /\ chain' = IF chain = "timer" THEN "ended" ELSE chain
    /\ IF startPc = "uncalled" THEN UNCHANGED agentVars ELSE Agent!DisposeCall(Teardown)
    /\ UNCHANGED <<dirVars, accepts, first, info, hostVars, cleaning>>

\* applyAdapter: removeProviderRoute looks, and unsets the route it has seen.
LooksForRoute ==
    /\ unloaded /\ cleaning = "no"
    /\ cleaning' = IF route = None THEN "done" ELSE "unsetting"
    /\ UNCHANGED <<agentVars, dirVars, accepts, chain, first, info, hostVars, unloaded>>

UnsetsRoute ==
    /\ cleaning = "unsetting"
    /\ cleaning' = "done"
    /\ route' = None
    /\ UNCHANGED <<agentVars, dirVars, accepts, chain, first, info, credential, unloaded>>

\* Another DSH process uses the same directory; it may end at any point.
OtherHost(h) ==
    /\ Dir!Prepare(h)
    /\ UNCHANGED <<agentVars, ownVars>>

-----------------------------------------------------------------------------
Next ==
    \/ Prepares \/ StartsAgent \/ AgentReady \/ AgentSteps
    \/ CatalogReady \/ FetchesModels \/ SetsCredential \/ SetsRoute
    \/ RefreshFails \/ TimerFires \/ Unload \/ LooksForRoute \/ UnsetsRoute
    \/ \E c \in Children : ReadsConfig(c)
    \/ \E h \in Others : OtherHost(h)

Spec == Init /\ [][Next]_vars

\* The supervisor's fairness, timers fire and requests end; one that can
\* succeed does not fail for ever.
Fairness ==
    /\ WF_vars(Prepares) /\ WF_vars(StartsAgent)
    /\ WF_vars(Agent!StartFails /\ Follows)
    /\ WF_vars(Agent!KillTreeEnds /\ Follows)
    /\ WF_vars(Agent!RestartFires /\ Follows)
    /\ \A c \in Children :
        WF_vars(/\ c \in killed
                /\ \E how \in {"exited", "signaled"} : Agent!ChildExits(c, how)
                /\ Follows)
    /\ WF_vars(Agent!Asked(Teardown) /\ Follows)
    /\ WF_vars(Agent!GraceEnds(Teardown) /\ Follows)
    /\ WF_vars(CatalogReady) /\ WF_vars(TimerFires) /\ WF_vars(RefreshFails)
    /\ SF_vars(FetchesModels) /\ SF_vars(SetsCredential) /\ SF_vars(SetsRoute)

FairSpec == Spec /\ Fairness

-----------------------------------------------------------------------------
(* Properties                                                              *)

\* Every field keeps its type, and a refresh has a READY line to refresh.
TypeOK ==
    /\ Agent!TypeOK
    /\ Dir!DirTypeOK
    /\ accepts \in [Children -> Hosts \cup {None, Unread}]
    /\ chain \in {"starting", "health", "listing", "crediting", "routing",
                  "timer", "ended"}
    /\ first \in BOOLEAN /\ unloaded \in BOOLEAN
    /\ info \in Children \cup {None, Gone}
    /\ chain \in {"health", "listing", "crediting", "routing", "timer"} => info # None
    /\ credential \in Hosts \cup {None}
    /\ route \in Children \cup {None, Gone}
    /\ cleaning \in {"no", "unsetting", "done"}

\* The credential of the host opens the agent its route leads to, although that
\* agent read a file which another DSH process may have replaced by its own.
CredentialOpensAgent == route \in Running => accepts[route] = credential

\* Once torn down, the sidecar begins no refresh, although startOnce() sets the
\* timer whenever its own registration ends: a route that adapter mode has
\* removed is set again only by a registration that was in flight.
NoRefreshOnceUnloaded ==
    [][unloaded /\ chain' = "listing" => chain \in {"health", "listing"}]_vars

\* "Reload/unload/shutdown reaps the child process" (index.ts:409).
UnloadReapsAgent == unloaded ~> Running = {}

\* The route, once set, comes to "reflect the running agent" (provider.ts:112),
\* if that agent stays ready.
RouteReflectsAgent ==
    []<>(route = None \/ unloaded \/ state # "ready" \/ route = child)
=============================================================================
