---------------------------- MODULE SidecarProofs ----------------------------
(***************************************************************************)
(* Proofs about Sidecar for any number of other DSH processes.  A step of  *)
(* the sidecar is a step of its supervisor or leaves that alone, so what   *)
(* AgentProcessProofs proves of the supervisor holds in the sidecar.       *)
(***************************************************************************)
EXTENDS Sidecar, TLAPS

Supervisor == INSTANCE AgentProcessProofs

-----------------------------------------------------------------------------
(* The sidecar runs the supervisor.                                        *)

\* Agent and Supervisor instantiate the same module: their actions are equal.
LEMMA StartsAgree ==
  /\ Agent!StartCalled <=> Supervisor!StartCalled
  /\ Agent!RestartFires <=> Supervisor!RestartFires
  /\ Agent!Ready <=> Supervisor!Ready
  /\ Agent!KillTreeEnds <=> Supervisor!KillTreeEnds
  /\ Agent!Stabilizes <=> Supervisor!Stabilizes
<1> USE DEF Agent!process, Agent!calls, Agent!Running,
            Supervisor!process, Supervisor!calls, Supervisor!Running
<1>1. Agent!Start <=> Supervisor!Start
  BY DEF Agent!Start, Agent!Startable, Agent!Launch, Agent!LaunchFails,
         Supervisor!Start, Supervisor!Startable, Supervisor!Launch,
         Supervisor!LaunchFails
<1>2. QED
  BY <1>1
     DEF Agent!StartCalled, Agent!RestartFires, Agent!Ready,
         Agent!KillTreeEnds, Agent!Stabilizes,
         Supervisor!StartCalled, Supervisor!RestartFires, Supervisor!Ready,
         Supervisor!KillTreeEnds, Supervisor!Stabilizes

LEMMA ExitsAgree ==
  /\ Agent!StartFails <=> Supervisor!StartFails
  /\ \A c \in Children, how \in {"exited", "signaled"} :
       Agent!ChildExits(c, how) <=> Supervisor!ChildExits(c, how)
<1>1. \A c \in Children : /\ Agent!Released(c) = Supervisor!Released(c)
                          /\ Agent!StopsHear(c) <=> Supervisor!StopsHear(c)
  BY DEF Agent!Released, Agent!StopsHear, Supervisor!Released,
         Supervisor!StopsHear
<1>2. Agent!Crash <=> Supervisor!Crash
  BY DEF Agent!Crash, Agent!TripOrRetry, Agent!CrashesBefore,
         Agent!BackoffBefore, Agent!Smaller,
         Supervisor!Crash, Supervisor!TripOrRetry, Supervisor!CrashesBefore,
         Supervisor!BackoffBefore, Supervisor!Smaller
<1>3. \A exits, heard :
        Agent!StartRejects(exits, heard) <=> Supervisor!StartRejects(exits, heard)
  BY DEF Agent!StartRejects, Supervisor!StartRejects
<1>4. QED
  BY <1>1, <1>2, <1>3
     DEF Agent!StartFails, Agent!ChildExits, Agent!ExitsEarly,
         Agent!ExitsLater, Agent!OnExit, Agent!Unheard, Agent!Running,
         Supervisor!StartFails, Supervisor!ChildExits, Supervisor!ExitsEarly,
         Supervisor!ExitsLater, Supervisor!OnExit, Supervisor!Unheard,
         Supervisor!Running

LEMMA StopsAgree ==
  /\ Agent!DisposeCall(Teardown) <=> Supervisor!DisposeCall(Teardown)
  /\ Agent!Asked(Teardown) <=> Supervisor!Asked(Teardown)
  /\ Agent!GraceEnds(Teardown) <=> Supervisor!GraceEnds(Teardown)
<1> USE DEF Agent!process, Agent!agent, Supervisor!process, Supervisor!agent
<1>1. QED
  BY DEF Agent!DisposeCall, Agent!Stop, Agent!Terminate, Agent!Asked,
         Agent!GraceEnds,
         Supervisor!DisposeCall, Supervisor!Stop, Supervisor!Terminate,
         Supervisor!Asked, Supervisor!GraceEnds

\* A step of the sidecar is a step of the supervisor, or leaves it alone.
LEMMA SupervisorSteps ==
  ASSUME [Next]_vars
  PROVE  [Supervisor!Next]_(Supervisor!vars)
<1>1. ASSUME UNCHANGED agentVars
      PROVE  UNCHANGED Supervisor!vars
  BY <1>1 DEF agentVars, Supervisor!vars, Supervisor!process,
              Supervisor!agent, Supervisor!calls
<1>2. CASE StartsAgent \/ AgentReady
  BY <1>2, StartsAgree DEF StartsAgent, AgentReady, Supervisor!Next
<1>3. CASE AgentSteps
  BY <1>3, StartsAgree, ExitsAgree, StopsAgree
     DEF AgentSteps, Callers, Supervisor!Next
<1>4. CASE Unload
  <2>1. CASE startPc = "uncalled"
    BY <1>1, <1>4, <2>1 DEF Unload
  <2>2. CASE startPc # "uncalled"
    BY <1>4, <2>2, StopsAgree DEF Unload, Callers, Supervisor!Next
  <2>3. QED
    BY <2>1, <2>2
<1>5. CASE UNCHANGED vars \/ Prepares \/ CatalogReady \/ FetchesModels
           \/ SetsCredential \/ SetsRoute \/ RefreshFails \/ TimerFires
           \/ LooksForRoute \/ UnsetsRoute
           \/ (\E c \in Children : ReadsConfig(c))
           \/ (\E h \in Others : OtherHost(h))
  <2>1. UNCHANGED agentVars
    BY <1>5 DEF vars, Prepares, CatalogReady, FetchesModels, SetsCredential,
                SetsRoute, RefreshFails, TimerFires, LooksForRoute,
                UnsetsRoute, ReadsConfig, OtherHost
  <2>2. QED
    BY <2>1, <1>1
<1>6. QED
  BY <1>2, <1>3, <1>4, <1>5 DEF Next

\* The constants of the sidecar are those of a supervisor.
LEMMA SupervisorAssumptions ==
  Supervisor!NoneAssumption /\ Supervisor!OptionsAssumption
  BY NothingAssumption, OptionsAssumption
     DEF Supervisor!NoneAssumption, Supervisor!OptionsAssumption

\* The agent of the sidecar (index.ts:398) is a supervisor of AgentProcess: each
\* step of the sidecar, its refreshes, reports and unloading included, is one of
\* the supervisor's own or leaves it alone.
THEOREM SidecarSupervises == Spec => Supervisor!Spec
<1>1. Init => Supervisor!Init
  BY DEF Init, Agent!Init, Supervisor!Init
<1>2. [Next]_vars => [Supervisor!Next]_(Supervisor!vars)
  BY SupervisorSteps
<1>3. QED
  BY <1>1, <1>2, PTL DEF Spec, Supervisor!Spec

\* What is proved of every supervisor holds of the one in the sidecar: its
\* fields keep their types.
THEOREM SupervisorTypeCorrect == Spec => []Supervisor!TypeOK
  BY SidecarSupervises, SupervisorAssumptions, Supervisor!TypeCorrect, PTL

LEMMA TypesAgree == Agent!TypeOK <=> Supervisor!TypeOK
  BY DEF Agent!TypeOK, Supervisor!TypeOK

-----------------------------------------------------------------------------
(* The inductive invariant.                                                *)

Refreshing == {"health", "listing", "crediting", "routing", "timer"}

\* startOnce() waits for a start() that has not settled.
Awaited == chain = "starting" => startPc # "settled"

\* Our files are written, and our token chosen for good, before it is used.
Prepared ==
    startPc # "uncalled" \/ chain \in Refreshing \/ route \in Running
        => at[Us] = "configured"

\* A port is that of an agent that runs, or of none that ever will.
Ports == {info, route} \subseteq Running \cup {None, Gone}

\* What a listing has confirmed stays true while its agent runs.
Heard ==
    chain \in {"crediting", "routing"} /\ info \in Running
        => accepts[info] = token[Us]

\* The credential is our token when a route is about to be set, and while the
\* agent of the route runs; before, it may be what an earlier run has left.
Stored ==
    chain = "routing" \/ route \in Running => credential = token[Us]

Opens == route \in Running => accepts[route] = token[Us]

Safe == Awaited /\ Prepared /\ Ports /\ Heard /\ Stored /\ Opens

IInv == TypeOK /\ Safe

LEMMA InvInit ==
  ASSUME Init, Agent!TypeOK
  PROVE  IInv
<1>1. Us \in Hosts /\ None \notin Children
  BY NothingAssumption DEF Hosts
<1>2. Dir!DirTypeOK
  BY <1>1 DEF Init, Dir!Init, Dir!DirTypeOK
<1>3. TypeOK
  <2>1. credential \in Hosts \cup {None} /\ route \in Children \cup {None, Gone}
    BY DEF Init, Hosts
  <2>2. QED
    BY <1>2, <2>1 DEF Init, TypeOK
<1>4. Safe
  BY <1>1, NothingAssumption
     DEF Init, Agent!Init, Safe, Awaited, Prepared, Ports, Heard, Stored,
         Opens, Refreshing, Running, Agent!Running
<1>5. QED
  BY <1>3, <1>4 DEF IInv

-----------------------------------------------------------------------------
(* Steps of the supervisor and of the agents.                              *)

\* Only the READY line of a running agent lets startOnce() go on.
LEMMA OnlyReadyIsHeard ==
  ASSUME StartsAgent \/ AgentReady \/ AgentSteps,
         startPc # "settled", startPc' = "settled", state' = "ready"
  PROVE  child' \in Children /\ status'[child'] = "running"
<1>1. CASE StartsAgent
  BY <1>1 DEF StartsAgent, Agent!StartCalled, Agent!Start, Agent!Launch,
              Agent!LaunchFails
<1>2. CASE AgentReady
  BY <1>2 DEF AgentReady, Agent!Ready, Agent!Running, Agent!process
<1>3. CASE AgentSteps
  <2>1. CASE Agent!StartFails \/ Agent!KillTreeEnds \/ Agent!Stabilizes
             \/ Agent!RestartFires
    BY <2>1 DEF Agent!StartFails, Agent!StartRejects, Agent!KillTreeEnds,
                Agent!Stabilizes, Agent!RestartFires, Agent!Start,
                Agent!Launch, Agent!LaunchFails
  <2>2. ASSUME NEW c \in Children, NEW how \in {"exited", "signaled"},
               Agent!ChildExits(c, how)
        PROVE  FALSE
    BY <2>2 DEF Agent!ChildExits, Agent!ExitsEarly, Agent!StartRejects,
                Agent!ExitsLater
  <2>3. CASE Agent!Asked(Teardown) \/ Agent!GraceEnds(Teardown)
    BY <2>3 DEF Agent!Asked, Agent!GraceEnds
  <2>4. QED
    BY <1>3, <2>1, <2>2, <2>3 DEF AgentSteps
<1>4. QED
  BY <1>1, <1>2, <1>3

\* An agent's steps leave the files alone and never open a port again.
LEMMA FollowsKeepsPorts ==
  ASSUME IInv, Follows, Agent!TypeOK'
  PROVE  /\ \A c \in Running' \cap Running : accepts'[c] = accepts[c]
         /\ route' \in {route, Gone}
         /\ route' \in Running' \cup {None, Gone}
         /\ Closes(info) \in {info, Gone}
         /\ Closes(info) \in Running' \cup {None, Gone}
<1> USE DEF Running, Agent!Running
<1>1. Ports /\ None \notin Children /\ Gone \notin Children
  BY NothingAssumption DEF IInv, Safe
<1>2. ASSUME NEW port \in Running \cup {None, Gone}
      PROVE  /\ Closes(port) \in {port, Gone}
             /\ Closes(port) \in Running' \cup {None, Gone}
  BY <1>1 DEF Closes
<1>3. \A c \in Running' \cap Running : accepts'[c] = accepts[c]
  BY DEF Follows
<1>4. QED
  BY <1>1, <1>2, <1>3 DEF Follows, Ports

\* startOnce() goes on to the refresh with the port of the agent that is ready,
\* ends, or waits on; every other refresh goes on with its own port.
LEMMA FollowsChain ==
  ASSUME IInv, StartsAgent \/ AgentReady \/ AgentSteps
  PROVE  \/ /\ chain' = chain /\ info' = Closes(info)
            /\ chain = "starting" => startPc' # "settled"
         \/ /\ chain = "starting" /\ chain' = "health"
            /\ info' \in Running'
         \/ /\ chain = "starting" /\ chain' = "ended"
            /\ info' = Closes(info)
<1>1. Follows
  BY DEF StartsAgent, AgentReady, AgentSteps
<1>2. CASE chain # "starting" \/ startPc' # "settled"
  BY <1>1, <1>2 DEF Follows, StartOnceHears
<1>3. CASE chain = "starting" /\ startPc' = "settled" /\ state' = "ready"
  <2>1. chain' = "health" /\ info' = child'
    BY <1>1, <1>3 DEF Follows, StartOnceHears
  <2>2. child' \in Running'
    BY <1>3, OnlyReadyIsHeard
       DEF IInv, Safe, Awaited, Running, Agent!Running
  <2>3. QED
    BY <1>3, <2>1, <2>2
<1>4. CASE chain = "starting" /\ startPc' = "settled" /\ state' # "ready"
  BY <1>1, <1>4 DEF Follows, StartOnceHears
<1>5. QED
  BY <1>2, <1>3, <1>4

LEMMA FollowsInv ==
  ASSUME IInv, StartsAgent \/ AgentReady \/ AgentSteps, Agent!TypeOK',
         timer => startPc = "settled"
  PROVE  IInv'
<1>1. Follows
  BY DEF StartsAgent, AgentReady, AgentSteps
<1>2. UNCHANGED <<tokenFile, tmpFile, configFile, at, token,
                  first, credential, unloaded, cleaning>>
  BY <1>1 DEF Follows, dirVars
<1>3. /\ None \notin Children /\ Gone \notin Children /\ Gone # None
      /\ Running \subseteq Children /\ Running' \subseteq Children
  BY NothingAssumption DEF Running, Agent!Running
<1>4. startPc' # "uncalled" => at[Us] = "configured"
  <2>1. startPc' # "uncalled" => startPc # "uncalled" \/ StartsAgent
    BY DEF AgentReady, Agent!Ready, AgentSteps, Agent!StartFails,
           Agent!KillTreeEnds, Agent!Stabilizes, Agent!RestartFires,
           Agent!ChildExits, Agent!ExitsEarly, Agent!ExitsLater,
           Agent!Asked, Agent!GraceEnds
  <2>2. QED
    BY <2>1 DEF IInv, Safe, Prepared, StartsAgent
<1>5. TypeOK'
  <2>1. Dir!DirTypeOK'
    BY <1>2 DEF IInv, TypeOK, Dir!DirTypeOK
  <2>2. accepts' \in [Children -> Hosts \cup {None, Unread}]
    BY <1>1 DEF Follows, IInv, TypeOK
  <2>3. /\ chain' \in {"starting", "health", "listing", "crediting",
                       "routing", "timer", "ended"}
        /\ info' \in Children \cup {None, Gone}
        /\ chain' \in {"health", "listing", "crediting", "routing", "timer"}
             => info' # None
    BY <1>1, <1>3, FollowsChain, FollowsKeepsPorts DEF IInv, TypeOK
  <2>4. route' \in Children \cup {None, Gone}
    BY <1>1, <1>3, FollowsKeepsPorts
  <2>5. QED
    BY <1>2, <2>1, <2>2, <2>3, <2>4 DEF IInv, TypeOK
<1>6. Awaited' /\ Ports'
  BY <1>1, <1>3, FollowsChain, FollowsKeepsPorts DEF Awaited, Ports
<1>7. Prepared'
  <2>1. chain' \in Refreshing => chain \in Refreshing \/ startPc' # "uncalled"
    <3>1. chain' = "health" /\ chain = "starting" => startPc' = "settled"
      BY <1>1 DEF Follows, StartOnceHears
    <3>2. QED
      BY <3>1, FollowsChain DEF Refreshing
  <2>2. route' \in Running' => route \in Running
    BY <1>1, <1>3, FollowsKeepsPorts DEF IInv, Safe, Ports
  <2>3. QED
    BY <1>2, <1>4, <2>1, <2>2 DEF IInv, Safe, Prepared
<1>8. Heard'
  <2>1. chain' \in {"crediting", "routing"} /\ info' \in Running'
          => chain' = chain /\ info' = info /\ info \in Running
    BY <1>1, <1>3, FollowsChain, FollowsKeepsPorts DEF IInv, Safe, Ports
  <2>2. QED
    BY <1>1, <1>2, <2>1, FollowsKeepsPorts DEF IInv, Safe, Heard
<1>9. Opens'
  <2>1. route' \in Running' => route' = route /\ route \in Running
    BY <1>1, <1>3, FollowsKeepsPorts DEF IInv, Safe, Ports
  <2>2. QED
    BY <1>1, <1>2, <2>1, FollowsKeepsPorts DEF IInv, Safe, Opens
<1>10. Stored'
  <2>1. chain' = "routing" => chain = "routing"
    BY FollowsChain
  <2>2. route' \in Running' => route \in Running
    BY <1>1, <1>3, FollowsKeepsPorts DEF IInv, Safe, Ports
  <2>3. QED
    BY <1>2, <2>1, <2>2 DEF IInv, Safe, Stored
<1>11. QED
  BY <1>5, <1>6, <1>7, <1>8, <1>9, <1>10 DEF IInv, Safe

-----------------------------------------------------------------------------
(* The other steps.                                                        *)

\* The files of other processes are theirs: our place and token stay.
LEMMA FilesInv ==
  ASSUME IInv, Prepares \/ (\E h \in Others : OtherHost(h))
  PROVE  IInv'
<1> USE DEF Dir!Goes, Dir!files
<1>1. Us \in Hosts /\ Others \subseteq Hosts
  BY DEF Hosts
<1>2. /\ UNCHANGED <<agentVars, accepts, first, info, credential, route,
                      unloaded, cleaning>>
      /\ chain' \in {chain, "ended"}
  BY DEF Prepares, OtherHost, hostVars, ownVars
<1>3. UNCHANGED <<status, child, startPc>> /\ (Agent!TypeOK <=> Agent!TypeOK')
  BY <1>2 DEF agentVars, Agent!TypeOK
<1>4. Dir!DirTypeOK'
  <2>1. \E h \in Hosts : Dir!Prepare(h) \/ Dir!FilesFail(h)
    BY <1>1 DEF Prepares, OtherHost
  <2>2. QED
    BY <2>1 DEF IInv, TypeOK, Dir!DirTypeOK, Dir!Prepare, Dir!FilesFail,
                Dir!FindsToken, Dir!FindsPart, Dir!MissesToken, Dir!SavesToken,
                Dir!WritesTmp, Dir!RemovesConfig, Dir!Renames
<1>5. TypeOK'
  BY <1>2, <1>3, <1>4 DEF IInv, TypeOK
<1>6. at[Us] = "configured" => at'[Us] = "configured" /\ token'[Us] = token[Us]
  <2>1. CASE Prepares
    BY <2>1 DEF Prepares, Dir!Prepare, Dir!FilesFail, Dir!FindsToken, Dir!FindsPart,
                Dir!MissesToken, Dir!SavesToken, Dir!WritesTmp,
                Dir!RemovesConfig, Dir!Renames
  <2>2. ASSUME NEW h \in Others, OtherHost(h)
        PROVE  at'[Us] = at[Us] /\ token'[Us] = token[Us]
    BY <1>1, <2>2, OthersAssumption
       DEF OtherHost, IInv, TypeOK, Dir!DirTypeOK, Dir!Prepare,
           Dir!FindsToken, Dir!FindsPart, Dir!MissesToken, Dir!SavesToken,
           Dir!WritesTmp, Dir!RemovesConfig, Dir!Renames
  <2>3. QED
    BY <2>1, <2>2
<1>7. Safe'
  <2>1. Running' = Running
    BY <1>3 DEF Running, Agent!Running
  <2>2. route \in Running => route # None
    BY NothingAssumption DEF Running, Agent!Running
  <2>3. QED
    BY <1>2, <1>3, <1>6, <2>1, <2>2
       DEF IInv, Safe, Awaited, Prepared, Ports, Heard, Stored, Opens,
           Refreshing
<1>8. QED
  BY <1>5, <1>7 DEF IInv

\* An agent reads its configuration once, before anything relies on it.
LEMMA ReadsConfigInv ==
  ASSUME IInv, NEW c \in Children, ReadsConfig(c)
  PROVE  IInv'
<1>1. UNCHANGED <<agentVars, dirVars, chain, first, info, credential, route,
                  unloaded, cleaning>>
  BY DEF ReadsConfig, hostVars
<1>2. /\ UNCHANGED <<status, child, startPc, at, token>>
      /\ Agent!TypeOK <=> Agent!TypeOK'
      /\ Dir!DirTypeOK <=> Dir!DirTypeOK'
  BY <1>1 DEF agentVars, dirVars, Agent!TypeOK, Dir!DirTypeOK
<1>3. TypeOK'
  BY <1>1, <1>2 DEF ReadsConfig, IInv, TypeOK, Dir!DirTypeOK
<1>4. token[Us] # Unread
  BY NothingAssumption DEF IInv, TypeOK, Dir!DirTypeOK, Hosts
<1>5. /\ Running' = Running
      /\ \A d \in Running : accepts[d] # Unread => accepts'[d] = accepts[d]
  BY <1>2 DEF ReadsConfig, Running, Agent!Running, IInv, TypeOK
<1>6. Safe'
  BY <1>1, <1>2, <1>4, <1>5
     DEF IInv, Safe, Awaited, Prepared, Ports, Heard, Stored, Opens
<1>7. QED
  BY <1>3, <1>6 DEF IInv

LEMMA UnloadInv ==
  ASSUME IInv, Unload, Agent!TypeOK'
  PROVE  IInv'
<1>1. UNCHANGED <<status, child, startPc>>
  BY DEF Unload, agentVars, Agent!DisposeCall, Agent!Stop, Agent!process
<1>2. /\ UNCHANGED <<dirVars, accepts, first, info, credential, route, cleaning>>
      /\ chain' \in {chain, "ended"} /\ unloaded' = TRUE
  BY DEF Unload, hostVars
<1>3. UNCHANGED <<at, token>> /\ (Dir!DirTypeOK <=> Dir!DirTypeOK')
  BY <1>2 DEF dirVars, Dir!DirTypeOK
<1>4. TypeOK'
  BY <1>2, <1>3 DEF IInv, TypeOK
<1>5. Running' = Running
  BY <1>1 DEF Running, Agent!Running
<1>6. Safe'
  BY <1>1, <1>2, <1>3, <1>5
     DEF IInv, Safe, Awaited, Prepared, Ports, Heard, Stored, Opens, Refreshing
<1>7. QED
  BY <1>4, <1>6 DEF IInv

\* The chain confirms the token, then stores it, then sets the route.
LEMMA ChainInv ==
  ASSUME IInv,
         \/ CatalogReady \/ FetchesModels \/ SetsCredential \/ SetsRoute
         \/ RefreshFails \/ TimerFires \/ LooksForRoute \/ UnsetsRoute
         \/ UNCHANGED vars
  PROVE  IInv'
<1> USE DEF hostVars
<1>1. UNCHANGED <<agentVars, dirVars, accepts, info>>
  BY DEF CatalogReady, FetchesModels, SetsCredential, SetsRoute,
         RefreshFails, TimerFires, LooksForRoute, UnsetsRoute, vars, ownVars
<1>2. /\ UNCHANGED <<status, child, startPc, at, token>>
      /\ Agent!TypeOK <=> Agent!TypeOK'
      /\ Dir!DirTypeOK <=> Dir!DirTypeOK'
  BY <1>1 DEF agentVars, dirVars, Agent!TypeOK, Dir!DirTypeOK
<1>3. Running' = Running
  BY <1>2 DEF Running, Agent!Running
<1>4. None \notin Running /\ Us \in Hosts
  BY NothingAssumption DEF Hosts, Running, Agent!Running
<1>5. TypeOK'
  BY <1>1, <1>2, <1>4
     DEF IInv, TypeOK, Dir!DirTypeOK, CatalogReady, FetchesModels,
         SetsCredential, SetsRoute, RefreshFails, RefreshEnds, TimerFires,
         LooksForRoute, UnsetsRoute, vars, ownVars
<1>6. ASSUME CatalogReady \/ FetchesModels \/ SetsCredential PROVE Safe'
  BY <1>1, <1>2, <1>3, <1>6
     DEF CatalogReady, FetchesModels, ModelsListed, SetsCredential, IInv,
         Safe, Awaited, Prepared, Ports, Heard, Stored, Opens, Refreshing
<1>7. ASSUME SetsRoute \/ RefreshFails PROVE Safe'
  BY <1>1, <1>2, <1>3, <1>7
     DEF SetsRoute, RefreshFails, RefreshEnds, IInv, Safe, Awaited, Prepared,
         Ports, Heard, Stored, Opens, Refreshing
<1>8. ASSUME TimerFires \/ LooksForRoute \/ UnsetsRoute \/ UNCHANGED vars
      PROVE  Safe'
  BY <1>1, <1>2, <1>3, <1>4, <1>8
     DEF TimerFires, LooksForRoute, UnsetsRoute, vars, ownVars, IInv, Safe,
         Awaited, Prepared, Ports, Heard, Stored, Opens, Refreshing
<1>9. QED
  BY <1>5, <1>6, <1>7, <1>8 DEF IInv

-----------------------------------------------------------------------------
(* The theorems.                                                           *)

LEMMA InvStep ==
  ASSUME IInv, [Next]_vars, Agent!TypeOK', timer => startPc = "settled"
  PROVE  IInv'
  BY FollowsInv, FilesInv, ReadsConfigInv, UnloadInv, ChainInv DEF Next

\* Wherever the sidecar is between two steps: the files are written and the token
\* chosen before they are used, a stored credential is that token, the agent of the
\* route accepts it while it runs, and what a listing has confirmed stays true.
THEOREM Invariance == Spec => []IInv
<1>1. Spec => []Supervisor!IInv
  BY SidecarSupervises, SupervisorAssumptions, Supervisor!Invariance, PTL
<1>2. Supervisor!IInv => Agent!TypeOK /\ (timer => startPc = "settled")
  BY TypesAgree DEF Supervisor!IInv, Supervisor!Safe, Supervisor!Shepherd
<1>3. Supervisor!IInv' => Agent!TypeOK'
  BY DEF Supervisor!IInv, Supervisor!TypeOK, Agent!TypeOK
<1>4. Init /\ Supervisor!IInv => IInv
  BY <1>2, InvInit
<1>5. IInv /\ [Next]_vars /\ Supervisor!IInv /\ Supervisor!IInv' => IInv'
  BY <1>2, <1>3, InvStep
<1>6. QED
  BY <1>1, <1>4, <1>5, PTL DEF Spec

\* Every field of the sidecar, of its supervisor and of the shared files keeps
\* its type; in particular a refresh always has a READY line to refresh.
THEOREM TypeCorrect == Spec => []TypeOK
<1>1. IInv => TypeOK
  BY DEF IInv
<1>2. QED
  BY <1>1, Invariance, PTL

\* However many DSH processes write the token and the configuration, and
\* whatever restarts, the credential opens the agent that the route leads to.
THEOREM CredentialFits == Spec => []CredentialOpensAgent
<1>1. IInv => CredentialOpensAgent
  BY NothingAssumption
     DEF IInv, Safe, Stored, Opens, CredentialOpensAgent, Running,
         Agent!Running
<1>2. QED
  BY <1>1, Invariance, PTL

\* Once torn down, the sidecar begins no refresh (scheduleRefresh's look at
\* disposed), although startOnce() sets the timer in any case.
THEOREM UnloadEndsRefreshes == Spec => NoRefreshOnceUnloaded
<1>1. [Next]_vars =>
        [unloaded /\ chain' = "listing" => chain \in {"health", "listing"}]_vars
  <2> SUFFICES ASSUME Next, unloaded, chain' = "listing"
               PROVE  chain \in {"health", "listing"}
    OBVIOUS
  <2>1. CASE StartsAgent \/ AgentReady \/ AgentSteps
    BY <2>1 DEF StartsAgent, AgentReady, AgentSteps, Follows, StartOnceHears
  <2>2. CASE \/ CatalogReady \/ FetchesModels \/ SetsCredential \/ SetsRoute
             \/ RefreshFails \/ TimerFires
    BY <2>2 DEF CatalogReady, FetchesModels, SetsCredential, SetsRoute,
                RefreshFails, RefreshEnds, TimerFires
  <2>3. CASE \/ Prepares \/ Unload \/ LooksForRoute \/ UnsetsRoute
             \/ (\E c \in Children : ReadsConfig(c))
             \/ (\E h \in Others : OtherHost(h))
    BY <2>3 DEF Prepares, Unload, LooksForRoute, UnsetsRoute, ReadsConfig,
                OtherHost, ownVars
  <2>4. QED
    BY <2>1, <2>2, <2>3 DEF Next
<1>2. QED
  BY <1>1, PTL DEF Spec, NoRefreshOnceUnloaded

\* What is proved of the supervisor holds in the sidecar: when its one dispose()
\* has returned, no agent runs that was not killed, and none is to come.
THEOREM DisposedSidecarIsQuiet == Spec => []Agent!NoOrphanOnceStopped
<1>1. Supervisor!NoOrphanOnceStopped <=> Agent!NoOrphanOnceStopped
  BY DEF Supervisor!NoOrphanOnceStopped, Agent!NoOrphanOnceStopped,
         Supervisor!Running, Agent!Running
<1>2. QED
  BY <1>1, SidecarSupervises, SupervisorAssumptions, Supervisor!NoOrphan, PTL

\* An agent that runs after teardown() has called dispose() has been killed, or
\* that dispose() waits for the timer that kills it.
Reaping ==
    pc[Teardown] # "idle" => \A c \in Running :
        \/ c \in killed
        \/ target[Teardown] = c /\ pc[Teardown] \in {"asking", "grace"}

\* What is left of "Reload/unload/shutdown reaps the child process" (index.ts:409):
\* an unload that finds a supervisor to dispose of follows its agent up, whatever
\* its start, a restart or a kill was about.  TLC's counterexample to
\* UnloadReapsAgent therefore needs an unload before the supervisor starts.
THEOREM UnloadFollowsUp == Spec => []Reaping
<1>1. Supervisor!Hunted => Reaping
  BY DEF Supervisor!Hunted, Supervisor!StopCalled, Supervisor!Running, Running,
         Agent!Running, Callers, Reaping
<1>2. QED
  BY <1>1, SidecarSupervises, SupervisorAssumptions, Supervisor!StopIsFollowedUp, PTL
=============================================================================
