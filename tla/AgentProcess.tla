---------------------------- MODULE AgentProcess ----------------------------
(***************************************************************************)
(* The supervisor of the legacy Go agent (agent-process.ts): it spawns the *)
(* agent, waits for the READY line, restarts a ready agent that exits      *)
(* after a delay that doubles, gives up after MaxConsecutiveCrashes, and   *)
(* stops the agent politely before it kills it.                            *)
(*                                                                         *)
(* One step is one turn of the event loop: a timer, an event of the child, *)
(* or a call, with the microtasks it resolves.  The points where the code  *)
(* waits are the values of startPc (inside start()) and pc[k] (inside the  *)
(* stop() or dispose() of caller k).  The caller of start() is the sidecar *)
(* (index.ts:398), which calls it once; what stops it comes afterwards.    *)
(***************************************************************************)
EXTENDS Integers, FiniteSets

CONSTANTS
    Callers,                \* the calls of stop() or dispose(), each made once
    Children,               \* the processes that may exist at one time
    None,                   \* null: no child, no READY answer
    RestartDelay,           \* options.restartDelayMs
    RestartMaxDelay,        \* options.restartMaxDelayMs
    MaxConsecutiveCrashes   \* options.maxConsecutiveCrashes

ASSUME NoneAssumption == None \notin Children
ASSUME OptionsAssumption ==
    /\ RestartDelay \in Nat /\ RestartMaxDelay \in Nat
    /\ MaxConsecutiveCrashes \in Nat \ {0}

VARIABLES
    windows,    \* process.platform === 'win32'
    status,     \* what each child is: its exitCode is set only if "exited"
    killed,     \* the children a forced kill was issued for
    child,      \* this.child
    state,      \* this.state
    ready,      \* #ready: the child whose READY line start() returned
    uptime,     \* readySinceMs: 0, or less, or more, than STABLE_UPTIME_MS ago
    crashes,    \* consecutiveCrashes
    backoff,    \* backoffMs
    timer,      \* restartTimer is set
    stopping,   \* this.stopping
    disposed,   \* this.disposed
    startPc,    \* where start() waits
    pc,         \* where each caller's stop() waits
    target,     \* the child each caller terminates
    hears       \* the callers whose 'exit' listener is on their target

agent   == <<child, state, ready, uptime, crashes, backoff, timer>>
process == <<status, killed>>
calls   == <<stopping, disposed, pc, target, hears>>
vars    == <<windows, process, agent, startPc, calls>>

Running == {c \in Children : status[c] = "running"}

\* A call that stops the agent has been made.
StopCalled == \E k \in Callers : pc[k] # "idle"

Init ==
    /\ windows \in BOOLEAN
    /\ status = [c \in Children |-> "free"]
    /\ killed = {}
    /\ child = None /\ state = "stopped" /\ ready = None
    /\ uptime = "none" /\ crashes = 0 /\ backoff = RestartDelay
    /\ timer = FALSE /\ stopping = FALSE /\ disposed = FALSE
    /\ startPc = "uncalled"
    /\ pc = [k \in Callers |-> "idle"]
    /\ target = [k \in Callers |-> None]
    /\ hears = {}

-----------------------------------------------------------------------------
(* start()                                                                 *)

\* start() returns the answer it has, or throws, in the other states.
Startable == state \in {"ready", "stopped"} /\ (state = "ready" => ready = None)

\* The process runs, and start() waits for the first of its four outcomes.
Launch(c) ==
    /\ status[c] # "running"
    /\ status' = [status EXCEPT ![c] = "running"]
    /\ killed' = killed \ {c}
    /\ child' = c
    /\ state' = "starting"
    /\ startPc' = "racing"

\* There is no such binary: detach() forgets the child, which never ran.
LaunchFails ==
    /\ child' = None
    /\ state' = "stopped"
    /\ startPc' = "settled"
    /\ UNCHANGED process

\* start(), past its guards.
Start ==
    /\ Startable
    /\ stopping' = FALSE
    /\ (\E c \in Children : Launch(c)) \/ LaunchFails
    /\ UNCHANGED <<windows, ready, uptime, crashes, backoff, disposed,
                   pc, target, hears>>

StartCalled ==
    /\ startPc = "uncalled"
    /\ Start
    /\ UNCHANGED timer

\* The READY line arrives first.
Ready ==
    /\ startPc = "racing"
    /\ child \in Running
    /\ startPc' = "settled"
    /\ ready' = child
    /\ state' = "ready"
    /\ uptime' = "fresh"
    /\ UNCHANGED <<windows, process, child, crashes, backoff, timer, calls>>

\* A plausible bug: the catch of start() detaches the child and lets it run.
StartRejectsUnkilled(exits, heard) ==
    /\ hears' = {k \in hears : target[k] # child}
    /\ child' = None
    /\ startPc' = "settled" /\ state' = "stopped"
    /\ UNCHANGED <<windows, killed, ready, uptime, crashes, backoff, timer,
                   stopping, disposed>>

\* The catch of start(): detach() takes every 'exit' listener off the child,
\* those of terminate() too, and killTree() kills it unless it has an exit
\* code.  On Windows the kill is another process that start() waits for.
StartRejects(exits, heard) ==
    LET coded == exits[child] = "exited"
        waits == windows /\ ~coded IN
    /\ hears' = {k \in hears : target[k] # child}
    /\ child' = None
    /\ killed' = IF coded THEN killed ELSE killed \cup {child}
    /\ startPc' = IF waits THEN "killing" ELSE "settled"
    /\ state' = IF waits /\ heard = {} THEN state ELSE "stopped"
    /\ UNCHANGED <<windows, ready, uptime, crashes, backoff, timer,
                   stopping, disposed>>

\* A plausible bug: start() fails only when the stdout of a killed child closes.
StartFailsUntimed ==
    /\ startPc = "racing"
    /\ child \in Running \cap killed
    /\ StartRejects(status, {})
    /\ UNCHANGED <<status, pc, target>>

\* The handshake times out, the READY line is invalid or stdout closes while
\* the child runs, or its stdout closes before its exit is reported.
StartFails ==
    /\ startPc = "racing"
    /\ child \in Running
    /\ StartRejects(status, {})
    /\ UNCHANGED <<status, pc, target>>

\* taskkill has ended.
KillTreeEnds ==
    /\ startPc = "killing"
    /\ startPc' = "settled"
    /\ state' = "stopped"
    /\ UNCHANGED <<windows, process, child, ready, uptime, crashes, backoff,
                   timer, calls>>

-----------------------------------------------------------------------------
(* The child's exit and the restart                                        *)

\* The agent has been ready for STABLE_UPTIME_MS.
Stabilizes ==
    /\ uptime = "fresh"
    /\ uptime' = "stable"
    /\ UNCHANGED <<windows, process, child, state, ready, crashes, backoff,
                   timer, startPc, calls>>

Smaller(a, b) == IF a <= b THEN a ELSE b

\* A stable run in between starts the count and the schedule afresh.
CrashesBefore == IF uptime = "stable" THEN 0 ELSE crashes
\* A plausible bug: the stable run resets the count and forgets the delay.
BackoffKept   == backoff
BackoffBefore == IF uptime = "stable" THEN RestartDelay ELSE backoff

\* The breaker trips, or the restart timer is set with the next delay.
TripOrRetry(trips) ==
    /\ uptime' = "none"
    /\ crashes' = CrashesBefore + 1
    /\ IF trips
       THEN /\ state' = "tripped"
            /\ backoff' = BackoffBefore
            /\ UNCHANGED timer
       ELSE /\ timer' = TRUE
            /\ backoff' = Smaller(2 * BackoffBefore, RestartMaxDelay)
            /\ UNCHANGED state

\* An exit nobody asked for; a plausible bug counts one crash too many.
CrashOnceMore == TripOrRetry(CrashesBefore + 1 > MaxConsecutiveCrashes)
Crash == TripOrRetry(CrashesBefore + 1 >= MaxConsecutiveCrashes)

\* The callers that hear the exit return; stop() then sets the state.
Released(c) == {k \in hears : target[k] = c}

StopsHear(c) ==
    /\ pc' = [k \in Callers |-> IF k \in Released(c) THEN "done" ELSE pc[k]]
    /\ UNCHANGED target

\* onExit: the listener start() left on the child that became ready.
OnExit(c) ==
    \/ /\ disposed
       /\ state' = IF Released(c) = {} THEN state ELSE "stopped"
       /\ UNCHANGED <<ready, uptime, crashes, backoff, timer>>
    \/ /\ ~disposed /\ stopping
       /\ state' = "stopped"
       /\ ready' = None
       /\ UNCHANGED <<uptime, crashes, backoff, timer>>
    \/ /\ ~disposed /\ ~stopping
       /\ ready' = None
       /\ Crash

\* Nobody listens any more to a child that start() gave up.
Unheard == UNCHANGED <<state, ready, uptime, crashes, backoff, timer>>

\* The child exits before start() has an answer: earlyExit rejects.
ExitsEarly(c, how) ==
    /\ startPc = "racing" /\ c = child
    /\ StartRejects([status EXCEPT ![c] = how], Released(c))
    /\ StopsHear(c)

\* The child exits at any other time.
ExitsLater(c) ==
    /\ ~(startPc = "racing" /\ c = child)
    /\ StopsHear(c)
    /\ hears' = hears \ Released(c)
    /\ IF c = child THEN OnExit(c) ELSE Unheard
    /\ UNCHANGED <<windows, killed, child, startPc, stopping, disposed>>

\* A child exits by itself, by the SIGTERM it was sent, or by a kill; a signal
\* leaves its exitCode null.
ChildExits(c, how) ==
    /\ c \in Running
    /\ status' = [status EXCEPT ![c] = how]
    /\ ExitsEarly(c, how) \/ ExitsLater(c)

\* The backoff delay is over: start() once more, its failure caught and dropped.
RestartFires ==
    /\ timer
    /\ timer' = FALSE
    /\ Start

-----------------------------------------------------------------------------
(* stop(), dispose() and terminate()                                       *)

\* There is nothing to stop when there is no child or it has an exit code;
\* else terminate() sends SIGTERM and listens, or waits for taskkill first.
Terminate(k) ==
    IF child = None \/ (child # None /\ status[child] = "exited")
    THEN /\ pc' = [pc EXCEPT ![k] = "done"]
         /\ state' = "stopped"
         /\ UNCHANGED <<target, hears>>
    ELSE /\ target' = [target EXCEPT ![k] = child]
         /\ pc' = [pc EXCEPT ![k] = IF windows THEN "asking" ELSE "grace"]
         /\ hears' = IF windows THEN hears ELSE hears \cup {k}
         /\ UNCHANGED state

\* A plausible bug: the restart timer is left running.
StopKeepsTimer(k) ==
    /\ startPc # "uncalled" /\ pc[k] = "idle"
    /\ stopping' = TRUE
    /\ Terminate(k)
    /\ UNCHANGED <<windows, process, child, ready, uptime, crashes, backoff,
                   timer, startPc>>

\* The sidecar has no supervisor to stop before it calls start() (index.ts:424).
Stop(k) ==
    /\ startPc # "uncalled" /\ pc[k] = "idle"
    /\ stopping' = TRUE
    /\ timer' = FALSE
    /\ Terminate(k)
    /\ UNCHANGED <<windows, process, child, ready, uptime, crashes, backoff,
                   startPc>>

StopCall(k)    == Stop(k) /\ UNCHANGED disposed
DisposeCall(k) == Stop(k) /\ disposed' = TRUE

\* The polite taskkill has ended; only now does terminate() listen.
Asked(k) ==
    /\ pc[k] = "asking"
    /\ pc' = [pc EXCEPT ![k] = "grace"]
    /\ hears' = hears \cup {k}
    /\ UNCHANGED <<windows, process, agent, startPc, stopping, disposed, target>>

\* Plausible bugs: the timeout gives up on the agent, or waits without force.
GraceGivesUp(k) ==
    /\ pc[k] = "grace"
    /\ pc' = [pc EXCEPT ![k] = "done"]
    /\ hears' = hears \ {k}
    /\ UNCHANGED <<windows, process, agent, startPc, stopping, disposed, target>>

GraceWaits(k) ==
    /\ pc[k] = "grace"
    /\ pc' = [pc EXCEPT ![k] = "forced"]
    /\ UNCHANGED <<windows, process, agent, startPc, stopping, disposed, target,
                   hears>>

\* GRACEFUL_STOP_TIMEOUT_MS is over: force, and wait for the exit.
GraceEnds(k) ==
    /\ pc[k] = "grace"
    /\ pc' = [pc EXCEPT ![k] = "forced"]
    /\ killed' = killed \cup {target[k]}
    /\ UNCHANGED <<windows, status, agent, startPc, stopping, disposed, target,
                   hears>>

-----------------------------------------------------------------------------
Next ==
    \/ StartCalled \/ Ready \/ StartFails \/ KillTreeEnds
    \/ Stabilizes \/ RestartFires
    \/ \E c \in Children, how \in {"exited", "signaled"} : ChildExits(c, how)
    \/ \E k \in Callers :
        StopCall(k) \/ DisposeCall(k) \/ Asked(k) \/ GraceEnds(k)

Spec == Init /\ [][Next]_vars

\* Timers fire, a launched taskkill ends, and a forced kill kills.  The agent
\* itself may run, or stay silent on its stdout, for ever.
Fairness ==
    /\ WF_vars(StartFails) /\ WF_vars(KillTreeEnds)
    /\ WF_vars(RestartFires)
    /\ \A c \in Children :
        WF_vars(c \in killed /\ \E how \in {"exited", "signaled"} : ChildExits(c, how))
    /\ \A k \in Callers : WF_vars(Asked(k)) /\ WF_vars(GraceEnds(k))

FairSpec == Spec /\ Fairness

-----------------------------------------------------------------------------
(* Properties                                                              *)

\* Every field of the supervisor and every wait holds one of its values, and
\* a caller that listens has a child to listen to.
TypeOK ==
    /\ windows \in BOOLEAN
    /\ status \in [Children -> {"free", "running", "exited", "signaled"}]
    /\ killed \subseteq Children
    /\ child \in Children \cup {None}
    /\ state \in {"starting", "ready", "stopped", "tripped"}
    /\ ready \in Children \cup {None}
    /\ uptime \in {"none", "fresh", "stable"}
    /\ crashes \in 0 .. MaxConsecutiveCrashes
    /\ backoff \in Nat
    /\ timer \in BOOLEAN /\ stopping \in BOOLEAN /\ disposed \in BOOLEAN
    /\ startPc \in {"uncalled", "racing", "killing", "settled"}
    /\ pc \in [Callers -> {"idle", "asking", "grace", "forced", "done"}]
    /\ target \in [Callers -> Children \cup {None}]
    /\ hears \subseteq Callers
    /\ \A k \in hears : pc[k] \in {"grace", "forced"} /\ target[k] \in Children

\* No agent is lost: one that runs is this.child, or was killed by force, however
\* starts fail, agents crash and restarts follow (start() and its catch).
NoLostAgent == \A c \in Running : c = child \/ c \in killed

\* No orphan: when a stop() or dispose() has returned, every agent that still
\* runs has been killed by force, and no timer is left that would start one.
NoOrphanOnceStopped ==
    (\E k \in Callers : pc[k] = "done") => Running \subseteq killed /\ ~timer

\* A call of stop() or dispose() ends the restarts: no agent is spawned after
\* it, by a timer set before it or by the exit it causes (agent-process.ts:222).
NoSpawnOnceStopped ==
    [][StopCalled => Running' \subseteq Running]_vars

\* The delay of the next restart after n crashes in a row.
Schedule[n \in Nat] ==
    IF n = 0 THEN RestartDelay ELSE Smaller(2 * Schedule[n - 1], RestartMaxDelay)

\* The delay and the count of crashes move together: each crash doubles the
\* delay up to the maximum, a stable run resets both, and only the crash that
\* trips the breaker leaves the delay alone.
BackoffMatchesCrashes ==
    backoff = Schedule[IF crashes < MaxConsecutiveCrashes THEN crashes ELSE crashes - 1]

\* After a stop() or dispose() no agent keeps running, wherever it finds the
\* supervisor: in a start, between restarts, or beside another stop.
StopLeavesNothingRunning == StopCalled ~> Running = {}

\* start() always returns or throws: an agent that never writes its READY line
\* does not hold it up.
StartSettles == startPc = "racing" ~> startPc = "settled"

\* What the comment of the restart timer promises (agent-process.ts:195,
\* "start() failure already set state; schedule the next backoff via exit
\* path"): a crash is retried until the agent is ready or the breaker trips.
CrashIsRetried == timer ~> (ready # None \/ state = "tripped" \/ stopping)

\* A stop() or dispose() that listens to a running agent returns, although the
\* agent may ignore SIGTERM, another call may be stopping it, and its exit may
\* be a crash: only a start() that fails meanwhile could take the listener away
\* (agent-process.ts:201), or the agent be gone before it listens.
StopReturns ==
    \A k \in Callers :
        (k \in hears /\ target[k] \in Running /\ startPc # "racing") ~> pc[k] = "done"
=============================================================================
