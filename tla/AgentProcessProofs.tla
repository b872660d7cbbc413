------------------------- MODULE AgentProcessProofs -------------------------
(***************************************************************************)
(* Proofs about AgentProcess for any number of callers and children, any   *)
(* delays and any breaker limit, on POSIX and on Windows.                  *)
(***************************************************************************)
EXTENDS AgentProcess, Recursion

Hows == {"exited", "signaled"}

\* One label per kind of step, so that each proof has one case per action.
LEMMA NextCases ==
  ASSUME Next
  PROVE  \/ StartCalled \/ Ready \/ StartFails \/ KillTreeEnds
         \/ Stabilizes \/ RestartFires
         \/ \E c \in Children, how \in Hows : ChildExits(c, how) /\ ExitsEarly(c, how)
         \/ \E c \in Children, how \in Hows : ChildExits(c, how) /\ ExitsLater(c)
         \/ \E k \in Callers : Stop(k) /\ disposed' \in {disposed, TRUE}
         \/ \E k \in Callers : Asked(k)
         \/ \E k \in Callers : GraceEnds(k)
BY DEF Next, ChildExits, StopCall, DisposeCall, Hows

-----------------------------------------------------------------------------
(* The inductive invariant.                                                *)

\* The callers that wait terminate this.child, or one a start() has given up:
\* no other child can take its place, because a stop ends the restarts.
Waits ==
    \A k \in Callers : pc[k] \in {"asking", "grace", "forced"} =>
        target[k] \in Children /\ child \in {target[k], None}

\* What a call of stop() or dispose() leaves behind for good.
Ended == StopCalled => stopping /\ ~timer /\ startPc # "uncalled"

\* Where start() may be, what may still be launched, and that the breaker has
\* not tripped while there is an agent to crash or a restart to come.
Shepherd ==
    /\ timer \/ startPc = "uncalled" =>
        child \notin Running /\ crashes < MaxConsecutiveCrashes
    /\ child \in Running => crashes < MaxConsecutiveCrashes
    /\ timer => startPc = "settled"
    /\ startPc = "racing" => child \in Running
    /\ startPc \in {"uncalled", "killing"} => child = None

Safe == NoLostAgent /\ NoOrphanOnceStopped /\ Waits /\ Ended /\ Shepherd

IInv == TypeOK /\ Safe

-----------------------------------------------------------------------------
(* Type correctness.                                                       *)

LEMMA TypeInit ==
  ASSUME Init
  PROVE  TypeOK
<1> USE DEF Init
<1>1. crashes \in 0 .. MaxConsecutiveCrashes /\ backoff \in Nat
  BY OptionsAssumption
<1>2. timer \in BOOLEAN /\ stopping \in BOOLEAN /\ disposed \in BOOLEAN
  OBVIOUS
<1>3. status \in [Children -> {"free", "running", "exited", "signaled"}]
  OBVIOUS
<1>4. /\ pc \in [Callers -> {"idle", "asking", "grace", "forced", "done"}]
      /\ target \in [Callers -> Children \cup {None}]
  OBVIOUS
<1>5. QED
  BY <1>1, <1>2, <1>3, <1>4 DEF TypeOK

LEMMA StartRejectsTypes ==
  ASSUME TypeOK, child \in Children, NEW exits, NEW heard,
         StartRejects(exits, heard)
  PROVE  /\ windows' \in BOOLEAN /\ killed' \subseteq Children
         /\ child' \in Children \cup {None}
         /\ state' \in {"starting", "ready", "stopped", "tripped"}
         /\ ready' \in Children \cup {None}
         /\ uptime' \in {"none", "fresh", "stable"}
         /\ crashes' \in 0 .. MaxConsecutiveCrashes /\ backoff' \in Nat
         /\ timer' \in BOOLEAN /\ stopping' \in BOOLEAN /\ disposed' \in BOOLEAN
         /\ startPc' \in {"uncalled", "racing", "killing", "settled"}
         /\ hears' \subseteq Callers
BY DEF TypeOK, StartRejects

LEMMA StartTypes ==
  ASSUME TypeOK, Start, timer' \in BOOLEAN
  PROVE  TypeOK'
BY DEF TypeOK, Start, Launch, LaunchFails, process

LEMMA CrashTypes ==
  ASSUME TypeOK, crashes < MaxConsecutiveCrashes, Crash
  PROVE  /\ state' \in {"starting", "ready", "stopped", "tripped"}
         /\ uptime' \in {"none", "fresh", "stable"}
         /\ crashes' \in 0 .. MaxConsecutiveCrashes /\ backoff' \in Nat
         /\ timer' \in BOOLEAN
<1> USE DEF Crash, TripOrRetry
<1>1. CrashesBefore \in 0 .. MaxConsecutiveCrashes - 1 /\ BackoffBefore \in Nat
  BY OptionsAssumption DEF TypeOK, CrashesBefore, BackoffBefore
<1>2. Smaller(2 * BackoffBefore, RestartMaxDelay) \in Nat
  BY <1>1, OptionsAssumption DEF Smaller
<1>3. crashes' \in 0 .. MaxConsecutiveCrashes /\ backoff' \in Nat
  BY <1>1, <1>2, OptionsAssumption
<1>4. timer' \in BOOLEAN
  BY Zenon DEF TypeOK
<1>5. QED
  BY <1>3, <1>4 DEF TypeOK

LEMMA OnExitTypes ==
  ASSUME TypeOK, crashes < MaxConsecutiveCrashes, NEW c, OnExit(c)
  PROVE  /\ state' \in {"starting", "ready", "stopped", "tripped"}
         /\ ready' \in Children \cup {None}
         /\ uptime' \in {"none", "fresh", "stable"}
         /\ crashes' \in 0 .. MaxConsecutiveCrashes /\ backoff' \in Nat
         /\ timer' \in BOOLEAN
<1>1. CASE Crash /\ ready' = None
  BY <1>1, CrashTypes DEF TypeOK
<1>2. CASE ~(Crash /\ ready' = None)
  BY <1>2 DEF OnExit, TypeOK
<1>3. QED
  BY <1>1, <1>2

LEMMA StopsHearTypes ==
  ASSUME TypeOK, NEW c \in Children, StopsHear(c),
         hears' = hears \ Released(c)
  PROVE  /\ pc' \in [Callers -> {"idle", "asking", "grace", "forced", "done"}]
         /\ target' \in [Callers -> Children \cup {None}]
         /\ hears' \subseteq Callers
         /\ \A k \in hears' : pc'[k] \in {"grace", "forced"} /\ target'[k] \in Children
BY DEF TypeOK, StopsHear, Released

LEMMA ExitsEarlyTypes ==
  ASSUME TypeOK, NEW c \in Children, NEW how \in Hows,
         ChildExits(c, how), ExitsEarly(c, how)
  PROVE  TypeOK'
<1>1. child = c /\ StartRejects([status EXCEPT ![c] = how], Released(c))
  BY DEF ExitsEarly
<1>2. hears' = hears \ Released(c)
  BY <1>1 DEF StartRejects, Released
<1>3. status' \in [Children -> {"free", "running", "exited", "signaled"}]
  BY DEF ChildExits, TypeOK, Hows
<1>4. QED
  BY <1>1, <1>2, <1>3, StartRejectsTypes, StopsHearTypes DEF ExitsEarly, TypeOK

LEMMA ExitsLaterTypes ==
  ASSUME TypeOK, Shepherd, NEW c \in Children, NEW how \in Hows,
         ChildExits(c, how), ExitsLater(c)
  PROVE  TypeOK'
<1>1. status' \in [Children -> {"free", "running", "exited", "signaled"}]
  BY DEF ChildExits, TypeOK, Hows
<1>2. hears' = hears \ Released(c) /\ StopsHear(c)
  BY DEF ExitsLater
<1>3. /\ state' \in {"starting", "ready", "stopped", "tripped"}
      /\ ready' \in Children \cup {None}
      /\ uptime' \in {"none", "fresh", "stable"}
      /\ crashes' \in 0 .. MaxConsecutiveCrashes /\ backoff' \in Nat
      /\ timer' \in BOOLEAN
  <2>1. CASE c = child
    <3>1. crashes < MaxConsecutiveCrashes
      BY <2>1 DEF Shepherd, ChildExits
    <3>2. QED
      BY <2>1, <3>1, OnExitTypes DEF ExitsLater
  <2>2. CASE c # child
    BY <2>2 DEF ExitsLater, Unheard, TypeOK
  <2>3. QED
    BY <2>1, <2>2
<1>4. QED
  BY <1>1, <1>2, <1>3, StopsHearTypes DEF ExitsLater, TypeOK

LEMMA StopTypes ==
  ASSUME TypeOK, NEW k \in Callers, Stop(k), disposed' \in BOOLEAN
  PROVE  TypeOK'
<1> USE DEF Stop, Terminate, process
<1>1. timer' \in BOOLEAN /\ stopping' \in BOOLEAN
  OBVIOUS
<1>2. /\ pc' \in [Callers -> {"idle", "asking", "grace", "forced", "done"}]
      /\ target' \in [Callers -> Children \cup {None}]
      /\ state' \in {"starting", "ready", "stopped", "tripped"}
  BY DEF TypeOK
<1>3. /\ hears' \subseteq Callers
      /\ \A j \in hears' : pc'[j] \in {"grace", "forced"} /\ target'[j] \in Children
  BY DEF TypeOK
<1>4. QED
  BY <1>1, <1>2, <1>3 DEF TypeOK

\* A step keeps the types, given that an agent that runs may crash once more.
LEMMA TypeStep ==
  ASSUME TypeOK, Waits, Shepherd, [Next]_vars
  PROVE  TypeOK'
<1> USE DEF process, agent, calls
<1>1. CASE StartCalled
  <2>1. timer' \in BOOLEAN /\ Start
    BY <1>1 DEF StartCalled, TypeOK
  <2>2. QED
    BY <2>1, StartTypes
<1>2. CASE Ready
  BY <1>2 DEF Ready, TypeOK, Running
<1>3. CASE StartFails
  <2>1. child \in Children /\ StartRejects(status, {})
    BY <1>3 DEF StartFails, Running
  <2>2. \A k \in hears' : k \in hears
    BY <2>1 DEF StartRejects
  <2>3. QED
    BY <1>3, <2>1, <2>2, StartRejectsTypes DEF StartFails, TypeOK
<1>4. CASE KillTreeEnds
  BY <1>4 DEF KillTreeEnds, TypeOK
<1>5. CASE Stabilizes
  BY <1>5 DEF Stabilizes, TypeOK
<1>6. CASE RestartFires
  <2>1. timer' \in BOOLEAN /\ Start
    BY <1>6 DEF RestartFires
  <2>2. QED
    BY <2>1, StartTypes
<1>7. CASE \E c \in Children, how \in Hows : ChildExits(c, how) /\ ExitsEarly(c, how)
  BY <1>7, ExitsEarlyTypes
<1>8. CASE \E c \in Children, how \in Hows : ChildExits(c, how) /\ ExitsLater(c)
  BY <1>8, ExitsLaterTypes
<1>9. CASE \E k \in Callers : Stop(k) /\ disposed' \in {disposed, TRUE}
  <2>1. disposed' \in BOOLEAN
    BY <1>9 DEF TypeOK
  <2>2. QED
    BY <1>9, <2>1, StopTypes
<1>10. CASE \E k \in Callers : Asked(k)
  <2>1. PICK k \in Callers : Asked(k)
    BY <1>10
  <2>2. target[k] \in Children
    BY <2>1 DEF Waits, Asked
  <2>3. QED
    BY <2>1, <2>2 DEF Asked, TypeOK
<1>11. CASE \E k \in Callers : GraceEnds(k)
  <2>1. PICK k \in Callers : GraceEnds(k)
    BY <1>11
  <2>2. target[k] \in Children
    BY <2>1 DEF Waits, GraceEnds
  <2>3. QED
    BY <2>1, <2>2 DEF GraceEnds, TypeOK
<1>12. CASE UNCHANGED vars
  BY <1>12 DEF vars, TypeOK
<1>13. QED
  BY <1>1, <1>2, <1>3, <1>4, <1>5, <1>6, <1>7, <1>8, <1>9, <1>10, <1>11,
     <1>12, NextCases

-----------------------------------------------------------------------------
(* Safety: one lemma per kind of step.                                     *)

LEMMA SafeInit ==
  ASSUME Init
  PROVE  Safe
<1> USE DEF Init
<1>1. Running = {} /\ ~StopCalled
  BY DEF Running, StopCalled
<1>2. child \notin Running /\ crashes < MaxConsecutiveCrashes
  BY <1>1, OptionsAssumption
<1>3. NoLostAgent /\ NoOrphanOnceStopped
  BY <1>1 DEF NoLostAgent, NoOrphanOnceStopped
<1>4. Waits /\ Ended /\ Shepherd
  BY <1>1, <1>2 DEF Waits, Ended, Shepherd
<1>5. QED
  BY <1>3, <1>4 DEF Safe

\* An agent is launched only while nobody has asked for a stop and no agent
\* is left that a forced kill was not issued for.
LEMMA LaunchSafe ==
  ASSUME IInv, Start, ~timer', timer \/ startPc = "uncalled"
  PROVE  Safe'
<1>1. ~StopCalled /\ Running \subseteq killed /\ crashes < MaxConsecutiveCrashes
  BY DEF IInv, Safe, Ended, Shepherd, NoLostAgent
<1>2. pc' = pc /\ target' = target /\ crashes' = crashes
  BY DEF Start
<1>3. ~StopCalled'
  BY <1>1, <1>2 DEF StopCalled
<1>4. \A k \in Callers : pc'[k] = "idle"
  BY <1>3 DEF StopCalled
<1>5. NoOrphanOnceStopped' /\ Waits' /\ Ended'
  BY <1>3, <1>4 DEF NoOrphanOnceStopped, Waits, Ended
<1>6. CASE \E c \in Children : Launch(c)
  <2>1. PICK c \in Children : Launch(c)
    BY <1>6
  <2>2. Running' = Running \cup {c} /\ child' = c /\ killed' = killed \ {c}
    BY <2>1 DEF Launch, Running, IInv, TypeOK
  <2>3. NoLostAgent'
    BY <1>1, <2>2 DEF NoLostAgent
  <2>4. Shepherd'
    BY <1>1, <1>2, <2>1, <2>2 DEF Shepherd, Launch
  <2>5. QED
    BY <1>5, <2>3, <2>4 DEF Safe
<1>7. CASE LaunchFails
  <2>1. Running' = Running /\ child' = None /\ killed' = killed
    BY <1>7 DEF LaunchFails, process, Running
  <2>2. NoLostAgent'
    BY <1>1, <2>1 DEF NoLostAgent
  <2>3. child' \notin Running'
    BY <2>1, NoneAssumption DEF Running
  <2>4. Shepherd'
    BY <1>7, <2>3 DEF Shepherd, LaunchFails
  <2>5. QED
    BY <1>5, <2>2, <2>4 DEF Safe
<1>8. QED
  BY <1>6, <1>7 DEF Start

\* When start() gives its child up, the child is killed unless it has exited.
LEMMA RejectSafe ==
  ASSUME IInv, startPc = "racing", NEW exits, NEW heard,
         StartRejects(exits, heard),
         Running' \subseteq Running,
         exits[child] = "exited" => child \notin Running',
         target' = target,
         \A k \in Callers : pc'[k] = pc[k] \/ (pc[k] # "idle" /\ pc'[k] = "done")
  PROVE  Safe'
<1> USE DEF StartRejects
<1>1. child \in Children
  BY DEF IInv, Safe, Shepherd, Running
<1>2. child' = None /\ None \notin Running'
  BY NoneAssumption DEF Running
<1>3. Running' \subseteq killed'
  BY DEF IInv, Safe, NoLostAgent
<1>4. ~timer' /\ startPc' \in {"killing", "settled"}
  BY DEF IInv, Safe, Shepherd
<1>5. StopCalled' => StopCalled
  BY DEF StopCalled
<1>6. NoLostAgent' /\ NoOrphanOnceStopped' /\ Shepherd'
  BY <1>2, <1>3, <1>4 DEF NoLostAgent, NoOrphanOnceStopped, Shepherd
<1>7. Ended'
  BY <1>4, <1>5 DEF IInv, Safe, Ended
<1>8. Waits'
  BY <1>2 DEF IInv, Safe, Waits
<1>9. QED
  BY <1>6, <1>7, <1>8 DEF Safe

\* onExit counts the crash and sets the timer, or does nothing once a stop
\* has been called.
LEMMA OnExitShepherds ==
  ASSUME IInv, child \in Running, NEW c, OnExit(c)
  PROVE  /\ timer' => crashes' < MaxConsecutiveCrashes
         /\ StopCalled => ~timer'
<1>1. ~timer
  BY DEF IInv, Safe, Shepherd
<1>2. CASE stopping
  BY <1>1, <1>2 DEF OnExit
<1>3. CASE ~stopping
  <2>1. ~StopCalled
    BY <1>3 DEF IInv, Safe, Ended
  <2>2. timer' => timer \/ ~(CrashesBefore + 1 >= MaxConsecutiveCrashes)
    BY <1>3, Zenon DEF OnExit, Crash, TripOrRetry
  <2>3. timer' => crashes' < MaxConsecutiveCrashes
    <3>1. disposed \/ crashes' = CrashesBefore + 1
      BY <1>3 DEF OnExit, Crash, TripOrRetry
    <3>2. disposed => ~timer'
      BY <1>1 DEF OnExit
    <3>3. CrashesBefore \in Nat
      BY DEF CrashesBefore, IInv, TypeOK
    <3>4. QED
      BY <1>1, <2>2, <3>1, <3>2, <3>3, OptionsAssumption
  <2>4. QED
    BY <2>1, <2>3
<1>4. QED
  BY <1>2, <1>3

\* The exit of a child takes one running agent away, wakes those that wait for
\* it, and sets a timer only when nobody has asked for a stop.
LEMMA ExitSafe ==
  ASSUME IInv, NEW c \in Children, NEW how \in Hows,
         ChildExits(c, how), ExitsLater(c)
  PROVE  Safe'
<1>1. Running' = Running \ {c} /\ c \in Running
  BY DEF ChildExits, Running, IInv, TypeOK, Hows
<1>2. /\ child' = child /\ killed' = killed /\ startPc' = startPc
      /\ stopping' = stopping /\ target' = target
  BY DEF ExitsLater, StopsHear
<1>3. \A k \in Callers : pc'[k] = pc[k]
        \/ (pc'[k] = "done" /\ target[k] = c /\ pc[k] \in {"grace", "forced"})
  BY DEF ExitsLater, StopsHear, Released, IInv, TypeOK
<1>4. StopCalled' => StopCalled
  BY <1>3 DEF StopCalled
<1>5. /\ StopCalled => ~timer'
      /\ c # child => timer' = timer /\ crashes' = crashes
      /\ c = child /\ timer' => crashes' < MaxConsecutiveCrashes
  <2>1. CASE c = child
    BY <1>1, <2>1, OnExitShepherds DEF ExitsLater
  <2>2. CASE c # child
    <3>1. timer' = timer /\ crashes' = crashes
      BY <2>2 DEF ExitsLater, Unheard
    <3>2. QED
      BY <2>2, <3>1 DEF IInv, Safe, Ended
  <2>3. QED
    BY <2>1, <2>2
<1>6. NoLostAgent'
  BY <1>1, <1>2 DEF IInv, Safe, NoLostAgent
<1>7. NoOrphanOnceStopped'
  <2>1. SUFFICES ASSUME NEW k \in Callers, pc'[k] = "done"
                 PROVE  Running' \subseteq killed' /\ ~timer'
    BY DEF NoOrphanOnceStopped
  <2>2. StopCalled
    BY <1>3, <2>1 DEF StopCalled
  <2>3. CASE pc[k] = "done"
    BY <1>1, <1>2, <1>5, <2>2, <2>3 DEF IInv, Safe, NoOrphanOnceStopped
  <2>4. CASE pc[k] # "done"
    <3>1. target[k] = c /\ pc[k] \in {"grace", "forced"}
      BY <1>3, <2>1, <2>4
    <3>2. child \in {c, None}
      BY <3>1 DEF IInv, Safe, Waits
    <3>3. Running' \subseteq killed
      BY <1>1, <3>2, NoneAssumption DEF IInv, Safe, NoLostAgent, Running
    <3>4. QED
      BY <1>2, <1>5, <2>2, <3>3
  <2>5. QED
    BY <2>3, <2>4
<1>8. Waits'
  BY <1>2, <1>3 DEF IInv, Safe, Waits
<1>9. Ended'
  BY <1>2, <1>4, <1>5 DEF IInv, Safe, Ended
<1>10. Shepherd'
  <2>1. CASE c = child
    <3>1. startPc = "settled"
      BY <2>1, NoneAssumption
         DEF ExitsLater, IInv, Safe, Shepherd, TypeOK
    <3>2. child' \notin Running'
      BY <1>1, <1>2, <2>1
    <3>3. QED
      BY <1>2, <1>5, <2>1, <3>1, <3>2 DEF Shepherd
  <2>2. CASE c # child
    BY <1>1, <1>2, <1>5, <2>2 DEF IInv, Safe, Shepherd
  <2>3. QED
    BY <2>1, <2>2
<1>11. QED
  BY <1>6, <1>7, <1>8, <1>9, <1>10 DEF Safe

\* A stop finds nothing to stop only if what still runs has been killed.
LEMMA StopSafe ==
  ASSUME IInv, NEW k \in Callers, Stop(k)
  PROVE  Safe'
<1> USE DEF process
<1>1. /\ child' = child /\ killed' = killed /\ startPc' = startPc
      /\ Running' = Running /\ crashes' = crashes /\ stopping' /\ ~timer'
  BY DEF Stop, Running
<1>2. \A j \in Callers \ {k} : pc'[j] = pc[j] /\ target'[j] = target[j]
  BY DEF Stop, Terminate, IInv, TypeOK
<1>3. NoLostAgent'
  BY <1>1 DEF IInv, Safe, NoLostAgent
<1>4. pc'[k] = "done" => Running \subseteq killed
  <2>1. pc'[k] = "done" => child \notin Running
    BY NoneAssumption DEF Stop, Terminate, Running, IInv, TypeOK
  <2>2. QED
    BY <2>1 DEF IInv, Safe, NoLostAgent
<1>5. NoOrphanOnceStopped'
  BY <1>1, <1>2, <1>4 DEF IInv, Safe, NoOrphanOnceStopped
<1>6. pc'[k] # "done" => target'[k] = child /\ child \in Children
  BY DEF Stop, Terminate, IInv, TypeOK
<1>7. Waits'
  BY <1>1, <1>2, <1>6 DEF IInv, Safe, Waits
<1>8. Ended'
  BY <1>1 DEF Stop, Ended
<1>9. Shepherd'
  BY <1>1 DEF IInv, Safe, Shepherd
<1>10. QED
  BY <1>3, <1>5, <1>7, <1>8, <1>9 DEF Safe

\* The steps that only move a caller that waits, or kill more.
LEMMA WaitingSafe ==
  ASSUME IInv, NEW k \in Callers,
         pc[k] \in {"asking", "grace"},
         \E to \in {"grace", "forced"} : pc' = [pc EXCEPT ![k] = to],
         status' = status, killed \subseteq killed', child' = child,
         timer' = timer, crashes' = crashes, startPc' = startPc,
         stopping' = stopping, target' = target
  PROVE  Safe'
<1>1. Running' = Running
  BY DEF Running
<1>2. \A j \in Callers : pc'[j] = pc[j]
        \/ (j = k /\ pc'[j] \in {"grace", "forced"})
  BY DEF IInv, TypeOK
<1>3. NoLostAgent' /\ Shepherd'
  BY <1>1 DEF IInv, Safe, NoLostAgent, Shepherd
<1>4. NoOrphanOnceStopped' /\ Waits'
  BY <1>1, <1>2 DEF IInv, Safe, NoOrphanOnceStopped, Waits
<1>5. StopCalled' => StopCalled
  BY <1>2 DEF StopCalled
<1>6. Ended'
  BY <1>5 DEF IInv, Safe, Ended
<1>7. QED
  BY <1>3, <1>4, <1>6 DEF Safe

\* The steps that leave the processes and the callers alone.
LEMMA QuietSafe ==
  ASSUME IInv, UNCHANGED <<process, child, crashes, timer, calls>>,
         startPc' = startPc \/ (startPc # "uncalled" /\ startPc' = "settled")
  PROVE  Safe'
<1> USE DEF process, calls
<1>1. Running' = Running /\ StopCalled' = StopCalled
  BY DEF Running, StopCalled
<1>2. NoLostAgent' /\ NoOrphanOnceStopped' /\ Waits'
  BY <1>1 DEF IInv, Safe, NoLostAgent, NoOrphanOnceStopped, Waits
<1>3. Ended' /\ Shepherd'
  BY <1>1 DEF IInv, Safe, Ended, Shepherd
<1>4. QED
  BY <1>2, <1>3 DEF Safe

-----------------------------------------------------------------------------
(* The theorems.                                                           *)

LEMMA SafeStep ==
  ASSUME IInv, [Next]_vars
  PROVE  Safe'
<1> USE DEF process, agent, calls
<1>1. CASE StartCalled
  <2>1. ~timer'
    BY <1>1 DEF StartCalled, IInv, Safe, Shepherd
  <2>2. QED
    BY <1>1, <2>1, LaunchSafe DEF StartCalled
<1>2. CASE RestartFires
  BY <1>2, LaunchSafe DEF RestartFires
<1>3. CASE Ready
  BY <1>3, QuietSafe DEF Ready
<1>4. CASE KillTreeEnds
  BY <1>4, QuietSafe DEF KillTreeEnds
<1>5. CASE Stabilizes
  BY <1>5, QuietSafe DEF Stabilizes
<1>6. CASE StartFails
  <2>1. Running' = Running /\ status[child] = "running"
    BY <1>6 DEF StartFails, Running
  <2>2. QED
    BY <1>6, <2>1, RejectSafe DEF StartFails
<1>7. CASE \E c \in Children, how \in Hows : ChildExits(c, how) /\ ExitsEarly(c, how)
  <2>1. PICK c \in Children, how \in Hows : ChildExits(c, how) /\ ExitsEarly(c, how)
    BY <1>7
  <2>2. Running' = Running \ {c} /\ child = c
    BY <2>1 DEF ChildExits, ExitsEarly, Running, IInv, TypeOK, Hows
  <2>3. target' = target
    BY <2>1 DEF ExitsEarly, StopsHear
  <2>4. \A k \in Callers : pc'[k] = pc[k] \/ (pc[k] # "idle" /\ pc'[k] = "done")
    BY <2>1 DEF ExitsEarly, StopsHear, Released, IInv, TypeOK
  <2>5. QED
    BY <2>1, <2>2, <2>3, <2>4, RejectSafe DEF ExitsEarly
<1>8. CASE \E c \in Children, how \in Hows : ChildExits(c, how) /\ ExitsLater(c)
  BY <1>8, ExitSafe
<1>9. CASE \E k \in Callers : Stop(k) /\ disposed' \in {disposed, TRUE}
  BY <1>9, StopSafe
<1>10. CASE \E k \in Callers : Asked(k)
  BY <1>10, WaitingSafe DEF Asked
<1>11. CASE \E k \in Callers : GraceEnds(k)
  BY <1>11, WaitingSafe DEF GraceEnds
<1>12. CASE UNCHANGED vars
  BY <1>12, QuietSafe DEF vars
<1>13. QED
  BY <1>1, <1>2, <1>3, <1>4, <1>5, <1>6, <1>7, <1>8, <1>9, <1>10, <1>11,
     <1>12, NextCases

\* Wherever the supervisor is between two steps: no agent is lost, what a call of
\* stop() leaves behind stays so, each caller that waits waits for this.child or
\* for one a start() gave up, and a restart is only to come when none runs.
THEOREM Invariance == Spec => []IInv
<1>1. Init => IInv
  BY TypeInit, SafeInit DEF IInv
<1>2. IInv /\ [Next]_vars => IInv'
  BY TypeStep, SafeStep DEF IInv, Safe
<1>3. QED
  BY <1>1, <1>2, PTL DEF Spec

\* Every field of the supervisor keeps its type; in particular the count of
\* crashes never passes the breaker limit, and no caller listens to nothing.
THEOREM TypeCorrect == Spec => []TypeOK
<1>1. IInv => TypeOK
  BY DEF IInv
<1>2. QED
  BY <1>1, Invariance, PTL

\* Every agent that runs is this.child or has been killed by force, however
\* starts fail, agents crash, restarts follow and stops overlap.
THEOREM NoAgentIsLost == Spec => []NoLostAgent
<1>1. IInv => NoLostAgent
  BY DEF IInv, Safe
<1>2. QED
  BY <1>1, Invariance, PTL

\* When one stop() or dispose() has returned, whatever the others still wait
\* for, nothing runs that was not killed, and no restart is to come.
THEOREM NoOrphan == Spec => []NoOrphanOnceStopped
<1>1. IInv => NoOrphanOnceStopped
  BY DEF IInv, Safe
<1>2. QED
  BY <1>1, Invariance, PTL

\* Once a stop() or dispose() has been called, no agent is spawned again.
THEOREM StopEndsRestarts == Spec => NoSpawnOnceStopped
<1>1. IInv /\ [Next]_vars => [StopCalled => Running' \subseteq Running]_vars
  <2> SUFFICES ASSUME IInv, [Next]_vars, StopCalled
               PROVE  Running' \subseteq Running \/ UNCHANGED vars
    OBVIOUS
  <2> USE DEF process, agent, calls
  <2>1. ~timer /\ startPc # "uncalled"
    BY DEF IInv, Safe, Ended
  <2>2. ~StartCalled /\ ~RestartFires
    BY <2>1 DEF StartCalled, RestartFires
  <2>3. CASE status' = status
    BY <2>3 DEF Running
  <2>4. CASE \E c \in Children, how \in Hows : ChildExits(c, how)
    BY <2>4 DEF ChildExits, Running, IInv, TypeOK, Hows
  <2>5. Ready \/ StartFails \/ KillTreeEnds \/ Stabilizes => status' = status
    BY DEF Ready, StartFails, KillTreeEnds, Stabilizes
  <2>6. (\E k \in Callers : Stop(k) \/ Asked(k) \/ GraceEnds(k)) => status' = status
    BY DEF Stop, Asked, GraceEnds
  <2>7. QED
    BY <2>2, <2>3, <2>4, <2>5, <2>6, NextCases
<1>2. QED
  BY <1>1, Invariance, PTL DEF Spec, NoSpawnOnceStopped
-----------------------------------------------------------------------------
(* The delay before the next restart.                                      *)

\* The recursive definition of Schedule has the function it asks for.
LEMMA ScheduleDoubles ==
  /\ Schedule[0] = RestartDelay
  /\ \A n \in Nat : Schedule[n + 1] = Smaller(2 * Schedule[n], RestartMaxDelay)
<1> DEFINE Doubles(f) ==
             f = [n \in Nat |-> IF n = 0 THEN RestartDelay
                               ELSE Smaller(2 * f[n - 1], RestartMaxDelay)]
           next == [n \in Nat |-> [d \in Nat |-> Smaller(2 * d, RestartMaxDelay)]]
<1>1. RestartDelay \in Nat /\ next \in [Nat -> [Nat -> Nat]]
  BY OptionsAssumption DEF Smaller
<1>3. PICK f : Recursive(f, Nat, Nat, RestartDelay, next)
  <2> HIDE DEF next
  <2>1. QED
    BY <1>1, RecursionOnNat
<1>4. \A n \in Nat : n # 0 => next[n][f[n - 1]] = Smaller(2 * f[n - 1], RestartMaxDelay)
  BY <1>3 DEF Recursive
<1>5. Doubles(f)
  <2> HIDE DEF next
  <2>1. QED
    BY <1>3, <1>4 DEF Recursive
<1>6. Schedule = CHOOSE g : Doubles(g)
  BY DEF Schedule
<1>7. Doubles(Schedule)
  <2> HIDE DEF Doubles
  <2>1. QED
    BY <1>5, <1>6
<1>8. ASSUME NEW n \in Nat
      PROVE  Schedule[n] = IF n = 0 THEN RestartDelay
                           ELSE Smaller(2 * Schedule[n - 1], RestartMaxDelay)
  BY <1>7
<1>9. ASSUME NEW n \in Nat
      PROVE  Schedule[n + 1] = Smaller(2 * Schedule[n], RestartMaxDelay)
  <2>1. n + 1 \in Nat /\ n + 1 # 0 /\ (n + 1) - 1 = n
    OBVIOUS
  <2>2. QED
    BY <1>8, <2>1
<1>10. QED
  BY <1>8, <1>9

\* A crash moves the count and the delay together.
LEMMA CrashKeepsSchedule ==
  ASSUME TypeOK, BackoffMatchesCrashes, crashes < MaxConsecutiveCrashes, Crash
  PROVE  BackoffMatchesCrashes'
<1>1. CrashesBefore \in Nat /\ CrashesBefore < MaxConsecutiveCrashes
  BY OptionsAssumption DEF CrashesBefore, TypeOK
<1>2. BackoffBefore = Schedule[CrashesBefore]
  BY ScheduleDoubles DEF BackoffBefore, CrashesBefore, BackoffMatchesCrashes
<1>3. crashes' = CrashesBefore + 1
  BY DEF Crash, TripOrRetry
<1>4. CASE CrashesBefore + 1 >= MaxConsecutiveCrashes
  <2>1. backoff' = Schedule[CrashesBefore]
    BY <1>2, <1>4 DEF Crash, TripOrRetry
  <2>2. ~(crashes' < MaxConsecutiveCrashes) /\ crashes' - 1 = CrashesBefore
    BY <1>1, <1>3, <1>4, OptionsAssumption
  <2>3. QED
    BY <2>1, <2>2 DEF BackoffMatchesCrashes
<1>5. CASE ~(CrashesBefore + 1 >= MaxConsecutiveCrashes)
  <2>1. backoff' = Smaller(2 * BackoffBefore, RestartMaxDelay)
    BY <1>5, Zenon DEF Crash, TripOrRetry
  <2>2. backoff' = Schedule[CrashesBefore + 1]
    BY <1>1, <1>2, <2>1, ScheduleDoubles
  <2>3. crashes' < MaxConsecutiveCrashes
    BY <1>1, <1>3, <1>5, OptionsAssumption
  <2>4. QED
    BY <1>3, <2>2, <2>3 DEF BackoffMatchesCrashes
<1>6. QED
  BY <1>4, <1>5

\* The delay is that of the schedule after so many crashes in a row, whatever
\* stable runs, failed starts and stops came between them.
THEOREM DelayFollowsCrashes == Spec => []BackoffMatchesCrashes
<1>1. Init => BackoffMatchesCrashes
  BY ScheduleDoubles, OptionsAssumption DEF Init, BackoffMatchesCrashes
<1>2. IInv /\ BackoffMatchesCrashes /\ [Next]_vars => BackoffMatchesCrashes'
  <2> SUFFICES ASSUME IInv, BackoffMatchesCrashes, [Next]_vars
               PROVE  BackoffMatchesCrashes'
    OBVIOUS
  <2> USE DEF process, agent, calls
  <2>1. CASE UNCHANGED <<crashes, backoff>>
    BY <2>1 DEF BackoffMatchesCrashes
  <2>2. \/ StartCalled \/ RestartFires \/ Ready \/ StartFails \/ KillTreeEnds \/ Stabilizes
        \/ \E k \in Callers : Stop(k) \/ Asked(k) \/ GraceEnds(k)
        \/ UNCHANGED vars
        => UNCHANGED <<crashes, backoff>>
    BY DEF StartCalled, RestartFires, Start, Ready, StartFails, StartRejects,
           KillTreeEnds, Stabilizes, Stop, Asked, GraceEnds, vars
  <2>3. ASSUME NEW c \in Children, NEW how \in Hows,
               ChildExits(c, how), ExitsEarly(c, how)
        PROVE  UNCHANGED <<crashes, backoff>>
    BY <2>3 DEF ExitsEarly, StartRejects
  <2>4. ASSUME NEW c \in Children, NEW how \in Hows,
               ChildExits(c, how), ExitsLater(c)
        PROVE  BackoffMatchesCrashes'
    <3>1. CASE c = child /\ Crash
      <4>1. crashes < MaxConsecutiveCrashes
        BY <2>4, <3>1 DEF IInv, Safe, Shepherd, ChildExits
      <4>2. QED
        BY <3>1, <4>1, CrashKeepsSchedule DEF IInv
    <3>2. CASE ~(c = child /\ Crash)
      BY <2>1, <2>4, <3>2 DEF ExitsLater, OnExit, Unheard
    <3>3. QED
      BY <3>1, <3>2
  <2>5. QED
    BY <2>1, <2>2, <2>3, <2>4, NextCases
<1>3. QED
  BY <1>1, <1>2, Invariance, PTL DEF Spec

-----------------------------------------------------------------------------
(* Why StopLeavesNothingRunning: after a call of stop() somebody is always   *)
(* about to end what runs, and there are only so many steps left.          *)

\* Each agent that still runs has been killed, or a caller is about to kill it.
Hunted ==
    StopCalled => \A c \in Running :
        \/ c \in killed
        \/ \E k \in Callers : target[k] = c /\ pc[k] \in {"asking", "grace"}

StartSteps == [uncalled |-> 0, settled |-> 0, killing |-> 1, racing |-> 2]
StopSteps  == [done |-> 0, forced |-> 1, grace |-> 2, asking |-> 3, idle |-> 4]

\* Nothing is spawned, start() and every stop() only move towards their end, and
\* a step that moves none of them is the agent's becoming stable.
WindsDown ==
    /\ Running' \subseteq Running
    /\ StartSteps[startPc'] <= StartSteps[startPc]
    /\ \A k \in Callers : StopSteps[pc'[k]] <= StopSteps[pc[k]]
    /\ \/ Running' # Running \/ startPc' # startPc \/ pc' # pc
       \/ uptime = "fresh" /\ uptime' = "stable"

LEMMA HuntedStep ==
  ASSUME IInv, Hunted, [Next]_vars
  PROVE  Hunted'
<1> USE DEF process, agent, calls
<1>1. ASSUME Running' \subseteq Running, killed \subseteq killed',
             StopCalled' => StopCalled,
             \A k \in Callers : pc[k] \in {"asking", "grace"} /\ target[k] \in Running' =>
                 \/ target'[k] = target[k] /\ pc'[k] \in {"asking", "grace"}
                 \/ target[k] \in killed'
      PROVE  Hunted'
  BY <1>1 DEF Hunted
<1>2. CASE UNCHANGED <<status, killed, pc, target>>
  BY <1>1, <1>2 DEF Running, StopCalled
<1>3. CASE StartCalled \/ RestartFires
  <2>1. ~StopCalled
    BY <1>3 DEF StartCalled, RestartFires, IInv, Safe, Ended
  <2>2. ~StopCalled'
    BY <1>3, <2>1 DEF StartCalled, RestartFires, Start, StopCalled
  <2>3. QED
    BY <2>2 DEF Hunted
<1>4. CASE StartFails
  BY <1>1, <1>4 DEF StartFails, StartRejects, Running, StopCalled
<1>5. ASSUME NEW c \in Children, NEW how \in Hows, ChildExits(c, how),
             StopsHear(c), killed \subseteq killed'
      PROVE  Hunted'
  <2>1. Running' = Running \ {c}
    BY <1>5 DEF ChildExits, Running, IInv, TypeOK, Hows
  <2>2. \A k \in Callers : /\ target'[k] = target[k]
                           /\ pc'[k] = pc[k] \/ (target[k] = c /\ pc[k] # "idle")
    BY <1>5 DEF StopsHear, Released, IInv, TypeOK
  <2>3. StopCalled' => StopCalled
    BY <2>2 DEF StopCalled
  <2>4. QED
    BY <1>1, <1>5, <2>1, <2>2, <2>3
<1>6. CASE \E c \in Children, how \in Hows : ChildExits(c, how) /\ ExitsEarly(c, how)
  BY <1>5, <1>6 DEF ExitsEarly, StartRejects
<1>7. CASE \E c \in Children, how \in Hows : ChildExits(c, how) /\ ExitsLater(c)
  BY <1>5, <1>7 DEF ExitsLater
<1>8. ASSUME NEW k \in Callers, Stop(k)
      PROVE  Hunted'
  <2>1. Running' = Running /\ killed' = killed
    BY <1>8 DEF Stop, Running
  <2>2. \A j \in Callers \ {k} : pc'[j] = pc[j] /\ target'[j] = target[j]
    BY <1>8 DEF Stop, Terminate, IInv, TypeOK
  <2>3. child \in Running => target'[k] = child /\ pc'[k] \in {"asking", "grace"}
    BY <1>8, NoneAssumption DEF Stop, Terminate, Running, IInv, TypeOK
  <2>4. \A c \in Running : c \in killed \/ c = child
    BY DEF IInv, Safe, NoLostAgent
  <2>5. QED
    BY <2>1, <2>3, <2>4 DEF Hunted
<1>9. ASSUME NEW k \in Callers, Asked(k)
      PROVE  Hunted'
  <2>1. \A j \in Callers : pc'[j] = pc[j] \/ (pc[j] = "asking" /\ pc'[j] = "grace")
    BY <1>9 DEF Asked, IInv, TypeOK
  <2>2. StopCalled' => StopCalled
    BY <2>1 DEF StopCalled
  <2>3. UNCHANGED <<status, killed, target>>
    BY <1>9 DEF Asked
  <2>4. QED
    BY <1>1, <2>1, <2>2, <2>3 DEF Running
<1>10. ASSUME NEW k \in Callers, GraceEnds(k)
       PROVE  Hunted'
  <2>1. \A j \in Callers : pc'[j] = pc[j] \/ (j = k /\ pc[j] = "grace")
    BY <1>10 DEF GraceEnds, IInv, TypeOK
  <2>2. StopCalled' => StopCalled
    BY <2>1 DEF StopCalled
  <2>3. UNCHANGED <<status, target>> /\ killed' = killed \cup {target[k]}
    BY <1>10 DEF GraceEnds
  <2>4. QED
    BY <1>1, <2>1, <2>2, <2>3 DEF Running
<1>11. Ready \/ KillTreeEnds \/ Stabilizes \/ UNCHANGED vars
       => UNCHANGED <<status, killed, pc, target>>
  BY DEF Ready, KillTreeEnds, Stabilizes, vars
<1>12. QED
  BY <1>2, <1>3, <1>4, <1>6, <1>7, <1>8, <1>9, <1>10, <1>11, NextCases

\* No stop() is left to itself: while an agent runs, either the kill it was sent
\* has yet to end it, or a caller waits for a timer that will kill it, although
\* a start() that fails takes that caller's listener away (agent-process.ts:201).
THEOREM StopIsFollowedUp == Spec => []Hunted
<1>1. Init => Hunted
  BY DEF Init, Hunted, StopCalled
<1>2. IInv /\ Hunted /\ [Next]_vars => Hunted'
  BY HuntedStep
<1>3. QED
  BY <1>1, <1>2, Invariance, PTL DEF Spec

\* After a stop() or dispose() only so many steps are left: each takes an agent
\* away, or start() or a caller forward, but for the one that makes an agent
\* stable, which happens once for each READY line.  (That those steps are taken is
\* the fairness of StopLeavesNothingRunning.)
THEOREM StopWindsDown == Spec => [][StopCalled => WindsDown]_vars
<1>1. IInv /\ [Next]_vars => [StopCalled => WindsDown]_vars
  <2> SUFFICES ASSUME IInv, StopCalled, Next
               PROVE  WindsDown
    OBVIOUS
  <2> USE DEF process, agent, calls, StartSteps, StopSteps
  <2>0. /\ pc \in [Callers -> {"idle", "asking", "grace", "forced", "done"}]
        /\ startPc \in {"uncalled", "racing", "killing", "settled"}
    BY DEF IInv, TypeOK
  <2>1. \A k \in Callers : StopSteps[pc[k]] <= StopSteps[pc[k]]
    BY <2>0
  <2>2. StartSteps[startPc] <= StartSteps[startPc]
    BY <2>0
  <2>3. ~StartCalled /\ ~RestartFires
    BY DEF StartCalled, RestartFires, IInv, Safe, Ended
  <2>4. CASE Ready \/ KillTreeEnds
    <3>1. UNCHANGED <<status, pc>>
      BY <2>4 DEF Ready, KillTreeEnds
    <3>2. StartSteps[startPc'] <= StartSteps[startPc] /\ startPc' # startPc
      BY <2>4 DEF Ready, KillTreeEnds
    <3>3. QED
      BY <2>1, <3>1, <3>2 DEF WindsDown, Running
  <2>5. CASE Stabilizes
    <3>1. UNCHANGED <<status, pc, startPc>> /\ uptime = "fresh" /\ uptime' = "stable"
      BY <2>5 DEF Stabilizes
    <3>2. QED
      BY <2>1, <2>2, <3>1 DEF WindsDown, Running
  <2>6. CASE StartFails
    <3>1. UNCHANGED <<status, pc>>
      BY <2>6 DEF StartFails
    <3>2. StartSteps[startPc'] <= StartSteps[startPc] /\ startPc' # startPc
      BY <2>6 DEF StartFails, StartRejects
    <3>3. QED
      BY <2>1, <3>1, <3>2 DEF WindsDown, Running
  <2>7. ASSUME NEW c \in Children, NEW how \in Hows, ChildExits(c, how)
        PROVE  WindsDown
    <3>1. Running' \subseteq Running /\ Running' # Running
      BY <2>7 DEF ChildExits, Running, IInv, TypeOK, Hows
    <3>2. StartSteps[startPc'] <= StartSteps[startPc]
      <4>1. CASE ExitsEarly(c, how)
        BY <4>1 DEF ExitsEarly, StartRejects
      <4>2. CASE ExitsLater(c)
        BY <2>2, <4>2 DEF ExitsLater
      <4>3. QED
        BY <2>7, <4>1, <4>2 DEF ChildExits
    <3>3. StopsHear(c)
      BY <2>7 DEF ChildExits, ExitsEarly, ExitsLater
    <3>4. \A k \in Callers : pc'[k] = pc[k] \/ pc'[k] = "done"
      BY <3>3 DEF StopsHear
    <3>5. \A k \in Callers : StopSteps[pc'[k]] <= StopSteps[pc[k]]
      BY <2>0, <3>4
    <3>6. QED
      BY <3>1, <3>2, <3>5 DEF WindsDown
  <2>8. ASSUME NEW k \in Callers, Stop(k) \/ Asked(k) \/ GraceEnds(k)
        PROVE  WindsDown
    <3>1. UNCHANGED <<status, startPc>>
      BY <2>8 DEF Stop, Asked, GraceEnds
    <3>2. /\ StopSteps[pc'[k]] <= StopSteps[pc[k]] /\ pc'[k] # pc[k]
          /\ \A j \in Callers \ {k} : pc'[j] = pc[j]
      BY <2>0, <2>8 DEF Stop, Terminate, Asked, GraceEnds
    <3>3. QED
      BY <2>1, <2>2, <3>1, <3>2 DEF WindsDown, Running
  <2>9. QED
    BY <2>3, <2>4, <2>5, <2>6, <2>7, <2>8, NextCases
<1>2. QED
  BY <1>1, Invariance, PTL DEF Spec

-----------------------------------------------------------------------------
(* Why StopReturns: the listener of a stop() stays until it is called.     *)

\* A caller that listens to an agent which runs, outside a start().
Listens(k) == k \in hears /\ target[k] \in Running /\ startPc # "racing"

\* Such a caller returns, or goes on listening to that agent.
HeardOut ==
    \A k \in Callers : Listens(k) =>
        \/ pc'[k] = "done"
        \/ Listens(k)' /\ target'[k] = target[k]

\* Only a start() that fails takes listeners away (agent-process.ts:201), and once
\* a stop() listens outside one, none comes any more: no restart, no other stop()
\* and no kill lets the exit it waits for pass unheard.
THEOREM ListenersAreHeard == Spec => [][HeardOut]_vars
<1>1. IInv /\ [Next]_vars => [HeardOut]_vars
  <2> SUFFICES ASSUME IInv, Next, NEW k \in Callers, Listens(k)
               PROVE  \/ pc'[k] = "done"
                      \/ Listens(k)' /\ target'[k] = target[k]
    BY DEF HeardOut
  <2> USE DEF process, agent, calls, Listens
  <2>1. StopCalled /\ pc[k] \in {"grace", "forced"}
    BY DEF StopCalled, IInv, TypeOK
  <2>2. ~StartCalled /\ ~RestartFires
    BY <2>1 DEF StartCalled, RestartFires, IInv, Safe, Ended
  <2>3. CASE \/ Ready \/ KillTreeEnds \/ Stabilizes
             \/ \E j \in Callers : Asked(j) \/ GraceEnds(j)
    BY <2>3 DEF Ready, KillTreeEnds, Stabilizes, Asked, GraceEnds, Running
  <2>4. ~StartFails
    BY DEF StartFails
  <2>5. ASSUME NEW c \in Children, NEW how \in Hows, ChildExits(c, how)
        PROVE  \/ pc'[k] = "done"
               \/ Listens(k)' /\ target'[k] = target[k]
    <3>1. ExitsLater(c)
      BY <2>5 DEF ChildExits, ExitsEarly
    <3>2. CASE target[k] = c
      BY <3>1, <3>2 DEF ExitsLater, StopsHear, Released
    <3>3. CASE target[k] # c
      <4>1. k \in hears' /\ target' = target /\ startPc' = startPc
        BY <3>1, <3>3 DEF ExitsLater, StopsHear, Released
      <4>2. Running' = Running \ {c}
        BY <2>5 DEF ChildExits, Running, IInv, TypeOK, Hows
      <4>3. QED
        BY <3>3, <4>1, <4>2
    <3>4. QED
      BY <3>2, <3>3
  <2>6. ASSUME NEW j \in Callers, Stop(j)
        PROVE  Listens(k)' /\ target'[k] = target[k]
    <3>1. j # k
      BY <2>1, <2>6 DEF Stop
    <3>2. k \in hears' /\ target'[k] = target[k]
      BY <2>6, <3>1 DEF Stop, Terminate, IInv, TypeOK
    <3>3. Running' = Running /\ startPc' = startPc
      BY <2>6 DEF Stop, Running
    <3>4. QED
      BY <3>2, <3>3
  <2>7. QED
    BY <2>2, <2>3, <2>4, <2>5, <2>6, NextCases
<1>2. QED
  BY <1>1, Invariance, PTL DEF Spec
=============================================================================
