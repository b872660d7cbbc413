------------------------- MODULE ModelCatalogProofs -------------------------
(***************************************************************************)
(* Proofs about ModelCatalog for every number of overlapping refreshes,    *)
(* every retry bound, every cache lifetime and every clock bound.          *)
(***************************************************************************)
EXTENDS ModelCatalog, TLAPS

\* One label per kind of step, so that each proof has one case per action.
LEMMA NextCases ==
  ASSUME Next
  PROVE  \/ Tick \/ GatewayToggles \/ OtherProcessSaves
         \/ StartCalled \/ Wake \/ Stop
         \/ \E r \in Refreshes : GatewayAnswers(r)
         \/ \E r \in Refreshes : FetchSucceeds(r)
         \/ \E r \in Refreshes : FetchFails(r)
         \/ \E r \in Refreshes : SaveUnlinks(r)
         \/ \E r \in Refreshes : SaveRenames(r)
         \/ \E r \in Refreshes : SaveFails(r)
         \/ \E r \in Refreshes : LoadReads(r)
         \/ \E r \in Refreshes : LoadMisses(r)
         \/ \E r \in Refreshes : LoadInstalls(r)
         \/ \E r \in Refreshes : Return(r)
         \/ \E r \in Refreshes : IntervalFires(r)
BY DEF Next, Environment, Proceeds

-----------------------------------------------------------------------------
(* Type correctness.                                                       *)

LEMMA CatchTypes ==
  ASSUME TypeOK, NEW r \in Refreshes, Catch(r)
  PROVE  TypeOK'
<1> USE DEF catalogVars, startVars, refreshVars
<1>1. CASE models.content = 0
  <2>1. [content |-> 0, at |-> now] \in Snapshot
    BY BoundsAssumption DEF TypeOK, Snapshot, Instant
  <2>2. QED
    BY <1>1, <2>1 DEF Catch, TypeOK, RefreshPc
<1>2. CASE models.content # 0
  BY <1>2 DEF Catch, TypeOK, RefreshPc
<1>3. QED
  BY <1>1, <1>2

LEMMA ReturnTypes ==
  ASSUME TypeOK, NEW r \in Refreshes, Return(r)
  PROVE  TypeOK'
<1> USE DEF startVars, Return
<1>1. now' \in 1..MaxNow /\ up' \in BOOLEAN /\ disk' \in Snapshot
  BY DEF TypeOK
<1>2. models' \in Snapshot /\ hasError' \in BOOLEAN /\ stopped' \in BOOLEAN
  BY DEF TypeOK, StartContinues
<1>3. attempts' \in 0..MaxAttempts
  BY BoundsAssumption DEF TypeOK, StartContinues, NeedsRetry
<1>4. startPc' \in StartPc
  BY DEF TypeOK, StartContinues, StartPc
<1>5. timer' \in BOOLEAN
  BY Zenon DEF TypeOK, StartContinues
<1>6. Empty \in Snapshot /\ 0 \in Instant
  BY BoundsAssumption DEF Empty, Snapshot, Instant
<1>7. pc' \in [Refreshes -> RefreshPc]
  BY DEF TypeOK, RefreshPc
<1>8. job' \in [Refreshes -> Snapshot]
  BY <1>6 DEF TypeOK
<1>9. held' \in [Refreshes -> Instant]
  BY <1>6 DEF TypeOK
<1>10. reported' \in Report
  BY Zenon DEF TypeOK, Callback, Report, Snapshot
<1>11. QED
  BY <1>1, <1>2, <1>3, <1>4, <1>5, <1>7, <1>8, <1>9, <1>10 DEF TypeOK

\* Every variable keeps its type: in particular the startup counter never
\* passes MaxAttempts, so start() makes at most MaxAttempts + 1 tries.
THEOREM TypeCorrect == Spec => []TypeOK
<1>1. Init => TypeOK
  <2>1. Empty \in Snapshot /\ [content |-> 1, at |-> 1] \in Snapshot
    BY BoundsAssumption DEF Empty, Snapshot, Instant
  <2>2. [content |-> 0, error |-> FALSE] \in Report
    BY BoundsAssumption DEF Report, Instant
  <2>3. 0 \in Instant /\ 1 \in 1..MaxNow /\ 0 \in 0..MaxAttempts
    BY BoundsAssumption DEF Instant
  <2>4. QED
    BY <2>1, <2>2, <2>3 DEF Init, TypeOK, StartPc, RefreshPc
<1>2. TypeOK /\ [Next]_vars => TypeOK'
  <2> SUFFICES ASSUME TypeOK, [Next]_vars PROVE TypeOK'
    OBVIOUS
  <2> USE BoundsAssumption, StarterAssumption
  <2> USE DEF catalogVars, startVars, refreshVars
  <2>1. CASE Tick
    BY <2>1 DEF Tick, TypeOK
  <2>2. CASE GatewayToggles
    BY <2>2 DEF GatewayToggles, TypeOK
  <2>3. CASE OtherProcessSaves
    BY <2>3 DEF OtherProcessSaves, TypeOK, Snapshot, Instant, Empty
  <2>4. CASE StartCalled
    BY <2>4 DEF StartCalled, Begin, TypeOK, Snapshot, StartPc, RefreshPc
  <2>5. CASE Wake
    BY <2>5 DEF Wake, Begin, TypeOK, Snapshot, StartPc, RefreshPc
  <2>6. CASE Stop
    BY <2>6 DEF Stop, TypeOK
  <2>7. ASSUME NEW r \in Refreshes, GatewayAnswers(r) PROVE TypeOK'
    BY <2>7 DEF GatewayAnswers, TypeOK, Snapshot, Instant, RefreshPc
  <2>8. ASSUME NEW r \in Refreshes, FetchSucceeds(r) PROVE TypeOK'
    <3>1. [content |-> job[r].content, at |-> now] \in Snapshot
      BY DEF TypeOK, Snapshot, Instant
    <3>2. QED
      BY <2>8, <3>1 DEF FetchSucceeds, TypeOK, RefreshPc
  <2>9. ASSUME NEW r \in Refreshes, FetchFails(r) PROVE TypeOK'
    BY <2>9, CatchTypes DEF FetchFails
  <2>10. ASSUME NEW r \in Refreshes, SaveUnlinks(r) PROVE TypeOK'
    BY <2>10 DEF SaveUnlinks, TypeOK, Snapshot, Instant, Empty, RefreshPc
  <2>11. ASSUME NEW r \in Refreshes, SaveRenames(r) PROVE TypeOK'
    BY <2>11 DEF SaveRenames, Saving, TypeOK, Snapshot, Instant, Empty, RefreshPc
  <2>12. ASSUME NEW r \in Refreshes, SaveFails(r) PROVE TypeOK'
    BY <2>12, CatchTypes DEF SaveFails
  <2>13. ASSUME NEW r \in Refreshes, LoadReads(r) PROVE TypeOK'
    BY <2>13 DEF LoadReads, TypeOK, RefreshPc
  <2>14. ASSUME NEW r \in Refreshes, LoadMisses(r) PROVE TypeOK'
    BY <2>14 DEF LoadMisses, TypeOK, RefreshPc
  <2>15. ASSUME NEW r \in Refreshes, LoadInstalls(r) PROVE TypeOK'
    BY <2>15 DEF LoadInstalls, TypeOK, RefreshPc
  <2>16. ASSUME NEW r \in Refreshes, Return(r) PROVE TypeOK'
    BY <2>16, ReturnTypes
  <2>17. ASSUME NEW r \in Refreshes, IntervalFires(r) PROVE TypeOK'
    BY <2>17 DEF IntervalFires, Begin, TypeOK, Snapshot, RefreshPc
  <2>18. CASE UNCHANGED vars
    BY <2>18 DEF vars, TypeOK
  <2>19. QED
    BY <2>1, <2>2, <2>3, <2>4, <2>5, <2>6, <2>7, <2>8, <2>9, <2>10, <2>11,
       <2>12, <2>13, <2>14, <2>15, <2>16, <2>17, <2>18, NextCases
<1>3. QED
  BY <1>1, <1>2, PTL DEF Spec

-----------------------------------------------------------------------------
(* stop() is final.                                                        *)

\* The disposer is registered after start() was called, so a stopped catalog
\* has been started, and its interval is gone.
StopInv ==
  /\ stopped => ~timer
  /\ stopped => startPc # "new"

LEMMA StopInvHolds == Spec => []StopInv
<1>1. Init => StopInv
  BY DEF Init, StopInv
<1>2. StopInv /\ [Next]_vars => StopInv'
  <2> SUFFICES ASSUME StopInv, [Next]_vars PROVE StopInv'
    OBVIOUS
  <2> USE DEF catalogVars, startVars, refreshVars
  <2>1. CASE Tick \/ GatewayToggles \/ OtherProcessSaves
    BY <2>1 DEF Tick, GatewayToggles, OtherProcessSaves, StopInv
  <2>2. CASE StartCalled \/ Wake \/ Stop
    BY <2>2 DEF StartCalled, Wake, Stop, StopInv
  <2>3. ASSUME NEW r \in Refreshes,
               \/ GatewayAnswers(r) \/ FetchSucceeds(r) \/ FetchFails(r)
               \/ SaveUnlinks(r) \/ SaveRenames(r) \/ SaveFails(r)
        PROVE  StopInv'
    BY <2>3 DEF GatewayAnswers, FetchSucceeds, FetchFails, SaveUnlinks,
                SaveRenames, SaveFails, Catch, StopInv
  <2>4. ASSUME NEW r \in Refreshes,
               \/ LoadReads(r) \/ LoadMisses(r) \/ LoadInstalls(r)
               \/ IntervalFires(r)
        PROVE  StopInv'
    BY <2>4 DEF LoadReads, LoadMisses, LoadInstalls, IntervalFires, StopInv
  <2>5. ASSUME NEW r \in Refreshes, Return(r) PROVE StopInv'
    <3>1. CASE UNCHANGED startVars
      BY <3>1 DEF StopInv
    <3>2. CASE StartContinues
      <4>1. stopped' = stopped /\ startPc' # "new"
        BY <3>2 DEF StartContinues
      <4>2. timer' => timer \/ ~stopped
        BY <3>2, Zenon DEF StartContinues
      <4>3. QED
        BY <4>1, <4>2 DEF StopInv
    <3>3. QED
      BY <2>5, <3>1, <3>2 DEF Return
  <2>6. CASE UNCHANGED vars
    BY <2>6 DEF vars, StopInv
  <2>7. QED
    BY <2>1, <2>2, <2>3, <2>4, <2>5, <2>6, NextCases
<1>3. QED
  BY <1>1, <1>2, PTL DEF Spec

\* stop() leaves no interval behind, whichever await of start() it lands in.
THEOREM StopClearsTheTimer == Spec => []NoTimerOnceStopped
<1>1. StopInv => NoTimerOnceStopped
  BY DEF StopInv, NoTimerOnceStopped
<1>2. QED
  BY <1>1, StopInvHolds, PTL

\* A stopped catalog begins no refresh: the three callers of refreshOnce are
\* start(), which a stopped catalog has behind it, the startup loop, which
\* asks #stopped after its sleep, and the interval, which is gone.
THEOREM StopBeginsNothing == Spec => NoRefreshOnceStopped
<1>1. TypeOK /\ StopInv /\ [Next]_vars
        => [stopped => InFlight' \subseteq InFlight]_vars
  <2> SUFFICES ASSUME TypeOK, StopInv, [Next]_vars, stopped
               PROVE  InFlight' \subseteq InFlight
    OBVIOUS
  <2> USE DEF catalogVars, startVars, refreshVars, InFlight, TypeOK
  <2>1. CASE Tick \/ GatewayToggles \/ OtherProcessSaves
    BY <2>1 DEF Tick, GatewayToggles, OtherProcessSaves
  <2>2. CASE StartCalled \/ Wake \/ Stop
    BY <2>2 DEF StartCalled, Wake, Stop, StopInv
  <2>3. ASSUME NEW r \in Refreshes,
               \/ GatewayAnswers(r) \/ FetchSucceeds(r) \/ FetchFails(r)
               \/ SaveUnlinks(r) \/ SaveRenames(r) \/ SaveFails(r)
        PROVE  InFlight' \subseteq InFlight
    BY <2>3 DEF GatewayAnswers, FetchSucceeds, FetchFails, SaveUnlinks,
                SaveRenames, SaveFails, Catch
  <2>4. ASSUME NEW r \in Refreshes,
               \/ LoadReads(r) \/ LoadMisses(r) \/ LoadInstalls(r)
               \/ Return(r)
        PROVE  InFlight' \subseteq InFlight
    BY <2>4 DEF LoadReads, LoadMisses, LoadInstalls, Return
  <2>5. ASSUME NEW r \in Refreshes, IntervalFires(r) PROVE FALSE
    BY <2>5 DEF IntervalFires, StopInv
  <2>6. CASE UNCHANGED vars
    BY <2>6 DEF vars
  <2>7. QED
    BY <2>1, <2>2, <2>3, <2>4, <2>5, <2>6, NextCases
<1>2. QED
  BY <1>1, TypeCorrect, StopInvHolds, PTL DEF Spec, NoRefreshOnceStopped

-----------------------------------------------------------------------------
(* Overlapping refreshes.                                                  *)

\* Why a refresh never takes the catalog back past its own start.  A listing
\* on its way was taken after its refresh began; a refresh that fell back on
\* the cache began when there was nothing to lose, because a catalog that ever
\* had a listing keeps one (Once); and nothing is from the future (Past).
Past ==
  /\ models.content <= now
  /\ disk.content <= now
  /\ \A r \in Refreshes : job[r].content <= now /\ held[r] <= now
Once == \A r \in Refreshes : held[r] # 0 => models.content # 0
Carried ==
  \A r \in Refreshes :
    /\ pc[r] = "answered" => held[r] <= job[r].content /\ job[r].content # 0
    /\ pc[r] = "loading" => held[r] = 0
    /\ pc[r] = "loaded" => held[r] = 0 /\ job[r].content # 0
RegressInv == Past /\ Once /\ Carried

LEMMA CatchRegress ==
  ASSUME TypeOK, RegressInv, NEW r \in Refreshes, Catch(r)
  PROVE  RegressInv'
<1> USE DEF catalogVars, startVars, refreshVars
<1> USE DEF RegressInv, Past, Once, Carried, TypeOK, Snapshot, Instant
<1>1. CASE models.content = 0
  BY <1>1 DEF Catch
<1>2. CASE models.content # 0
  BY <1>2 DEF Catch
<1>3. QED
  BY <1>1, <1>2

LEMMA RegressInvHolds == Spec => []RegressInv
<1>1. Init => RegressInv
  BY DEF Init, RegressInv, Past, Once, Carried, Empty
<1>2. TypeOK /\ RegressInv /\ [Next]_vars => RegressInv'
  <2> SUFFICES ASSUME TypeOK, RegressInv, [Next]_vars PROVE RegressInv'
    OBVIOUS
  <2> USE BoundsAssumption, StarterAssumption
  <2> USE DEF catalogVars, startVars, refreshVars
  <2> USE DEF RegressInv, Past, Once, Carried, TypeOK, Snapshot, Instant
  <2>1. CASE Tick
    BY <2>1 DEF Tick
  <2>2. CASE GatewayToggles
    BY <2>2 DEF GatewayToggles
  <2>3. CASE OtherProcessSaves
    BY <2>3 DEF OtherProcessSaves, Empty
  <2>4. CASE StartCalled
    BY <2>4 DEF StartCalled, Begin
  <2>5. CASE Wake
    BY <2>5 DEF Wake, Begin
  <2>6. CASE Stop
    BY <2>6 DEF Stop
  <2>7. ASSUME NEW r \in Refreshes, GatewayAnswers(r) PROVE RegressInv'
    BY <2>7 DEF GatewayAnswers
  <2>8. ASSUME NEW r \in Refreshes, FetchSucceeds(r) PROVE RegressInv'
    BY <2>8 DEF FetchSucceeds
  <2>9. ASSUME NEW r \in Refreshes, FetchFails(r) PROVE RegressInv'
    BY <2>9, CatchRegress DEF FetchFails
  <2>10. ASSUME NEW r \in Refreshes, SaveUnlinks(r) PROVE RegressInv'
    BY <2>10 DEF SaveUnlinks, Empty
  <2>11. ASSUME NEW r \in Refreshes, SaveRenames(r) PROVE RegressInv'
    BY <2>11 DEF SaveRenames, Saving, Empty
  <2>12. ASSUME NEW r \in Refreshes, SaveFails(r) PROVE RegressInv'
    BY <2>12, CatchRegress DEF SaveFails
  <2>13. ASSUME NEW r \in Refreshes, LoadReads(r) PROVE RegressInv'
    BY <2>13 DEF LoadReads
  <2>14. ASSUME NEW r \in Refreshes, LoadMisses(r) PROVE RegressInv'
    BY <2>14 DEF LoadMisses
  <2>15. ASSUME NEW r \in Refreshes, LoadInstalls(r) PROVE RegressInv'
    BY <2>15 DEF LoadInstalls
  <2>16. ASSUME NEW r \in Refreshes, Return(r) PROVE RegressInv'
    BY <2>16 DEF Return, Empty
  <2>17. ASSUME NEW r \in Refreshes, IntervalFires(r) PROVE RegressInv'
    BY <2>17 DEF IntervalFires, Begin
  <2>18. CASE UNCHANGED vars
    BY <2>18 DEF vars
  <2>19. QED
    BY <2>1, <2>2, <2>3, <2>4, <2>5, <2>6, <2>7, <2>8, <2>9, <2>10, <2>11,
       <2>12, <2>13, <2>14, <2>15, <2>16, <2>17, <2>18, NextCases
<1>3. QED
  BY <1>1, <1>2, TypeCorrect, PTL DEF Spec

\* Which steps touch #models at all, and when.
LEMMA OnlyInstallsChangeModels ==
  ASSUME TypeOK, Next, NEW q \in Refreshes,
         pc[q] \in {"answered", "loaded"}, pc'[q] # pc[q], models' # models
  PROVE  FetchSucceeds(q) \/ LoadInstalls(q)
<1> USE DEF catalogVars, startVars, refreshVars, TypeOK
<1>1. CASE Tick \/ GatewayToggles \/ OtherProcessSaves
  BY <1>1 DEF Tick, GatewayToggles, OtherProcessSaves
<1>2. CASE StartCalled \/ Wake \/ Stop
  BY <1>2 DEF StartCalled, Wake, Stop
<1>3. ASSUME NEW r \in Refreshes,
             \/ GatewayAnswers(r) \/ FetchFails(r)
             \/ SaveUnlinks(r) \/ SaveRenames(r) \/ SaveFails(r)
      PROVE  FALSE
  BY <1>3 DEF GatewayAnswers, FetchFails, SaveUnlinks, SaveRenames, SaveFails,
              Catch
<1>4. ASSUME NEW r \in Refreshes,
             \/ LoadReads(r) \/ LoadMisses(r) \/ Return(r) \/ IntervalFires(r)
      PROVE  FALSE
  BY <1>4 DEF LoadReads, LoadMisses, Return, IntervalFires
<1>5. ASSUME NEW r \in Refreshes, FetchSucceeds(r) \/ LoadInstalls(r)
      PROVE  r = q
  BY <1>5 DEF FetchSucceeds, LoadInstalls
<1>6. QED
  BY <1>1, <1>2, <1>3, <1>4, <1>5, NextCases

\* Whatever overlaps, a refresh never installs content older than what the
\* catalog served when that refresh began.
THEOREM NoRegression == Spec => NoRefreshRegressesItsStart
<1> DEFINE Ahead ==
      \A r \in Refreshes :
        pc[r] \in {"answered", "loaded"} /\ pc'[r] # pc[r] /\ models' # models
          => models'.content >= held[r]
<1>1. TypeOK /\ RegressInv /\ [Next]_vars => [Ahead]_vars
  <2> SUFFICES ASSUME TypeOK, RegressInv, Next,
                      NEW q \in Refreshes, pc[q] \in {"answered", "loaded"},
                      pc'[q] # pc[q], models' # models
               PROVE  models'.content >= held[q]
    OBVIOUS
  <2>1. CASE FetchSucceeds(q)
    BY <2>1 DEF FetchSucceeds, RegressInv, Carried, TypeOK, Snapshot, Instant
  <2>2. CASE LoadInstalls(q)
    BY <2>2, BoundsAssumption
       DEF LoadInstalls, RegressInv, Carried, TypeOK, Snapshot, Instant
  <2>3. QED
    BY <2>1, <2>2, OnlyInstallsChangeModels
<1>2. QED
  BY <1>1, TypeCorrect, RegressInvHolds, PTL
     DEF Spec, NoRefreshRegressesItsStart

-----------------------------------------------------------------------------
(* What onRefresh was told.                                                *)

\* Either the observer is current, or a refresh that may have changed the
\* catalog has yet to call it.
Owes(r) == pc[r] \in {"saving", "unlinked", "loading", "loaded", "settled"}
ObserverInv ==
  \/ reported = [content |-> models.content, error |-> hasError]
  \/ \E r \in Refreshes : Owes(r)

\* The last snapshot given to onRefresh is the catalog's whenever no refresh
\* is in flight.
THEOREM ObserverCatchesUp == Spec => []ObserverIsCurrent
<1> USE DEF ObserverInv, Owes
<1>1. Init => ObserverInv
  <2> SUFFICES ASSUME Init PROVE ObserverInv
    OBVIOUS
  <2>1. models.content = 0 /\ hasError = FALSE
    BY DEF Init, Empty
  <2>2. reported = [content |-> 0, error |-> FALSE]
    BY DEF Init
  <2>3. QED
    BY <2>1, <2>2, Zenon
<1>2. TypeOK /\ ObserverInv /\ [Next]_vars => ObserverInv'
  <2> SUFFICES ASSUME TypeOK, ObserverInv, [Next]_vars PROVE ObserverInv'
    OBVIOUS
  <2> USE StarterAssumption
  <2> USE DEF catalogVars, startVars, refreshVars, TypeOK
  <2>1. CASE Tick \/ GatewayToggles \/ OtherProcessSaves
    BY <2>1 DEF Tick, GatewayToggles, OtherProcessSaves
  <2>2. CASE StartCalled \/ Wake \/ Stop
    BY <2>2 DEF StartCalled, Wake, Stop, Begin
  <2>3. ASSUME NEW r \in Refreshes, GatewayAnswers(r) \/ IntervalFires(r)
        PROVE  ObserverInv'
    BY <2>3 DEF GatewayAnswers, IntervalFires, Begin
  <2>4. ASSUME NEW r \in Refreshes,
               \/ FetchSucceeds(r) \/ FetchFails(r)
               \/ SaveUnlinks(r) \/ SaveRenames(r) \/ SaveFails(r)
               \/ LoadReads(r) \/ LoadMisses(r) \/ LoadInstalls(r)
        PROVE  ObserverInv'
    <3>1. Owes(r)'
      BY <2>4 DEF FetchSucceeds, FetchFails, SaveUnlinks, SaveRenames,
                  SaveFails, LoadReads, LoadMisses, LoadInstalls, Catch
    <3>2. QED
      BY <3>1
  <2>5. ASSUME NEW r \in Refreshes, Return(r) PROVE ObserverInv'
    BY <2>5 DEF Return, Callback
  <2>6. CASE UNCHANGED vars
    BY <2>6 DEF vars
  <2>7. QED
    BY <2>1, <2>2, <2>3, <2>4, <2>5, <2>6, NextCases
<1>3. ObserverInv => ObserverIsCurrent
  BY DEF ObserverIsCurrent, InFlight
<1>4. QED
  BY <1>1, <1>2, <1>3, TypeCorrect, PTL DEF Spec

-----------------------------------------------------------------------------
(* The refinement.                                                         *)

LEMMA InitMaps == Init => Abstract!Init
BY DEF Init, Abstract!Init, Empty, InFlight

\* A step that keeps what the directory shows is a stutter of it.
LEMMA Stutters ==
  ASSUME UNCHANGED <<stopped, models, hasError, held, reported>>,
         InFlight' = InFlight
  PROVE  UNCHANGED Abstract!vars
BY DEF Abstract!vars

LEMMA BeginMaps ==
  ASSUME TypeOK, NEW r \in Refreshes, Begin(r), pc[r] = "idle", ~stopped,
         UNCHANGED <<stopped, models, hasError, reported>>
  PROVE  Abstract!Begin(r)
<1>1. InFlight' = InFlight \cup {r} /\ r \notin InFlight
  BY DEF Begin, InFlight, TypeOK
<1>2. held' = [held EXCEPT ![r] = models.content]
  BY DEF Begin
<1>3. QED
  BY <1>1, <1>2, Zenon DEF Abstract!Begin

\* A refresh that stays in flight moves the directory to content it may show.
LEMMA MoveMaps ==
  ASSUME TypeOK, TypeOK', NEW r \in Refreshes, pc[r] # "idle",
         InFlight' = InFlight,
         models' = models \/ models'.content >= held[r],
         UNCHANGED <<stopped, held, reported>>
  PROVE  Abstract!Move(r)
<1>1. r \in InFlight
  BY DEF InFlight
<1>2. models'.content \in Nat /\ hasError' \in BOOLEAN
  BY BoundsAssumption DEF TypeOK, Snapshot, Instant
<1>3. QED
  BY <1>1, <1>2 DEF Abstract!Move

LEMMA CatchMaps ==
  ASSUME TypeOK, TypeOK', NEW r \in Refreshes, pc[r] # "idle", Catch(r)
  PROVE  Abstract!Move(r) \/ UNCHANGED Abstract!vars
<1> USE DEF catalogVars, startVars, refreshVars
<1>1. InFlight' = InFlight
  BY DEF Catch, InFlight, TypeOK
<1>2. CASE models.content = 0
  BY <1>1, <1>2, Stutters DEF Catch
<1>3. CASE models.content # 0
  BY <1>1, <1>3, MoveMaps DEF Catch
<1>4. QED
  BY <1>2, <1>3

LEMMA ReturnMaps ==
  ASSUME TypeOK, NEW r \in Refreshes, Return(r)
  PROVE  Abstract!End(r)
<1>1. InFlight' = InFlight \ {r} /\ r \in InFlight
  BY DEF Return, InFlight, TypeOK
<1>2. held' = [held EXCEPT ![r] = 0]
  BY DEF Return
<1>3. reported' = [content |-> models.content, error |-> hasError]
  BY DEF Return, Callback
<1>4. stopped' = stopped /\ models' = models /\ hasError' = hasError
  BY Zenon DEF Return, StartContinues, startVars
<1>5. QED
  BY <1>1, <1>2, <1>3, <1>4, Zenon DEF Abstract!End

LEMMA StepMaps ==
  ASSUME TypeOK, TypeOK', StopInv, RegressInv, [Next]_vars
  PROVE  [Abstract!Next]_(Abstract!vars)
<1> USE StarterAssumption
<1> USE DEF catalogVars, startVars, refreshVars
<1>1. CASE Tick \/ GatewayToggles \/ OtherProcessSaves \/ UNCHANGED vars
  <2>1. UNCHANGED <<stopped, models, hasError, held, reported, pc>>
    BY <1>1 DEF Tick, GatewayToggles, OtherProcessSaves, vars
  <2>2. QED
    BY <2>1, Stutters DEF InFlight
<1>2. CASE StartCalled
  <2>1. ~stopped /\ Begin(Starter) /\ pc[Starter] = "idle"
    BY <1>2 DEF StartCalled, StopInv, Begin
  <2>2. Abstract!Begin(Starter)
    BY <1>2, <2>1, BeginMaps DEF StartCalled
  <2>3. QED
    BY <2>2 DEF Abstract!Next
<1>3. CASE Wake
  <2>1. CASE UNCHANGED refreshVars
    BY <1>3, <2>1, Stutters DEF Wake, InFlight
  <2>2. CASE ~stopped /\ Begin(Starter)
    <3>1. Abstract!Begin(Starter)
      BY <1>3, <2>2, BeginMaps DEF Wake, Begin
    <3>2. QED
      BY <3>1 DEF Abstract!Next
  <2>3. QED
    BY <1>3, <2>1, <2>2 DEF Wake
<1>4. CASE Stop
  <2>1. InFlight' = InFlight
    BY <1>4 DEF Stop, InFlight
  <2>2. Abstract!Close
    BY <1>4, <2>1 DEF Stop, Abstract!Close
  <2>3. QED
    BY <2>2 DEF Abstract!Next
<1>5. ASSUME NEW r \in Refreshes,
             \/ GatewayAnswers(r) \/ SaveUnlinks(r) \/ SaveRenames(r)
             \/ LoadReads(r)
      PROVE  UNCHANGED Abstract!vars
  <2>1. InFlight' = InFlight
    BY <1>5 DEF GatewayAnswers, SaveUnlinks, SaveRenames, LoadReads, InFlight,
                TypeOK
  <2>2. UNCHANGED <<stopped, models, hasError, held, reported>>
    BY <1>5 DEF GatewayAnswers, SaveUnlinks, SaveRenames, LoadReads
  <2>3. QED
    BY <2>1, <2>2, Stutters
<1>6. ASSUME NEW r \in Refreshes,
             FetchSucceeds(r) \/ LoadMisses(r) \/ LoadInstalls(r)
      PROVE  Abstract!Move(r)
  <2>1. InFlight' = InFlight /\ pc[r] # "idle"
    BY <1>6 DEF FetchSucceeds, LoadMisses, LoadInstalls, InFlight, TypeOK
  <2>2. models' = models \/ models'.content >= held[r]
    BY <1>6, BoundsAssumption
       DEF FetchSucceeds, LoadMisses, LoadInstalls, RegressInv, Carried,
           TypeOK, Snapshot, Instant
  <2>3. UNCHANGED <<stopped, held, reported>>
    BY <1>6 DEF FetchSucceeds, LoadMisses, LoadInstalls
  <2>4. QED
    BY <2>1, <2>2, <2>3, MoveMaps
<1>7. ASSUME NEW r \in Refreshes, FetchFails(r) \/ SaveFails(r)
      PROVE  Abstract!Move(r) \/ UNCHANGED Abstract!vars
  BY <1>7, CatchMaps DEF FetchFails, SaveFails
<1>8. ASSUME NEW r \in Refreshes, Return(r) PROVE Abstract!End(r)
  BY <1>8, ReturnMaps
<1>9. ASSUME NEW r \in Refreshes, IntervalFires(r) PROVE Abstract!Begin(r)
  <2>1. ~stopped /\ pc[r] = "idle" /\ Begin(r)
    BY <1>9 DEF IntervalFires, StopInv, Begin
  <2>2. UNCHANGED <<stopped, models, hasError, reported>>
    BY <1>9 DEF IntervalFires
  <2>3. QED
    BY <2>1, <2>2, BeginMaps
<1>10. QED
  BY <1>1, <1>2, <1>3, <1>4, <1>5, <1>6, <1>7, <1>8, <1>9, NextCases
     DEF Abstract!Next

\* ModelCatalog implements Directory: whatever its retries, its cache file and
\* its overlapping refreshes do, the rest of the plugin sees a directory that
\* only moves forward of what each refresh found, reports every refresh, and
\* begins none once stopped.
THEOREM ImplementsTheDirectory == Spec => Abstract!Spec
<1>1. Spec => [](TypeOK /\ StopInv /\ RegressInv)
  BY TypeCorrect, StopInvHolds, RegressInvHolds, PTL
<1>2. TypeOK /\ TypeOK' /\ StopInv /\ RegressInv /\ [Next]_vars
        => [Abstract!Next]_(Abstract!vars)
  BY StepMaps
<1>3. QED
  BY InitMaps, <1>1, <1>2, PTL DEF Spec, Abstract!Spec

-----------------------------------------------------------------------------
(* Overlap is the only way the cache fallback goes wrong.                  *)

\* A refresh that is loading the cache found #models empty, and alone it is
\* still so when the load ends.
AloneInv ==
  /\ models.content = 0 => models = Empty
  /\ \A r \in Refreshes :
       pc[r] \in {"answered", "loaded"} => job[r].content # 0
  /\ \A r \in Refreshes : pc[r] \in {"loading", "loaded"} => models = Empty

LEMMA AloneInvHolds ==
  ASSUME \A r, q \in Refreshes : r = q
  PROVE  Spec => []AloneInv
<1>1. Init => AloneInv
  BY DEF Init, AloneInv
<1>2. TypeOK /\ AloneInv /\ [Next]_vars => AloneInv'
  <2> SUFFICES ASSUME TypeOK, AloneInv, [Next]_vars PROVE AloneInv'
    OBVIOUS
  <2> USE StarterAssumption
  <2> USE DEF catalogVars, startVars, refreshVars, TypeOK, AloneInv
  <2>1. CASE Tick \/ GatewayToggles \/ OtherProcessSaves
    BY <2>1 DEF Tick, GatewayToggles, OtherProcessSaves
  <2>2. CASE StartCalled \/ Wake \/ Stop
    BY <2>2 DEF StartCalled, Wake, Stop, Begin
  <2>3. ASSUME NEW r \in Refreshes, FetchFails(r) \/ SaveFails(r)
        PROVE  AloneInv'
    BY <2>3 DEF FetchFails, SaveFails, Catch
  <2>4. ASSUME NEW r \in Refreshes, GatewayAnswers(r) PROVE AloneInv'
    BY <2>4, BoundsAssumption DEF GatewayAnswers
  <2>5. ASSUME NEW r \in Refreshes, FetchSucceeds(r) PROVE AloneInv'
    BY <2>5 DEF FetchSucceeds, Snapshot
  <2>6. ASSUME NEW r \in Refreshes, SaveUnlinks(r) \/ SaveRenames(r)
        PROVE  AloneInv'
    BY <2>6 DEF SaveUnlinks, SaveRenames
  <2>7. ASSUME NEW r \in Refreshes, LoadReads(r) \/ LoadMisses(r)
        PROVE  AloneInv'
    BY <2>7 DEF LoadReads, LoadMisses
  <2>8. ASSUME NEW r \in Refreshes, LoadInstalls(r) PROVE AloneInv'
    BY <2>8 DEF LoadInstalls
  <2>9. ASSUME NEW r \in Refreshes, Return(r) \/ IntervalFires(r)
        PROVE  AloneInv'
    BY <2>9 DEF Return, IntervalFires, Begin
  <2>10. CASE UNCHANGED vars
    BY <2>10 DEF vars
  <2>11. QED
    BY <2>1, <2>2, <2>3, <2>4, <2>5, <2>6, <2>7, <2>8, <2>9, <2>10, NextCases
<1>3. QED
  BY <1>1, <1>2, TypeCorrect, PTL DEF Spec

\* With one refresh at a time the comment at catalog.ts:716 is true: the cache
\* never replaces a newer live snapshot.  TLC's counterexample to the same
\* formula therefore needs two refreshes in flight.
THEOREM CacheSafeWithoutOverlap ==
  ASSUME \A r, q \in Refreshes : r = q
  PROVE  Spec => CacheNeverReplacesNewer
<1> DEFINE Newer ==
      \A r \in Refreshes :
        pc[r] = "loaded" /\ pc'[r] = "settled" => models'.at >= models.at
<1>1. TypeOK /\ TypeOK' /\ AloneInv /\ [Next]_vars => [Newer]_vars
  BY DEF AloneInv, Empty, TypeOK, Snapshot, Instant
<1>2. QED
  BY <1>1, TypeCorrect, AloneInvHolds, PTL DEF Spec, CacheNeverReplacesNewer


-----------------------------------------------------------------------------
(* Why StartFinishes, RecoversFromOutage and StopQuiesces: a catalog that is *)
(* not stopped always has somebody to poll, and a start or a refresh that    *)
(* goes on comes to its end.                                               *)

\* The interval is alive from the end of start() to stop(), and not otherwise;
\* start() waits for a refresh only while that refresh is in flight.
Polls ==
  /\ timer <=> (startPc = "done" /\ ~stopped)
  /\ startPc = "refreshing" => pc[Starter] # "idle"

\* What is left of a refresh, and of start(): its retries, and where it is.
RefreshSteps == [idle |-> 0, settled |-> 1, loaded |-> 2, loading |-> 3,
                 unlinked |-> 4, saving |-> 5, answered |-> 6, fetching |-> 7]
StartSteps == [done |-> 0, refreshing |-> 2, sleeping |-> 3, new |-> 3]
StartLeft == 2 * (MaxAttempts - attempts) + StartSteps[startPc]

\* A refresh in flight moves only by a step of its own, and only on; start()
\* never comes back to where it was.
Advances ==
  /\ \A r \in InFlight :
       \/ pc'[r] = pc[r]
       \/ /\ RefreshSteps[pc'[r]] < RefreshSteps[pc[r]]
          /\ Proceeds(r) \/ SaveFails(r)
  /\ \/ UNCHANGED <<startPc, attempts>>
     \/ StartLeft' < StartLeft

\* A refresh's own step, but for its return: start() and the interval stay.
Works(r) ==
  \/ GatewayAnswers(r) \/ FetchSucceeds(r) \/ FetchFails(r)
  \/ SaveUnlinks(r) \/ SaveRenames(r) \/ SaveFails(r)
  \/ LoadReads(r) \/ LoadMisses(r) \/ LoadInstalls(r)

LEMMA WorkMovesOn ==
  ASSUME TypeOK, NEW r \in Refreshes, Works(r)
  PROVE  /\ UNCHANGED startVars
         /\ \A q \in Refreshes \ {r} : pc'[q] = pc[q]
         /\ pc'[r] # "idle"
         /\ RefreshSteps[pc'[r]] < RefreshSteps[pc[r]]
<1> USE DEF catalogVars, startVars, RefreshSteps, TypeOK
<1>1. CASE GatewayAnswers(r) \/ FetchSucceeds(r)
  BY <1>1 DEF GatewayAnswers, FetchSucceeds
<1>2. CASE FetchFails(r) \/ SaveFails(r)
  BY <1>2 DEF FetchFails, SaveFails, Catch
<1>3. CASE SaveUnlinks(r) \/ SaveRenames(r)
  BY <1>3 DEF SaveUnlinks, SaveRenames
<1>4. CASE LoadReads(r) \/ LoadMisses(r) \/ LoadInstalls(r)
  BY <1>4 DEF LoadReads, LoadMisses, LoadInstalls
<1>5. QED
  BY <1>1, <1>2, <1>3, <1>4 DEF Works

LEMMA NextKinds ==
  ASSUME [Next]_vars
  PROVE  \/ UNCHANGED <<startVars, pc>>
         \/ StartCalled \/ Wake \/ Stop
         \/ \E r \in Refreshes : Works(r)
         \/ \E r \in Refreshes : Return(r)
         \/ \E r \in Refreshes : IntervalFires(r)
<1> USE DEF startVars, refreshVars
<1>1. Tick \/ GatewayToggles \/ OtherProcessSaves \/ UNCHANGED vars
      => UNCHANGED <<startVars, pc>>
  BY DEF Tick, GatewayToggles, OtherProcessSaves, vars
<1>2. QED
  BY <1>1, NextCases DEF Works

\* What a return does to the one call of start().
LEMMA StartGoesOn ==
  ASSUME TypeOK, StartContinues, startPc = "refreshing"
  PROVE  /\ startPc' \in {"sleeping", "done"} /\ stopped' = stopped
         /\ StartLeft' < StartLeft
         /\ startPc' = "sleeping" => timer' = timer
         /\ startPc' = "done" => timer' = ~stopped
<1> USE BoundsAssumption DEF StartSteps, StartLeft, TypeOK
<1>1. CASE NeedsRetry
  BY <1>1 DEF StartContinues, NeedsRetry
<1>2. CASE ~NeedsRetry
  <2>1. startPc' = "done" /\ attempts' = attempts /\ stopped' = stopped
    BY <1>2 DEF StartContinues
  <2>2. timer' = ~stopped
    BY <1>2, Zenon DEF StartContinues
  <2>3. StartLeft' < StartLeft
    BY <2>1
  <2>4. QED
    BY <2>1, <2>2, <2>3, Zenon
<1>3. QED
  BY <1>1, <1>2

\* Polling never dies by itself: however start(), its retries and stop() fall
\* out, a catalog that is not stopped is in start() or has its interval, and a
\* stopped one has none (catalog.ts, start() and stop()).
THEOREM PollingGoesOn == Spec => []Polls
<1>1. Init => Polls
  BY DEF Init, Polls
<1>2. TypeOK /\ StopInv /\ Polls /\ [Next]_vars => Polls'
  <2> SUFFICES ASSUME TypeOK, StopInv, Polls, [Next]_vars PROVE Polls'
    OBVIOUS
  <2> USE StarterAssumption DEF startVars, refreshVars
  <2>1. CASE UNCHANGED <<startVars, pc>>
    BY <2>1 DEF Polls
  <2>2. CASE StartCalled
    BY <2>2 DEF StartCalled, Begin, Polls, TypeOK
  <2>3. CASE Wake
    BY <2>3 DEF Wake, Begin, Polls, TypeOK
  <2>4. CASE Stop
    BY <2>4 DEF Stop, Polls
  <2>5. ASSUME NEW r \in Refreshes, Works(r) PROVE Polls'
    <3>1. pc[Starter] # "idle" => pc'[Starter] # "idle"
      BY <2>5, WorkMovesOn
    <3>2. UNCHANGED startVars
      BY <2>5, WorkMovesOn
    <3>3. QED
      BY <3>1, <3>2 DEF Polls
  <2>6. ASSUME NEW r \in Refreshes, Return(r) PROVE Polls'
    <3>1. CASE r = Starter /\ startPc = "refreshing" /\ StartContinues
      <4>1. startPc' \in {"sleeping", "done"} /\ stopped' = stopped
        BY <3>1, StartGoesOn
      <4>2. CASE startPc' = "sleeping"
        BY <3>1, <4>2, StartGoesOn DEF Polls
      <4>3. CASE startPc' = "done"
        <5>1. timer' = ~stopped
          BY <3>1, <4>3, StartGoesOn
        <5>2. timer' <=> (startPc' = "done" /\ ~stopped')
          BY <4>1, <4>3, <5>1, Zenon
        <5>3. QED
          BY <4>3, <5>2 DEF Polls
      <4>4. QED
        BY <4>1, <4>2, <4>3
    <3>2. CASE ~(r = Starter /\ startPc = "refreshing") /\ UNCHANGED startVars
      <4>1. startPc' = "refreshing" => pc'[Starter] = pc[Starter]
        BY <2>6, <3>2 DEF Return, TypeOK
      <4>2. QED
        BY <3>2, <4>1 DEF Polls
    <3>3. QED
      BY <2>6, <3>1, <3>2 DEF Return
  <2>7. ASSUME NEW r \in Refreshes, IntervalFires(r) PROVE Polls'
    BY <2>7 DEF IntervalFires, Begin, Polls, TypeOK
  <2>8. QED
    BY <2>1, <2>2, <2>3, <2>4, <2>5, <2>6, <2>7, NextKinds
<1>3. QED
  BY <1>1, <1>2, TypeCorrect, StopInvHolds, PTL DEF Spec

\* A refresh ends after at most seven steps of its own, whatever the others do to
\* the catalog and the cache, and start() after at most MaxAttempts + 1 refreshes.
\* (That the steps are taken is the fairness of StartFinishes and StopQuiesces.)
THEOREM CatalogAdvances == Spec => [][Advances]_vars
<1>1. TypeOK /\ Polls /\ [Next]_vars => [Advances]_vars
  <2> SUFFICES ASSUME TypeOK, Polls, Next PROVE Advances
    OBVIOUS
  <2> USE StarterAssumption DEF startVars, refreshVars
  <2>1. CASE UNCHANGED <<startVars, pc>>
    BY <2>1 DEF Advances
  <2>2. ASSUME UNCHANGED <<startPc, attempts>> \/ StartLeft' < StartLeft,
               NEW r \in Refreshes, pc[r] = "idle",
               \A q \in Refreshes \ {r} : pc'[q] = pc[q]
        PROVE  Advances
    BY <2>2 DEF Advances, InFlight
  <2>3. CASE Stop
    BY <2>3 DEF Stop, Advances
  <2>4. CASE StartCalled
    <3>1. StartLeft' < StartLeft
      BY <2>4, BoundsAssumption DEF StartCalled, StartLeft, StartSteps, TypeOK
    <3>2. pc[Starter] = "idle" /\ \A q \in Refreshes \ {Starter} : pc'[q] = pc[q]
      BY <2>4 DEF StartCalled, Begin, TypeOK
    <3>3. QED
      BY <2>2, <3>1, <3>2
  <2>5. CASE Wake
    <3>1. StartLeft' < StartLeft
      BY <2>5, BoundsAssumption DEF Wake, StartLeft, StartSteps, TypeOK
    <3>2. \/ pc' = pc
          \/ pc[Starter] = "idle" /\ \A q \in Refreshes \ {Starter} : pc'[q] = pc[q]
      BY <2>5 DEF Wake, Begin, TypeOK
    <3>3. QED
      BY <2>2, <3>1, <3>2 DEF Advances
  <2>6. ASSUME NEW r \in Refreshes, Works(r) PROVE Advances
    <3>1. Proceeds(r) \/ SaveFails(r)
      BY <2>6 DEF Works, Proceeds
    <3>2. QED
      BY <2>6, <3>1, WorkMovesOn DEF Advances, InFlight
  <2>7. ASSUME NEW r \in Refreshes, Return(r) PROVE Advances
    <3>1. UNCHANGED <<startPc, attempts>> \/ StartLeft' < StartLeft
      BY <2>7, StartGoesOn DEF Return
    <3>2. \A q \in Refreshes \ {r} : pc'[q] = pc[q]
      BY <2>7 DEF Return, TypeOK
    <3>3. RefreshSteps[pc'[r]] < RefreshSteps[pc[r]] /\ Proceeds(r)
      BY <2>7 DEF Return, Proceeds, RefreshSteps, TypeOK
    <3>4. QED
      BY <3>1, <3>2, <3>3 DEF Advances, InFlight
  <2>8. ASSUME NEW r \in Refreshes, IntervalFires(r) PROVE Advances
    <3>1. pc[r] = "idle" /\ \A q \in Refreshes \ {r} : pc'[q] = pc[q]
      BY <2>8 DEF IntervalFires, Begin, TypeOK
    <3>2. UNCHANGED <<startPc, attempts>>
      BY <2>8 DEF IntervalFires
    <3>3. QED
      BY <2>2, <3>1, <3>2
  <2>9. QED
    BY <2>1, <2>3, <2>4, <2>5, <2>6, <2>7, <2>8, NextKinds
<1>2. QED
  BY <1>1, TypeCorrect, PollingGoesOn, PTL DEF Spec
=============================================================================
