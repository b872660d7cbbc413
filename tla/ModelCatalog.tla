---------------------------- MODULE ModelCatalog ----------------------------
(***************************************************************************)
(* The life of one ModelCatalog object (packages/plugin/src/adapter/       *)
(* catalog.ts): start() with its bounded retries, the interval that        *)
(* replaces them, refreshes that overlap because nothing serialises them,  *)
(* the disk cache they write and fall back on, and stop().                 *)
(*                                                                         *)
(* What is abstracted.                                                     *)
(*  - A listing of the gateway is the instant it was taken: the gateway    *)
(*    serves content `now` at instant `now`.  A snapshot pairs that        *)
(*    content with the instant it was installed (#models, #updatedAt).     *)
(*  - A refresh is a slot, reused when the refresh returns, so their       *)
(*    number is unbounded and only their overlap is bounded.               *)
(*  - An await is a boundary between two actions; the code between two     *)
(*    awaits is one action.                                                *)
(*  - A cache file loadModelCache would reject as unreadable, not JSON or  *)
(*    without models counts as no file.  Its age is modelled.              *)
(*  - A configuration without cachePath is not modelled: both adapters     *)
(*    pass one (index.ts:126, 169).                                        *)
(***************************************************************************)
EXTENDS Integers

CONSTANTS
  Refreshes,    \* slots for calls of refreshOnce() that are in flight together
  Starter,      \* the slot start() runs its own refreshes in
  MaxAttempts,  \* startup retries (4 in the code)
  CacheTTL,     \* age beyond which a cache file is refused (seven days)
  MaxNow        \* bound on the clock, for TLC

ASSUME StarterAssumption == Starter \in Refreshes
ASSUME BoundsAssumption ==
  /\ MaxAttempts \in Nat
  /\ CacheTTL \in Nat
  /\ MaxNow \in Nat \ {0}

VARIABLES
  now,       \* the clock, and the content the gateway serves
  up,        \* whether the gateway answers
  disk,      \* the cache file, which every DSH process of the user shares
  models,    \* #models and #updatedAt
  hasError,  \* #lastError # ''
  stopped,   \* #stopped
  timer,     \* #timer # null
  startPc,   \* where start() is
  attempts,  \* its retry counter
  pc,        \* where each refresh is
  job,       \* what each refresh carries across its awaits
  reported,  \* what the last onRefresh callback was told
  held       \* history: the content of #models when each refresh began

catalogVars == <<models, hasError, reported>>
startVars   == <<stopped, timer, startPc, attempts>>
refreshVars == <<pc, job, held>>
vars == <<now, up, disk, catalogVars, startVars, refreshVars>>

Instant  == 0..MaxNow
Snapshot == [content : Instant, at : Instant]

\* No listing: an empty #models with #updatedAt = 0, or no cache file.
Empty == [content |-> 0, at |-> 0]

Report == [content : Instant, error : BOOLEAN]

RefreshPc == {"idle", "fetching", "answered", "saving", "unlinked",
              "loading", "loaded", "settled"}
StartPc   == {"new", "refreshing", "sleeping", "done"}

TypeOK ==
  /\ now \in 1..MaxNow
  /\ up \in BOOLEAN
  /\ disk \in Snapshot
  /\ models \in Snapshot
  /\ hasError \in BOOLEAN
  /\ stopped \in BOOLEAN
  /\ timer \in BOOLEAN
  /\ startPc \in StartPc
  /\ attempts \in 0..MaxAttempts
  /\ pc \in [Refreshes -> RefreshPc]
  /\ job \in [Refreshes -> Snapshot]
  /\ reported \in Report
  /\ held \in [Refreshes -> Instant]

\* A new object beside whatever cache file an earlier run of DSH, finished or
\* crashed between the two halves of a save, has left.
Init ==
  /\ now = 1
  /\ up \in BOOLEAN
  /\ disk \in {Empty, [content |-> 1, at |-> 1]}
  /\ models = Empty
  /\ hasError = FALSE
  /\ stopped = FALSE
  /\ timer = FALSE
  /\ startPc = "new"
  /\ attempts = 0
  /\ pc = [r \in Refreshes |-> "idle"]
  /\ job = [r \in Refreshes |-> Empty]
  /\ reported = [content |-> 0, error |-> FALSE]
  /\ held = [r \in Refreshes |-> 0]

-----------------------------------------------------------------------------
(* The environment: time, the gateway, and other DSH processes.            *)

Tick ==
  /\ now < MaxNow
  /\ now' = now + 1
  /\ UNCHANGED <<up, disk, catalogVars, startVars, refreshVars>>

GatewayToggles ==
  /\ up' = ~up
  /\ UNCHANGED <<now, disk, catalogVars, startVars, refreshVars>>

\* saveModelCache in another process, which has its own connection and may be
\* late: rm, and later rename of a listing of any earlier instant.
OtherProcessSaves ==
  /\ disk' \in {Empty} \cup {[content |-> c, at |-> c] : c \in 1..now}
  /\ UNCHANGED <<now, up, catalogVars, startVars, refreshVars>>

-----------------------------------------------------------------------------
(* refreshOnce() and refreshGateway().                                     *)

\* The synchronous prefix of refreshOnce: it sends the request.
Begin(r) ==
  /\ pc[r] = "idle"
  /\ pc' = [pc EXCEPT ![r] = "fetching"]
  /\ held' = [held EXCEPT ![r] = models.content]
  /\ UNCHANGED job

\* The gateway takes the listing that this request will carry back.
GatewayAnswers(r) ==
  /\ pc[r] = "fetching"
  /\ up
  /\ pc' = [pc EXCEPT ![r] = "answered"]
  /\ job' = [job EXCEPT ![r] = [content |-> now, at |-> 0]]
  /\ UNCHANGED <<now, up, disk, catalogVars, startVars, held>>

\* The listing arrives: install it, then start the save.
FetchSucceeds(r) ==
  LET live == [content |-> job[r].content, at |-> now] IN
  /\ pc[r] = "answered"
  /\ pc' = [pc EXCEPT ![r] = "saving"]
  /\ job' = [job EXCEPT ![r] = live]
  /\ models' = live
  /\ hasError' = FALSE
  /\ UNCHANGED <<now, up, disk, reported, startVars, held>>

\* (A bug to detect: the fallback without the test of #models.size.)
CatchWithoutSizeTest(r) ==
  /\ pc' = [pc EXCEPT ![r] = "loading"]
  /\ job' = [job EXCEPT ![r] = [content |-> 0, at |-> now]]
  /\ UNCHANGED <<now, up, disk, catalogVars, startVars, held>>

\* The catch block: only an empty catalog is worth the disk cache.  Its age
\* is judged by the clock as it stands when the load begins.
Catch(r) ==
  \/ /\ models.content = 0
     /\ pc' = [pc EXCEPT ![r] = "loading"]
     /\ job' = [job EXCEPT ![r] = [content |-> 0, at |-> now]]
     /\ UNCHANGED <<now, up, disk, catalogVars, startVars, held>>
  \/ /\ models.content # 0
     /\ pc' = [pc EXCEPT ![r] = "settled"]
     /\ hasError' = TRUE
     /\ UNCHANGED <<now, up, disk, models, reported, startVars, job, held>>

\* A refused connection, the header timeout, a status other than 2xx, a broken
\* body or an empty listing.
FetchFails(r) ==
  /\ pc[r] \in {"fetching", "answered"}
  /\ ~up
  /\ Catch(r)

\* saveModelCache wrote its temporary file and now removes the old cache...
SaveUnlinks(r) ==
  /\ pc[r] = "saving"
  /\ pc' = [pc EXCEPT ![r] = "unlinked"]
  /\ disk' = Empty
  /\ UNCHANGED <<now, up, catalogVars, startVars, job, held>>

Saving == {r \in Refreshes : pc[r] \in {"saving", "unlinked"}}

\* ... and renames the temporary file over it.  Saves of one process share the
\* name of that file, so what arrives is the listing of any save in flight, or
\* one that another save has only half written.
SaveRenames(r) ==
  /\ pc[r] = "unlinked"
  /\ pc' = [pc EXCEPT ![r] = "settled"]
  /\ \/ disk' \in {job[q] : q \in Saving}
     \/ Saving # {r} /\ disk' = Empty
  /\ UNCHANGED <<now, up, catalogVars, startVars, job, held>>

\* A failed save lands in the same catch block, the listing already installed:
\* disk full, or an overlapping save took the shared temporary file away.
SaveFails(r) ==
  /\ pc[r] \in {"saving", "unlinked"}
  /\ Catch(r)

\* loadModelCache reads the file...
LoadReads(r) ==
  /\ pc[r] = "loading"
  /\ disk.content # 0
  /\ job[r].at - disk.at <= CacheTTL
  /\ pc' = [pc EXCEPT ![r] = "loaded"]
  /\ job' = [job EXCEPT ![r] = disk]
  /\ UNCHANGED <<now, up, disk, catalogVars, startVars, held>>

\* ... or finds none it would use.
LoadMisses(r) ==
  /\ pc[r] = "loading"
  /\ disk.content = 0 \/ job[r].at - disk.at > CacheTTL
  /\ pc' = [pc EXCEPT ![r] = "settled"]
  /\ hasError' = TRUE
  /\ UNCHANGED <<now, up, disk, models, reported, startVars, job, held>>

\* The cached snapshot replaces #models, whatever #models has become since the
\* size was tested.
LoadInstalls(r) ==
  /\ pc[r] = "loaded"
  /\ pc' = [pc EXCEPT ![r] = "settled"]
  /\ models' = job[r]
  /\ hasError' = TRUE
  /\ UNCHANGED <<now, up, disk, reported, startVars, job, held>>

-----------------------------------------------------------------------------
(* start(), the interval and stop().                                       *)

\* start() runs its first refresh before it looks at #stopped.
StartCalled ==
  /\ startPc = "new"
  /\ startPc' = "refreshing"
  /\ Begin(Starter)
  /\ UNCHANGED <<now, up, disk, catalogVars, stopped, timer, attempts>>

\* (A bug to detect: one retry too many.)
NeedsRetryOnceMore ==
  models.content = 0 /\ attempts <= MaxAttempts /\ ~stopped

\* The condition of start()'s while loop.
NeedsRetry == models.content = 0 /\ attempts < MaxAttempts /\ ~stopped

\* (A bug to detect: giving up instead of polling after the last retry.)
StartContinuesOrGivesUp ==
  \/ /\ NeedsRetry
     /\ startPc' = "sleeping"
     /\ attempts' = attempts + 1
     /\ UNCHANGED <<stopped, timer>>
  \/ /\ ~NeedsRetry
     /\ startPc' = "done"
     /\ timer' = (models.content # 0 /\ ~stopped)
     /\ UNCHANGED <<stopped, attempts>>

\* (A bug to detect: the retries are not counted.)
StartContinuesUncounted ==
  \/ /\ NeedsRetry
     /\ startPc' = "sleeping"
     /\ UNCHANGED <<stopped, timer, attempts>>
  \/ /\ ~NeedsRetry
     /\ startPc' = "done"
     /\ timer' = ~stopped
     /\ UNCHANGED <<stopped, attempts>>

\* What start() does when a refresh it awaited has returned: sleep before the
\* next try, or set the interval unless the catalog was stopped meanwhile.
StartContinues ==
  \/ /\ NeedsRetry
     /\ startPc' = "sleeping"
     /\ attempts' = attempts + 1
     /\ UNCHANGED <<stopped, timer>>
  \/ /\ ~NeedsRetry
     /\ startPc' = "done"
     /\ timer' = ~stopped
     /\ UNCHANGED <<stopped, attempts>>

\* (A bug to detect: observers hear of successful refreshes only.)
CallbackOnSuccess ==
  reported' = IF hasError THEN reported
              ELSE [content |-> models.content, error |-> hasError]

\* (A bug to detect: a stopped catalog no longer reports its last refreshes.)
CallbackUnlessStopped ==
  reported' = IF stopped THEN reported
              ELSE [content |-> models.content, error |-> hasError]

\* onRefresh(snapshot(), lastError).
Callback == reported' = [content |-> models.content, error |-> hasError]

\* The end of refreshOnce: tell the observer and return to the caller, which
\* is start() or an interval tick that awaits nothing.
Return(r) ==
  /\ pc[r] = "settled"
  /\ pc' = [pc EXCEPT ![r] = "idle"]
  /\ job' = [job EXCEPT ![r] = Empty]
  /\ held' = [held EXCEPT ![r] = 0]
  /\ Callback
  /\ \/ r = Starter /\ startPc = "refreshing" /\ StartContinues
     \/ ~(r = Starter /\ startPc = "refreshing") /\ UNCHANGED startVars
  /\ UNCHANGED <<now, up, disk, models, hasError>>

\* (A bug to detect: the retry starts without asking #stopped.)
WakeUnasked ==
  /\ startPc = "sleeping"
  /\ startPc' = "refreshing"
  /\ Begin(Starter)
  /\ UNCHANGED <<now, up, disk, catalogVars, stopped, timer, attempts>>

\* The startup sleep ends: return if stopped, else try again.
Wake ==
  /\ startPc = "sleeping"
  /\ \/ /\ stopped
        /\ startPc' = "done"
        /\ UNCHANGED refreshVars
     \/ /\ ~stopped
        /\ startPc' = "refreshing"
        /\ Begin(Starter)
  /\ UNCHANGED <<now, up, disk, catalogVars, stopped, timer, attempts>>

\* An interval tick does not wait for the refresh the last one began.
IntervalFires(r) ==
  /\ timer
  /\ Begin(r)
  /\ UNCHANGED <<now, up, disk, catalogVars, startVars>>

\* (A bug to detect: stop() marks the catalog and forgets the interval.)
StopKeepsTimer ==
  /\ startPc # "new"
  /\ ~stopped
  /\ stopped' = TRUE
  /\ UNCHANGED <<now, up, disk, catalogVars, timer, startPc, attempts,
                refreshVars>>

\* The plugin's disposer, registered after start() was called.
Stop ==
  /\ startPc # "new"
  /\ ~stopped
  /\ stopped' = TRUE
  /\ timer' = FALSE
  /\ UNCHANGED <<now, up, disk, catalogVars, startPc, attempts, refreshVars>>

Environment == Tick \/ GatewayToggles \/ OtherProcessSaves

\* What a refresh in flight does next, its save not failing.
Proceeds(r) ==
  \/ GatewayAnswers(r)
  \/ FetchSucceeds(r)
  \/ FetchFails(r)
  \/ SaveUnlinks(r)
  \/ SaveRenames(r)
  \/ LoadReads(r)
  \/ LoadMisses(r)
  \/ LoadInstalls(r)
  \/ Return(r)

Next ==
  \/ Environment
  \/ StartCalled
  \/ Wake
  \/ Stop
  \/ \E r \in Refreshes : Proceeds(r) \/ SaveFails(r) \/ IntervalFires(r)

Spec == Init /\ [][Next]_vars

\* The event loop runs what is ready and every fetch and file operation ends.
\* The second half is an assumption: the timeout of fetchWithTimeout covers the
\* headers only (catalog.ts:1009), so a body that stalls stalls its refresh.
Fairness ==
  /\ WF_vars(StartCalled)
  /\ WF_vars(Wake)
  /\ \A r \in Refreshes : WF_vars(Proceeds(r)) /\ WF_vars(IntervalFires(r))

FairSpec == Spec /\ Fairness

-----------------------------------------------------------------------------
(* Properties.                                                             *)

InFlight == {r \in Refreshes : pc[r] # "idle"}

\* stop() is final whichever await of start() it lands in: no interval is
\* alive once #stopped is set (start() lines 677 and 680, stop() line 685).
NoTimerOnceStopped == stopped => ~timer

\* Once stopped, the catalog sends no further request: refreshes in flight may
\* end, but neither the startup loop nor the interval begins another.
NoRefreshOnceStopped == [][stopped => InFlight' \subseteq InFlight]_vars

\* However refreshes overlap, none takes the catalog back to content older
\* than what it served when that refresh began.  (An older fetch may overwrite
\* a newer one: catalog.ts has no sequence number.  This is what is left.)
NoRefreshRegressesItsStart ==
  [][\A r \in Refreshes :
       pc[r] \in {"answered", "loaded"} /\ pc'[r] # pc[r] /\ models' # models
         => models'.content >= held[r]]_vars

\* When nothing is in flight, the last snapshot handed to onRefresh (the status
\* file of index.ts) shows the content and the error state of the catalog,
\* however the refreshes interleaved.
ObserverIsCurrent ==
  InFlight = {} =>
    reported = [content |-> models.content, error |-> hasError]

\* start() always gets out of its retry loop.
StartFinishes == startPc = "refreshing" ~> startPc = "done"

\* An outage longer than the startup retries is not the end: once the gateway
\* answers for good, a catalog that is not stopped gets a listing.
RecoversFromOutage ==
  <>[]up => <>(models.content # 0 \/ stopped)

\* A stopped catalog falls silent for good.
StopQuiesces == stopped ~> [](InFlight = {})

\* The refinement: the directory is open until stop(), a refresh is ongoing
\* until it has returned, and the observer is onRefresh.
Abstract == INSTANCE Directory WITH
  Calls   <- Refreshes,
  open    <- ~stopped,
  content <- models.content,
  error   <- hasError,
  ongoing <- InFlight,
  floor   <- held,
  told    <- reported

\* ModelCatalog keeps the promise of a Directory: with its retries, cache file
\* and overlaps hidden, every refresh begins while the catalog is open, moves
\* it only to content as new as it found, ends, and reports what is served.
ImplementsDirectory == Abstract!Promise

\* The comment at catalog.ts:716: "A cached catalog is useful during a
\* transient Kilo outage, but never replaces a newer live snapshot."
CacheNeverReplacesNewer ==
  [][\A r \in Refreshes :
       pc[r] = "loaded" /\ pc'[r] = "settled" => models'.at >= models.at]_vars

=============================================================================
