----------------------------- MODULE AdapterMode -----------------------------
(***************************************************************************)
(* Adapter mode (packages/plugin/src/index.ts, applyAdapter): the Kilo and *)
(* the Zen directory, each refreshed on its own, the capability document   *)
(* that Zen's listings are completed with and the memo of it (catalog.ts,  *)
(* enrichingZenFetcher), and the descriptions that the host's optional     *)
(* modelMeta service adds, on every refresh and on a few timers after boot. *)
(*                                                                         *)
(* When refreshes begin, and what the cache file may hold, is the business *)
(* of ModelCatalog: here a slot that is free may begin one at any time     *)
(* until the unload, and the cache holds what any earlier run left there.  *)
(***************************************************************************)
EXTENDS ModelRecords

CONSTANTS
  Slots,      \* refreshes in flight together
  LaneOf,     \* the directory each refreshes
  Listings,   \* per lane: the non-empty listings its gateway may give
  Documents,  \* the capability documents that may be published
  Cached,     \* per lane: the rows a cache file may hold
  Known,      \* the ids that modelMeta describes, once loaded
  MaxRetries  \* 6

ASSUME ModeAssumption ==
  /\ LaneOf \in [Slots -> Lanes]
  /\ \A lane \in Lanes : /\ \A listing \in Listings[lane] : IsRows(Decode(listing))
                         /\ \A rows \in Cached[lane] : IsRows(rows)
  /\ \A document \in Documents : IsCapabilities(Parse(document))
  /\ Known \subseteq Ids
  /\ MaxRetries \in Nat

\* What they decode and parse to.
ListedRows == [lane \in Lanes |-> {Decode(listing) : listing \in Listings[lane]}]
ParsedDocuments == {Parse(document) : document \in Documents}

VARIABLES
  models,   \* per lane: #models
  pc, job,  \* where each refresh is, and the rows it holds meanwhile
  memo,     \* the memoized capabilities, empty before the first
  fresh,    \* whether they are younger than CAPABILITY_TTL_MS
  meta,     \* the modelMeta service: absent at boot, loading or loaded
  timer,    \* the fill timer: how many fills came before, Off if none is set
  loaded,   \* the plugin is loaded
  current   \* history, per lane: meta was loaded when a refresh last returned

fetchVars == <<pc, job, memo, fresh>>
vars == <<models, fetchVars, meta, timer, loaded, current>>

Off == -1

ReadModelMeta == {"absent", "loading", "loaded"}

RefreshPc == {"idle", "listing", "documenting", "loading", "settled"}

TypeOK ==
  /\ models = [lane \in Lanes |-> models[lane]]
  /\ \A lane \in Lanes : IsRows(models[lane])
  /\ pc \in [Slots -> RefreshPc]
  /\ job = [r \in Slots |-> job[r]]
  /\ \A r \in Slots : IsRows(job[r])
  /\ IsCapabilities(memo)
  /\ fresh \in BOOLEAN
  /\ meta \in ReadModelMeta
  /\ timer \in 0..MaxRetries \cup {Off}
  /\ loaded \in BOOLEAN
  /\ current \in [Lanes -> BOOLEAN]

\* apply(): modelMeta is looked up once, and is then absent for good; the first
\* fill timer is set if it is there.
Init ==
  /\ models = [lane \in Lanes |-> NoRows]
  /\ pc = [r \in Slots |-> "idle"]
  /\ job = [r \in Slots |-> NoRows]
  /\ memo = NoRows
  /\ fresh = FALSE
  /\ meta \in ReadModelMeta
  /\ timer = IF meta = "absent" THEN Off ELSE 0
  /\ loaded = TRUE
  /\ current = [lane \in Lanes |-> FALSE]

-----------------------------------------------------------------------------
(* A refresh.                                                              *)

Begin(r) ==
  /\ loaded
  /\ pc[r] = "idle"
  /\ pc' = [pc EXCEPT ![r] = "listing"]
  /\ UNCHANGED <<models, job, memo, fresh, meta, timer, loaded, current>>

\* refreshGateway gets its rows, and goes on to save them.
Install(r, rows) ==
  /\ models' = [models EXCEPT ![LaneOf[r]] = rows]
  /\ pc' = [pc EXCEPT ![r] = "settled"]
  /\ job' = [job EXCEPT ![r] = NoRows]

\* The listing arrives.  Zen's waits for the capability document, unless the
\* memo is fresh.
ListingArrives(r) ==
  LET lane == LaneOf[r] IN
  /\ pc[r] = "listing"
  /\ \E rows \in ListedRows[lane] :
       \/ lane = "kilo" /\ Install(r, rows)
       \/ lane = "zen" /\ fresh /\ Install(r, Enrich(rows, memo))
       \/ /\ lane = "zen" /\ ~fresh
          /\ pc' = [pc EXCEPT ![r] = "documenting"]
          /\ job' = [job EXCEPT ![r] = rows]
          /\ UNCHANGED models
  /\ UNCHANGED <<memo, fresh, meta, timer, loaded, current>>

\* The document arrives and becomes the memo, whatever it describes.
DocumentArrives(r) ==
  /\ pc[r] = "documenting"
  /\ memo' \in ParsedDocuments
  /\ Install(r, Enrich(job[r], memo'))
  /\ fresh' = TRUE
  /\ UNCHANGED <<meta, timer, loaded, current>>

\* (A bug to detect: a failed document leaves the rows bare.)
DocumentFailsBare(r) ==
  /\ pc[r] = "documenting"
  /\ Install(r, job[r])
  /\ UNCHANGED <<memo, fresh, meta, timer, loaded, current>>

\* It does not: an older memo still serves, also one that another refresh has
\* stored meanwhile.
DocumentFails(r) ==
  /\ pc[r] = "documenting"
  /\ Install(r, Enrich(job[r], memo))
  /\ UNCHANGED <<memo, fresh, meta, timer, loaded, current>>

\* No listing: read the cache if there are no rows at all.
ListingFails(r) ==
  /\ pc[r] = "listing"
  /\ pc' = [pc EXCEPT ![r] = IF models[LaneOf[r]] = NoRows THEN "loading" ELSE "settled"]
  /\ UNCHANGED <<models, job, memo, fresh, meta, timer, loaded, current>>

\* The cache is read, or there is none to read.
CacheRead(r) ==
  /\ pc[r] = "loading"
  /\ \/ \E rows \in Cached[LaneOf[r]] : Install(r, rows)
     \/ pc' = [pc EXCEPT ![r] = "settled"] /\ UNCHANGED <<models, job>>
  /\ UNCHANGED <<memo, fresh, meta, timer, loaded, current>>

\* fillDescriptions(catalog)
Filling(lane) ==
  FillDescriptions(lane, models[lane], IF meta = "loaded" THEN Known ELSE {})

\* (A bug to detect: only the timers fill.)
ReturnUnfilled(r) ==
  /\ pc[r] = "settled"
  /\ pc' = [pc EXCEPT ![r] = "idle"]
  /\ current' = [current EXCEPT ![LaneOf[r]] = meta = "loaded"]
  /\ UNCHANGED <<models, job, memo, fresh, meta, timer, loaded>>

\* (A bug to detect: a refresh fills only while the fill timers do.)
ReturnWhileTimed(r) ==
  /\ pc[r] = "settled"
  /\ pc' = [pc EXCEPT ![r] = "idle"]
  /\ models' = IF timer = Off THEN models
               ELSE [models EXCEPT ![LaneOf[r]] = Filling(LaneOf[r])]
  /\ current' = [current EXCEPT ![LaneOf[r]] = meta = "loaded"]
  /\ UNCHANGED <<job, memo, fresh, meta, timer, loaded>>

\* The save ends and onRefresh is called: it fills, then writes the status.
Return(r) ==
  /\ pc[r] = "settled"
  /\ pc' = [pc EXCEPT ![r] = "idle"]
  /\ models' = [models EXCEPT ![LaneOf[r]] = Filling(LaneOf[r])]
  /\ current' = [current EXCEPT ![LaneOf[r]] = meta = "loaded"]
  /\ UNCHANGED <<job, memo, fresh, meta, timer, loaded>>

-----------------------------------------------------------------------------
(* Time, the service, the fill timer and the unload.                       *)

MemoAges ==
  /\ fresh
  /\ fresh' = FALSE
  /\ UNCHANGED <<models, pc, job, memo, meta, timer, loaded, current>>

MetaLoads ==
  /\ meta = "loading"
  /\ meta' = "loaded"
  /\ UNCHANGED <<models, fetchVars, timer, loaded, current>>

Remaining(lane) == Undescribed(lane, models[lane])

\* (A bug to detect: one fill too many.)
RetryFillOnceMore ==
  /\ timer # Off
  /\ models' = [lane \in Lanes |-> Filling(lane)]
  /\ timer' = IF timer <= MaxRetries THEN timer + 1 ELSE Off
  /\ UNCHANGED <<fetchVars, meta, loaded, current>>

\* (A bug to detect: the retries are not counted.)
RetryFillUncounted ==
  /\ timer # Off
  /\ models' = [lane \in Lanes |-> Filling(lane)]
  /\ timer' = IF \E lane \in Lanes : Remaining(lane) # {} THEN 1 ELSE Off
  /\ UNCHANGED <<fetchVars, meta, loaded, current>>

\* retryFill: fill and come back, unless nothing is left, or enough was tried;
\* then the chain of timers is over for good.
RetryFill ==
  /\ timer # Off
  /\ \/ /\ timer < MaxRetries
        /\ \E lane \in Lanes : Remaining(lane) # {}
        /\ timer' = timer + 1
        /\ models' = [lane \in Lanes |-> Filling(lane)]
     \/ /\ timer = MaxRetries \/ \A lane \in Lanes : Remaining(lane) = {}
        /\ timer' = Off
        /\ UNCHANGED models
  /\ UNCHANGED <<fetchVars, meta, loaded, current>>

\* The fiber is disposed of: catalogs are stopped and the first timer, the
\* kick, is cleared; one that retryFill has set is not.
Unload ==
  /\ loaded
  /\ loaded' = FALSE
  /\ timer' = IF timer = 0 THEN Off ELSE timer
  /\ UNCHANGED <<models, fetchVars, meta, current>>

-----------------------------------------------------------------------------

Progress(r) ==
  \/ ListingArrives(r) \/ ListingFails(r)
  \/ DocumentArrives(r) \/ DocumentFails(r)
  \/ CacheRead(r) \/ Return(r)

Next ==
  \/ \E r \in Slots : Begin(r) \/ Progress(r)
  \/ MemoAges \/ MetaLoads \/ RetryFill \/ Unload

\* The interval ticks, a fetch is bounded by its timeout, and timers fire.
Fairness ==
  /\ \A r \in Slots : WF_vars(Begin(r) \/ Progress(r))
  /\ WF_vars(RetryFill)

Spec == Init /\ [][Next]_vars /\ Fairness

-----------------------------------------------------------------------------

\* No row that is about to lose or gain.  A refresh that is past its listing
\* may still have a row to fill.
Resting(lane) == \A r \in Slots : LaneOf[r] = lane => pc[r] # "settled"

\* Once a refresh has returned after modelMeta was loaded, and while none is
\* between its rows and its callback, every exposed row that modelMeta knows
\* has a description: no order of two refreshes, their callbacks and the fill
\* timers leaves a row behind (index.ts:104-118, 127-131).
DescribedAtRest ==
  \A lane \in Lanes :
    current[lane] /\ Resting(lane) => Remaining(lane) \cap Known = {}

\* The step installs what a live listing has become.
LiveInstall(r) ==
  pc'[r] = "settled" /\ (pc[r] = "documenting" \/ (pc[r] = "listing" /\ models' # models))

\* What the listing of that step says.
Listed(r) ==
  IF pc[r] = "documenting" THEN {job[r]} ELSE ListedRows[LaneOf[r]]

\* Completing a listing by whatever document the memo holds when it arrives
\* neither hides a model from the selector nor exposes one, overwrites no field
\* that the listing published ("Enrichment is strictly additive: a value the
\* directory itself published is never overwritten", opencode-capabilities.ts:155),
\* and offers no window and no answer beyond a limit that the listing declared.
\* It may offer less: the smaller of two windows when the listing's own is nested,
\* and a shorter answer when the listing gave no window (catalog.ts:515).
EnrichmentIsAdditive ==
  [][\A r \in Slots : LiveInstall(r) =>
       \E rows \in Listed(r) :
         Additive(LaneOf[r], rows, models'[LaneOf[r]])]_vars

\* A window that the last parsed document gave is used for every later live
\* listing that gives none, although the memo has aged, the document service
\* is down or another refresh fetched it ("Stale-but-valid metadata still beats
\* the hard-coded fallbacks", catalog.ts:823).
KnownWindowIsUsed ==
  [][\A r \in Slots : LiveInstall(r) /\ LaneOf[r] = "zen" =>
       \A id \in DOMAIN models'["zen"] \cap DOMAIN memo' :
         memo'[id].context # {} => models'["zen"][id].context # {}]_vars

\* Descriptions arrive, although modelMeta loads late and the fill timers may
\* have given up before: every later refresh fills (index.ts:216-220).  This is
\* said of a service that was there at boot: one that is absent then stays absent,
\* for it is looked up once (index.ts:104), and is never "loaded".
DescriptionsArrive ==
  \A lane \in Lanes :
    meta = "loaded" ~> (Remaining(lane) \cap Known = {} \/ ~loaded)

\* After an unload nothing keeps running: refreshes end, and so does the chain
\* of fill timers that the unload does not clear.
UnloadQuiesces ==
  ~loaded ~> [](timer = Off /\ \A r \in Slots : pc[r] = "idle")

=============================================================================
