----------------------------- MODULE KiloAdapter -----------------------------
(***************************************************************************)
(* KiloAdapter.stream() (packages/plugin/src/adapter/kilo-adapter.ts) for  *)
(* several sessions of the harness that use one model at the same time:    *)
(* the decision of the catalog, the await on the images, the budget, the   *)
(* gateway's reply and the factor all sessions learn and share.            *)
(*                                                                         *)
(* What is abstracted.                                                     *)
(*  - A prompt is its level, which fixes its raw estimate.  The gateway    *)
(*    counts density times the estimate, and a session keeps its density   *)
(*    (prose, code, base64) as it grows; what the payload decorator adds   *)
(*    is counted too.  A usage report is kept as what it says per          *)
(*    estimated token, in Scale-ths: the ratio the code folds.             *)
(*  - The catalog is the one record this model has in it.                  *)
(*  - The text of a reply is left out; its usage report and the kind of    *)
(*    its finish are kept.                                                 *)
(* The harness (retry, compaction, the next turn) and the gateway are not  *)
(* in this repository: they are modelled from what stream() offers them.   *)
(***************************************************************************)
EXTENDS WireBudget

CONSTANTS
  Sessions,           \* the concurrent callers of stream()
  Levels,             \* prompt sizes, 1..n
  RawEstimate,        \* level -> estimateRequestTokens of such a prompt
  Density,            \* session -> counted tokens per estimated, in Scale-ths
  Injected,           \* tokens the payload decorator adds after the estimate
  Windows,            \* context windows the live record may give
  FallbackWindow,     \* DEFAULT_CONTEXT_WINDOW
  Advertised,         \* the output cap the record advertises
  FallbackAdvertised, \* DEFAULT_MAX_TOKENS
  GatewayMax,         \* maxOutputTokens of the configuration
  Requests,           \* budgets the harness may ask for, 0 for none
  InStaticList        \* whether the bundled list names the model

ASSUME LevelsAssumption ==
  /\ Levels \subseteq Nat
  /\ 1 \in Levels
  /\ \A l \in Levels : 1 <= l
  /\ RawEstimate \in [Levels -> Nat \ {0}]
  /\ Density \in [Sessions -> Nat \ {0}]
  /\ Injected \in Nat
ASSUME WindowAssumption ==
  /\ Windows \subseteq Nat \ {0}
  /\ FallbackWindow \in Nat \ {0}
  /\ Advertised \in Nat \ {0}
  /\ FallbackAdvertised \in Nat \ {0}
  /\ GatewayMax \in Nat \ {0}
  /\ Requests \subseteq Nat
ASSUME ListAssumption == InStaticList \in BOOLEAN

VARIABLES
  lane,        \* what the catalog says of the model
  liveWindow,  \* the window of its record
  calibration, \* #calibration of the model
  pc,          \* where each session's call is
  level,       \* the prompt of each session
  wire,        \* the budget each call was dispatched with
  report,      \* the usage each call has seen, per estimated token
  outcome,     \* how each session's last call ended
  learned,     \* history: the clamped densities folded into the factor
  known        \* history: what was learned when each call was dispatched

catalogVars == <<lane, liveWindow>>
callVars    == <<pc, wire, report, outcome, known>>
vars == <<catalogVars, calibration, level, callVars, learned>>

Lanes    == {"pending", "free", "paid", "missing"}
CallPc   == {"idle", "resolving", "waiting", "finishing"}
Outcomes == {"rejected", "refused", "failed", "ended"}
NoWire   == [max |-> 0, window |-> 0]

TypeOK ==
  /\ lane \in Lanes
  /\ liveWindow \in Windows
  /\ calibration \in Calibration \cup {NoFactor}
  /\ pc \in [Sessions -> CallPc]
  /\ level \in [Sessions -> Levels]
  /\ wire \in [Sessions -> [max : Nat, window : Nat]]
  /\ report \in [Sessions -> Nat]
  /\ outcome \in [Sessions -> Outcomes]
  /\ learned \subseteq Calibration
  /\ known \in [Sessions -> SUBSET Calibration]

Init ==
  /\ lane = "pending"
  /\ liveWindow \in Windows
  /\ calibration = NoFactor
  /\ pc = [s \in Sessions |-> "idle"]
  /\ level \in [Sessions -> Levels]
  /\ wire = [s \in Sessions |-> NoWire]
  /\ report = [s \in Sessions |-> 0]
  /\ outcome = [s \in Sessions |-> "ended"]
  /\ learned = {}
  /\ known = [s \in Sessions |-> {}]

\* What the gateway counts per estimated token: the density of the text and, on
\* the Zen lane, the core tools that decorateZenPayload adds to the payload
\* when the budget is already resolved.
PerToken(s) ==
  Density[s] + (Injected * Scale + RawEstimate[level[s]] - 1)
                 \div RawEstimate[level[s]]

\* What the gateway counts for a share of a session's prompt.
Tokens(s, share)  == PerScale(RawEstimate[level[s]] * share)
Counted(s)        == Tokens(s, PerToken(s))

-----------------------------------------------------------------------------
(* The catalog and the harness.                                            *)

\* A refresh installs a listing, which never empties the catalog again
\* (ModelCatalog: only an empty #models is worth the cache).
CatalogMoves ==
  /\ lane' \in Lanes \ {"pending"}
  /\ liveWindow' \in Windows
  /\ UNCHANGED <<calibration, level, callVars, learned>>

\* Context-overflow compaction: a smaller prompt after a refusal.
Compact(s) ==
  /\ pc[s] = "idle"
  /\ outcome[s] = "refused"
  /\ \E l \in Levels : l < level[s] /\ level' = [level EXCEPT ![s] = l]
  /\ UNCHANGED <<catalogVars, calibration, callVars, learned>>

\* A turn was answered: the next prompt is longer.
Grow(s) ==
  /\ pc[s] = "idle"
  /\ outcome[s] = "ended"
  /\ \E l \in Levels : l > level[s] /\ level' = [level EXCEPT ![s] = l]
  /\ UNCHANGED <<catalogVars, calibration, callVars, learned>>

-----------------------------------------------------------------------------
(* stream().                                                               *)

\* The generator is done, by its end, a return or a throw.
Ends(s, how) ==
  /\ pc' = [pc EXCEPT ![s] = "idle"]
  /\ wire' = [wire EXCEPT ![s] = NoWire]
  /\ report' = [report EXCEPT ![s] = 0]
  /\ known' = [known EXCEPT ![s] = {}]
  /\ outcome' = [outcome EXCEPT ![s] = how]

\* decision(): a live record decides; before there is one, the bundled list.
Allowed == lane = "free" \/ (lane = "pending" /\ InStaticList)

\* The decision allows the call, and the images are awaited.
Call(s) ==
  /\ pc[s] = "idle"
  /\ Allowed
  /\ pc' = [pc EXCEPT ![s] = "resolving"]
  /\ UNCHANGED <<catalogVars, calibration, level, wire, report, outcome,
                known, learned>>

\* The decision forbids the call: stream() throws.
Reject(s) ==
  /\ pc[s] = "idle"
  /\ ~Allowed
  /\ Ends(s, "rejected")
  /\ UNCHANGED <<catalogVars, calibration, level, learned>>

\* get(modelId) ?? fallbackModel(modelId), the catalog being what it is after
\* the await.
Live        == lane \in {"free", "paid"}
Window      == IF Live THEN liveWindow ELSE FallbackWindow
DeclaredMax == ModelMax(IF Live THEN Advertised ELSE FallbackAdvertised,
                        Window, GatewayMax)

Budget(s, requested) ==
  ResolveWireBudget(requested, DeclaredMax, Window, RawEstimate[level[s]],
                    calibration)

\* Nothing fits: a usage report and an overflow finish, and no request.
Refuse(s) ==
  /\ pc[s] = "resolving"
  /\ \E requested \in Requests : Budget(s, requested).overflow
  /\ Ends(s, "refused")
  /\ UNCHANGED <<catalogVars, calibration, level, learned>>

Dispatch(s) ==
  /\ pc[s] = "resolving"
  /\ \E requested \in Requests :
       LET budget == Budget(s, requested) IN
       /\ ~budget.overflow
       /\ wire' = [wire EXCEPT ![s] = [max |-> budget.maxTokens,
                                       window |-> Window]]
  /\ pc' = [pc EXCEPT ![s] = "waiting"]
  /\ known' = [known EXCEPT ![s] = learned]
  /\ UNCHANGED <<catalogVars, calibration, level, report, outcome, learned>>

\* (A bug to detect: the sample is the uncached remainder of the prompt.)
UncachedOnly(input, cached) == input

\* The prompt a report accounts for: its cached part is added back.
Accounted(input, cached) == input + cached

FinishKinds == {"stop", "length", "toolUse", "aborted"}

\* The reply ends without an error; its usage is noted and its finish yielded.
\* Half of the prompt may have come from the gateway's cache, and an abort may
\* report no usage.  A plain stop whose uncached input exceeds the window
\* would be an error (isContextOverflow).
GatewayAnswers(s) ==
  /\ pc[s] = "waiting"
  /\ \E kind \in FinishKinds, cached \in {0, PerToken(s) \div 2} :
       LET input == PerToken(s) - cached IN
       \/ /\ ~(kind = "stop" /\ Tokens(s, input) > wire[s].window)
          /\ report' = [report EXCEPT ![s] = Accounted(input, cached)]
       \/ kind = "aborted" /\ UNCHANGED report
  /\ pc' = [pc EXCEPT ![s] = "finishing"]
  /\ UNCHANGED <<catalogVars, calibration, level, wire, outcome, known,
                learned>>

\* The reply is an error, or a plain stop over the window: the harness gets an
\* error finish and nothing is learned.
GatewayFails(s) ==
  /\ pc[s] = "waiting"
  /\ Ends(s, "failed")
  /\ UNCHANGED <<catalogVars, calibration, level, learned>>

\* The harness closes the generator before its last statement runs.
Abandon(s) ==
  /\ pc[s] \in {"waiting", "finishing"}
  /\ Ends(s, "ended")
  /\ UNCHANGED <<catalogVars, calibration, level, learned>>

\* The end of stream(): the report, if there was one, is folded into the
\* factor as it is now, other sessions having moved it meanwhile.
Settle(s) ==
  /\ pc[s] = "finishing"
  /\ \/ /\ report[s] > 0
        /\ calibration' = Blend(calibration, report[s])
        /\ learned' = learned \cup {Clamp(PerToken(s))}
     \/ /\ report[s] = 0
        /\ UNCHANGED <<calibration, learned>>
  /\ Ends(s, "ended")
  /\ UNCHANGED <<catalogVars, level>>

Next ==
  \/ CatalogMoves
  \/ \E s \in Sessions :
       \/ Compact(s) \/ Grow(s)
       \/ Call(s) \/ Reject(s) \/ Refuse(s) \/ Dispatch(s)
       \/ GatewayAnswers(s) \/ GatewayFails(s) \/ Abandon(s) \/ Settle(s)

Spec == Init /\ [][Next]_vars

\* The event loop runs a call that can run; a session whose prompt was refused
\* calls again, and in the long run compacts before it does (dsh-llm routes an
\* overflow to compaction).  Nothing is assumed of the gateway or the catalog.
Fairness ==
  \A s \in Sessions :
    /\ WF_vars(Refuse(s) \/ Dispatch(s))
    /\ WF_vars(outcome[s] = "refused" /\ (Call(s) \/ Reject(s)))
    /\ SF_vars(Compact(s))

FairSpec == Spec /\ Fairness

-----------------------------------------------------------------------------
(* Properties.                                                             *)

\* The factor is an average of what the gateway really counted: whatever
\* sessions, caches, aborts and abandoned streams went before, it lies between
\* two clamped densities it has been taught (stream() lines 524-542).
CalibrationInHull ==
  /\ calibration = NoFactor <=> learned = {}
  /\ learned # {} =>
       \E lo, hi \in learned : lo <= calibration /\ calibration <= hi

\* No call the model had learned from when this call was dispatched was sparser
\* than this one; if it had learned from none, the estimate was not too low.
Undiluted(s) ==
  /\ \A f \in known[s] : PerToken(s) <= f
  /\ known[s] = {} => PerToken(s) <= Scale

\* A dispatched prompt, as the gateway counts it, fits beside the answer it
\* asks for and the safety margin, unless a sparser session diluted the factor.
FitsUnlessDiluted ==
  \A s \in Sessions :
    pc[s] = "waiting" /\ Undiluted(s) =>
      Counted(s) + wire[s].max + WireSafety(wire[s].window) <= wire[s].window

\* A refusal is not the end of a session: whatever the shared factor has been
\* taught by the others, compaction makes the prompt one that is dispatched
\* (or the catalog withdraws the model).
RefusalIsNotForever ==
  \A s \in Sessions :
    pc[s] = "idle" /\ outcome[s] = "refused"
      ~> pc[s] = "waiting" \/ outcome[s] = "rejected"

\* The comment at kilo-adapter.ts:456: "Clamp the budget we actually send
\* against this prompt so input + answer can never exceed the window the
\* gateway enforces."
PromptAndAnswerFit ==
  \A s \in Sessions :
    pc[s] = "waiting" => Counted(s) + wire[s].max <= wire[s].window

=============================================================================
