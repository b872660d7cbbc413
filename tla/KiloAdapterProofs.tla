-------------------------- MODULE KiloAdapterProofs --------------------------
(***************************************************************************)
(* Proofs about KiloAdapter and the arithmetic of WireBudget, for any      *)
(* sessions, prompts, densities, windows and scale of the factor.          *)
(***************************************************************************)
EXTENDS KiloAdapter, TLAPS

-----------------------------------------------------------------------------
(* Arithmetic.                                                             *)

LEMMA DivFacts ==
  ASSUME NEW x \in Int, NEW d \in Nat \ {0}
  PROVE  /\ x \div d \in Int
         /\ d * (x \div d) <= x
         /\ x < d * (x \div d) + d
  OBVIOUS

\* Division rounds monotonically.
LEMMA DivMonotone ==
  ASSUME NEW x \in Int, NEW y \in Int, NEW d \in Nat \ {0}, x <= y
  PROVE  x \div d <= y \div d
<1> DEFINE p == x \div d
<1> DEFINE q == y \div d
<1>1. p \in Int /\ q \in Int /\ d * p <= x /\ y < d * q + d
  BY DivFacts
<1>2. ASSUME q < p PROVE FALSE
  <2>1. PICK e \in Nat : p = q + 1 + e
    <3>1. p - q - 1 \in Nat
      BY <1>1, <1>2
    <3>2. QED
      BY <3>1, <1>1
  <2>2. d * p = d * q + d + d * e
    BY <2>1, <1>1
  <2>3. d * e >= 0
    OBVIOUS
  <2>4. QED
    BY <2>2, <2>3, <1>1
<1>3. QED
  BY <1>1, <1>2

LEMMA TimesMonotone ==
  ASSUME NEW a \in Nat, NEW b \in Nat, NEW c \in Nat, b <= c
  PROVE  a * b \in Nat /\ a * c \in Nat /\ a * b <= a * c
  OBVIOUS

\* The bounds of the factor: a half and four.
LEMMA CalibrationBounds ==
  /\ MinCalibration \in Nat \ {0}
  /\ MaxCalibration \in Nat
  /\ MinCalibration <= Scale
  /\ Scale <= MaxCalibration
  BY ScaleAssumption DEF MinCalibration, MaxCalibration

LEMMA ClampFacts ==
  ASSUME NEW f \in Int
  PROVE  /\ Clamp(f) \in Calibration
         /\ f \in Calibration => Clamp(f) = f
         /\ f <= MaxCalibration => f <= Clamp(f)
<1>1. /\ MinCalibration \in Nat
      /\ MaxCalibration \in Nat
      /\ MinCalibration <= MaxCalibration
  BY CalibrationBounds, ScaleAssumption
<1>2. QED
  BY <1>1 DEF Clamp, Smaller, Larger, Calibration

\* Rounding up to whole tokens: exact multiples stay, order is kept.
LEMMA PerScaleFacts ==
  ASSUME NEW m \in Nat, NEW n \in Nat, m <= n
  PROVE  /\ PerScale(m) \in Nat
         /\ PerScale(n) \in Nat
         /\ PerScale(m) <= PerScale(n)
<1>1. Scale \in Nat \ {0}
  BY ScaleAssumption
<1>2. /\ PerScale(m) \in Int
      /\ PerScale(n) \in Int
      /\ PerScale(m) <= PerScale(n)
  BY <1>1, DivMonotone, DivFacts DEF PerScale
<1>3. 0 <= PerScale(m)
  <2>1. 0 \div Scale = 0
    BY <1>1
  <2>2. 0 \div Scale <= (m + Scale - 1) \div Scale
    BY <1>1, DivMonotone
  <2>3. QED
    BY <2>1, <2>2 DEF PerScale
<1>4. QED
  BY <1>2, <1>3

LEMMA PerScaleExact ==
  ASSUME NEW n \in Nat
  PROVE  PerScale(n * Scale) = n
<1>1. Scale \in Nat \ {0}
  BY ScaleAssumption
<1> DEFINE q == PerScale(n * Scale)
<1>2. n * Scale + Scale - 1 \in Int
  BY <1>1
<1>3. /\ q \in Int
      /\ Scale * q <= n * Scale + Scale - 1
      /\ n * Scale + Scale - 1 < Scale * q + Scale
  BY <1>1, <1>2, DivFacts DEF PerScale
<1>4. n <= q
  <2>1. ASSUME q < n PROVE FALSE
    <3>1. n - 1 - q \in Nat
      BY <2>1, <1>3
    <3>2. PICK e \in Nat : n = q + 1 + e
      BY <3>1, <1>3
    <3>3. n * Scale = Scale * q + Scale + Scale * e
      BY <3>2, <1>1, <1>3
    <3>4. Scale * e >= 0
      BY <1>1
    <3>5. n * Scale \in Int /\ Scale * q \in Int /\ Scale * e \in Int
      BY <1>1, <1>3
    <3>6. QED
      BY <3>3, <3>4, <3>5, <1>1, <1>3
  <2>2. QED
    BY <2>1, <1>3
<1>5. q <= n
  <2>1. ASSUME n < q PROVE FALSE
    <3>1. q - 1 - n \in Nat
      BY <2>1, <1>3
    <3>2. PICK e \in Nat : q = n + 1 + e
      <4>1. q = n + 1 + (q - 1 - n)
        BY <1>3
      <4>2. QED
        BY <3>1, <4>1
    <3>3. Scale * q = n * Scale + Scale + Scale * e
      BY <3>2, <1>1, <1>3
    <3>4. Scale * e >= 0
      BY <1>1
    <3>5. n * Scale \in Int /\ Scale * q \in Int /\ Scale * e \in Int
      BY <1>1, <1>3
    <3>6. QED
      BY <3>3, <3>4, <3>5, <1>1, <1>3
  <2>2. QED
    BY <2>1, <1>3
<1>6. QED
  BY <1>3, <1>4, <1>5

-----------------------------------------------------------------------------
(* The budget of one request.                                              *)

LEMMA EffectiveType ==
  ASSUME NEW raw \in Nat, NEW f \in Calibration \cup {NoFactor}
  PROVE  Effective(raw, f) \in Nat
<1>1. CASE f = NoFactor
  BY <1>1 DEF Effective
<1>2. CASE f \in Calibration
  <2>1. Clamp(f) \in Nat
    BY <1>2, ClampFacts, CalibrationBounds DEF Calibration
  <2>2. raw * Clamp(f) \in Nat
    BY <2>1, TimesMonotone
  <2>3. PerScale(raw * Clamp(f)) \in Nat
    BY <2>2, PerScaleFacts
  <2>4. QED
    BY <2>3 DEF Effective
<1>3. QED
  BY <1>1, <1>2

LEMMA WireSafetyType ==
  ASSUME NEW window \in Nat
  PROVE  WireSafety(window) \in Nat /\ WireSafety(window) >= 1024
  BY DEF WireSafety, Larger, MinWireSafetyTokens

LEMMA ModelMaxType ==
  ASSUME NEW advertised \in Nat \ {0}, NEW window \in Nat \ {0},
         NEW gatewayMax \in Nat \ {0}
  PROVE  ModelMax(advertised, window, gatewayMax) \in Nat \ {0}
  BY DEF ModelMax, OutputCeiling, Smaller, Larger

LEMMA OverflowMeans ==
  ASSUME NEW requested, NEW modelMax, NEW window, NEW raw, NEW f
  PROVE  ResolveWireBudget(requested, modelMax, window, raw, f).overflow
           = (window - Effective(raw, f) - WireSafety(window) < MinAnswerTokens)
  BY Zenon DEF ResolveWireBudget

\* Whatever was requested, a request that is not refused asks for at least one
\* token and at most what the calibrated prompt and the safety margin leave
\* (resolveWireBudget).
THEOREM BudgetFits ==
  ASSUME NEW requested \in Nat, NEW modelMax \in Nat \ {0},
         NEW window \in Nat \ {0}, NEW raw \in Nat,
         NEW f \in Calibration \cup {NoFactor},
         ~ResolveWireBudget(requested, modelMax, window, raw, f).overflow
  PROVE  LET budget == ResolveWireBudget(requested, modelMax, window, raw, f)
         IN  /\ budget.maxTokens \in Nat
             /\ 1 <= budget.maxTokens
             /\ budget.maxTokens <= modelMax
             /\ Effective(raw, f) + budget.maxTokens + WireSafety(window)
                  <= window
<1> DEFINE effective == Effective(raw, f)
<1> DEFINE safety == WireSafety(window)
<1> DEFINE budget == ResolveWireBudget(requested, modelMax, window, raw, f)
<1>1. effective \in Nat /\ safety \in Nat
  BY EffectiveType, WireSafetyType
<1> DEFINE room == window - effective - safety
<1> DEFINE cap == Larger(1, Smaller(modelMax, window))
<1> DEFINE ceiling == IF requested = 0 THEN cap ELSE Smaller(requested, cap)
<1>2. room >= 2048
  <2>1. ~(room < MinAnswerTokens)
    BY OverflowMeans, Zenon
  <2>2. QED
    BY <2>1, <1>1 DEF MinAnswerTokens
<1>3. budget.maxTokens = Smaller(ceiling, room)
  BY <1>1, <1>2 DEF ResolveWireBudget, MinAnswerTokens
<1>4. ceiling \in Nat \ {0} /\ ceiling <= modelMax
  BY DEF Larger, Smaller
<1> HIDE DEF ceiling, cap, effective, safety, budget
<1>5. /\ budget.maxTokens \in Nat
      /\ 1 <= budget.maxTokens
      /\ budget.maxTokens <= modelMax
      /\ budget.maxTokens <= room
  BY <1>1, <1>2, <1>3, <1>4 DEF Smaller
<1>6. effective + budget.maxTokens + safety <= window
  BY <1>1, <1>5
<1>7. QED
  BY <1>5, <1>6 DEF effective, safety, budget

\* A factor at least the density makes the calibrated estimate cover what the
\* gateway counts; so does no factor for a density of at most one.
LEMMA EffectiveCovers ==
  ASSUME NEW raw \in Nat, NEW d \in Nat,
         NEW f \in Calibration \cup {NoFactor},
         f = NoFactor => d <= Scale,
         f # NoFactor => d <= f
  PROVE  PerScale(raw * d) <= Effective(raw, f)
<1>1. CASE f = NoFactor
  <2>1. d <= Scale /\ Scale \in Nat
    BY <1>1, ScaleAssumption
  <2>2. raw * d \in Nat /\ raw * Scale \in Nat /\ raw * d <= raw * Scale
    BY <2>1, TimesMonotone
  <2>3. PerScale(raw * d) <= PerScale(raw * Scale)
    BY <2>2, PerScaleFacts
  <2>4. QED
    BY <2>3, <1>1, PerScaleExact DEF Effective
<1>2. CASE f # NoFactor
  <2>1. f \in Calibration /\ f \in Nat
    BY <1>2, CalibrationBounds DEF Calibration
  <2>2. Clamp(f) = f
    BY <2>1, ClampFacts
  <2>3. raw * d \in Nat /\ raw * f \in Nat /\ raw * d <= raw * f
    BY <1>2, <2>1, TimesMonotone
  <2>4. PerScale(raw * d) <= PerScale(raw * f)
    BY <2>3, PerScaleFacts
  <2>5. QED
    BY <2>2, <2>4, <1>2 DEF Effective
<1>3. QED
  BY <1>1, <1>2

\* A prompt that leaves room for an answer even at the largest factor is never
\* refused, whatever the sessions that share the model have taught it: what
\* compaction must reach for a refusal to end.
THEOREM SmallPromptNeverRefused ==
  ASSUME NEW requested \in Nat, NEW modelMax \in Nat \ {0},
         NEW window \in Nat \ {0}, NEW raw \in Nat,
         NEW f \in Calibration \cup {NoFactor},
         raw * 4 + WireSafety(window) + MinAnswerTokens <= window
  PROVE  ~ResolveWireBudget(requested, modelMax, window, raw, f).overflow
<1>1. Effective(raw, f) <= raw * 4
  <2>1. CASE f = NoFactor
    BY <2>1 DEF Effective
  <2>2. CASE f # NoFactor
    <3>1. /\ f \in Calibration
          /\ f \in Nat
          /\ MaxCalibration \in Nat
          /\ f <= MaxCalibration
      BY <2>2, CalibrationBounds DEF Calibration
    <3>2. Clamp(f) = f
      BY <3>1, ClampFacts
    <3>3. /\ raw * f \in Nat
          /\ raw * MaxCalibration \in Nat
          /\ raw * f <= raw * MaxCalibration
      BY <3>1, TimesMonotone
    <3>4. PerScale(raw * f) <= PerScale(raw * MaxCalibration)
      BY <3>3, PerScaleFacts
    <3>5. raw * MaxCalibration = (raw * 4) * Scale
      BY ScaleAssumption DEF MaxCalibration
    <3>6. PerScale(raw * MaxCalibration) = raw * 4
      BY <3>5, PerScaleExact
    <3>7. QED
      BY <3>2, <3>4, <3>6, <2>2 DEF Effective
  <2>3. QED
    BY <2>1, <2>2
<1>2. Effective(raw, f) \in Nat /\ WireSafety(window) \in Nat
  BY EffectiveType, WireSafetyType
<1>3. window - Effective(raw, f) - WireSafety(window) >= MinAnswerTokens
  BY <1>1, <1>2 DEF MinAnswerTokens
<1>4. ~(window - Effective(raw, f) - WireSafety(window) < MinAnswerTokens)
  BY <1>2, <1>3 DEF MinAnswerTokens
<1>5. QED
  BY <1>4, OverflowMeans

\* The average stays between the factor it had and the clamped observation.
LEMMA BlendBetween ==
  ASSUME NEW p \in Calibration, NEW o \in Nat
  PROVE  /\ Blend(p, o) \in Calibration
         /\ \/ p <= Blend(p, o) /\ Blend(p, o) <= Clamp(o)
            \/ Clamp(o) <= Blend(p, o) /\ Blend(p, o) <= p
<1> DEFINE c == Clamp(o)
<1> DEFINE b == p + ((c - p) * 3) \div 10
<1>1. c \in Calibration
  BY ClampFacts
<1>2. /\ MinCalibration \in Nat \ {0}
      /\ MaxCalibration \in Nat
      /\ p \in Nat /\ c \in Nat
      /\ MinCalibration <= p /\ p <= MaxCalibration
      /\ MinCalibration <= c /\ c <= MaxCalibration
  BY <1>1, CalibrationBounds DEF Calibration
<1>3. p # NoFactor
  BY <1>2 DEF NoFactor
<1> HIDE DEF c
<1>4. /\ b \in Int
      /\ \/ p <= b /\ b <= c
         \/ c <= b /\ b <= p
  BY <1>2
<1>5. b \in Calibration
  BY <1>2, <1>4 DEF Calibration
<1>6. Clamp(b) = b
  BY <1>4, <1>5, ClampFacts
<1>7. Blend(p, o) = b
  BY <1>3, <1>6 DEF Blend, c
<1>8. QED
  BY <1>4, <1>5, <1>7 DEF c

-----------------------------------------------------------------------------
(* Types.                                                                  *)

\* The steps of one session, and the catalog's.
LEMMA NextCases ==
  ASSUME [Next]_vars
  PROVE  \/ CatalogMoves
         \/ UNCHANGED vars
         \/ \E s \in Sessions :
              \/ Compact(s) \/ Grow(s)
              \/ Call(s) \/ Reject(s) \/ Refuse(s) \/ Dispatch(s)
              \/ GatewayAnswers(s) \/ GatewayFails(s) \/ Abandon(s)
              \/ Settle(s)
  BY DEF Next

LEMMA EndsTypes ==
  ASSUME TypeOK, NEW s \in Sessions, NEW how \in Outcomes, Ends(s, how)
  PROVE  /\ pc' \in [Sessions -> CallPc]
         /\ wire' \in [Sessions -> [max : Nat, window : Nat]]
         /\ report' \in [Sessions -> Nat]
         /\ outcome' \in [Sessions -> Outcomes]
         /\ known' \in [Sessions -> SUBSET Calibration]
<1>1. NoWire \in [max : Nat, window : Nat]
  BY DEF NoWire
<1>2. QED
  BY <1>1 DEF TypeOK, Ends, CallPc

\* The window and the cap a request is resolved with.
LEMMA DeclaredTypes ==
  ASSUME TypeOK
  PROVE  Window \in Nat \ {0} /\ DeclaredMax \in Nat \ {0}
<1>1. Window \in Nat \ {0}
  BY WindowAssumption DEF TypeOK, Window
<1>2. (IF Live THEN Advertised ELSE FallbackAdvertised) \in Nat \ {0}
  BY WindowAssumption
<1>3. QED
  BY <1>1, <1>2, WindowAssumption, ModelMaxType DEF DeclaredMax

\* What Dispatch puts in wire.
LEMMA DispatchFacts ==
  ASSUME TypeOK, NEW s \in Sessions, NEW requested \in Requests,
         ~Budget(s, requested).overflow
  PROVE  /\ Budget(s, requested).maxTokens \in Nat
         /\ Window \in Nat
         /\ Effective(RawEstimate[level[s]], calibration)
              + Budget(s, requested).maxTokens + WireSafety(Window) <= Window
<1>1. requested \in Nat /\ RawEstimate[level[s]] \in Nat
  BY WindowAssumption, LevelsAssumption DEF TypeOK
<1>2. calibration \in Calibration \cup {NoFactor}
  BY DEF TypeOK
<1>3. Window \in Nat \ {0} /\ DeclaredMax \in Nat \ {0}
  BY DeclaredTypes
<1> HIDE DEF Window, DeclaredMax
<1>4. QED
  BY <1>1, <1>2, <1>3, BudgetFits DEF Budget

\* A call is counted at a positive number of tokens per estimated token.
LEMMA PerTokenType ==
  ASSUME TypeOK, NEW s \in Sessions
  PROVE  PerToken(s) \in Nat
<1> DEFINE raw == RawEstimate[level[s]]
<1> DEFINE share == Injected * Scale + raw - 1
<1>1. raw \in Nat \ {0} /\ Density[s] \in Nat /\ Injected * Scale \in Nat
  <2>1. Injected \in Nat /\ Scale \in Nat
    BY LevelsAssumption, ScaleAssumption
  <2>2. Injected * Scale \in Nat
    BY <2>1
  <2>3. QED
    BY <2>2, LevelsAssumption DEF TypeOK
<1> HIDE DEF raw
<1>2. share \in Int /\ 0 <= share
  BY <1>1
<1> HIDE DEF share
<1>3. 0 \div raw = 0 /\ 0 \div raw <= share \div raw /\ share \div raw \in Int
  BY <1>1, <1>2, DivMonotone, DivFacts
<1>4. QED
  BY <1>1, <1>3 DEF PerToken, raw, share

\* The type invariant of KiloAdapter: budgets are natural numbers, the factor
\* stays within its bounds.
THEOREM TypeCorrect == Spec => []TypeOK
<1>1. Init => TypeOK
  BY DEF Init, TypeOK, NoWire, Lanes, CallPc, Outcomes
<1>2. TypeOK /\ [Next]_vars => TypeOK'
  <2> SUFFICES ASSUME TypeOK, [Next]_vars PROVE TypeOK'
    OBVIOUS
  <2> USE DEF catalogVars, callVars
  <2>1. CASE UNCHANGED vars
    BY <2>1 DEF vars, TypeOK
  <2>2. CASE CatalogMoves
    BY <2>2 DEF CatalogMoves, TypeOK
  <2>3. ASSUME NEW s \in Sessions, Compact(s) \/ Grow(s) PROVE TypeOK'
    BY <2>3 DEF Compact, Grow, TypeOK
  <2>4. ASSUME NEW s \in Sessions, Call(s) PROVE TypeOK'
    BY <2>4 DEF Call, TypeOK, CallPc
  <2>5. ASSUME NEW s \in Sessions,
               Reject(s) \/ Refuse(s) \/ GatewayFails(s) \/ Abandon(s)
        PROVE  TypeOK'
    <3>1. PICK how \in Outcomes : Ends(s, how)
      BY <2>5 DEF Reject, Refuse, GatewayFails, Abandon, Outcomes
    <3>2. UNCHANGED <<catalogVars, calibration, level, learned>>
      BY <2>5 DEF Reject, Refuse, GatewayFails, Abandon
    <3>3. QED
      BY <3>1, <3>2, EndsTypes DEF TypeOK
  <2>6. ASSUME NEW s \in Sessions, Dispatch(s) PROVE TypeOK'
    <3>1. PICK requested \in Requests :
             /\ ~Budget(s, requested).overflow
             /\ wire' = [wire EXCEPT ![s] =
                           [max |-> Budget(s, requested).maxTokens,
                            window |-> Window]]
      BY <2>6 DEF Dispatch
    <3>2. wire' \in [Sessions -> [max : Nat, window : Nat]]
      BY <3>1, DispatchFacts DEF TypeOK
    <3>3. QED
      BY <2>6, <3>2 DEF Dispatch, TypeOK, CallPc
  <2>7. ASSUME NEW s \in Sessions, GatewayAnswers(s) PROVE TypeOK'
    <3>1. PerToken(s) \in Nat
      BY PerTokenType
    <3>2. report' \in [Sessions -> Nat]
      BY <2>7, <3>1 DEF GatewayAnswers, Accounted, TypeOK
    <3>3. QED
      BY <2>7, <3>2 DEF GatewayAnswers, TypeOK, CallPc
  <2>8. ASSUME NEW s \in Sessions, Settle(s) PROVE TypeOK'
    <3>1. Ends(s, "ended") /\ "ended" \in Outcomes
      BY <2>8 DEF Settle, Outcomes
    <3>2. report[s] \in Nat /\ PerToken(s) \in Nat
      BY PerTokenType DEF TypeOK
    <3>3. Clamp(report[s]) \in Calibration /\ Clamp(PerToken(s)) \in Calibration
      BY <3>2, ClampFacts
    <3>4. Blend(calibration, report[s]) \in Calibration
      <4>1. CASE calibration = NoFactor
        BY <3>3, <4>1 DEF Blend
      <4>2. CASE calibration \in Calibration
        BY <3>2, <4>2, BlendBetween
      <4>3. QED
        BY <4>1, <4>2 DEF TypeOK
    <3>5. /\ calibration' \in Calibration \cup {NoFactor}
          /\ learned' \subseteq Calibration
      BY <2>8, <3>3, <3>4 DEF Settle, TypeOK
    <3>6. UNCHANGED <<catalogVars, level>>
      BY <2>8 DEF Settle
    <3>7. QED
      BY <3>1, <3>5, <3>6, EndsTypes DEF TypeOK
  <2>9. QED
    BY <2>1, <2>2, <2>3, <2>4, <2>5, <2>6, <2>7, <2>8, NextCases
<1>3. QED
  BY <1>1, <1>2, PTL DEF Spec

-----------------------------------------------------------------------------
(* What is learned.                                                        *)

\* A report seen and not yet folded is true: the cached part was added back.
TrueReports ==
  \A s \in Sessions : /\ report[s] \in {0, PerToken(s)}
                      /\ pc[s] = "idle" => report[s] = 0

HullInv == CalibrationInHull /\ TrueReports

LEMMA HullInvHolds == Spec => []HullInv
<1>1. Init => HullInv
  BY DEF Init, HullInv, CalibrationInHull, TrueReports
<1>2. TypeOK /\ HullInv /\ [Next]_vars => HullInv'
  <2> SUFFICES ASSUME TypeOK, HullInv, [Next]_vars PROVE HullInv'
    OBVIOUS
  <2> USE DEF catalogVars, callVars
  <2>1. ASSUME UNCHANGED <<calibration, learned>> PROVE CalibrationInHull'
    BY <2>1 DEF HullInv, CalibrationInHull
  <2>2. ASSUME NEW s \in Sessions, NEW how, Ends(s, how), UNCHANGED level
        PROVE  TrueReports'
    BY <2>2 DEF Ends, HullInv, TrueReports, TypeOK, PerToken
  <2>3. CASE UNCHANGED vars \/ CatalogMoves
    BY <2>1, <2>3 DEF vars, CatalogMoves, HullInv, TrueReports, PerToken
  <2>4. ASSUME NEW s \in Sessions,
               Compact(s) \/ Grow(s) \/ Call(s) \/ Dispatch(s)
        PROVE  HullInv'
    BY <2>1, <2>4
       DEF Compact, Grow, Call, Dispatch, HullInv, TrueReports, PerToken, TypeOK
  <2>5. ASSUME NEW s \in Sessions,
               Reject(s) \/ Refuse(s) \/ GatewayFails(s) \/ Abandon(s)
        PROVE  HullInv'
    <3>1. UNCHANGED <<calibration, learned>>
      BY <2>5 DEF Reject, Refuse, GatewayFails, Abandon
    <3>2. (\E how : Ends(s, how)) /\ UNCHANGED level
      BY <2>5 DEF Reject, Refuse, GatewayFails, Abandon
    <3>3. QED
      BY <3>1, <3>2, <2>1, <2>2 DEF HullInv
  <2>6. ASSUME NEW s \in Sessions, GatewayAnswers(s) PROVE HullInv'
    <3>1. UNCHANGED <<calibration, learned>>
      BY <2>6 DEF GatewayAnswers
    <3>2. PICK cached \in {0, PerToken(s) \div 2} :
             \/ report' = [report EXCEPT ![s] =
                            Accounted(PerToken(s) - cached, cached)]
             \/ UNCHANGED report
      BY <2>6 DEF GatewayAnswers
    <3>3. PerToken(s) \in Nat /\ cached \in Int
      BY <3>2, PerTokenType
    <3>4. Accounted(PerToken(s) - cached, cached) = PerToken(s)
      BY <3>3 DEF Accounted
    <3>5. TrueReports'
      BY <2>6, <3>2, <3>4
         DEF GatewayAnswers, HullInv, TrueReports, TypeOK, PerToken
    <3>6. QED
      BY <3>1, <3>5, <2>1 DEF HullInv
  <2>7. ASSUME NEW s \in Sessions, Settle(s) PROVE HullInv'
    <3>1. TrueReports'
      BY <2>7, <2>2 DEF Settle
    <3>2. CASE UNCHANGED <<calibration, learned>>
      BY <3>1, <3>2, <2>1 DEF HullInv
    <3>3. CASE /\ report[s] > 0
               /\ calibration' = Blend(calibration, report[s])
               /\ learned' = learned \cup {Clamp(PerToken(s))}
      <4> DEFINE c == Clamp(PerToken(s))
      <4>1. report[s] = PerToken(s) /\ PerToken(s) \in Nat
        BY <3>3, PerTokenType DEF HullInv, TrueReports
      <4>2. c \in Calibration /\ c \in learned' /\ learned \subseteq learned'
        BY <4>1, <3>3, ClampFacts
      <4>3. \A f \in Calibration : f \in Nat /\ f # NoFactor
        BY CalibrationBounds DEF Calibration, NoFactor
      <4>4. CASE calibration = NoFactor
        <5>1. calibration' = c
          BY <4>1, <4>4, <3>3 DEF Blend
        <5>2. QED
          BY <5>1, <4>2, <4>3, <3>1 DEF HullInv, CalibrationInHull
      <4>5. CASE calibration \in Calibration
        <5>1. PICK lo \in learned, hi \in learned :
                 lo <= calibration /\ calibration <= hi
          BY <4>5, <4>3 DEF HullInv, CalibrationInHull
        <5>2. /\ calibration' \in Calibration
              /\ \/ calibration <= calibration' /\ calibration' <= c
                 \/ c <= calibration' /\ calibration' <= calibration
          BY <4>1, <4>5, <3>3, BlendBetween
        <5>3. lo \in Nat /\ hi \in Nat /\ c \in Nat
          BY <5>1, <4>2, <4>3 DEF TypeOK
        <5>4. \E l, h \in learned' : l <= calibration' /\ calibration' <= h
          <6>1. CASE calibration <= calibration' /\ calibration' <= c
            <7>1. lo <= calibration' /\ calibration' <= c
              BY <6>1, <5>1, <5>2, <5>3, <4>5, <4>3
            <7>2. QED
              BY <7>1, <5>1, <4>2
          <6>2. CASE c <= calibration' /\ calibration' <= calibration
            <7>1. c <= calibration' /\ calibration' <= hi
              BY <6>2, <5>1, <5>2, <5>3, <4>5, <4>3
            <7>2. QED
              BY <7>1, <5>1, <4>2
          <6>3. QED
            BY <6>1, <6>2, <5>2
        <5>5. calibration' # NoFactor /\ learned' # {}
          BY <5>2, <4>2, <4>3
        <5>6. QED
          BY <5>4, <5>5, <3>1 DEF HullInv, CalibrationInHull
      <4>6. QED
        BY <4>4, <4>5 DEF TypeOK
    <3>4. QED
      BY <2>7, <3>2, <3>3 DEF Settle
  <2>8. QED
    BY <2>3, <2>4, <2>5, <2>6, <2>7, NextCases
<1>3. QED
  BY <1>1, <1>2, TypeCorrect, PTL DEF Spec

\* The factor all sessions share stays between two clamped densities it was
\* taught, however their streams interleave, cache, abort or are abandoned.
THEOREM FactorIsAnAverage == Spec => []CalibrationInHull
<1>1. HullInv => CalibrationInHull
  BY DEF HullInv
<1>2. QED
  BY <1>1, HullInvHolds, PTL

-----------------------------------------------------------------------------
(* What is dispatched.                                                     *)

\* The factor covers the density of a session no sparser one was learned from.
LEMMA UndilutedFactor ==
  ASSUME TypeOK, HullInv, NEW s \in Sessions,
         \A f \in learned : PerToken(s) <= f,
         learned = {} => PerToken(s) <= Scale
  PROVE  /\ calibration = NoFactor => PerToken(s) <= Scale
         /\ calibration # NoFactor => PerToken(s) <= calibration
<1>1. calibration = NoFactor => PerToken(s) <= Scale
  BY DEF HullInv, CalibrationInHull
<1>2. ASSUME calibration # NoFactor PROVE PerToken(s) <= calibration
  <2>1. PICK lo \in learned : lo <= calibration
    BY <1>2 DEF HullInv, CalibrationInHull
  <2>2. PerToken(s) <= lo
    BY <2>1
  <2>3. lo \in Nat /\ calibration \in Nat /\ PerToken(s) \in Nat
    BY <2>1, <1>2, CalibrationBounds, PerTokenType
       DEF TypeOK, Calibration, NoFactor
  <2>4. QED
    BY <2>1, <2>2, <2>3
<1>3. QED
  BY <1>1, <1>2

\* A dispatched prompt fits beside its answer and the safety margin unless a
\* sparser session diluted the factor: with the factor an average of what was
\* learned, the calibrated estimate covers what the gateway counts.
THEOREM DispatchedPromptFits == Spec => []FitsUnlessDiluted
<1>1. Init => FitsUnlessDiluted
  BY DEF Init, FitsUnlessDiluted
<1>2. TypeOK /\ HullInv /\ FitsUnlessDiluted /\ [Next]_vars
        => FitsUnlessDiluted'
  <2> SUFFICES ASSUME TypeOK, HullInv, FitsUnlessDiluted, [Next]_vars,
                      NEW s \in Sessions, (pc[s] = "waiting")', Undiluted(s)'
               PROVE  (Counted(s) + wire[s].max + WireSafety(wire[s].window)
                        <= wire[s].window)'
    BY DEF FitsUnlessDiluted
  <2> USE DEF catalogVars, callVars
  <2>1. ASSUME pc[s] = "waiting", wire'[s] = wire[s], known'[s] = known[s],
               level'[s] = level[s]
        PROVE  (Counted(s) + wire[s].max + WireSafety(wire[s].window)
                 <= wire[s].window)'
    BY <2>1 DEF FitsUnlessDiluted, Undiluted, Counted, Tokens, PerToken
  <2>2. CASE UNCHANGED vars \/ CatalogMoves
    BY <2>1, <2>2 DEF vars, CatalogMoves
  <2>3. ASSUME NEW q \in Sessions,
               \/ Compact(q) \/ Grow(q) \/ Call(q) \/ GatewayAnswers(q)
        PROVE  /\ pc[s] = "waiting" /\ wire'[s] = wire[s]
               /\ known'[s] = known[s] /\ level'[s] = level[s]
    BY <2>3 DEF Compact, Grow, Call, GatewayAnswers, TypeOK
  <2>4. ASSUME NEW q \in Sessions,
               \/ Reject(q) \/ Refuse(q) \/ GatewayFails(q) \/ Abandon(q)
               \/ Settle(q)
        PROVE  /\ pc[s] = "waiting" /\ wire'[s] = wire[s]
               /\ known'[s] = known[s] /\ level'[s] = level[s]
    <3>1. (\E how \in Outcomes : Ends(q, how)) /\ UNCHANGED level
      BY <2>4 DEF Reject, Refuse, GatewayFails, Abandon, Settle, Outcomes
    <3>2. QED
      BY <3>1 DEF Ends, TypeOK
  <2>5. ASSUME NEW q \in Sessions, Dispatch(q), q # s
        PROVE  /\ pc[s] = "waiting" /\ wire'[s] = wire[s]
               /\ known'[s] = known[s] /\ level'[s] = level[s]
    BY <2>5 DEF Dispatch, TypeOK
  <2>6. CASE Dispatch(s)
    <3> DEFINE raw == RawEstimate[level[s]]
    <3>1. PICK requested \in Requests :
             /\ ~Budget(s, requested).overflow
             /\ wire' = [wire EXCEPT ![s] =
                           [max |-> Budget(s, requested).maxTokens,
                            window |-> Window]]
      BY <2>6 DEF Dispatch
    <3> DEFINE m == Budget(s, requested).maxTokens
    <3>2. /\ m \in Nat
          /\ Window \in Nat
          /\ Effective(raw, calibration) + m + WireSafety(Window) <= Window
      BY <3>1, DispatchFacts
    <3>3. /\ wire'[s].max = m
          /\ wire'[s].window = Window
          /\ known'[s] = learned
          /\ level' = level
      BY <2>6, <3>1 DEF Dispatch, TypeOK
    <3>4. /\ raw \in Nat
          /\ PerToken(s) \in Nat
          /\ calibration \in Calibration \cup {NoFactor}
      BY LevelsAssumption, PerTokenType DEF TypeOK
    <3>5. /\ \A f \in learned : PerToken(s) <= f
          /\ learned = {} => PerToken(s) <= Scale
      BY <3>3 DEF Undiluted, PerToken
    <3>6. PerScale(raw * PerToken(s)) <= Effective(raw, calibration)
      BY <3>4, <3>5, UndilutedFactor, EffectiveCovers
    <3>7. /\ PerScale(raw * PerToken(s)) \in Nat
          /\ Effective(raw, calibration) \in Nat
          /\ WireSafety(Window) \in Nat
      <4> HIDE DEF raw, m
      <4>1. raw * PerToken(s) \in Nat
        BY <3>4
      <4>2. PerScale(raw * PerToken(s)) \in Nat
        BY <4>1, PerScaleFacts
      <4>3. Effective(raw, calibration) \in Nat
        BY <3>4, EffectiveType
      <4>4. WireSafety(Window) \in Nat
        BY <3>2, WireSafetyType
      <4>5. QED
        BY <4>2, <4>3, <4>4
    <3>8. Counted(s)' = PerScale(raw * PerToken(s))
      BY <3>3 DEF Counted, Tokens, PerToken
    <3> HIDE DEF raw, m
    <3>9. PerScale(raw * PerToken(s)) + m + WireSafety(Window) <= Window
      BY <3>2, <3>6, <3>7
    <3>10. QED
      BY <3>3, <3>8, <3>9
  <2>7. QED
    BY <2>1, <2>2, <2>3, <2>4, <2>5, <2>6, NextCases
<1>3. QED
  BY <1>1, <1>2, TypeCorrect, HullInvHolds, PTL DEF Spec


-----------------------------------------------------------------------------
(* Why RefusalIsNotForever: compaction has somewhere to go.                *)

\* A prompt of this level leaves room for an answer at the largest factor, in
\* every window the catalog may give the model.
SmallEnough(l) ==
  \A window \in Windows \cup {FallbackWindow} :
    RawEstimate[l] * 4 + WireSafety(window) + MinAnswerTokens <= window

\* A refused prompt was not small enough, and a session does not grow its prompt
\* between a refusal and the call that is dispatched.
RefusalsShrink ==
  \A s \in Sessions :
    /\ Refuse(s) => ~SmallEnough(level[s])
    /\ outcome[s] = "refused" => level'[s] <= level[s]

\* Whatever factor the other sessions have taught the model, and whichever
\* window the catalog gives it between the refusal and the next call: once
\* compaction has reached a small enough prompt, stream() refuses it no more.
THEOREM RefusalsMakeRoom == Spec => [][RefusalsShrink]_vars
<1>1. TypeOK /\ [Next]_vars => [RefusalsShrink]_vars
  <2> SUFFICES ASSUME TypeOK, Next, NEW s \in Sessions
               PROVE  /\ Refuse(s) => ~SmallEnough(level[s])
                      /\ outcome[s] = "refused" => level'[s] <= level[s]
    BY DEF RefusalsShrink
  <2>1. ASSUME Refuse(s), SmallEnough(level[s]) PROVE FALSE
    <3>1. PICK requested \in Requests : Budget(s, requested).overflow
      BY <2>1 DEF Refuse
    <3>2. requested \in Nat /\ RawEstimate[level[s]] \in Nat
      BY WindowAssumption, LevelsAssumption DEF TypeOK
    <3>3. calibration \in Calibration \cup {NoFactor}
      BY DEF TypeOK
    <3>4. Window \in Nat \ {0} /\ DeclaredMax \in Nat \ {0}
      BY DeclaredTypes
    <3>5. RawEstimate[level[s]] * 4 + WireSafety(Window) + MinAnswerTokens <= Window
      BY <2>1 DEF SmallEnough, Window, TypeOK
    <3> HIDE DEF Window, DeclaredMax
    <3>6. QED
      BY <3>1, <3>2, <3>3, <3>4, <3>5, SmallPromptNeverRefused DEF Budget
  <2>2. level[s] \in Nat
    BY LevelsAssumption DEF TypeOK
  <2>3. ASSUME outcome[s] = "refused" PROVE level'[s] <= level[s]
    <3> USE DEF catalogVars, callVars
    <3>1. CASE CatalogMoves
      BY <2>2, <3>1 DEF CatalogMoves
    <3>2. ASSUME NEW q \in Sessions, Compact(q) \/ Grow(q)
          PROVE  level'[s] <= level[s]
      BY <2>2, <2>3, <3>2, LevelsAssumption DEF Compact, Grow, TypeOK
    <3>3. ASSUME NEW q \in Sessions,
                 \/ Call(q) \/ Reject(q) \/ Refuse(q) \/ Dispatch(q)
                 \/ GatewayAnswers(q) \/ GatewayFails(q) \/ Abandon(q) \/ Settle(q)
          PROVE  level' = level
      BY <3>3 DEF Call, Reject, Refuse, Dispatch, GatewayAnswers, GatewayFails,
                  Abandon, Settle
    <3>4. QED
      BY <2>2, <3>1, <3>2, <3>3 DEF Next
  <2>4. QED
    BY <2>1, <2>3
<1>2. QED
  BY <1>1, TypeCorrect, PTL DEF Spec

=============================================================================
