----------------------------- MODULE WireBudget -----------------------------
(***************************************************************************)
(* The arithmetic of packages/plugin/src/adapter/budget.ts: how many       *)
(* tokens of answer a request may ask for beside its prompt, and how the   *)
(* factor that corrects the prompt estimate is learned.                    *)
(*                                                                         *)
(* The code keeps the factor as a double.  Here it is a whole number of    *)
(* Scale-ths, an observed ratio being rounded up to the next one; the      *)
(* shares of the window are exact where the code multiplies doubles.  The  *)
(* estimate itself (a count over the text of the request) is an input.     *)
(***************************************************************************)
EXTENDS OutputBudget

CONSTANT Scale
ASSUME ScaleAssumption == Scale \in Nat \ {0} /\ Scale % 2 = 0

MinCalibration == Scale \div 2
MaxCalibration == 4 * Scale

MinWireSafetyTokens == 1024
MinAnswerTokens     == 2048

\* The quotient by Scale, rounded up.
PerScale(n) == (n + Scale - 1) \div Scale

Calibration == MinCalibration..MaxCalibration
Clamp(f)    == Smaller(MaxCalibration, Larger(MinCalibration, f))

\* wireSafetyTokens: two hundredths of the window, at least 1024 tokens.
WireSafety(window) == Larger(MinWireSafetyTokens, (2 * window + 99) \div 100)

NoFactor == 0   \* the map holds no factor for this model

\* (A bug to detect: the observation enters the average unclamped.)
BlendUnclamped(previous, observed) ==
  IF previous = NoFactor THEN observed
  ELSE previous + ((observed - previous) * 3) \div 10

\* blendCalibration: an exponential moving average with weight 0.3 of the
\* clamped observation.  The clamp of the result in the code is idle: the
\* average of two values within bounds is within bounds.
Blend(previous, observed) ==
  IF previous = NoFactor THEN Clamp(observed)
  ELSE Clamp(previous + ((Clamp(observed) - previous) * 3) \div 10)

\* The estimate after calibration; absent a factor, the estimate as it is.
Effective(raw, factor) ==
  IF factor = NoFactor THEN raw ELSE PerScale(raw * Clamp(factor))

\* (A bug to detect: the room forgets the safety margin and the calibration.)
ResolveUncalibrated(requested, modelMax, window, raw, factor) ==
  LET cap     == Larger(1, Smaller(modelMax, window))
      ceiling == IF requested = 0 THEN cap ELSE Smaller(requested, cap)
      room    == window - raw
  IN  [effective |-> raw,
       overflow  |-> room < MinAnswerTokens,
       maxTokens |-> IF room < MinAnswerTokens THEN 0 ELSE Smaller(ceiling, room)]

\* (A bug to detect: a prompt is refused unless a whole answer fits.)
ResolveWholeAnswer(requested, modelMax, window, raw, factor) ==
  LET cap       == Larger(1, Smaller(modelMax, window))
      ceiling   == IF requested = 0 THEN cap ELSE Smaller(requested, cap)
      effective == Effective(raw, factor)
      room      == window - effective - WireSafety(window)
      overflow  == room < ceiling
  IN  [effective |-> effective,
       overflow  |-> overflow,
       maxTokens |-> IF overflow THEN 0 ELSE ceiling]

\* resolveWireBudget: the answer gets what the prompt and the safety margin
\* leave, up to the cap of the model and to what was requested (0: nothing
\* was); a prompt that leaves less than MinAnswerTokens is refused.
ResolveWireBudget(requested, modelMax, window, raw, factor) ==
  LET cap       == Larger(1, Smaller(modelMax, window))
      ceiling   == IF requested = 0 THEN cap ELSE Smaller(requested, cap)
      effective == Effective(raw, factor)
      room      == window - effective - WireSafety(window)
      overflow  == room < MinAnswerTokens
  IN  [effective |-> effective,
       overflow  |-> overflow,
       maxTokens |-> IF overflow THEN 0 ELSE Smaller(ceiling, room)]

=============================================================================
