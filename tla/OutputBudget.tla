---------------------------- MODULE OutputBudget ----------------------------
(***************************************************************************)
(* The longest answer a model is declared with, whatever it advertises     *)
(* (packages/plugin/src/adapter/budget.ts and catalog.ts).                 *)
(***************************************************************************)
EXTENDS Integers

Smaller(a, b) == IF a <= b THEN a ELSE b
Larger(a, b)  == IF a >= b THEN a ELSE b

\* outputCeilingForWindow: a quarter of the window, at least one token.
OutputCeiling(window) == Larger(1, window \div 4)

\* modelInfo: the output cap a model is declared with.
ModelMax(advertised, window, gatewayMax) ==
  Smaller(Smaller(advertised, gatewayMax), Smaller(window, OutputCeiling(window)))

=============================================================================
