--------------------------- MODULE MCKiloAdapter ----------------------------
(* Instances of KiloAdapter for TLC.                                       *)
EXTENDS KiloAdapter, TLC

CONSTANTS prose, code   \* two sessions that use one model

MCSessions == {prose, code}
MCLevels   == 1..2

\* Of a window of 16384: a prompt that fits at every factor, its answer held to
\* less than the cap at the largest; and one that fits up to a factor of 1.
MCRawEstimate == 1 :> 3000 @@ 2 :> 13000

\* In halves: one estimated too high for the lower bound of the factor, one so
\* low that the factor is taught its upper bound.  What the decorator adds, 3000
\* tokens, is as much again as the short prompt, and little beside the long one.
MCDensity == prose :> 1 @@ code :> 8

\* In quarters: the estimate at or above the gateway's count, as budget.ts says it is
\* for measured content.
MCDensityHonest == prose :> 2 @@ code :> 4
=============================================================================
