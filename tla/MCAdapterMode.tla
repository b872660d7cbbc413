--------------------------- MODULE MCAdapterMode ---------------------------
(* A small instance of AdapterMode: two overlapping refreshes of Zen beside *)
(* one of Kilo.                                                             *)
EXTENDS AdapterMode, TLC

CONSTANTS a, b, c, k, z1, z2, k1, none

MCIds   == {a, b, c, k}
MCSlots == {z1, z2, k1}
MCLaneOf == z1 :> "zen" @@ z2 :> "zen" @@ k1 :> "kilo"

Bare(id) == Unlisted(id)

\* Zen lists a bare, b with limits of its own, then b again without, and c with
\* no window but a nested one.  Kilo lists a free router and a paid model.
MCListings ==
  [zen  |-> {<<Bare(none), Bare(a),
               [Bare(b) EXCEPT !.context = {8}, !.nested = {4}, !.output = {1},
                               !.inputs = {{"text"}}],
               Bare(b), [Bare(c) EXCEPT !.nested = {8}, !.output = {6}]>>},
   kilo |-> {<<[Bare(k) EXCEPT !.zeroPriced = TRUE, !.params = {{"tools", "reasoning"}}],
               [Bare(b) EXCEPT !.isFree = {FALSE}, !.is_free = {TRUE}]>>}]

Raw(context, tools) ==
  [context |-> context, input |-> {6}, output |-> {0}, inputs |-> {"text", "image"},
   toolCall |-> tools, reasoning |-> TRUE, description |-> {}]

\* Two editions of the document: another provider describes a too, and Zen's a
\* reasons without tools, and c has a smaller window; or a and c are not described.
MCDocuments ==
  {<<[zen |-> FALSE, models |-> a :> Raw({1}, TRUE)],
     [zen |-> TRUE, models |-> a :> Raw({16}, FALSE) @@ b :> Raw({5}, TRUE)
                                 @@ c :> Raw({5}, TRUE)]>>,
   <<[zen |-> TRUE, models |-> b :> Raw({0}, TRUE)]>>}

MCCached  == [zen |-> {Decode(<<Bare(a)>>)}, kilo |-> {}]
MCGatewayMax == [kilo |-> 6, zen |-> 1000]
MCStatics == [zen |-> {a}, kilo |-> {k}]
MCNoCandidates == [zen |-> {}, kilo |-> {}]
=============================================================================
