---------------------------- MODULE ModelRecords ----------------------------
(***************************************************************************)
(* What the plugin makes of one record of a model directory: whether the   *)
(* model is free and fit for an agent, the window and modalities it is     *)
(* offered with (packages/plugin/src/adapter/catalog.ts), and how OpenCode's *)
(* capability document completes the bare records of the Zen directory     *)
(* (opencode-capabilities.ts).                                             *)
(*                                                                         *)
(* A field that a record may lack is a set with at most one member.  Limits *)
(* are numbers, 0 standing for a published value that is no positive       *)
(* number.  The several spellings of one field (context_length,            *)
(* contextWindow, ...) are one field; blank texts count as lacking; names  *)
(* (filled as descriptions are) and fractions of tokens are left out.      *)
(***************************************************************************)
EXTENDS OutputBudget

CONSTANTS
  Ids,            \* model ids
  NoId,           \* what a row without a usable id has in its place
  FreeNames,      \* ids that look free to Kilo: kilo-auto/free, *:free, *-free
  ZenFreeNames,   \* ids that look free to Zen: big-pickle, *:free, *-free
  Routers,        \* ids below kilo-auto/ and openrouter/
  Statics,        \* per lane: ids offered before any listing is known
  Candidates,     \* per lane: further ids admitted, unlisted, meanwhile
  VisionIds,      \* Zen models known to see
  Limits,         \* the numbers of tokens that records declare
  DefaultWindow,  \* 262144 tokens
  DefaultMax,     \* 32768 tokens
  GatewayMax,     \* per lane: maxOutputTokens; where it is null, more than any
  RequireTools    \* requireTools of the configuration

Lanes == {"kilo", "zen"}

ASSUME RecordsAssumption ==
  /\ NoId \notin Ids
  /\ FreeNames \subseteq Ids /\ ZenFreeNames \subseteq Ids /\ Routers \subseteq Ids
  /\ Statics \in [Lanes -> SUBSET Ids] /\ Candidates \in [Lanes -> SUBSET Ids]
  /\ VisionIds \subseteq Ids
  /\ Limits \subseteq Nat
  /\ DefaultWindow \in Nat \ {0} /\ DefaultMax \in Nat \ {0}
  /\ GatewayMax \in [Lanes -> Nat \ {0}]
  /\ RequireTools \in BOOLEAN

Optional(S) == {{}} \cup {{x} : x \in S}

Modalities == {"text", "image", "audio"}
Parameters == {"tools", "reasoning"}
Texts      == {"directory", "document", "autofill"}   \* where a text comes from

Record ==
  [id          : Ids \cup {NoId},
   deprecated  : BOOLEAN,
   isFree      : Optional(BOOLEAN),          \* the camelCase flag
   is_free     : Optional(BOOLEAN),          \* its older spelling
   zeroPriced  : BOOLEAN,                    \* prompt and completion cost 0
   outputs     : Optional(SUBSET Modalities),
   inputs      : Optional(SUBSET Modalities),
   params      : Optional(SUBSET Parameters),
   context     : Optional(Limits),              \* on the record itself
   nested      : Optional(Limits),              \* in top_provider or limit(s), or
                                                \* under a name Enrich overlooks
   output      : Optional(Limits),
   nestedMax   : Optional(Limits),              \* an output limit there
   description : Optional(Texts)]

\* Models keyed by id: #models, and what a listing decodes to.
IsRows(f) == DOMAIN f \subseteq Ids /\ f \in [DOMAIN f -> Record]

NoRows == [id \in {} |-> 0]

-----------------------------------------------------------------------------
(* Classification.                                                         *)

\* The camelCase flag goes before the older one.
FreeFlag(m) == IF m.isFree # {} THEN m.isFree ELSE m.is_free

\* A flag decides; without one the name does, or, for a router, the price.
IsFreeModel(m) ==
  /\ ~m.deprecated
  /\ \/ FreeFlag(m) = {TRUE}
     \/ /\ FreeFlag(m) = {}
        /\ m.id \in FreeNames \/ (m.zeroPriced /\ m.id \in Routers)

IsZenFreeModel(m) ==
  /\ ~m.deprecated
  /\ FreeFlag(m) = {TRUE} \/ (FreeFlag(m) = {} /\ m.id \in ZenFreeNames)

FreePredicate(lane, m) ==
  IF lane = "zen" THEN IsZenFreeModel(m) ELSE IsFreeModel(m)

IsTextOutputModel(m) == \A modalities \in m.outputs : "image" \notin modalities

\* A directory that lists no parameters is trusted to support tools ...
SupportsTools(m) == \A list \in m.params : list = {} \/ "tools" \in list

\* ... but not to reason.
SupportsReasoning(m) == \E list \in m.params : "reasoning" \in list

\* decodeKiloModels: rows without an id go, and of equal ids the first stays.
Decode(listing) ==
  LET First(i) == /\ listing[i].id # NoId
                  /\ \A j \in 1..(i - 1) : listing[j].id # listing[i].id
      kept     == {i \in DOMAIN listing : First(i)}
  IN  [id \in {listing[i].id : i \in kept} |->
         listing[CHOOSE i \in kept : listing[i].id = id]]

\* decision(): may this model be called, given the rows the catalog holds?
Allowed(lane, models, id) ==
  IF id \in DOMAIN models
  THEN /\ FreePredicate(lane, models[id])
       /\ IsTextOutputModel(models[id])
       /\ RequireTools => SupportsTools(models[id])
  ELSE /\ models = NoRows
       /\ id \in Statics[lane] \cup Candidates[lane]
                 \cup (IF lane = "zen" THEN ZenFreeNames ELSE FreeNames)

\* list()
Exposed(lane, models) ==
  IF models = NoRows THEN Statics[lane]
  ELSE {id \in DOMAIN models : Allowed(lane, models, id)}

-----------------------------------------------------------------------------
(* modelInfo(): what a model is offered with.                              *)

\* The smallest positive limit, else the default.
Tightest(limits, default) ==
  LET positive == {n \in limits : n > 0} IN
  IF positive = {} THEN default
  ELSE CHOOSE n \in positive : \A k \in positive : n <= k

ContextWindow(m) == Tightest(m.context \cup m.nested, DefaultWindow)
AdvertisedMax(m) == Tightest(m.output \cup m.nestedMax, DefaultMax)

InputModalities(lane, m) ==
  {"text"} \cup (UNION m.inputs \cap {"image"})
           \cup {v \in {"image"} : lane = "zen" /\ m.id \in VisionIds}

\* The answer is held to a share of the window, wherever that comes from.
ModelInfo(lane, m) ==
  [contextWindow |-> ContextWindow(m),
   maxTokens |-> ModelMax(AdvertisedMax(m), ContextWindow(m), GatewayMax[lane]),
   inputModalities |-> InputModalities(lane, m), reasoning |-> SupportsReasoning(m)]

\* A record that says nothing but its id.
Unlisted(id) ==
  [id |-> id, deprecated |-> FALSE, isFree |-> {}, is_free |-> {}, zeroPriced |-> FALSE,
   outputs |-> {}, inputs |-> {}, params |-> {}, context |-> {}, nested |-> {},
   output |-> {}, nestedMax |-> {}, description |-> {}]

\* What the adapter's listModels and resolveModel offer a model with.
Offer(lane, models, id) ==
  ModelInfo(lane, IF id \in DOMAIN models THEN models[id] ELSE Unlisted(id))

-----------------------------------------------------------------------------
(* The capability document.                                                *)

\* What it says of one model.
Capability ==
  [context     : Optional(Limits \ {0}),
   output      : Optional(Limits \ {0}),
   inputs      : SUBSET Modalities,
   toolCall    : BOOLEAN,
   reasoning   : BOOLEAN,
   description : Optional({"document"})]

IsCapabilities(f) == DOMAIN f \subseteq Ids /\ f \in [DOMAIN f -> Capability]

\* A provider of the document: is its api that of Zen, and its models, each a
\* capability but for the pair of limits the context is the smaller of.
\* parseOpenCodeCapabilities keeps the models of Zen, the later of two.
Parse(document) ==
  LET zen == {i \in DOMAIN document : document[i].zen}
      At(id) == CHOOSE i \in zen : /\ id \in DOMAIN document[i].models
                                   /\ \A j \in zen : id \in DOMAIN document[j].models => j <= i
      Normal(raw) ==
        [context     |-> {Tightest(raw.context \cup raw.input, 0)} \ {0},
         output      |-> raw.output \ {0},
         inputs      |-> raw.inputs,
         toolCall    |-> raw.toolCall,
         reasoning   |-> raw.reasoning,
         description |-> raw.description]
  IN  [id \in UNION {DOMAIN document[i].models : i \in zen} |->
         Normal(document[At(id)].models[id])]

\* A value that the directory published stays.
Filled(own, found) == IF own # {} THEN own ELSE found

\* (A bug to detect: a list without tools hides the model.)
ListAlways(m, c) ==
  IF m.params = {}
  THEN {{p \in Parameters : (p = "tools" /\ c.toolCall) \/ (p = "reasoning" /\ c.reasoning)}}
  ELSE m.params

\* Parameters are listed only where tools are among them.
ListedParams(m, c) ==
  IF m.params = {} /\ c.toolCall
  THEN {{"tools"} \cup {p \in {"reasoning"} : c.reasoning}}
  ELSE m.params

\* A document that lists no modalities has none to give.
ListedInputs(c) == {list \in {c.inputs} : list # {}}

EnrichRecord(m, c) ==
  [m EXCEPT !.context     = Filled(m.context, c.context),
            !.output      = Filled(m.output, c.output),
            !.inputs      = Filled(m.inputs, ListedInputs(c)),
            !.params      = ListedParams(m, c),
            !.description = Filled(m.description, c.description)]

\* enrichZenModels
Enrich(models, capabilities) ==
  [id \in DOMAIN models |->
     IF id \in DOMAIN capabilities
     THEN EnrichRecord(models[id], capabilities[id])
     ELSE models[id]]

OptionalFields ==
  {"isFree", "is_free", "outputs", "inputs", "params", "context", "nested", "output",
   "nestedMax", "description"}

\* No field of the listing is overwritten.
KeepsFields(m, e) ==
  /\ e.id = m.id /\ e.deprecated = m.deprecated /\ e.zeroPriced = m.zeroPriced
  /\ \A field \in OptionalFields : m[field] # {} => e[field] = m[field]

\* What the record m declares binds what it is offered with once it is e.  Each
\* declared limit bounds the offer from above; a document may tighten it, through
\* a limit that stands beside a nested one, or through the share of a window that
\* the record left open.
KeepsOffer(m, was, is) ==
  /\ \A n \in (m.context \cup m.nested) \ {0} : is.contextWindow <= n
  /\ \A n \in (m.output \cup m.nestedMax) \ {0} : is.maxTokens <= n
  /\ m.context # {} => is.contextWindow = was.contextWindow
  /\ m.context # {} /\ m.output # {} => is.maxTokens = was.maxTokens
  /\ m.inputs # {} => is.inputModalities = was.inputModalities
  /\ m.params # {} => is.reasoning = was.reasoning

\* No model appears or goes, and what the listing declared is respected.
Additive(lane, rows, enriched) ==
  /\ DOMAIN enriched = DOMAIN rows
  /\ Exposed(lane, enriched) = Exposed(lane, rows)
  /\ \A id \in DOMAIN rows :
       /\ KeepsFields(rows[id], enriched[id])
       /\ KeepsOffer(rows[id], Offer(lane, rows, id), Offer(lane, enriched, id))

\* The exposed rows without a description.
Undescribed(lane, models) ==
  {id \in Exposed(lane, models) \cap DOMAIN models : models[id].description = {}}

\* fillDescriptions: the exposed rows without a description that the service
\* has one for.
FillDescriptions(lane, models, known) ==
  [id \in DOMAIN models |->
     IF id \in Exposed(lane, models) \cap known
     THEN [models[id] EXCEPT !.description = Filled(models[id].description, {"autofill"})]
     ELSE models[id]]

=============================================================================
