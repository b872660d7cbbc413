------------------------- MODULE AdapterModeProofs -------------------------
(***************************************************************************)
(* Proofs about ModelRecords and AdapterMode, for any ids, listings,       *)
(* capability documents, cache files and number of overlapping refreshes.  *)
(***************************************************************************)
EXTENDS AdapterMode, TLAPS

-----------------------------------------------------------------------------
(* Records: what completing and filling them leaves alone.                 *)

LEMMA ListedParamsKind ==
  ASSUME NEW m \in Record, NEW c \in Capability
  PROVE  ListedParams(m, c) \in Optional(SUBSET Parameters)
<1>1. m.params \in Optional(SUBSET Parameters)
  BY DEF Record
<1>2. {"tools"} \cup {p \in {"reasoning"} : c.reasoning} \in SUBSET Parameters
  BY DEF Parameters
<1>3. QED
  BY <1>1, <1>2 DEF ListedParams, Optional

LEMMA EnrichRecordFields ==
  ASSUME NEW m \in Record, NEW c \in Capability
  PROVE  /\ EnrichRecord(m, c).id = m.id
         /\ EnrichRecord(m, c).deprecated = m.deprecated
         /\ EnrichRecord(m, c).isFree = m.isFree
         /\ EnrichRecord(m, c).is_free = m.is_free
         /\ EnrichRecord(m, c).zeroPriced = m.zeroPriced
         /\ EnrichRecord(m, c).outputs = m.outputs
         /\ EnrichRecord(m, c).nested = m.nested
         /\ EnrichRecord(m, c).nestedMax = m.nestedMax
         /\ EnrichRecord(m, c).params = ListedParams(m, c)
         /\ EnrichRecord(m, c).context = Filled(m.context, c.context)
         /\ EnrichRecord(m, c).output = Filled(m.output, c.output)
         /\ EnrichRecord(m, c).inputs = Filled(m.inputs, ListedInputs(c))
BY DEF EnrichRecord, Record

LEMMA EnrichRecordIsRecord ==
  ASSUME NEW m \in Record, NEW c \in Capability
  PROVE  EnrichRecord(m, c) \in Record
<1>1. Filled(m.context, c.context) \in Optional(Limits)
  BY DEF Filled, Optional, Record, Capability
<1>2. Filled(m.output, c.output) \in Optional(Limits)
  BY DEF Filled, Optional, Record, Capability
<1>3. Filled(m.inputs, ListedInputs(c))
        \in Optional(SUBSET Modalities)
  BY DEF ListedInputs, Filled, Optional, Record, Capability
<1>4. Filled(m.description, c.description) \in Optional(Texts)
  BY DEF Filled, Optional, Record, Capability, Texts
<1>5. QED
  BY <1>1, <1>2, <1>3, <1>4, ListedParamsKind DEF EnrichRecord, Record

LEMMA EnrichIsRows ==
  ASSUME NEW rows, IsRows(rows), NEW caps, IsCapabilities(caps)
  PROVE  IsRows(Enrich(rows, caps))
<1>1. DOMAIN Enrich(rows, caps) = DOMAIN rows
  BY DEF Enrich
<1>2. ASSUME NEW id \in DOMAIN rows PROVE Enrich(rows, caps)[id] \in Record
  BY EnrichRecordIsRecord DEF Enrich, IsRows, IsCapabilities
<1>3. Enrich(rows, caps) \in [DOMAIN rows -> Record]
  BY <1>2 DEF Enrich
<1>4. QED
  BY <1>1, <1>3 DEF IsRows

\* Two rows that the classification cannot tell apart.
SameForClass(m, e) ==
  /\ e.id = m.id /\ e.deprecated = m.deprecated
  /\ e.isFree = m.isFree /\ e.is_free = m.is_free
  /\ e.zeroPriced = m.zeroPriced /\ e.outputs = m.outputs
  /\ SupportsTools(e) <=> SupportsTools(m)

\* Rows alike in what is classified expose the same models.
LEMMA SameExposure ==
  ASSUME NEW lane, NEW rows, IsRows(rows), NEW others, IsRows(others),
         DOMAIN others = DOMAIN rows,
         \A id \in DOMAIN rows : SameForClass(rows[id], others[id])
  PROVE  Exposed(lane, others) = Exposed(lane, rows)
<1>1. CASE DOMAIN rows = {}
  <2>1. rows = NoRows /\ others = NoRows
    BY <1>1 DEF IsRows, NoRows
  <2>2. QED
    BY <2>1
<1>2. CASE DOMAIN rows # {}
  <2>1. rows # NoRows /\ others # NoRows
    BY <1>2 DEF NoRows
  <2>2. ASSUME NEW id \in DOMAIN rows
        PROVE  Allowed(lane, others, id) <=> Allowed(lane, rows, id)
    <3>1. SameForClass(rows[id], others[id])
      OBVIOUS
    <3>2. FreePredicate(lane, others[id]) <=> FreePredicate(lane, rows[id])
      BY <3>1 DEF FreePredicate, IsZenFreeModel, IsFreeModel, FreeFlag, SameForClass
    <3>3. IsTextOutputModel(others[id]) <=> IsTextOutputModel(rows[id])
      BY <3>1 DEF IsTextOutputModel, SameForClass
    <3>4. SupportsTools(others[id]) <=> SupportsTools(rows[id])
      BY <3>1 DEF SameForClass
    <3>5. QED
      BY <3>2, <3>3, <3>4, Zenon DEF Allowed
  <2>3. QED
    BY <2>1, <2>2, Zenon DEF Exposed
<1>3. QED
  BY <1>1, <1>2

LEMMA EnrichedSameForClass ==
  ASSUME NEW m \in Record, NEW c \in Capability
  PROVE  SameForClass(m, EnrichRecord(m, c))
<1>1. SupportsTools(EnrichRecord(m, c)) <=> SupportsTools(m)
  <2>1. EnrichRecord(m, c).params = ListedParams(m, c)
    BY EnrichRecordFields
  <2>2. CASE m.params = {} /\ c.toolCall
    BY <2>1, <2>2 DEF SupportsTools, ListedParams
  <2>3. CASE ~(m.params = {} /\ c.toolCall)
    BY <2>1, <2>3, Zenon DEF SupportsTools, ListedParams
  <2>4. QED
    BY <2>2, <2>3
<1>2. QED
  BY <1>1, EnrichRecordFields DEF SameForClass

-----------------------------------------------------------------------------
(* What is offered stays within what is declared.                          *)

\* Of at most two limits the smaller positive one binds, else the default.
LEMMA TightestBinds ==
  ASSUME NEW S \in Optional(Limits), NEW T \in Optional(Limits), NEW default \in Nat \ {0}
  PROVE  /\ Tightest(S \cup T, default) \in Nat \ {0}
         /\ \A n \in (S \cup T) \ {0} : Tightest(S \cup T, default) <= n
<1> DEFINE positive == {n \in S \cup T : n > 0}
<1>1. S \subseteq Nat /\ T \subseteq Nat
  BY RecordsAssumption DEF Optional
<1>2. \A n \in (S \cup T) \ {0} : n \in positive
  BY <1>1
<1>3. CASE positive = {}
  BY <1>2, <1>3 DEF Tightest
<1>4. CASE positive # {}
  <2>1. \A a, b \in S : a = b
    BY DEF Optional
  <2>2. \A a, b \in T : a = b
    BY DEF Optional
  <2>3. \E n \in positive : \A k \in positive : n <= k
    <3>1. positive \subseteq Nat
      BY <1>1
    <3>2. PICK p \in positive : TRUE
      BY <1>4
    <3>3. CASE \A k \in positive : p <= k
      BY <3>3
    <3>4. ASSUME NEW q \in positive, ~(p <= q)
          PROVE  \A k \in positive : q <= k
      <4>1. \A k \in positive : k = p \/ k = q
        BY <2>1, <2>2, <3>1, <3>4
      <4>2. p \in Nat /\ q \in Nat
        BY <3>1
      <4>3. QED
        BY <3>4, <4>1, <4>2
    <3>5. QED
      BY <3>3, <3>4
  <2>4. Tightest(S \cup T, default) = CHOOSE n \in positive : \A k \in positive : n <= k
    BY <1>4 DEF Tightest
  <2>5. /\ Tightest(S \cup T, default) \in positive
        /\ \A k \in positive : Tightest(S \cup T, default) <= k
    <3> HIDE DEF positive
    <3> QED
      BY <2>3, <2>4
  <2>6. Tightest(S \cup T, default) \in Nat \ {0}
    <3>1. \A n \in positive : n \in Nat \ {0}
      BY <1>1
    <3> HIDE DEF positive
    <3>2. QED
      BY <2>5, <3>1
  <2>7. QED
    BY <1>2, <2>5, <2>6
<1>5. QED
  BY <1>3, <1>4

\* The offer of a record: no window and no answer beyond a limit it declares.
LEMMA OfferIsBounded ==
  ASSUME NEW lane \in Lanes, NEW m \in Record
  PROVE  /\ \A n \in (m.context \cup m.nested) \ {0} : ModelInfo(lane, m).contextWindow <= n
         /\ \A n \in (m.output \cup m.nestedMax) \ {0} : ModelInfo(lane, m).maxTokens <= n
<1>1. /\ m.context \in Optional(Limits) /\ m.nested \in Optional(Limits)
      /\ m.output \in Optional(Limits) /\ m.nestedMax \in Optional(Limits)
  BY DEF Record
<1>2. DefaultWindow \in Nat \ {0} /\ DefaultMax \in Nat \ {0} /\ GatewayMax[lane] \in Nat \ {0}
  BY RecordsAssumption
<1>3. /\ ContextWindow(m) \in Nat \ {0}
      /\ \A n \in (m.context \cup m.nested) \ {0} : ContextWindow(m) <= n
  BY <1>1, <1>2, TightestBinds DEF ContextWindow
<1>4. /\ AdvertisedMax(m) \in Nat \ {0}
      /\ \A n \in (m.output \cup m.nestedMax) \ {0} : AdvertisedMax(m) <= n
  BY <1>1, <1>2, TightestBinds DEF AdvertisedMax
<1>5. ASSUME NEW advertised \in Nat, NEW window \in Nat, NEW cap \in Nat
      PROVE  ModelMax(advertised, window, cap) \in Int /\ ModelMax(advertised, window, cap) <= advertised
  <2>1. OutputCeiling(window) \in Int
    BY DEF OutputCeiling, Larger
  <2>2. QED
    BY <2>1 DEF ModelMax, Smaller
<1>6. /\ ModelInfo(lane, m).contextWindow = ContextWindow(m)
      /\ ModelInfo(lane, m).maxTokens = ModelMax(AdvertisedMax(m), ContextWindow(m), GatewayMax[lane])
  BY DEF ModelInfo
<1>7. ModelInfo(lane, m).maxTokens \in Int /\ ModelInfo(lane, m).maxTokens <= AdvertisedMax(m)
  BY <1>2, <1>3, <1>4, <1>5, <1>6
<1>8. \A n \in (m.output \cup m.nestedMax) \ {0} : n \in Nat
  BY <1>1, RecordsAssumption DEF Optional
<1>9. QED
  BY <1>3, <1>4, <1>6, <1>7, <1>8

\* An enriched record has every field that the listing gave it.
LEMMA EnrichedKeepsFields ==
  ASSUME NEW m \in Record, NEW c \in Capability
  PROVE  KeepsFields(m, EnrichRecord(m, c))
<1>1. ASSUME NEW field \in OptionalFields, m[field] # {}
      PROVE  EnrichRecord(m, c)[field] = m[field]
  BY <1>1 DEF OptionalFields, EnrichRecord, Record, Filled, ListedParams
<1>2. QED
  BY <1>1, EnrichRecordFields DEF KeepsFields

\* A record that kept every field, and its nested limits exactly, is offered
\* within what it declared.
LEMMA KeptFieldsBind ==
  ASSUME NEW lane \in Lanes, NEW m \in Record, NEW e \in Record, KeepsFields(m, e),
         e.nested = m.nested, e.nestedMax = m.nestedMax
  PROVE  KeepsOffer(m, ModelInfo(lane, m), ModelInfo(lane, e))
<1>1. /\ e.id = m.id
      /\ m.context # {} => e.context = m.context
      /\ m.output # {} => e.output = m.output
      /\ m.inputs # {} => e.inputs = m.inputs
      /\ m.params # {} => e.params = m.params
  BY DEF KeepsFields, OptionalFields
<1>2. /\ \A n \in (e.context \cup e.nested) \ {0} : ModelInfo(lane, e).contextWindow <= n
      /\ \A n \in (e.output \cup e.nestedMax) \ {0} : ModelInfo(lane, e).maxTokens <= n
  BY OfferIsBounded
<1>3. m.context \subseteq e.context /\ m.output \subseteq e.output
  BY <1>1
<1>4. /\ \A n \in (m.context \cup m.nested) \ {0} : ModelInfo(lane, e).contextWindow <= n
      /\ \A n \in (m.output \cup m.nestedMax) \ {0} : ModelInfo(lane, e).maxTokens <= n
  BY <1>2, <1>3
<1>5. m.context # {} => ContextWindow(e) = ContextWindow(m)
  BY <1>1 DEF ContextWindow
<1>6. m.output # {} => AdvertisedMax(e) = AdvertisedMax(m)
  BY <1>1 DEF AdvertisedMax
<1>7. m.inputs # {} => InputModalities(lane, e) = InputModalities(lane, m)
  BY <1>1 DEF InputModalities
<1>8. m.params # {} => SupportsReasoning(e) = SupportsReasoning(m)
  BY <1>1 DEF SupportsReasoning
<1>9. QED
  BY <1>4, <1>5, <1>6, <1>7, <1>8 DEF KeepsOffer, ModelInfo

\* Whatever a document says, completing a listing by it hides no model and
\* exposes none, overwrites no field that the listing gave, and offers no model
\* beyond a limit that the listing declared for it, at the top or nested.
THEOREM EnrichAdds ==
  ASSUME NEW lane \in Lanes, NEW rows, IsRows(rows), NEW caps, IsCapabilities(caps)
  PROVE  Additive(lane, rows, Enrich(rows, caps))
<1> DEFINE E == Enrich(rows, caps)
<1>1. IsRows(E) /\ DOMAIN E = DOMAIN rows
  BY EnrichIsRows DEF Enrich
<1>2. ASSUME NEW id \in DOMAIN rows
      PROVE  E[id] = rows[id] \/ \E c \in Capability : E[id] = EnrichRecord(rows[id], c)
  BY DEF Enrich, IsCapabilities
<1>3. ASSUME NEW id \in DOMAIN rows PROVE rows[id] \in Record
  BY DEF IsRows
<1>4. ASSUME NEW id \in DOMAIN rows
      PROVE  /\ SameForClass(rows[id], E[id])
             /\ KeepsFields(rows[id], E[id])
             /\ E[id].nested = rows[id].nested /\ E[id].nestedMax = rows[id].nestedMax
  <2>1. CASE E[id] = rows[id]
    BY <2>1 DEF SameForClass, KeepsFields
  <2>2. ASSUME NEW c \in Capability, E[id] = EnrichRecord(rows[id], c)
        PROVE  /\ SameForClass(rows[id], E[id])
               /\ KeepsFields(rows[id], E[id])
               /\ E[id].nested = rows[id].nested /\ E[id].nestedMax = rows[id].nestedMax
    BY <1>3, <2>2, EnrichedSameForClass, EnrichedKeepsFields, EnrichRecordFields
  <2>3. QED
    BY <1>2, <2>1, <2>2
<1> HIDE DEF E
<1>5. Exposed(lane, E) = Exposed(lane, rows)
  BY <1>1, <1>4, SameExposure
<1>6. ASSUME NEW id \in DOMAIN rows
      PROVE  KeepsOffer(rows[id], Offer(lane, rows, id), Offer(lane, E, id))
  <2>1. Offer(lane, rows, id) = ModelInfo(lane, rows[id]) /\ Offer(lane, E, id) = ModelInfo(lane, E[id])
    BY <1>1 DEF Offer
  <2>2. E[id] \in Record
    BY <1>1 DEF IsRows
  <2>3. QED
    BY <1>3, <1>4, <2>1, <2>2, KeptFieldsBind
<1>7. Additive(lane, rows, E)
  BY <1>1, <1>4, <1>5, <1>6 DEF Additive
<1>8. QED
  BY <1>7 DEF E

\* Rows that no document completes are offered as they are.
LEMMA ItselfAdds ==
  ASSUME NEW lane \in Lanes, NEW rows, IsRows(rows)
  PROVE  Additive(lane, rows, rows)
<1>1. ASSUME NEW id \in DOMAIN rows
      PROVE  /\ KeepsFields(rows[id], rows[id])
             /\ KeepsOffer(rows[id], Offer(lane, rows, id), Offer(lane, rows, id))
  <2>1. rows[id] \in Record /\ Offer(lane, rows, id) = ModelInfo(lane, rows[id])
    BY DEF IsRows, Offer
  <2>2. KeepsFields(rows[id], rows[id])
    BY DEF KeepsFields
  <2>3. QED
    BY <2>1, <2>2, KeptFieldsBind
<1>2. QED
  BY <1>1 DEF Additive

LEMMA FillIsRows ==
  ASSUME NEW lane, NEW rows, IsRows(rows), NEW known
  PROVE  IsRows(FillDescriptions(lane, rows, known))
<1> DEFINE F == FillDescriptions(lane, rows, known)
<1>1. DOMAIN F = DOMAIN rows
  BY DEF FillDescriptions
<1>2. ASSUME NEW m \in Record
      PROVE  [m EXCEPT !.description = Filled(m.description, {"autofill"})] \in Record
  <2>1. Filled(m.description, {"autofill"}) \in Optional(Texts)
    BY DEF Filled, Optional, Record, Texts
  <2>2. QED
    BY <2>1 DEF Record
<1>3. ASSUME NEW id \in DOMAIN rows PROVE F[id] \in Record
  BY <1>2 DEF FillDescriptions, IsRows
<1>4. F \in [DOMAIN rows -> Record]
  BY <1>3 DEF FillDescriptions
<1>5. QED
  BY <1>1, <1>4 DEF IsRows

\* A fill leaves no exposed row undescribed that the service knows.
LEMMA FillDescribes ==
  ASSUME NEW lane, NEW rows, IsRows(rows), NEW known
  PROVE  Undescribed(lane, FillDescriptions(lane, rows, known)) \cap known = {}
<1> DEFINE F == FillDescriptions(lane, rows, known)
<1>1. IsRows(F) /\ DOMAIN F = DOMAIN rows
  BY FillIsRows DEF FillDescriptions
<1>2. ASSUME NEW id \in DOMAIN rows PROVE SameForClass(rows[id], F[id])
  <2>1. rows[id] \in Record
    BY DEF IsRows
  <2>2. CASE id \in Exposed(lane, rows) \cap known
    <3>1. F[id] = [rows[id] EXCEPT !.description = Filled(rows[id].description, {"autofill"})]
      BY <2>2 DEF FillDescriptions
    <3> HIDE DEF F
    <3>2. F[id].params = rows[id].params
      BY <2>1, <3>1 DEF Record
    <3>3. QED
      BY <2>1, <3>1, <3>2 DEF SameForClass, SupportsTools, Record
  <2>3. CASE id \notin Exposed(lane, rows) \cap known
    BY <2>3 DEF FillDescriptions, SameForClass
  <2>4. QED
    BY <2>2, <2>3
<1>3. Exposed(lane, F) = Exposed(lane, rows)
  <2> HIDE DEF F
  <2> QED
    BY <1>1, <1>2, SameExposure
<1>4. ASSUME NEW id \in DOMAIN rows, id \in Exposed(lane, rows) \cap known
      PROVE  F[id].description # {}
  <2>1. rows[id] \in Record
    BY DEF IsRows
  <2>2. F[id].description = Filled(rows[id].description, {"autofill"})
    BY <1>4, <2>1 DEF FillDescriptions, Record
  <2>3. QED
    BY <2>2 DEF Filled
<1> HIDE DEF F
<1>5. Undescribed(lane, F) \cap known = {}
  BY <1>1, <1>3, <1>4 DEF Undescribed
<1>6. QED
  BY <1>5 DEF F

-----------------------------------------------------------------------------
(* The state machine.                                                      *)

LEMMA InstallTypes ==
  ASSUME TypeOK, NEW r \in Slots, NEW rows, IsRows(rows), Install(r, rows)
  PROVE  /\ models' = [lane \in Lanes |-> models'[lane]]
         /\ \A lane \in Lanes : IsRows(models'[lane])
         /\ pc' \in [Slots -> RefreshPc]
         /\ job' = [q \in Slots |-> job'[q]]
         /\ \A q \in Slots : IsRows(job'[q])
<1>1. LaneOf[r] \in Lanes
  BY ModeAssumption
<1>2. DOMAIN models = Lanes /\ DOMAIN job = Slots
  BY DEF TypeOK
<1>3. IsRows(NoRows)
  BY DEF IsRows, NoRows
<1>4. models' = [lane \in Lanes |-> IF lane = LaneOf[r] THEN rows ELSE models[lane]]
  BY <1>1, <1>2 DEF Install
<1>5. job' = [q \in Slots |-> IF q = r THEN NoRows ELSE job[q]]
  BY <1>2 DEF Install
<1>6. pc' \in [Slots -> RefreshPc]
  BY DEF Install, TypeOK, RefreshPc
<1>7. \A lane \in Lanes : IsRows(models'[lane])
  BY <1>4 DEF TypeOK
<1>8. \A q \in Slots : IsRows(job'[q])
  BY <1>3, <1>5 DEF TypeOK
<1>9. QED
  BY <1>4, <1>5, <1>6, <1>7, <1>8

LEMMA FillingTypes ==
  ASSUME TypeOK, NEW lane \in Lanes
  PROVE  IsRows(Filling(lane))
BY FillIsRows DEF Filling, TypeOK

\* The variables keep their types, in particular the timer of the fills its
\* bound.
THEOREM TypeCorrect == Spec => []TypeOK
<1>1. Init => TypeOK
  <2> SUFFICES ASSUME Init PROVE TypeOK
    OBVIOUS
  <2>1. IsRows(NoRows) /\ IsCapabilities(NoRows)
    BY DEF IsRows, IsCapabilities, NoRows
  <2>2. timer \in 0..MaxRetries \cup {Off}
    BY ModeAssumption DEF Init
  <2>3. /\ models = [lane \in Lanes |-> models[lane]]
        /\ job = [r \in Slots |-> job[r]]
    BY DEF Init
  <2>4. QED
    BY <2>1, <2>2, <2>3 DEF Init, TypeOK, RefreshPc
<1>2. TypeOK /\ [Next]_vars => TypeOK'
  <2> SUFFICES ASSUME TypeOK, [Next]_vars PROVE TypeOK'
    OBVIOUS
  <2>1. ASSUME NEW r \in Slots, Begin(r) PROVE TypeOK'
    BY <2>1 DEF Begin, TypeOK, RefreshPc
  <2>2. ASSUME NEW r \in Slots, ListingArrives(r) PROVE TypeOK'
    <3>1. LaneOf[r] \in Lanes
      BY ModeAssumption
    <3>2. PICK rows \in ListedRows[LaneOf[r]] :
            \/ Install(r, rows)
            \/ Install(r, Enrich(rows, memo))
            \/ /\ pc' = [pc EXCEPT ![r] = "documenting"]
               /\ job' = [job EXCEPT ![r] = rows]
               /\ UNCHANGED models
      BY <2>2, Zenon DEF ListingArrives
    <3>3. IsRows(rows)
      BY <3>1, <3>2, ModeAssumption DEF ListedRows
    <3>4. IsRows(Enrich(rows, memo))
      BY <3>3, EnrichIsRows DEF TypeOK
    <3>5. /\ models' = [lane \in Lanes |-> models'[lane]]
          /\ \A lane \in Lanes : IsRows(models'[lane])
          /\ pc' \in [Slots -> RefreshPc]
          /\ job' = [q \in Slots |-> job'[q]]
          /\ \A q \in Slots : IsRows(job'[q])
      <4>1. CASE Install(r, rows)
        BY <3>3, <4>1, InstallTypes
      <4>2. CASE Install(r, Enrich(rows, memo))
        BY <3>4, <4>2, InstallTypes
      <4>3. CASE /\ pc' = [pc EXCEPT ![r] = "documenting"]
                 /\ job' = [job EXCEPT ![r] = rows]
                 /\ UNCHANGED models
        <5>1. job' = [q \in Slots |-> IF q = r THEN rows ELSE job[q]]
          BY <4>3 DEF TypeOK
        <5>2. QED
          BY <3>3, <4>3, <5>1 DEF TypeOK, RefreshPc
      <4>4. QED
        BY <3>2, <4>1, <4>2, <4>3
    <3>6. UNCHANGED <<memo, fresh, meta, timer, loaded, current>>
      BY <2>2 DEF ListingArrives
    <3>7. QED
      BY <3>5, <3>6 DEF TypeOK
  <2>3. ASSUME NEW r \in Slots, DocumentArrives(r) PROVE TypeOK'
    <3>1. IsCapabilities(memo')
      BY <2>3, ModeAssumption DEF DocumentArrives, ParsedDocuments
    <3>2. IsRows(Enrich(job[r], memo'))
      BY <3>1, EnrichIsRows DEF TypeOK
    <3>3. /\ models' = [lane \in Lanes |-> models'[lane]]
          /\ \A lane \in Lanes : IsRows(models'[lane])
          /\ pc' \in [Slots -> RefreshPc]
          /\ job' = [q \in Slots |-> job'[q]]
          /\ \A q \in Slots : IsRows(job'[q])
      BY <2>3, <3>2, InstallTypes DEF DocumentArrives
    <3>4. fresh' \in BOOLEAN /\ UNCHANGED <<meta, timer, loaded, current>>
      BY <2>3 DEF DocumentArrives
    <3>5. QED
      BY <3>1, <3>3, <3>4 DEF TypeOK
  <2>4. ASSUME NEW r \in Slots, DocumentFails(r) PROVE TypeOK'
    <3>1. IsRows(Enrich(job[r], memo))
      BY EnrichIsRows DEF TypeOK
    <3>2. /\ models' = [lane \in Lanes |-> models'[lane]]
          /\ \A lane \in Lanes : IsRows(models'[lane])
          /\ pc' \in [Slots -> RefreshPc]
          /\ job' = [q \in Slots |-> job'[q]]
          /\ \A q \in Slots : IsRows(job'[q])
      BY <2>4, <3>1, InstallTypes DEF DocumentFails
    <3>3. UNCHANGED <<memo, fresh, meta, timer, loaded, current>>
      BY <2>4 DEF DocumentFails
    <3>4. QED
      BY <3>2, <3>3 DEF TypeOK
  <2>5. ASSUME NEW r \in Slots, ListingFails(r) PROVE TypeOK'
    BY <2>5 DEF ListingFails, TypeOK, RefreshPc
  <2>6. ASSUME NEW r \in Slots, CacheRead(r) PROVE TypeOK'
    <3>1. UNCHANGED <<memo, fresh, meta, timer, loaded, current>>
      BY <2>6 DEF CacheRead
    <3>2. ASSUME NEW rows \in Cached[LaneOf[r]], Install(r, rows) PROVE TypeOK'
      <4>1. IsRows(rows)
        BY ModeAssumption
      <4>2. QED
        BY <3>1, <3>2, <4>1, InstallTypes DEF TypeOK
    <3>3. CASE pc' = [pc EXCEPT ![r] = "settled"] /\ UNCHANGED <<models, job>>
      BY <3>1, <3>3 DEF TypeOK, RefreshPc
    <3>4. QED
      BY <2>6, <3>2, <3>3 DEF CacheRead
  <2>7. ASSUME NEW r \in Slots, Return(r) PROVE TypeOK'
    <3>1. LaneOf[r] \in Lanes
      BY ModeAssumption
    <3>2. IsRows(Filling(LaneOf[r]))
      BY <3>1, FillingTypes
    <3>3. models' = [lane \in Lanes |->
                       IF lane = LaneOf[r] THEN Filling(LaneOf[r]) ELSE models[lane]]
      BY <2>7 DEF Return, TypeOK
    <3>4. \A lane \in Lanes : IsRows(models'[lane])
      BY <3>2, <3>3 DEF TypeOK
    <3>5. current' \in [Lanes -> BOOLEAN]
      BY <2>7, Zenon DEF Return, TypeOK
    <3>6. QED
      BY <2>7, <3>3, <3>4, <3>5 DEF Return, TypeOK, RefreshPc
  <2>8. CASE MemoAges
    BY <2>8 DEF MemoAges, TypeOK
  <2>9. CASE MetaLoads
    BY <2>9 DEF MetaLoads, fetchVars, ReadModelMeta, TypeOK
  <2>10. CASE RetryFill
    <3>1. timer' \in 0..MaxRetries \cup {Off}
      BY <2>10, ModeAssumption DEF RetryFill, TypeOK, Off
    <3>2. \/ models' = models
          \/ models' = [lane \in Lanes |-> Filling(lane)]
      BY <2>10 DEF RetryFill
    <3>3. models' = [lane \in Lanes |-> models'[lane]]
      BY <3>2 DEF TypeOK
    <3>4. \A lane \in Lanes : IsRows(models'[lane])
      BY <3>2, FillingTypes DEF TypeOK
    <3>5. UNCHANGED <<fetchVars, meta, loaded, current>>
      BY <2>10 DEF RetryFill
    <3>6. QED
      BY <3>1, <3>3, <3>4, <3>5 DEF TypeOK, fetchVars
  <2>11. CASE Unload
    BY <2>11 DEF Unload, fetchVars, TypeOK, Off
  <2>12. CASE UNCHANGED vars
    BY <2>12 DEF vars, fetchVars, TypeOK
  <2>13. QED
    BY <2>1, <2>2, <2>3, <2>4, <2>5, <2>6, <2>7, <2>8, <2>9, <2>10, <2>11, <2>12
       DEF Next, Progress
<1>3. QED
  BY <1>1, <1>2, PTL DEF Spec

-----------------------------------------------------------------------------
(* Descriptions.                                                           *)

\* The strengthening: a refresh that returned after modelMeta was loaded proves
\* that it is.
CurrentIsLoaded == \A lane \in Lanes : current[lane] => meta = "loaded"

IInv == TypeOK /\ CurrentIsLoaded /\ DescribedAtRest

LEMMA FillingDescribes ==
  ASSUME TypeOK, meta = "loaded", NEW lane \in Lanes
  PROVE  Undescribed(lane, Filling(lane)) \cap Known = {}
BY FillDescribes DEF Filling, TypeOK

\* A step that leaves a slot of the lane settled owes nothing for that lane.
LEMMA InstallOwes ==
  ASSUME IInv, NEW r \in Slots, pc' = [pc EXCEPT ![r] = "settled"],
         \A lane \in Lanes : lane # LaneOf[r] => models'[lane] = models[lane],
         UNCHANGED <<meta, current>>, pc[r] # "settled"
  PROVE  CurrentIsLoaded' /\ DescribedAtRest'
<1>1. CurrentIsLoaded'
  BY DEF IInv, CurrentIsLoaded
<1>2. ASSUME NEW lane \in Lanes, current'[lane], Resting(lane)'
      PROVE  Remaining(lane)' \cap Known = {}
  <2>1. pc'[r] = "settled"
    BY DEF IInv, TypeOK
  <2>2. LaneOf[r] # lane
    BY <1>2, <2>1 DEF Resting
  <2>3. Resting(lane)
    BY <1>2, <2>2 DEF Resting, IInv, TypeOK
  <2>4. current[lane] /\ models'[lane] = models[lane]
    BY <1>2, <2>2
  <2>5. QED
    BY <2>3, <2>4 DEF IInv, DescribedAtRest, Remaining
<1>3. QED
  BY <1>1, <1>2 DEF DescribedAtRest

\* However refreshes overlap and whichever timer fires, no exposed row that the
\* service knows is left undescribed once the callbacks have run.
THEOREM DescriptionsAreKept == Spec => []DescribedAtRest
<1>1. Init => CurrentIsLoaded /\ DescribedAtRest
  BY DEF Init, CurrentIsLoaded, DescribedAtRest
<1>2. IInv /\ [Next]_vars => CurrentIsLoaded' /\ DescribedAtRest'
  <2> SUFFICES ASSUME IInv, [Next]_vars PROVE CurrentIsLoaded' /\ DescribedAtRest'
    OBVIOUS
  <2>1. \A r \in Slots : LaneOf[r] \in Lanes
    BY ModeAssumption
  <2>2. DOMAIN models = Lanes /\ DOMAIN pc = Slots /\ DOMAIN current = Lanes
    BY DEF IInv, TypeOK
  \* Slots move without entering or leaving "settled", and rows stay.
  <2>3. ASSUME UNCHANGED <<models, meta, current>>,
               \A q \in Slots : pc[q] = "settled" => pc'[q] = "settled"
        PROVE  CurrentIsLoaded' /\ DescribedAtRest'
    <3>1. \A lane \in Lanes : Resting(lane)' => Resting(lane)
      BY <2>3 DEF Resting
    <3>2. QED
      BY <2>3, <3>1 DEF IInv, CurrentIsLoaded, DescribedAtRest, Remaining
  <2>4. ASSUME NEW r \in Slots, Begin(r) PROVE CurrentIsLoaded' /\ DescribedAtRest'
    <3>1. \A q \in Slots : pc[q] = "settled" => pc'[q] = "settled"
      BY <2>2, <2>4 DEF Begin
    <3>2. QED
      BY <2>3, <2>4, <3>1 DEF Begin
  <2>5. ASSUME NEW r \in Slots, NEW rows, Install(r, rows), pc[r] # "settled",
               UNCHANGED <<meta, current>>
        PROVE  CurrentIsLoaded' /\ DescribedAtRest'
    <3>1. \A lane \in Lanes : lane # LaneOf[r] => models'[lane] = models[lane]
      BY <2>2, <2>5 DEF Install
    <3>2. QED
      BY <2>5, <3>1, InstallOwes DEF Install
  <2>6. ASSUME NEW r \in Slots, ListingArrives(r)
        PROVE  CurrentIsLoaded' /\ DescribedAtRest'
    <3>1. pc[r] = "listing" /\ UNCHANGED <<meta, current>>
      BY <2>6 DEF ListingArrives
    <3>2. \/ \E rows : Install(r, rows)
          \/ pc' = [pc EXCEPT ![r] = "documenting"] /\ UNCHANGED models
      BY <2>6, Zenon DEF ListingArrives
    <3>3. CASE pc' = [pc EXCEPT ![r] = "documenting"] /\ UNCHANGED models
      <4>1. \A q \in Slots : pc[q] = "settled" => pc'[q] = "settled"
        BY <2>2, <3>1, <3>3
      <4>2. QED
        BY <2>3, <3>1, <3>3, <4>1
    <3>4. QED
      BY <2>5, <3>1, <3>2, <3>3
  <2>7. ASSUME NEW r \in Slots, DocumentArrives(r)
        PROVE  CurrentIsLoaded' /\ DescribedAtRest'
    BY <2>5, <2>7 DEF DocumentArrives
  <2>8. ASSUME NEW r \in Slots, DocumentFails(r)
        PROVE  CurrentIsLoaded' /\ DescribedAtRest'
    BY <2>5, <2>8 DEF DocumentFails
  <2>9. ASSUME NEW r \in Slots, ListingFails(r)
        PROVE  CurrentIsLoaded' /\ DescribedAtRest'
    <3>1. \A q \in Slots : pc[q] = "settled" => pc'[q] = "settled"
      BY <2>2, <2>9 DEF ListingFails
    <3>2. QED
      BY <2>3, <2>9, <3>1 DEF ListingFails
  <2>10. ASSUME NEW r \in Slots, CacheRead(r)
         PROVE  CurrentIsLoaded' /\ DescribedAtRest'
    <3>1. pc[r] = "loading" /\ UNCHANGED <<meta, current>>
      BY <2>10 DEF CacheRead
    <3>2. \/ \E rows : Install(r, rows)
          \/ pc' = [pc EXCEPT ![r] = "settled"] /\ UNCHANGED models
      BY <2>10 DEF CacheRead
    <3>3. CASE pc' = [pc EXCEPT ![r] = "settled"] /\ UNCHANGED models
      BY <3>1, <3>3, InstallOwes
    <3>4. QED
      BY <2>5, <3>1, <3>2, <3>3
  <2>11. ASSUME NEW r \in Slots, Return(r)
         PROVE  CurrentIsLoaded' /\ DescribedAtRest'
    <3>1. LaneOf[r] \in Lanes
      BY <2>1
    <3>2. meta' = meta /\ current' = [current EXCEPT ![LaneOf[r]] = (meta = "loaded")]
      BY <2>11 DEF Return
    <3>3. CurrentIsLoaded'
      BY <2>2, <3>1, <3>2, Zenon DEF IInv, CurrentIsLoaded
    <3>4. models'[LaneOf[r]] = Filling(LaneOf[r])
      BY <2>2, <2>11, <3>1 DEF Return
    <3>5. ASSUME NEW lane \in Lanes, current'[lane], Resting(lane)'
          PROVE  Remaining(lane)' \cap Known = {}
      <4>1. CASE lane = LaneOf[r]
        <5>1. meta = "loaded"
          BY <3>2, <3>3, <3>5 DEF CurrentIsLoaded
        <5>2. QED
          BY <3>4, <4>1, <5>1, FillingDescribes DEF IInv, Remaining
      <4>2. CASE lane # LaneOf[r]
        <5>1. current[lane] /\ models'[lane] = models[lane]
          BY <2>2, <2>11, <3>5, <4>2 DEF Return
        <5>2. Resting(lane)
          BY <2>2, <2>11, <3>5, <4>2 DEF Return, Resting
        <5>3. QED
          BY <5>1, <5>2 DEF IInv, DescribedAtRest, Remaining
      <4>3. QED
        BY <4>1, <4>2
    <3>6. QED
      BY <3>3, <3>5 DEF DescribedAtRest
  <2>12. CASE MemoAges
    BY <2>3, <2>12 DEF MemoAges
  <2>13. CASE MetaLoads
    <3>1. \A lane \in Lanes : ~current[lane]
      BY <2>13 DEF MetaLoads, IInv, CurrentIsLoaded
    <3>2. current' = current
      BY <2>13 DEF MetaLoads
    <3>3. QED
      BY <3>1, <3>2, Zenon DEF CurrentIsLoaded, DescribedAtRest
  <2>14. CASE RetryFill
    <3>1. UNCHANGED <<pc, meta, current>>
      BY <2>14 DEF RetryFill, fetchVars
    <3>2. CASE models' = models
      BY <2>3, <3>1, <3>2
    <3>3. CASE models' = [lane \in Lanes |-> Filling(lane)]
      <4>1. CurrentIsLoaded'
        BY <3>1 DEF IInv, CurrentIsLoaded
      <4>2. ASSUME NEW lane \in Lanes, current'[lane]
            PROVE  Remaining(lane)' \cap Known = {}
        <5>1. meta = "loaded"
          BY <3>1, <4>1, <4>2 DEF CurrentIsLoaded
        <5>2. QED
          BY <3>3, <5>1, FillingDescribes DEF IInv, Remaining
      <4>3. QED
        BY <4>1, <4>2 DEF DescribedAtRest
    <3>4. QED
      BY <2>14, <3>2, <3>3 DEF RetryFill
  <2>15. CASE Unload
    BY <2>3, <2>15 DEF Unload, fetchVars
  <2>16. CASE UNCHANGED vars
    BY <2>3, <2>16 DEF vars, fetchVars
  <2>17. QED
    BY <2>4, <2>6, <2>7, <2>8, <2>9, <2>10, <2>11, <2>12, <2>13, <2>14, <2>15, <2>16
       DEF Next, Progress
<1>3. Spec => [](CurrentIsLoaded /\ DescribedAtRest)
  BY <1>1, <1>2, TypeCorrect, PTL DEF Spec, IInv
<1>4. QED
  BY <1>3, PTL

-----------------------------------------------------------------------------
(* What a live listing becomes.                                            *)

LEMMA LiveInstallIsEnriched ==
  ASSUME TypeOK, TypeOK', [Next]_vars, NEW r \in Slots, LiveInstall(r)
  PROVE  \E rows \in Listed(r) :
           /\ IsRows(rows)
           /\ models'[LaneOf[r]] = rows \/ models'[LaneOf[r]] = Enrich(rows, memo')
           /\ LaneOf[r] = "zen" => models'[LaneOf[r]] = Enrich(rows, memo')
<1>1. LaneOf[r] \in Lanes /\ "zen" # "kilo"
  BY ModeAssumption
<1>2. DOMAIN models = Lanes /\ DOMAIN pc = Slots
  BY DEF TypeOK
<1>3. pc[r] # "settled" /\ pc'[r] = "settled"
  BY DEF LiveInstall
\* Only r itself leaves its place.
<1>4. \/ ListingArrives(r) \/ DocumentArrives(r) \/ DocumentFails(r)
  <2>1. PICK q \in Slots : Begin(q) \/ Progress(q)
    BY <1>3 DEF Next, MemoAges, MetaLoads, RetryFill, Unload, vars, fetchVars
  <2>2. \E p : pc' = [pc EXCEPT ![q] = p]
    BY <2>1, Zenon DEF Begin, Progress, ListingArrives, ListingFails, DocumentArrives,
       DocumentFails, CacheRead, Return, Install
  <2>3. q = r
    BY <1>2, <1>3, <2>2
  <2>4. ~Begin(r) /\ ~Return(r) /\ ~CacheRead(r)
    BY <1>2, <1>3 DEF Begin, Return, CacheRead, LiveInstall
  <2>5. ~ListingFails(r)
    BY DEF ListingFails, LiveInstall
  <2>6. QED
    BY <2>1, <2>3, <2>4, <2>5 DEF Progress
<1>5. ASSUME NEW rows, Install(r, rows) PROVE models'[LaneOf[r]] = rows
  BY <1>1, <1>2, <1>5 DEF Install
<1>6. CASE ListingArrives(r)
  <2>1. PICK rows \in ListedRows[LaneOf[r]] :
          \/ LaneOf[r] = "kilo" /\ Install(r, rows)
          \/ Install(r, Enrich(rows, memo))
          \/ pc' = [pc EXCEPT ![r] = "documenting"]
    BY <1>6, Zenon DEF ListingArrives
  <2>2. pc' # [pc EXCEPT ![r] = "documenting"]
    BY <1>2, <1>3
  <2>3. rows \in Listed(r)
    BY <1>6, <2>1 DEF ListingArrives, Listed
  <2>4. IsRows(rows)
    BY <1>1, <2>1, ModeAssumption DEF ListedRows
  <2>5. memo' = memo
    BY <1>6 DEF ListingArrives
  <2>6. QED
    BY <1>1, <1>5, <2>1, <2>2, <2>3, <2>4, <2>5
<1>7. CASE DocumentArrives(r)
  BY <1>5, <1>7 DEF DocumentArrives, Listed, TypeOK
<1>8. CASE DocumentFails(r)
  BY <1>5, <1>8 DEF DocumentFails, Listed, TypeOK
<1>9. QED
  BY <1>4, <1>6, <1>7, <1>8

\* A live listing, completed or not, exposes what it lists, with every field that
\* it gave and within every limit that it declared.
THEOREM ListingsAreKept == Spec => EnrichmentIsAdditive
<1>1. ASSUME TypeOK, TypeOK', [Next]_vars, NEW r \in Slots, LiveInstall(r)
      PROVE  \E rows \in Listed(r) : Additive(LaneOf[r], rows, models'[LaneOf[r]])
  <2>1. PICK rows \in Listed(r) :
          /\ IsRows(rows)
          /\ models'[LaneOf[r]] = rows \/ models'[LaneOf[r]] = Enrich(rows, memo')
    BY <1>1, LiveInstallIsEnriched
  <2>2. LaneOf[r] \in Lanes
    BY ModeAssumption
  <2>3. Additive(LaneOf[r], rows, rows) /\ Additive(LaneOf[r], rows, Enrich(rows, memo'))
    BY <1>1, <2>1, <2>2, ItselfAdds, EnrichAdds DEF TypeOK
  <2>4. QED
    BY <2>1, <2>3
<1>2. TypeOK /\ TypeOK' /\ [Next]_vars =>
        [\A r \in Slots : LiveInstall(r) =>
           \E rows \in Listed(r) : Additive(LaneOf[r], rows, models'[LaneOf[r]])]_vars
  BY <1>1
<1>3. QED
  BY <1>2, TypeCorrect, PTL DEF Spec, EnrichmentIsAdditive

\* A window that the memo holds is used by every Zen listing installed.
THEOREM WindowsAreUsed == Spec => KnownWindowIsUsed
<1>1. ASSUME TypeOK, TypeOK', [Next]_vars, NEW r \in Slots, LiveInstall(r), LaneOf[r] = "zen",
             NEW id \in DOMAIN models'["zen"] \cap DOMAIN memo', memo'[id].context # {}
      PROVE  models'["zen"][id].context # {}
  <2>1. PICK rows \in Listed(r) : IsRows(rows) /\ models'["zen"] = Enrich(rows, memo')
    BY <1>1, LiveInstallIsEnriched
  <2>2. id \in DOMAIN rows
    BY <2>1 DEF Enrich
  <2>3. rows[id] \in Record /\ memo'[id] \in Capability
    BY <1>1, <2>1, <2>2 DEF IsRows, IsCapabilities, TypeOK
  <2>4. models'["zen"][id] = EnrichRecord(rows[id], memo'[id])
    BY <2>1, <2>2 DEF Enrich
  <2>5. models'["zen"][id].context = Filled(rows[id].context, memo'[id].context)
    BY <2>3, <2>4, EnrichRecordFields
  <2>6. QED
    BY <1>1, <2>5 DEF Filled
<1>2. TypeOK /\ TypeOK' /\ [Next]_vars =>
        [\A r \in Slots : LiveInstall(r) /\ LaneOf[r] = "zen" =>
           \A id \in DOMAIN models'["zen"] \cap DOMAIN memo' :
             memo'[id].context # {} => models'["zen"][id].context # {}]_vars
  BY <1>1
<1>3. QED
  BY <1>2, TypeCorrect, PTL DEF Spec, KnownWindowIsUsed


-----------------------------------------------------------------------------
(* Why UnloadQuiesces.                                                     *)

RefreshSteps == [idle |-> 0, settled |-> 1, loading |-> 2, documenting |-> 3,
                 listing |-> 4]

\* How many timers are to come at most.
TimersLeft == IF timer = Off THEN 0 ELSE MaxRetries + 1 - timer

\* Nothing begins, refreshes and the chain of fill timers only run down, and a
\* step that moves neither is the service that loads or the memo that ages.
WindsDown ==
  /\ ~loaded'
  /\ \A r \in Slots : RefreshSteps[pc'[r]] <= RefreshSteps[pc[r]]
  /\ TimersLeft' <= TimersLeft
  /\ \/ \E r \in Slots : RefreshSteps[pc'[r]] < RefreshSteps[pc[r]]
     \/ TimersLeft' < TimersLeft
     \/ meta = "loading" /\ meta' = "loaded"
     \/ fresh /\ ~fresh'

LEMMA ProgressMovesOn ==
  ASSUME TypeOK, NEW r \in Slots, Progress(r)
  PROVE  /\ UNCHANGED <<timer, loaded>>
         /\ \A q \in Slots \ {r} : pc'[q] = pc[q]
         /\ pc'[r] \in RefreshPc
         /\ RefreshSteps[pc'[r]] < RefreshSteps[pc[r]]
<1> USE DEF RefreshSteps, TypeOK, Install, RefreshPc
<1>1. CASE ListingArrives(r) \/ ListingFails(r)
  BY <1>1 DEF ListingArrives, ListingFails
<1>2. CASE DocumentArrives(r) \/ DocumentFails(r)
  BY <1>2 DEF DocumentArrives, DocumentFails
<1>3. CASE CacheRead(r) \/ Return(r)
  BY <1>3 DEF CacheRead, Return
<1>4. QED
  BY <1>1, <1>2, <1>3 DEF Progress

\* After the unload there are only so many steps: each refresh in flight takes at
\* most four, and the chain of fill timers that the unload leaves alive ends
\* after MaxRetries (index.ts:226-246).  (That they are taken is the
\* fairness of UnloadQuiesces.)
THEOREM UnloadWindsDown == Spec => [][~loaded => WindsDown]_vars
<1>1. TypeOK /\ [Next]_vars => [~loaded => WindsDown]_vars
  <2> SUFFICES ASSUME TypeOK, Next, ~loaded PROVE WindsDown
    OBVIOUS
  <2> USE ModeAssumption
  <2>1. \A r \in Slots : RefreshSteps[pc[r]] \in Int
    BY DEF TypeOK, RefreshPc, RefreshSteps
  <2>2. TimersLeft \in Int
    BY DEF TypeOK, TimersLeft, Off
  <2>3. ASSUME NEW r \in Slots, Begin(r) \/ Progress(r) PROVE WindsDown
    <3>1. Progress(r)
      BY <2>3 DEF Begin
    <3>2. \A q \in Slots : q = r \/ pc'[q] = pc[q]
      BY <3>1, ProgressMovesOn
    <3>3. RefreshSteps[pc'[r]] < RefreshSteps[pc[r]] /\ RefreshSteps[pc'[r]] \in Int
      BY <3>1, ProgressMovesOn DEF RefreshSteps, RefreshPc
    <3>4. TimersLeft' = TimersLeft /\ ~loaded'
      BY <3>1, ProgressMovesOn DEF TimersLeft
    <3>5. QED
      BY <2>1, <2>2, <3>2, <3>3, <3>4 DEF WindsDown
  <2>4. CASE MemoAges \/ MetaLoads
    <3>1. UNCHANGED <<pc, timer, loaded>>
      BY <2>4 DEF MemoAges, MetaLoads, fetchVars
    <3>2. (fresh /\ ~fresh') \/ (meta = "loading" /\ meta' = "loaded")
      BY <2>4 DEF MemoAges, MetaLoads
    <3>3. TimersLeft' = TimersLeft
      BY <3>1 DEF TimersLeft
    <3>4. QED
      BY <2>1, <2>2, <3>1, <3>2, <3>3 DEF WindsDown
  <2>5. CASE RetryFill
    <3>1. UNCHANGED <<pc, loaded>>
      BY <2>5 DEF RetryFill, fetchVars
    <3>2. TimersLeft' < TimersLeft
      BY <2>5 DEF RetryFill, TypeOK, TimersLeft, Off
    <3>3. TimersLeft' <= TimersLeft
      BY <2>5 DEF RetryFill, TypeOK, TimersLeft, Off
    <3>4. QED
      BY <2>1, <3>1, <3>2, <3>3 DEF WindsDown
  <2>6. ~Unload
    BY DEF Unload
  <2>7. QED
    BY <2>3, <2>4, <2>5, <2>6 DEF Next
<1>2. QED
  BY <1>1, TypeCorrect, PTL DEF Spec

=============================================================================
