---------------------------- MODULE Conversation ----------------------------
(***************************************************************************)
(* One conversation of the harness with a model, turn by turn: the images  *)
(* of the history are read (messages.ts, resolveRequestImages), the history *)
(* becomes the messages of the request (toPiContext), the session id is    *)
(* taken from it (ids.ts), and the reply's events become the chunks        *)
(* (events.ts, toStreamChunks) from which the harness builds the assistant *)
(* message that later turns send back.                                     *)
(*                                                                         *)
(* What is abstracted.                                                     *)
(*  - Texts are values; the joining of the texts of a message is left out. *)
(*    The argument text of a call is the JSON of an object, empty, or any  *)
(*    other text.                                                          *)
(*  - Results within results, error flags, timestamps, usage and the model *)
(*    names of a replayed message are left out.                            *)
(* The harness is not in this repository: it appends messages, answers the *)
(* calls of a reply right after it, and may compact a prefix.              *)
(***************************************************************************)
EXTENDS Integers, Sequences

CONSTANTS
  Texts, NoText,   \* texts, and the empty one
  NoOutput,        \* "(no output)"
  Images,          \* attachment ids
  CallIds, NoId,   \* ids of tool calls, and the empty one
  Names, Unknown,  \* names of tools, and 'unknown'
  Objects,         \* argument objects
  EmptyObject,     \* {}
  Raws,            \* argument texts that are not the JSON of an object
  Replies,         \* the blocks a reply may have
  UserContents,    \* what a user may say: texts and images
  Outputs,         \* what a tool may give: texts and images
  OtherReplies,    \* what other adapters' models have said
  Notice,          \* what the harness says itself: a system message, or what
                   \* compaction leaves of a prefix
  MaxLength,       \* bound: messages in the history
  MaxBlocks        \* bound: blocks of a reply

JSON(object) == [json |-> object]
ArgumentTexts == Raws \cup {NoText} \cup {JSON(o) : o \in Objects}

TextBlock  == [type : {"text", "reasoning"}, text : Texts \cup {NoText}]
ImageBlock == [type : {"image"}, image : Images]
CallBlock  == [type : {"tool-call"}, id : CallIds, name : Names, arguments : ArgumentTexts]

\* A result, with the name of the tool that gave it (history: not in the code).
ResultBlock == [type : {"tool-result"}, id : CallIds, tool : Names,
                content : Seq(TextBlock \cup ImageBlock)]

\* Arguments of a call on the wire.
Wrapped   == [wrapped : Raws]
Arguments == Objects \cup Wrapped

PiBlock == [type : {"text", "thinking"}, text : Texts \cup {NoText}]
             \cup [type : {"toolCall"}, id : CallIds, name : Names, arguments : Arguments]

\* An assistant message, with what the model said (history; empty if another
\* adapter's model said it).
Message ==
  [role : {"system", "user"}, content : Seq(TextBlock \cup ImageBlock \cup ResultBlock)]
    \cup [role : {"assistant"}, content : Seq(TextBlock \cup ImageBlock \cup CallBlock),
          said : Seq(PiBlock)]

IsCall(block)   == block.type = "tool-call"
IsResult(block) == block.type = "tool-result"

Calls(content) == {k \in DOMAIN content : IsCall(content[k])}

\* Ids are the provider's: the calls of one reply differ in theirs, those of
\* two replies need not.
DistinctIds(content) ==
  \A k, l \in Calls(content) : content[k].id = content[l].id => k = l

ASSUME ConversationAssumption ==
  /\ NoText \notin Texts /\ NoId \notin CallIds /\ Unknown \notin Names
  /\ EmptyObject \in Objects
  /\ \A o \in Objects : JSON(o) # NoText /\ JSON(o) \notin Raws
  /\ Replies \subseteq {b \in PiBlock : b.type = "toolCall" => b.arguments \in Objects}
  /\ UserContents \subseteq Seq(TextBlock \cup ImageBlock)
  /\ Outputs \subseteq Seq(TextBlock \cup ImageBlock)
  /\ OtherReplies \subseteq Seq(TextBlock \cup ImageBlock \cup CallBlock)
  /\ \A content \in OtherReplies : DistinctIds(content)
  /\ Notice \in Seq(TextBlock)
  /\ MaxLength \in Nat /\ MaxBlocks \in Nat

-----------------------------------------------------------------------------
(* toPiContext(): what message i of a history h becomes.                   *)

\* An image without its bytes and an empty text are left out.
IsSent(block, images) ==
  \/ block.type = "text" /\ block.text # NoText
  \/ block.type = "image" /\ block.image \in images

\* The blocks at these places, in their order.
Picked(content, places) ==
  LET upTo[n \in 0..Len(content)] ==
        IF n = 0 THEN <<>>
        ELSE IF n \in places THEN Append(upTo[n - 1], content[n]) ELSE upTo[n - 1]
  IN  upTo[Len(content)]

UserBlocks(content, images) ==
  Picked(content, {k \in DOMAIN content : IsSent(content[k], images)})

\* (A bug to detect: the text of the arguments is passed on as it is.)
ParseNothing(raw) == [wrapped |-> raw]

\* parseArguments
ParseArguments(raw) ==
  IF raw = NoText THEN EmptyObject
  ELSE IF raw \in Raws THEN [wrapped |-> raw] ELSE raw.json

ToPiBlock(block) ==
  IF IsCall(block)
  THEN [type |-> "toolCall", id |-> block.id, name |-> block.name,
        arguments |-> ParseArguments(block.arguments)]
  ELSE [type |-> IF block.type = "reasoning" THEN "thinking" ELSE block.type, text |-> block.text]

\* The calls with this id that toolNames has seen before message i.
CallsBefore(h, i, id) ==
  UNION {{<<j, k>> : k \in {n \in Calls(h[j].content) : h[j].content[n].id = id}} :
           j \in {n \in 1..(i - 1) : h[n].role = "assistant"}}

Earlier(p, q) == p[1] < q[1] \/ (p[1] = q[1] /\ p[2] <= q[2])

\* One call at most.
Latest(calls) == {p \in calls : \A q \in calls : Earlier(q, p)}

NamesAt(h, places) == {h[p[1]].content[p[2]].name : p \in places}

NameFrom(h, calls) ==
  IF calls = {} THEN Unknown ELSE CHOOSE name \in NamesAt(h, Latest(calls)) : TRUE

\* (A bug to detect: toolNames is filled before the conversion.)
LastName(h, i, id) == NameFrom(h, CallsBefore(h, Len(h) + 1, id))

\* toolNames.get(id) ?? 'unknown': the latest of them has set it.
NameOf(h, i, id) == NameFrom(h, CallsBefore(h, i, id))

\* toolResultText: texts only.
ToolResultText(output) ==
  LET texts == UserBlocks(output, {}) IN
  IF texts = <<>> THEN <<[type |-> "text", text |-> NoOutput]>> ELSE texts

Results(content) == Picked(content, {k \in DOMAIN content : IsResult(content[k])})

ToolResults(h, i) ==
  LET results == Results(h[i].content) IN
  [n \in DOMAIN results |->
     [role |-> "toolResult", id |-> results[n].id, name |-> NameOf(h, i, results[n].id),
      content |-> ToolResultText(results[n].content)]]

\* (A bug to detect: text that comes with results is dropped.)
ResultsOnly(h, i, images) ==
  IF ToolResults(h, i) # <<>> THEN ToolResults(h, i)
  ELSE <<[role |-> "user", content |-> UserBlocks(h[i].content, images)]>>

\* What a user says beside results goes before them.
FromUser(h, i, images) ==
  LET blocks == UserBlocks(h[i].content, images) IN
  IF blocks # <<>> \/ ToolResults(h, i) = <<>>
  THEN <<[role |-> "user", content |-> blocks]>> \o ToolResults(h, i)
  ELSE ToolResults(h, i)

FromSystem(h, i) ==
  LET texts == UserBlocks(h[i].content, {}) IN
  IF texts = <<>> THEN <<>> ELSE <<[role |-> "user", content |-> texts]>>

FromAssistant(h, i) ==
  <<[role |-> "assistant",
     content |-> [k \in DOMAIN h[i].content |-> ToPiBlock(h[i].content[k])]]>>

ToPi(h, i, images) ==
  IF h[i].role = "system" THEN FromSystem(h, i)
  ELSE IF h[i].role = "assistant" THEN FromAssistant(h, i)
  ELSE FromUser(h, i, images)

\* An assistant message with an image cannot be replayed: toPiContext throws.
Throws(h) ==
  \E i \in DOMAIN h : /\ h[i].role = "assistant"
                      /\ \E k \in DOMAIN h[i].content : h[i].content[k].type = "image"

\* collectImageRefs: also within results, where no image is ever sent from.
ImagesIn(content) ==
  {content[k].image : k \in {n \in DOMAIN content : content[n].type = "image"}}

ImageRefs(content) ==
  ImagesIn(content)
    \cup UNION {ImagesIn(content[k].content) : k \in {n \in DOMAIN content : IsResult(content[n])}}

FirstUser(h) ==
  {i \in DOMAIN h : h[i].role = "user" /\ \A j \in 1..(i - 1) : h[j].role # "user"}

\* conversationSeed: what the first user message says, if there is one.
Seed(h) == {h[i].content : i \in FirstUser(h)}

-----------------------------------------------------------------------------

VARIABLES
  history,   \* options.messages
  pc,        \* where the turn is
  images,    \* the images whose bytes the last turn has read
  turn,      \* the reply so far: the blocks the provider has started
  toolIds,   \* per index of a call: the id it was started with
  chunk,     \* the last chunk of a block
  answer,    \* the blocks that block-end chunks have brought the harness
  sent       \* history: the history and the seed of the last request

replyVars == <<turn, toolIds, chunk, answer>>
vars == <<history, pc, images, replyVars, sent>>

NoChunk   == [type |-> "none"]
NoRequest == [history |-> <<>>, seed |-> {}]

ReplyBlock == TextBlock \cup CallBlock
Chunk ==
  {NoChunk} \cup [type : {"tool-call-delta"}, index : 1..MaxBlocks, id : CallIds \cup {NoId}]
            \cup [type : {"block-end"}, index : 1..MaxBlocks, block : ReplyBlock]

TypeOK ==
  /\ history \in Seq(Message)
  /\ pc \in {"idle", "resolving", "streaming"}
  /\ images \subseteq Images
  /\ turn \in Seq([block : Replies, open : BOOLEAN])
  /\ DOMAIN toolIds \subseteq 1..MaxBlocks
  /\ toolIds \in [DOMAIN toolIds -> CallIds \cup {NoId}]
  /\ chunk \in Chunk
  /\ DOMAIN answer \subseteq 1..MaxBlocks
  /\ answer \in [DOMAIN answer -> ReplyBlock]
  /\ sent.history \in Seq(Message)

Init ==
  /\ history = <<>>
  /\ pc = "idle"
  /\ images = {}
  /\ turn = <<>> /\ toolIds = <<>> /\ chunk = NoChunk /\ answer = <<>>
  /\ sent = NoRequest

-----------------------------------------------------------------------------
(* The harness.                                                            *)

Last == history[Len(history)]

Says(message) ==
  /\ pc = "idle"
  /\ Len(history) < MaxLength
  /\ history' = Append(history, message)
  /\ UNCHANGED <<pc, images, replyVars, sent>>

UserSays == \E content \in UserContents : Says([role |-> "user", content |-> content])

SystemSays == Says([role |-> "system", content |-> Notice])

\* An earlier turn, or another of this conversation, went to another adapter.
OtherReplied ==
  \E content \in OtherReplies :
    Says([role |-> "assistant", content |-> content, said |-> <<>>])

ResultOf(call, output) ==
  [type |-> "tool-result", id |-> call.id, tool |-> call.name, content |-> output]

Given(order, output) ==
  [j \in DOMAIN order |-> ResultOf(Last.content[order[j]], output[j])]

\* All calls of the reply are answered, as their tools finish, and the user may
\* add to the results.
ToolsAnswer ==
  /\ history # <<>> /\ Last.role = "assistant"
  /\ \E n \in DOMAIN Last.content, added \in UserContents \cup {<<>>} :
       \E order \in [1..n -> Calls(Last.content)], output \in [1..n -> Outputs] :
         /\ \A k \in Calls(Last.content) : \E j \in 1..n : order[j] = k
         /\ \A j, l \in 1..n : order[j] = order[l] => j = l
         /\ Says([role |-> "user", content |-> Given(order, output) \o added])

Compact(k) ==
  /\ pc = "idle"
  /\ k < Len(history)
  /\ history' = <<[role |-> "user", content |-> Notice]>> \o SubSeq(history, k + 1, Len(history))
  /\ sent' = NoRequest
  /\ UNCHANGED <<pc, images, replyVars>>

-----------------------------------------------------------------------------
(* A turn.                                                                 *)

\* stream() begins to read the images.
Begin ==
  /\ pc = "idle"
  /\ \E i \in DOMAIN history : history[i].role = "user"
  /\ Last.role = "user"
  /\ pc' = "resolving"
  /\ UNCHANGED <<history, images, replyVars, sent>>

\* Those that could be read are there: none if there is no attachment service.
Resolves(read) ==
  /\ pc = "resolving"
  /\ read \subseteq UNION {ImageRefs(history[i].content) : i \in DOMAIN history}

Dispatch(read) ==
  /\ Resolves(read)
  /\ ~Throws(history)
  /\ images' = read
  /\ sent' = [history |-> history, seed |-> Seed(history)]
  /\ pc' = "streaming"
  /\ UNCHANGED <<history, replyVars>>

Reject(read) ==
  /\ Resolves(read)
  /\ Throws(history)
  /\ pc' = "idle"
  /\ UNCHANGED <<history, images, replyVars, sent>>

\* text_start, thinking_start, toolcall_start; a call may lack its id as yet.
BlockStarts(block, named) ==
  /\ pc = "streaming"
  /\ Len(turn) < MaxBlocks
  /\ block.type = "toolCall" =>
       \A i \in DOMAIN turn : turn[i].block.type = "toolCall" => turn[i].block.id # block.id
  /\ turn' = Append(turn, [block |-> block, open |-> TRUE])
  /\ toolIds' =
       IF block.type = "toolCall"
       THEN [i \in DOMAIN toolIds \cup {Len(turn) + 1} |->
               IF i \in DOMAIN toolIds THEN toolIds[i] ELSE IF named THEN block.id ELSE NoId]
       ELSE toolIds
  /\ chunk' = NoChunk
  /\ UNCHANGED <<history, pc, images, answer, sent>>

\* (A bug to detect: a delta belongs to the call that was started last.)
DeltaOfLatest(i) ==
  /\ pc = "streaming"
  /\ i \in DOMAIN toolIds /\ turn[i].open
  /\ chunk' = [type |-> "tool-call-delta", index |-> i,
               id |-> toolIds[CHOOSE j \in DOMAIN toolIds : \A k \in DOMAIN toolIds : k <= j]]
  /\ UNCHANGED <<history, pc, images, turn, toolIds, answer, sent>>

\* toolcall_delta, of any call that is open.
Delta(i) ==
  /\ pc = "streaming"
  /\ i \in DOMAIN toolIds /\ turn[i].open
  /\ chunk' = [type |-> "tool-call-delta", index |-> i, id |-> toolIds[i]]
  /\ UNCHANGED <<history, pc, images, turn, toolIds, answer, sent>>

CallOf(block, id) ==
  [type |-> "tool-call", id |-> id, name |-> block.name, arguments |-> JSON(block.arguments)]

\* (A bug to detect: the call ends with the id it was started with.)
EndedAsStarted(i) == CallOf(turn[i].block, toolIds[i])

\* The call itself has its id and name by now.
EndedCall(i) == CallOf(turn[i].block, turn[i].block.id)

\* The block of a block-end chunk.
Ended(i) ==
  LET block == turn[i].block IN
  IF block.type = "toolCall" THEN EndedCall(i)
  ELSE [type |-> IF block.type = "thinking" THEN "reasoning" ELSE block.type, text |-> block.text]

\* text_end, thinking_end, toolcall_end
BlockEnds(i) ==
  /\ pc = "streaming"
  /\ i \in DOMAIN turn /\ turn[i].open
  /\ turn' = [turn EXCEPT ![i].open = FALSE]
  /\ chunk' = [type |-> "block-end", index |-> i, block |-> Ended(i)]
  /\ answer' = [j \in DOMAIN answer \cup {i} |-> IF j = i THEN Ended(i) ELSE answer[j]]
  /\ UNCHANGED <<history, pc, images, toolIds, sent>>

\* The generator and what it keeps are gone.
Ends ==
  /\ pc' = "idle"
  /\ images' = {}
  /\ turn' = <<>> /\ toolIds' = <<>> /\ chunk' = NoChunk /\ answer' = <<>>
  /\ UNCHANGED sent

\* 'done': the harness keeps the reply, unless it is empty (EMPTY_RESPONSE).
Done ==
  /\ pc = "streaming"
  /\ \A i \in DOMAIN turn : ~turn[i].open
  /\ history' =
       IF turn = <<>> THEN history
       ELSE Append(history, [role |-> "assistant", content |-> answer,
                             said |-> [i \in DOMAIN turn |-> turn[i].block]])
  /\ Ends

\* 'error', or the events end without either: nothing is kept.
Fails ==
  /\ pc = "streaming"
  /\ Ends
  /\ UNCHANGED history

Next ==
  \/ UserSays \/ SystemSays \/ OtherReplied \/ ToolsAnswer
  \/ \E k \in 1..MaxLength : Compact(k)
  \/ Begin \/ \E read \in SUBSET Images : Dispatch(read) \/ Reject(read)
  \/ \E block \in Replies, named \in BOOLEAN : BlockStarts(block, named)
  \/ \E i \in 1..MaxBlocks : Delta(i) \/ BlockEnds(i)
  \/ Done \/ Fails

Spec == Init /\ [][Next]_vars

-----------------------------------------------------------------------------

\* A result carries the name of the tool that gave it, although a later reply
\* may have reused the id of its call; only when a compaction has taken the
\* call away is it 'unknown' (messages.ts:189-214).
ResultNamesItsCall ==
  \A i \in DOMAIN history :
    \A k \in DOMAIN history[i].content :
      LET block == history[i].content[k] IN
      IsResult(block) =>
        NameOf(history, i, block.id) =
          IF history[i - 1].role = "assistant" THEN block.tool ELSE Unknown

\* What a model said is what it is sent back: the translation into chunks and
\* the conversion of the history undo each other, however the blocks of the
\* reply were interleaved (events.ts:130-196, messages.ts:93-135).
ReplayIsFaithful ==
  \A i \in DOMAIN history :
    history[i].role = "assistant" /\ history[i].said # <<>> =>
      ToPi(history, i, images) = <<[role |-> "assistant", content |-> history[i].said]>>

\* A later request of a conversation begins with the messages of the earlier
\* one, but for images that were readable only once, and goes to the same
\* session: the gateway's prompt cache keeps its use ("preserving affinity",
\* ids.ts:100).
RequestsOnlyGrow ==
  [][sent # NoRequest /\ sent' # sent /\ sent' # NoRequest =>
       /\ sent'.seed = sent.seed
       /\ \A i \in DOMAIN sent.history, kept \in SUBSET Images :
            ToPi(sent'.history, i, kept) = ToPi(sent.history, i, kept)]_vars

\* "A missing service or a failed read leaves that image out: the turn still
\* sends its text" (messages.ts:228-229), and every result, whatever else is in
\* the message.
TurnSendsItsText ==
  pc = "streaming" =>
    \A i \in DOMAIN history :
      \A k \in DOMAIN history[i].content :
        LET block    == history[i].content[k]
            messages == ToPi(history, i, images)
        IN  /\ IsSent(block, IF history[i].role = "user" THEN images ELSE {}) =>
                 \E m \in DOMAIN messages :
                   \E n \in DOMAIN messages[m].content : messages[m].content[n] = block
            /\ IsResult(block) =>
                 \E m \in DOMAIN messages :
                   messages[m].role = "toolResult" /\ messages[m].id = block.id

\* The deltas of a call carry its id, or none if the provider gave it late, and
\* never that of another call that is streamed beside it (events.ts:154-172).
DeltasKeepTheirCall ==
  chunk.type = "tool-call-delta" => chunk.id \in {turn[chunk.index].block.id, NoId}

=============================================================================
