------------------------- MODULE ConversationProofs -------------------------
(***************************************************************************)
(* Proofs about Conversation, for any texts, ids, replies, tools and       *)
(* length of the history.                                                  *)
(***************************************************************************)
EXTENDS Conversation, Recursion, SequenceTheorems, TLAPS

\* The reply that is being streamed: what ended is what was said, ids differ,
\* and a delta speaks of the call at its index.
ReplyInv ==
  /\ Len(turn) <= MaxBlocks
  /\ DOMAIN answer = {i \in DOMAIN turn : ~turn[i].open}
  /\ \A i \in DOMAIN answer : answer[i] = Ended(i)
  /\ \A i \in DOMAIN toolIds : /\ i \in DOMAIN turn
                               /\ turn[i].block.type = "toolCall"
                               /\ toolIds[i] \in {turn[i].block.id, NoId}
  /\ \A i, j \in DOMAIN turn :
       /\ turn[i].block.type = "toolCall" /\ turn[j].block.type = "toolCall"
       /\ turn[i].block.id = turn[j].block.id
       => i = j
  /\ chunk.type = "tool-call-delta" =>
       chunk.index \in DOMAIN toolIds /\ chunk.id = toolIds[chunk.index]

\* The call that a result answers is in the message before it, unless that
\* message is what compaction has left.
Answered(h, i, block) ==
  \/ /\ h[i - 1].role = "assistant"
     /\ \E k \in DOMAIN h[i - 1].content :
          /\ IsCall(h[i - 1].content[k])
          /\ h[i - 1].content[k].id = block.id
          /\ h[i - 1].content[k].name = block.tool
  \/ i = 2 /\ h[1].role # "assistant"

\* What holds of message i of a history.
MessageInv(h, i) ==
  /\ h[i].role = "assistant" =>
       /\ DistinctIds(h[i].content)
       /\ h[i].said # <<>> =>
            [k \in DOMAIN h[i].content |-> ToPiBlock(h[i].content[k])] = h[i].said
  /\ \A k \in DOMAIN h[i].content :
       IsResult(h[i].content[k]) =>
         h[i].role = "user" /\ i > 1 /\ Answered(h, i, h[i].content[k])

HistoryInv == \A i \in DOMAIN history : MessageInv(history, i)

\* The last request was made of a prefix of the history.
SentInv ==
  sent # NoRequest =>
    /\ Len(sent.history) <= Len(history)
    /\ \A i \in DOMAIN sent.history : sent.history[i] = history[i]
    /\ \E i \in DOMAIN sent.history : sent.history[i].role = "user"
    /\ sent.seed = Seed(sent.history)

\* A request is made of a history with a user in it, and of one that can be
\* replayed.
TurnInv ==
  /\ pc = "resolving" => \E i \in DOMAIN history : history[i].role = "user"
  /\ pc = "streaming" => ~Throws(history)

Inv == TypeOK /\ ReplyInv /\ HistoryInv /\ SentInv /\ TurnInv

-----------------------------------------------------------------------------
(* Blocks.                                                                 *)

LEMMA ParseUndoesJSON ==
  ASSUME NEW o \in Objects
  PROVE  ParseArguments(JSON(o)) = o
BY ConversationAssumption DEF ParseArguments, JSON

\* A block that has ended is replayed as the block it was.
LEMMA EndedFits ==
  ASSUME NEW i, turn[i].block \in Replies
  PROVE  /\ Ended(i) \in ReplyBlock
         /\ ToPiBlock(Ended(i)) = turn[i].block
         /\ ~IsResult(Ended(i))
         /\ IsCall(Ended(i)) =>
              turn[i].block.type = "toolCall" /\ Ended(i).id = turn[i].block.id
<1> DEFINE b == turn[i].block
<1>0. b \in PiBlock /\ (b.type = "toolCall" => b.arguments \in Objects)
  BY ConversationAssumption
<1>1. CASE b.type = "text"
  <2>1. b \in [type : {"text", "thinking"}, text : Texts \cup {NoText}]
    BY <1>0, <1>1 DEF PiBlock
  <2>2. Ended(i) = [type |-> "text", text |-> b.text]
    BY <1>1 DEF Ended
  <2>3. ToPiBlock(Ended(i)) = [type |-> "text", text |-> b.text]
    BY <2>2 DEF ToPiBlock, IsCall
  <2>4. b = [type |-> "text", text |-> b.text]
    BY <1>1, <2>1
  <2>5. Ended(i) \in TextBlock
    BY <2>1, <2>2 DEF TextBlock
  <2>6. QED
    BY <2>2, <2>3, <2>4, <2>5 DEF ReplyBlock, IsCall, IsResult
<1>2. CASE b.type = "thinking"
  <2>1. b \in [type : {"text", "thinking"}, text : Texts \cup {NoText}]
    BY <1>0, <1>2 DEF PiBlock
  <2>2. Ended(i) = [type |-> "reasoning", text |-> b.text]
    BY <1>2 DEF Ended
  <2>3. ToPiBlock(Ended(i)) = [type |-> "thinking", text |-> b.text]
    BY <2>2 DEF ToPiBlock, IsCall
  <2>4. b = [type |-> "thinking", text |-> b.text]
    BY <1>2, <2>1
  <2>5. Ended(i) \in TextBlock
    BY <2>1, <2>2 DEF TextBlock
  <2>6. QED
    BY <2>2, <2>3, <2>4, <2>5 DEF ReplyBlock, IsCall, IsResult
<1>3. CASE b.type = "toolCall"
  <2>1. b \in [type : {"toolCall"}, id : CallIds, name : Names, arguments : Arguments]
    BY <1>0, <1>3 DEF PiBlock
  <2>2. b.arguments \in Objects
    BY <1>0, <1>3
  <2>3. Ended(i) = [type |-> "tool-call", id |-> b.id, name |-> b.name,
                    arguments |-> JSON(b.arguments)]
    BY <1>3 DEF Ended, EndedCall, CallOf
  <2>4. ToPiBlock(Ended(i)) =
          [type |-> "toolCall", id |-> b.id, name |-> b.name, arguments |-> b.arguments]
    BY <2>2, <2>3, ParseUndoesJSON DEF ToPiBlock, IsCall
  <2>5. b = [type |-> "toolCall", id |-> b.id, name |-> b.name, arguments |-> b.arguments]
    BY <2>1
  <2>6. Ended(i) \in CallBlock
    BY <2>1, <2>2, <2>3 DEF CallBlock, ArgumentTexts
  <2>7. QED
    BY <1>3, <2>3, <2>4, <2>5, <2>6 DEF ReplyBlock, IsResult
<1>4. QED
  BY <1>0, <1>1, <1>2, <1>3 DEF PiBlock

-----------------------------------------------------------------------------
(* Calls and their names.                                                  *)

\* Where the calls before message i are.
LEMMA CallsAre ==
  ASSUME NEW h \in Seq(Message), NEW i \in Nat, i <= Len(h) + 1, NEW id,
         NEW p \in CallsBefore(h, i, id)
  PROVE  \E j \in 1..(i - 1), n \in Nat \ {0} :
           /\ p = <<j, n>> /\ p[1] = j /\ p[2] = n
           /\ h[j].role = "assistant"
           /\ n \in DOMAIN h[j].content
           /\ IsCall(h[j].content[n]) /\ h[j].content[n].id = id
           /\ n <= Len(h[j].content) /\ Len(h[j].content) \in Nat
<1>0. PICK j \in 1..(i - 1) :
        /\ h[j].role = "assistant"
        /\ \E n \in DOMAIN h[j].content :
             p = <<j, n>> /\ IsCall(h[j].content[n]) /\ h[j].content[n].id = id
  BY DEF CallsBefore, Calls
<1>1. PICK n \in DOMAIN h[j].content :
        /\ p = <<j, n>> /\ h[j].role = "assistant"
        /\ IsCall(h[j].content[n]) /\ h[j].content[n].id = id
  BY <1>0
<1>2. h[j] \in Message
  BY ElementOfSeq, LenProperties
<1>3. h[j].content \in Seq(TextBlock \cup ImageBlock \cup CallBlock)
  BY <1>1, <1>2 DEF Message
<1>4. n \in 1..Len(h[j].content) /\ Len(h[j].content) \in Nat
  BY <1>1, <1>3, LenProperties
<1>5. QED
  BY <1>1, <1>4

\* Of the calls with an id before message i, one in message i - 1 is the
\* latest, and the only one there.
LEMMA NameOfTheLatest ==
  ASSUME NEW h \in Seq(Message), NEW i \in DOMAIN h, i > 1,
         h[i - 1].role = "assistant", DistinctIds(h[i - 1].content),
         NEW k \in DOMAIN h[i - 1].content, IsCall(h[i - 1].content[k])
  PROVE  NameOf(h, i, h[i - 1].content[k].id) = h[i - 1].content[k].name
<1> DEFINE id    == h[i - 1].content[k].id
           calls == CallsBefore(h, i, id)
<1>0. i \in Nat /\ i - 1 \in 1..(i - 1) /\ i <= Len(h) + 1
  BY LenProperties
<1>1. <<i - 1, k>> \in calls
  BY <1>0 DEF CallsBefore, Calls
<1>2. k \in Nat
  <2>1. PICK j \in 1..(i - 1), n \in Nat \ {0} : <<i - 1, k>> = <<j, n>>
    BY <1>0, <1>1, CallsAre
  <2>2. QED
    BY <2>1
<1>3. ASSUME NEW q \in calls
      PROVE  \E m, n \in Nat : q = <<m, n>> /\ Earlier(<<m, n>>, <<i - 1, k>>)
  <2>1. PICK j \in 1..(i - 1), n \in Nat \ {0} :
          /\ q = <<j, n>> /\ n \in DOMAIN h[j].content
          /\ IsCall(h[j].content[n]) /\ h[j].content[n].id = id
    BY <1>0, <1>3, CallsAre
  <2>2. j = i - 1 => n = k
    BY <2>1 DEF DistinctIds, Calls
  <2>3. QED
    BY <1>0, <1>2, <2>1, <2>2 DEF Earlier
<1> HIDE DEF calls
<1>4. Latest(calls) = {<<i - 1, k>>}
  <2>1. <<i - 1, k>> \in Latest(calls)
    BY <1>1, <1>3 DEF Latest
  <2>2. ASSUME NEW q \in Latest(calls)
        PROVE  q = <<i - 1, k>>
    <3>1. q \in calls /\ Earlier(<<i - 1, k>>, q)
      BY <1>1 DEF Latest
    <3>2. PICK m \in Nat, n \in Nat : q = <<m, n>> /\ Earlier(<<m, n>>, <<i - 1, k>>)
      BY <1>3, <3>1
    <3>3. m = i - 1 /\ n = k
      BY <1>0, <1>2, <3>1, <3>2 DEF Earlier
    <3>4. QED
      BY <3>2, <3>3
  <2>3. QED
    BY <2>1, <2>2
<1>5. NameOf(h, i, id) = NameFrom(h, calls)
  BY DEF NameOf, calls
<1>6. NamesAt(h, Latest(calls)) = {h[i - 1].content[k].name}
  BY <1>4 DEF NamesAt
<1>7. QED
  BY <1>1, <1>5, <1>6 DEF NameFrom, id

LEMMA NoCallNoName ==
  ASSUME NEW h, h[1].role # "assistant", NEW id
  PROVE  NameOf(h, 2, id) = Unknown
<1>1. CallsBefore(h, 2, id) = {}
  BY DEF CallsBefore, Calls
<1>2. QED
  BY <1>1 DEF NameOf, NameFrom

\* The history inductive invariant says what the property asks.
LEMMA ResultsAreNamed ==
  ASSUME TypeOK, HistoryInv
  PROVE  ResultNamesItsCall
<1> SUFFICES ASSUME NEW i \in DOMAIN history, NEW k \in DOMAIN history[i].content,
                    IsResult(history[i].content[k])
             PROVE  NameOf(history, i, history[i].content[k].id) =
                      IF history[i - 1].role = "assistant"
                      THEN history[i].content[k].tool ELSE Unknown
  BY DEF ResultNamesItsCall
<1> DEFINE block == history[i].content[k]
<1>0. history \in Seq(Message) /\ i \in 1..Len(history)
  BY LenProperties DEF TypeOK
<1>1. i > 1 /\ Answered(history, i, block)
  BY DEF HistoryInv, MessageInv
<1>2. CASE history[i - 1].role = "assistant"
  <2>1. PICK l \in DOMAIN history[i - 1].content :
          /\ IsCall(history[i - 1].content[l])
          /\ history[i - 1].content[l].id = block.id
          /\ history[i - 1].content[l].name = block.tool
    BY <1>0, <1>1, <1>2 DEF Answered
  <2>2. i - 1 \in DOMAIN history
    BY <1>0, <1>1, LenProperties
  <2>3. DistinctIds(history[i - 1].content)
    BY <1>2, <2>2 DEF HistoryInv, MessageInv
  <2>4. QED
    BY <1>0, <1>1, <1>2, <2>1, <2>3, NameOfTheLatest
<1>3. CASE history[i - 1].role # "assistant"
  BY <1>1, <1>3, NoCallNoName DEF Answered
<1>4. QED
  BY <1>2, <1>3

-----------------------------------------------------------------------------
(* Steps of the history.                                                   *)

\* Message j of one history is message i of another that kept what was before it.
LEMMA MessageMoves ==
  ASSUME NEW g, NEW h, NEW i \in Nat, NEW j \in Nat,
         g[i] = h[j], MessageInv(h, j),
         j > 1 => /\ i > 1
                  /\ \/ g[i - 1] = h[j - 1] /\ (j = 2 => i = 2)
                     \/ i = 2 /\ g[1].role # "assistant"
  PROVE  MessageInv(g, i)
<1>1. ASSUME NEW k \in DOMAIN g[i].content, IsResult(g[i].content[k])
      PROVE  i > 1 /\ Answered(g, i, g[i].content[k])
  <2>1. j > 1 /\ Answered(h, j, g[i].content[k])
    BY <1>1 DEF MessageInv
  <2>2. QED
    BY <2>1 DEF Answered
<1>2. QED
  BY <1>1 DEF MessageInv

\* The reply is untouched.
LEMMA SameReply ==
  ASSUME ReplyInv, UNCHANGED replyVars
  PROVE  ReplyInv'
BY DEF ReplyInv, replyVars, Ended, EndedCall, CallOf

\* A message is added.
LEMMA HistoryGrows ==
  ASSUME TypeOK, HistoryInv, SentInv,
         NEW message \in Message, MessageInv(Append(history, message), Len(history) + 1),
         history' = Append(history, message), UNCHANGED sent
  PROVE  history' \in Seq(Message) /\ HistoryInv' /\ SentInv'
<1> DEFINE h == Append(history, message)
<1>0. /\ history \in Seq(Message) /\ Len(history) \in Nat
      /\ DOMAIN history = 1..Len(history)
  BY LenProperties DEF TypeOK
<1>1. /\ h \in Seq(Message)
      /\ DOMAIN h = 1..(Len(history) + 1) /\ Len(h) = Len(history) + 1
      /\ \A i \in 1..Len(history) : h[i] = history[i]
  BY <1>0
<1>2. ASSUME NEW i \in DOMAIN h
      PROVE  MessageInv(h, i)
  <2>1. CASE i = Len(history) + 1
    BY <2>1
  <2>2. CASE i \in 1..Len(history)
    <3>1. h[i] = history[i] /\ (i > 1 => h[i - 1] = history[i - 1])
      BY <1>0, <1>1, <2>2
    <3>2. MessageInv(history, i)
      BY <1>0, <2>2 DEF HistoryInv
    <3> HIDE DEF h
    <3>3. i \in Nat
      BY <2>2
    <3>4. QED
      BY <3>1, <3>2, <3>3, MessageMoves
  <2>3. QED
    BY <1>0, <1>1, <2>1, <2>2
<1>3. HistoryInv'
  BY <1>2 DEF HistoryInv
<1>4. ASSUME sent # NoRequest
      PROVE  /\ Len(sent.history) <= Len(h)
             /\ \A i \in DOMAIN sent.history : sent.history[i] = h[i]
  <2>1. /\ sent.history \in Seq(Message) /\ Len(sent.history) \in Nat
        /\ DOMAIN sent.history = 1..Len(sent.history)
    BY LenProperties DEF TypeOK
  <2>2. QED
    BY <1>0, <1>1, <1>4, <2>1 DEF SentInv
<1>5. SentInv'
  BY <1>4 DEF SentInv
<1>6. QED
  BY <1>1, <1>3, <1>5

\* The harness adds one.
LEMMA SaysKeeps ==
  ASSUME Inv, NEW message \in Message,
         MessageInv(Append(history, message), Len(history) + 1), Says(message)
  PROVE  Inv'
<1>1. history' \in Seq(Message) /\ HistoryInv' /\ SentInv'
  BY HistoryGrows DEF Inv, Says
<1>2. TypeOK'
  BY <1>1 DEF Inv, TypeOK, Says, replyVars
<1>3. ReplyInv'
  BY SameReply DEF Inv, Says
<1>4. TurnInv'
  BY DEF TurnInv, Says
<1>5. QED
  BY <1>1, <1>2, <1>3, <1>4 DEF Inv

\* A message of a user, or of the system, that gives no results.
LEMMA PlainMessage ==
  ASSUME NEW content \in Seq(TextBlock \cup ImageBlock), NEW role \in {"system", "user"},
         NEW h, NEW i, h[i] = [role |-> role, content |-> content]
  PROVE  /\ [role |-> role, content |-> content] \in Message
         /\ MessageInv(h, i)
<1>1. content \in Seq(TextBlock \cup ImageBlock \cup ResultBlock)
  BY SeqMonotonic
<1>2. ASSUME NEW k \in DOMAIN content
      PROVE  ~IsResult(content[k])
  <2>1. content[k] \in TextBlock \cup ImageBlock
    BY <1>2, LenProperties, ElementOfSeq
  <2>2. QED
    BY <2>1 DEF TextBlock, ImageBlock, IsResult
<1>3. QED
  BY <1>1, <1>2 DEF Message, MessageInv

LEMMA UserSaysKeeps ==
  ASSUME Inv, UserSays
  PROVE  Inv'
<1>1. PICK content \in UserContents : Says([role |-> "user", content |-> content])
  BY DEF UserSays
<1> DEFINE m == [role |-> "user", content |-> content]
           h == Append(history, m)
<1>2. content \in Seq(TextBlock \cup ImageBlock)
  BY ConversationAssumption
<1>3. h[Len(history) + 1] = m
  BY DEF Inv, TypeOK
<1>4. m \in Message /\ MessageInv(h, Len(history) + 1)
  <2> HIDE DEF h
  <2>1. QED
    BY <1>2, <1>3, PlainMessage
<1>5. QED
  BY <1>1, <1>4, SaysKeeps

LEMMA SystemSaysKeeps ==
  ASSUME Inv, SystemSays
  PROVE  Inv'
<1> DEFINE m == [role |-> "system", content |-> Notice]
           h == Append(history, m)
<1>1. Notice \in Seq(TextBlock \cup ImageBlock)
  BY ConversationAssumption, SeqMonotonic
<1>2. h[Len(history) + 1] = m
  BY DEF Inv, TypeOK
<1>3. m \in Message /\ MessageInv(h, Len(history) + 1)
  <2> HIDE DEF h
  <2>1. QED
    BY <1>1, <1>2, PlainMessage
<1>4. QED
  BY <1>3, SaysKeeps DEF SystemSays

\* Blocks of a reply are no results.
LEMMA ReplyHasNoResult ==
  ASSUME NEW content \in Seq(TextBlock \cup ImageBlock \cup CallBlock), NEW k \in DOMAIN content
  PROVE  ~IsResult(content[k])
<1>1. content[k] \in TextBlock \cup ImageBlock \cup CallBlock
  BY LenProperties, ElementOfSeq
<1>2. QED
  BY <1>1 DEF TextBlock, ImageBlock, CallBlock, IsResult

LEMMA OtherRepliedKeeps ==
  ASSUME Inv, OtherReplied
  PROVE  Inv'
<1>1. PICK content \in OtherReplies :
        Says([role |-> "assistant", content |-> content, said |-> <<>>])
  BY DEF OtherReplied
<1> DEFINE m == [role |-> "assistant", content |-> content, said |-> <<>>]
           h == Append(history, m)
<1>2. content \in Seq(TextBlock \cup ImageBlock \cup CallBlock) /\ DistinctIds(content)
  BY ConversationAssumption
<1>3. m \in Message
  BY <1>2, EmptySeq DEF Message
<1>4. h[Len(history) + 1] = m
  BY DEF Inv, TypeOK
<1>5. MessageInv(h, Len(history) + 1)
  <2> HIDE DEF h
  <2>1. QED
    BY <1>2, <1>4, ReplyHasNoResult DEF MessageInv
<1>6. QED
  BY <1>1, <1>3, <1>5, SaysKeeps

\* What the tools give answers calls of the message before it.
LEMMA ToolsAnswerKeeps ==
  ASSUME Inv, ToolsAnswer
  PROVE  Inv'
<1>0. /\ history \in Seq(Message) /\ Len(history) \in Nat \ {0}
      /\ Last \in Message /\ Last.role = "assistant"
      /\ history[Len(history)] = Last
  <2>1. Len(history) \in Nat \ {0}
    BY EmptySeq DEF ToolsAnswer, Inv, TypeOK
  <2>2. QED
    BY <2>1, ElementOfSeq DEF ToolsAnswer, Inv, TypeOK, Last
<1>1. Last.content \in Seq(TextBlock \cup ImageBlock \cup CallBlock)
  BY <1>0 DEF Message
<1>2. PICK n \in DOMAIN Last.content, added \in UserContents \cup {<<>>} :
        \E order \in [1..n -> Calls(Last.content)], output \in [1..n -> Outputs] :
          Says([role |-> "user", content |-> Given(order, output) \o added])
  BY DEF ToolsAnswer
<1>3. PICK order \in [1..n -> Calls(Last.content)], output \in [1..n -> Outputs] :
        Says([role |-> "user", content |-> Given(order, output) \o added])
  BY <1>2
<1> DEFINE results == Given(order, output)
           Block == TextBlock \cup ImageBlock \cup ResultBlock
           m == [role |-> "user", content |-> results \o added]
           h == Append(history, m)
<1>4. n \in Nat
  BY <1>1, LenProperties
<1>5. ASSUME NEW k \in Calls(Last.content)
      PROVE  Last.content[k] \in CallBlock
  <2>1. Last.content[k] \in TextBlock \cup ImageBlock \cup CallBlock
    BY <1>1, LenProperties, ElementOfSeq DEF Calls
  <2>2. QED
    BY <2>1 DEF TextBlock, ImageBlock, IsCall, Calls
<1>6. ASSUME NEW j \in 1..n
      PROVE  results[j] \in ResultBlock
  <2>1. order[j] \in Calls(Last.content) /\ output[j] \in Outputs
    OBVIOUS
  <2>2. Last.content[order[j]] \in CallBlock
    BY <1>5, <2>1
  <2>3. output[j] \in Seq(TextBlock \cup ImageBlock)
    BY <2>1, ConversationAssumption
  <2>4. QED
    BY <2>2, <2>3 DEF ResultBlock, CallBlock, ResultOf, Given
<1>7. results \in Seq(Block) /\ Len(results) = n
  <2>1. results \in [1..n -> Block]
    BY <1>6 DEF Given
  <2>2. results \in Seq(Block)
    BY <1>4, <2>1, SeqDef
  <2> HIDE DEF results, Block
  <2>3. Len(results) \in Nat /\ 1..Len(results) = 1..n
    BY <2>1, <2>2, LenProperties
  <2>4. Len(results) = n
    BY <1>4, <2>3
  <2>5. QED
    BY <2>2, <2>4
<1>8. added \in Seq(TextBlock \cup ImageBlock)
  BY ConversationAssumption, EmptySeq
<1>9. added \in Seq(Block) /\ Len(added) \in Nat
  BY <1>8, SeqMonotonic, LenProperties
<1>10. /\ m.content \in Seq(Block)
       /\ DOMAIN m.content = 1..(n + Len(added))
       /\ \A k \in 1..(n + Len(added)) :
            m.content[k] = IF k <= n THEN results[k] ELSE added[k - n]
  <2> HIDE DEF results, Block
  <2>1. QED
    BY <1>4, <1>7, <1>9, ConcatProperties, LenProperties
<1>11. m \in Message
  BY <1>10 DEF Message
<1>12. h[Len(history) + 1] = m /\ h[Len(history)] = Last
  BY <1>0
<1>13. ASSUME NEW k \in DOMAIN m.content, IsResult(m.content[k])
       PROVE  Answered(h, Len(history) + 1, m.content[k])
  <2>1. k \in 1..n
    <3>1. SUFFICES ASSUME k \notin 1..n PROVE FALSE
      OBVIOUS
    <3>2. k - n \in 1..Len(added) /\ m.content[k] = added[k - n]
      BY <1>4, <1>9, <1>10, <1>13, <3>1
    <3>3. added[k - n] \in TextBlock \cup ImageBlock
      BY <1>8, <3>2, ElementOfSeq
    <3>4. QED
      BY <1>13, <3>2, <3>3 DEF TextBlock, ImageBlock, IsResult
  <2>2. /\ m.content[k] = ResultOf(Last.content[order[k]], output[k])
        /\ order[k] \in Calls(Last.content)
    BY <1>4, <1>9, <1>10, <2>1 DEF Given
  <2>3. (Len(history) + 1) - 1 = Len(history)
    BY <1>0
  <2> HIDE DEF h, m
  <2>4. QED
    BY <1>0, <1>12, <2>2, <2>3 DEF Answered, ResultOf, Calls
<1>14. MessageInv(h, Len(history) + 1)
  <2>1. Len(history) + 1 > 1
    BY <1>0
  <2>2. m.role = "user"
    OBVIOUS
  <2> HIDE DEF h, m
  <2>3. QED
    BY <1>12, <1>13, <2>1, <2>2 DEF MessageInv
<1>15. QED
  BY <1>3, <1>11, <1>14, SaysKeeps

LEMMA CompactKeeps ==
  ASSUME Inv, NEW k \in 1..MaxLength, Compact(k)
  PROVE  Inv'
<1> DEFINE m == [role |-> "user", content |-> Notice]
           rest == SubSeq(history, k + 1, Len(history))
           h == <<m>> \o rest
<1>0. /\ history \in Seq(Message) /\ Len(history) \in Nat
      /\ DOMAIN history = 1..Len(history)
      /\ k \in Nat /\ k >= 1 /\ k < Len(history)
  BY LenProperties, ConversationAssumption DEF Inv, TypeOK, Compact
<1>1. Notice \in Seq(TextBlock \cup ImageBlock)
  BY ConversationAssumption, SeqMonotonic
<1>2. m \in Message
  BY <1>1, SeqMonotonic DEF Message
<1>3. /\ rest \in Seq(Message) /\ Len(rest) = Len(history) - k
      /\ \A i \in 1..(Len(history) - k) : rest[i] = history[k + i]
  <2>1. \A i \in (k + 1)..Len(history) : history[i] \in Message
    BY <1>0, ElementOfSeq
  <2>2. /\ rest \in Seq(Message)
        /\ Len(rest) = IF k + 1 <= Len(history) THEN Len(history) - (k + 1) + 1 ELSE 0
        /\ \A i \in 1..(Len(history) - (k + 1) + 1) : rest[i] = history[(k + 1) + i - 1]
    BY <1>0, <2>1, SubSeqProperties
  <2>3. Len(history) - (k + 1) + 1 = Len(history) - k
    BY <1>0
  <2> HIDE DEF rest
  <2>4. ASSUME NEW i \in 1..(Len(history) - k)
        PROVE  rest[i] = history[k + i]
    <3>1. rest[i] = history[(k + 1) + i - 1]
      BY <2>2, <2>3
    <3>2. (k + 1) + i - 1 = k + i
      BY <1>0
    <3>3. QED
      BY <3>1, <3>2
  <2>5. Len(rest) = Len(history) - k
    <3>1. k + 1 <= Len(history)
      BY <1>0
    <3>2. Len(rest) = Len(history) - (k + 1) + 1
      BY <2>2, <3>1
    <3>3. QED
      BY <2>3, <3>2
  <2>6. QED
    BY <2>2, <2>4, <2>5
<1>4. <<m>> \in Seq(Message) /\ Len(<<m>>) = 1 /\ <<m>>[1] = m
  BY <1>2
<1>5. /\ h \in Seq(Message) /\ Len(h) = 1 + (Len(history) - k)
      /\ DOMAIN h = 1..(1 + (Len(history) - k))
      /\ h[1] = m
      /\ \A i \in 2..(1 + (Len(history) - k)) : h[i] = history[k + i - 1]
  <2> HIDE DEF rest
  <2>1. /\ h \in Seq(Message) /\ Len(h) = 1 + (Len(history) - k)
        /\ \A i \in 1..(1 + (Len(history) - k)) : h[i] = IF i <= 1 THEN <<m>>[i] ELSE rest[i - 1]
    <3> HIDE DEF m
    <3>1. QED
      BY <1>3, <1>4, ConcatProperties
  <2>2. QED
    BY <1>0, <1>3, <1>4, <2>1, LenProperties
<1> HIDE DEF h
<1>6. ASSUME NEW i \in DOMAIN h
      PROVE  MessageInv(h, i)
  <2>1. CASE i = 1
    BY <1>1, <1>5, <2>1, PlainMessage
  <2>2. CASE i # 1
    <3>1. i \in 2..(1 + (Len(history) - k)) /\ k + i - 1 \in DOMAIN history
      BY <1>0, <1>5, <1>6, <2>2
    <3>2. MessageInv(history, k + i - 1)
      BY <3>1 DEF Inv, HistoryInv
    <3>3. h[i] = history[k + i - 1]
      BY <1>5, <3>1
    <3>4. \/ h[i - 1] = history[(k + i - 1) - 1] /\ k + i - 1 # 2
          \/ i = 2 /\ h[1].role # "assistant"
      <4>1. CASE i = 2
        BY <1>5, <4>1
      <4>2. CASE i # 2
        <5>1. PICK j \in 2..(1 + (Len(history) - k)) : j = i - 1
          BY <1>0, <3>1, <4>2
        <5>2. h[j] = history[k + j - 1]
          BY <1>5
        <5>3. k + j - 1 = (k + i - 1) - 1 /\ k + i - 1 # 2
          BY <1>0, <3>1, <5>1
        <5>4. QED
          BY <5>1, <5>2, <5>3
      <4>3. QED
        BY <4>1, <4>2
    <3>5. i \in Nat /\ i > 1 /\ k + i - 1 \in Nat
      BY <1>0, <3>1
    <3>6. QED
      BY <3>2, <3>3, <3>4, <3>5, MessageMoves
  <2>3. QED
    BY <2>1, <2>2
<1>7. history' = h /\ sent' = NoRequest
  BY DEF Compact, h
<1>8. HistoryInv'
  BY <1>6, <1>7 DEF HistoryInv
<1>9. TypeOK'
  BY <1>5, <1>7, EmptySeq DEF Inv, TypeOK, Compact, replyVars, NoRequest
<1>10. SentInv' /\ TurnInv'
  BY <1>7 DEF SentInv, TurnInv, Compact
<1>11. ReplyInv'
  BY SameReply DEF Inv, Compact
<1>12. QED
  BY <1>8, <1>9, <1>10, <1>11 DEF Inv

-----------------------------------------------------------------------------
(* Steps of a turn.                                                        *)

LEMMA BeginKeeps ==
  ASSUME Inv, Begin
  PROVE  Inv'
<1>1. TypeOK' /\ HistoryInv' /\ SentInv' /\ TurnInv'
  BY DEF Inv, Begin, TypeOK, HistoryInv, SentInv, TurnInv, replyVars
<1>2. QED
  BY <1>1, SameReply DEF Inv, Begin

LEMMA DispatchKeeps ==
  ASSUME Inv, NEW read \in SUBSET Images, Dispatch(read)
  PROVE  Inv'
<1>1. TypeOK' /\ HistoryInv' /\ TurnInv'
  BY DEF Inv, Dispatch, TypeOK, HistoryInv, TurnInv, replyVars
<1>2. SentInv'
  <2>1. Len(history) \in Nat
    BY DEF Inv, TypeOK
  <2>2. sent' = [history |-> history, seed |-> Seed(history)]
    BY DEF Dispatch
  <2>3. \E i \in DOMAIN history : history[i].role = "user"
    BY DEF Inv, TurnInv, Dispatch, Resolves
  <2>4. QED
    BY <2>1, <2>2, <2>3 DEF SentInv, Dispatch
<1>3. QED
  BY <1>1, <1>2, SameReply DEF Inv, Dispatch

LEMMA RejectKeeps ==
  ASSUME Inv, NEW read, Reject(read)
  PROVE  Inv'
<1>1. TypeOK' /\ HistoryInv' /\ SentInv' /\ TurnInv'
  BY DEF Inv, Reject, TypeOK, HistoryInv, SentInv, TurnInv, replyVars
<1>2. QED
  BY <1>1, SameReply DEF Inv, Reject

LEMMA BlockStartsKeeps ==
  ASSUME Inv, NEW block \in Replies, NEW named \in BOOLEAN, BlockStarts(block, named)
  PROVE  Inv'
<1> DEFINE n == Len(turn) + 1
           started == [block |-> block, open |-> TRUE]
<1>0. /\ n \in 1..MaxBlocks /\ DOMAIN turn = 1..Len(turn) /\ Len(turn) \in Nat
      /\ turn' = Append(turn, started)
  BY ConversationAssumption, LenProperties DEF Inv, TypeOK, BlockStarts
<1>1. /\ turn' \in Seq([block : Replies, open : BOOLEAN])
      /\ Len(turn') = n /\ DOMAIN turn' = 1..n
      /\ turn'[n] = started
      /\ \A i \in DOMAIN turn : turn'[i] = turn[i]
  BY <1>0 DEF Inv, TypeOK
<1>2. block.type = "toolCall" => block.id \in CallIds
  BY ConversationAssumption DEF PiBlock
<1>3. /\ DOMAIN toolIds' \subseteq 1..MaxBlocks
      /\ toolIds' \in [DOMAIN toolIds' -> CallIds \cup {NoId}]
  <2>1. CASE block.type = "toolCall"
    <3>1. toolIds' = [i \in DOMAIN toolIds \cup {n} |->
                        IF i \in DOMAIN toolIds THEN toolIds[i]
                        ELSE IF named THEN block.id ELSE NoId]
      BY <2>1 DEF BlockStarts
    <3>2. QED
      BY <1>0, <1>2, <2>1, <3>1 DEF Inv, TypeOK
  <2>2. CASE block.type # "toolCall"
    BY <2>2 DEF BlockStarts, Inv, TypeOK
  <2>3. QED
    BY <2>1, <2>2
<1>4. TypeOK'
  BY <1>1, <1>3 DEF Inv, TypeOK, BlockStarts, Chunk
<1>5. ReplyInv'
  <2>1. n \notin DOMAIN turn /\ DOMAIN turn' = DOMAIN turn \cup {n}
    BY <1>0, <1>1
  <2>2. Len(turn') <= MaxBlocks
    BY <1>0, <1>1
  <2>3. DOMAIN answer = {i \in DOMAIN turn' : ~turn'[i].open}
    <3>1. turn'[n].open
      BY <1>1
    <3>2. \A i \in DOMAIN turn : turn'[i].open = turn[i].open
      BY <1>1
    <3>3. QED
      BY <2>1, <3>1, <3>2 DEF Inv, ReplyInv
  <2>4. \A i \in DOMAIN answer : answer[i] = Ended(i)'
    BY <1>1 DEF Inv, ReplyInv, Ended, EndedCall, CallOf
  <2>5. \A i \in DOMAIN toolIds' : /\ i \in DOMAIN turn'
                                   /\ turn'[i].block.type = "toolCall"
                                   /\ toolIds'[i] \in {turn'[i].block.id, NoId}
    <3>1. \A i \in DOMAIN toolIds : /\ i \in DOMAIN turn'
                                    /\ turn'[i].block.type = "toolCall"
                                    /\ toolIds[i] \in {turn'[i].block.id, NoId}
      BY <1>1, <2>1 DEF Inv, ReplyInv
    <3>2. CASE block.type = "toolCall"
      <4>1. toolIds' = [i \in DOMAIN toolIds \cup {n} |->
                          IF i \in DOMAIN toolIds THEN toolIds[i]
                          ELSE IF named THEN block.id ELSE NoId]
        BY <3>2 DEF BlockStarts
      <4>2. QED
        BY <1>1, <2>1, <3>1, <3>2, <4>1
    <3>3. CASE block.type # "toolCall"
      BY <3>1, <3>3 DEF BlockStarts
    <3>4. QED
      BY <3>2, <3>3
  <2>6. ASSUME NEW i \in DOMAIN turn', NEW j \in DOMAIN turn',
               turn'[i].block.type = "toolCall", turn'[j].block.type = "toolCall",
               turn'[i].block.id = turn'[j].block.id
        PROVE  i = j
    <3>1. ~(i \in DOMAIN turn /\ j = n) /\ ~(i = n /\ j \in DOMAIN turn)
      BY <1>1, <2>6 DEF BlockStarts
    <3>2. CASE i \in DOMAIN turn /\ j \in DOMAIN turn
      BY <1>1, <2>6, <3>2 DEF Inv, ReplyInv
    <3>3. QED
      BY <2>1, <3>1, <3>2
  <2>7. chunk' = NoChunk /\ answer' = answer
    BY DEF BlockStarts
  <2>8. QED
    BY <2>2, <2>3, <2>4, <2>5, <2>6, <2>7 DEF ReplyInv, NoChunk
<1>6. HistoryInv' /\ SentInv' /\ TurnInv'
  BY DEF Inv, BlockStarts, HistoryInv, SentInv, TurnInv
<1>7. QED
  BY <1>4, <1>5, <1>6 DEF Inv

LEMMA DeltaKeeps ==
  ASSUME Inv, NEW i \in 1..MaxBlocks, Delta(i)
  PROVE  Inv'
<1>1. TypeOK'
  BY DEF Inv, TypeOK, Delta, Chunk
<1>2. ReplyInv'
  BY DEF Inv, ReplyInv, Delta, Ended, EndedCall, CallOf
<1>3. HistoryInv' /\ SentInv' /\ TurnInv'
  BY DEF Inv, Delta, HistoryInv, SentInv, TurnInv
<1>4. QED
  BY <1>1, <1>2, <1>3 DEF Inv

LEMMA BlockEndsKeeps ==
  ASSUME Inv, NEW i \in 1..MaxBlocks, BlockEnds(i)
  PROVE  Inv'
<1>0. /\ turn \in Seq([block : Replies, open : BOOLEAN])
      /\ i \in 1..Len(turn) /\ DOMAIN turn = 1..Len(turn)
      /\ turn' = [turn EXCEPT ![i].open = FALSE]
  BY LenProperties DEF Inv, TypeOK, BlockEnds
<1>1. turn[i] \in [block : Replies, open : BOOLEAN]
  BY <1>0, ElementOfSeq
<1>2. /\ turn' = [turn EXCEPT ![i] = [turn[i] EXCEPT !.open = FALSE]]
      /\ [turn[i] EXCEPT !.open = FALSE] \in [block : Replies, open : BOOLEAN]
  BY <1>0, <1>1
<1>3. /\ turn' \in Seq([block : Replies, open : BOOLEAN])
      /\ Len(turn') = Len(turn)
  BY <1>0, <1>2, ExceptSeq
<1>4. /\ DOMAIN turn' = DOMAIN turn
      /\ \A j \in DOMAIN turn : turn'[j].block = turn[j].block
      /\ ~turn'[i].open
      /\ \A j \in DOMAIN turn : j # i => turn'[j].open = turn[j].open
  BY <1>0, <1>1
<1>5. Ended(i) \in ReplyBlock
  BY <1>1, EndedFits
<1>6. TypeOK'
  <2>1. chunk' \in Chunk
    BY <1>5 DEF BlockEnds, Chunk
  <2>2. DOMAIN answer' \subseteq 1..MaxBlocks /\ answer' \in [DOMAIN answer' -> ReplyBlock]
    BY <1>5 DEF BlockEnds, Inv, TypeOK
  <2>3. QED
    BY <1>3, <2>1, <2>2 DEF Inv, TypeOK, BlockEnds
<1>7. ReplyInv'
  <2>1. \A j \in DOMAIN turn : Ended(j)' = Ended(j)
    BY <1>4 DEF Ended, EndedCall, CallOf
  <2>2. answer' = [j \in DOMAIN answer \cup {i} |-> IF j = i THEN Ended(i) ELSE answer[j]]
    BY DEF BlockEnds
  <2>3. \A j \in DOMAIN answer : j \in DOMAIN turn /\ answer[j] = Ended(j)
    BY DEF Inv, ReplyInv
  <2>4. \A j \in DOMAIN answer' : answer'[j] = Ended(j)'
    BY <1>0, <2>1, <2>2, <2>3
  <2>5. DOMAIN answer' = {j \in DOMAIN turn' : ~turn'[j].open}
    BY <1>0, <1>4, <2>2 DEF Inv, ReplyInv
  <2>6. Len(turn') <= MaxBlocks
    BY <1>3 DEF Inv, ReplyInv
  <2>7. \A j \in DOMAIN toolIds' : /\ j \in DOMAIN turn'
                                   /\ turn'[j].block.type = "toolCall"
                                   /\ toolIds'[j] \in {turn'[j].block.id, NoId}
    BY <1>4 DEF Inv, ReplyInv, BlockEnds
  <2>8. \A j, l \in DOMAIN turn' :
          /\ turn'[j].block.type = "toolCall" /\ turn'[l].block.type = "toolCall"
          /\ turn'[j].block.id = turn'[l].block.id
          => j = l
    BY <1>4 DEF Inv, ReplyInv
  <2>9. chunk'.type # "tool-call-delta"
    BY DEF BlockEnds
  <2>10. QED
    BY <2>4, <2>5, <2>6, <2>7, <2>8, <2>9 DEF ReplyInv
<1>8. HistoryInv' /\ SentInv' /\ TurnInv'
  BY DEF Inv, BlockEnds, HistoryInv, SentInv, TurnInv
<1>9. QED
  BY <1>6, <1>7, <1>8 DEF Inv

\* A reply is over.
LEMMA EndsKeeps ==
  ASSUME Inv, Ends, history' \in Seq(Message), HistoryInv', SentInv'
  PROVE  Inv'
<1>1. /\ <<>> \in Seq([block : Replies, open : BOOLEAN])
      /\ Len(<<>>) = 0 /\ DOMAIN <<>> = {}
      /\ <<>> \in [{} -> CallIds \cup {NoId}] /\ <<>> \in [{} -> ReplyBlock]
  BY EmptySeq
<1>2. TypeOK'
  BY <1>1 DEF Inv, TypeOK, Ends, Chunk
<1>3. ReplyInv'
  BY <1>1, ConversationAssumption DEF ReplyInv, Ends, NoChunk
<1>4. TurnInv'
  BY DEF TurnInv, Ends
<1>5. QED
  BY <1>2, <1>3, <1>4 DEF Inv

LEMMA FailsKeeps ==
  ASSUME Inv, Fails
  PROVE  Inv'
<1>1. history' \in Seq(Message) /\ HistoryInv' /\ SentInv'
  BY DEF Inv, TypeOK, Fails, Ends, HistoryInv, SentInv
<1>2. QED
  BY <1>1, EndsKeeps DEF Fails

LEMMA DoneKeeps ==
  ASSUME Inv, Done
  PROVE  Inv'
<1>1. CASE turn = <<>>
  <2>1. history' \in Seq(Message) /\ HistoryInv' /\ SentInv'
    BY <1>1 DEF Inv, TypeOK, Done, Ends, HistoryInv, SentInv
  <2>2. QED
    BY <2>1, EndsKeeps DEF Done
<1>2. CASE turn # <<>>
  <2> DEFINE said == [i \in DOMAIN turn |-> turn[i].block]
             m == [role |-> "assistant", content |-> answer, said |-> said]
             h == Append(history, m)
  <2>0. /\ turn \in Seq([block : Replies, open : BOOLEAN])
        /\ Len(turn) \in Nat /\ DOMAIN turn = 1..Len(turn)
    BY LenProperties DEF Inv, TypeOK
  <2>1. \A i \in DOMAIN turn : turn[i].block \in Replies
    <3>1. \A i \in DOMAIN turn : turn[i] \in [block : Replies, open : BOOLEAN]
      BY <2>0, ElementOfSeq
    <3>2. QED
      BY <3>1
  <2>2. DOMAIN answer = DOMAIN turn /\ \A i \in DOMAIN turn : answer[i] = Ended(i)
    BY DEF Inv, ReplyInv, Done
  <2>3. answer \in Seq(TextBlock \cup ImageBlock \cup CallBlock)
    <3>1. answer \in [1..Len(turn) -> ReplyBlock]
      BY <2>0, <2>2 DEF Inv, TypeOK
    <3>2. answer \in Seq(ReplyBlock)
      BY <2>0, <3>1, SeqDef
    <3>3. QED
      BY <3>2, SeqMonotonic DEF ReplyBlock
  <2>4. said \in Seq(PiBlock)
    <3>1. said \in [1..Len(turn) -> PiBlock]
      BY <2>0, <2>1, ConversationAssumption
    <3>2. QED
      BY <2>0, <3>1, SeqDef
  <2>5. m \in Message
    BY <2>3, <2>4 DEF Message
  <2>6. DistinctIds(answer)
    <3>1. ASSUME NEW k \in Calls(answer), NEW l \in Calls(answer), answer[k].id = answer[l].id
          PROVE  k = l
      <4>1. /\ k \in DOMAIN turn /\ IsCall(Ended(k)) /\ answer[k] = Ended(k)
            /\ l \in DOMAIN turn /\ IsCall(Ended(l)) /\ answer[l] = Ended(l)
        BY <2>2 DEF Calls
      <4>2. /\ turn[k].block.type = "toolCall" /\ Ended(k).id = turn[k].block.id
            /\ turn[l].block.type = "toolCall" /\ Ended(l).id = turn[l].block.id
        BY <2>1, <4>1, EndedFits
      <4>3. QED
        BY <3>1, <4>1, <4>2 DEF Inv, ReplyInv
    <3>2. QED
      BY <3>1 DEF DistinctIds
  <2>7. [k \in DOMAIN answer |-> ToPiBlock(answer[k])] = said
    BY <2>1, <2>2, EndedFits
  <2>8. h[Len(history) + 1] = m
    BY DEF Inv, TypeOK
  <2>9. MessageInv(h, Len(history) + 1)
    <3> HIDE DEF h, said
    <3>1. QED
      BY <2>3, <2>6, <2>7, <2>8, ReplyHasNoResult DEF MessageInv
  <2>10. history' = h /\ sent' = sent
    BY <1>2 DEF Done, Ends
  <2>11. history' \in Seq(Message) /\ HistoryInv' /\ SentInv'
    <3> HIDE DEF m
    <3>1. QED
      BY <2>5, <2>9, <2>10, HistoryGrows DEF Inv
  <2>12. QED
    BY <2>11, EndsKeeps DEF Done
<1>3. QED
  BY <1>1, <1>2

-----------------------------------------------------------------------------

LEMMA InitInv == Init => Inv
<1> SUFFICES ASSUME Init PROVE Inv
  OBVIOUS
<1>1. /\ <<>> \in Seq(Message) /\ <<>> \in Seq([block : Replies, open : BOOLEAN])
      /\ Len(<<>>) = 0 /\ DOMAIN <<>> = {}
      /\ <<>> \in [{} -> CallIds \cup {NoId}] /\ <<>> \in [{} -> ReplyBlock]
  BY EmptySeq
<1>2. TypeOK
  BY <1>1 DEF Init, TypeOK, Chunk, NoRequest
<1>3. ReplyInv
  BY <1>1, ConversationAssumption DEF Init, ReplyInv, NoChunk
<1>4. HistoryInv /\ SentInv /\ TurnInv
  BY <1>1 DEF Init, HistoryInv, SentInv, TurnInv
<1>5. QED
  BY <1>2, <1>3, <1>4 DEF Inv

LEMMA StepInv == Inv /\ [Next]_vars => Inv'
<1> SUFFICES ASSUME Inv, [Next]_vars PROVE Inv'
  OBVIOUS
<1>1. CASE UserSays \/ SystemSays \/ OtherReplied \/ ToolsAnswer
  BY <1>1, UserSaysKeeps, SystemSaysKeeps, OtherRepliedKeeps, ToolsAnswerKeeps
<1>2. CASE \E k \in 1..MaxLength : Compact(k)
  BY <1>2, CompactKeeps
<1>3. CASE Begin
  BY <1>3, BeginKeeps
<1>4. CASE \E read \in SUBSET Images : Dispatch(read) \/ Reject(read)
  BY <1>4, DispatchKeeps, RejectKeeps
<1>5. CASE \E block \in Replies, named \in BOOLEAN : BlockStarts(block, named)
  BY <1>5, BlockStartsKeeps
<1>6. CASE \E i \in 1..MaxBlocks : Delta(i) \/ BlockEnds(i)
  BY <1>6, DeltaKeeps, BlockEndsKeeps
<1>7. CASE Done \/ Fails
  BY <1>7, DoneKeeps, FailsKeeps
<1>8. CASE UNCHANGED vars
  <2>1. TypeOK' /\ HistoryInv' /\ SentInv' /\ TurnInv'
    BY <1>8 DEF Inv, vars, TypeOK, HistoryInv, SentInv, TurnInv, replyVars
  <2>2. QED
    BY <1>8, <2>1, SameReply DEF Inv, vars
<1>9. QED
  BY <1>1, <1>2, <1>3, <1>4, <1>5, <1>6, <1>7, <1>8 DEF Next

LEMMA Invariance == Spec => []Inv
BY InitInv, StepInv, PTL DEF Spec

\* Every state is well-typed, for any texts, tools, replies and bounds.
THEOREM TypeCorrect == Spec => []TypeOK
<1>1. Inv => TypeOK
  BY DEF Inv
<1>2. QED
  BY <1>1, Invariance, PTL

\* A result carries the name of the tool that gave it, whatever ids the
\* providers reuse and wherever the harness compacts (messages.ts:189-214).
THEOREM ResultsKeepTheirTool == Spec => []ResultNamesItsCall
<1>1. Inv => ResultNamesItsCall
  BY ResultsAreNamed DEF Inv
<1>2. QED
  BY <1>1, Invariance, PTL

\* What a model said is what it is sent back: the translation of the stream and
\* the conversion of the history undo each other (events.ts:130-196,
\* messages.ts:93-135).
THEOREM RepliesRoundTrip == Spec => []ReplayIsFaithful
<1>1. ASSUME Inv, NEW i \in DOMAIN history,
             history[i].role = "assistant", history[i].said # <<>>
      PROVE  ToPi(history, i, images) = <<[role |-> "assistant", content |-> history[i].said]>>
  <2>1. [k \in DOMAIN history[i].content |-> ToPiBlock(history[i].content[k])] = history[i].said
    BY <1>1 DEF Inv, HistoryInv, MessageInv
  <2>2. QED
    BY <1>1, <2>1 DEF ToPi, FromAssistant
<1>2. Inv => ReplayIsFaithful
  BY <1>1 DEF ReplayIsFaithful
<1>3. QED
  BY <1>2, Invariance, PTL

\* The deltas of calls that are streamed side by side keep the id of their call
\* (events.ts:154-172).
THEOREM DeltasAreTheirs == Spec => []DeltasKeepTheirCall
<1>1. Inv => DeltasKeepTheirCall
  BY DEF Inv, ReplyInv, DeltasKeepTheirCall
<1>2. QED
  BY <1>1, Invariance, PTL

-----------------------------------------------------------------------------
(* Requests of one conversation.                                           *)

\* A name depends on what comes before only.
LEMMA NameOfPrefix ==
  ASSUME NEW g \in Seq(Message), NEW h \in Seq(Message), Len(g) <= Len(h),
         \A i \in DOMAIN g : g[i] = h[i],
         NEW i \in DOMAIN g, NEW id
  PROVE  NameOf(g, i, id) = NameOf(h, i, id)
<1>0. /\ i \in Nat /\ i <= Len(g) + 1 /\ i <= Len(h) + 1
      /\ \A j \in 1..(i - 1) : g[j] = h[j]
  BY LenProperties
<1>1. CallsBefore(g, i, id) = CallsBefore(h, i, id)
  BY <1>0 DEF CallsBefore
<1> DEFINE latest == Latest(CallsBefore(h, i, id))
<1>2. ASSUME NEW p \in latest
      PROVE  g[p[1]].content[p[2]].name = h[p[1]].content[p[2]].name
  <2>1. p \in CallsBefore(h, i, id)
    BY <1>2 DEF Latest
  <2>2. PICK j \in 1..(i - 1) : p[1] = j
    BY <1>0, <2>1, CallsAre
  <2>3. g[p[1]] = h[p[1]]
    BY <1>0, <2>2
  <2>4. QED
    BY <2>3
<1> HIDE DEF latest
<1>3. NamesAt(g, latest) = NamesAt(h, latest)
  BY <1>2 DEF NamesAt
<1>4. NameFrom(g, CallsBefore(h, i, id)) = NameFrom(h, CallsBefore(h, i, id))
  <2>1. NamesAt(g, Latest(CallsBefore(h, i, id))) = NamesAt(h, Latest(CallsBefore(h, i, id)))
    BY <1>3 DEF latest
  <2>2. QED
    BY <2>1 DEF NameFrom
<1>5. QED
  BY <1>1, <1>4 DEF NameOf

LEMMA ToPiPrefix ==
  ASSUME NEW g \in Seq(Message), NEW h \in Seq(Message), Len(g) <= Len(h),
         \A i \in DOMAIN g : g[i] = h[i],
         NEW i \in DOMAIN g, NEW kept
  PROVE  ToPi(g, i, kept) = ToPi(h, i, kept)
<1>1. g[i] = h[i]
  OBVIOUS
<1>2. \A id : NameOf(g, i, id) = NameOf(h, i, id)
  BY NameOfPrefix
<1>3. ToolResults(g, i) = ToolResults(h, i)
  BY <1>1, <1>2 DEF ToolResults
<1>4. QED
  BY <1>1, <1>3 DEF ToPi, FromSystem, FromAssistant, FromUser

\* So does the seed, once a user has spoken.
LEMMA SeedPrefix ==
  ASSUME NEW g \in Seq(Message), NEW h \in Seq(Message), Len(g) <= Len(h),
         \A i \in DOMAIN g : g[i] = h[i],
         NEW k \in DOMAIN g, g[k].role = "user"
  PROVE  Seed(g) = Seed(h)
<1>0. /\ Len(g) \in Nat /\ DOMAIN g = 1..Len(g)
      /\ Len(h) \in Nat /\ DOMAIN h = 1..Len(h)
  BY LenProperties
<1>1. ASSUME NEW i \in FirstUser(h)
      PROVE  i \in DOMAIN g
  <2>1. i \in 1..Len(h) /\ \A j \in 1..(i - 1) : h[j].role # "user"
    BY <1>0, <1>1 DEF FirstUser
  <2>2. h[k].role = "user" /\ k \in 1..Len(g)
    BY <1>0
  <2>3. i <= k
    BY <1>0, <2>1, <2>2
  <2>4. QED
    BY <1>0, <2>1, <2>2, <2>3
<1>2. FirstUser(g) = FirstUser(h)
  BY <1>0, <1>1 DEF FirstUser
<1>3. \A i \in FirstUser(h) : g[i].content = h[i].content
  BY <1>1
<1>4. QED
  BY <1>2, <1>3 DEF Seed

\* A later request begins with the messages of the earlier one and goes to the
\* same session: the prompt cache keeps its use (ids.ts:100).
THEOREM RequestsKeepTheirPrefix == Spec => RequestsOnlyGrow
<1>1. ASSUME Inv, Next,
             sent # NoRequest, sent' # sent, sent' # NoRequest
      PROVE  /\ sent'.seed = sent.seed
             /\ \A i \in DOMAIN sent.history, kept \in SUBSET Images :
                  ToPi(sent'.history, i, kept) = ToPi(sent.history, i, kept)
  <2>1. sent' = [history |-> history, seed |-> Seed(history)]
    BY <1>1 DEF Next, UserSays, SystemSays, OtherReplied, ToolsAnswer, Says, Compact, Begin,
                Dispatch, Reject, BlockStarts, Delta, BlockEnds, Done, Fails, Ends
  <2>2. /\ sent.history \in Seq(Message) /\ history \in Seq(Message)
        /\ Len(sent.history) <= Len(history)
        /\ \A i \in DOMAIN sent.history : sent.history[i] = history[i]
        /\ sent.seed = Seed(sent.history)
    BY <1>1 DEF Inv, TypeOK, SentInv
  <2>3. PICK k \in DOMAIN sent.history : sent.history[k].role = "user"
    BY <1>1 DEF Inv, SentInv
  <2>4. Seed(sent.history) = Seed(history)
    BY <2>2, <2>3, SeedPrefix
  <2>5. \A i \in DOMAIN sent.history, kept \in SUBSET Images :
          ToPi(sent.history, i, kept) = ToPi(history, i, kept)
    BY <2>2, ToPiPrefix
  <2>6. QED
    BY <2>1, <2>2, <2>4, <2>5
<1>2. Inv /\ [Next]_vars =>
        [sent # NoRequest /\ sent' # sent /\ sent' # NoRequest =>
           /\ sent'.seed = sent.seed
           /\ \A i \in DOMAIN sent.history, kept \in SUBSET Images :
                ToPi(sent'.history, i, kept) = ToPi(sent.history, i, kept)]_vars
  BY <1>1
<1>3. QED
  BY <1>2, Invariance, PTL DEF Spec, RequestsOnlyGrow

-----------------------------------------------------------------------------
(* Picked blocks.                                                          *)

\* The blocks picked so far, of which the last are all of them.
Picks(f, X, content, places) ==
  /\ f \in [0..Len(content) -> Seq(X)]
  /\ f[0] = <<>>
  /\ \A n \in 1..Len(content) :
       f[n] = IF n \in places THEN Append(f[n - 1], content[n]) ELSE f[n - 1]

LEMMA PickedIs ==
  ASSUME NEW X, NEW content \in Seq(X), NEW places
  PROVE  \E f : Picks(f, X, content, places) /\ Picked(content, places) = f[Len(content)]
<1> DEFINE D == 0..Len(content)
           IsIt(f) == f = [n \in D |-> IF n = 0 THEN <<>>
                                       ELSE IF n \in places THEN Append(f[n - 1], content[n])
                                       ELSE f[n - 1]]
           next == [n \in D |-> [s \in Seq(X) |-> IF n # 0 /\ n \in places
                                                  THEN Append(s, content[n]) ELSE s]]
<1>0. /\ Len(content) \in Nat
      /\ \A n \in D : n # 0 => content[n] \in X /\ n \in 1..Len(content) /\ n - 1 \in D
  BY LenProperties, ElementOfSeq
<1>1. next \in [D -> [Seq(X) -> Seq(X)]]
  BY <1>0, AppendProperties
<1>2. <<>> \in Seq(X)
  OBVIOUS
<1>3. PICK f : Recursive(f, D, Seq(X), <<>>, next)
  <2> HIDE DEF next
  <2>1. QED
    BY <1>0, <1>1, <1>2, RecursionUpTo
<1>4. ASSUME NEW n \in D, n # 0
      PROVE  next[n][f[n - 1]] = IF n \in places THEN Append(f[n - 1], content[n]) ELSE f[n - 1]
  <2>1. n - 1 \in D
    BY <1>0, <1>4
  <2>2. f[n - 1] \in Seq(X)
    BY <1>3, <2>1 DEF Recursive
  <2>3. QED
    BY <1>4, <2>2
<1>5. IsIt(f)
  <2> HIDE DEF next
  <2>1. QED
    BY <1>3, <1>4 DEF Recursive
<1>6. Picked(content, places) = (CHOOSE g : IsIt(g))[Len(content)]
  BY DEF Picked
<1>7. IsIt(CHOOSE g : IsIt(g))
  <2> HIDE DEF IsIt
  <2>1. QED
    BY <1>5
<1> DEFINE F == CHOOSE g : IsIt(g)
<1>8. F = [n \in D |-> IF n = 0 THEN <<>>
                       ELSE IF n \in places THEN Append(F[n - 1], content[n]) ELSE F[n - 1]]
  BY <1>7
<1>9. Picked(content, places) = F[Len(content)]
  BY <1>6
<1> HIDE DEF F, IsIt, next
<1>10. /\ F[0] = <<>>
       /\ \A n \in 1..Len(content) :
            F[n] = IF n \in places THEN Append(F[n - 1], content[n]) ELSE F[n - 1]
  <2>1. ASSUME NEW n \in D
        PROVE  F[n] = IF n = 0 THEN <<>>
                      ELSE IF n \in places THEN Append(F[n - 1], content[n]) ELSE F[n - 1]
    BY <1>8, Zenon
  <2>2. 0 \in D /\ \A n \in 1..Len(content) : n \in D /\ n # 0
    BY <1>0
  <2>3. F[0] = <<>>
    BY <2>1, <2>2
  <2>4. ASSUME NEW n \in 1..Len(content)
        PROVE  F[n] = IF n \in places THEN Append(F[n - 1], content[n]) ELSE F[n - 1]
    <3>1. n \in D /\ n # 0
      BY <2>2
    <3> HIDE DEF D
    <3>2. QED
      BY <2>1, <3>1, Zenon
  <2>5. QED
    BY <2>3, <2>4
<1>11. \A n \in D : F[n] \in Seq(X)
  <2> DEFINE S == {n \in Nat : n \in D => F[n] \in Seq(X)}
  <2>1. 0 \in S
    BY <1>2, <1>10
  <2>2. ASSUME NEW n \in Nat, n \in S PROVE n + 1 \in S
    <3>1. CASE n + 1 \in D
      <4>1. n \in D /\ n + 1 \in 1..Len(content) /\ (n + 1) - 1 = n
        BY <1>0, <3>1
      <4>2. /\ F[n + 1] = IF n + 1 \in places THEN Append(F[n], content[n + 1]) ELSE F[n]
            /\ content[n + 1] \in X /\ F[n] \in Seq(X)
        BY <1>0, <1>10, <2>2, <3>1, <4>1
      <4>3. F[n + 1] \in Seq(X)
        BY <4>2, AppendProperties
      <4>4. QED
        BY <4>3
    <3>2. CASE n + 1 \notin D
      BY <3>2
    <3>3. QED
      BY <3>1, <3>2
  <2>3. Nat \subseteq S
    <3> HIDE DEF S
    <3>1. QED
      BY <2>1, <2>2, Induction
  <2>4. QED
    BY <2>3
<1>12. Picks(F, X, content, places)
  BY <1>8, <1>10, <1>11 DEF Picks
<1>13. QED
  BY <1>9, <1>12

\* Picked has the blocks at those places and no other.
LEMMA PickedHas ==
  ASSUME NEW X, NEW content \in Seq(X), NEW places \in SUBSET DOMAIN content
  PROVE  /\ Picked(content, places) \in Seq(X)
         /\ \A k \in places :
              \E n \in DOMAIN Picked(content, places) : Picked(content, places)[n] = content[k]
         /\ \A n \in DOMAIN Picked(content, places) :
              \E k \in places : Picked(content, places)[n] = content[k]
<1>1. PICK f : Picks(f, X, content, places) /\ Picked(content, places) = f[Len(content)]
  BY PickedIs
<1>0. /\ Len(content) \in Nat
      /\ DOMAIN content = 1..Len(content)
      /\ \A n \in 1..Len(content) : content[n] \in X
      /\ \A n \in 0..Len(content) : f[n] \in Seq(X)
  BY <1>1, LenProperties, ElementOfSeq DEF Picks
<1> DEFINE Has(n) ==
             /\ \A k \in places : k <= n => \E m \in DOMAIN f[n] : f[n][m] = content[k]
             /\ \A m \in DOMAIN f[n] : \E k \in places : f[n][m] = content[k]
           S == {n \in Nat : n <= Len(content) => Has(n)}
<1>2. 0 \in S
  BY <1>0, <1>1 DEF Picks
<1>3. ASSUME NEW n \in Nat, n \in S PROVE n + 1 \in S
  <2>1. CASE n + 1 <= Len(content)
    <3>1. n + 1 \in 1..Len(content) /\ (n + 1) - 1 = n /\ n \in 0..Len(content)
      BY <1>0, <2>1
    <3>2. f[n + 1] = IF n + 1 \in places THEN Append(f[n], content[n + 1]) ELSE f[n]
      BY <1>1, <3>1 DEF Picks
    <3>3. Has(n)
      BY <1>3, <3>1
    <3>4. \A k \in places : k <= n + 1 => k <= n \/ k = n + 1
      BY <1>0
    <3>5. CASE n + 1 \in places
      <4> DEFINE s == f[n]
                 t == Append(f[n], content[n + 1])
      <4>1. /\ Len(s) \in Nat /\ DOMAIN s = 1..Len(s) /\ DOMAIN t = 1..(Len(s) + 1)
            /\ \A m \in 1..Len(s) : t[m] = s[m]
            /\ t[Len(s) + 1] = content[n + 1]
        BY <1>0, <3>1, AppendProperties
      <4>2. f[n + 1] = t
        BY <3>2, <3>5
      <4> HIDE DEF t
      <4>3. ASSUME NEW k \in places, k <= n + 1
            PROVE  \E m \in DOMAIN t : t[m] = content[k]
        <5>1. CASE k = n + 1
          BY <4>1, <5>1
        <5>2. CASE k <= n
          <6>1. PICK m \in DOMAIN s : s[m] = content[k]
            BY <3>3, <5>2
          <6>2. m \in DOMAIN t /\ t[m] = content[k]
            BY <4>1, <6>1
          <6>3. QED
            BY <6>2
        <5>3. QED
          BY <3>4, <4>3, <5>1, <5>2
      <4>4. ASSUME NEW m \in DOMAIN t
            PROVE  \E k \in places : t[m] = content[k]
        <5>1. CASE m = Len(s) + 1
          BY <3>5, <4>1, <5>1
        <5>2. CASE m \in 1..Len(s)
          BY <3>3, <4>1, <5>2
        <5>3. QED
          BY <4>1, <5>1, <5>2
      <4>5. Has(n + 1)
        BY <4>2, <4>3, <4>4
      <4>6. QED
        BY <4>5
    <3>6. CASE n + 1 \notin places
      <4>1. f[n + 1] = f[n]
        BY <3>2, <3>6
      <4>2. \A k \in places : k <= n + 1 => k <= n
        BY <3>4, <3>6
      <4>3. Has(n + 1)
        BY <3>3, <4>1, <4>2
      <4>4. QED
        BY <4>3
    <3>7. QED
      BY <3>5, <3>6
  <2>2. CASE ~(n + 1 <= Len(content))
    BY <2>2
  <2>3. QED
    BY <2>1, <2>2
<1>4. Nat \subseteq S
  <2> HIDE DEF S
  <2>1. QED
    BY <1>2, <1>3, Induction
<1>5. Has(Len(content)) /\ \A k \in places : k <= Len(content)
  BY <1>0, <1>4
<1>6. QED
  BY <1>0, <1>1, <1>5

-----------------------------------------------------------------------------
(* What a turn sends.                                                      *)

\* What a user's message, or the system's, is made of.
MessageBlock == TextBlock \cup ImageBlock \cup ResultBlock

\* The content of a message, by its role.
LEMMA ContentIs ==
  ASSUME Inv, NEW i \in DOMAIN history
  PROVE  /\ history[i].role \in {"system", "user", "assistant"}
         /\ history[i].role # "assistant" => history[i].content \in Seq(MessageBlock)
         /\ history[i].role = "assistant" =>
              history[i].content \in Seq(TextBlock \cup ImageBlock \cup CallBlock)
<1>1. history[i] \in Message
  BY LenProperties, ElementOfSeq DEF Inv, TypeOK
<1>2. QED
  BY <1>1 DEF Message, MessageBlock

\* While a reply is streamed, no reply in the history has an image.
LEMMA RepliesCanBeReplayed ==
  ASSUME Inv, pc = "streaming", NEW i \in DOMAIN history, history[i].role = "assistant"
  PROVE  history[i].content \in Seq(TextBlock \cup CallBlock)
<1> DEFINE content == history[i].content
<1>1. content \in Seq(TextBlock \cup ImageBlock \cup CallBlock)
  BY ContentIs
<1>2. /\ Len(content) \in Nat /\ DOMAIN content = 1..Len(content)
      /\ \A k \in 1..Len(content) : content[k] \in TextBlock \cup ImageBlock \cup CallBlock
  BY <1>1, LenProperties, ElementOfSeq
<1>3. \A k \in 1..Len(content) : content[k] \notin ImageBlock
  BY <1>2 DEF Inv, TurnInv, Throws, ImageBlock
<1>4. content = [k \in 1..Len(content) |-> content[k]]
  BY <1>1, <1>2
<1> HIDE DEF content
<1>5. QED
  BY <1>2, <1>3, <1>4 DEF content

\* Some message of a sequence has a block.
LEMMA SentFromUser ==
  ASSUME NEW content \in Seq(MessageBlock), NEW readable,
         NEW k \in DOMAIN content, IsSent(content[k], readable)
  PROVE  \E n \in DOMAIN UserBlocks(content, readable) :
           UserBlocks(content, readable)[n] = content[k]
<1> DEFINE places == {n \in DOMAIN content : IsSent(content[n], readable)}
<1>1. places \in SUBSET DOMAIN content /\ k \in places
  OBVIOUS
<1>2. UserBlocks(content, readable) = Picked(content, places)
  BY DEF UserBlocks
<1> HIDE DEF places
<1>3. QED
  BY <1>1, <1>2, PickedHas

LEMMA ResultIsSent ==
  ASSUME NEW h, NEW i, h[i].content \in Seq(MessageBlock),
         NEW k \in DOMAIN h[i].content, IsResult(h[i].content[k])
  PROVE  \E n \in DOMAIN ToolResults(h, i) :
           /\ ToolResults(h, i)[n].role = "toolResult"
           /\ ToolResults(h, i)[n].id = h[i].content[k].id
<1> DEFINE content == h[i].content
           places  == {n \in DOMAIN content : IsResult(content[n])}
           results == Picked(content, places)
<1>1. places \in SUBSET DOMAIN content /\ content \in Seq(MessageBlock) /\ k \in places
  OBVIOUS
<1>2. PICK n \in DOMAIN results : results[n] = content[k]
  <2> HIDE DEF places, content
  <2>1. QED
    BY <1>1, PickedHas
<1>3. Results(content) = results
  BY DEF Results
<1> HIDE DEF results
<1>4. n \in DOMAIN ToolResults(h, i)
      /\ ToolResults(h, i)[n].role = "toolResult" /\ ToolResults(h, i)[n].id = results[n].id
  BY <1>2, <1>3 DEF ToolResults
<1>5. QED
  BY <1>2, <1>4

\* The messages have what is to be sent of a block.
Carry(messages, block, readable) ==
  /\ IsSent(block, readable) =>
       \E m \in DOMAIN messages :
         \E n \in DOMAIN messages[m].content : messages[m].content[n] = block
  /\ IsResult(block) =>
       \E m \in DOMAIN messages :
         messages[m].role = "toolResult" /\ messages[m].id = block.id

LEMMA UserIsSent ==
  ASSUME NEW h, NEW i, h[i].content \in Seq(MessageBlock), NEW readable,
         NEW k \in DOMAIN h[i].content
  PROVE  Carry(FromUser(h, i, readable), h[i].content[k], readable)
<1> DEFINE messages == FromUser(h, i, readable)
           block    == h[i].content[k]
           blocks   == UserBlocks(h[i].content, readable)
           results  == ToolResults(h, i)
           first    == [role |-> "user", content |-> blocks]
<1>0. PICK n \in Nat : DOMAIN results = 1..n
  <2> DEFINE content == h[i].content
             places  == {j \in DOMAIN content : IsResult(content[j])}
  <2>1. Results(content) = Picked(content, places) /\ content \in Seq(MessageBlock)
    BY DEF Results
  <2>2. DOMAIN results = DOMAIN Results(content)
    BY DEF ToolResults
  <2> HIDE DEF places, content, results
  <2>3. Picked(content, places) \in Seq(MessageBlock)
    BY <2>1, LenProperties, PickedIs DEF Picks
  <2>4. QED
    BY <2>1, <2>2, <2>3, LenProperties
<1>1. ASSUME messages = <<first>> \o results
      PROVE  /\ 1 \in DOMAIN messages /\ messages[1] = first
             /\ \A m \in DOMAIN results :
                  m + 1 \in DOMAIN messages /\ messages[m + 1] = results[m]
  <2>1. results = [m \in 1..n |-> results[m]]
    BY <1>0 DEF ToolResults
  <2> HIDE DEF results, first, messages
  <2>2. results \in Seq({results[m] : m \in 1..n} \cup {first})
    BY <2>1
  <2>3. <<first>> \in Seq({results[m] : m \in 1..n} \cup {first})
    OBVIOUS
  <2>4. Len(results) = n
    BY <1>0, <2>2, LenProperties
  <2>5. QED
    BY <1>0, <1>1, <2>2, <2>3, <2>4
<1>2. messages = <<first>> \o results \/ (blocks = <<>> /\ messages = results)
  BY DEF FromUser
<1>3. ASSUME IsSent(block, readable)
      PROVE  \E m \in DOMAIN messages :
               \E j \in DOMAIN messages[m].content : messages[m].content[j] = block
  <2>1. PICK j \in DOMAIN blocks : blocks[j] = block
    <3> DEFINE content == h[i].content
    <3>1. content \in Seq(MessageBlock) /\ k \in DOMAIN content /\ IsSent(content[k], readable)
      BY <1>3
    <3> HIDE DEF content
    <3>2. \E j \in DOMAIN UserBlocks(content, readable) :
            UserBlocks(content, readable)[j] = content[k]
      BY <3>1, SentFromUser
    <3>3. QED
      BY <3>2 DEF content
  <2>2. blocks # <<>>
    BY <2>1
  <2>3. messages = <<first>> \o results
    <3> HIDE DEF messages, first, results, blocks
    <3>1. QED
      BY <1>2, <2>2
  <2>4. 1 \in DOMAIN messages /\ messages[1] = first /\ first.content = blocks
    BY <1>1, <2>3
  <2> HIDE DEF messages, first, results, blocks, block
  <2>5. QED
    BY <2>1, <2>4
<1>4. ASSUME IsResult(block)
      PROVE  \E m \in DOMAIN messages :
               messages[m].role = "toolResult" /\ messages[m].id = block.id
  <2>1. PICK m \in DOMAIN results : results[m].role = "toolResult" /\ results[m].id = block.id
    BY <1>4, ResultIsSent
  <2> HIDE DEF messages, first, results, blocks, block
  <2>2. QED
    BY <1>1, <1>2, <2>1
<1>5. QED
  BY <1>3, <1>4 DEF Carry

\* Whatever images cannot be read, a turn sends every text that is not empty,
\* every image that was read and every result (messages.ts:228-229).
THEOREM NothingIsLost == Spec => []TurnSendsItsText
<1>1. Inv => TurnSendsItsText
  <2> SUFFICES ASSUME Inv, pc = "streaming",
                      NEW i \in DOMAIN history, NEW k \in DOMAIN history[i].content
               PROVE  LET block    == history[i].content[k]
                          messages == ToPi(history, i, images)
                      IN  /\ IsSent(block, IF history[i].role = "user" THEN images ELSE {}) =>
                               \E m \in DOMAIN messages :
                                 \E n \in DOMAIN messages[m].content :
                                   messages[m].content[n] = block
                          /\ IsResult(block) =>
                               \E m \in DOMAIN messages :
                                 messages[m].role = "toolResult" /\ messages[m].id = block.id
    BY DEF TurnSendsItsText
  <2> DEFINE block    == history[i].content[k]
             messages == ToPi(history, i, images)
  <2>1. CASE history[i].role = "user"
    <3>1. history[i].content \in Seq(MessageBlock) /\ messages = FromUser(history, i, images)
      BY <2>1, ContentIs DEF ToPi
    <3>2. Carry(FromUser(history, i, images), block, images)
      BY <3>1, UserIsSent
    <3>3. Carry(messages, block, images)
      <4> HIDE DEF messages, block
      <4>1. QED
        BY <3>1, <3>2
    <3>4. QED
      BY <2>1, <3>3 DEF Carry
  <2>2. CASE history[i].role = "system"
    <3>1. history[i].content \in Seq(MessageBlock) /\ messages = FromSystem(history, i)
      BY <2>2, ContentIs DEF ToPi
    <3>2. ~IsResult(block)
      BY <2>2 DEF Inv, HistoryInv, MessageInv
    <3>3. ASSUME IsSent(block, {})
          PROVE  \E m \in DOMAIN messages :
                   \E n \in DOMAIN messages[m].content : messages[m].content[n] = block
      <4> DEFINE texts == UserBlocks(history[i].content, {})
      <4>1. PICK j \in DOMAIN texts : texts[j] = block
        <5> DEFINE content == history[i].content
        <5>1. content \in Seq(MessageBlock) /\ k \in DOMAIN content /\ IsSent(content[k], {})
          BY <3>1, <3>3
        <5> HIDE DEF content
        <5>2. \E j \in DOMAIN UserBlocks(content, {}) : UserBlocks(content, {})[j] = content[k]
          BY <5>1, SentFromUser
        <5>3. QED
          BY <5>2 DEF content
      <4>2. texts # <<>>
        BY <4>1
      <4>3. FromSystem(history, i) = <<[role |-> "user", content |-> texts]>>
        BY <4>2 DEF FromSystem
      <4> HIDE DEF texts, block, messages
      <4>4. 1 \in DOMAIN messages /\ messages[1].content = texts
        BY <3>1, <4>3
      <4>5. QED
        BY <4>1, <4>4
    <3>4. QED
      BY <2>2, <3>2, <3>3
  <2>3. CASE history[i].role = "assistant"
    <3>1. history[i].content \in Seq(TextBlock \cup CallBlock)
      BY <2>3, RepliesCanBeReplayed
    <3>2. block \in TextBlock \cup CallBlock
      BY <3>1, LenProperties, ElementOfSeq
    <3>3. ~IsResult(block)
      BY <3>2 DEF TextBlock, CallBlock, IsResult
    <3>4. ASSUME IsSent(block, {})
          PROVE  \E m \in DOMAIN messages :
                   \E n \in DOMAIN messages[m].content : messages[m].content[n] = block
      <4> DEFINE blocks == [n \in DOMAIN history[i].content |-> ToPiBlock(history[i].content[n])]
      <4>1. block.type = "text" /\ block \in TextBlock
        BY <3>2, <3>4 DEF IsSent, CallBlock
      <4>2. block = [type |-> "text", text |-> block.text]
        BY <4>1 DEF TextBlock
      <4>3. ToPiBlock(block) = [type |-> "text", text |-> block.text]
        BY <4>1 DEF ToPiBlock, IsCall
      <4>4. k \in DOMAIN blocks /\ blocks[k] = block
        BY <4>2, <4>3
      <4>5. messages = <<[role |-> "assistant", content |-> blocks]>>
        BY <2>3 DEF ToPi, FromAssistant
      <4> HIDE DEF blocks, block, messages
      <4>6. 1 \in DOMAIN messages /\ messages[1].content = blocks
        BY <4>5
      <4>7. QED
        BY <4>4, <4>6
    <3>5. QED
      BY <2>3, <3>3, <3>4
  <2>4. QED
    BY <2>1, <2>2, <2>3, ContentIs
<1>2. QED
  BY <1>1, Invariance, PTL

=============================================================================
