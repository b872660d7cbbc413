--------------------------- MODULE MCConversation ---------------------------
(* A small instance of Conversation.                                        *)
EXTENDS Conversation

CONSTANTS hi, empty, noOutput, pic, c1, c2, noId, read, edit, unknown, o, scalar

Text(t)  == [type |-> "text", text |-> t]
Image(a) == [type |-> "image", image |-> a]
Call(id, name, arguments) ==
  [type |-> "tool-call", id |-> id, name |-> name, arguments |-> arguments]

\* Thoughts, and two calls that may be streamed together.
MCReplies ==
  {[type |-> "thinking", text |-> hi],
   [type |-> "toolCall", id |-> c1, name |-> read, arguments |-> o],
   [type |-> "toolCall", id |-> c2, name |-> edit, arguments |-> o]}

\* An image with a text and one alone; a tool gives nothing.
MCUserContents == {<<Text(hi), Image(pic)>>, <<Image(pic)>>}
MCOutputs      == {<<Text(empty)>>}

\* Other models have used the same id, with arguments that are no object, and
\* one has drawn.
MCOtherReplies ==
  {<<Call(c1, edit, scalar), [type |-> "reasoning", text |-> hi]>>, <<Image(pic)>>}

MCNotice == <<Text(hi)>>
=============================================================================
