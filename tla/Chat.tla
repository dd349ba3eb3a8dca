-------------------------------- MODULE Chat --------------------------------
(***************************************************************************)
(* A chat as the client sends it with every request, in the form of        *)
(* OpenAI's chat completions.  A text is the sequence of what was joined   *)
(* to it, <<>> is a blank one; a tool call goes by its id.                 *)
(***************************************************************************)
EXTENDS Integers, Lists

CONSTANTS
  Words,     \* what texts are made of
  Calls,     \* ids of tool calls
  NoCall,
  MaxCalls   \* bound: calls of one message

ASSUME ChatAssumption ==
  /\ NoCall \notin Calls
  /\ MaxCalls \in Nat

Text == Seq(Words)

Roles == {"system", "user", "assistant", "tool"}

\* "calls" are an assistant's tool calls, "id" is the call a tool's message answers.
Message == [role : Roles, text : Text, calls : Seq(Calls), id : Calls \cup {NoCall}]

Said(role, text) == [role |-> role, text |-> text, calls |-> <<>>, id |-> NoCall]

\* The index of the last assistant's message, or 0.
LastAssistant(chat) == Max({0} \cup {i \in DOMAIN chat : chat[i].role = "assistant"})

\* The calls the last assistant's message made and no message after it answers.
Pending(chat) ==
  LET last == LastAssistant(chat) IN
  IF last = 0 THEN {}
  ELSE ToSet(chat[last].calls) \ {chat[i].id : i \in last..Len(chat)}
=============================================================================
