----------------------------- MODULE CursorChat -----------------------------
(***************************************************************************)
(* What the Cursor plugin makes of a chat (auth-cursor/go:                 *)
(* chatcompletions.go, and nextSessionPrefix of session.go).               *)
(*                                                                         *)
(* The chat becomes a prompt; what an agent of a session has seen of it    *)
(* and what it must still be sent are cut from it after the last           *)
(* assistant's turn.  A prompt is a sequence of lines, each a label and a  *)
(* text; that no text looks like the separator of two lines is assumed,    *)
(* that one may look like a label is not.  Images are left out.            *)
(***************************************************************************)
EXTENDS Chat

CONSTANT Labelled  \* words in which "User: ", "Assistant: " or "Tool result" occurs

Line(label, text, id) == [label |-> label, text |-> text, id |-> id]

SystemLines(message) ==
  IF message.role = "system" /\ message.text # <<>>
  THEN <<Line("", message.text, NoCall)>> ELSE <<>>

\* The lines of one message but a system's.
TurnLines(message) ==
  CASE message.role = "system" -> <<>>
    [] message.role = "tool" -> <<Line("Tool result", message.text, message.id)>>
    [] message.role = "user" ->
         IF message.text = <<>> THEN <<>> ELSE <<Line("User", message.text, NoCall)>>
    [] message.role = "assistant" ->
         (IF message.text = <<>> THEN <<>> ELSE <<Line("Assistant", message.text, NoCall)>>)
           \o [i \in DOMAIN message.calls |-> Line("Assistant requested", <<>>, message.calls[i])]

Systems(chat) == Flat([i \in DOMAIN chat |-> SystemLines(chat[i])])

Turns(chat) == Flat([i \in DOMAIN chat |-> TurnLines(chat[i])])

\* The system's lines first; a user's line on its own goes without its label.
buildPrompt(systemParts, turns) ==
  IF systemParts = <<>> /\ Len(turns) = 1 /\ turns[1].label = "User"
  THEN <<[turns[1] EXCEPT !.label = ""]>>
  ELSE systemParts \o turns

Prompt(chat) == buildPrompt(Systems(chat), Turns(chat))

(* sessionSplit *)

SessionPrefix(chat) == Prompt(SubSeq(chat, 1, LastAssistant(chat)))

\* Variant: the increment starts with the last assistant's turn.
SessionIncrement_WithAnswer(chat) ==
  IF LastAssistant(chat) = 0 THEN <<>>
  ELSE Turns(SubSeq(chat, LastAssistant(chat), Len(chat)))

\* A system's message after the last assistant's turn is not in it.
SessionIncrement(chat) ==
  IF LastAssistant(chat) = 0 THEN <<>>
  ELSE Turns(SubSeq(chat, LastAssistant(chat) + 1, Len(chat)))

\* The index of the last message that is not a tool's result, or 0.
LastOther(chat) ==
  Max({0} \cup {i \in DOMAIN chat : ~(chat[i].role = "tool" /\ chat[i].id # NoCall)})

\* Variant: the first of them is left out.
finalToolResults_ButFirst(chat) ==
  LET first == 1 + LastOther(chat) IN
  SubSeq(chat, first + 1, Len(chat))

\* The tool messages at the end of the chat.
finalToolResults(chat) ==
  LET first == 1 + LastOther(chat) IN
  SubSeq(chat, first, Len(chat))

(* The transcript the agent has seen when the turn is over. *)

LooksLabelled(line) ==
  line.label \in {"User", "Assistant", "Tool result"} \/ ToSet(line.text) \cap Labelled # {}

\* Variant: the prompt is the history, as it was sent.
labeledUserHistory_AsSent(prompt) == prompt

labeledUserHistory(prompt) ==
  IF prompt = <<>> \/ \E i \in DOMAIN prompt : LooksLabelled(prompt[i])
  THEN prompt
  ELSE [prompt EXCEPT ![1].label = "User"]

History(chat) ==
  IF SessionPrefix(chat) # <<>>
  THEN SessionPrefix(chat) \o SessionIncrement(chat)
  ELSE labeledUserHistory(Prompt(chat))

AnswerLines(text) == IF text = <<>> THEN <<>> ELSE <<Line("Assistant", text, NoCall)>>

nextSessionPrefix(chat, text) == History(chat) \o AnswerLines(text)

\* occupySession would take an agent kept under the key, for a request without tools.
MayReuse(chat, key) ==
  /\ SessionPrefix(chat) = key /\ key # <<>>
  /\ SessionIncrement(chat) # <<>>
  /\ finalToolResults(chat) = <<>>
=============================================================================
