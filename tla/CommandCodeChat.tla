--------------------------- MODULE CommandCodeChat ---------------------------
(***************************************************************************)
(* What the Command Code plugin makes of a chat for an Anthropic model,    *)
(* and of its answer (auth-commandcode/go/anthropic.go: chatToAnthropic,   *)
(* convertUserContent, convertAssistantContent, convertToolResult,         *)
(* anthropicToChatCompletion).  The content of a message is one text;      *)
(* images, names and arguments are left out.                               *)
(***************************************************************************)
EXTENDS Chat

Block(type, text, id) == [type |-> type, text |-> text, id |-> id]

TextBlock(text) == Block("text", text, NoCall)

convertAssistantContent(message) ==
  LET text == IF message.text = <<>> /\ message.calls # <<>> THEN <<>>
              ELSE <<TextBlock(message.text)>> IN
  text \o [i \in DOMAIN message.calls |-> Block("tool_use", <<>>, message.calls[i])]

Out(role, blocks) == [role |-> role, content |-> blocks]

\* Variant: every result is a message of its own.
WithToolResult_Alone(out, block) == Append(out, Out("user", <<block>>))

\* A tool's result joins the user's message before it.
WithToolResult(out, block) ==
  IF out # <<>> /\ out[Len(out)].role = "user"
  THEN [out EXCEPT ![Len(out)].content = Append(@, block)]
  ELSE Append(out, Out("user", <<block>>))

\* One iteration over the messages; the system's are kept apart.
Convert(out, message) ==
  CASE message.role = "system" -> out
    [] message.role = "user" -> Append(out, Out("user", <<TextBlock(message.text)>>))
    [] message.role = "assistant" ->
         Append(out, Out("assistant", convertAssistantContent(message)))
    [] message.role = "tool" ->
         WithToolResult(out, Block("tool_result", message.text, message.id))

chatToAnthropic(chat) ==
  LET out[i \in 0 .. Len(chat)] == IF i = 0 THEN <<>> ELSE Convert(out[i - 1], chat[i])
  IN out[Len(chat)]

OfType(blocks, type) ==
  Flat([i \in DOMAIN blocks |-> IF blocks[i].type = type THEN <<blocks[i]>> ELSE <<>>])

Texts(blocks) == Flat([i \in DOMAIN blocks |-> blocks[i].text])

Ids(blocks) == [i \in DOMAIN blocks |-> blocks[i].id]

\* Variant: the last text block replaces those before it.
AnswerText_Last(blocks) ==
  LET texts == OfType(blocks, "text") IN
  IF texts = <<>> THEN <<>> ELSE texts[Len(texts)].text

\* Variant: the text blocks are not joined.
AnswerText_Parts(blocks) == OfType(blocks, "text")

AnswerText(blocks) == Texts(OfType(blocks, "text"))

anthropicToChatCompletion(blocks) ==
  [Said("assistant", AnswerText(blocks)) EXCEPT !.calls = Ids(OfType(blocks, "tool_use"))]
=============================================================================
