---------------------------- MODULE Conversation ----------------------------
(***************************************************************************)
(* A client's conversation through either plugin, request by request: what *)
(* CursorChat and CommandCodeChat make of a chat must fit what they made   *)
(* of it before.                                                           *)
(*                                                                         *)
(* The client sends its whole chat with every request, answers tool calls  *)
(* before it says anything else, and may go back to an earlier point.  Of  *)
(* Cursor's sessions one agent is kept; which one the cache keeps is up to *)
(* SessionCache.                                                           *)
(***************************************************************************)
EXTENDS CursorChat, CommandCodeChat

CONSTANT MaxMessages  \* bound: length of the chat

ASSUME ConversationAssumption ==
  /\ MaxMessages \in Nat
  /\ \E w \in Words : w \notin Labelled

VARIABLES
  chat,    \* the client's chat
  agent    \* the session's key, what its agent was sent and has answered, and whether
           \* that began with a system's message after the last turn

chatVars == <<chat, agent>>

\* What an agent takes from a line that is sent to it.
Heard(lines) == [i \in DOMAIN lines |->
  IF lines[i].label = "User" THEN [lines[i] EXCEPT !.label = ""] ELSE lines[i]]

ChatTypeOK ==
  /\ Len(chat) <= MaxMessages /\ \A i \in DOMAIN chat : chat[i] \in Message
  /\ \A i \in DOMAIN agent.key : agent.key[i].text \in Text
  /\ \A i \in DOMAIN agent.heard : agent.heard[i].text \in Text

\* Bound: what users say, of one word at most; what others say is blank or plain.
UserTexts == {<<>>} \cup {<<w>> : w \in Words}
Plain == CHOOSE w \in Words : w \notin Labelled
AnswerTexts == {<<>>, <<Plain>>}

\* The answers an Anthropic model may give with some calls: text before and after.
Answers(calls) ==
  LET uses == [i \in DOMAIN calls |-> Block("tool_use", <<>>, calls[i])]
      parts == {<<>>, <<TextBlock(<<Plain>>)>>} IN
  {text \o uses \o more : text \in parts, more \in parts}

Used == UNION {ToSet(chat[i].calls) : i \in DOMAIN chat}

\* Calls of one answer: ids the chat has not seen.
NewCalls ==
  {calls \in UNION {[1..n -> Calls \ Used] : n \in 0..MaxCalls} : IsInjective(calls)}

ClientWaits == chat # <<>> /\ chat[Len(chat)].role # "assistant" /\ Pending(chat) = {}

Room == Len(chat) < MaxMessages

-----------------------------------------------------------------------------
ClientSays(role, text) ==
  /\ Room /\ Pending(chat) = {}
  /\ chat # <<>> => chat[Len(chat)].role # role  \* bound: no two of a role in a row
  /\ chat' = Append(chat, Said(role, text))
  /\ UNCHANGED agent

\* A tool's result.
ClientReports(c, text) ==
  /\ Room /\ c \in Pending(chat)
  /\ chat' = Append(chat, [Said("tool", text) EXCEPT !.id = c])
  /\ UNCHANGED agent

\* One message, again and again for an earlier point.
ClientGoesBack ==
  /\ chat # <<>>
  /\ chat' = Front(chat)
  /\ UNCHANGED agent

\* What the agent was sent: a found one the increment, a new one the prompt.
HeardBefore ==
  IF MayReuse(chat, agent.key) THEN agent.heard \o Heard(SessionIncrement(chat))
  ELSE Heard(Prompt(chat))

LateSystem(c) ==
  LastAssistant(c) # 0 /\ \E i \in LastAssistant(c)..Len(c) : c[i].role = "system"

\* runOneShot answers; its agent is kept under the key of the turn after.
CursorAnswers(text) ==
  LET used == [key |-> nextSessionPrefix(chat, text),
               heard |-> HeardBefore \o AnswerLines(text),
               late |-> IF MayReuse(chat, agent.key) THEN agent.late ELSE LateSystem(chat)] IN
  /\ Len(chat) + 1 < MaxMessages  \* room for the request that finds the agent
  /\ ClientWaits /\ Prompt(chat) # <<>> /\ finalToolResults(chat) = <<>>
  /\ chat' = Append(chat, Said("assistant", text))
  /\ agent' = used

\* A tool run answers; it keeps no session.  With <<>> it is a run's end.
CursorRuns(text, calls) ==
  /\ Room /\ ClientWaits /\ (Prompt(chat) # <<>> \/ finalToolResults(chat) # <<>>)
  /\ chat' = Append(chat, [Said("assistant", text) EXCEPT !.calls = calls])
  /\ UNCHANGED agent

CommandCodeAnswers(blocks) ==
  /\ Room /\ ClientWaits
  /\ chat' = Append(chat, anthropicToChatCompletion(blocks))
  /\ UNCHANGED agent

-----------------------------------------------------------------------------
ChatInit ==
  /\ chat = <<>>
  /\ agent = [key |-> <<>>, heard |-> <<>>, late |-> FALSE]

ChatNext ==
  \/ ClientSays("system", <<Plain>>)
  \/ \E text \in UserTexts : ClientSays("user", text)
  \/ \E c \in Calls : ClientReports(c, <<Plain>>)
  \/ \E text \in AnswerTexts :
       \/ CursorAnswers(text)
       \/ \E calls \in NewCalls : CursorRuns(text, calls)
  \/ \E calls \in NewCalls : \E blocks \in Answers(calls) \ {<<>>} : CommandCodeAnswers(blocks)
  \/ ClientGoesBack

ChatSpec == ChatInit /\ [][ChatNext]_chatVars

-----------------------------------------------------------------------------
(* Properties *)

SeenPart(c) == SubSeq(c, 1, LastAssistant(c))

\* "The prefix is what a reused agent has already seen" (chatcompletions.go:192), no more
\* and no less.  Refuted: a system's message after the last answer goes to a new agent in
\* the prompt, and nextSessionPrefix leaves it out of the key.
PrefixIsWhatAgentSaw ==
  MayReuse(chat, agent.key) => agent.heard = Heard(Systems(SeenPart(chat)) \o Turns(SeenPart(chat)))

\* The agent a request finds was sent what came before the increment, and with the increment
\* has heard the whole chat, unless a system spoke after an answer: the key nextSessionPrefix
\* writes and the one sessionSplit reads mean the same.
FoundAgentHeardAll ==
  MayReuse(chat, agent.key) /\ ~agent.late =>
    agent.heard \o Heard(SessionIncrement(chat))
      = Heard(Systems(SeenPart(chat)) \o Turns(chat))

\* A chat as most clients send it: the system speaks only before the others, no answer is
\* blank, a user has spoken, and no first word of it looks like a label.
Ordinary(c) ==
  /\ \A i \in DOMAIN c : c[i].role = "system" =>
       \A j \in 1..(i - 1) : c[j].role = "system"
  /\ \A i \in DOMAIN c : c[i].role = "assistant" => c[i].text # <<>>
  /\ \E i \in DOMAIN c : c[i].role = "user" /\ c[i].text # <<>>
  /\ Len(Prompt(c)) = 1 => ToSet(Prompt(c)[1].text) \cap Labelled = {}

\* The next request of a conversation that just goes on finds the agent the turn left.
ContinuedIsFound ==
  [][agent' # agent /\ Ordinary(chat) =>
       \A text \in AnswerTexts \ {<<>>}, next \in UserTexts \ {<<>>} :
         CursorAnswers(text) => MayReuse(Append(chat', Said("user", next)), agent'.key)]_chatVars

\* Every tool call of an Anthropic chat is answered in the message after it, by one result,
\* ahead of anything else, whatever order the client reports in.
ResultsFollowCalls ==
  LET out == chatToAnthropic(chat) IN
  \A i \in DOMAIN out : OfType(out[i].content, "tool_use") # <<>> /\ Pending(chat) = {} =>
    /\ i < Len(out) /\ out[i + 1].role = "user"
    /\ LET n == Len(OfType(out[i].content, "tool_use"))
           results == SubSeq(out[i + 1].content, 1, n) IN
       /\ n <= Len(out[i + 1].content)
       /\ \A j \in DOMAIN results : results[j].type = "tool_result"
       /\ ToSet(Ids(results)) = ToSet(Ids(OfType(out[i].content, "tool_use")))

\* An answer an Anthropic model gave is shown to it as it gave it when the chat goes on, its
\* texts joined and its calls in order.
AnswerComesBack ==
  (chat # <<>> /\ Last(chat).role = "assistant") =>
    LET back == Last(chatToAnthropic(chat)).content IN
    \A blocks \in Answers(Last(chat).calls) \ {<<>>} : anthropicToChatCompletion(blocks) = Last(chat) =>
      /\ OfType(back, "tool_use") = OfType(blocks, "tool_use")
      /\ Texts(back) = Texts(blocks)
      /\ \A i \in DOMAIN back : back[i].type = "text" => back[i].text # <<>>

\* When the calls of a turn are answered, the results the tool relay is given are those of
\* this turn and all of them.
AllResultsDelivered ==
  (ClientWaits /\ chat[Len(chat)].role = "tool") =>
    LET results == finalToolResults(chat) IN
    /\ ToSet(Ids(results)) = ToSet(chat[LastAssistant(chat)].calls)
    /\ Len(results) = Len(chat[LastAssistant(chat)].calls)

\* Nothing of a chat is lost or moved when it is converted: what an agent has heard, results,
\* answers, calls.
ChatGoesThrough ==
  /\ ChatTypeOK /\ FoundAgentHeardAll
  /\ ResultsFollowCalls /\ AnswerComesBack /\ AllResultsDelivered
=============================================================================
