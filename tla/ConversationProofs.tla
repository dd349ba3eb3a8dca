------------------------- MODULE ConversationProofs -------------------------
(***************************************************************************)
(* Theorems about what the plugins make of a chat, for any words, tool     *)
(* calls and length of it, and of the images in it, however they are sent. *)
(***************************************************************************)
EXTENDS MCConversation, ListTheorems, FiniteSetTheorems, TLAPS

(***************************************************************************)
(* The last message of a kind.                                             *)
(***************************************************************************)
IsLast(m, n, S) ==
  /\ m \in 0..n
  /\ m # 0 => m \in S
  /\ \A i \in (m + 1)..n : i \notin S

LEMMA LastOf ==
  ASSUME NEW n \in Nat, NEW S \in SUBSET (1..n)
  PROVE  IsLast(Max({0} \cup S), n, S)
<1> DEFINE M == Max({0} \cup S)
<1>1. {0} \cup S \in SUBSET (0..n) /\ {0} \cup S # {}
  OBVIOUS
<1>2. M \in {0} \cup S /\ \A i \in {0} \cup S : i <= M
  BY <1>1, Greatest
<1> HIDE DEF M
<1>3. M \in 0..n
  BY <1>1, <1>2
<1>4. \A i \in (M + 1)..n : i \notin S
  BY <1>2, <1>3
<1>5. QED BY <1>2, <1>3, <1>4 DEF IsLast, M

LEMMA OneIsLast ==
  ASSUME NEW n \in Nat, NEW S, NEW a, NEW b, IsLast(a, n, S), IsLast(b, n, S)
  PROVE  a = b
<1>1. a \in 0..n /\ b \in 0..n /\ a \in Int /\ b \in Int
  BY DEF IsLast
<1>2. ~(a < b)
  BY <1>1 DEF IsLast
<1>3. ~(b < a)
  BY <1>1 DEF IsLast
<1> QED BY <1>1, <1>2, <1>3

Assistants(c) == {i \in DOMAIN c : c[i].role = "assistant"}

Others(c) == {i \in DOMAIN c : ~(c[i].role = "tool" /\ c[i].id # NoCall)}

LEMMA LastAssistantIs ==
  ASSUME NEW c \in Seq(Message)
  PROVE  IsLast(LastAssistant(c), Len(c), Assistants(c))
<1>1. Len(c) \in Nat /\ Assistants(c) \in SUBSET (1..Len(c))
  BY DEF Assistants
<1> QED BY <1>1, LastOf DEF LastAssistant, Assistants

LEMMA LastOtherIs ==
  ASSUME NEW c \in Seq(Message)
  PROVE  IsLast(LastOther(c), Len(c), Others(c))
<1>1. Len(c) \in Nat /\ Others(c) \in SUBSET (1..Len(c))
  BY DEF Others
<1> QED BY <1>1, LastOf DEF LastOther, Others

\* What is known of the last assistant's message.
LEMMA LastAssistantKnown ==
  ASSUME NEW c \in Seq(Message)
  PROVE  /\ LastAssistant(c) \in 0..Len(c) /\ LastAssistant(c) \in Nat
         /\ LastAssistant(c) # 0 => c[LastAssistant(c)].role = "assistant"
         /\ \A i \in (LastAssistant(c) + 1)..Len(c) : c[i].role # "assistant"
<1> DEFINE a == LastAssistant(c)
<1>1. IsLast(a, Len(c), Assistants(c)) /\ Len(c) \in Nat /\ DOMAIN c = 1..Len(c)
  BY LastAssistantIs
<1> HIDE DEF a
<1>2. a \in 0..Len(c) /\ (a # 0 => a \in Assistants(c)) /\ \A i \in (a + 1)..Len(c) : i \notin Assistants(c)
  BY <1>1 DEF IsLast
<1>3. a # 0 => c[a].role = "assistant"
  BY <1>2 DEF Assistants
<1>4. ASSUME NEW i \in (a + 1)..Len(c)
      PROVE  c[i].role # "assistant"
  <2>1. i \in DOMAIN c /\ i \notin Assistants(c)
    BY <1>1, <1>2
  <2> QED BY <2>1 DEF Assistants
<1> QED BY <1>1, <1>2, <1>3, <1>4 DEF a

LEMMA LastAssistantEmpty == LastAssistant(<<>>) = 0
<1>1. <<>> \in Seq(Message) /\ Len(<<>>) = 0
  OBVIOUS
<1>2. LastAssistant(<<>>) \in 0..0
  BY <1>1, LastAssistantKnown
<1> QED BY <1>2

LEMMA LastAssistantAppend ==
  ASSUME NEW c \in Seq(Message), NEW m \in Message
  PROVE  LastAssistant(Append(c, m)) =
           IF m.role = "assistant" THEN Len(c) + 1 ELSE LastAssistant(c)
<1> DEFINE d == Append(c, m)
           n == Len(c)
           a == LastAssistant(c)
<1>1. /\ d \in Seq(Message) /\ Len(d) = n + 1 /\ n \in Nat
      /\ DOMAIN d = 1..n + 1 /\ DOMAIN c = 1..n
      /\ \A i \in 1..n : d[i] = c[i]
      /\ d[n + 1] = m
  BY AppendProperties, LenProperties
<1>2. IsLast(LastAssistant(d), n + 1, Assistants(d))
  BY <1>1, LastAssistantIs
<1>3. IsLast(a, n, Assistants(c))
  BY LastAssistantIs
<1> HIDE DEF d, n, a
<1>4. CASE m.role = "assistant"
  <2>1. n + 1 \in Assistants(d)
    BY <1>1, <1>4 DEF Assistants
  <2>2. IsLast(n + 1, n + 1, Assistants(d))
    BY <1>1, <2>1 DEF IsLast
  <2>3. LastAssistant(d) = n + 1
    BY <1>1, <1>2, <2>2, OneIsLast
  <2> QED BY <1>4, <2>3 DEF d, n
<1>5. CASE m.role # "assistant"
  <2>1. Assistants(d) = Assistants(c)
    <3>1. ASSUME NEW i \in Assistants(d)
          PROVE  i \in Assistants(c)
      BY <1>1, <1>5, <3>1 DEF Assistants
    <3>2. ASSUME NEW i \in Assistants(c)
          PROVE  i \in Assistants(d)
      BY <1>1, <3>2 DEF Assistants
    <3> QED BY <3>1, <3>2
  <2>2. n + 1 \notin Assistants(c)
    BY <1>1 DEF Assistants
  <2>3. IsLast(a, n + 1, Assistants(d))
    BY <1>1, <1>3, <2>1, <2>2 DEF IsLast
  <2>4. LastAssistant(d) = a
    BY <1>1, <1>2, <2>3, OneIsLast
  <2> QED BY <1>5, <2>4 DEF d, a
<1> QED BY <1>4, <1>5

(***************************************************************************)
(* The lines of a prompt.                                                  *)
(***************************************************************************)
LinesOf(labels) == [label : labels, text : Text, id : Calls \cup {NoCall}]

SystemLabels == {""}

TurnLabels == {"User", "Tool result", "Assistant", "Assistant requested"}

\* Of the messages but an assistant's.
OtherLabels == {"User", "Tool result"}

AllLines == LinesOf({""} \cup TurnLabels)

LEMMA OneIsSeq ==
  ASSUME NEW T, NEW x \in T
  PROVE  <<x>> \in Seq(T) /\ Len(<<x>>) = 1 /\ <<x>>[1] = x
OBVIOUS

LEMMA FunctionIsSeq ==
  ASSUME NEW T, NEW n \in Nat, NEW f \in [1..n -> T]
  PROVE  f \in Seq(T) /\ Len(f) = n
BY SeqDef

LEMMA SystemLinesType ==
  ASSUME NEW m \in Message
  PROVE  /\ SystemLines(m) \in Seq(LinesOf(SystemLabels))
         /\ m.role # "system" => SystemLines(m) = <<>>
<1>1. m.text \in Text
  BY DEF Message
<1>2. Line("", m.text, NoCall) \in LinesOf(SystemLabels)
  BY <1>1 DEF Line, LinesOf, SystemLabels
<1>3. /\ <<Line("", m.text, NoCall)>> \in Seq(LinesOf(SystemLabels))
      /\ <<>> \in Seq(LinesOf(SystemLabels))
  BY <1>2, OneIsSeq, EmptySeq
<1> QED BY <1>3 DEF SystemLines

LEMMA TurnLinesType ==
  ASSUME NEW m \in Message
  PROVE  /\ TurnLines(m) \in Seq(LinesOf(TurnLabels))
         /\ m.role # "assistant" => TurnLines(m) \in Seq(LinesOf(OtherLabels))
<1>1. m.text \in Text /\ m.calls \in Seq(Calls) /\ m.id \in Calls \cup {NoCall} /\ m.role \in Roles
  BY DEF Message
<1>2. /\ Line("Tool result", m.text, m.id) \in LinesOf(OtherLabels)
      /\ Line("User", m.text, NoCall) \in LinesOf(OtherLabels)
      /\ Line("Assistant", m.text, NoCall) \in LinesOf(TurnLabels)
  BY <1>1 DEF Line, LinesOf, OtherLabels, TurnLabels
<1>3. LinesOf(OtherLabels) \subseteq LinesOf(TurnLabels)
  BY DEF LinesOf, OtherLabels, TurnLabels
<1>4. CASE m.role = "assistant"
  <2> DEFINE said == IF m.text = <<>> THEN <<>> ELSE <<Line("Assistant", m.text, NoCall)>>
             asked == [i \in DOMAIN m.calls |-> Line("Assistant requested", <<>>, m.calls[i])]
  <2>1. said \in Seq(LinesOf(TurnLabels))
    <3>1. /\ <<Line("Assistant", m.text, NoCall)>> \in Seq(LinesOf(TurnLabels))
          /\ <<>> \in Seq(LinesOf(TurnLabels))
      BY <1>2, OneIsSeq, EmptySeq
    <3> QED BY <3>1
  <2>2. \A i \in DOMAIN m.calls : Line("Assistant requested", <<>>, m.calls[i]) \in LinesOf(TurnLabels)
    <3>1. \A i \in DOMAIN m.calls : m.calls[i] \in Calls
      BY <1>1
    <3>2. <<>> \in Text
      BY DEF Text
    <3> QED BY <3>1, <3>2 DEF Line, LinesOf, TurnLabels
  <2>3. Len(m.calls) \in Nat /\ DOMAIN m.calls = 1..Len(m.calls)
    BY <1>1
  <2>4. asked \in Seq(LinesOf(TurnLabels))
    <3>1. asked \in [1..Len(m.calls) -> LinesOf(TurnLabels)]
      BY <2>2, <2>3
    <3> HIDE DEF asked
    <3> QED BY <2>3, <3>1, FunctionIsSeq
  <2>5. TurnLines(m) = said \o asked
    BY <1>4 DEF TurnLines
  <2> HIDE DEF said, asked
  <2> QED BY <1>4, <2>1, <2>4, <2>5, ConcatProperties
<1>5. CASE m.role # "assistant"
  <2> DEFINE L == LinesOf(OtherLabels)
             result == <<Line("Tool result", m.text, m.id)>>
             said == <<Line("User", m.text, NoCall)>>
  <2>1. result \in Seq(L) /\ said \in Seq(L) /\ <<>> \in Seq(L)
    BY <1>2, OneIsSeq, EmptySeq
  <2>2. \/ m.role = "system" /\ TurnLines(m) = <<>>
        \/ m.role = "tool" /\ TurnLines(m) = result
        \/ m.role = "user" /\ TurnLines(m) = IF m.text = <<>> THEN <<>> ELSE said
    BY <1>1, <1>5 DEF TurnLines, Roles
  <2>3. TurnLines(m) \in Seq(L)
    <3> HIDE DEF L, result, said
    <3> QED BY <2>1, <2>2
  <2> QED BY <1>3, <2>3, SeqMonotonic
<1> QED BY <1>4, <1>5

\* Message by message.
SystemsOf(c) == [i \in DOMAIN c |-> SystemLines(c[i])]

TurnsOf(c) == [i \in DOMAIN c |-> TurnLines(c[i])]

LEMMA SystemsType ==
  ASSUME NEW c \in Seq(Message)
  PROVE  /\ SystemsOf(c) \in Seq(Seq(LinesOf(SystemLabels)))
         /\ Systems(c) \in Seq(LinesOf(SystemLabels))
<1>1. \A i \in DOMAIN c : SystemLines(c[i]) \in Seq(LinesOf(SystemLabels))
  <2>1. \A i \in DOMAIN c : c[i] \in Message
    OBVIOUS
  <2> QED BY <2>1, SystemLinesType
<1>2. Len(c) \in Nat /\ DOMAIN c = 1..Len(c)
  OBVIOUS
<1>3. SystemsOf(c) \in Seq(Seq(LinesOf(SystemLabels)))
  BY <1>1, <1>2 DEF SystemsOf
<1>4. Systems(c) = Flat(SystemsOf(c))
  BY DEF Systems, SystemsOf
<1> QED BY <1>3, <1>4, FlatType

LEMMA TurnsType ==
  ASSUME NEW c \in Seq(Message)
  PROVE  /\ TurnsOf(c) \in Seq(Seq(LinesOf(TurnLabels)))
         /\ Turns(c) \in Seq(LinesOf(TurnLabels))
<1>1. \A i \in DOMAIN c : TurnLines(c[i]) \in Seq(LinesOf(TurnLabels))
  <2>1. \A i \in DOMAIN c : c[i] \in Message
    OBVIOUS
  <2> QED BY <2>1, TurnLinesType
<1>2. Len(c) \in Nat /\ DOMAIN c = 1..Len(c)
  OBVIOUS
<1>3. TurnsOf(c) \in Seq(Seq(LinesOf(TurnLabels)))
  BY <1>1, <1>2 DEF TurnsOf
<1>4. Turns(c) = Flat(TurnsOf(c))
  BY DEF Turns, TurnsOf
<1> QED BY <1>3, <1>4, FlatType

\* No line of an assistant is in what the others said.
LEMMA OthersTurns ==
  ASSUME NEW c \in Seq(Message), \A i \in DOMAIN c : c[i].role # "assistant"
  PROVE  Turns(c) \in Seq(LinesOf(OtherLabels))
<1>1. \A i \in DOMAIN c : TurnLines(c[i]) \in Seq(LinesOf(OtherLabels))
  <2>1. \A i \in DOMAIN c : c[i] \in Message
    OBVIOUS
  <2> QED BY <2>1, TurnLinesType
<1>2. Len(c) \in Nat /\ DOMAIN c = 1..Len(c)
  OBVIOUS
<1>3. TurnsOf(c) \in Seq(Seq(LinesOf(OtherLabels)))
  BY <1>1, <1>2 DEF TurnsOf
<1>4. Turns(c) = Flat(TurnsOf(c))
  BY DEF Turns, TurnsOf
<1> QED BY <1>3, <1>4, FlatType

LEMMA NoSystems ==
  ASSUME NEW c \in Seq(Message), \A i \in DOMAIN c : c[i].role # "system"
  PROVE  Systems(c) = <<>>
<1>1. \A i \in DOMAIN c : SystemLines(c[i]) = <<>>
  <2>1. \A i \in DOMAIN c : c[i] \in Message
    OBVIOUS
  <2> QED BY <2>1, SystemLinesType
<1>2. Len(c) \in Nat /\ DOMAIN c = 1..Len(c)
  OBVIOUS
<1>3. \A i \in DOMAIN c : SystemLines(c[i]) \in Seq({})
  BY <1>1, EmptySeq
<1>4. SystemsOf(c) \in Seq(Seq({}))
  BY <1>2, <1>3 DEF SystemsOf
<1>5. Systems(c) \in Seq({})
  <2>1. Systems(c) = Flat(SystemsOf(c))
    BY DEF Systems, SystemsOf
  <2> QED BY <1>4, <2>1, FlatType
<1> QED BY <1>5

LEMMA LinesAppend ==
  ASSUME NEW c \in Seq(Message), NEW m \in Message
  PROVE  /\ Systems(Append(c, m)) = Systems(c) \o SystemLines(m)
         /\ Turns(Append(c, m)) = Turns(c) \o TurnLines(m)
<1> DEFINE d == Append(c, m)
           n == Len(c)
<1>1. /\ d \in Seq(Message) /\ Len(d) = n + 1 /\ n \in Nat
      /\ DOMAIN d = 1..n + 1 /\ DOMAIN c = 1..n
      /\ \A i \in 1..n : d[i] = c[i]
      /\ d[n + 1] = m
  BY AppendProperties, LenProperties
<1>2. /\ SystemsOf(c) \in Seq(Seq(LinesOf(SystemLabels)))
      /\ SystemsOf(d) \in Seq(Seq(LinesOf(SystemLabels)))
      /\ TurnsOf(c) \in Seq(Seq(LinesOf(TurnLabels)))
      /\ TurnsOf(d) \in Seq(Seq(LinesOf(TurnLabels)))
  BY <1>1, SystemsType, TurnsType
<1>3. SystemLines(m) \in Seq(LinesOf(SystemLabels)) /\ TurnLines(m) \in Seq(LinesOf(TurnLabels))
  BY SystemLinesType, TurnLinesType
<1>4. /\ Len(SystemsOf(c)) = n /\ Len(SystemsOf(d)) = n + 1
      /\ Len(TurnsOf(c)) = n /\ Len(TurnsOf(d)) = n + 1
  BY <1>1 DEF SystemsOf, TurnsOf
<1> HIDE DEF d, n
<1>5. SystemsOf(d) = Append(SystemsOf(c), SystemLines(m))
  <2> DEFINE S == Append(SystemsOf(c), SystemLines(m))
  <2>1. /\ S \in Seq(Seq(LinesOf(SystemLabels))) /\ Len(S) = n + 1
        /\ \A i \in 1..n : S[i] = SystemsOf(c)[i]
        /\ S[n + 1] = SystemLines(m)
    BY <1>2, <1>3, <1>4, AppendProperties
  <2>2. \A i \in 1..n + 1 : SystemsOf(d)[i] = SystemLines(d[i])
    BY <1>1 DEF SystemsOf
  <2>3. \A i \in 1..n : SystemsOf(c)[i] = SystemLines(c[i])
    BY <1>1 DEF SystemsOf
  <2> HIDE DEF S
  <2>4. \A i \in 1..n + 1 : SystemsOf(d)[i] = S[i]
    BY <1>1, <2>1, <2>2, <2>3
  <2> QED BY <1>2, <1>4, <2>1, <2>4, SeqEqual DEF S
<1>6. TurnsOf(d) = Append(TurnsOf(c), TurnLines(m))
  <2> DEFINE S == Append(TurnsOf(c), TurnLines(m))
  <2>1. /\ S \in Seq(Seq(LinesOf(TurnLabels))) /\ Len(S) = n + 1
        /\ \A i \in 1..n : S[i] = TurnsOf(c)[i]
        /\ S[n + 1] = TurnLines(m)
    BY <1>2, <1>3, <1>4, AppendProperties
  <2>2. \A i \in 1..n + 1 : TurnsOf(d)[i] = TurnLines(d[i])
    BY <1>1 DEF TurnsOf
  <2>3. \A i \in 1..n : TurnsOf(c)[i] = TurnLines(c[i])
    BY <1>1 DEF TurnsOf
  <2> HIDE DEF S
  <2>4. \A i \in 1..n + 1 : TurnsOf(d)[i] = S[i]
    BY <1>1, <2>1, <2>2, <2>3
  <2> QED BY <1>2, <1>4, <2>1, <2>4, SeqEqual DEF S
<1>7. /\ Systems(c) = Flat(SystemsOf(c)) /\ Systems(d) = Flat(SystemsOf(d))
      /\ Turns(c) = Flat(TurnsOf(c)) /\ Turns(d) = Flat(TurnsOf(d))
  BY DEF Systems, SystemsOf, Turns, TurnsOf
<1>8. Systems(d) = Systems(c) \o SystemLines(m)
  BY <1>2, <1>3, <1>5, <1>7, FlatAppend
<1>9. Turns(d) = Turns(c) \o TurnLines(m)
  BY <1>2, <1>3, <1>6, <1>7, FlatAppend
<1> QED BY <1>8, <1>9 DEF d

LEMMA LinesEmpty == Systems(<<>>) = <<>> /\ Turns(<<>>) = <<>>
<1>1. SystemsOf(<<>>) = <<>> /\ TurnsOf(<<>>) = <<>>
  <2>1. <<>> \in Seq(Message) /\ Len(<<>>) = 0
    OBVIOUS
  <2>2. Len(SystemsOf(<<>>)) = 0 /\ Len(TurnsOf(<<>>)) = 0
    BY <2>1 DEF SystemsOf, TurnsOf
  <2> QED BY <2>1, <2>2, SystemsType, TurnsType, EmptySeq
<1>2. Systems(<<>>) = Flat(SystemsOf(<<>>)) /\ Turns(<<>>) = Flat(TurnsOf(<<>>))
  BY DEF Systems, SystemsOf, Turns, TurnsOf
<1> QED BY <1>1, <1>2, FlatEmpty

LEMMA LinesConcat ==
  ASSUME NEW c \in Seq(Message), NEW d \in Seq(Message)
  PROVE  Systems(c \o d) = Systems(c) \o Systems(d) /\ Turns(c \o d) = Turns(c) \o Turns(d)
<1> DEFINE S == {e \in Seq(Message) : /\ Systems(c \o e) = Systems(c) \o Systems(e)
                                      /\ Turns(c \o e) = Turns(c) \o Turns(e)}
<1>1. Systems(c) \in Seq(LinesOf(SystemLabels)) /\ Turns(c) \in Seq(LinesOf(TurnLabels))
  BY SystemsType, TurnsType
<1>2. <<>> \in S
  <2>1. <<>> \in Seq(Message) /\ c \o <<>> = c
    BY EmptySeq, ConcatEmptySeq
  <2>2. Systems(c) \o <<>> = Systems(c) /\ Turns(c) \o <<>> = Turns(c)
    BY <1>1, ConcatEmptySeq
  <2> QED BY <2>1, <2>2, LinesEmpty
<1>3. ASSUME NEW e \in Seq(Message), NEW m \in Message, e \in S
      PROVE  Append(e, m) \in S
  <2>1. Append(e, m) \in Seq(Message) /\ c \o e \in Seq(Message)
    BY AppendProperties, ConcatProperties
  <2>2. c \o Append(e, m) = Append(c \o e, m)
    BY ConcatAppend
  <2>3. /\ Systems(Append(c \o e, m)) = Systems(c \o e) \o SystemLines(m)
        /\ Turns(Append(c \o e, m)) = Turns(c \o e) \o TurnLines(m)
        /\ Systems(Append(e, m)) = Systems(e) \o SystemLines(m)
        /\ Turns(Append(e, m)) = Turns(e) \o TurnLines(m)
    BY <2>1, LinesAppend
  <2>4. /\ Systems(e) \in Seq(LinesOf(SystemLabels)) /\ Turns(e) \in Seq(LinesOf(TurnLabels))
        /\ SystemLines(m) \in Seq(LinesOf(SystemLabels)) /\ TurnLines(m) \in Seq(LinesOf(TurnLabels))
    BY SystemsType, TurnsType, SystemLinesType, TurnLinesType
  <2>5. (Systems(c) \o Systems(e)) \o SystemLines(m) = Systems(c) \o (Systems(e) \o SystemLines(m))
    <3> DEFINE L == Seq(LinesOf(SystemLabels))
    <3>1. \A x, y, z \in L : (x \o y) \o z = x \o (y \o z)
      BY ConcatAssociative
    <3> HIDE DEF L
    <3>2. Systems(c) \in L /\ Systems(e) \in L /\ SystemLines(m) \in L
      BY <1>1, <2>4 DEF L
    <3> QED BY <3>1, <3>2
  <2>6. (Turns(c) \o Turns(e)) \o TurnLines(m) = Turns(c) \o (Turns(e) \o TurnLines(m))
    <3> DEFINE L == Seq(LinesOf(TurnLabels))
    <3>1. \A x, y, z \in L : (x \o y) \o z = x \o (y \o z)
      BY ConcatAssociative
    <3> HIDE DEF L
    <3>2. Turns(c) \in L /\ Turns(e) \in L /\ TurnLines(m) \in L
      BY <1>1, <2>4 DEF L
    <3> QED BY <3>1, <3>2
  <2>7. Systems(c \o e) = Systems(c) \o Systems(e) /\ Turns(c \o e) = Turns(c) \o Turns(e)
    BY <1>3
  <2> QED BY <2>1, <2>2, <2>3, <2>5, <2>6, <2>7
<1>4. Seq(Message) \subseteq S
  <2> HIDE DEF S
  <2> QED BY <1>2, <1>3, SeqInduction
<1> QED BY <1>4

(***************************************************************************)
(* What an agent hears of lines.                                           *)
(***************************************************************************)
HeardLine(line) == IF line.label = "User" THEN [line EXCEPT !.label = ""] ELSE line

LEMMA HeardLineType ==
  ASSUME NEW l \in AllLines
  PROVE  HeardLine(l) \in AllLines
<1>1. [l EXCEPT !.label = ""] \in AllLines
  BY DEF AllLines, LinesOf
<1> QED BY <1>1 DEF HeardLine

LEMMA HeardType ==
  ASSUME NEW s \in Seq(AllLines)
  PROVE  /\ Heard(s) \in Seq(AllLines) /\ Len(Heard(s)) = Len(s)
         /\ \A i \in 1..Len(s) : Heard(s)[i] = HeardLine(s[i])
<1>1. Len(s) \in Nat /\ DOMAIN s = 1..Len(s) /\ \A i \in 1..Len(s) : s[i] \in AllLines
  OBVIOUS
<1>2. \A i \in 1..Len(s) : HeardLine(s[i]) \in AllLines
  BY <1>1, HeardLineType
<1>3. Heard(s) = [i \in 1..Len(s) |-> HeardLine(s[i])]
  BY <1>1 DEF Heard, HeardLine
<1>4. Heard(s) \in [1..Len(s) -> AllLines]
  BY <1>2, <1>3
<1> QED BY <1>1, <1>3, <1>4, FunctionIsSeq

LEMMA HeardConcat ==
  ASSUME NEW s \in Seq(AllLines), NEW t \in Seq(AllLines)
  PROVE  Heard(s \o t) = Heard(s) \o Heard(t)
<1> DEFINE m == Len(s)
           n == Len(t)
           one == Heard(s \o t)
           two == Heard(s) \o Heard(t)
<1>1. m \in Nat /\ n \in Nat
  OBVIOUS
<1>2. /\ s \o t \in Seq(AllLines) /\ Len(s \o t) = m + n
      /\ \A i \in 1..m + n : (s \o t)[i] = IF i <= m THEN s[i] ELSE t[i - m]
  BY ConcatProperties
<1>3. /\ one \in Seq(AllLines) /\ Len(one) = m + n
      /\ \A i \in 1..m + n : one[i] = HeardLine((s \o t)[i])
  BY <1>2, HeardType
<1>4. /\ Heard(s) \in Seq(AllLines) /\ Len(Heard(s)) = m
      /\ \A i \in 1..m : Heard(s)[i] = HeardLine(s[i])
  BY HeardType
<1>5. /\ Heard(t) \in Seq(AllLines) /\ Len(Heard(t)) = n
      /\ \A i \in 1..n : Heard(t)[i] = HeardLine(t[i])
  BY HeardType
<1>6. /\ two \in Seq(AllLines) /\ Len(two) = m + n
      /\ \A i \in 1..m + n : two[i] = IF i <= m THEN Heard(s)[i] ELSE Heard(t)[i - m]
  <2>1. \A u, v \in Seq(AllLines) :
          /\ u \o v \in Seq(AllLines) /\ Len(u \o v) = Len(u) + Len(v)
          /\ \A i \in 1..Len(u) + Len(v) : (u \o v)[i] = IF i <= Len(u) THEN u[i] ELSE v[i - Len(u)]
    BY ConcatProperties
  <2> HIDE DEF m, n
  <2> QED BY <1>4, <1>5, <2>1
<1> HIDE DEF m, n, one, two
<1>7. ASSUME NEW i \in 1..m + n
      PROVE  one[i] = two[i]
  <2>1. CASE i <= m
    <3>1. i \in 1..m
      BY <1>1, <2>1
    <3> QED BY <1>2, <1>3, <1>4, <1>6, <2>1, <3>1
  <2>2. CASE ~(i <= m)
    <3>1. i - m \in 1..n
      BY <1>1, <2>2
    <3> QED BY <1>2, <1>3, <1>5, <1>6, <2>2, <3>1
  <2> QED BY <2>1, <2>2
<1>8. one = two
  BY <1>3, <1>6, <1>7, SeqEqual
<1> QED BY <1>8 DEF one, two

LEMMA HeardSame ==
  ASSUME NEW s \in Seq(AllLines), \A i \in 1..Len(s) : s[i].label # "User"
  PROVE  Heard(s) = s
<1>1. /\ Heard(s) \in Seq(AllLines) /\ Len(Heard(s)) = Len(s)
      /\ \A i \in 1..Len(s) : Heard(s)[i] = HeardLine(s[i])
  BY HeardType
<1>2. \A i \in 1..Len(s) : Heard(s)[i] = s[i]
  BY <1>1 DEF HeardLine
<1> QED BY <1>1, <1>2, SeqEqual

LEMMA LinesAreLines ==
  /\ LinesOf(SystemLabels) \subseteq AllLines
  /\ LinesOf(TurnLabels) \subseteq AllLines
  /\ LinesOf(OtherLabels) \subseteq LinesOf(TurnLabels)
  /\ \A s \in Seq(LinesOf(SystemLabels)) : s \in Seq(AllLines)
  /\ \A s \in Seq(LinesOf(TurnLabels)) : s \in Seq(AllLines)
<1>1. /\ LinesOf(SystemLabels) \subseteq AllLines
      /\ LinesOf(TurnLabels) \subseteq AllLines
      /\ LinesOf(OtherLabels) \subseteq LinesOf(TurnLabels)
  BY DEF AllLines, LinesOf, SystemLabels, TurnLabels, OtherLabels
<1> QED BY <1>1, SeqMonotonic

LEMMA LinesAssociate ==
  \A s, t, u \in Seq(AllLines) : (s \o t) \o u = s \o (t \o u)
BY ConcatAssociative

\* Without its label a lone user's line is heard as it would be with it.
LEMMA HeardPrompt ==
  ASSUME NEW sys \in Seq(LinesOf(SystemLabels)), NEW turns \in Seq(LinesOf(TurnLabels))
  PROVE  /\ buildPrompt(sys, turns) \in Seq(AllLines)
         /\ Heard(buildPrompt(sys, turns)) = Heard(sys \o turns)
<1>1. sys \in Seq(AllLines) /\ turns \in Seq(AllLines)
  BY LinesAreLines
<1>2. CASE sys = <<>> /\ Len(turns) = 1 /\ turns[1].label = "User"
  <2> DEFINE l == turns[1]
             bare == [l EXCEPT !.label = ""]
             lone == <<bare>>
  <2>1. buildPrompt(sys, turns) = lone
    BY <1>2 DEF buildPrompt
  <2>2. l \in AllLines /\ sys \o turns = turns
    <3>1. 1 \in 1..Len(turns)
      BY <1>2
    <3>2. l \in AllLines
      BY <1>1, <3>1, ElementOfSeq
    <3>3. <<>> \o turns = turns
      BY <1>1, ConcatEmptySeq
    <3> QED BY <1>2, <3>2, <3>3
  <2>3. bare \in AllLines /\ bare.label = "" /\ bare = HeardLine(l)
    BY <1>2, <2>2 DEF AllLines, LinesOf, HeardLine
  <2> HIDE DEF bare, l
  <2>4. lone \in Seq(AllLines) /\ Len(lone) = 1 /\ lone[1] = bare
    BY <2>3, OneIsSeq
  <2> HIDE DEF lone
  <2>5. \A i \in 1..Len(lone) : i = 1
    BY <2>4
  <2>6. Heard(lone) = lone
    <3>1. \A i \in 1..Len(lone) : lone[i].label # "User"
      BY <2>3, <2>4, <2>5
    <3> QED BY <2>4, <3>1, HeardSame
  <2>7. Heard(turns) \in Seq(AllLines) /\ Len(Heard(turns)) = 1 /\ Heard(turns)[1] = HeardLine(l)
    BY <1>1, <1>2, HeardType DEF l
  <2>8. lone = Heard(turns)
    <3>1. \A i \in 1..Len(lone) : lone[i] = Heard(turns)[i]
      BY <2>3, <2>4, <2>7, <2>5
    <3> QED BY <2>4, <2>7, <3>1, SeqEqual
  <2> QED BY <2>1, <2>2, <2>4, <2>6, <2>8
<1>3. CASE ~(sys = <<>> /\ Len(turns) = 1 /\ turns[1].label = "User")
  <2>1. buildPrompt(sys, turns) = sys \o turns
    BY <1>3 DEF buildPrompt
  <2> QED BY <1>1, <2>1, ConcatProperties
<1> QED BY <1>2, <1>3

(***************************************************************************)
(* A chat, cut after the last assistant's turn.                            *)
(***************************************************************************)
Rest(c) == SubSeq(c, LastAssistant(c) + 1, Len(c))

LEMMA Cut ==
  ASSUME NEW c \in Seq(Message)
  PROVE  /\ SeenPart(c) \in Seq(Message) /\ Rest(c) \in Seq(Message)
         /\ c = SeenPart(c) \o Rest(c)
         /\ \A i \in DOMAIN Rest(c) : Rest(c)[i].role # "assistant"
         /\ LastAssistant(c) # 0 /\ ~LateSystem(c) => \A i \in DOMAIN Rest(c) : Rest(c)[i].role # "system"
         /\ LastAssistant(c) # 0 => SessionIncrement(c) = Turns(Rest(c))
         /\ SessionPrefix(c) = Prompt(SeenPart(c))
         /\ LastAssistant(c) = 0 => SeenPart(c) = <<>> /\ SessionPrefix(c) = <<>>
<1> DEFINE a == LastAssistant(c)
           n == Len(c)
<1>1. /\ a \in 0..n /\ a \in Nat /\ n \in Nat /\ DOMAIN c = 1..n
      /\ \A i \in (a + 1)..n : c[i].role # "assistant"
      /\ \A i \in 1..n : c[i] \in Message
  BY LastAssistantKnown
<1>2. SeenPart(c) = SubSeq(c, 1, a) /\ Rest(c) = SubSeq(c, a + 1, n)
  BY DEF SeenPart, Rest
<1>3. SeenPart(c) \in Seq(Message)
  <2>1. \A i \in 1..a : c[i] \in Message
    BY <1>1
  <2> QED BY <1>1, <1>2, <2>1, SubSeqProperties
<1>4. /\ Rest(c) \in Seq(Message) /\ Len(Rest(c)) = n - a
      /\ \A i \in 1..n - a : Rest(c)[i] = c[a + i]
  <2>1. \A i \in (a + 1)..n : c[i] \in Message
    BY <1>1
  <2>2. /\ SubSeq(c, a + 1, n) \in Seq(Message)
        /\ Len(SubSeq(c, a + 1, n)) = IF a + 1 <= n THEN n - (a + 1) + 1 ELSE 0
        /\ \A i \in 1..n - (a + 1) + 1 : SubSeq(c, a + 1, n)[i] = c[(a + 1) + i - 1]
    BY <1>1, <2>1, SubSeqProperties
  <2>3. n - (a + 1) + 1 = n - a
    BY <1>1
  <2>4. \A i \in 1..n - a : (a + 1) + i - 1 = a + i
    BY <1>1
  <2>5. Len(Rest(c)) = n - a
    BY <1>1, <1>2, <2>2
  <2> HIDE DEF a, n
  <2> QED BY <1>2, <2>2, <2>3, <2>4, <2>5
<1>5. c = SeenPart(c) \o Rest(c)
  <2>1. 1 \in 1..n + 1 /\ a \in 1 - 1..n /\ n \in a..n
    BY <1>1
  <2>2. SubSeq(c, 1, a) \o SubSeq(c, a + 1, n) = SubSeq(c, 1, n)
    BY <2>1, ConcatAdjacentSubSeq
  <2>3. SubSeq(c, 1, n) = c
    BY SubSeqFull
  <2> QED BY <1>2, <2>2, <2>3
<1>6. DOMAIN Rest(c) = 1..n - a
  BY <1>4
<1>7. ASSUME NEW i \in DOMAIN Rest(c)
      PROVE  Rest(c)[i].role # "assistant"
  <2>1. a + i \in (a + 1)..n /\ i \in 1..n - a
    BY <1>1, <1>6
  <2> QED BY <1>1, <1>4, <2>1
<1>8. ASSUME a # 0, ~LateSystem(c), NEW i \in DOMAIN Rest(c)
      PROVE  Rest(c)[i].role # "system"
  <2>1. a + i \in a..n /\ i \in 1..n - a
    BY <1>1, <1>6
  <2> QED BY <1>4, <1>8, <2>1 DEF LateSystem
<1>9. a # 0 => SessionIncrement(c) = Turns(Rest(c))
  BY DEF SessionIncrement, Rest
<1>10. SessionPrefix(c) = Prompt(SeenPart(c))
  BY DEF SessionPrefix, SeenPart
<1>11. ASSUME a = 0
       PROVE  SeenPart(c) = <<>> /\ SessionPrefix(c) = <<>>
  <2>1. SeenPart(c) = <<>>
    BY <1>2, <1>11, SubSeqEmpty
  <2>2. Prompt(<<>>) = <<>>
    <3>1. <<>> \o <<>> = <<>> /\ Len(<<>>) # 1
      OBVIOUS
    <3> QED BY <3>1, LinesEmpty DEF Prompt, buildPrompt
  <2> QED BY <1>10, <2>1, <2>2
<1> HIDE DEF a, n
<1> QED BY <1>3, <1>4, <1>5, <1>7, <1>8, <1>9, <1>10, <1>11 DEF a

LEMMA LinesOfCut ==
  ASSUME NEW c \in Seq(Message)
  PROVE  /\ Systems(c) = Systems(SeenPart(c)) \o Systems(Rest(c))
         /\ Turns(c) = Turns(SeenPart(c)) \o Turns(Rest(c))
         /\ Turns(Rest(c)) \in Seq(LinesOf(OtherLabels))
         /\ LastAssistant(c) # 0 /\ ~LateSystem(c) => Systems(c) = Systems(SeenPart(c))
<1>1. /\ SeenPart(c) \in Seq(Message) /\ Rest(c) \in Seq(Message)
      /\ c = SeenPart(c) \o Rest(c)
      /\ \A i \in DOMAIN Rest(c) : Rest(c)[i].role # "assistant"
      /\ LastAssistant(c) # 0 /\ ~LateSystem(c) => \A i \in DOMAIN Rest(c) : Rest(c)[i].role # "system"
  BY Cut
<1>2. /\ Systems(SeenPart(c) \o Rest(c)) = Systems(SeenPart(c)) \o Systems(Rest(c))
      /\ Turns(SeenPart(c) \o Rest(c)) = Turns(SeenPart(c)) \o Turns(Rest(c))
  BY <1>1, LinesConcat
<1>3. Turns(Rest(c)) \in Seq(LinesOf(OtherLabels))
  BY <1>1, OthersTurns
<1>4. ASSUME LastAssistant(c) # 0, ~LateSystem(c)
      PROVE  Systems(c) = Systems(SeenPart(c))
  <2>1. Systems(Rest(c)) = <<>>
    BY <1>1, <1>4, NoSystems
  <2>2. Systems(SeenPart(c)) \o <<>> = Systems(SeenPart(c))
    BY <1>1, SystemsType, ConcatEmptySeq
  <2> QED BY <1>1, <1>2, <2>1, <2>2
<1> QED BY <1>1, <1>2, <1>3, <1>4

LEMMA PromptHeard ==
  ASSUME NEW c \in Seq(Message)
  PROVE  /\ Prompt(c) \in Seq(AllLines)
         /\ Heard(Prompt(c)) = Heard(Systems(c) \o Turns(c))
<1>1. Systems(c) \in Seq(LinesOf(SystemLabels)) /\ Turns(c) \in Seq(LinesOf(TurnLabels))
  BY SystemsType, TurnsType
<1> QED BY <1>1, HeardPrompt DEF Prompt

LEMMA EmptyPrompt ==
  ASSUME NEW sys \in Seq(LinesOf(SystemLabels)), NEW turns \in Seq(LinesOf(TurnLabels)),
         buildPrompt(sys, turns) = <<>>
  PROVE  sys = <<>> /\ turns = <<>>
<1>1. CASE sys = <<>> /\ Len(turns) = 1 /\ turns[1].label = "User"
  <2>1. buildPrompt(sys, turns) # <<>>
    BY <1>1 DEF buildPrompt
  <2> QED BY <2>1
<1>2. CASE ~(sys = <<>> /\ Len(turns) = 1 /\ turns[1].label = "User")
  <2>1. sys \o turns = <<>>
    BY <1>2 DEF buildPrompt
  <2>2. sys \in Seq(AllLines) /\ turns \in Seq(AllLines)
    BY LinesAreLines
  <2> QED BY <2>1, <2>2, ConcatEqualIffEmpty
<1> QED BY <1>1, <1>2

\* The labels of a prompt in which no assistant speaks.
BareLabels == {"", "User", "Tool result"}

LEMMA BarePrompt ==
  ASSUME NEW c \in Seq(Message), SessionPrefix(c) = <<>>
  PROVE  /\ Turns(c) \in Seq(LinesOf(OtherLabels))
         /\ Prompt(c) \in Seq(LinesOf(BareLabels))
<1>1. /\ SeenPart(c) \in Seq(Message)
      /\ SessionPrefix(c) = Prompt(SeenPart(c))
  BY Cut
<1>2. /\ Systems(SeenPart(c)) \in Seq(LinesOf(SystemLabels))
      /\ Turns(SeenPart(c)) \in Seq(LinesOf(TurnLabels))
  BY <1>1, SystemsType, TurnsType
<1>3. Turns(SeenPart(c)) = <<>>
  BY <1>1, <1>2, EmptyPrompt DEF Prompt
<1>4. Turns(c) \in Seq(LinesOf(OtherLabels))
  <2>1. Turns(c) = <<>> \o Turns(Rest(c)) /\ Turns(Rest(c)) \in Seq(LinesOf(OtherLabels))
    BY <1>3, LinesOfCut
  <2> QED BY <2>1, ConcatEmptySeq
<1> DEFINE sys == Systems(c)
           turns == Turns(c)
           L == LinesOf(BareLabels)
<1>5. sys \in Seq(L) /\ turns \in Seq(L)
  <2>1. LinesOf(SystemLabels) \subseteq L /\ LinesOf(OtherLabels) \subseteq L
    BY DEF LinesOf, SystemLabels, OtherLabels, BareLabels
  <2>2. sys \in Seq(LinesOf(SystemLabels))
    BY SystemsType
  <2> HIDE DEF sys, turns, L
  <2>3. turns \in Seq(LinesOf(OtherLabels))
    BY <1>4 DEF turns
  <2> QED BY <2>1, <2>2, <2>3, SeqMonotonic
<1>6. buildPrompt(sys, turns) \in Seq(L)
  <2> HIDE DEF sys, turns
  <2>1. CASE sys = <<>> /\ Len(turns) = 1 /\ turns[1].label = "User"
    <3> DEFINE l == turns[1]
               bare == [l EXCEPT !.label = ""]
    <3>1. 1 \in 1..Len(turns)
      BY <2>1
    <3>2. l \in L
      BY <1>5, <3>1, ElementOfSeq
    <3>3. bare \in L
      BY <3>2 DEF LinesOf, BareLabels
    <3>4. <<bare>> \in Seq(L)
      <4> HIDE DEF bare, L
      <4> QED BY <3>3, OneIsSeq
    <3> QED BY <2>1, <3>4 DEF buildPrompt
  <2>2. CASE ~(sys = <<>> /\ Len(turns) = 1 /\ turns[1].label = "User")
    <3>1. buildPrompt(sys, turns) = sys \o turns
      BY <2>2 DEF buildPrompt
    <3> HIDE DEF L
    <3> QED BY <1>5, <3>1, ConcatProperties
  <2> QED BY <2>1, <2>2
<1> QED BY <1>4, <1>6 DEF Prompt

\* The label that is put before a lone user's line is not heard.
LEMMA LabelUnheard ==
  ASSUME NEW p \in Seq(LinesOf(BareLabels))
  PROVE  /\ labeledUserHistory(p) \in Seq(AllLines)
         /\ Heard(labeledUserHistory(p)) = Heard(p)
<1>1. p \in Seq(AllLines)
  <2>1. LinesOf(BareLabels) \subseteq AllLines
    BY DEF LinesOf, BareLabels, AllLines, TurnLabels
  <2> QED BY <2>1, SeqMonotonic
<1>2. CASE p = <<>> \/ \E i \in DOMAIN p : LooksLabelled(p[i])
  <2>1. labeledUserHistory(p) = p
    BY <1>2 DEF labeledUserHistory
  <2> QED BY <1>1, <2>1
<1>3. CASE ~(p = <<>> \/ \E i \in DOMAIN p : LooksLabelled(p[i]))
  <2> DEFINE l == [p[1] EXCEPT !.label = "User"]
             q == [p EXCEPT ![1] = l]
  <2>1. labeledUserHistory(p) = q
    BY <1>3 DEF labeledUserHistory
  <2>2. Len(p) \in Nat /\ 1 \in 1..Len(p) /\ DOMAIN p = 1..Len(p)
    BY <1>3, EmptySeq, LenProperties
  <2>3. p[1] \in LinesOf(BareLabels) /\ ~LooksLabelled(p[1])
    BY <1>3, <2>2, ElementOfSeq
  <2>4. p[1].label = ""
    BY <2>3 DEF LooksLabelled, LinesOf, BareLabels
  <2>5. l \in AllLines /\ HeardLine(l) = p[1] /\ HeardLine(p[1]) = p[1]
    <3>1. l \in AllLines /\ l.label = "User"
      BY <2>3 DEF LinesOf, BareLabels, AllLines, TurnLabels
    <3>2. [l EXCEPT !.label = ""] = p[1]
      BY <2>3, <2>4 DEF LinesOf
    <3> QED BY <2>4, <3>1, <3>2 DEF HeardLine
  <2> HIDE DEF l
  <2>6. /\ q \in Seq(AllLines) /\ Len(q) = Len(p)
        /\ \A j \in 1..Len(p) : q[j] = IF j = 1 THEN l ELSE p[j]
    BY <1>1, <2>2, <2>5, ExceptSeq
  <2> HIDE DEF q
  <2>7. /\ Heard(q) \in Seq(AllLines) /\ Len(Heard(q)) = Len(p)
        /\ \A i \in 1..Len(p) : Heard(q)[i] = HeardLine(q[i])
    BY <2>6, HeardType
  <2>8. /\ Heard(p) \in Seq(AllLines) /\ Len(Heard(p)) = Len(p)
        /\ \A i \in 1..Len(p) : Heard(p)[i] = HeardLine(p[i])
    BY <1>1, HeardType
  <2>9. \A i \in 1..Len(p) : Heard(q)[i] = Heard(p)[i]
    BY <2>5, <2>6, <2>7, <2>8
  <2>10. Heard(q) = Heard(p)
    BY <2>7, <2>8, <2>9, SeqEqual
  <2> QED BY <2>1, <2>6, <2>10
<1> QED BY <1>2, <1>3

\* The lines of an increment.
LEMMA IncrementType ==
  ASSUME NEW c \in Seq(Message)
  PROVE  /\ SessionIncrement(c) \in Seq(AllLines)
         /\ SessionPrefix(c) \in Seq(AllLines)
         /\ LastAssistant(c) # 0 =>
              /\ Turns(c) = Turns(SeenPart(c)) \o SessionIncrement(c)
              /\ SessionIncrement(c) = Turns(Rest(c))
<1>1. /\ SeenPart(c) \in Seq(Message) /\ Rest(c) \in Seq(Message)
      /\ LastAssistant(c) # 0 => SessionIncrement(c) = Turns(Rest(c))
      /\ SessionPrefix(c) = Prompt(SeenPart(c))
  BY Cut
<1>2. Turns(c) = Turns(SeenPart(c)) \o Turns(Rest(c))
  BY LinesOfCut
<1>3. Turns(Rest(c)) \in Seq(AllLines)
  BY <1>1, TurnsType, LinesAreLines
<1>4. LastAssistant(c) = 0 => SessionIncrement(c) = <<>>
  BY DEF SessionIncrement
<1>5. SessionIncrement(c) \in Seq(AllLines)
  BY <1>1, <1>3, <1>4, EmptySeq
<1>6. SessionPrefix(c) \in Seq(AllLines)
  BY <1>1, PromptHeard
<1> QED BY <1>1, <1>2, <1>5, <1>6

\* The prefix and what comes after it are heard as the chat they are cut from.
LEMMA HeardCut ==
  ASSUME NEW c \in Seq(Message), LastAssistant(c) # 0
  PROVE  Heard(SessionPrefix(c) \o SessionIncrement(c))
           = Heard(Systems(SeenPart(c)) \o Turns(c))
<1> DEFINE sys == Systems(SeenPart(c))
           seen == Turns(SeenPart(c))
           more == SessionIncrement(c)
           prefix == SessionPrefix(c)
           L == Seq(AllLines)
<1>1. SeenPart(c) \in Seq(Message) /\ SessionPrefix(c) = Prompt(SeenPart(c))
  BY Cut
<1>2. sys \in L /\ seen \in L /\ more \in L /\ prefix \in L
  BY <1>1, SystemsType, TurnsType, LinesAreLines, IncrementType
<1>3. Heard(prefix) = Heard(sys \o seen)
  BY <1>1, PromptHeard
<1>4. Turns(c) = seen \o more
  BY IncrementType
<1> HIDE DEF sys, seen, more, prefix
<1>5. sys \o seen \in L
  BY <1>2, ConcatProperties
<1>6. \A s, t \in L : Heard(s \o t) = Heard(s) \o Heard(t)
  BY HeardConcat
<1>7. \A s, t, u \in L : (s \o t) \o u = s \o (t \o u)
  BY ConcatAssociative
<1> HIDE DEF L
<1>8. /\ Heard(prefix \o more) = Heard(prefix) \o Heard(more)
      /\ Heard((sys \o seen) \o more) = Heard(sys \o seen) \o Heard(more)
      /\ (sys \o seen) \o more = sys \o (seen \o more)
  BY <1>2, <1>5, <1>6, <1>7
<1> QED BY <1>3, <1>4, <1>8 DEF sys, seen, more, prefix

\* What nextSessionPrefix writes is what a new agent heard.
LEMMA HistoryHeard ==
  ASSUME NEW c \in Seq(Message)
  PROVE  /\ History(c) \in Seq(AllLines)
         /\ ~LateSystem(c) => Heard(History(c)) = Heard(Prompt(c))
<1>1. CASE SessionPrefix(c) # <<>>
  <2>1. LastAssistant(c) # 0
    BY <1>1, Cut
  <2>2. History(c) = SessionPrefix(c) \o SessionIncrement(c)
    BY <1>1 DEF History
  <2>3. History(c) \in Seq(AllLines)
    BY <2>2, IncrementType, ConcatProperties
  <2>4. ASSUME ~LateSystem(c)
        PROVE  Heard(History(c)) = Heard(Prompt(c))
    <3>1. Systems(c) = Systems(SeenPart(c))
      BY <2>1, <2>4, LinesOfCut
    <3> QED BY <2>1, <2>2, <3>1, HeardCut, PromptHeard
  <2> QED BY <2>3, <2>4
<1>2. CASE SessionPrefix(c) = <<>>
  <2>1. History(c) = labeledUserHistory(Prompt(c))
    BY <1>2 DEF History
  <2> QED BY <1>2, <2>1, BarePrompt, LabelUnheard
<1> QED BY <1>1, <1>2

LEMMA AnswerHeard ==
  ASSUME NEW text \in Text
  PROVE  AnswerLines(text) \in Seq(AllLines) /\ Heard(AnswerLines(text)) = AnswerLines(text)
<1> DEFINE l == Line("Assistant", text, NoCall)
           lone == <<l>>
<1>1. l \in AllLines /\ l.label = "Assistant"
  BY DEF Line, AllLines, LinesOf, TurnLabels
<1> HIDE DEF l
<1>2. lone \in Seq(AllLines) /\ Len(lone) = 1 /\ lone[1] = l
  BY <1>1, OneIsSeq
<1> HIDE DEF lone
<1>3. Heard(lone) = lone
  <2>1. \A i \in 1..Len(lone) : i = 1
    BY <1>2
  <2>2. \A i \in 1..Len(lone) : lone[i].label # "User"
    BY <1>1, <1>2, <2>1
  <2> QED BY <1>2, <2>2, HeardSame
<1>4. Heard(<<>>) = <<>> /\ <<>> \in Seq(AllLines)
  <2>1. <<>> \in Seq(AllLines) /\ \A i \in 1..Len(<<>>) : <<>>[i].label # "User"
    OBVIOUS
  <2> QED BY <2>1, HeardSame
<1>5. AnswerLines(text) = IF text = <<>> THEN <<>> ELSE lone
  BY DEF AnswerLines, lone, l
<1> QED BY <1>2, <1>3, <1>4, <1>5

(***************************************************************************)
(* The agent: it has heard its key.                                        *)
(***************************************************************************)
AgentType == agent \in [key : Seq(AllLines), heard : Seq(AllLines), late : BOOLEAN]

AgentHeardKey == ~agent.late => agent.heard = Heard(agent.key)

LEMMA ReuseKnown ==
  ASSUME NEW c \in Seq(Message), NEW key, MayReuse(c, key)
  PROVE  /\ LastAssistant(c) # 0
         /\ SessionPrefix(c) = key /\ key # <<>>
         /\ History(c) = key \o SessionIncrement(c)
<1>1. SessionPrefix(c) = key /\ key # <<>>
  BY DEF MayReuse
<1>2. LastAssistant(c) # 0
  BY <1>1, Cut
<1> QED BY <1>1, <1>2 DEF History

LEMMA FoundHeardAll ==
  ASSUME chat \in Seq(Message), AgentType, AgentHeardKey
  PROVE  FoundAgentHeardAll
<1> SUFFICES ASSUME MayReuse(chat, agent.key), ~agent.late
             PROVE  agent.heard \o Heard(SessionIncrement(chat))
                      = Heard(Systems(SeenPart(chat)) \o Turns(chat))
  BY DEF FoundAgentHeardAll
<1>1. LastAssistant(chat) # 0 /\ SessionPrefix(chat) = agent.key
  BY ReuseKnown
<1>2. agent.heard = Heard(SessionPrefix(chat))
  BY <1>1 DEF AgentHeardKey
<1>3. Heard(SessionPrefix(chat) \o SessionIncrement(chat))
        = Heard(SessionPrefix(chat)) \o Heard(SessionIncrement(chat))
  BY IncrementType, HeardConcat
<1>4. Heard(SessionPrefix(chat) \o SessionIncrement(chat))
        = Heard(Systems(SeenPart(chat)) \o Turns(chat))
  BY <1>1, HeardCut
<1> QED BY <1>2, <1>3, <1>4

\* An agent that has answered has heard the key it is kept under.
LEMMA AnswerKeepsKey ==
  ASSUME chat \in Seq(Message), AgentType, AgentHeardKey,
         NEW text \in Text, CursorAnswers(text)
  PROVE  AgentType' /\ AgentHeardKey'
<1> DEFINE said == AnswerLines(text)
           key == nextSessionPrefix(chat, text)
           heard == HeardBefore \o said
           late == IF MayReuse(chat, agent.key) THEN agent.late ELSE LateSystem(chat)
           L == Seq(AllLines)
<1>1. agent' = [key |-> key, heard |-> heard, late |-> late]
  BY DEF CursorAnswers
<1>2. agent.key \in L /\ agent.heard \in L /\ agent.late \in BOOLEAN
  BY DEF AgentType
<1>3. said \in L /\ Heard(said) = said
  BY AnswerHeard
<1>4. /\ SessionIncrement(chat) \in L /\ Prompt(chat) \in L /\ History(chat) \in L
      /\ Heard(SessionIncrement(chat)) \in L /\ Heard(Prompt(chat)) \in L
  BY IncrementType, PromptHeard, HistoryHeard, HeardType
<1>5. key = History(chat) \o said
  BY DEF nextSessionPrefix
<1>6. \A s, t \in L : Heard(s \o t) = Heard(s) \o Heard(t)
  BY HeardConcat
<1>7. key \in L /\ Heard(key) = Heard(History(chat)) \o said
  <2>1. key \in L
    BY <1>3, <1>4, <1>5, ConcatProperties
  <2> HIDE DEF L, said, key
  <2>2. Heard(key) = Heard(History(chat)) \o Heard(said)
    BY <1>3, <1>4, <1>5, <1>6
  <2> QED BY <1>3, <2>1, <2>2
<1> HIDE DEF L, said, key, heard, late
<1>8. HeardBefore \in L /\ late \in BOOLEAN /\ (~late => HeardBefore = Heard(History(chat)))
  <2>1. CASE MayReuse(chat, agent.key)
    <3>1. HeardBefore = agent.heard \o Heard(SessionIncrement(chat)) /\ late = agent.late
      BY <2>1 DEF HeardBefore, late
    <3>2. HeardBefore \in L
      BY <1>2, <1>4, <3>1, ConcatProperties DEF L
    <3>3. ASSUME ~late
          PROVE  HeardBefore = Heard(History(chat))
      <4>1. History(chat) = agent.key \o SessionIncrement(chat)
        BY <2>1, ReuseKnown
      <4>2. agent.heard = Heard(agent.key)
        BY <3>1, <3>3 DEF AgentHeardKey
      <4> QED BY <1>2, <1>4, <1>6, <3>1, <4>1, <4>2
    <3> QED BY <1>2, <3>1, <3>2, <3>3
  <2>2. CASE ~MayReuse(chat, agent.key)
    <3>1. HeardBefore = Heard(Prompt(chat)) /\ late = LateSystem(chat)
      BY <2>2 DEF HeardBefore, late
    <3>2. late \in BOOLEAN
      BY <3>1 DEF LateSystem
    <3>3. ~late => HeardBefore = Heard(History(chat))
      BY <3>1, HistoryHeard
    <3> QED BY <1>4, <3>1, <3>2, <3>3
  <2> QED BY <2>1, <2>2
<1>9. heard \in L /\ (~late => heard = Heard(key))
  <2>1. HeardBefore \o said \in L
    BY <1>3, <1>8, ConcatProperties DEF L
  <2> QED BY <1>7, <1>8, <2>1 DEF heard
<1>10. AgentType'
  BY <1>1, <1>7, <1>8, <1>9 DEF AgentType, L
<1>11. AgentHeardKey'
  <2>1. agent'.late = late /\ agent'.heard = heard /\ agent'.key = key
    BY <1>1
  <2>2. AgentHeardKey' <=> (~agent'.late => agent'.heard = Heard(agent'.key))
    BY DEF AgentHeardKey, Heard
  <2> QED BY <1>9, <2>1, <2>2
<1> QED BY <1>10, <1>11

(***************************************************************************)
(* A conversation that just goes on.                                       *)
(***************************************************************************)
\* A chat, cut at one of its messages.
LEMMA CutAt ==
  ASSUME NEW c \in Seq(Message), NEW k \in DOMAIN c
  PROVE  \E before, after \in Seq(Message) :
           /\ SubSeq(c, 1, k) = Append(before, c[k])
           /\ c = Append(before, c[k]) \o after
<1> DEFINE n == Len(c)
           before == SubSeq(c, 1, k - 1)
           after == SubSeq(c, k + 1, n)
<1>1. n \in Nat /\ k \in 1..n /\ \A i \in 1..n : c[i] \in Message
  OBVIOUS
<1>2. before \in Seq(Message) /\ after \in Seq(Message)
  <2>1. /\ \A i \in 1..(k - 1) : c[i] \in Message
        /\ \A i \in (k + 1)..n : c[i] \in Message
    BY <1>1
  <2> QED BY <1>1, <2>1, SubSeqProperties
<1>3. SubSeq(c, 1, k) = Append(before, c[k])
  <2>1. 1 \in 1..Len(c) /\ k \in 1..Len(c)
    BY <1>1
  <2>2. SubSeq(c, 1, k) = before \o <<c[k]>>
    BY <2>1, SubSeqRecursiveSecond
  <2> QED BY <1>1, <1>2, <2>2, AppendIsConcat
<1>4. c = Append(before, c[k]) \o after
  <2>1. 1 \in 1..n + 1 /\ k \in 1 - 1..n /\ n \in k..n
    BY <1>1
  <2>2. SubSeq(c, 1, k) \o after = SubSeq(c, 1, n)
    BY <2>1, ConcatAdjacentSubSeq
  <2> QED BY <1>3, <2>2, SubSeqFull
<1> HIDE DEF before, after
<1> QED BY <1>2, <1>3, <1>4

\* A line of one message is a line of the chat.
LEMMA TurnHasLine ==
  ASSUME NEW c \in Seq(Message), NEW k \in DOMAIN c, TurnLines(c[k]) # <<>>
  PROVE  Turns(c) # <<>>
<1>1. PICK before \in Seq(Message), after \in Seq(Message) : c = Append(before, c[k]) \o after
  BY CutAt
<1>2. c[k] \in Message
  BY ElementOfSeq
<1>3. Turns(c) = (Turns(before) \o TurnLines(c[k])) \o Turns(after)
  <2>1. Append(before, c[k]) \in Seq(Message)
    BY <1>2, AppendProperties
  <2>2. Turns(Append(before, c[k]) \o after) = Turns(Append(before, c[k])) \o Turns(after)
    BY <2>1, LinesConcat
  <2>3. Turns(Append(before, c[k])) = Turns(before) \o TurnLines(c[k])
    BY <1>2, LinesAppend
  <2> QED BY <1>1, <2>2, <2>3
<1> DEFINE L == Seq(LinesOf(TurnLabels))
<1>4. Turns(before) \in L /\ Turns(after) \in L /\ TurnLines(c[k]) \in L
  BY <1>2, TurnsType, TurnLinesType
<1>5. Turns(before) \o TurnLines(c[k]) \in L
  BY <1>4, ConcatProperties
<1>6. \A s, t \in L : s \o t = <<>> => s = <<>> /\ t = <<>>
  BY ConcatEqualIffEmpty
<1> HIDE DEF L
<1> QED BY <1>3, <1>4, <1>5, <1>6

\* Where an assistant has spoken, no line loses its label.
AllLabelled(sys, turns) == turns # <<>> /\ buildPrompt(sys, turns) = sys \o turns

LEMMA AssistantSpeaks ==
  ASSUME NEW sys \in Seq(AllLines), NEW before \in Seq(AllLines), NEW asked \in Seq(AllLines),
         NEW lone \in Seq(AllLines), Len(lone) = 1, lone[1].label = "Assistant"
  PROVE  AllLabelled(sys, before \o (lone \o asked))
<1> DEFINE said == lone \o asked
           line == lone[1]
           turns == before \o (lone \o asked)
<1>1. \A u, v \in Seq(AllLines) :
        /\ u \o v \in Seq(AllLines) /\ Len(u \o v) = Len(u) + Len(v)
        /\ \A i \in 1..Len(u) + Len(v) : (u \o v)[i] = IF i <= Len(u) THEN u[i] ELSE v[i - Len(u)]
  BY ConcatProperties
<1>2. turns = before \o said /\ line.label = "Assistant"
  OBVIOUS
<1>3. said \in Seq(AllLines) /\ Len(said) = 1 + Len(asked) /\ said[1] = line
  <2>1. Len(asked) \in Nat
    OBVIOUS
  <2>2. /\ said \in Seq(AllLines) /\ Len(said) = Len(lone) + Len(asked)
        /\ \A i \in 1..Len(lone) + Len(asked) :
             said[i] = IF i <= Len(lone) THEN lone[i] ELSE asked[i - Len(lone)]
    BY <1>1
  <2> HIDE DEF said
  <2> QED BY <2>1, <2>2
<1> HIDE DEF said, line, turns
<1>4. Len(before) \in Nat /\ Len(asked) \in Nat
  OBVIOUS
<1>5. /\ turns \in Seq(AllLines) /\ Len(turns) = Len(before) + 1 + Len(asked)
      /\ turns[Len(before) + 1] = line
  <2>1. /\ before \o said \in Seq(AllLines) /\ Len(before \o said) = Len(before) + Len(said)
        /\ \A i \in 1..Len(before) + Len(said) :
             (before \o said)[i] = IF i <= Len(before) THEN before[i] ELSE said[i - Len(before)]
    BY <1>1, <1>3
  <2>2. Len(before) + 1 \in 1..Len(before) + Len(said) /\ (Len(before) + 1) - Len(before) = 1
    BY <1>3, <1>4
  <2> QED BY <1>2, <1>3, <1>4, <2>1, <2>2
<1>6. turns # <<>>
  BY <1>4, <1>5
<1>7. ~(Len(turns) = 1 /\ turns[1].label = "User")
  BY <1>2, <1>4, <1>5
<1>8. AllLabelled(sys, turns)
  BY <1>6, <1>7 DEF buildPrompt, AllLabelled
<1> QED BY <1>8 DEF turns

\* A turn of an assistant who spoke begins with what it said.
LEMMA SpokenLines ==
  ASSUME NEW m \in Message, m.role = "assistant", m.text # <<>>
  PROVE  \E lone \in Seq(AllLines), asked \in Seq(AllLines) :
           /\ lone = <<Line("Assistant", m.text, NoCall)>>
           /\ Len(lone) = 1 /\ lone[1].label = "Assistant"
           /\ TurnLines(m) = lone \o asked
           /\ m.calls = <<>> => asked = <<>>
<1> DEFINE line == Line("Assistant", m.text, NoCall)
           asked == [i \in DOMAIN m.calls |-> Line("Assistant requested", <<>>, m.calls[i])]
           lone == <<line>>
<1>1. /\ m.text \in Text /\ m.calls \in Seq(Calls) /\ Len(m.calls) \in Nat
      /\ DOMAIN m.calls = 1..Len(m.calls)
  BY DEF Message
<1>2. line \in AllLines /\ line.label = "Assistant"
  BY <1>1 DEF Line, AllLines, LinesOf, TurnLabels
<1>3. \A i \in 1..Len(m.calls) : Line("Assistant requested", <<>>, m.calls[i]) \in AllLines
  <2>1. \A i \in 1..Len(m.calls) : m.calls[i] \in Calls
    BY <1>1
  <2>2. <<>> \in Text
    BY DEF Text
  <2> QED BY <2>1, <2>2 DEF Line, AllLines, LinesOf, TurnLabels
<1>4. asked \in [1..Len(m.calls) -> AllLines]
  BY <1>1, <1>3
<1>5. TurnLines(m) = lone \o asked
  BY DEF TurnLines
<1> HIDE DEF line, asked
<1>6. lone \in Seq(AllLines) /\ Len(lone) = 1 /\ lone[1] = line
  BY <1>2, OneIsSeq
<1>7. lone = <<Line("Assistant", m.text, NoCall)>>
  BY DEF line
<1> HIDE DEF lone
<1>8. asked \in Seq(AllLines) /\ Len(asked) = Len(m.calls)
  BY <1>1, <1>4, FunctionIsSeq
<1>9. m.calls = <<>> => asked = <<>>
  BY <1>8, EmptySeq
<1> QED BY <1>2, <1>5, <1>8, <1>9, <1>6, <1>7

\* The history an answer is added to is the chat as it is sent.
LEMMA OrdinaryHistory ==
  ASSUME NEW c \in Seq(Message), Ordinary(c)
  PROVE  History(c) = Systems(c) \o Turns(c)
<1> DEFINE a == LastAssistant(c)
<1>1. Turns(c) # <<>>
  <2>1. PICK k \in DOMAIN c : c[k].role = "user" /\ c[k].text # <<>>
    BY DEF Ordinary
  <2>2. TurnLines(c[k]) # <<>>
    BY <2>1 DEF TurnLines
  <2> QED BY <2>2, TurnHasLine
<1>2. /\ SeenPart(c) \in Seq(Message)
      /\ SessionPrefix(c) = Prompt(SeenPart(c))
      /\ a = 0 => SessionPrefix(c) = <<>>
  BY Cut
<1>3. Systems(c) \in Seq(AllLines) /\ Turns(c) \in Seq(AllLines)
  BY SystemsType, TurnsType, LinesAreLines
<1>4. CASE a # 0
  <2>1. /\ a \in 1..Len(c) /\ DOMAIN c = 1..Len(c) /\ Len(c) \in Nat
        /\ c[a].role = "assistant" /\ c[a] \in Message
    BY <1>4, LastAssistantKnown, LenProperties, ElementOfSeq
  <2>2. c[a].text # <<>>
    BY <2>1 DEF Ordinary
  <2>3. ~LateSystem(c)
    <3> SUFFICES ASSUME NEW i \in a..Len(c), c[i].role = "system"
                 PROVE  FALSE
      BY DEF LateSystem
    <3>1. i # a
      BY <2>1
    <3>2. a \in 1..(i - 1) /\ i \in DOMAIN c
      BY <2>1, <3>1
    <3>3. c[a].role = "system"
      BY <3>2 DEF Ordinary
    <3> QED BY <2>1, <3>3
  <2>4. Systems(c) = Systems(SeenPart(c))
    BY <1>4, <2>3, LinesOfCut
  <2>5. PICK before \in Seq(Message) : SubSeq(c, 1, a) = Append(before, c[a])
    BY <2>1, CutAt
  <2>6. PICK lone \in Seq(AllLines), asked \in Seq(AllLines) :
          Len(lone) = 1 /\ lone[1].label = "Assistant" /\ TurnLines(c[a]) = lone \o asked
    BY <2>1, <2>2, SpokenLines
  <2>7. Turns(SeenPart(c)) = Turns(before) \o (lone \o asked)
    BY <2>1, <2>5, <2>6, LinesAppend DEF SeenPart
  <2>8. Turns(before) \in Seq(AllLines) /\ Turns(SeenPart(c)) \in Seq(AllLines)
    BY <1>2, TurnsType, LinesAreLines
  <2> DEFINE sys == Systems(c)
             seen == Turns(SeenPart(c))
             more == SessionIncrement(c)
  <2>9. /\ seen # <<>>
         /\ buildPrompt(sys, seen) = sys \o seen
    <3>1. AllLabelled(sys, Turns(before) \o (lone \o asked))
      BY <1>3, <2>6, <2>8, AssistantSpeaks
    <3> QED BY <2>7, <3>1 DEF AllLabelled
  <2>10. SessionPrefix(c) = sys \o seen
    BY <1>2, <2>4, <2>9 DEF Prompt
  <2>11. sys \in Seq(AllLines) /\ seen \in Seq(AllLines) /\ more \in Seq(AllLines)
         /\ Turns(c) = seen \o more
    BY <1>3, <1>4, <2>8, IncrementType
  <2> HIDE DEF sys, seen, more
  <2>12. SessionPrefix(c) # <<>>
    BY <2>9, <2>10, <2>11, ConcatEqualIffEmpty
  <2>13. History(c) = (sys \o seen) \o more
    BY <2>10, <2>12 DEF History, more
  <2>14. (sys \o seen) \o more = sys \o (seen \o more)
    <3>1. sys \in Seq(AllLines) /\ seen \in Seq(AllLines) /\ more \in Seq(AllLines)
      BY <2>11
    <3> QED BY <3>1, LinesAssociate
  <2> QED BY <2>11, <2>13, <2>14 DEF sys
<1>5. CASE a = 0
  <2> DEFINE sys == Systems(c)
             turns == Turns(c)
             p == Prompt(c)
  <2>1. /\ History(c) = labeledUserHistory(p)
        /\ turns \in Seq(LinesOf(OtherLabels)) /\ p \in Seq(LinesOf(BareLabels))
    BY <1>2, <1>5, BarePrompt DEF History
  <2>2. p = buildPrompt(sys, turns) /\ sys \in Seq(AllLines) /\ turns \in Seq(AllLines) /\ turns # <<>>
    BY <1>1, <1>3 DEF Prompt
  <2>3. Len(p) = 1 => ToSet(p[1].text) \cap Labelled = {}
    BY DEF Ordinary
  <2> HIDE DEF sys, turns, p
  <2>4. Len(turns) \in Nat /\ 1 \in 1..Len(turns)
    BY <2>2, EmptySeq, LenProperties
  <2>5. turns[1] \in LinesOf(OtherLabels)
    BY <2>1, <2>4, ElementOfSeq
  <2>6. CASE sys = <<>> /\ Len(turns) = 1 /\ turns[1].label = "User"
    <3> DEFINE l == turns[1]
               bare == [l EXCEPT !.label = ""]
               q == [p EXCEPT ![1] = [p[1] EXCEPT !.label = "User"]]
    <3>1. p = <<bare>>
      BY <2>2, <2>6 DEF buildPrompt
    <3>2. bare.label = "" /\ bare.text = l.text /\ [bare EXCEPT !.label = "User"] = l
      BY <2>5, <2>6 DEF LinesOf
    <3>3. l \in AllLines /\ bare \in AllLines
      <4>1. l \in AllLines
        BY <2>2, <2>4, ElementOfSeq
      <4> QED BY <4>1 DEF AllLines, LinesOf
    <3> HIDE DEF bare, l
    <3>4. p \in Seq(AllLines) /\ Len(p) = 1 /\ p[1] = bare
      BY <3>1, <3>3, OneIsSeq
    <3>5. ~LooksLabelled(bare) /\ DOMAIN p = {1} /\ p # <<>>
      <4>1. ~LooksLabelled(bare)
        BY <2>3, <3>2, <3>4 DEF LooksLabelled
      <4>2. DOMAIN p = {1}
        BY <3>4
      <4>3. p # <<>>
        BY <3>1
      <4> QED BY <4>1, <4>2, <4>3
    <3>6. labeledUserHistory(p) = q
      BY <3>4, <3>5 DEF labeledUserHistory
    <3>7. q \in Seq(AllLines) /\ Len(q) = 1 /\ q[1] = l
      <4>1. 1 \in 1..Len(p)
        BY <3>4
      <4>2. q = [p EXCEPT ![1] = l]
        BY <3>2, <3>4
      <4> QED BY <3>3, <3>4, <4>1, <4>2, ExceptSeq
    <3> HIDE DEF q
    <3>8. turns = q
      <4>1. \A i \in 1..Len(turns) : turns[i] = q[i]
        <5>1. \A i \in 1..Len(turns) : i = 1
          BY <2>6
        <5> QED BY <3>7, <5>1 DEF l
      <4> QED BY <2>2, <2>6, <3>7, <4>1, SeqEqual
    <3>9. <<>> \o turns = turns
      BY <2>2, ConcatEmptySeq
    <3> QED BY <2>1, <2>6, <3>6, <3>8, <3>9 DEF sys, turns
  <2>7. CASE ~(sys = <<>> /\ Len(turns) = 1 /\ turns[1].label = "User")
    <3>1. p = sys \o turns
      BY <2>2, <2>7 DEF buildPrompt
    <3>2. /\ p \in Seq(AllLines) /\ Len(p) = Len(sys) + Len(turns)
          /\ \A i \in 1..Len(sys) + Len(turns) : p[i] = IF i <= Len(sys) THEN sys[i] ELSE turns[i - Len(sys)]
      BY <2>2, <3>1, ConcatProperties
    <3>3. Len(sys) \in Nat
      BY <2>2
    <3>4. Len(sys) + 1 \in 1..Len(p) /\ (Len(sys) + 1) - Len(sys) = 1 /\ ~(Len(sys) + 1 <= Len(sys))
      BY <2>4, <3>2, <3>3
    <3>5. Len(sys) + 1 \in DOMAIN p /\ p[Len(sys) + 1] = turns[1]
      BY <3>2, <3>4
    <3>6. LooksLabelled(turns[1])
      BY <2>5 DEF LooksLabelled, LinesOf, OtherLabels
    <3>7. labeledUserHistory(p) = p
      BY <3>5, <3>6 DEF labeledUserHistory
    <3> QED BY <2>1, <3>1, <3>7 DEF sys, turns
  <2> QED BY <2>6, <2>7
<1> QED BY <1>4, <1>5

\* The request after an answer, of a user who says more.
LEMMA ContinuedFinds ==
  ASSUME NEW c \in Seq(Message), Ordinary(c),
         NEW text \in Text, text # <<>>, NEW next \in Text, next # <<>>
  PROVE  MayReuse(Append(Append(c, Said("assistant", text)), Said("user", next)),
                  nextSessionPrefix(c, text))
<1> DEFINE n == Len(c)
           answer == Said("assistant", text)
           more == Said("user", next)
           d == Append(c, answer)
           e == Append(d, more)
           key == nextSessionPrefix(c, text)
<1>1. /\ answer \in Message /\ answer.role = "assistant" /\ answer.text = text /\ answer.calls = <<>>
      /\ more \in Message /\ more.role = "user" /\ more.text = next
  BY DEF Said, Message, Roles
<1> HIDE DEF answer, more
<1>2. /\ n \in Nat /\ d \in Seq(Message) /\ Len(d) = n + 1 /\ d[n + 1] = answer
      /\ \A i \in 1..n : d[i] = c[i]
  BY <1>1, AppendProperties, LenProperties
<1> HIDE DEF n, d
<1>3. /\ e \in Seq(Message) /\ Len(e) = n + 2 /\ e[n + 2] = more
      /\ \A i \in 1..n + 1 : e[i] = d[i]
  <2>1. /\ e \in Seq(Message) /\ Len(e) = Len(d) + 1 /\ e[Len(d) + 1] = more
        /\ \A i \in 1..Len(d) : e[i] = d[i]
    BY <1>1, <1>2, AppendProperties
  <2> HIDE DEF e
  <2> QED BY <1>2, <2>1
<1>4. LastAssistant(e) = n + 1
  <2>1. LastAssistant(d) = n + 1
    BY <1>1, LastAssistantAppend DEF d, n
  <2> QED BY <1>1, <1>2, <2>1, LastAssistantAppend
<1> HIDE DEF e
<1>5. SeenPart(e) = d
  <2> DEFINE seen == SubSeq(e, 1, n + 1)
  <2>1. \A i \in 1..n + 1 : e[i] \in Message
    BY <1>2, <1>3, ElementOfSeq
  <2>2. /\ seen \in Seq(Message) /\ Len(seen) = n + 1
        /\ \A i \in 1..n + 1 : seen[i] = e[i]
    BY <1>2, <2>1, SubSeqProperties
  <2> HIDE DEF seen
  <2>3. seen = d
    BY <1>2, <1>3, <2>2, SeqEqual
  <2> QED BY <1>4, <2>3 DEF SeenPart, seen
<1>6. PICK lone \in Seq(AllLines), asked \in Seq(AllLines) :
        /\ lone = <<Line("Assistant", text, NoCall)>>
        /\ Len(lone) = 1 /\ lone[1].label = "Assistant"
        /\ TurnLines(answer) = lone \o asked /\ asked = <<>>
  BY <1>1, SpokenLines
<1>7. AnswerLines(text) = lone
  BY <1>6 DEF AnswerLines
<1> DEFINE sys == Systems(c)
           turns == Turns(c)
<1>8. sys \in Seq(AllLines) /\ turns \in Seq(AllLines)
  BY SystemsType, TurnsType, LinesAreLines
<1>9. Systems(d) = sys /\ Turns(d) = turns \o (lone \o asked)
  <2>1. Systems(d) = sys \o SystemLines(answer) /\ Turns(d) = turns \o TurnLines(answer)
    BY <1>1, LinesAppend DEF d
  <2>2. SystemLines(answer) = <<>>
    BY <1>1, SystemLinesType
  <2> QED BY <1>6, <1>8, <2>1, <2>2, ConcatEmptySeq
<1>10. History(c) = sys \o turns
  BY OrdinaryHistory
<1> HIDE DEF sys, turns
<1>11. Prompt(d) = sys \o (turns \o (lone \o asked))
  <2>1. AllLabelled(sys, turns \o (lone \o asked))
    BY <1>6, <1>8, AssistantSpeaks
  <2> QED BY <1>9, <2>1 DEF Prompt, AllLabelled
<1>12. lone \o asked = lone
  BY <1>6, ConcatEmptySeq
<1>13. key = (sys \o turns) \o lone
  BY <1>7, <1>10 DEF nextSessionPrefix
<1>14. SessionPrefix(e) = key
  <2>1. SessionPrefix(e) = Prompt(d)
    BY <1>3, <1>5, Cut
  <2>2. (sys \o turns) \o lone = sys \o (turns \o lone)
    BY <1>6, <1>8, LinesAssociate
  <2> QED BY <1>11, <1>12, <1>13, <2>1, <2>2
<1>15. key # <<>>
  <2>1. sys \o turns \in Seq(AllLines)
    BY <1>8, ConcatProperties
  <2>2. lone # <<>>
    BY <1>6
  <2> QED BY <1>6, <1>13, <2>1, <2>2, ConcatEqualIffEmpty
<1>16. SessionIncrement(e) # <<>>
  <2> DEFINE rest == SubSeq(e, n + 2, n + 2)
  <2>1. \A i \in (n + 2)..(n + 2) : e[i] \in Message
    BY <1>1, <1>2, <1>3
  <2>2. rest \in Seq(Message) /\ Len(rest) = 1 /\ rest[1] = more
    <3>1. /\ rest \in Seq(Message)
          /\ Len(rest) = IF n + 2 <= n + 2 THEN (n + 2) - (n + 2) + 1 ELSE 0
          /\ \A i \in 1..(n + 2) - (n + 2) + 1 : rest[i] = e[n + 2 + i - 1]
      BY <1>2, <2>1, SubSeqProperties
    <3> HIDE DEF rest
    <3> QED BY <1>2, <1>3, <3>1
  <2>3. SessionIncrement(e) = Turns(rest)
    BY <1>2, <1>3, <1>4 DEF SessionIncrement
  <2> HIDE DEF rest
  <2>4. TurnLines(more) # <<>>
    BY <1>1 DEF TurnLines
  <2>5. 1 \in DOMAIN rest
    BY <2>2
  <2>6. TurnLines(rest[1]) # <<>>
    BY <2>2, <2>4
  <2> QED BY <2>2, <2>3, <2>5, <2>6, TurnHasLine
<1>17. finalToolResults(e) = <<>>
  <2>1. IsLast(LastOther(e), n + 2, Others(e))
    BY <1>3, LastOtherIs
  <2>2. IsLast(n + 2, n + 2, Others(e))
    <3>1. n + 2 \in DOMAIN e
      BY <1>2, <1>3
    <3>2. n + 2 \in Others(e)
      BY <1>1, <1>3, <3>1 DEF Others
    <3> QED BY <1>2, <3>2 DEF IsLast
  <2>3. LastOther(e) = n + 2
    <3>1. n + 2 \in Nat
      BY <1>2
    <3> QED BY <2>1, <2>2, <3>1, OneIsLast
  <2>4. SubSeq(e, 1 + (n + 2), n + 2) = <<>>
    BY <1>2, SubSeqEmpty
  <2> QED BY <1>3, <2>3, <2>4 DEF finalToolResults
<1>18. MayReuse(e, key)
  BY <1>14, <1>15, <1>16, <1>17 DEF MayReuse
<1> QED BY <1>18 DEF d, e, answer, more

(***************************************************************************)
(* The blocks of an Anthropic message.                                     *)
(***************************************************************************)
Types == {"text", "tool_use", "tool_result"}

Blocks == [type : Types, text : Text, id : Calls \cup {NoCall}]

BlocksOf(type) == {b \in Blocks : b.type = type}

IfOf(b, type) == IF b.type = type THEN <<b>> ELSE <<>>

OfTypes(blocks, type) == [i \in DOMAIN blocks |-> IfOf(blocks[i], type)]

TextsOf(blocks) == [i \in DOMAIN blocks |-> blocks[i].text]

LEMMA OfTypesType ==
  ASSUME NEW s \in Seq(Blocks), NEW type
  PROVE  OfTypes(s, type) \in Seq(Seq(BlocksOf(type))) /\ Len(OfTypes(s, type)) = Len(s)
<1>1. Len(s) \in Nat /\ DOMAIN s = 1..Len(s) /\ \A i \in 1..Len(s) : s[i] \in Blocks
  OBVIOUS
<1>2. ASSUME NEW b \in Blocks
      PROVE  IfOf(b, type) \in Seq(BlocksOf(type))
  <2>1. CASE b.type = type
    <3>1. b \in BlocksOf(type)
      BY <2>1 DEF BlocksOf
    <3> QED BY <2>1, <3>1, OneIsSeq DEF IfOf
  <2>2. CASE b.type # type
    BY <2>2, EmptySeq DEF IfOf
  <2> QED BY <2>1, <2>2
<1>3. OfTypes(s, type) \in [1..Len(s) -> Seq(BlocksOf(type))]
  BY <1>1, <1>2 DEF OfTypes
<1> QED BY <1>1, <1>3, FunctionIsSeq

LEMMA TextsOfType ==
  ASSUME NEW s \in Seq(Blocks)
  PROVE  TextsOf(s) \in Seq(Text) /\ Len(TextsOf(s)) = Len(s)
<1>1. Len(s) \in Nat /\ DOMAIN s = 1..Len(s) /\ \A i \in 1..Len(s) : s[i] \in Blocks
  OBVIOUS
<1>2. TextsOf(s) \in [1..Len(s) -> Text]
  BY <1>1 DEF TextsOf, Blocks
<1> QED BY <1>1, <1>2, FunctionIsSeq

LEMMA OfTypeType ==
  ASSUME NEW s \in Seq(Blocks), NEW type
  PROVE  OfType(s, type) \in Seq(BlocksOf(type)) /\ OfType(s, type) \in Seq(Blocks)
<1>1. OfType(s, type) = Flat(OfTypes(s, type))
  BY DEF OfType, OfTypes, IfOf
<1>2. OfType(s, type) \in Seq(BlocksOf(type))
  BY <1>1, OfTypesType, FlatType
<1>3. BlocksOf(type) \subseteq Blocks
  BY DEF BlocksOf
<1> QED BY <1>2, <1>3, SeqMonotonic

LEMMA TextsType ==
  ASSUME NEW s \in Seq(Blocks)
  PROVE  Texts(s) \in Text
<1>1. Texts(s) = Flat(TextsOf(s))
  BY DEF Texts, TextsOf
<1>2. TextsOf(s) \in Seq(Seq(Words))
  BY TextsOfType DEF Text
<1> QED BY <1>1, <1>2, FlatType DEF Text

LEMMA BlocksEmpty ==
  Texts(<<>>) = <<>> /\ \A type : OfType(<<>>, type) = <<>>
<1>1. <<>> \in Seq(Blocks) /\ Len(<<>>) = 0
  OBVIOUS
<1>2. TextsOf(<<>>) = <<>>
  BY <1>1, TextsOfType, EmptySeq
<1>3. Texts(<<>>) = <<>>
  BY <1>2, FlatEmpty DEF Texts, TextsOf
<1>4. ASSUME NEW type
      PROVE  OfType(<<>>, type) = <<>>
  <2>1. OfTypes(<<>>, type) = <<>>
    BY <1>1, OfTypesType, EmptySeq
  <2> QED BY <2>1, FlatEmpty DEF OfType, OfTypes, IfOf
<1> QED BY <1>3, <1>4

LEMMA BlocksAppend ==
  ASSUME NEW s \in Seq(Blocks), NEW b \in Blocks
  PROVE  /\ Texts(Append(s, b)) = Texts(s) \o b.text
         /\ \A type : OfType(Append(s, b), type) =
              IF b.type = type THEN Append(OfType(s, type), b) ELSE OfType(s, type)
<1> DEFINE t == Append(s, b)
           n == Len(s)
<1>1. /\ t \in Seq(Blocks) /\ Len(t) = n + 1 /\ n \in Nat
      /\ DOMAIN t = 1..n + 1 /\ DOMAIN s = 1..n
      /\ \A i \in 1..n : t[i] = s[i]
      /\ t[n + 1] = b
  BY AppendProperties, LenProperties
<1> HIDE DEF t, n
<1>2. Texts(t) = Texts(s) \o b.text
  <2> DEFINE A == Append(TextsOf(s), b.text)
  <2>1. b.text \in Text
    BY DEF Blocks
  <2>2. TextsOf(s) \in Seq(Text) /\ Len(TextsOf(s)) = n /\ TextsOf(t) \in Seq(Text) /\ Len(TextsOf(t)) = n + 1
    BY <1>1, TextsOfType DEF n
  <2>3. /\ A \in Seq(Text) /\ Len(A) = n + 1
        /\ \A i \in 1..n : A[i] = TextsOf(s)[i]
        /\ A[n + 1] = b.text
    BY <2>1, <2>2, AppendProperties
  <2> HIDE DEF A
  <2>4. \A i \in 1..n + 1 : TextsOf(t)[i] = A[i]
    <3>1. \A i \in 1..n + 1 : TextsOf(t)[i] = t[i].text
      BY <1>1 DEF TextsOf
    <3>2. \A i \in 1..n : TextsOf(s)[i] = s[i].text
      BY <1>1 DEF TextsOf
    <3> QED BY <1>1, <2>3, <3>1, <3>2
  <2>5. TextsOf(t) = A
    BY <2>2, <2>3, <2>4, SeqEqual
  <2>6. Flat(A) = Flat(TextsOf(s)) \o b.text
    BY <2>1, <2>2, FlatAppend DEF A
  <2> QED BY <2>5, <2>6 DEF Texts, TextsOf
<1>3. ASSUME NEW type
      PROVE  OfType(t, type) = IF b.type = type THEN Append(OfType(s, type), b) ELSE OfType(s, type)
  <2> DEFINE x == IfOf(b, type)
             L == Seq(BlocksOf(type))
             A == Append(OfTypes(s, type), x)
  <2>1. /\ OfTypes(s, type) \in Seq(L) /\ Len(OfTypes(s, type)) = n
        /\ OfTypes(t, type) \in Seq(L) /\ Len(OfTypes(t, type)) = n + 1
    BY <1>1, OfTypesType DEF n
  <2>2. \A i \in 1..n + 1 : OfTypes(t, type)[i] = IfOf(t[i], type)
    BY <1>1 DEF OfTypes
  <2>3. \A i \in 1..n : OfTypes(s, type)[i] = IfOf(s[i], type)
    BY <1>1 DEF OfTypes
  <2>4. OfTypes(t, type)[n + 1] = x /\ \A i \in 1..n : OfTypes(t, type)[i] = OfTypes(s, type)[i]
    BY <1>1, <2>2, <2>3
  <2>5. x \in L
    <3>1. OfTypes(t, type)[n + 1] \in L
      BY <1>1, <2>1, ElementOfSeq
    <3> QED BY <2>4, <3>1
  <2> HIDE DEF x, L
  <2>6. /\ A \in Seq(L) /\ Len(A) = n + 1
        /\ \A i \in 1..n : A[i] = OfTypes(s, type)[i]
        /\ A[n + 1] = x
    BY <2>1, <2>5, AppendProperties
  <2> HIDE DEF A
  <2>7. \A i \in 1..n + 1 : OfTypes(t, type)[i] = A[i]
    BY <1>1, <2>4, <2>6
  <2>8. OfTypes(t, type) = A
    BY <2>1, <2>6, <2>7, SeqEqual
  <2>9. Flat(A) = Flat(OfTypes(s, type)) \o x
    BY <2>1, <2>5, FlatAppend DEF A
  <2>10. OfType(t, type) = OfType(s, type) \o x
    BY <2>8, <2>9 DEF OfType, OfTypes, IfOf
  <2>11. OfType(s, type) \in Seq(Blocks)
    BY OfTypeType
  <2>12. CASE b.type = type
    BY <2>10, <2>11, <2>12, AppendIsConcat DEF x, IfOf
  <2>13. CASE b.type # type
    BY <2>10, <2>11, <2>13, ConcatEmptySeq DEF x, IfOf
  <2> QED BY <2>12, <2>13
<1> QED BY <1>2, <1>3 DEF t

LEMMA BlocksConcat ==
  ASSUME NEW s \in Seq(Blocks), NEW t \in Seq(Blocks)
  PROVE  /\ Texts(s \o t) = Texts(s) \o Texts(t)
         /\ \A type : OfType(s \o t, type) = OfType(s, type) \o OfType(t, type)
<1> DEFINE S == {u \in Seq(Blocks) : /\ Texts(s \o u) = Texts(s) \o Texts(u)
                                     /\ \A type : OfType(s \o u, type) = OfType(s, type) \o OfType(u, type)}
<1>1. Texts(s) \in Seq(Words) /\ \A type : OfType(s, type) \in Seq(Blocks)
  BY TextsType, OfTypeType DEF Text
<1>2. <<>> \in S
  <2>1. <<>> \in Seq(Blocks) /\ s \o <<>> = s
    BY EmptySeq, ConcatEmptySeq
  <2>2. Texts(s) \o <<>> = Texts(s)
    BY <1>1, ConcatEmptySeq
  <2>3. \A type : OfType(s, type) \o <<>> = OfType(s, type)
    BY <1>1, ConcatEmptySeq
  <2> QED BY <2>1, <2>2, <2>3, BlocksEmpty
<1>3. ASSUME NEW u \in Seq(Blocks), NEW b \in Blocks, u \in S
      PROVE  Append(u, b) \in S
  <2>1. Append(u, b) \in Seq(Blocks) /\ s \o u \in Seq(Blocks)
    BY AppendProperties, ConcatProperties
  <2>2. s \o Append(u, b) = Append(s \o u, b)
    BY ConcatAppend
  <2>3. Texts(s \o u) = Texts(s) \o Texts(u) /\ \A type : OfType(s \o u, type) = OfType(s, type) \o OfType(u, type)
    BY <1>3
  <2>4. Texts(Append(s \o u, b)) = Texts(s) \o Texts(Append(u, b))
    <3>1. Texts(Append(s \o u, b)) = Texts(s \o u) \o b.text /\ Texts(Append(u, b)) = Texts(u) \o b.text
      BY <2>1, BlocksAppend
    <3>2. Texts(u) \in Seq(Words) /\ b.text \in Seq(Words)
      BY TextsType DEF Text, Blocks
    <3>3. \A x, y, z \in Seq(Words) : (x \o y) \o z = x \o (y \o z)
      BY ConcatAssociative
    <3>4. (Texts(s) \o Texts(u)) \o b.text = Texts(s) \o (Texts(u) \o b.text)
      BY <1>1, <3>2, <3>3
    <3> QED BY <2>3, <3>1, <3>4
  <2>5. ASSUME NEW type
        PROVE  OfType(Append(s \o u, b), type) = OfType(s, type) \o OfType(Append(u, b), type)
    <3>1. /\ OfType(Append(s \o u, b), type) =
               IF b.type = type THEN Append(OfType(s \o u, type), b) ELSE OfType(s \o u, type)
          /\ OfType(Append(u, b), type) =
               IF b.type = type THEN Append(OfType(u, type), b) ELSE OfType(u, type)
      BY <2>1, BlocksAppend
    <3>2. OfType(u, type) \in Seq(Blocks) /\ OfType(s, type) \in Seq(Blocks)
      BY OfTypeType
    <3>3. OfType(s, type) \o Append(OfType(u, type), b) = Append(OfType(s, type) \o OfType(u, type), b)
      BY <3>2, ConcatAppend
    <3> QED BY <2>3, <3>1, <3>3
  <2> QED BY <2>1, <2>2, <2>4, <2>5
<1>4. Seq(Blocks) \subseteq S
  <2> HIDE DEF S
  <2> QED BY <1>2, <1>3, SeqInduction
<1> QED BY <1>4

\* Blocks of one type.
LEMMA OneType ==
  ASSUME NEW type, NEW s \in Seq(BlocksOf(type))
  PROVE  /\ s \in Seq(Blocks)
         /\ OfType(s, type) = s
         /\ \A other : other # type => OfType(s, other) = <<>>
<1> DEFINE S == {u \in Seq(Blocks) : /\ OfType(u, type) = u
                                     /\ \A other : other # type => OfType(u, other) = <<>>}
<1>1. <<>> \in S
  BY BlocksEmpty, EmptySeq
<1>2. ASSUME NEW u \in Seq(BlocksOf(type)), NEW b \in BlocksOf(type), u \in S
      PROVE  Append(u, b) \in S
  <2>1. b \in Blocks /\ b.type = type /\ u \in Seq(Blocks)
    BY DEF BlocksOf
  <2>2. Append(u, b) \in Seq(Blocks)
    BY <2>1, AppendProperties
  <2>3. \A ty : OfType(Append(u, b), ty) = IF b.type = ty THEN Append(OfType(u, ty), b) ELSE OfType(u, ty)
    BY <2>1, BlocksAppend
  <2>4. OfType(Append(u, b), type) = Append(u, b)
    BY <1>2, <2>1, <2>3
  <2>5. \A other : other # type => OfType(Append(u, b), other) = <<>>
    BY <1>2, <2>1, <2>3
  <2> QED BY <2>2, <2>4, <2>5
<1>3. Seq(BlocksOf(type)) \subseteq S
  <2> HIDE DEF S
  <2> QED BY <1>1, <1>2, SeqInduction
<1> QED BY <1>3

(***************************************************************************)
(* An assistant's message, to and from its blocks.                         *)
(***************************************************************************)
Uses(calls) == [i \in DOMAIN calls |-> Block("tool_use", <<>>, calls[i])]

LEMMA UsesKnown ==
  ASSUME NEW calls \in Seq(Calls)
  PROVE  /\ Uses(calls) \in Seq(BlocksOf("tool_use")) /\ Uses(calls) \in Seq(Blocks)
         /\ Len(Uses(calls)) = Len(calls)
         /\ Texts(Uses(calls)) = <<>>
         /\ Ids(Uses(calls)) = calls
         /\ OfType(Uses(calls), "tool_use") = Uses(calls)
         /\ OfType(Uses(calls), "text") = <<>>
<1> DEFINE u == Uses(calls)
           n == Len(calls)
<1>1. n \in Nat /\ DOMAIN calls = 1..n /\ \A i \in 1..n : calls[i] \in Calls
  OBVIOUS
<1>2. \A i \in 1..n : Block("tool_use", <<>>, calls[i]) \in BlocksOf("tool_use")
  <2>1. <<>> \in Text
    BY DEF Text
  <2> QED BY <1>1, <2>1 DEF Block, BlocksOf, Blocks, Types
<1>3. u \in [1..n -> BlocksOf("tool_use")]
  BY <1>1, <1>2 DEF Uses
<1>4. \A i \in 1..n : u[i].text = <<>> /\ u[i].id = calls[i]
  BY <1>1 DEF Uses, Block
<1> HIDE DEF u
<1>5. u \in Seq(BlocksOf("tool_use")) /\ Len(u) = n
  BY <1>1, <1>3, FunctionIsSeq
<1>6. /\ u \in Seq(Blocks) /\ OfType(u, "tool_use") = u
      /\ OfType(u, "text") = <<>>
  BY <1>5, OneType
<1>7. Texts(u) = <<>>
  <2>1. TextsOf(u) \in [1..n -> Seq({})]
    <3>1. DOMAIN u = 1..n
      BY <1>3
    <3>2. \A i \in 1..n : u[i].text \in Seq({})
      BY <1>4, EmptySeq
    <3> QED BY <3>1, <3>2 DEF TextsOf
  <2>2. TextsOf(u) \in Seq(Seq({}))
    BY <1>1, <2>1, FunctionIsSeq
  <2>3. Texts(u) = Flat(TextsOf(u))
    BY DEF Texts, TextsOf
  <2>4. Texts(u) \in Seq({})
    BY <2>2, <2>3, FlatType
  <2> QED BY <2>4
<1>8. Ids(u) = calls
  <2>1. DOMAIN u = 1..n
    BY <1>3
  <2>2. Ids(u) = [i \in 1..n |-> calls[i]]
    BY <1>4, <2>1 DEF Ids
  <2> QED BY <1>1, <2>2
<1> QED BY <1>5, <1>6, <1>7, <1>8 DEF u

LEMMA TextBlockKnown ==
  ASSUME NEW t \in Text, NEW p, p = <<>> \/ p = <<TextBlock(t)>>
  PROVE  /\ p \in Seq(BlocksOf("text")) /\ p \in Seq(Blocks)
         /\ OfType(p, "text") = p /\ OfType(p, "tool_use") = <<>>
         /\ Texts(p) = IF p = <<>> THEN <<>> ELSE t
<1> DEFINE b == TextBlock(t)
<1>1. b \in BlocksOf("text") /\ b \in Blocks /\ b.text = t
  BY DEF TextBlock, Block, BlocksOf, Blocks, Types
<1> HIDE DEF b
<1>2. <<b>> \in Seq(BlocksOf("text")) /\ <<b>> # <<>>
  BY <1>1, OneIsSeq
<1>3. p \in Seq(BlocksOf("text"))
  BY <1>2, EmptySeq DEF b
<1>4. p \in Seq(Blocks) /\ OfType(p, "text") = p /\ OfType(p, "tool_use") = <<>>
  BY <1>3, OneType
<1>5. Texts(<<b>>) = t
  <2>1. <<b>> = Append(<<>>, b)
    OBVIOUS
  <2>2. Texts(Append(<<>>, b)) = <<>> \o t
    BY <1>1, BlocksAppend, BlocksEmpty, EmptySeq
  <2>3. <<>> \o t = t
    BY ConcatEmptySeq DEF Text
  <2> QED BY <2>1, <2>2, <2>3
<1>6. Texts(p) = IF p = <<>> THEN <<>> ELSE t
  BY <1>2, <1>5, BlocksEmpty DEF b
<1> QED BY <1>3, <1>4, <1>6

LEMMA PlainKnown == Plain \in Words /\ Plain \notin Labelled /\ <<Plain>> \in Text /\ <<Plain>> # <<>>
<1>1. Plain \in Words /\ Plain \notin Labelled
  BY ConversationAssumption DEF Plain
<1> QED BY <1>1, OneIsSeq DEF Text

Between(text, uses, more) == text \o uses \o more

\* What an answer is made of.
LEMMA AnswerKnown ==
  ASSUME NEW calls \in Seq(Calls), NEW blocks \in Answers(calls)
  PROVE  /\ blocks \in Seq(Blocks)
         /\ OfType(blocks, "tool_use") = Uses(calls)
         /\ AnswerText(blocks) = Texts(blocks) /\ Texts(blocks) \in Text
         /\ Texts(blocks) = <<>> /\ calls = <<>> => blocks = <<>>
<1> DEFINE u == Uses(calls)
           parts == {<<>>, <<TextBlock(<<Plain>>)>>}
<1>1. PICK t \in parts, more \in parts : blocks = (t \o u) \o more
  <2>1. Answers(calls) = {Between(x, u, y) : x \in parts, y \in parts}
    BY DEF Answers, Uses, Between
  <2> HIDE DEF u, parts
  <2>2. PICK x \in parts, y \in parts : blocks = Between(x, u, y)
    BY <2>1
  <2> QED BY <2>2 DEF Between
<1>2. /\ t = <<>> \/ t = <<TextBlock(<<Plain>>)>>
      /\ more = <<>> \/ more = <<TextBlock(<<Plain>>)>>
  BY <1>1
<1>3. /\ t \in Seq(Blocks) /\ more \in Seq(Blocks)
      /\ OfType(t, "text") = t /\ OfType(t, "tool_use") = <<>>
      /\ OfType(more, "text") = more /\ OfType(more, "tool_use") = <<>>
      /\ Texts(t) = IF t = <<>> THEN <<>> ELSE <<Plain>>
      /\ Texts(more) = IF more = <<>> THEN <<>> ELSE <<Plain>>
  BY <1>2, PlainKnown, TextBlockKnown
<1>4. /\ u \in Seq(Blocks) /\ Texts(u) = <<>> /\ Len(u) = Len(calls)
      /\ OfType(u, "tool_use") = u /\ OfType(u, "text") = <<>>
  BY UsesKnown
<1> HIDE DEF u, parts
<1>5. t \o u \in Seq(Blocks) /\ blocks \in Seq(Blocks)
  BY <1>1, <1>3, <1>4, ConcatProperties
<1>6. \A x, y \in Seq(Blocks) :
        /\ Texts(x \o y) = Texts(x) \o Texts(y)
        /\ OfType(x \o y, "tool_use") = OfType(x, "tool_use") \o OfType(y, "tool_use")
        /\ OfType(x \o y, "text") = OfType(x, "text") \o OfType(y, "text")
  BY BlocksConcat
<1>7. Texts(t) \in Seq(Words) /\ Texts(more) \in Seq(Words)
  BY <1>3, TextsType DEF Text
<1>8. /\ Texts(t \o u) = Texts(t)
      /\ OfType(t \o u, "tool_use") = u
      /\ OfType(t \o u, "text") = t
  <2>1. /\ Texts(t \o u) = Texts(t) \o <<>>
        /\ OfType(t \o u, "tool_use") = <<>> \o u
        /\ OfType(t \o u, "text") = t \o <<>>
    BY <1>3, <1>4, <1>6
  <2> QED BY <1>3, <1>4, <1>7, <2>1, ConcatEmptySeq
<1>9. /\ Texts(blocks) = Texts(t) \o Texts(more)
      /\ OfType(blocks, "tool_use") = u \o <<>>
      /\ OfType(blocks, "text") = t \o more
  <2> DEFINE tu == t \o u
  <2>1. tu \in Seq(Blocks) /\ blocks = tu \o more
    BY <1>1, <1>5
  <2>2. Texts(tu) = Texts(t) /\ OfType(tu, "tool_use") = u /\ OfType(tu, "text") = t
    BY <1>8
  <2> HIDE DEF tu
  <2>3. /\ Texts(tu \o more) = Texts(tu) \o Texts(more)
        /\ OfType(tu \o more, "tool_use") = OfType(tu, "tool_use") \o OfType(more, "tool_use")
        /\ OfType(tu \o more, "text") = OfType(tu, "text") \o OfType(more, "text")
    BY <1>3, <1>6, <2>1
  <2> QED BY <1>3, <2>1, <2>2, <2>3
<1>10. OfType(blocks, "tool_use") = u
  BY <1>4, <1>9, ConcatEmptySeq
<1>11. AnswerText(blocks) = Texts(blocks)
  <2>1. Texts(t \o more) = Texts(t) \o Texts(more)
    BY <1>3, <1>6
  <2> QED BY <1>9, <2>1 DEF AnswerText
<1>12. Texts(blocks) \in Text
  BY <1>5, TextsType
<1>13. ASSUME Texts(blocks) = <<>>, calls = <<>>
       PROVE  blocks = <<>>
  <2>1. Texts(t) = <<>> /\ Texts(more) = <<>>
    <3>1. \A x, y \in Seq(Words) : x \o y = <<>> => x = <<>> /\ y = <<>>
      BY ConcatProperties, EmptySeq
    <3> QED BY <1>7, <1>9, <1>13, <3>1
  <2>2. t = <<>> /\ more = <<>>
    BY <1>3, <2>1, PlainKnown
  <2>3. u = <<>>
    BY <1>4, <1>13, EmptySeq
  <2>4. <<>> \o <<>> = <<>>
    OBVIOUS
  <2> QED BY <1>1, <2>2, <2>3, <2>4
<1> QED BY <1>5, <1>10, <1>11, <1>12, <1>13 DEF u

LEMMA ConvertedAnswer ==
  ASSUME NEW calls \in Seq(Calls), NEW blocks \in Answers(calls)
  PROVE  /\ anthropicToChatCompletion(blocks) \in Message
         /\ anthropicToChatCompletion(blocks).role = "assistant"
         /\ anthropicToChatCompletion(blocks).calls = calls
         /\ anthropicToChatCompletion(blocks).text = Texts(blocks)
         /\ anthropicToChatCompletion(blocks).id = NoCall
<1>1. /\ OfType(blocks, "tool_use") = Uses(calls)
      /\ AnswerText(blocks) = Texts(blocks) /\ Texts(blocks) \in Text
  BY AnswerKnown
<1>2. Ids(OfType(blocks, "tool_use")) = calls
  BY <1>1, UsesKnown
<1> QED BY <1>1, <1>2 DEF anthropicToChatCompletion, Said, Message, Roles

LEMMA ContentKnown ==
  ASSUME NEW m \in Message
  PROVE  /\ convertAssistantContent(m) \in Seq(Blocks)
         /\ OfType(convertAssistantContent(m), "tool_use") = Uses(m.calls)
         /\ Texts(convertAssistantContent(m)) = m.text
         /\ m.text # <<>> \/ m.calls # <<>> =>
              \A i \in DOMAIN convertAssistantContent(m) :
                convertAssistantContent(m)[i].type = "text" => convertAssistantContent(m)[i].text # <<>>
<1> DEFINE u == Uses(m.calls)
           back == convertAssistantContent(m)
           p == IF m.text = <<>> /\ m.calls # <<>> THEN <<>> ELSE <<TextBlock(m.text)>>
<1>1. m.text \in Text /\ m.calls \in Seq(Calls)
  BY DEF Message
<1>2. back = p \o u
  BY DEF convertAssistantContent, Uses
<1>3. p = <<>> \/ p = <<TextBlock(m.text)>>
  OBVIOUS
<1>4. p = <<>> => m.text = <<>> /\ m.calls # <<>>
  OBVIOUS
<1>5. p # <<>> => Len(p) = 1 /\ p[1] = TextBlock(m.text) /\ ~(m.text = <<>> /\ m.calls # <<>>)
  OBVIOUS
<1> HIDE DEF p
<1>6. /\ p \in Seq(Blocks) /\ OfType(p, "tool_use") = <<>>
      /\ Texts(p) = IF p = <<>> THEN <<>> ELSE m.text
  BY <1>1, <1>3, TextBlockKnown
<1>7. /\ u \in Seq(Blocks) /\ Texts(u) = <<>> /\ OfType(u, "tool_use") = u
      /\ u \in Seq(BlocksOf("tool_use"))
  BY <1>1, UsesKnown
<1> HIDE DEF u, back
<1>8. /\ back \in Seq(Blocks) /\ Len(back) = Len(p) + Len(u)
      /\ \A i \in 1..Len(p) + Len(u) : back[i] = IF i <= Len(p) THEN p[i] ELSE u[i - Len(p)]
  <2>1. \A v, w \in Seq(Blocks) :
          /\ v \o w \in Seq(Blocks) /\ Len(v \o w) = Len(v) + Len(w)
          /\ \A i \in 1..Len(v) + Len(w) : (v \o w)[i] = IF i <= Len(v) THEN v[i] ELSE w[i - Len(v)]
    BY ConcatProperties
  <2> QED BY <1>2, <1>6, <1>7, <2>1
<1>9. OfType(back, "tool_use") = u
  <2>1. OfType(back, "tool_use") = <<>> \o u
    <3>1. \A x, y \in Seq(Blocks) : OfType(x \o y, "tool_use") = OfType(x, "tool_use") \o OfType(y, "tool_use")
      BY BlocksConcat
    <3> QED BY <1>2, <1>6, <1>7, <3>1
  <2> QED BY <1>7, <2>1, ConcatEmptySeq
<1>10. Texts(back) = m.text
  <2>1. Texts(back) = Texts(p) \o <<>>
    BY <1>2, <1>6, <1>7, BlocksConcat
  <2>2. Texts(p) = m.text /\ Texts(p) \in Seq(Words)
    BY <1>1, <1>4, <1>6 DEF Text
  <2> QED BY <2>1, <2>2, ConcatEmptySeq
<1>11. ASSUME m.text # <<>> \/ m.calls # <<>>, NEW i \in DOMAIN back, back[i].type = "text"
       PROVE  back[i].text # <<>>
  <2>1. /\ Len(p) \in Nat /\ Len(u) \in Nat /\ i \in 1..Len(p) + Len(u)
        /\ back[i] = IF i <= Len(p) THEN p[i] ELSE u[i - Len(p)]
    BY <1>6, <1>7, <1>8
  <2>2. CASE i <= Len(p)
    <3>1. p # <<>>
      BY <2>1, <2>2
    <3>2. i = 1
      <4>1. Len(p) = 1
        BY <1>5, <3>1
      <4> QED BY <2>1, <2>2, <4>1
    <3>3. back[i].text = m.text
      <4>1. back[1] = p[1] /\ p[1] = TextBlock(m.text)
        BY <1>5, <2>1, <2>2, <3>1, <3>2
      <4> QED BY <3>2, <4>1 DEF TextBlock, Block
    <3> QED BY <1>5, <1>11, <3>1, <3>3
  <2>3. CASE ~(i <= Len(p))
    <3>1. i - Len(p) \in 1..Len(u)
      BY <2>1, <2>3
    <3>2. u[i - Len(p)] \in BlocksOf("tool_use")
      BY <1>7, <3>1, ElementOfSeq
    <3>3. back[i].type = "tool_use"
      BY <2>1, <2>3, <3>2 DEF BlocksOf
    <3> QED BY <1>11, <3>3
  <2> QED BY <2>2, <2>3
<1> QED BY <1>8, <1>9, <1>10, <1>11 DEF u, back

(***************************************************************************)
(* A chat for an Anthropic model, converted message by message.            *)
(***************************************************************************)
OutMessages == [role : {"user", "assistant"}, content : Seq(Blocks)]

Converts(out, c, n) ==
  out = [i \in 0 .. n |-> IF i = 0 THEN <<>> ELSE Convert(out[i - 1], c[i])]

\* The recursion defines a function.
LEMMA ConvertsExists ==
  ASSUME NEW c, NEW n \in Nat
  PROVE  \E out : Converts(out, c, n)
<1> DEFINE S == {m \in Nat : \E out : Converts(out, c, m)}
<1>1. 0 \in S
  <2> DEFINE out == [i \in 0 .. 0 |-> <<>>]
  <2>1. Converts(out, c, 0)
    BY DEF Converts
  <2> QED BY <2>1
<1>2. ASSUME NEW m \in S
      PROVE  m + 1 \in S
  <2>1. m \in Nat
    OBVIOUS
  <2>2. PICK out : Converts(out, c, m)
    OBVIOUS
  <2> DEFINE next == Convert(out[m], c[m + 1])
             longer == [i \in 0 .. m + 1 |-> IF i = m + 1 THEN next ELSE out[i]]
  <2>3. ASSUME NEW i \in 0 .. m + 1
        PROVE  longer[i] = IF i = 0 THEN <<>> ELSE Convert(longer[i - 1], c[i])
    <3>1. CASE i = m + 1
      <4>1. longer[i - 1] = out[m]
        BY <2>1, <3>1
      <4> QED BY <2>1, <3>1, <4>1
    <3>2. CASE i \in 0 .. m /\ i # 0
      <4>1. longer[i] = out[i] /\ longer[i - 1] = out[i - 1]
        BY <2>1, <3>2
      <4>2. out[i] = Convert(out[i - 1], c[i])
        BY <2>2, <3>2 DEF Converts
      <4> QED BY <3>2, <4>1, <4>2
    <3>3. CASE i = 0
      <4>1. longer[i] = out[i]
        BY <2>1, <3>3
      <4>2. out[i] = <<>>
        BY <2>1, <2>2, <3>3 DEF Converts
      <4> QED BY <3>3, <4>1, <4>2
    <3> QED BY <2>1, <3>1, <3>2, <3>3
  <2>4. Converts(longer, c, m + 1)
    <3>1. longer = [i \in 0 .. m + 1 |-> longer[i]]
      OBVIOUS
    <3> HIDE DEF longer
    <3> QED BY <2>3, <3>1 DEF Converts
  <2> QED BY <2>1, <2>4
<1>3. S = Nat
  BY <1>1, <1>2, Induction
<1> QED BY <1>3

ConvertedInTurn(out, c, n) ==
  /\ out[0] = <<>>
  /\ \A i \in 1 .. n : out[i] = Convert(out[i - 1], c[i])

LEMMA ConvertsInTurn ==
  ASSUME NEW c, NEW n \in Nat, NEW out, Converts(out, c, n)
  PROVE  ConvertedInTurn(out, c, n)
<1>1. out[0] = <<>>
  <2>1. 0 \in 0 .. n
    OBVIOUS
  <2> QED BY <2>1 DEF Converts
<1>2. ASSUME NEW i \in 1 .. n
      PROVE  out[i] = Convert(out[i - 1], c[i])
  <2>1. i \in 0 .. n /\ i # 0
    OBVIOUS
  <2> QED BY <2>1 DEF Converts
<1> QED BY <1>1, <1>2 DEF ConvertedInTurn

LEMMA NoneConverted == chatToAnthropic(<<>>) = <<>>
<1> DEFINE out == CHOOSE f : Converts(f, <<>>, 0)
<1>1. Len(<<>>) = 0
  OBVIOUS
<1>2. Converts(out, <<>>, 0)
  BY ConvertsExists
<1>3. chatToAnthropic(<<>>) = out[0]
  BY <1>1 DEF chatToAnthropic, Converts
<1> HIDE DEF out
<1>4. ConvertedInTurn(out, <<>>, 0)
  BY <1>2, ConvertsInTurn
<1> QED BY <1>3, <1>4 DEF ConvertedInTurn

LEMMA OneMoreConverted ==
  ASSUME NEW c \in Seq(Message), NEW m \in Message
  PROVE  chatToAnthropic(Append(c, m)) = Convert(chatToAnthropic(c), m)
<1> DEFINE n == Len(c)
           longer == Append(c, m)
           out == CHOOSE f : Converts(f, c, n)
           next == CHOOSE f : Converts(f, longer, n + 1)
<1>1. /\ n \in Nat /\ Len(longer) = n + 1 /\ longer[n + 1] = m
      /\ \A i \in 1 .. n : longer[i] = c[i]
  BY AppendProperties
<1>2. Converts(out, c, n) /\ Converts(next, longer, n + 1)
  <2>1. \E f : Converts(f, c, n)
    BY <1>1, ConvertsExists
  <2>2. \E f : Converts(f, longer, n + 1)
    <3>1. n + 1 \in Nat
      BY <1>1
    <3> QED BY <3>1, ConvertsExists
  <2> QED BY <2>1, <2>2
<1>3. chatToAnthropic(c) = out[n]
  BY DEF chatToAnthropic, Converts
<1>4. chatToAnthropic(longer) = next[n + 1]
  <2>1. chatToAnthropic(longer) = (CHOOSE f : Converts(f, longer, Len(longer)))[Len(longer)]
    BY DEF chatToAnthropic, Converts
  <2> QED BY <1>1, <2>1
<1> HIDE DEF n, longer, out, next
<1>5. ConvertedInTurn(out, c, n) /\ ConvertedInTurn(next, longer, n + 1)
  <2>1. n + 1 \in Nat
    BY <1>1
  <2> QED BY <1>1, <1>2, <2>1, ConvertsInTurn
<1>6. /\ out[0] = <<>> /\ next[0] = <<>>
      /\ \A i \in 1 .. n : out[i] = Convert(out[i - 1], c[i])
      /\ \A i \in 1 .. n + 1 : next[i] = Convert(next[i - 1], longer[i])
  BY <1>5 DEF ConvertedInTurn
<1> DEFINE S == {i \in Nat : i <= n => next[i] = out[i]}
<1>7. S = Nat
  <2>1. 0 \in S
    BY <1>6
  <2>2. ASSUME NEW k \in S
        PROVE  k + 1 \in S
    <3> SUFFICES ASSUME k + 1 <= n
                 PROVE  next[k + 1] = out[k + 1]
      OBVIOUS
    <3>1. k + 1 \in 1 .. n /\ k + 1 \in 1 .. n + 1 /\ (k + 1) - 1 = k /\ next[k] = out[k]
      BY <1>1
    <3> QED BY <1>1, <1>6, <3>1
  <2> QED BY <2>1, <2>2, Induction
<1>8. next[n] = out[n]
  BY <1>1, <1>7
<1>9. n + 1 \in 1 .. n + 1 /\ (n + 1) - 1 = n
  BY <1>1
<1>10. next[n + 1] = Convert(out[n], m)
  BY <1>1, <1>6, <1>8, <1>9
<1> QED BY <1>3, <1>4, <1>10 DEF longer

Result(m) == Block("tool_result", m.text, m.id)

\* The last message of a chat, with one more block.
LastGrown(out, next, b) ==
  /\ Len(next) = Len(out)
  /\ \A i \in 1..(Len(out) - 1) : next[i] = out[i]
  /\ next[Len(out)].role = out[Len(out)].role
  /\ next[Len(out)].content = Append(out[Len(out)].content, b)

\* What one message does to a chat.
LEMMA ConvertKnown ==
  ASSUME NEW out \in Seq(OutMessages), NEW m \in Message
  PROVE  /\ Convert(out, m) \in Seq(OutMessages)
         /\ Result(m) \in Blocks /\ TextBlock(m.text) \in Blocks
         /\ m.role = "system" => Convert(out, m) = out
         /\ m.role = "user" => Convert(out, m) = Append(out, Out("user", <<TextBlock(m.text)>>))
         /\ m.role = "assistant" =>
              Convert(out, m) = Append(out, Out("assistant", convertAssistantContent(m)))
         /\ m.role = "tool" =>
              IF out # <<>> /\ out[Len(out)].role = "user"
              THEN LastGrown(out, Convert(out, m), Result(m))
              ELSE Convert(out, m) = Append(out, Out("user", <<Result(m)>>))
<1> DEFINE n == Len(out)
           b == Result(m)
           t == TextBlock(m.text)
<1>1. m.role \in {"system", "user", "assistant", "tool"} /\ m.text \in Text /\ m.id \in Calls \cup {NoCall}
  BY DEF Message, Roles
<1>2. b \in Blocks
  BY <1>1 DEF Result, Block, Blocks, Types
<1>3. t \in Blocks
  BY <1>1 DEF TextBlock, Block, Blocks, Types
<1> HIDE DEF b, t
<1>4. <<b>> \in Seq(Blocks) /\ <<t>> \in Seq(Blocks) /\ convertAssistantContent(m) \in Seq(Blocks)
  BY <1>2, <1>3, OneIsSeq, ContentKnown
<1>5. \A s \in Seq(Blocks) : Out("user", s) \in OutMessages /\ Out("assistant", s) \in OutMessages
  BY DEF Out, OutMessages
<1>6. \A x \in OutMessages : Append(out, x) \in Seq(OutMessages)
  BY AppendProperties
<1>7. CASE m.role = "system"
  <2>1. Convert(out, m) = out
    BY <1>7 DEF Convert
  <2> QED BY <1>2, <1>3, <1>7, <2>1 DEF b, t
<1>8. CASE m.role = "user"
  <2>1. Convert(out, m) = Append(out, Out("user", <<t>>))
    BY <1>8 DEF Convert, t
  <2>2. Convert(out, m) \in Seq(OutMessages)
    BY <1>4, <1>5, <1>6, <2>1
  <2> QED BY <1>2, <1>3, <1>8, <2>1, <2>2 DEF b, t
<1>9. CASE m.role = "assistant"
  <2>1. Convert(out, m) = Append(out, Out("assistant", convertAssistantContent(m)))
    BY <1>9 DEF Convert
  <2>2. Convert(out, m) \in Seq(OutMessages)
    BY <1>4, <1>5, <1>6, <2>1
  <2> QED BY <1>2, <1>3, <1>9, <2>1, <2>2 DEF b, t
<1>10. CASE m.role = "tool"
  <2>1. Convert(out, m) = WithToolResult(out, b)
    BY <1>10 DEF Convert, b, Result
  <2>2. CASE out # <<>> /\ out[n].role = "user"
    <3> DEFINE last == [out[n] EXCEPT !.content = Append(@, b)]
    <3>1. n \in Nat /\ n >= 1 /\ n \in 1..n /\ DOMAIN out = 1..n /\ out[n] \in OutMessages
      BY <2>2, EmptySeq
    <3>2. Convert(out, m) = [out EXCEPT ![n] = last]
      BY <2>1, <2>2 DEF WithToolResult
    <3>3. out[n].content \in Seq(Blocks) /\ out[n].role \in {"user", "assistant"}
      BY <3>1 DEF OutMessages
    <3>4. Append(out[n].content, b) \in Seq(Blocks)
      BY <1>2, <3>3, AppendProperties
    <3>5. last.role = out[n].role /\ last.content = Append(out[n].content, b) /\ last \in OutMessages
      BY <3>1, <3>3, <3>4 DEF OutMessages
    <3> HIDE DEF last
    <3>6. Convert(out, m) \in Seq(OutMessages) /\ Len(Convert(out, m)) = n
      BY <3>1, <3>2, <3>5
    <3>7. Convert(out, m)[n] = last /\ \A i \in 1..(n - 1) : Convert(out, m)[i] = out[i]
      BY <3>1, <3>2
    <3>8. LastGrown(out, Convert(out, m), b)
      BY <3>5, <3>6, <3>7 DEF LastGrown
    <3> QED BY <1>2, <1>3, <1>10, <2>2, <3>6, <3>8 DEF b, t
  <2>3. CASE ~(out # <<>> /\ out[n].role = "user")
    <3>1. Convert(out, m) = Append(out, Out("user", <<b>>))
      BY <2>1, <2>3 DEF WithToolResult
    <3>2. Convert(out, m) \in Seq(OutMessages)
      BY <1>4, <1>5, <1>6, <3>1
    <3> QED BY <1>2, <1>3, <1>10, <2>3, <3>1, <3>2 DEF b, t
  <2> QED BY <2>2, <2>3
<1> QED BY <1>1, <1>7, <1>8, <1>9, <1>10

LEMMA ConvertedType ==
  ASSUME NEW c \in Seq(Message)
  PROVE  chatToAnthropic(c) \in Seq(OutMessages)
<1> DEFINE S == {d \in Seq(Message) : chatToAnthropic(d) \in Seq(OutMessages)}
<1>1. <<>> \in S
  BY NoneConverted, EmptySeq
<1>2. ASSUME NEW d \in Seq(Message), NEW m \in Message, d \in S
      PROVE  Append(d, m) \in S
  <2>1. Append(d, m) \in Seq(Message)
    BY AppendProperties
  <2>2. chatToAnthropic(Append(d, m)) = Convert(chatToAnthropic(d), m)
    BY OneMoreConverted
  <2>3. chatToAnthropic(d) \in Seq(OutMessages)
    BY <1>2
  <2>4. Convert(chatToAnthropic(d), m) \in Seq(OutMessages)
    BY <2>3, ConvertKnown
  <2> QED BY <2>1, <2>2, <2>4
<1>3. Seq(Message) \subseteq S
  <2> HIDE DEF S
  <2> QED BY <1>1, <1>2, SeqInduction
<1> QED BY <1>3

\* An answer comes back as it was given.
LEMMA AnswersComeBack ==
  ASSUME chat \in Seq(Message)
  PROVE  AnswerComesBack
<1> DEFINE m == Last(chat)
           back == Last(chatToAnthropic(chat)).content
<1> SUFFICES ASSUME chat # <<>>, m.role = "assistant",
                    NEW blocks \in Answers(m.calls) \ {<<>>}, anthropicToChatCompletion(blocks) = m
             PROVE  /\ OfType(back, "tool_use") = OfType(blocks, "tool_use")
                    /\ Texts(back) = Texts(blocks)
                    /\ \A i \in DOMAIN back : back[i].type = "text" => back[i].text # <<>>
  BY DEF AnswerComesBack
<1>1. PICK c \in Seq(Message), x \in Message : chat = Append(c, x)
  BY SequenceEmptyOrAppend
<1>2. m = x
  BY <1>1, AppendProperties DEF Last
<1>3. m \in Message /\ m.calls \in Seq(Calls)
  BY <1>2 DEF Message
<1>4. back = convertAssistantContent(m)
  <2> DEFINE out == chatToAnthropic(c)
             said == Out("assistant", convertAssistantContent(x))
  <2>1. out \in Seq(OutMessages)
    BY ConvertedType
  <2>2. chatToAnthropic(chat) = Convert(out, x)
    BY <1>1, OneMoreConverted
  <2> HIDE DEF out
  <2>3. Convert(out, x) = Append(out, said)
    BY <1>2, <2>1, ConvertKnown
  <2>4. Last(Append(out, said)) = said
    BY <2>1 DEF Last
  <2> QED BY <1>2, <2>2, <2>3, <2>4 DEF Out
<1>5. /\ OfType(back, "tool_use") = Uses(m.calls) /\ Texts(back) = m.text
      /\ m.text # <<>> \/ m.calls # <<>> =>
           \A i \in DOMAIN back : back[i].type = "text" => back[i].text # <<>>
  BY <1>3, <1>4, ContentKnown
<1> HIDE DEF m, back
<1>6. /\ OfType(blocks, "tool_use") = Uses(m.calls)
      /\ Texts(blocks) = <<>> /\ m.calls = <<>> => blocks = <<>>
  BY <1>3, AnswerKnown
<1>7. Texts(blocks) = m.text
  <2>1. anthropicToChatCompletion(blocks).text = Texts(blocks)
    BY <1>3, ConvertedAnswer
  <2> QED BY <2>1
<1>8. m.text # <<>> \/ m.calls # <<>>
  BY <1>6, <1>7
<1> QED BY <1>5, <1>6, <1>7, <1>8

(***************************************************************************)
(* The shape of a chat whose client answers calls before anything else.    *)
(***************************************************************************)
\* What the client or an answer may add to a chat.
MayFollow(c, m) ==
  IF m.role = "tool" THEN m.id \in Pending(c)
  ELSE /\ Pending(c) = {} /\ m.id = NoCall
       /\ m.role = "assistant" => IsInjective(m.calls)

\* Nothing but results follows the last answer.
Open(c) == LastAssistant(c) # 0 /\ LastAssistant(c) = LastOther(c)

\* Results given to the last answer's calls.
Given(c) == (LastAssistant(c) + 1)..Len(c)

Asked(c) == c[LastAssistant(c)].calls

OpenShape(c) ==
  /\ IsInjective(Asked(c)) /\ c[LastAssistant(c)].id = NoCall
  /\ \A i \in Given(c) : c[i].role = "tool" /\ c[i].id \in ToSet(Asked(c))
  /\ \A i, j \in Given(c) : c[i].id = c[j].id => i = j

\* Where an open answer is in the chat for the Anthropic model.
OpenAt(c, out) == IF LastAssistant(c) = Len(c) THEN Len(out) ELSE Len(out) - 1

\* The answer, and in the message after it the results so far.
OpenConverted(c, out) ==
  /\ out # <<>>
  /\ LastAssistant(c) = Len(c) =>
       out[Len(out)] = Out("assistant", convertAssistantContent(c[LastAssistant(c)]))
  /\ LastAssistant(c) # Len(c) =>
       /\ Len(out) > 1
       /\ out[Len(out) - 1] = Out("assistant", convertAssistantContent(c[LastAssistant(c)]))
       /\ out[Len(out)].role = "user"
       /\ Len(out[Len(out)].content) = Len(c) - LastAssistant(c)
       /\ \A i \in 1..(Len(c) - LastAssistant(c)) :
            /\ out[Len(out)].content[i].type = "tool_result"
            /\ out[Len(out)].content[i].id = c[LastAssistant(c) + i].id

\* The calls of a message, if it has any, are answered in the next.
Done(out, i) ==
  OfType(out[i].content, "tool_use") # <<>> =>
    /\ i < Len(out) /\ out[i + 1].role = "user"
    /\ LET n == Len(OfType(out[i].content, "tool_use"))
           results == SubSeq(out[i + 1].content, 1, n) IN
       /\ n <= Len(out[i + 1].content)
       /\ \A j \in DOMAIN results : results[j].type = "tool_result"
       /\ ToSet(Ids(results)) = ToSet(Ids(OfType(out[i].content, "tool_use")))

InShape(c) ==
  /\ Pending(c) # {} => Open(c)
  /\ c # <<>> /\ c[Len(c)].role = "tool" => Open(c)
  /\ Open(c) => OpenShape(c) /\ OpenConverted(c, chatToAnthropic(c))
  /\ \A i \in DOMAIN chatToAnthropic(c) :
       Done(chatToAnthropic(c), i) \/ (Open(c) /\ i = OpenAt(c, chatToAnthropic(c)))

\* Two sequences that have the same members, each once, are as long as each other.
LEMMA SameMembers ==
  ASSUME NEW T, NEW s \in Seq(T), NEW t \in Seq(T), IsInjective(s), IsInjective(t), ToSet(s) = ToSet(t)
  PROVE  Len(s) = Len(t)
<1>1. /\ DOMAIN s = 1..Len(s) /\ DOMAIN t = 1..Len(t) /\ Len(s) \in Nat /\ Len(t) \in Nat
  OBVIOUS
<1>2. \A u \in Seq(T) : IsInjective(u) => Cardinality(ToSet(u)) = Len(u)
  <2> SUFFICES ASSUME NEW u \in Seq(T), IsInjective(u)
               PROVE  Cardinality(ToSet(u)) = Len(u)
    OBVIOUS
  <2>1. Len(u) \in Nat /\ DOMAIN u = 1..Len(u) /\ u \in [1..Len(u) -> ToSet(u)]
    BY DEF ToSet
  <2>2. u \in Bijection(1..Len(u), ToSet(u))
    BY <2>1 DEF Bijection, Injection, Surjection, IsInjective, ToSet
  <2>3. ExistsBijection(1..Len(u), ToSet(u))
    BY <2>2 DEF ExistsBijection
  <2> QED BY <2>1, <2>3, FS_CountingElements
<1> QED BY <1>2

LEMMA LastOtherKnown ==
  ASSUME NEW c \in Seq(Message)
  PROVE  /\ LastOther(c) \in 0..Len(c)
         /\ \A i \in (LastOther(c) + 1)..Len(c) : c[i].role = "tool" /\ c[i].id # NoCall
<1> DEFINE a == LastOther(c)
<1>1. IsLast(a, Len(c), Others(c)) /\ Len(c) \in Nat /\ DOMAIN c = 1..Len(c)
  BY LastOtherIs
<1> HIDE DEF a
<1>2. a \in 0..Len(c) /\ \A i \in (a + 1)..Len(c) : i \notin Others(c)
  BY <1>1 DEF IsLast
<1>3. ASSUME NEW i \in (a + 1)..Len(c)
      PROVE  c[i].role = "tool" /\ c[i].id # NoCall
  <2>1. i \in DOMAIN c /\ i \notin Others(c)
    BY <1>1, <1>2
  <2> QED BY <2>1 DEF Others
<1> QED BY <1>2, <1>3 DEF a

LEMMA LastOtherAppend ==
  ASSUME NEW c \in Seq(Message), NEW m \in Message
  PROVE  LastOther(Append(c, m)) =
           IF m.role = "tool" /\ m.id # NoCall THEN LastOther(c) ELSE Len(c) + 1
<1> DEFINE d == Append(c, m)
           n == Len(c)
           a == LastOther(c)
<1>1. /\ d \in Seq(Message) /\ Len(d) = n + 1 /\ n \in Nat
      /\ DOMAIN d = 1..n + 1 /\ DOMAIN c = 1..n
      /\ \A i \in 1..n : d[i] = c[i]
      /\ d[n + 1] = m
  BY AppendProperties, LenProperties
<1>2. IsLast(LastOther(d), n + 1, Others(d))
  BY <1>1, LastOtherIs
<1>3. IsLast(a, n, Others(c))
  BY LastOtherIs
<1> HIDE DEF d, n, a
<1>4. CASE ~(m.role = "tool" /\ m.id # NoCall)
  <2>1. n + 1 \in Others(d)
    BY <1>1, <1>4 DEF Others
  <2>2. IsLast(n + 1, n + 1, Others(d))
    BY <1>1, <2>1 DEF IsLast
  <2>3. LastOther(d) = n + 1
    BY <1>1, <1>2, <2>2, OneIsLast
  <2> QED BY <1>4, <2>3 DEF d, n
<1>5. CASE m.role = "tool" /\ m.id # NoCall
  <2>1. Others(d) = Others(c)
    <3>1. ASSUME NEW i \in Others(d)
          PROVE  i \in Others(c)
      BY <1>1, <1>5, <3>1 DEF Others
    <3>2. ASSUME NEW i \in Others(c)
          PROVE  i \in Others(d)
      BY <1>1, <1>5, <3>2 DEF Others
    <3> QED BY <3>1, <3>2
  <2>2. n + 1 \notin Others(c)
    BY <1>1 DEF Others
  <2>3. IsLast(a, n + 1, Others(d))
    BY <1>1, <1>3, <2>1, <2>2 DEF IsLast
  <2>4. LastOther(d) = a
    BY <1>1, <1>2, <2>3, OneIsLast
  <2> QED BY <1>5, <2>4 DEF d, a
<1> QED BY <1>4, <1>5

\* What waits for a result.
LEMMA PendingKnown ==
  ASSUME NEW c \in Seq(Message), NEW x
  PROVE  x \in Pending(c) <=>
           /\ LastAssistant(c) # 0 /\ x \in ToSet(Asked(c))
           /\ \A i \in LastAssistant(c)..Len(c) : c[i].id # x
<1> DEFINE a == LastAssistant(c)
<1>1. Pending(c) = IF a = 0 THEN {} ELSE ToSet(c[a].calls) \ {c[i].id : i \in a..Len(c)}
  BY DEF Pending
<1> HIDE DEF a
<1> QED BY <1>1 DEF Asked, a

LEMMA PendingAppend ==
  ASSUME NEW c \in Seq(Message), NEW m \in Message, m.role # "assistant", Pending(c) = {}
  PROVE  Pending(Append(c, m)) = {}
<1> DEFINE d == Append(c, m)
           a == LastAssistant(c)
<1>1. /\ d \in Seq(Message) /\ Len(d) = Len(c) + 1 /\ Len(c) \in Nat
      /\ \A i \in 1..Len(c) : d[i] = c[i]
  BY AppendProperties, LenProperties
<1>2. LastAssistant(d) = a /\ a \in 0..Len(c)
  BY LastAssistantAppend, LastAssistantKnown
<1> SUFFICES ASSUME NEW x \in Pending(d)
             PROVE  FALSE
  OBVIOUS
<1> HIDE DEF d, a
<1>3. /\ a # 0 /\ x \in ToSet(Asked(d))
      /\ \A i \in a..Len(d) : d[i].id # x
  <2>1. /\ LastAssistant(d) # 0 /\ x \in ToSet(Asked(d))
        /\ \A i \in LastAssistant(d)..Len(d) : d[i].id # x
    BY <1>1, PendingKnown
  <2> QED BY <1>2, <2>1
<1>4. Asked(d) = Asked(c)
  BY <1>1, <1>2, <1>3 DEF Asked, a
<1>5. \A i \in a..Len(c) : c[i].id # x
  BY <1>1, <1>2, <1>3
<1> QED BY <1>3, <1>4, <1>5, PendingKnown DEF a

\* The results of an open answer whose calls are all answered.
LEMMA AllAnswered ==
  ASSUME NEW c \in Seq(Message), Open(c), OpenShape(c), Pending(c) = {}
  PROVE  /\ Len(Asked(c)) = Len(c) - LastAssistant(c) /\ Asked(c) \in Seq(Calls)
         /\ \A x : x \in ToSet(Asked(c)) <=> \E i \in 1..Len(Asked(c)) : c[LastAssistant(c) + i].id = x
<1> DEFINE a == LastAssistant(c)
           n == Len(c) - a
           calls == Asked(c)
           t == [i \in 1..n |-> c[a + i].id]
<1>1. /\ Len(c) \in Nat /\ a \in 1..Len(c) /\ n \in Nat /\ c[a] \in Message
      /\ \A i \in 1..Len(c) : c[i] \in Message
  BY LastAssistantKnown DEF Open
<1>2. calls \in Seq(Calls)
  BY <1>1 DEF Asked, Message
<1>3. /\ IsInjective(calls) /\ c[a].id = NoCall
      /\ \A i \in (a + 1)..Len(c) : c[i].id \in ToSet(calls)
      /\ \A i, j \in (a + 1)..Len(c) : c[i].id = c[j].id => i = j
  BY DEF OpenShape, Given
<1>4. ToSet(calls) \subseteq Calls
  BY <1>2 DEF ToSet
<1>5. ASSUME NEW x \in ToSet(calls)
      PROVE  \E i \in (a + 1)..Len(c) : c[i].id = x
  <2>1. \E i \in a..Len(c) : c[i].id = x
    BY <1>1, PendingKnown
  <2>2. c[a].id # x
    BY <1>3, <1>4, ChatAssumption
  <2> QED BY <1>1, <2>1, <2>2
<1> HIDE DEF a, calls
<1>6. /\ t \in [1..n -> Calls]
      /\ \A i \in 1..n : t[i] = c[a + i].id /\ a + i \in (a + 1)..Len(c)
  BY <1>1, <1>3, <1>4
<1>7. \A i \in (a + 1)..Len(c) : i - a \in 1..n /\ a + (i - a) = i
  BY <1>1
<1>8. \A i, j \in 1..n : a + i = a + j => i = j
  BY <1>1
<1> HIDE DEF n, t
<1>9. t \in Seq(Calls) /\ Len(t) = n /\ DOMAIN t = 1..n
  BY <1>1, <1>6, FunctionIsSeq
<1>10. IsInjective(t)
  <2> SUFFICES ASSUME NEW i \in 1..n, NEW j \in 1..n, t[i] = t[j]
               PROVE  i = j
    BY <1>9 DEF IsInjective
  <2>1. c[a + i].id = c[a + j].id
    BY <1>6
  <2>2. a + i = a + j
    BY <1>3, <1>6, <2>1
  <2> QED BY <1>8, <2>2
<1>11. \A x : x \in ToSet(calls) <=> \E i \in 1..n : c[a + i].id = x
  <2>1. \A x \in ToSet(calls) : \E i \in 1..n : c[a + i].id = x
    BY <1>5, <1>7
  <2> QED BY <1>3, <1>6, <2>1
<1>12. ToSet(t) = ToSet(calls)
  <2>1. \A x : x \in ToSet(t) <=> \E i \in 1..n : t[i] = x
    BY <1>9 DEF ToSet
  <2> QED BY <1>6, <1>11, <2>1
<1>13. Len(calls) = n
  BY <1>2, <1>3, <1>9, <1>10, <1>12, SameMembers
<1> QED BY <1>2, <1>11, <1>13 DEF a, n, calls

\* Then the answer is done in the converted chat, too.
LEMMA OpenIsDone ==
  ASSUME NEW c \in Seq(Message), Open(c), OpenShape(c), Pending(c) = {},
         NEW out \in Seq(OutMessages), OpenConverted(c, out)
  PROVE  Done(out, OpenAt(c, out))
<1> DEFINE a == LastAssistant(c)
           n == Len(Asked(c))
           i == OpenAt(c, out)
           uses == OfType(out[i].content, "tool_use")
           content == out[i + 1].content
           results == SubSeq(content, 1, n)
<1>1. /\ n = Len(c) - a /\ Asked(c) \in Seq(Calls)
      /\ \A x : x \in ToSet(Asked(c)) <=> \E k \in 1..n : c[a + k].id = x
  BY AllAnswered
<1>2. /\ Len(c) \in Nat /\ a \in 1..Len(c) /\ c[a] \in Message /\ c[a].calls = Asked(c) /\ n \in Nat
      /\ Len(out) \in Nat /\ \A k \in 1..Len(out) : out[k] \in OutMessages
  BY <1>1, LastAssistantKnown DEF Open, Asked
<1>3. out[i] = Out("assistant", convertAssistantContent(c[a]))
  BY DEF OpenConverted, OpenAt
<1>4. uses = Uses(Asked(c)) /\ Len(uses) = n /\ Ids(uses) = Asked(c)
  <2>1. uses = Uses(Asked(c))
    BY <1>2, <1>3, ContentKnown DEF Out
  <2> QED BY <1>1, <2>1, UsesKnown
<1> SUFFICES ASSUME uses # <<>>
             PROVE  /\ i < Len(out) /\ out[i + 1].role = "user"
                    /\ n <= Len(content)
                    /\ \A j \in DOMAIN results : results[j].type = "tool_result"
                    /\ ToSet(Ids(results)) = ToSet(Ids(uses))
  BY <1>4 DEF Done
<1>5. a # Len(c)
  <2>1. n # 0
    BY <1>1, <1>4, UsesKnown, EmptySeq
  <2> QED BY <1>1, <1>2, <2>1
<1>6. /\ Len(out) > 1 /\ i = Len(out) - 1 /\ i + 1 = Len(out)
      /\ out[i + 1].role = "user" /\ Len(content) = n
      /\ \A k \in 1..n : content[k].type = "tool_result" /\ content[k].id = c[a + k].id
  <2>1. i = Len(out) - 1 /\ i + 1 = Len(out) /\ Len(out) > 1
    BY <1>2, <1>5 DEF OpenAt, OpenConverted
  <2> QED BY <1>1, <1>5, <2>1 DEF OpenConverted
<1>7. content \in Seq(Blocks)
  <2>1. out[i + 1] \in OutMessages
    <3>1. Len(out) \in 1..Len(out)
      BY <1>2, <1>6
    <3> QED BY <1>2, <1>6, <3>1
  <2> HIDE DEF i
  <2> QED BY <2>1 DEF OutMessages
<1> HIDE DEF content, uses, i
<1>8. /\ results \in Seq(Blocks) /\ Len(results) = n /\ DOMAIN results = 1..n
      /\ \A k \in 1..n : results[k] = content[k]
  BY <1>2, <1>6, <1>7, SubSeqProperties
<1> HIDE DEF results, n, a
<1>9. ToSet(Ids(results)) = ToSet(Ids(uses))
  <2>1. \A x : x \in ToSet(Ids(results)) <=> \E k \in 1..n : results[k].id = x
    BY <1>8 DEF ToSet, Ids
  <2>2. \A k \in 1..n : results[k].id = c[a + k].id
    BY <1>6, <1>8
  <2>3. \A x : (\E k \in 1..n : results[k].id = x) <=> (\E k \in 1..n : c[a + k].id = x)
    BY <2>2
  <2>4. \A x : x \in ToSet(Ids(results)) <=> x \in ToSet(Asked(c))
    BY <1>1, <2>1, <2>3
  <2> QED BY <1>4, <2>4
<1>10. i < Len(out)
  BY <1>2, <1>6
<1> QED BY <1>2, <1>6, <1>8, <1>9, <1>10

LEMMA DoneKept ==
  ASSUME NEW out \in Seq(OutMessages), NEW next \in Seq(OutMessages), Len(next) >= Len(out),
         NEW i \in DOMAIN out, Done(out, i),
         OfType(next[i].content, "tool_use") = OfType(out[i].content, "tool_use"),
         i < Len(out) => next[i + 1] = out[i + 1]
  PROVE  Done(next, i)
<1>1. i \in Nat /\ Len(out) \in Nat /\ Len(next) \in Nat
  OBVIOUS
<1> SUFFICES ASSUME OfType(out[i].content, "tool_use") # <<>>
             PROVE  Done(next, i)
  BY DEF Done
<1>2. i < Len(out) /\ i < Len(next) /\ next[i + 1] = out[i + 1]
  BY <1>1 DEF Done
<1> QED BY <1>2 DEF Done

\* A message that asks for nothing.
LEMMA NothingAsked ==
  ASSUME NEW b \in Blocks, b.type # "tool_use", NEW s \in Seq(Blocks)
  PROVE  /\ OfType(<<b>>, "tool_use") = <<>>
         /\ OfType(Append(s, b), "tool_use") = OfType(s, "tool_use")
<1>1. <<b>> = Append(<<>>, b) /\ <<>> \in Seq(Blocks)
  OBVIOUS
<1>2. OfType(Append(<<>>, b), "tool_use") = OfType(<<>>, "tool_use")
  BY <1>1, BlocksAppend
<1>3. OfType(Append(s, b), "tool_use") = OfType(s, "tool_use")
  BY BlocksAppend
<1> QED BY <1>1, <1>2, <1>3, BlocksEmpty

LEMMA ShapeEmpty == InShape(<<>>)
<1>1. LastAssistant(<<>>) = 0 /\ chatToAnthropic(<<>>) = <<>>
  BY LastAssistantEmpty, NoneConverted
<1>2. Pending(<<>>) = {} /\ ~Open(<<>>)
  BY <1>1 DEF Pending, Open
<1>3. DOMAIN <<>> = {}
  OBVIOUS
<1> QED BY <1>1, <1>2, <1>3 DEF InShape

LEMMA AllDone ==
  ASSUME NEW c \in Seq(Message), InShape(c), Pending(c) = {},
         NEW i \in DOMAIN chatToAnthropic(c)
  PROVE  Done(chatToAnthropic(c), i)
<1>1. chatToAnthropic(c) \in Seq(OutMessages)
  BY ConvertedType
<1>2. Done(chatToAnthropic(c), i) \/ (Open(c) /\ i = OpenAt(c, chatToAnthropic(c)))
  BY DEF InShape
<1>3. Open(c) => OpenShape(c) /\ OpenConverted(c, chatToAnthropic(c))
  BY DEF InShape
<1> QED BY <1>1, <1>2, <1>3, OpenIsDone

\* A message after those of a chat whose calls are answered leaves what was done done.
LEMMA DoneThen ==
  ASSUME NEW out \in Seq(OutMessages), \A i \in DOMAIN out : Done(out, i), NEW x \in OutMessages
  PROVE  /\ \A i \in 1..Len(out) : Done(Append(out, x), i)
         /\ DOMAIN Append(out, x) = 1..(Len(out) + 1)
         /\ Append(out, x)[Len(out) + 1] = x
<1> DEFINE next == Append(out, x)
<1>1. /\ next \in Seq(OutMessages) /\ Len(next) = Len(out) + 1 /\ Len(out) \in Nat
      /\ DOMAIN next = 1..(Len(out) + 1) /\ DOMAIN out = 1..Len(out)
      /\ \A i \in 1..Len(out) : next[i] = out[i]
      /\ next[Len(out) + 1] = x
  BY AppendProperties, LenProperties
<1> HIDE DEF next
<1>2. ASSUME NEW i \in 1..Len(out)
      PROVE  Done(next, i)
  <2>1. i < Len(out) => next[i + 1] = out[i + 1]
    BY <1>1
  <2> QED BY <1>1, <2>1, DoneKept
<1> QED BY <1>1, <1>2 DEF next

LEMMA ShapeSaid ==
  ASSUME NEW c \in Seq(Message), InShape(c), NEW m \in Message,
         m.role \in {"system", "user"}, Pending(c) = {}
  PROVE  InShape(Append(c, m))
<1> DEFINE d == Append(c, m)
           out == chatToAnthropic(c)
           next == chatToAnthropic(d)
<1>1. /\ d \in Seq(Message) /\ Len(d) = Len(c) + 1 /\ Len(c) \in Nat
      /\ d[Len(d)] = m
  BY AppendProperties, LenProperties
<1>2. Pending(d) = {}
  BY PendingAppend
<1>3. ~Open(d)
  <2>1. LastAssistant(d) = LastAssistant(c) /\ LastAssistant(c) \in 0..Len(c)
    BY LastAssistantAppend, LastAssistantKnown
  <2>2. LastOther(d) = Len(c) + 1
    BY LastOtherAppend
  <2> QED BY <1>1, <2>1, <2>2 DEF Open
<1>4. out \in Seq(OutMessages) /\ next = Convert(out, m) /\ \A i \in DOMAIN out : Done(out, i)
  BY ConvertedType, OneMoreConverted, AllDone
<1>5. \A i \in DOMAIN next : Done(next, i)
  <2> HIDE DEF out, next
  <2>1. CASE m.role = "system"
    <3>1. next = out
      BY <1>4, <2>1, ConvertKnown
    <3> QED BY <1>4, <3>1
  <2>2. CASE m.role = "user"
    <3> DEFINE b == TextBlock(m.text)
               x == Out("user", <<b>>)
    <3>1. next = Append(out, x) /\ b \in Blocks
      BY <1>4, <2>2, ConvertKnown
    <3>2. b.type # "tool_use"
      BY DEF TextBlock, Block
    <3> HIDE DEF b
    <3>3. x \in OutMessages /\ x.content = <<b>>
      BY <3>1, OneIsSeq DEF Out, OutMessages
    <3>4. OfType(x.content, "tool_use") = <<>>
      BY <3>1, <3>2, <3>3, EmptySeq, NothingAsked
    <3> HIDE DEF x
    <3>5. /\ \A i \in 1..Len(out) : Done(next, i)
          /\ DOMAIN next = 1..(Len(out) + 1) /\ next[Len(out) + 1] = x
      BY <1>4, <3>1, <3>3, DoneThen
    <3>6. Done(next, Len(out) + 1)
      BY <3>4, <3>5 DEF Done
    <3>7. Len(out) \in Nat
      BY <1>4
    <3> QED BY <3>5, <3>6, <3>7
  <2> QED BY <2>1, <2>2
<1>6. d[Len(d)].role # "tool"
  BY <1>1
<1> HIDE DEF d, out, next
<1> QED BY <1>2, <1>3, <1>5, <1>6 DEF InShape, d, next

LEMMA ShapeAnswered ==
  ASSUME NEW c \in Seq(Message), InShape(c), NEW m \in Message,
         m.role = "assistant", Pending(c) = {}, m.id = NoCall, IsInjective(m.calls)
  PROVE  InShape(Append(c, m))
<1> DEFINE d == Append(c, m)
           n == Len(c) + 1
           out == chatToAnthropic(c)
           next == chatToAnthropic(d)
           x == Out("assistant", convertAssistantContent(m))
<1>1. /\ d \in Seq(Message) /\ Len(d) = n /\ n \in Nat /\ n # 0 /\ d[n] = m
  BY AppendProperties, LenProperties
<1>2. LastAssistant(d) = n /\ LastOther(d) = n
  BY LastAssistantAppend, LastOtherAppend
<1>3. out \in Seq(OutMessages) /\ next = Convert(out, m) /\ \A i \in DOMAIN out : Done(out, i)
  BY ConvertedType, OneMoreConverted, AllDone
<1>4. x \in OutMessages
  BY ContentKnown DEF Out, OutMessages
<1> HIDE DEF d, n, out, next, x
<1>5. next = Append(out, x)
  BY <1>3, ConvertKnown DEF x
<1>6. /\ \A i \in 1..Len(out) : Done(next, i)
      /\ DOMAIN next = 1..(Len(out) + 1) /\ next[Len(out) + 1] = x
      /\ Len(out) \in Nat /\ Len(next) = Len(out) + 1
  BY <1>3, <1>4, <1>5, DoneThen
<1>7. Open(d)
  BY <1>1, <1>2 DEF Open
<1>8. OpenShape(d)
  <2>1. Given(d) = {}
    BY <1>1, <1>2 DEF Given
  <2>2. Asked(d) = m.calls
    BY <1>1, <1>2 DEF Asked
  <2> QED BY <1>1, <1>2, <2>1, <2>2 DEF OpenShape
<1>9. OpenConverted(d, next) /\ OpenAt(d, next) = Len(out) + 1
  <2>1. next # <<>>
    BY <1>6
  <2> QED BY <1>1, <1>2, <1>6, <2>1 DEF OpenConverted, OpenAt, x
<1>10. \A i \in DOMAIN next : Done(next, i) \/ i = OpenAt(d, next)
  BY <1>6, <1>9
<1> QED BY <1>7, <1>8, <1>9, <1>10 DEF InShape, d, next

LEMMA ShapeResult ==
  ASSUME NEW c \in Seq(Message), InShape(c), NEW m \in Message,
         m.role = "tool", m.id \in Pending(c)
  PROVE  InShape(Append(c, m))
<1> DEFINE d == Append(c, m)
           n == Len(c)
           a == LastAssistant(c)
           out == chatToAnthropic(c)
           next == chatToAnthropic(d)
           b == Result(m)
           said == Out("assistant", convertAssistantContent(c[a]))
<1>1. /\ d \in Seq(Message) /\ Len(d) = n + 1 /\ n \in Nat
      /\ \A i \in 1..n : d[i] = c[i]
      /\ d[n + 1] = m
  BY AppendProperties, LenProperties
<1>2. Open(c) /\ OpenShape(c) /\ OpenConverted(c, out)
  BY DEF InShape
<1>3. /\ m.id \in ToSet(Asked(c))
      /\ \A i \in a..n : c[i].id # m.id
      /\ a \in 1..n
  <2>1. a # 0 /\ a \in 0..n
    BY <1>2, LastAssistantKnown DEF Open
  <2> QED BY <1>1, <2>1, PendingKnown
<1>4. c[a].calls \in Seq(Calls) /\ c[a] \in Message
  <2>1. c[a] \in Message
    BY <1>1, <1>3
  <2> QED BY <2>1 DEF Message
<1>5. m.id # NoCall
  <2>1. m.id \in Calls
    BY <1>3, <1>4 DEF Asked, ToSet
  <2> QED BY <2>1, ChatAssumption
<1>6. LastAssistant(d) = a /\ LastOther(d) = a
  BY <1>2, <1>5, LastAssistantAppend, LastOtherAppend DEF Open
<1>7. out \in Seq(OutMessages) /\ next = Convert(out, m) /\ next \in Seq(OutMessages) /\ b \in Blocks
  <2>1. out \in Seq(OutMessages) /\ next = Convert(out, m)
    BY ConvertedType, OneMoreConverted
  <2> HIDE DEF out, next
  <2> QED BY <2>1, ConvertKnown
<1>8. b.type = "tool_result" /\ b.id = m.id
  BY DEF Result, Block
<1> HIDE DEF d, n, a, out, next, b, said
<1>9. Open(d)
  BY <1>3, <1>6 DEF Open
<1>10. OpenShape(d)
  <2>1. Asked(d) = Asked(c) /\ d[a] = c[a]
    BY <1>1, <1>3, <1>6 DEF Asked, a
  <2>2. /\ IsInjective(Asked(c)) /\ c[a].id = NoCall
        /\ \A i \in (a + 1)..n : c[i].role = "tool" /\ c[i].id \in ToSet(Asked(c))
        /\ \A i, j \in (a + 1)..n : c[i].id = c[j].id => i = j
    BY <1>2 DEF OpenShape, Given, a, n
  <2>3. \A i \in (a + 1)..(n + 1) : i \in (a + 1)..n \/ i = n + 1
    BY <1>1, <1>3
  <2>4. \A i \in (a + 1)..n : d[i] = c[i] /\ c[i].id # m.id
    BY <1>1, <1>3
  <2>5. \A i \in (a + 1)..(n + 1) : d[i].role = "tool" /\ d[i].id \in ToSet(Asked(c))
    BY <1>1, <1>3, <2>2, <2>3, <2>4
  <2>6. \A i, j \in (a + 1)..(n + 1) : d[i].id = d[j].id => i = j
    BY <1>1, <2>2, <2>3, <2>4
  <2> QED BY <1>1, <1>6, <2>1, <2>2, <2>5, <2>6 DEF OpenShape, Given
<1>11. /\ Len(out) \in Nat /\ Len(out) > 0 /\ DOMAIN out = 1..Len(out)
       /\ \A i \in 1..Len(out) : out[i].content \in Seq(Blocks)
       /\ \A i \in 1..Len(out) : Done(out, i) \/ i = OpenAt(c, out)
  <2>1. Len(out) \in Nat /\ Len(out) > 0 /\ DOMAIN out = 1..Len(out) /\ \A i \in 1..Len(out) : out[i] \in OutMessages
    BY <1>2, <1>7, EmptySeq DEF OpenConverted
  <2>2. \A i \in DOMAIN out : Done(out, i) \/ (Open(c) /\ i = OpenAt(c, out))
    BY DEF InShape, out
  <2> QED BY <2>1, <2>2 DEF OutMessages
<1>12. OpenConverted(d, next) /\ \A i \in DOMAIN next : Done(next, i) \/ i = OpenAt(d, next)
  <2>1. CASE a = n
    <3> DEFINE lone == <<b>>
               x == Out("user", lone)
    <3>1. out[Len(out)] = said /\ said.role = "assistant" /\ OpenAt(c, out) = Len(out)
      BY <1>2, <2>1 DEF OpenConverted, OpenAt, said, a, n, Out
    <3>2. next = Append(out, x)
      BY <1>7, <3>1, ConvertKnown DEF b
    <3>3. lone \in Seq(Blocks) /\ Len(lone) = 1 /\ lone[1] = b
      BY <1>7, OneIsSeq
    <3>4. OfType(lone, "tool_use") = <<>>
      BY <1>7, <1>8, EmptySeq, NothingAsked
    <3> HIDE DEF lone
    <3>5. x \in OutMessages /\ x.content = lone /\ x.role = "user"
      BY <3>3 DEF Out, OutMessages
    <3> HIDE DEF x
    <3>6. /\ Len(next) = Len(out) + 1 /\ DOMAIN next = 1..(Len(out) + 1)
          /\ \A i \in 1..Len(out) : next[i] = out[i]
          /\ next[Len(out) + 1] = x
      BY <1>7, <1>11, <3>2, <3>5, AppendProperties
    <3>7. OpenConverted(d, next)
      <4>1. Len(next) - 1 = Len(out) /\ Len(next) > 1 /\ next # <<>>
        BY <1>11, <3>6
      <4>2. next[Len(next) - 1] = Out("assistant", convertAssistantContent(d[a]))
        <5>1. Len(out) \in 1..Len(out) /\ d[a] = c[a]
          BY <1>1, <1>3, <1>11
        <5>2. next[Len(out)] = said
          BY <3>1, <3>6, <5>1
        <5> QED BY <4>1, <5>1, <5>2 DEF said
      <4>3. /\ next[Len(next)].role = "user" /\ next[Len(next)].content = lone
            /\ Len(d) - a = 1 /\ LastAssistant(d) # Len(d)
        BY <1>1, <1>6, <2>1, <3>5, <3>6
      <4>4. \A i \in 1..1 : lone[i].type = "tool_result" /\ lone[i].id = d[a + i].id
        BY <1>1, <1>8, <2>1, <3>3
      <4> QED BY <1>6, <3>3, <4>1, <4>2, <4>3, <4>4 DEF OpenConverted
    <3>8. OpenAt(d, next) = Len(out)
      <4>1. LastAssistant(d) # Len(d)
        BY <1>1, <1>6, <2>1
      <4>2. Len(next) - 1 = Len(out)
        BY <1>11, <3>6
      <4> QED BY <4>1, <4>2 DEF OpenAt
    <3>9. ASSUME NEW i \in 1..Len(out), i # Len(out)
          PROVE  Done(next, i)
      <4>1. Done(out, i) /\ i \in DOMAIN out /\ next[i] = out[i] /\ next[i + 1] = out[i + 1]
        BY <1>11, <3>1, <3>6, <3>9
      <4>2. Len(next) >= Len(out)
        BY <1>11, <3>6
      <4> QED BY <1>7, <4>1, <4>2, DoneKept
    <3>10. Done(next, Len(out) + 1)
      BY <3>4, <3>5, <3>6 DEF Done
    <3>11. ASSUME NEW i \in DOMAIN next
           PROVE  Done(next, i) \/ i = OpenAt(d, next)
      <4>1. i \in 1..Len(out) \/ i = Len(out) + 1
        BY <1>11, <3>6
      <4> QED BY <3>8, <3>9, <3>10, <4>1
    <3> QED BY <3>7, <3>11
  <2>2. CASE a # n
    <3> DEFINE k == Len(out)
               content == out[k].content
    <3>1. /\ k > 1 /\ out[k - 1] = said /\ out[k].role = "user"
          /\ Len(content) = n - a
          /\ \A i \in 1..(n - a) : content[i].type = "tool_result" /\ content[i].id = c[a + i].id
          /\ OpenAt(c, out) = k - 1
      BY <1>2, <2>2 DEF OpenConverted, OpenAt, said, a, n
    <3>2. LastGrown(out, next, b)
      <4>1. out # <<>>
        BY <1>11
      <4> QED BY <1>7, <3>1, <4>1, ConvertKnown DEF b
    <3>3. content \in Seq(Blocks)
      BY <1>11
    <3>4. /\ Len(next) = k /\ next[k].role = "user" /\ next[k].content = Append(content, b)
          /\ \A i \in 1..(k - 1) : next[i] = out[i]
      BY <3>1, <3>2 DEF LastGrown
    <3>5. OfType(next[k].content, "tool_use") = OfType(content, "tool_use")
      BY <1>7, <1>8, <3>3, <3>4, NothingAsked
    <3>6. /\ Len(next[k].content) = n - a + 1
          /\ \A i \in 1..(n - a) : next[k].content[i] = content[i]
          /\ next[k].content[n - a + 1] = b
      BY <1>7, <3>1, <3>3, <3>4, AppendProperties
    <3>7. k \in Nat /\ k > 1 /\ DOMAIN next = 1..k /\ DOMAIN out = 1..k
      <4>1. DOMAIN next = 1..Len(next)
        BY <1>7
      <4> QED BY <1>11, <3>1, <3>4, <4>1
    <3> HIDE DEF k, content
    <3>8. OpenConverted(d, next)
      <4>1. next # <<>> /\ LastAssistant(d) # Len(d) /\ Len(d) - a = n - a + 1
        BY <1>1, <1>3, <1>6, <3>4, <3>7
      <4>2. next[k - 1] = Out("assistant", convertAssistantContent(d[a]))
        BY <1>1, <1>3, <3>1, <3>4, <3>7 DEF said
      <4>3. ASSUME NEW i \in 1..(n - a + 1)
            PROVE  next[k].content[i].type = "tool_result" /\ next[k].content[i].id = d[a + i].id
        <5>1. CASE i \in 1..(n - a)
          <6>1. d[a + i] = c[a + i]
            BY <1>1, <1>3, <5>1
          <6> QED BY <3>1, <3>6, <5>1, <6>1
        <5>2. CASE i = n - a + 1
          <6>1. d[a + i] = m
            BY <1>1, <1>3, <5>2
          <6> QED BY <1>8, <3>6, <5>2, <6>1
        <5> QED BY <1>1, <1>3, <5>1, <5>2
      <4> QED BY <1>6, <3>4, <3>6, <3>7, <4>1, <4>2, <4>3 DEF OpenConverted
    <3>9. OpenAt(d, next) = k - 1
      BY <1>1, <1>3, <1>6, <3>4 DEF OpenAt
    <3>10. ASSUME NEW i \in 1..k, i # k - 1
           PROVE  Done(next, i)
      <4>1. Done(out, i)
        BY <1>11, <3>1, <3>10 DEF k
      <4>2. OfType(next[i].content, "tool_use") = OfType(out[i].content, "tool_use")
        <5>1. CASE i = k
          BY <3>5, <5>1 DEF content
        <5>2. CASE i # k
          <6>1. i \in 1..(k - 1)
            BY <3>7, <5>2
          <6> QED BY <3>4, <6>1
        <5> QED BY <5>1, <5>2
      <4>3. i < k => next[i + 1] = out[i + 1]
        <5>1. i < k => i + 1 \in 1..(k - 1)
          BY <3>7, <3>10
        <5> QED BY <3>4, <5>1
      <4>4. Len(next) >= Len(out) /\ i \in DOMAIN out /\ (i < Len(out) => next[i + 1] = out[i + 1])
        BY <3>4, <3>7, <4>3 DEF k
      <4> QED BY <1>7, <4>1, <4>2, <4>4, DoneKept
    <3> QED BY <3>7, <3>8, <3>9, <3>10
  <2> QED BY <2>1, <2>2
<1> QED BY <1>9, <1>10, <1>12 DEF InShape, d, next

(***************************************************************************)
(* The conversation's invariant: its chat is one whose client answers      *)
(* calls before it goes on, at every length, and its agent has heard its   *)
(* key.                                                                    *)
(***************************************************************************)
Follows(c) == \A k \in 1..Len(c) : MayFollow(SubSeq(c, 1, k - 1), c[k])

ChatFits(c) == c \in Seq(Message) /\ Len(c) <= MaxMessages /\ Follows(c)

ConversationInv == ChatFits(chat) /\ AgentType /\ AgentHeardKey

LEMMA FollowsAppend ==
  ASSUME NEW c \in Seq(Message), NEW m \in Message
  PROVE  Follows(Append(c, m)) <=> Follows(c) /\ MayFollow(c, m)
<1> DEFINE d == Append(c, m)
           n == Len(c)
<1>1. /\ d \in Seq(Message) /\ Len(d) = n + 1 /\ n \in Nat
      /\ \A i \in 1..n : d[i] = c[i]
      /\ d[n + 1] = m
  BY AppendProperties, LenProperties
<1> HIDE DEF d
<1>2. ASSUME NEW k \in 0..n
      PROVE  SubSeq(d, 1, k) = SubSeq(c, 1, k)
  <2>1. /\ SubSeq(d, 1, k) \in Seq(Message) /\ Len(SubSeq(d, 1, k)) = k
        /\ \A i \in 1..k : SubSeq(d, 1, k)[i] = d[i]
    BY <1>1, SubSeqProperties
  <2>2. /\ SubSeq(c, 1, k) \in Seq(Message) /\ Len(SubSeq(c, 1, k)) = k
        /\ \A i \in 1..k : SubSeq(c, 1, k)[i] = c[i]
    BY <1>1, SubSeqProperties
  <2>3. \A i \in 1..k : SubSeq(d, 1, k)[i] = SubSeq(c, 1, k)[i]
    BY <1>1, <2>1, <2>2
  <2> QED BY <2>1, <2>2, <2>3, SeqEqual
<1>3. SubSeq(c, 1, n) = c
  <2>1. /\ SubSeq(c, 1, n) \in Seq(Message) /\ Len(SubSeq(c, 1, n)) = n
        /\ \A i \in 1..n : SubSeq(c, 1, n)[i] = c[i]
    BY <1>1, SubSeqProperties
  <2> QED BY <2>1, SeqEqual
<1>4. MayFollow(SubSeq(d, 1, (n + 1) - 1), d[n + 1]) <=> MayFollow(c, m)
  <2>1. SubSeq(d, 1, (n + 1) - 1) = c
    BY <1>1, <1>2, <1>3
  <2> QED BY <1>1, <2>1
<1>5. ASSUME NEW k \in 1..n
      PROVE  MayFollow(SubSeq(d, 1, k - 1), d[k]) <=> MayFollow(SubSeq(c, 1, k - 1), c[k])
  <2>1. SubSeq(d, 1, k - 1) = SubSeq(c, 1, k - 1) /\ d[k] = c[k]
    BY <1>1, <1>2
  <2> QED BY <2>1
<1>6. \A k \in 1..(n + 1) : k \in 1..n \/ k = n + 1
  BY <1>1
<1>7. n + 1 \in 1..(n + 1) /\ \A k \in 1..n : k \in 1..(n + 1)
  BY <1>1
<1> HIDE DEF n
<1> QED BY <1>1, <1>4, <1>5, <1>6, <1>7 DEF Follows, d, n

LEMMA FollowsShape ==
  ASSUME NEW c \in Seq(Message), Follows(c)
  PROVE  InShape(c)
<1> DEFINE S == {d \in Seq(Message) : Follows(d) => InShape(d)}
<1>1. <<>> \in S
  BY ShapeEmpty, EmptySeq
<1>2. ASSUME NEW d \in Seq(Message), NEW m \in Message, d \in S
      PROVE  Append(d, m) \in S
  <2> SUFFICES ASSUME Follows(Append(d, m))
               PROVE  InShape(Append(d, m))
    BY AppendProperties
  <2>1. InShape(d) /\ MayFollow(d, m)
    BY <1>2, FollowsAppend
  <2>2. m.role \in {"system", "user", "assistant", "tool"}
    BY DEF Message, Roles
  <2>3. CASE m.role = "tool"
    BY <2>1, <2>3, ShapeResult DEF MayFollow
  <2>4. CASE m.role = "assistant"
    BY <2>1, <2>4, ShapeAnswered DEF MayFollow
  <2>5. CASE m.role \in {"system", "user"}
    BY <2>1, <2>5, ShapeSaid DEF MayFollow
  <2> QED BY <2>2, <2>3, <2>4, <2>5
<1>3. Seq(Message) \subseteq S
  <2> HIDE DEF S
  <2> QED BY <1>1, <1>2, SeqInduction
<1> QED BY <1>3

LEMMA ChatGrows ==
  ASSUME NEW c, ChatFits(c), Len(c) < MaxMessages, NEW m \in Message, MayFollow(c, m)
  PROVE  ChatFits(Append(c, m))
<1>1. Append(c, m) \in Seq(Message) /\ Len(Append(c, m)) = Len(c) + 1 /\ Len(c) \in Nat
  BY AppendProperties, LenProperties DEF ChatFits
<1>2. Len(Append(c, m)) <= MaxMessages
  BY <1>1, ConversationAssumption
<1> QED BY <1>1, <1>2, FollowsAppend DEF ChatFits

LEMMA ChatShrinks ==
  ASSUME NEW c, ChatFits(c), c # <<>>
  PROVE  ChatFits(Front(c))
<1>1. c \in Seq(Message) /\ Len(c) <= MaxMessages
  BY DEF ChatFits
<1>2. PICK d \in Seq(Message), m \in Message : c = Append(d, m)
  BY <1>1, SequenceEmptyOrAppend
<1>3. Len(d) \in Nat /\ Len(c) = Len(d) + 1 /\ \A i \in 1..Len(d) : c[i] = d[i]
  BY <1>2, AppendProperties
<1>4. Front(c) = d
  <2>1. Front(c) = SubSeq(c, 1, Len(d))
    BY <1>3 DEF Front
  <2>2. /\ SubSeq(c, 1, Len(d)) \in Seq(Message) /\ Len(SubSeq(c, 1, Len(d))) = Len(d)
        /\ \A i \in 1..Len(d) : SubSeq(c, 1, Len(d))[i] = c[i]
    BY <1>1, <1>3, SubSeqProperties
  <2> QED BY <1>3, <2>1, <2>2, SeqEqual
<1>5. Follows(d)
  BY <1>2, FollowsAppend DEF ChatFits
<1> QED BY <1>1, <1>3, <1>4, <1>5, ConversationAssumption DEF ChatFits

LEMMA TextsSaid ==
  /\ UserTexts \subseteq Text /\ AnswerTexts \subseteq Text /\ <<Plain>> \in Text
<1>1. <<>> \in Text /\ \A w \in Words : <<w>> \in Text
  BY OneIsSeq DEF Text
<1> QED BY <1>1, PlainKnown DEF UserTexts, AnswerTexts

LEMMA SaidKnown ==
  ASSUME NEW role \in Roles, NEW text \in Text
  PROVE  /\ Said(role, text) \in Message
         /\ Said(role, text).role = role /\ Said(role, text).id = NoCall
         /\ Said(role, text).calls = <<>> /\ IsInjective(Said(role, text).calls)
<1>1. IsInjective(<<>>)
  BY DEF IsInjective
<1> QED BY <1>1 DEF Said, Message

LEMMA NewCallsKnown ==
  ASSUME NEW calls \in NewCalls
  PROVE  calls \in Seq(Calls) /\ IsInjective(calls)
<1>1. IsInjective(calls) /\ calls \in UNION {[1..n -> Calls \ Used] : n \in 0..MaxCalls}
  BY DEF NewCalls
<1>2. PICK n \in 0..MaxCalls : calls \in [1..n -> Calls \ Used]
  BY <1>1
<1>3. n \in Nat /\ calls \in [1..n -> Calls]
  BY <1>2
<1> QED BY <1>1, <1>3, FunctionIsSeq

\* What each action adds to the chat fits it.
LEMMA ChatFitsStep ==
  ASSUME ChatFits(chat), ChatNext
  PROVE  ChatFits(chat)'
<1> DEFINE c == chat
<1>1. c \in Seq(Message) /\ Len(c) \in Nat
  BY DEF ChatFits
<1>2. ASSUME NEW m \in Message, MayFollow(chat, m), Len(chat) < MaxMessages, chat' = Append(chat, m)
      PROVE  ChatFits(chat')
  BY <1>2, ChatGrows
<1>3. ASSUME NEW role \in {"system", "user"}, NEW text \in Text, ClientSays(role, text)
      PROVE  ChatFits(chat')
  <2> DEFINE m == Said(role, text)
  <2>1. m \in Message /\ m.role = role /\ m.id = NoCall
    BY SaidKnown DEF Roles
  <2>2. Pending(chat) = {} /\ Len(chat) < MaxMessages /\ chat' = Append(chat, m)
    BY <1>3 DEF ClientSays, Room
  <2> HIDE DEF m
  <2>3. MayFollow(chat, m)
    BY <2>1, <2>2 DEF MayFollow
  <2> QED BY <1>2, <2>1, <2>2, <2>3
<1>4. ASSUME NEW x \in Calls, NEW text \in Text, ClientReports(x, text)
      PROVE  ChatFits(chat')
  <2> DEFINE m == [Said("tool", text) EXCEPT !.id = x]
  <2>1. m \in Message /\ m.role = "tool" /\ m.id = x
    <3>1. Said("tool", text) = [role |-> "tool", text |-> text, calls |-> <<>>, id |-> NoCall]
      BY DEF Said
    <3>2. m = [role |-> "tool", text |-> text, calls |-> <<>>, id |-> x]
      BY <3>1
    <3>3. <<>> \in Seq(Calls)
      OBVIOUS
    <3> QED BY <3>2, <3>3 DEF Message, Roles
  <2>2. x \in Pending(chat) /\ Len(chat) < MaxMessages /\ chat' = Append(chat, m)
    BY <1>4 DEF ClientReports, Room
  <2> HIDE DEF m
  <2>3. MayFollow(chat, m)
    BY <2>1, <2>2 DEF MayFollow
  <2> QED BY <1>2, <2>1, <2>2, <2>3
<1>5. ASSUME NEW text \in Text, CursorAnswers(text)
      PROVE  ChatFits(chat')
  <2> DEFINE m == Said("assistant", text)
  <2>1. m \in Message /\ m.role = "assistant" /\ m.id = NoCall /\ IsInjective(m.calls)
    BY SaidKnown DEF Roles
  <2>2. Pending(chat) = {} /\ Len(chat) + 1 < MaxMessages /\ chat' = Append(chat, m)
    BY <1>5 DEF CursorAnswers, ClientWaits
  <2> HIDE DEF m
  <2>3. MayFollow(chat, m)
    BY <2>1, <2>2 DEF MayFollow
  <2>4. Len(chat) < MaxMessages
    BY <1>1, <2>2, ConversationAssumption
  <2> QED BY <1>2, <2>1, <2>2, <2>3, <2>4
<1>6. ASSUME NEW text \in Text, NEW calls \in NewCalls, CursorRuns(text, calls)
      PROVE  ChatFits(chat')
  <2> DEFINE m == [Said("assistant", text) EXCEPT !.calls = calls]
  <2>1. calls \in Seq(Calls) /\ IsInjective(calls)
    BY NewCallsKnown
  <2>2. m \in Message /\ m.role = "assistant" /\ m.id = NoCall /\ m.calls = calls
    BY <2>1 DEF Said, Message, Roles
  <2>3. Pending(chat) = {} /\ Len(chat) < MaxMessages /\ chat' = Append(chat, m)
    BY <1>6 DEF CursorRuns, ClientWaits, Room
  <2> HIDE DEF m
  <2>4. MayFollow(chat, m)
    BY <2>1, <2>2, <2>3 DEF MayFollow
  <2> QED BY <1>2, <2>2, <2>3, <2>4
<1>7. ASSUME NEW calls \in NewCalls, NEW blocks \in Answers(calls), CommandCodeAnswers(blocks)
      PROVE  ChatFits(chat')
  <2> DEFINE m == anthropicToChatCompletion(blocks)
  <2>1. calls \in Seq(Calls) /\ IsInjective(calls)
    BY NewCallsKnown
  <2>2. m \in Message /\ m.role = "assistant" /\ m.id = NoCall /\ m.calls = calls
    BY <2>1, ConvertedAnswer
  <2>3. Pending(chat) = {} /\ Len(chat) < MaxMessages /\ chat' = Append(chat, m)
    BY <1>7 DEF CommandCodeAnswers, ClientWaits, Room
  <2> HIDE DEF m
  <2>4. MayFollow(chat, m)
    BY <2>1, <2>2, <2>3 DEF MayFollow
  <2> QED BY <1>2, <2>2, <2>3, <2>4
<1>8. CASE ClientGoesBack
  <2>1. chat # <<>> /\ chat' = Front(chat)
    BY <1>8 DEF ClientGoesBack
  <2>2. ChatFits(Front(chat))
    BY <2>1, ChatShrinks
  <2> QED BY <2>1, <2>2
<1> QED BY <1>3, <1>4, <1>5, <1>6, <1>7, <1>8, TextsSaid DEF ChatNext

LEMMA AgentStep ==
  ASSUME chat \in Seq(Message), AgentType, AgentHeardKey, ChatNext
  PROVE  AgentType' /\ AgentHeardKey'
<1>1. ASSUME UNCHANGED agent
      PROVE  AgentType' /\ AgentHeardKey'
  BY <1>1 DEF AgentType, AgentHeardKey
<1>2. \A text \in AnswerTexts : CursorAnswers(text) => AgentType' /\ AgentHeardKey'
  BY TextsSaid, AnswerKeepsKey
<1>3. (\E text \in AnswerTexts : CursorAnswers(text)) \/ UNCHANGED agent
  BY DEF ChatNext, ClientSays, ClientReports, CursorRuns, CommandCodeAnswers, ClientGoesBack
<1> QED BY <1>1, <1>2, <1>3

\* ConversationInv is inductive.
THEOREM ConversationInvariant == ChatSpec => []ConversationInv
<1>1. ChatInit => ConversationInv
  <2> SUFFICES ASSUME ChatInit PROVE ConversationInv
    OBVIOUS
  <2>1. chat = <<>> /\ agent = [key |-> <<>>, heard |-> <<>>, late |-> FALSE]
    BY DEF ChatInit
  <2>2. ChatFits(<<>>)
    BY ConversationAssumption DEF ChatFits, Follows
  <2>3. Heard(<<>>) = <<>>
    BY DEF Heard
  <2>4. AgentType /\ AgentHeardKey
    BY <2>1, <2>3 DEF AgentType, AgentHeardKey
  <2> QED BY <2>1, <2>2, <2>4 DEF ConversationInv
<1>2. ConversationInv /\ [ChatNext]_chatVars => ConversationInv'
  <2> SUFFICES ASSUME ConversationInv, [ChatNext]_chatVars
               PROVE  ConversationInv'
    OBVIOUS
  <2>1. CASE ChatNext
    <3>1. chat \in Seq(Message)
      BY DEF ConversationInv, ChatFits
    <3> QED BY <2>1, <3>1, ChatFitsStep, AgentStep DEF ConversationInv
  <2>2. CASE UNCHANGED chatVars
    <3>1. chat' = chat /\ agent' = agent
      BY <2>2 DEF chatVars
    <3> QED BY <3>1 DEF ConversationInv, AgentType, AgentHeardKey
  <2> QED BY <2>1, <2>2
<1> QED BY <1>1, <1>2, PTL DEF ChatSpec

\* A chat goes through the conversions whole, back and forth: each call has its result right
\* after it, an answer comes back as it was given, all results reach the relay, and the agent
\* a request finds has heard what came before (chatcompletions.go:192, anthropic.go).
THEOREM ChatsGoThrough == ChatSpec => []ChatGoesThrough
<1>1. ConversationInv => ChatGoesThrough
  <2> SUFFICES ASSUME ConversationInv PROVE ChatGoesThrough
    OBVIOUS
  <2>1. /\ chat \in Seq(Message) /\ Len(chat) <= MaxMessages
        /\ AgentType /\ AgentHeardKey /\ InShape(chat)
    BY FollowsShape DEF ConversationInv, ChatFits
  <2>2. ChatTypeOK
    <3>1. agent.key \in Seq(AllLines) /\ agent.heard \in Seq(AllLines)
      BY <2>1 DEF AgentType
    <3>2. \A s \in Seq(AllLines) : \A i \in DOMAIN s : s[i].text \in Text
      <4>1. \A l \in AllLines : l.text \in Text
        BY DEF AllLines, LinesOf
      <4> QED BY <4>1, ElementOfSeq
    <3> QED BY <2>1, <3>1, <3>2 DEF ChatTypeOK
  <2>3. FoundAgentHeardAll
    BY <2>1, FoundHeardAll
  <2>4. ResultsFollowCalls
    <3> DEFINE out == chatToAnthropic(chat)
    <3>1. Pending(chat) = {} => \A i \in DOMAIN out : Done(out, i)
      BY <2>1, AllDone
    <3> HIDE DEF out
    <3> QED BY <3>1 DEF ResultsFollowCalls, Done, out
  <2>5. AnswerComesBack
    BY <2>1, AnswersComeBack
  <2>6. AllResultsDelivered
    <3> SUFFICES ASSUME ClientWaits, chat[Len(chat)].role = "tool"
                 PROVE  /\ ToSet(Ids(finalToolResults(chat))) = ToSet(chat[LastAssistant(chat)].calls)
                        /\ Len(finalToolResults(chat)) = Len(chat[LastAssistant(chat)].calls)
      BY DEF AllResultsDelivered
    <3> DEFINE a == LastAssistant(chat)
               n == Len(chat) - a
               results == finalToolResults(chat)
    <3>1. Pending(chat) = {} /\ Open(chat) /\ OpenShape(chat)
      BY <2>1 DEF ClientWaits, InShape
    <3>2. /\ Len(Asked(chat)) = n
          /\ \A x : x \in ToSet(Asked(chat)) <=> \E i \in 1..Len(Asked(chat)) : chat[a + i].id = x
      BY <2>1, <3>1, AllAnswered
    <3>3. results = SubSeq(chat, 1 + a, Len(chat)) /\ a \in 1..Len(chat) /\ Len(chat) \in Nat
      BY <2>1, <3>1, LastAssistantKnown DEF finalToolResults, Open
    <3> HIDE DEF a, results
    <3>4. /\ results \in Seq(Message) /\ Len(results) = n /\ DOMAIN results = 1..n
          /\ \A i \in 1..n : results[i] = chat[a + i]
      <4>1. /\ results \in Seq(Message) /\ Len(results) = n
            /\ \A i \in 1..n : results[i] = chat[(1 + a) + i - 1]
        BY <2>1, <3>3, SubSeqProperties
      <4>2. \A i \in 1..n : (1 + a) + i - 1 = a + i
        BY <3>3
      <4> QED BY <4>1, <4>2
    <3>5. \A x : x \in ToSet(Ids(results)) <=> \E i \in 1..n : results[i].id = x
      BY <3>4 DEF ToSet, Ids
    <3>6. \A x : (\E i \in 1..n : results[i].id = x) <=> (\E i \in 1..n : chat[a + i].id = x)
      BY <3>4
    <3>7. ToSet(Ids(results)) = ToSet(Asked(chat))
      BY <3>2, <3>5, <3>6
    <3> QED BY <3>2, <3>4, <3>7 DEF Asked, a, results
  <2> QED BY <2>2, <2>3, <2>4, <2>5, <2>6 DEF ChatGoesThrough
<1> QED BY <1>1, ConversationInvariant, PTL

\* The next request of a conversation that just goes on finds the agent of the turn before:
\* the key nextSessionPrefix keeps it under is the one sessionSplit makes (session.go:43).
THEOREM ContinuedAreFound == ChatSpec => ContinuedIsFound
<1>1. ConversationInv /\ [ChatNext]_chatVars =>
        [agent' # agent /\ Ordinary(chat) =>
           \A text \in AnswerTexts \ {<<>>}, next \in UserTexts \ {<<>>} :
             CursorAnswers(text) => MayReuse(Append(chat', Said("user", next)), agent'.key)]_chatVars
  <2> SUFFICES ASSUME ConversationInv, Ordinary(chat),
                      NEW text \in AnswerTexts \ {<<>>}, NEW next \in UserTexts \ {<<>>},
                      CursorAnswers(text)
               PROVE  MayReuse(Append(chat', Said("user", next)), agent'.key)
    OBVIOUS
  <2>1. chat \in Seq(Message)
    BY DEF ConversationInv, ChatFits
  <2>2. text \in Text /\ text # <<>> /\ next \in Text /\ next # <<>>
    BY TextsSaid
  <2>3. chat' = Append(chat, Said("assistant", text)) /\ agent'.key = nextSessionPrefix(chat, text)
    BY DEF CursorAnswers
  <2> QED BY <2>1, <2>2, <2>3, ContinuedFinds
<1> QED BY <1>1, ConversationInvariant, PTL DEF ChatSpec, ContinuedIsFound

(***************************************************************************)
(* Images.  An answer's chunks are read until one is its last, fails, or   *)
(* makes the image too large.                                              *)
(***************************************************************************)
Chunks(B) == [payload : Seq(B), error : BOOLEAN, done : BOOLEAN]

\* What downloadImage has read after each chunk.
ReadsUp(after, s, n) ==
  after = [i \in 0 .. n |-> IF i = 0 THEN Unread ELSE Read(after[i - 1], s[i])]

\* The recursion defines a function.
LEMMA ReadsUpExists ==
  ASSUME NEW s, NEW n \in Nat
  PROVE  \E after : ReadsUp(after, s, n)
<1> DEFINE S == {m \in Nat : \E after : ReadsUp(after, s, m)}
<1>1. 0 \in S
  <2> DEFINE after == [i \in 0 .. 0 |-> Unread]
  <2>1. ReadsUp(after, s, 0)
    BY DEF ReadsUp
  <2> QED BY <2>1
<1>2. ASSUME NEW m \in S
      PROVE  m + 1 \in S
  <2>1. m \in Nat
    OBVIOUS
  <2>2. PICK after : ReadsUp(after, s, m)
    OBVIOUS
  <2> DEFINE next == Read(after[m], s[m + 1])
             longer == [i \in 0 .. m + 1 |-> IF i = m + 1 THEN next ELSE after[i]]
  <2>3. ASSUME NEW i \in 0 .. m + 1
        PROVE  longer[i] = IF i = 0 THEN Unread ELSE Read(longer[i - 1], s[i])
    <3>1. CASE i = m + 1
      <4>1. longer[i - 1] = after[m]
        BY <2>1, <3>1
      <4> QED BY <2>1, <3>1, <4>1
    <3>2. CASE i \in 0 .. m /\ i # 0
      <4>1. longer[i] = after[i] /\ longer[i - 1] = after[i - 1]
        BY <2>1, <3>2
      <4>2. after[i] = Read(after[i - 1], s[i])
        BY <2>2, <3>2 DEF ReadsUp
      <4> QED BY <3>2, <4>1, <4>2
    <3>3. CASE i = 0
      <4>1. longer[i] = after[i]
        BY <2>1, <3>3
      <4>2. after[i] = Unread
        BY <2>1, <2>2, <3>3 DEF ReadsUp
      <4> QED BY <3>3, <4>1, <4>2
    <3> QED BY <2>1, <3>1, <3>2, <3>3
  <2>4. ReadsUp(longer, s, m + 1)
    <3>1. longer = [i \in 0 .. m + 1 |-> longer[i]]
      OBVIOUS
    <3> HIDE DEF longer
    <3> QED BY <2>3, <3>1 DEF ReadsUp
  <2> QED BY <2>1, <2>4
<1>3. S = Nat
  BY <1>1, <1>2, Induction
<1> QED BY <1>3

LEMMA ReadsUpInTurn ==
  ASSUME NEW s, NEW n \in Nat, NEW after, ReadsUp(after, s, n)
  PROVE  /\ after[0] = Unread
         /\ \A i \in 1 .. n : after[i] = Read(after[i - 1], s[i])
<1>1. after[0] = Unread
  <2>1. 0 \in 0 .. n
    OBVIOUS
  <2> QED BY <2>1 DEF ReadsUp
<1>2. ASSUME NEW i \in 1 .. n
      PROVE  after[i] = Read(after[i - 1], s[i])
  <2>1. i \in 0 .. n /\ i # 0
    OBVIOUS
  <2> QED BY <2>1 DEF ReadsUp
<1> QED BY <1>1, <1>2

\* What the first n chunks hold.
HeldBy(chunks, n) == Flat([i \in 1 .. n |-> chunks[i].payload])

LEMMA HeldNext ==
  ASSUME NEW B, NEW chunks \in Seq(Chunks(B)), NEW n \in Nat, n + 1 <= Len(chunks)
  PROVE  /\ HeldBy(chunks, n) \in Seq(B)
         /\ HeldBy(chunks, n + 1) = HeldBy(chunks, n) \o chunks[n + 1].payload
<1> DEFINE some == [i \in 1 .. n |-> chunks[i].payload]
           more == [i \in 1 .. n + 1 |-> chunks[i].payload]
<1>1. \A i \in 1 .. n + 1 : chunks[i].payload \in Seq(B)
  <2> SUFFICES ASSUME NEW i \in 1 .. n + 1
               PROVE  chunks[i].payload \in Seq(B)
    OBVIOUS
  <2>1. chunks[i] \in Chunks(B)
    OBVIOUS
  <2> QED BY <2>1 DEF Chunks
<1>2. some \in Seq(Seq(B)) /\ Len(some) = n
  BY <1>1
<1>3. more = Append(some, chunks[n + 1].payload)
  <2> DEFINE x == chunks[n + 1].payload
  <2>1. x \in Seq(B)
    BY <1>1
  <2> HIDE DEF x
  <2>2. /\ Len(Append(some, x)) = n + 1 /\ Append(some, x) \in Seq(Seq(B))
        /\ Append(some, x)[n + 1] = x
        /\ \A i \in 1 .. n : Append(some, x)[i] = some[i]
    BY <1>2, <2>1, AppendProperties
  <2>3. more \in Seq(Seq(B)) /\ Len(more) = n + 1
    BY <1>1
  <2>4. \A i \in 1 .. n + 1 : more[i] = Append(some, x)[i]
    <3> SUFFICES ASSUME NEW i \in 1 .. n + 1
                 PROVE  more[i] = Append(some, x)[i]
      OBVIOUS
    <3>1. CASE i = n + 1
      BY <2>2, <3>1 DEF x
    <3>2. CASE i \in 1 .. n
      BY <2>2, <3>2
    <3> QED BY <3>1, <3>2
  <2> HIDE DEF some, more
  <2>5. more = Append(some, x)
    BY <2>2, <2>3, <2>4, SeqEqual
  <2> QED BY <2>5 DEF x
<1>4. chunks[n + 1].payload \in Seq(B)
  BY <1>1
<1> HIDE DEF some, more
<1>5. Flat(more) = Flat(some) \o chunks[n + 1].payload /\ Flat(some) \in Seq(B)
  BY <1>2, <1>3, <1>4, FlatAppend, FlatType
<1> QED BY <1>5 DEF HeldBy, some, more

LEMMA HeldNone ==
  ASSUME NEW chunks
  PROVE  HeldBy(chunks, 0) = <<>>
<1>1. [i \in 1 .. 0 |-> chunks[i].payload] = <<>>
  OBVIOUS
<1> QED BY <1>1, FlatEmpty DEF HeldBy

\* Nothing of the first n is an error, and they are not too much.
Arrived(chunks, n) ==
  /\ \A i \in 1 .. n : ~ chunks[i].error
  /\ Len(HeldBy(chunks, n)) <= imageMaxBytes

\* What is known of the body after n chunks, of which the last one is at the end.
BodyFits(b, chunks, n, end) ==
  IF end = 0 \/ n < end
  THEN /\ b.state # "done"
       /\ b.state = "reading" <=> Arrived(chunks, n)
       /\ b.state = "reading" => b.bytes = HeldBy(chunks, n)
  ELSE /\ b.state # "reading"
       /\ b.state = "done" <=> Arrived(chunks, end)
       /\ b.state = "done" => b.bytes = HeldBy(chunks, end)

LEMMA EndIs ==
  ASSUME NEW B, NEW chunks \in Seq(Chunks(B))
  PROVE  LET end == LastChunk(chunks) IN
         /\ end \in 0 .. Len(chunks)
         /\ end > 0 => chunks[end].done
         /\ \A i \in 1 .. Len(chunks) : (end = 0 \/ i < end) => ~ chunks[i].done
<1> DEFINE ends == {i \in DOMAIN chunks : chunks[i].done}
<1>1. DOMAIN chunks = 1 .. Len(chunks) /\ Len(chunks) \in Nat
  OBVIOUS
<1>2. ends \in SUBSET Nat
  BY <1>1
<1>3. CASE ends = {}
  <2>1. LastChunk(chunks) = 0
    BY <1>3 DEF LastChunk
  <2> QED BY <1>1, <1>3, <2>1
<1>4. CASE ends # {}
  <2> DEFINE first == Min(ends)
  <2>1. LastChunk(chunks) = first
    BY <1>4 DEF LastChunk
  <2> HIDE DEF ends
  <2>2. first \in ends /\ \A i \in ends : first <= i
    BY <1>2, <1>4, Least
  <2> HIDE DEF first
  <2>3. first \in 1 .. Len(chunks) /\ chunks[first].done
    BY <1>1, <2>2 DEF ends
  <2>4. ASSUME NEW i \in 1 .. Len(chunks), i < first
        PROVE  ~ chunks[i].done
    <3>1. i \notin ends
      BY <1>2, <2>2, <2>3, <2>4
    <3> QED BY <1>1, <3>1 DEF ends
  <2> QED BY <2>1, <2>3, <2>4
<1> QED BY <1>3, <1>4

LEMMA ReadFits ==
  ASSUME NEW B, NEW chunks \in Seq(Chunks(B)), NEW n \in Nat, n + 1 <= Len(chunks), NEW b,
         BodyFits(b, chunks, n, LastChunk(chunks))
  PROVE  BodyFits(Read(b, chunks[n + 1]), chunks, n + 1, LastChunk(chunks))
<1> DEFINE end == LastChunk(chunks)
           c == chunks[n + 1]
           held == HeldBy(chunks, n)
           next == Read(b, c)
<1>1. /\ end \in Nat
      /\ end > 0 => chunks[end].done
      /\ (end = 0 \/ n + 1 < end) => ~ c.done
  BY EndIs
<1>2. /\ held \in Seq(B) /\ HeldBy(chunks, n + 1) = held \o c.payload
  BY HeldNext
<1>3. c.payload \in Seq(B) /\ c.error \in BOOLEAN /\ c.done \in BOOLEAN
  <2>1. c \in Chunks(B)
    OBVIOUS
  <2> HIDE DEF c
  <2> QED BY <2>1 DEF Chunks
<1> HIDE DEF end, c, held
<1>4. /\ Len(held) \in Nat /\ Len(c.payload) \in Nat
      /\ Len(HeldBy(chunks, n + 1)) = Len(held) + Len(c.payload)
  BY <1>2, <1>3, ConcatProperties, LenProperties
<1>5. imageMaxBytes \in Nat
  BY ImagesAssumption
<1>6. Arrived(chunks, n + 1)
        <=> Arrived(chunks, n) /\ ~ c.error /\ Len(held) + Len(c.payload) <= imageMaxBytes
  <2> DEFINE fine(m) == \A i \in 1 .. m : ~ chunks[i].error
  <2>1. fine(n + 1) <=> fine(n) /\ ~ c.error
    <3>1. \A i \in 1 .. n + 1 : i \in 1 .. n \/ i = n + 1
      OBVIOUS
    <3>2. n + 1 \in 1 .. n + 1 /\ 1 .. n \subseteq 1 .. n + 1
      OBVIOUS
    <3> QED BY <3>1, <3>2 DEF c
  <2>2. Arrived(chunks, n + 1) <=> fine(n + 1) /\ Len(held) + Len(c.payload) <= imageMaxBytes
    BY <1>4 DEF Arrived
  <2>3. Arrived(chunks, n) <=> fine(n) /\ Len(held) <= imageMaxBytes
    BY DEF Arrived, held
  <2>4. Len(held) + Len(c.payload) <= imageMaxBytes => Len(held) <= imageMaxBytes
    BY <1>4, <1>5
  <2> HIDE DEF fine
  <2> QED BY <2>1, <2>2, <2>3, <2>4
<1>7. CASE end = 0 \/ n + 1 <= end
  <2>1. /\ b.state # "done" /\ (b.state = "reading" <=> Arrived(chunks, n))
        /\ b.state = "reading" => b.bytes = held
    BY <1>1, <1>7 DEF BodyFits, end, held
  <2>2. CASE b.state # "reading"
    <3>1. next = b /\ ~ Arrived(chunks, n + 1)
      BY <1>6, <2>1, <2>2 DEF Read
    <3>2. n + 1 = end => ~ Arrived(chunks, end)
      BY <3>1
    <3> HIDE DEF next
    <3> QED BY <1>1, <1>7, <2>1, <2>2, <3>1, <3>2 DEF BodyFits, end, next, c
  <2>3. CASE b.state = "reading" /\ (c.error \/ Len(held) + Len(c.payload) > imageMaxBytes)
    <3>1. next.state = "failed" /\ ~ Arrived(chunks, n + 1)
      <4>1. next = [b EXCEPT !.state = "failed"]
        BY <2>1, <2>3 DEF Read
      <4>2. ~ Arrived(chunks, n + 1)
        BY <1>4, <1>5, <1>6, <2>3
      <4> QED BY <4>1, <4>2
    <3>2. n + 1 = end => ~ Arrived(chunks, end)
      BY <3>1
    <3> HIDE DEF next
    <3> QED BY <1>1, <1>7, <3>1, <3>2 DEF BodyFits, end, next, c
  <2>4. CASE b.state = "reading" /\ ~ (c.error \/ Len(held) + Len(c.payload) > imageMaxBytes)
    <3>1. /\ next.bytes = HeldBy(chunks, n + 1)
          /\ next.state = IF c.done THEN "done" ELSE "reading"
      BY <1>2, <2>1, <2>4 DEF Read
    <3>2. Arrived(chunks, n + 1)
      BY <1>4, <1>5, <1>6, <2>1, <2>4
    <3>3. n + 1 = end => c.done
      BY <1>1 DEF c
    <3> HIDE DEF next
    <3>4. CASE n + 1 = end
      <4>1. next.state = "done"
        BY <3>1, <3>3, <3>4
      <4> QED BY <1>1, <3>1, <3>2, <3>4, <4>1 DEF BodyFits, end, next, c
    <3>5. CASE end = 0 \/ n + 1 < end
      <4>1. next.state = "reading"
        BY <1>1, <3>1, <3>5
      <4> QED BY <3>1, <3>2, <3>5, <4>1 DEF BodyFits, end, next, c
    <3> QED BY <1>1, <1>7, <3>4, <3>5
  <2> QED BY <2>2, <2>3, <2>4
<1>8. CASE end > 0 /\ n >= end
  <2>1. b.state # "reading"
    BY <1>1, <1>8 DEF BodyFits, end
  <2>2. next = b
    BY <2>1 DEF Read
  <2> HIDE DEF next
  <2> QED BY <1>1, <1>8, <2>2 DEF BodyFits, end, next, c
<1> QED BY <1>1, <1>7, <1>8

LEMMA BodyIs ==
  ASSUME NEW B, NEW chunks \in Seq(Chunks(B))
  PROVE  BodyFits(Body(chunks), chunks, Len(chunks), LastChunk(chunks))
<1> DEFINE n == Len(chunks)
           end == LastChunk(chunks)
           after == CHOOSE f : ReadsUp(f, chunks, n)
<1>1. n \in Nat /\ end \in Nat /\ end <= n
  BY EndIs
<1>2. ReadsUp(after, chunks, n)
  BY <1>1, ReadsUpExists
<1>3. Body(chunks) = after[n]
  BY DEF Body, ReadsUp
<1> HIDE DEF after
<1>4. /\ after[0] = Unread
      /\ \A i \in 1 .. n : after[i] = Read(after[i - 1], chunks[i])
  BY <1>1, <1>2, ReadsUpInTurn
<1> DEFINE S == {i \in Nat : i <= n => BodyFits(after[i], chunks, i, end)}
<1>5. 0 \in S
  <2>1. Arrived(chunks, 0)
    BY HeldNone, ImagesAssumption DEF Arrived
  <2>2. after[0].state = "reading" /\ after[0].bytes = HeldBy(chunks, 0)
    BY <1>4, HeldNone DEF Unread
  <2>3. end = 0 \/ 0 < end
    BY <1>1
  <2> QED BY <2>1, <2>2, <2>3 DEF BodyFits
<1>6. ASSUME NEW i \in S
      PROVE  i + 1 \in S
  <2> SUFFICES ASSUME i + 1 <= n
               PROVE  BodyFits(after[i + 1], chunks, i + 1, end)
    OBVIOUS
  <2>1. i \in Nat /\ BodyFits(after[i], chunks, i, end)
    BY <1>1
  <2>2. after[i + 1] = Read(after[i], chunks[i + 1])
    <3>1. i + 1 \in 1 .. n /\ (i + 1) - 1 = i
      BY <1>1
    <3> QED BY <1>4, <3>1
  <2> QED BY <2>1, <2>2, ReadFits
<1> HIDE DEF S
<1>7. S = Nat
  BY <1>5, <1>6, Induction DEF S
<1> QED BY <1>1, <1>3, <1>7 DEF S

LEMMA FetchableIs ==
  ASSUME NEW url, url.user \in BOOLEAN
  PROVE  parseFetchableImageURL(url)
           <=> /\ url.scheme \in {"http", "https"} /\ ~ url.user
               /\ url.host \in {"public", "an.example", "cdn.example"}
<1> DEFINE host == url.host
           elsewhere == {"public", "an.example", "cdn.example"}
           at == Resolved(host)
<1>1. CASE host \in elsewhere
  <2>1. host # "" /\ ~ blockedImageHost(host)
    BY <1>1, Zenon DEF blockedImageHost, blockedImageIP, metadataImageHosts, Inward
  <2>2. at = <<"public">> \/ at = <<"public", "public">>
    BY <1>1 DEF Resolved, Inward
  <2> HIDE DEF at
  <2>3. at # <<>> /\ \A i \in DOMAIN at : at[i] = "public"
    BY <2>2
  <2>4. ~ blockedImageIP("public")
    BY DEF blockedImageIP, Inward
  <2>5. \A i \in DOMAIN at : ~ blockedImageIP(at[i])
    BY <2>3, <2>4, Zenon
  <2> HIDE DEF host
  <2>6. parseFetchableImageURL(url) <=> url.scheme \in {"http", "https"} /\ ~ url.user
    BY <2>1, <2>3, <2>5, Zenon DEF parseFetchableImageURL, host, at
  <2> HIDE DEF elsewhere
  <2> QED BY <1>1, <2>6 DEF host, elsewhere
<1>2. CASE host \notin elsewhere
  <2>1. host = "" \/ blockedImageHost(host) \/ at = <<>> \/ \E i \in DOMAIN at : blockedImageIP(at[i])
    <3>1. CASE host \in Inward
      BY <3>1, Zenon DEF blockedImageHost, blockedImageIP
    <3>2. CASE host = "half.example"
      <4>1. at = <<"private", "public">>
        BY <3>2 DEF Resolved, Inward
      <4> HIDE DEF at
      <4>2. 1 \in DOMAIN at /\ at[1] = "private"
        BY <4>1
      <4>3. blockedImageIP("private")
        BY DEF blockedImageIP, Inward
      <4> QED BY <4>2, <4>3, Zenon
    <3>3. CASE host \in {"localhost", "metadata.goog"}
      BY <3>3, Zenon DEF blockedImageHost, metadataImageHosts
    <3>4. CASE host \notin Inward \cup {"half.example", "localhost", "metadata.goog"}
      BY <1>2, <3>4, Zenon DEF Resolved
    <3> QED BY <3>1, <3>2, <3>3, <3>4, Zenon
  <2> HIDE DEF host, elsewhere
  <2>2. ~ parseFetchableImageURL(url)
    BY <2>1, Zenon DEF parseFetchableImageURL, host, at
  <2> QED BY <1>2, <2>2, Zenon DEF host, elsewhere
<1> QED BY <1>1, <1>2, Zenon

AnswersOf(B, M) ==
  [opens : BOOLEAN, status : Nat, mime : M, chunks : Seq(Chunks(B))]

\* images.go:88: whatever an address answers, in however many chunks of whatever length, an image
\* is fetched if and only if it can be had, and then it is all there.
THEOREM ImagesAreFetched ==
  ASSUME NEW B, NEW M, NEW url, url.user \in BOOLEAN, NEW answer \in AnswersOf(B, M)
  PROVE  FetchedWhole(url, answer)
<1> DEFINE chunks == answer.chunks
           end == LastChunk(chunks)
           body == Body(chunks)
           ok == /\ parseFetchableImageURL(url) /\ answer.opens /\ answer.status \in 200..299
                 /\ body.state = "done" /\ body.bytes # <<>>
           got == [bytes |-> body.bytes, mime |-> responseMimeType(answer)]
           fetched == downloadImage(url, answer)
<1>1. chunks \in Seq(Chunks(B)) /\ answer.opens \in BOOLEAN
  BY DEF AnswersOf
<1>2. BodyFits(body, chunks, Len(chunks), end)
  BY <1>1, BodyIs
<1>3. end \in 0 .. Len(chunks) /\ Len(chunks) \in Nat
  BY <1>1, EndIs
<1>4. Whole(chunks) = HeldBy(chunks, end)
  BY DEF Whole, HeldBy
<1>5. fetched = IF ok THEN got ELSE Refused
  BY DEF downloadImage
<1> HIDE DEF chunks, end, body, fetched
<1>6. body.state = "done" <=> end > 0 /\ Arrived(chunks, end)
  BY <1>2, <1>3 DEF BodyFits
<1>7. body.state = "done" => body.bytes = Whole(chunks)
  BY <1>2, <1>3, <1>4, <1>6 DEF BodyFits
<1>8. end > 0 => Len(Whole(chunks)) \in Nat /\ (Whole(chunks) = <<>> <=> Len(Whole(chunks)) = 0)
  <2> SUFFICES ASSUME end > 0
               PROVE  Whole(chunks) \in Seq(B)
    BY EmptySeq, LenProperties
  <2> DEFINE n == end - 1
             held == HeldBy(chunks, n)
             last == chunks[end].payload
  <2>1. n \in Nat /\ n + 1 = end /\ n + 1 <= Len(chunks)
    BY <1>3
  <2>2. last \in Seq(B)
    <3>1. chunks[end] \in Chunks(B)
      BY <1>1, <1>3
    <3> QED BY <3>1 DEF Chunks
  <2> HIDE DEF n
  <2>3. held \in Seq(B) /\ HeldBy(chunks, n + 1) = held \o chunks[n + 1].payload
    BY <1>1, <2>1, HeldNext
  <2>4. Whole(chunks) = held \o last
    BY <1>4, <2>1, <2>3
  <2> HIDE DEF held, last
  <2> QED BY <2>2, <2>3, <2>4, ConcatProperties
<1>9. ok <=> CanBeHad(url, answer)
  <2>1. parseFetchableImageURL(url)
          <=> /\ url.scheme \in {"http", "https"} /\ ~ url.user
              /\ url.host \in {"public", "an.example", "cdn.example"}
    BY FetchableIs
  <2>2. body.state = "done" /\ body.bytes # <<>>
          <=> /\ end > 0 /\ \A i \in 1 .. end : ~ chunks[i].error
              /\ Len(Whole(chunks)) \in 1 .. imageMaxBytes
    BY <1>4, <1>6, <1>7, <1>8, ImagesAssumption DEF Arrived
  <2> QED BY <1>1, <2>1, <2>2 DEF CanBeHad, chunks, end
<1>10. got # Refused
  <2>1. "bytes" \in DOMAIN got /\ "bytes" \notin DOMAIN Refused
    BY DEF Refused
  <2> QED BY <2>1
<1> HIDE DEF ok, got
<1>11. fetched # Refused <=> ok
  BY <1>5, <1>10
<1>12. ok => fetched.bytes = Whole(chunks)
  BY <1>5, <1>7 DEF ok, got
<1> QED BY <1>9, <1>11, <1>12 DEF FetchedWhole, fetched, chunks

\* What the loop of buildSdkImages has built after each image.
Builds(after, answers, s, n) ==
  after = [i \in 0 .. n |-> IF i = 0 THEN Unbuilt ELSE BuildImage(after[i - 1], s[i], answers)]

\* The recursion defines a function.
LEMMA BuildsExists ==
  ASSUME NEW answers, NEW s, NEW n \in Nat
  PROVE  \E after : Builds(after, answers, s, n)
<1> DEFINE S == {m \in Nat : \E after : Builds(after, answers, s, m)}
<1>1. 0 \in S
  <2> DEFINE after == [i \in 0 .. 0 |-> Unbuilt]
  <2>1. Builds(after, answers, s, 0)
    BY DEF Builds
  <2> QED BY <2>1
<1>2. ASSUME NEW m \in S
      PROVE  m + 1 \in S
  <2>1. m \in Nat
    OBVIOUS
  <2>2. PICK after : Builds(after, answers, s, m)
    OBVIOUS
  <2> DEFINE next == BuildImage(after[m], s[m + 1], answers)
             longer == [i \in 0 .. m + 1 |-> IF i = m + 1 THEN next ELSE after[i]]
  <2>3. ASSUME NEW i \in 0 .. m + 1
        PROVE  longer[i] = IF i = 0 THEN Unbuilt ELSE BuildImage(longer[i - 1], s[i], answers)
    <3>1. CASE i = m + 1
      <4>1. longer[i - 1] = after[m]
        BY <2>1, <3>1
      <4> QED BY <2>1, <3>1, <4>1
    <3>2. CASE i \in 0 .. m /\ i # 0
      <4>1. longer[i] = after[i] /\ longer[i - 1] = after[i - 1]
        BY <2>1, <3>2
      <4>2. after[i] = BuildImage(after[i - 1], s[i], answers)
        BY <2>2, <3>2 DEF Builds
      <4> QED BY <3>2, <4>1, <4>2
    <3>3. CASE i = 0
      <4>1. longer[i] = after[i]
        BY <2>1, <3>3
      <4>2. after[i] = Unbuilt
        BY <2>1, <2>2, <3>3 DEF Builds
      <4> QED BY <3>3, <4>1, <4>2
    <3> QED BY <2>1, <3>1, <3>2, <3>3
  <2>4. Builds(longer, answers, s, m + 1)
    <3>1. longer = [i \in 0 .. m + 1 |-> longer[i]]
      OBVIOUS
    <3> HIDE DEF longer
    <3> QED BY <2>3, <3>1 DEF Builds
  <2> QED BY <2>1, <2>4
<1>3. S = Nat
  BY <1>1, <1>2, Induction
<1> QED BY <1>3

LEMMA BuildsInTurn ==
  ASSUME NEW answers, NEW s, NEW n \in Nat, NEW after, Builds(after, answers, s, n)
  PROVE  /\ after[0] = Unbuilt
         /\ \A i \in 1 .. n : after[i] = BuildImage(after[i - 1], s[i], answers)
<1>1. after[0] = Unbuilt
  <2>1. 0 \in 0 .. n
    OBVIOUS
  <2> QED BY <2>1 DEF Builds
<1>2. ASSUME NEW i \in 1 .. n
      PROVE  after[i] = BuildImage(after[i - 1], s[i], answers)
  <2>1. i \in 0 .. n /\ i # 0
    OBVIOUS
  <2> QED BY <2>1 DEF Builds
<1> QED BY <1>1, <1>2

LEMMA BuildEmpty ==
  ASSUME NEW answers
  PROVE  buildSdkImages(<<>>, answers) = Unbuilt
<1> DEFINE after == CHOOSE f : Builds(f, answers, <<>>, 0)
<1>1. Len(<<>>) = 0
  OBVIOUS
<1>2. Builds(after, answers, <<>>, 0)
  BY BuildsExists
<1>3. buildSdkImages(<<>>, answers) = after[0]
  BY <1>1 DEF buildSdkImages, Builds
<1> HIDE DEF after
<1>4. after[0] = Unbuilt
  BY <1>2, BuildsInTurn
<1> QED BY <1>3, <1>4

LEMMA BuildAppend ==
  ASSUME NEW answers, NEW T, NEW s \in Seq(T), NEW x \in T
  PROVE  buildSdkImages(Append(s, x), answers) = BuildImage(buildSdkImages(s, answers), x, answers)
<1> DEFINE n == Len(s)
           longer == Append(s, x)
           after == CHOOSE f : Builds(f, answers, s, n)
           next == CHOOSE f : Builds(f, answers, longer, n + 1)
<1>1. /\ n \in Nat /\ n + 1 \in Nat /\ Len(longer) = n + 1 /\ longer[n + 1] = x
      /\ \A i \in 1 .. n : longer[i] = s[i]
  BY AppendProperties
<1>2. Builds(after, answers, s, n) /\ Builds(next, answers, longer, n + 1)
  <2>1. \E f : Builds(f, answers, s, n)
    BY <1>1, BuildsExists
  <2>2. \E f : Builds(f, answers, longer, n + 1)
    <3> HIDE DEF n, longer
    <3> QED BY <1>1, BuildsExists
  <2> QED BY <2>1, <2>2
<1>3. buildSdkImages(s, answers) = after[n]
  BY DEF buildSdkImages, Builds
<1>4. buildSdkImages(longer, answers) = next[n + 1]
  <2>1. buildSdkImages(longer, answers) = (CHOOSE f : Builds(f, answers, longer, Len(longer)))[Len(longer)]
    BY DEF buildSdkImages, Builds
  <2> QED BY <1>1, <2>1
<1> HIDE DEF n, longer, after, next
<1>5. /\ after[0] = Unbuilt
      /\ \A i \in 1 .. n : after[i] = BuildImage(after[i - 1], s[i], answers)
  BY <1>1, <1>2, BuildsInTurn
<1>6. /\ next[0] = Unbuilt
      /\ \A i \in 1 .. n + 1 : next[i] = BuildImage(next[i - 1], longer[i], answers)
  BY <1>1, <1>2, BuildsInTurn
<1> DEFINE S == {i \in Nat : i <= n => next[i] = after[i]}
<1>7. S = Nat
  <2>1. 0 \in S
    BY <1>5, <1>6
  <2>2. ASSUME NEW m \in S
        PROVE  m + 1 \in S
    <3> SUFFICES ASSUME m + 1 <= n
                 PROVE  next[m + 1] = after[m + 1]
      OBVIOUS
    <3>1. m + 1 \in 1 .. n /\ m + 1 \in 1 .. n + 1 /\ (m + 1) - 1 = m /\ next[m] = after[m]
      BY <1>1
    <3> QED BY <1>1, <1>5, <1>6, <3>1
  <2> QED BY <2>1, <2>2, Induction
<1>8. next[n] = after[n]
  BY <1>1, <1>7
<1>9. n + 1 \in 1 .. n + 1 /\ (n + 1) - 1 = n
  BY <1>1
<1>10. next[n + 1] = BuildImage(after[n], x, answers)
  BY <1>1, <1>6, <1>8, <1>9
<1> QED BY <1>3, <1>4, <1>10 DEF longer

\* What a part may refer to, for any addresses, bytes and media types, and the image it is.
ReferencesOf(U, B, M) ==
  {Blank} \cup {Remote(url) : url \in U}
    \cup [form : {"data"}, separated : BOOLEAN, encoded : BOOLEAN, mime : M, bytes : Seq(B)]

PartsOf(K, U, B, M) == [type : K, reference : ReferencesOf(U, B, M)]

ImageOf(part) == IF Shown(part) THEN parseImage(part.reference) ELSE NoImage

LEMMA NoImageIs == \E mime : NoImage = [url |-> NoUrl, bytes |-> <<>>, mime |-> mime]
BY Zenon DEF NoImage

\* An address is the image of that address; bytes that can be read are themselves, and what is
\* empty has no bytes; the rest is no image.
LEMMA ParsedIs ==
  ASSUME NEW U, NEW B, NEW M, NEW reference \in ReferencesOf(U, B, M)
  PROVE  LET image == parseImage(reference) IN
         \/ reference.form = "blank" /\ image = NoImage
         \/ /\ reference.form = "remote" /\ reference.url \in U
            /\ image.url = reference.url /\ image.bytes = <<>>
         \/ /\ reference.form = "data" /\ reference.separated /\ reference.encoded
            /\ reference.bytes \in Seq(B)
            /\ image.url = NoUrl /\ image.bytes = reference.bytes
         \/ /\ reference.form = "data" /\ ~ (reference.separated /\ reference.encoded)
            /\ image = NoImage
<1>1. PICK none : NoImage = [url |-> NoUrl, bytes |-> <<>>, mime |-> none]
  BY NoImageIs
<1>2. CASE reference = Blank
  <2>1. reference.form = "blank"
    BY <1>2 DEF Blank
  <2>2. parseImage(reference) = NoImage
    BY <2>1 DEF parseImage
  <2> QED BY <2>1, <2>2
<1>3. CASE reference \in {Remote(url) : url \in U}
  <2>1. reference.form = "remote" /\ reference.url \in U
    BY <1>3 DEF Remote
  <2>2. parseImage(reference) = [NoImage EXCEPT !.url = reference.url]
    BY <2>1 DEF parseImage
  <2>3. parseImage(reference).url = reference.url /\ parseImage(reference).bytes = <<>>
    BY <1>1, <2>2
  <2> QED BY <2>1, <2>3
<1>4. CASE reference \in [form : {"data"}, separated : BOOLEAN, encoded : BOOLEAN, mime : M,
                          bytes : Seq(B)]
  <2>1. reference.form = "data" /\ reference.bytes \in Seq(B)
    BY <1>4
  <2>2. CASE reference.separated /\ reference.encoded
    <3> DEFINE given == Or(reference.mime, defaultImageMimeType)
    <3>1. parseImage(reference) = [NoImage EXCEPT !.bytes = reference.bytes, !.mime = given]
      BY <2>1, <2>2 DEF parseImage
    <3> HIDE DEF given
    <3>2. parseImage(reference).url = NoUrl /\ parseImage(reference).bytes = reference.bytes
      BY <1>1, <3>1
    <3> QED BY <2>1, <2>2, <3>2
  <2>3. CASE ~ (reference.separated /\ reference.encoded)
    <3>1. parseImage(reference) = NoImage
      BY <2>1, <2>3 DEF parseImage
    <3> QED BY <2>1, <2>3, <3>1
  <2> QED BY <2>2, <2>3
<1> QED BY <1>2, <1>3, <1>4 DEF ReferencesOf

(***************************************************************************)
(* The images of parts, and of messages.                                   *)
(***************************************************************************)
ImagesIn(P) == {ImageOf(part) : part \in P} \cup {NoImage}

OfParts(P) == [part \in P |-> ImageOf(part)]

LEMMA ContentIs ==
  ASSUME NEW P, NEW parts \in Seq(P)
  PROVE  /\ OfParts(P) \in [P -> ImagesIn(P)]
         /\ messageContent(parts) = Without(Mapped(OfParts(P), parts), {NoImage})
         /\ messageContent(parts) \in Seq(ImagesIn(P))
<1>1. OfParts(P) \in [P -> ImagesIn(P)]
  BY DEF OfParts, ImagesIn
<1>2. \A i \in DOMAIN parts : OfParts(P)[parts[i]] = ImageOf(parts[i])
  <2>1. \A i \in DOMAIN parts : parts[i] \in P
    OBVIOUS
  <2> QED BY <2>1 DEF OfParts
<1>3. Mapped(OfParts(P), parts) = [i \in DOMAIN parts |-> ImageOf(parts[i])]
  BY <1>2 DEF Mapped
<1>4. messageContent(parts) = Without([i \in DOMAIN parts |-> ImageOf(parts[i])], {NoImage})
  BY DEF messageContent, ImageOf
<1>5. Mapped(OfParts(P), parts) \in Seq(ImagesIn(P))
  BY <1>1, MappedType
<1>6. Without(Mapped(OfParts(P), parts), {NoImage}) \in Seq(ImagesIn(P))
  BY <1>5, WithoutKeeps
<1> QED BY <1>1, <1>3, <1>4, <1>6

LEMMA ContentEmpty == messageContent(<<>>) = <<>>
<1>1. messageContent(<<>>) = Without(Mapped(OfParts({}), <<>>), {NoImage})
  <2>1. <<>> \in Seq({})
    OBVIOUS
  <2> QED BY <2>1, ContentIs
<1> QED BY <1>1, MappedEmpty, WithoutEmpty, Zenon

LEMMA ContentAppend ==
  ASSUME NEW P, NEW parts \in Seq(P), NEW part \in P
  PROVE  messageContent(Append(parts, part))
           = IF ImageOf(part) = NoImage THEN messageContent(parts)
             ELSE Append(messageContent(parts), ImageOf(part))
<1> DEFINE of == OfParts(P)
           image == ImageOf(part)
           mapped == Mapped(of, parts)
<1>1. Append(parts, part) \in Seq(P)
  BY AppendProperties
<1>2. /\ of \in [P -> ImagesIn(P)]
      /\ messageContent(parts) = Without(mapped, {NoImage})
      /\ messageContent(Append(parts, part)) = Without(Mapped(of, Append(parts, part)), {NoImage})
  BY <1>1, ContentIs
<1>3. of[part] = image /\ image \in ImagesIn(P)
  BY DEF OfParts, ImagesIn
<1> HIDE DEF of, image
<1>4. Mapped(of, Append(parts, part)) = Append(mapped, image)
  BY <1>2, <1>3, MappedAppend
<1>5. mapped \in Seq(ImagesIn(P))
  BY <1>2, MappedType
<1> HIDE DEF mapped
<1>6. Without(Append(mapped, image), {NoImage})
        = IF image \in {NoImage} THEN Without(mapped, {NoImage})
          ELSE Append(Without(mapped, {NoImage}), image)
  BY <1>3, <1>5, WithoutAppend
<1>7. image \in {NoImage} <=> image = NoImage
  OBVIOUS
<1> QED BY <1>2, <1>4, <1>6, <1>7, Zenon DEF image

LEMMA ContentConcat ==
  ASSUME NEW P, NEW a \in Seq(P), NEW b \in Seq(P)
  PROVE  messageContent(a \o b) = messageContent(a) \o messageContent(b)
<1> DEFINE S == {s \in Seq(P) : messageContent(a \o s) = messageContent(a) \o messageContent(s)}
<1>1. <<>> \in S
  <2>1. a \o <<>> = a /\ messageContent(a) \o <<>> = messageContent(a)
    BY ContentIs, ConcatEmptySeq
  <2>2. messageContent(a \o <<>>) = messageContent(a) \o messageContent(<<>>)
    BY <2>1, ContentEmpty, Zenon
  <2>3. <<>> \in Seq(P)
    OBVIOUS
  <2> QED BY <2>2, <2>3, Zenon
<1>2. ASSUME NEW s \in Seq(P), NEW x \in P, s \in S
      PROVE  Append(s, x) \in S
  <2> DEFINE image == ImageOf(x)
  <2>1. a \o Append(s, x) = Append(a \o s, x)
    BY ConcatAppend
  <2>2. a \o s \in Seq(P) /\ Append(s, x) \in Seq(P)
    BY ConcatProperties, AppendProperties
  <2>3. messageContent(Append(a \o s, x)) = IF image = NoImage THEN messageContent(a \o s)
                                            ELSE Append(messageContent(a \o s), image)
    BY <2>2, ContentAppend
  <2>4. messageContent(Append(s, x)) = IF image = NoImage THEN messageContent(s)
                                       ELSE Append(messageContent(s), image)
    BY ContentAppend
  <2>5. messageContent(a) \o Append(messageContent(s), image)
          = Append(messageContent(a) \o messageContent(s), image)
    <3>1. /\ messageContent(a) \in Seq(ImagesIn(P)) /\ messageContent(s) \in Seq(ImagesIn(P))
          /\ image \in ImagesIn(P)
      BY ContentIs DEF ImagesIn
    <3> QED BY <3>1, ConcatAppend
  <2>6. messageContent(a \o s) = messageContent(a) \o messageContent(s)
    BY <1>2
  <2> HIDE DEF image
  <2>7. messageContent(a \o Append(s, x)) = messageContent(a) \o messageContent(Append(s, x))
    BY <2>1, <2>3, <2>4, <2>5, <2>6, Zenon
  <2> QED BY <2>2, <2>7
<1>3. Seq(P) \subseteq S
  <2> HIDE DEF S
  <2> QED BY <1>1, <1>2, SeqInduction
<1> QED BY <1>3

Contents(P) == [parts \in Seq(P) |-> messageContent(parts)]

LEMMA ImagesOfIs ==
  ASSUME NEW P, NEW messages \in Seq(Seq(P))
  PROVE  /\ Contents(P) \in [Seq(P) -> Seq(ImagesIn(P))]
         /\ ImagesOf(messages) = Flat(Mapped(Contents(P), messages))
<1>1. Contents(P) \in [Seq(P) -> Seq(ImagesIn(P))]
  BY ContentIs DEF Contents
<1>2. \A i \in DOMAIN messages : Contents(P)[messages[i]] = messageContent(messages[i])
  <2>1. \A i \in DOMAIN messages : messages[i] \in Seq(P)
    OBVIOUS
  <2> QED BY <2>1 DEF Contents
<1>3. Mapped(Contents(P), messages) = [i \in DOMAIN messages |-> messageContent(messages[i])]
  BY <1>2 DEF Mapped
<1> QED BY <1>1, <1>3 DEF ImagesOf

\* The images of messages are those of their parts, one message after the other.
LEMMA ImagesOfParts ==
  ASSUME NEW P, NEW messages \in Seq(Seq(P))
  PROVE  ImagesOf(messages) = messageContent(Flat(messages))
<1> DEFINE S == {s \in Seq(Seq(P)) : Flat(Mapped(Contents(P), s)) = messageContent(Flat(s))}
           of == Contents(P)
<1>1. <<>> \in S
  <2>1. Flat(Mapped(of, <<>>)) = messageContent(Flat(<<>>))
    BY MappedEmpty, FlatEmpty, ContentEmpty, Zenon
  <2>2. <<>> \in Seq(Seq(P))
    OBVIOUS
  <2> QED BY <2>1, <2>2, Zenon
<1>2. ASSUME NEW s \in Seq(Seq(P)), NEW x \in Seq(P), s \in S
      PROVE  Append(s, x) \in S
  <2>1. of \in [Seq(P) -> Seq(ImagesIn(P))] /\ of[x] = messageContent(x)
    BY ImagesOfIs DEF Contents
  <2>2. Flat(Mapped(of, s)) = messageContent(Flat(s)) /\ Append(s, x) \in Seq(Seq(P))
    BY <1>2, AppendProperties
  <2> HIDE DEF of
  <2>3. Mapped(of, Append(s, x)) = Append(Mapped(of, s), of[x])
    BY <2>1, MappedAppend
  <2>4. Mapped(of, s) \in Seq(Seq(ImagesIn(P))) /\ of[x] \in Seq(ImagesIn(P))
    BY <2>1, MappedType
  <2>5. Flat(Append(Mapped(of, s), of[x])) = Flat(Mapped(of, s)) \o of[x]
    BY <2>4, FlatAppend
  <2>6. Flat(Append(s, x)) = Flat(s) \o x
    BY FlatAppend
  <2>7. messageContent(Flat(s) \o x) = messageContent(Flat(s)) \o messageContent(x)
    <3>1. Flat(s) \in Seq(P)
      BY FlatType
    <3> QED BY <3>1, ContentConcat
  <2>8. Flat(Mapped(of, Append(s, x))) = messageContent(Flat(Append(s, x)))
    BY <2>1, <2>2, <2>3, <2>5, <2>6, <2>7, Zenon
  <2> QED BY <2>2, <2>8 DEF of
<1>3. Seq(Seq(P)) \subseteq S
  <2> HIDE DEF S
  <2> QED BY <1>1, <1>2, SeqInduction
<1> QED BY <1>3, ImagesOfIs

LEMMA ImagesOfConcat ==
  ASSUME NEW P, NEW a \in Seq(Seq(P)), NEW b \in Seq(Seq(P))
  PROVE  ImagesOf(a \o b) = ImagesOf(a) \o ImagesOf(b)
<1>1. a \o b \in Seq(Seq(P)) /\ Flat(a) \in Seq(P) /\ Flat(b) \in Seq(P)
  BY ConcatProperties, FlatType
<1>2. Flat(a \o b) = Flat(a) \o Flat(b)
  BY FlatConcat
<1>3. messageContent(Flat(a) \o Flat(b)) = messageContent(Flat(a)) \o messageContent(Flat(b))
  BY <1>1, ContentConcat
<1>4. /\ ImagesOf(a) = messageContent(Flat(a)) /\ ImagesOf(b) = messageContent(Flat(b))
      /\ ImagesOf(a \o b) = messageContent(Flat(a \o b))
  BY <1>1, ImagesOfParts
<1> QED BY <1>2, <1>3, <1>4, Zenon

(***************************************************************************)
(* What is sent.                                                           *)
(***************************************************************************)
LEMMA WholeType ==
  ASSUME NEW B, NEW chunks \in Seq(Chunks(B))
  PROVE  Whole(chunks) \in Seq(B)
<1> DEFINE end == LastChunk(chunks)
           some == [i \in 1 .. end |-> chunks[i].payload]
<1>1. end \in 0 .. Len(chunks) /\ Len(chunks) \in Nat
  BY EndIs
<1>2. \A i \in 1 .. end : chunks[i].payload \in Seq(B)
  <2> SUFFICES ASSUME NEW i \in 1 .. end
               PROVE  chunks[i].payload \in Seq(B)
    OBVIOUS
  <2>1. i \in 1 .. Len(chunks)
    BY <1>1
  <2>2. chunks[i] \in Chunks(B)
    BY <2>1
  <2> QED BY <2>2 DEF Chunks
<1>3. Whole(chunks) = Flat(some)
  BY DEF Whole
<1> HIDE DEF end
<1>4. some \in Seq(Seq(B))
  BY <1>1, <1>2
<1> HIDE DEF some
<1> QED BY <1>3, <1>4, FlatType

LEMMA FetchedIs ==
  ASSUME NEW B, NEW M, NEW url, url.user \in BOOLEAN, NEW answer \in AnswersOf(B, M)
  PROVE  LET fetched == downloadImage(url, answer) IN
         /\ fetched # Refused <=> CanBeHad(url, answer)
         /\ fetched # Refused =>
              fetched = [bytes |-> Whole(answer.chunks), mime |-> responseMimeType(answer)]
<1> DEFINE fetched == downloadImage(url, answer)
           body == Body(answer.chunks)
<1>1. /\ fetched # Refused <=> CanBeHad(url, answer)
      /\ fetched # Refused => fetched.bytes = Whole(answer.chunks)
  BY ImagesAreFetched DEF FetchedWhole
<1>2. fetched # Refused => fetched = [bytes |-> body.bytes, mime |-> responseMimeType(answer)]
  BY DEF downloadImage
<1> HIDE DEF fetched, body
<1> QED BY <1>1, <1>2 DEF fetched

\* The media types of images that are read or fetched.
MimesOf(P, U, answers) ==
  {Or(image.mime, defaultImageMimeType) : image \in ImagesIn(P)}
    \cup {Or(responseMimeType(answers[url]), defaultImageMimeType) : url \in U}

Inlined(B, X) == [bytes : Seq(B), mime : X]

BuiltOf(B, X) == [refused : BOOLEAN, images : Seq(Inlined(B, X))]

\* A part that is no image has none that is missing, and attaches nothing.
LEMMA NoImageAttached ==
  ASSUME NEW K, NEW U, NEW B, NEW M, NoUrl \notin U, NEW answers,
         NEW part \in PartsOf(K, U, B, M), ImageOf(part) = NoImage
  PROVE  ~ Unavailable(part, answers) /\ Attached(part, answers) = <<>>
<1> DEFINE reference == part.reference
<1>1. PICK none : NoImage = [url |-> NoUrl, bytes |-> <<>>, mime |-> none]
  BY NoImageIs
<1>2. reference \in ReferencesOf(U, B, M)
  BY DEF PartsOf
<1> HIDE DEF reference
<1>3. CASE ~ Shown(part)
  BY <1>3, Zenon DEF Unavailable, Attached
<1>4. CASE Shown(part)
  <2>1. parseImage(reference) = NoImage
    BY <1>4 DEF ImageOf, reference
  <2>2. NoImage.url = NoUrl /\ NoImage.bytes = <<>>
    BY <1>1
  <2>3. \/ reference.form = "blank"
        \/ /\ reference.form = "data"
           /\ reference.separated /\ reference.encoded => reference.bytes = <<>>
    BY <1>2, <2>1, <2>2, ParsedIs
  <2> QED BY <2>3 DEF Unavailable, Attached, reference
<1> QED BY <1>3, <1>4

\* One turn of buildSdkImages' loop.
LEMMA ImageBuilt ==
  ASSUME NEW K, NEW U, NEW B, NEW M, NEW N, NoUrl \notin U, \A url \in U : url.user \in BOOLEAN,
         NEW answers \in [U -> AnswersOf(B, N)],
         NEW part \in PartsOf(K, U, B, M), ImageOf(part) # NoImage,
         NEW X, X = MimesOf(PartsOf(K, U, B, M), U, answers), NEW built \in BuiltOf(B, X)
  PROVE  LET next == BuildImage(built, ImageOf(part), answers) IN
         /\ next \in BuiltOf(B, X)
         /\ next.refused <=> built.refused \/ Unavailable(part, answers)
         /\ ~ next.refused =>
              \/ Attached(part, answers) = <<>> /\ next.images = built.images
              \/ \E one \in Inlined(B, X) : /\ Attached(part, answers) = <<one.bytes>>
                                            /\ next.images = Append(built.images, one)
<1> DEFINE reference == part.reference
           image == ImageOf(part)
           next == BuildImage(built, image, answers)
           Added(bytes, mime) == [built EXCEPT !.images = Append(@, inlineSdkImage(bytes, mime))]
<1>1. reference \in ReferencesOf(U, B, M)
  BY DEF PartsOf
<1>2. Shown(part) /\ image = parseImage(reference) /\ image # NoImage
  BY DEF ImageOf
<1>3. Or(image.mime, defaultImageMimeType) \in X
  BY DEF MimesOf, ImagesIn
<1>4. built.refused \in BOOLEAN /\ built.images \in Seq(Inlined(B, X))
  BY DEF BuiltOf
<1>5. ASSUME NEW bytes \in Seq(B), NEW mime, Or(mime, defaultImageMimeType) \in X,
             Attached(part, answers) = <<bytes>>, ~ built.refused,
             ~ Unavailable(part, answers), next = Added(bytes, mime)
      PROVE  /\ next \in BuiltOf(B, X)
             /\ next.refused <=> built.refused \/ Unavailable(part, answers)
             /\ \E one \in Inlined(B, X) : /\ Attached(part, answers) = <<one.bytes>>
                                           /\ next.images = Append(built.images, one)
  <2> DEFINE one == inlineSdkImage(bytes, mime)
  <2>1. one \in Inlined(B, X) /\ one.bytes = bytes
    BY <1>5 DEF inlineSdkImage, Inlined
  <2> HIDE DEF one, image, reference, next
  <2>2. next = [built EXCEPT !.images = Append(built.images, one)]
    BY <1>4, <1>5 DEF one
  <2>3. Append(built.images, one) \in Seq(Inlined(B, X))
    BY <1>4, <2>1, AppendProperties
  <2>4. next.images = Append(built.images, one) /\ next.refused = built.refused
        /\ next \in BuiltOf(B, X)
    BY <2>2, <2>3 DEF BuiltOf
  <2> QED BY <1>5, <2>1, <2>4
<1>6. CASE built.refused
  <2>1. next = built
    BY <1>6 DEF BuildImage
  <2> HIDE DEF next
  <2> QED BY <1>6, <2>1 DEF next
<1> SUFFICES ASSUME ~ built.refused
             PROVE  /\ next \in BuiltOf(B, X)
                    /\ next.refused <=> built.refused \/ Unavailable(part, answers)
                    /\ ~ next.refused =>
                         \/ Attached(part, answers) = <<>> /\ next.images = built.images
                         \/ \E one \in Inlined(B, X) :
                              /\ Attached(part, answers) = <<one.bytes>>
                              /\ next.images = Append(built.images, one)
  BY <1>6
<1>7. CASE /\ reference.form = "remote" /\ reference.url \in U
           /\ image.url = reference.url /\ image.bytes = <<>>
  <2> DEFINE url == reference.url
             fetched == downloadImage(url, answers[url])
             whole == Whole(answers[url].chunks)
  <2>1. url \in U /\ url # NoUrl /\ url.user \in BOOLEAN
    BY <1>7
  <2>2. answers[url] \in AnswersOf(B, N)
    BY <2>1
  <2>3. /\ fetched # Refused <=> CanBeHad(url, answers[url])
        /\ fetched # Refused =>
             fetched = [bytes |-> whole, mime |-> responseMimeType(answers[url])]
    BY <2>1, <2>2, FetchedIs
  <2>4. whole \in Seq(B)
    <3>1. answers[url].chunks \in Seq(Chunks(B))
      BY <2>2 DEF AnswersOf
    <3> QED BY <3>1, WholeType
  <2>5. Attached(part, answers) = <<whole>>
    BY <1>2, <1>7, Zenon DEF Attached
  <2>6. Unavailable(part, answers) <=> fetched = Refused
    BY <1>2, <1>7, <2>3, Zenon DEF Unavailable
  <2>7. next = IF fetched = Refused THEN [built EXCEPT !.refused = TRUE]
               ELSE Added(fetched.bytes, fetched.mime)
    <3>1. ~ (image.bytes # <<>>) /\ ~ (image.url = NoUrl) /\ image.url = url
      BY <1>7, <2>1
    <3> HIDE DEF image, url
    <3> QED BY <3>1, Zenon DEF BuildImage
  <2>8. Or(responseMimeType(answers[url]), defaultImageMimeType) \in X
    BY <2>1 DEF MimesOf
  <2> HIDE DEF fetched, whole, url, image, next, reference
  <2>9. CASE fetched = Refused
    <3>1. next = [built EXCEPT !.refused = TRUE]
      BY <2>7, <2>9
    <3>2. next.refused /\ next \in BuiltOf(B, X)
      BY <1>4, <3>1 DEF BuiltOf
    <3> QED BY <2>6, <2>9, <3>2
  <2>10. CASE fetched # Refused
    <3> DEFINE mime == responseMimeType(answers[url])
    <3>1. fetched.bytes = whole /\ fetched.mime = mime
      BY <2>3, <2>10
    <3>2. next = Added(whole, mime)
      BY <2>7, <2>10, <3>1, Zenon
    <3> HIDE DEF mime
    <3>3. Or(mime, defaultImageMimeType) \in X
      BY <2>8 DEF mime
    <3>4. /\ next \in BuiltOf(B, X)
          /\ next.refused <=> built.refused \/ Unavailable(part, answers)
          /\ \E one \in Inlined(B, X) : /\ Attached(part, answers) = <<one.bytes>>
                                        /\ next.images = Append(built.images, one)
      BY <1>5, <2>4, <2>5, <2>6, <2>10, <3>2, <3>3
    <3> QED BY <3>4, Zenon
  <2> QED BY <2>9, <2>10
<1>8. CASE /\ reference.form = "data" /\ reference.separated /\ reference.encoded
           /\ reference.bytes \in Seq(B)
           /\ image.url = NoUrl /\ image.bytes = reference.bytes
  <2>1. ~ Unavailable(part, answers)
    BY <1>8 DEF Unavailable
  <2>2. Attached(part, answers) = IF reference.bytes # <<>> THEN <<reference.bytes>> ELSE <<>>
    BY <1>2, <1>8 DEF Attached
  <2> HIDE DEF reference
  <2>3. CASE reference.bytes # <<>>
    <3>1. next = Added(image.bytes, image.mime)
      <4>1. image.bytes # <<>>
        BY <1>8, <2>3
      <4> HIDE DEF image
      <4> QED BY <4>1, Zenon DEF BuildImage
    <3> DEFINE bytes == reference.bytes
               mime == image.mime
    <3>2. next = Added(bytes, mime)
      BY <1>8, <3>1, Zenon
    <3>3. bytes \in Seq(B) /\ Attached(part, answers) = <<bytes>>
      BY <1>8, <2>2, <2>3
    <3>4. Or(mime, defaultImageMimeType) \in X
      BY <1>3
    <3> HIDE DEF bytes, mime, image, next
    <3>5. /\ next \in BuiltOf(B, X)
          /\ next.refused <=> built.refused \/ Unavailable(part, answers)
          /\ \E one \in Inlined(B, X) : /\ Attached(part, answers) = <<one.bytes>>
                                        /\ next.images = Append(built.images, one)
      BY <1>5, <2>1, <3>2, <3>3, <3>4
    <3> QED BY <3>5, Zenon
  <2>4. CASE reference.bytes = <<>>
    <3>1. next = built
      <4>1. ~ (image.bytes # <<>>) /\ image.url = NoUrl
        BY <1>8, <2>4
      <4> HIDE DEF image
      <4> QED BY <4>1, Zenon DEF BuildImage
    <3> HIDE DEF next
    <3> QED BY <2>1, <2>2, <2>4, <3>1
  <2> QED BY <2>3, <2>4
<1>9. QED
  <2>1. \/ /\ reference.form = "remote" /\ reference.url \in U
           /\ image.url = reference.url /\ image.bytes = <<>>
        \/ /\ reference.form = "data" /\ reference.separated /\ reference.encoded
           /\ reference.bytes \in Seq(B)
           /\ image.url = NoUrl /\ image.bytes = reference.bytes
    <3> HIDE DEF reference, image
    <3> QED BY <1>1, <1>2, ParsedIs
  <2> QED BY <1>7, <1>8, <2>1, Zenon

BytesOf(I) == [one \in I |-> one.bytes]

AttachedBy(P, answers) == [part \in P |-> Attached(part, answers)]

LEMMA AttachedType ==
  ASSUME NEW K, NEW U, NEW B, NEW M, NEW N, NEW answers \in [U -> AnswersOf(B, N)],
         NEW part \in PartsOf(K, U, B, M)
  PROVE  Attached(part, answers) \in Seq(Seq(B))
<1> DEFINE reference == part.reference
<1>1. reference \in ReferencesOf(U, B, M)
  BY DEF PartsOf
<1> HIDE DEF reference
<1>2. <<>> \in Seq(Seq(B)) /\ \A bytes \in Seq(B) : <<bytes>> \in Seq(Seq(B))
  OBVIOUS
<1>3. reference.form = "remote" => reference.url \in U
  BY <1>1, ParsedIs
<1>4. reference.form = "data" /\ reference.separated /\ reference.encoded
        => reference.bytes \in Seq(B)
  BY <1>1, ParsedIs
<1>5. CASE Shown(part) /\ reference.form = "remote"
  <2> DEFINE chunks == answers[reference.url].chunks
  <2>1. answers[reference.url] \in AnswersOf(B, N)
    BY <1>3, <1>5
  <2>2. chunks \in Seq(Chunks(B))
    BY <2>1 DEF AnswersOf
  <2>3. Attached(part, answers) = <<Whole(chunks)>>
    BY <1>5, Zenon DEF Attached, reference
  <2> HIDE DEF chunks
  <2>4. Whole(chunks) \in Seq(B)
    BY <2>2, WholeType
  <2> QED BY <1>2, <2>3, <2>4
<1>6. CASE ~ (Shown(part) /\ reference.form = "remote")
  <2>1. \/ Attached(part, answers) = <<>>
        \/ Attached(part, answers) = <<reference.bytes>> /\ reference.bytes \in Seq(B)
    BY <1>4, <1>6 DEF Attached, reference
  <2> QED BY <1>2, <2>1
<1> QED BY <1>5, <1>6

\* What is known of the images that are built of parts.
SentFits(built, parts, answers, B, X, P) ==
  /\ built \in BuiltOf(B, X)
  /\ built.refused <=> \E i \in DOMAIN parts : Unavailable(parts[i], answers)
  /\ ~ built.refused =>
       Mapped(BytesOf(Inlined(B, X)), built.images) = Flat(Mapped(AttachedBy(P, answers), parts))

LEMMA PartSent ==
  ASSUME NEW K, NEW U, NEW B, NEW M, NEW N, NoUrl \notin U, \A url \in U : url.user \in BOOLEAN,
         NEW answers \in [U -> AnswersOf(B, N)],
         NEW P, P = PartsOf(K, U, B, M), NEW X, X = MimesOf(P, U, answers),
         NEW parts \in Seq(P), NEW part \in P,
         SentFits(buildSdkImages(messageContent(parts), answers), parts, answers, B, X, P)
  PROVE  SentFits(buildSdkImages(messageContent(Append(parts, part)), answers),
                  Append(parts, part), answers, B, X, P)
<1> DEFINE longer == Append(parts, part)
           image == ImageOf(part)
           built == buildSdkImages(messageContent(parts), answers)
           next == buildSdkImages(messageContent(longer), answers)
           by == AttachedBy(P, answers)
           bytes == BytesOf(Inlined(B, X))
           attached == Flat(Mapped(by, parts))
           unavailable == \E i \in DOMAIN parts : Unavailable(parts[i], answers)
           more == \E i \in DOMAIN longer : Unavailable(longer[i], answers)
<1>1. /\ Len(parts) \in Nat /\ longer \in Seq(P) /\ Len(longer) = Len(parts) + 1
      /\ longer[Len(parts) + 1] = part /\ \A i \in 1 .. Len(parts) : longer[i] = parts[i]
  BY AppendProperties
<1>2. more <=> unavailable \/ Unavailable(part, answers)
  <2>1. DOMAIN parts = 1 .. Len(parts) /\ DOMAIN longer = 1 .. Len(parts) + 1
    BY <1>1
  <2>2. \A i \in 1 .. Len(parts) + 1 : i \in 1 .. Len(parts) \/ i = Len(parts) + 1
    BY <1>1
  <2>3. 1 .. Len(parts) \subseteq 1 .. Len(parts) + 1 /\ Len(parts) + 1 \in 1 .. Len(parts) + 1
    BY <1>1
  <2> HIDE DEF longer
  <2> QED BY <1>1, <2>1, <2>2, <2>3, Zenon
<1>3. /\ by \in [P -> Seq(Seq(B))] /\ by[part] = Attached(part, answers)
  <2>1. \A p \in P : Attached(p, answers) \in Seq(Seq(B))
    BY AttachedType
  <2> QED BY <2>1 DEF AttachedBy
<1>4. /\ attached \in Seq(Seq(B))
      /\ Flat(Mapped(by, longer)) = attached \o Attached(part, answers)
  <2> HIDE DEF by, longer
  <2>1. Mapped(by, Append(parts, part)) = Append(Mapped(by, parts), by[part])
    <3>1. parts \in Seq(P) /\ part \in P
      OBVIOUS
    <3> QED BY ONLY <1>3, <3>1, MappedAppend
  <2>2. Mapped(by, parts) \in Seq(Seq(Seq(B))) /\ by[part] \in Seq(Seq(B))
    BY <1>3, MappedType
  <2>3. Flat(Append(Mapped(by, parts), by[part])) = Flat(Mapped(by, parts)) \o by[part]
    BY <2>2, FlatAppend
  <2>4. Flat(Mapped(by, parts)) \in Seq(Seq(B))
    BY <2>2, FlatType
  <2> QED BY <1>3, <2>1, <2>3, <2>4 DEF longer
<1>5. /\ built \in BuiltOf(B, X)
      /\ built.refused <=> unavailable
      /\ ~ built.refused => Mapped(bytes, built.images) = attached
  BY DEF SentFits
<1>6. /\ built.images \in Seq(Inlined(B, X)) /\ built.refused \in BOOLEAN
  BY <1>5 DEF BuiltOf
<1>7. messageContent(longer) = IF image = NoImage THEN messageContent(parts)
                               ELSE Append(messageContent(parts), image)
  BY ContentAppend
<1>8. CASE image = NoImage
  <2>1. next = built
    BY <1>7, <1>8
  <2>2. ~ Unavailable(part, answers) /\ Attached(part, answers) = <<>>
    BY <1>8, NoImageAttached
  <2> HIDE DEF attached, longer, built, next, unavailable, more
  <2>3. attached \o Attached(part, answers) = attached
    BY <1>4, <2>2, ConcatEmptySeq
  <2>4. Flat(Mapped(by, longer)) = attached
    BY <1>4, <2>3
  <2>5. next.refused <=> more
    BY <1>2, <1>5, <2>1, <2>2
  <2>6. ~ next.refused => Mapped(bytes, next.images) = Flat(Mapped(by, longer))
    BY <1>5, <2>1, <2>4
  <2>7. next \in BuiltOf(B, X)
    BY <1>5, <2>1
  <2> QED BY <2>5, <2>6, <2>7 DEF SentFits, next, longer, more
<1>9. CASE image # NoImage
  <2>1. messageContent(parts) \in Seq(ImagesIn(P)) /\ image \in ImagesIn(P)
    BY ContentIs DEF ImagesIn
  <2>2. next = BuildImage(built, image, answers)
    <3>1. messageContent(longer) = Append(messageContent(parts), image)
      BY <1>7, <1>9
    <3> HIDE DEF longer, image
    <3> QED BY <2>1, <3>1, BuildAppend
  <2> HIDE DEF built, next
  <2>3. /\ next \in BuiltOf(B, X)
        /\ next.refused <=> built.refused \/ Unavailable(part, answers)
        /\ ~ next.refused =>
             \/ Attached(part, answers) = <<>> /\ next.images = built.images
             \/ \E one \in Inlined(B, X) : /\ Attached(part, answers) = <<one.bytes>>
                                           /\ next.images = Append(built.images, one)
    BY <1>5, <1>9, <2>2, ImageBuilt
  <2> HIDE DEF longer, attached, unavailable, more
  <2>4. next.refused <=> more
    BY <1>2, <1>5, <2>3
  <2>5. ASSUME ~ next.refused
        PROVE  Mapped(bytes, next.images) = Flat(Mapped(by, longer))
    <3>1. Mapped(bytes, built.images) = attached
      BY <1>5, <1>6, <2>3, <2>5
    <3>2. CASE Attached(part, answers) = <<>> /\ next.images = built.images
      <4>1. attached \o <<>> = attached
        BY <1>4, ConcatEmptySeq
      <4> QED BY <1>4, <3>1, <3>2, <4>1
    <3>3. CASE \E one \in Inlined(B, X) : /\ Attached(part, answers) = <<one.bytes>>
                                          /\ next.images = Append(built.images, one)
      <4>1. PICK one \in Inlined(B, X) : /\ Attached(part, answers) = <<one.bytes>>
                                         /\ next.images = Append(built.images, one)
        BY <3>3
      <4>2. bytes \in [Inlined(B, X) -> Seq(B)] /\ bytes[one] = one.bytes /\ one.bytes \in Seq(B)
        BY DEF BytesOf, Inlined
      <4> HIDE DEF bytes
      <4>3. Mapped(bytes, Append(built.images, one)) = Append(Mapped(bytes, built.images), bytes[one])
        <5> DEFINE I == Inlined(B, X)
                   images == built.images
        <5>1. bytes \in [I -> Seq(B)] /\ images \in Seq(I) /\ one \in I
          BY <1>6, <4>2
        <5> HIDE DEF I, images
        <5>2. Mapped(bytes, Append(images, one)) = Append(Mapped(bytes, images), bytes[one])
          BY ONLY <5>1, MappedAppend
        <5> QED BY <5>2 DEF images
      <4>4. attached \o <<one.bytes>> = Append(attached, one.bytes)
        BY <1>4, <4>2, AppendIsConcat
      <4> QED BY <1>4, <3>1, <4>1, <4>2, <4>3, <4>4
    <3> QED BY <2>3, <2>5, <3>2, <3>3
  <2> QED BY <2>3, <2>4, <2>5 DEF SentFits, next, longer, more
<1> QED BY <1>8, <1>9

LEMMA PartsSent ==
  ASSUME NEW K, NEW U, NEW B, NEW M, NEW N, NoUrl \notin U, \A url \in U : url.user \in BOOLEAN,
         NEW answers \in [U -> AnswersOf(B, N)],
         NEW P, P = PartsOf(K, U, B, M), NEW X, X = MimesOf(P, U, answers), NEW parts \in Seq(P)
  PROVE  SentFits(buildSdkImages(messageContent(parts), answers), parts, answers, B, X, P)
<1> DEFINE S == {s \in Seq(P) :
                   SentFits(buildSdkImages(messageContent(s), answers), s, answers, B, X, P)}
<1>1. <<>> \in S
  <2>1. buildSdkImages(messageContent(<<>>), answers) = Unbuilt
    BY ContentEmpty, BuildEmpty, Zenon
  <2>2. Unbuilt \in BuiltOf(B, X) /\ Unbuilt.refused = FALSE /\ Unbuilt.images = <<>>
    BY DEF Unbuilt, BuiltOf
  <2>3. ~ \E i \in DOMAIN <<>> : Unavailable(<<>>[i], answers)
    OBVIOUS
  <2>4. Mapped(BytesOf(Inlined(B, X)), Unbuilt.images) = Flat(Mapped(AttachedBy(P, answers), <<>>))
    BY <2>2, MappedEmpty, FlatEmpty, Zenon
  <2>5. SentFits(Unbuilt, <<>>, answers, B, X, P)
    BY <2>2, <2>3, <2>4, Zenon DEF SentFits
  <2>6. <<>> \in Seq(P)
    OBVIOUS
  <2> QED BY <2>1, <2>5, <2>6, Zenon
<1>2. ASSUME NEW s \in Seq(P), NEW x \in P, s \in S
      PROVE  Append(s, x) \in S
  <2>1. Append(s, x) \in Seq(P)
    BY AppendProperties
  <2>2. SentFits(buildSdkImages(messageContent(s), answers), s, answers, B, X, P)
    BY <1>2
  <2>3. SentFits(buildSdkImages(messageContent(Append(s, x)), answers), Append(s, x), answers,
                 B, X, P)
    BY <2>2, PartSent
  <2> QED BY <2>1, <2>3
<1>3. Seq(P) \subseteq S
  <2> HIDE DEF S
  <2> QED BY <1>1, <1>2, SeqInduction
<1> QED BY <1>3

\* images.go:44, chatcompletions.go:191: of a chat of any length, with whatever parts, either
\* every image that can be read is sent, in the order of the chat and as it is, or one of them
\* cannot be had and the request does not go; and the images of a chat are those its agent was
\* sent before and those of the increment, wherever it is cut.
THEOREM ImagesAreSent ==
  ASSUME NEW K, NEW U, NEW B, NEW M, NEW N, NoUrl \notin U, \A url \in U : url.user \in BOOLEAN,
         NEW messages \in Seq(Seq(PartsOf(K, U, B, M))), NEW answers \in [U -> AnswersOf(B, N)]
  PROVE  SentWhole(messages, answers)
<1> DEFINE P == PartsOf(K, U, B, M)
           X == MimesOf(P, U, answers)
           parts == Flat(messages)
           built == buildSdkImages(ImagesOf(messages), answers)
<1>1. parts \in Seq(P)
  BY FlatType
<1>2. ImagesOf(messages) = messageContent(parts)
  BY ImagesOfParts
<1>3. SentFits(built, parts, answers, B, X, P)
  <2> HIDE DEF P, X, parts
  <2> QED BY <1>1, <1>2, PartsSent DEF P, X
<1> HIDE DEF P, X, built, parts
<1>4. built.refused <=> \E i \in DOMAIN parts : Unavailable(parts[i], answers)
  BY <1>3 DEF SentFits
<1>5. ~ built.refused =>
        [i \in DOMAIN built.images |-> built.images[i].bytes]
          = Flat([i \in DOMAIN parts |-> Attached(parts[i], answers)])
  <2>1. built.images \in Seq(Inlined(B, X))
    BY <1>3 DEF SentFits, BuiltOf
  <2>2. Mapped(BytesOf(Inlined(B, X)), built.images)
          = [i \in DOMAIN built.images |-> built.images[i].bytes]
    <3>1. \A i \in DOMAIN built.images : built.images[i] \in Inlined(B, X)
      BY <2>1
    <3> QED BY <3>1 DEF Mapped, BytesOf
  <2>3. Mapped(AttachedBy(P, answers), parts)
          = [i \in DOMAIN parts |-> Attached(parts[i], answers)]
    <3>1. \A i \in DOMAIN parts : parts[i] \in P
      BY <1>1
    <3> QED BY <3>1 DEF Mapped, AttachedBy
  <2> QED BY <1>3, <2>2, <2>3 DEF SentFits
<1>6. ASSUME NEW last \in DOMAIN messages
      PROVE  ImagesOf(messages) = ImagesOf(SubSeq(messages, 1, last))
                                    \o IncrementImages(messages, last)
  <2> DEFINE a == SubSeq(messages, 1, last)
             b == SubSeq(messages, last + 1, Len(messages))
  <2>1. last \in 0 .. Len(messages) /\ last # 0
    OBVIOUS
  <2>2. a \in Seq(Seq(P)) /\ b \in Seq(Seq(P)) /\ messages = a \o b
    BY <2>1, SplitIs DEF P
  <2>3. IncrementImages(messages, last) = ImagesOf(b)
    BY <2>1 DEF IncrementImages
  <2> HIDE DEF a, b
  <2>4. ImagesOf(a \o b) = ImagesOf(a) \o ImagesOf(b)
    BY <2>2, ImagesOfConcat
  <2> QED BY <2>2, <2>3, <2>4 DEF a
<1> QED BY <1>4, <1>5, <1>6 DEF SentWhole, built, parts

\* The requests that a run looks at are among these.
LEMMA BoundedImages == ImagesGoWhole
<1> DEFINE bytes == {"a", "b", "c", "d", "e"}
           mimes == {"image/gif", "text/html"}
<1>1. \A payload \in Payloads \cup {<<"d">>, <<"e">>} : payload \in Seq(bytes)
  <2>1. "a" \in bytes /\ "b" \in bytes /\ "c" \in bytes /\ "d" \in bytes /\ "e" \in bytes
    BY Zenon
  <2> HIDE DEF bytes
  <2>2. /\ <<>> \in Seq(bytes) /\ <<"a">> \in Seq(bytes) /\ <<"b", "c">> \in Seq(bytes)
        /\ <<"d">> \in Seq(bytes) /\ <<"e">> \in Seq(bytes)
    BY <2>1
  <2> QED BY <2>2, Zenon DEF Payloads
<1>2. \A chunk \in [payload : Payloads, error : BOOLEAN, done : BOOLEAN] : chunk \in Chunks(bytes)
  <2> HIDE DEF bytes
  <2> QED BY <1>1 DEF Chunks
<1>3. ASSUME NEW url \in Urls, NEW answer \in HostAnswers
      PROVE  FetchedWhole(url, answer)
  <2>1. url.user \in BOOLEAN
    <3>1. url \in [scheme : {"https", "ftp"}, user : {FALSE}, host : Hosts] => url.user = FALSE
      OBVIOUS
    <3>2. Url("http", TRUE, "an.example").user = TRUE
      BY DEF Url
    <3> QED BY <3>1, <3>2, Zenon DEF Urls
  <2>2. answer \in AnswersOf(bytes, mimes)
    <3> DEFINE C == [payload : Payloads, error : BOOLEAN, done : BOOLEAN]
    <3> HIDE DEF bytes
    <3>1. C \subseteq Chunks(bytes)
      BY <1>2
    <3>2. ChunkSeqs = UNION {[1..n -> C] : n \in 0..2}
      BY Zenon DEF ChunkSeqs
    <3> HIDE DEF C
    <3>3. ChunkSeqs \subseteq Seq(C)
      <4>1. ASSUME NEW n \in 0..2, NEW s \in [1..n -> C]
            PROVE  s \in Seq(C)
        OBVIOUS
      <4> QED BY <3>2, <4>1, Zenon
    <3>4. \A s \in Seq(C) : s \in Seq(Chunks(bytes))
      BY <3>1, SeqOfMore
    <3>5. /\ answer.opens \in BOOLEAN /\ answer.status \in Nat /\ answer.mime \in mimes
          /\ answer.chunks \in Seq(Chunks(bytes))
      BY <3>3, <3>4 DEF HostAnswers
    <3>6. answer = [opens |-> answer.opens, status |-> answer.status, mime |-> answer.mime,
                    chunks |-> answer.chunks]
      BY DEF HostAnswers
    <3> QED BY <3>5, <3>6 DEF AnswersOf
  <2> QED BY <2>1, <2>2, ImagesAreFetched
<1>4. ASSUME NEW shown \in [1..3 -> References],
             NEW answers \in [{Here, There} -> {Sent(<<"a">>), Sent(<<>>)}]
      PROVE  SentWhole([i \in 1..3 |-> Showing(shown[i])], answers)
  <2> DEFINE U == {Here, There}
             M == {"", "image/gif"}
             K == {"text", "image_url"}
             messages == [i \in 1..3 |-> Showing(shown[i])]
  <2>1. NoUrl \notin U /\ \A url \in U : url.user \in BOOLEAN
    <3>1. Here.user = FALSE /\ There.user = FALSE /\ Here.scheme = "https" /\ There.scheme = "https"
      BY DEF Here, There, Url
    <3>2. NoUrl.scheme # "https"
      BY Zenon DEF NoUrl
    <3> QED BY <3>1, <3>2
  <2>2. answers \in [U -> AnswersOf(bytes, mimes)]
    <3>1. \A payload \in Seq(bytes) : Sent(payload) \in AnswersOf(bytes, mimes)
      <4> HIDE DEF bytes
      <4> QED BY DEF Sent, Chunk, Chunks, AnswersOf
    <3>2. <<"a">> \in Seq(bytes) /\ <<>> \in Seq(bytes)
      OBVIOUS
    <3>3. Sent(<<"a">>) \in AnswersOf(bytes, mimes) /\ Sent(<<>>) \in AnswersOf(bytes, mimes)
      BY <3>1, <3>2, Zenon
    <3> QED BY <3>3
  <2>3. References \subseteq ReferencesOf(U, bytes, M)
    <3>1. \A url \in U : Remote(url) \in ReferencesOf(U, bytes, M)
      BY Zenon DEF ReferencesOf
    <3>2. ASSUME NEW separated \in BOOLEAN, NEW encoded \in BOOLEAN, NEW mime \in M,
                 NEW given \in Seq(bytes)
          PROVE  DataUrl(separated, encoded, mime, given) \in ReferencesOf(U, bytes, M)
      <4> HIDE DEF M, bytes, U
      <4> QED BY DEF DataUrl, ReferencesOf
    <3>3. Blank \in ReferencesOf(U, bytes, M)
      BY Zenon DEF ReferencesOf
    <3>4. <<"d">> \in Seq(bytes) /\ <<"e">> \in Seq(bytes) /\ <<>> \in Seq(bytes)
      OBVIOUS
    <3>5. "" \in M /\ "image/gif" \in M /\ Here \in U /\ There \in U /\ TRUE \in BOOLEAN
          /\ FALSE \in BOOLEAN
      BY Zenon
    <3> DEFINE R == ReferencesOf(U, bytes, M)
    <3>6. /\ DataUrl(TRUE, TRUE, "", <<"d">>) \in R /\ DataUrl(TRUE, TRUE, "image/gif", <<>>) \in R
          /\ DataUrl(TRUE, FALSE, "", <<"e">>) \in R
      <4> HIDE DEF bytes, M, U
      <4> QED BY <3>2, <3>4, <3>5, Zenon
    <3>7. Blank \in R /\ Remote(Here) \in R /\ Remote(There) \in R
      <4> HIDE DEF bytes, M, U
      <4> QED BY <3>1, <3>3, <3>5, Zenon
    <3> HIDE DEF R
    <3> QED BY <3>6, <3>7, Zenon DEF References, R
  <2> HIDE DEF U, M, bytes, mimes
  <2>4. \A i \in 1..3 : Showing(shown[i]) \in Seq(PartsOf(K, U, bytes, M))
    <3> SUFFICES ASSUME NEW i \in 1..3
                 PROVE  Showing(shown[i]) \in Seq(PartsOf(K, U, bytes, M))
      OBVIOUS
    <3>1. shown[i] \in ReferencesOf(U, bytes, M)
      BY <2>3
    <3>2. Blank \in ReferencesOf(U, bytes, M)
      BY Zenon DEF ReferencesOf
    <3>3. /\ Part("text", Blank) \in PartsOf(K, U, bytes, M)
          /\ Part("image_url", shown[i]) \in PartsOf(K, U, bytes, M)
      BY <3>1, <3>2 DEF Part, PartsOf
    <3> QED BY <3>3 DEF Showing
  <2> HIDE DEF K
  <2>5. messages \in Seq(Seq(PartsOf(K, U, bytes, M)))
    BY <2>4
  <2> HIDE DEF messages
  <2>6. SentWhole(messages, answers)
    BY <2>1, <2>2, <2>5, ImagesAreSent
  <2> QED BY <2>6 DEF messages
<1> QED BY <1>3, <1>4 DEF ImagesGoWhole

\* A chat that goes to Cursor brings all its images, as they are, or it does not go.
THEOREM ImagesGoThrough == ChatSpec => []ImagesArriveWhole
<1>1. ImagesArriveWhole
  BY BoundedImages DEF ImagesArriveWhole
<1> QED BY <1>1, PTL
=============================================================================
