----------------------------- MODULE CursorCall -----------------------------
(***************************************************************************)
(* What the Cursor plugin makes of a client's request before it runs it    *)
(* (auth-cursor/go: buildGenerateRequest and streamFramingFor in           *)
(* executor.go; parameters, tools and the choice of one in                 *)
(* chatcompletions.go; what an agent is created with and what a Send       *)
(* carries in generate.go; the key of its session in session.go).          *)
(*                                                                         *)
(* What may be refused is a set: of one result, or of none.                *)
(***************************************************************************)
EXTENDS JsonValues

CONSTANTS
  promptMaxRunes,
  \* What a client's body may have: values of its fields, its tools, and how many.
  Efforts, Tiers, ToolChoices, ArgumentValues, Tools, MaxTools

\* A tool's type and name are texts, "" if missing.
Tool(type, name, parameters) == [type |-> type, name |-> name, parameters |-> parameters]

ASSUME CallAssumption ==
  /\ promptMaxRunes \in Nat /\ MaxTools \in Nat
  /\ \A value \in Efforts \cup Tiers \cup ToolChoices \cup ArgumentValues : IsValue(value)
  /\ \A tool \in Tools :
       /\ tool = Tool(tool.type, tool.name, tool.parameters)
       /\ IsValue(tool.parameters)

-----------------------------------------------------------------------------
(* Parameters *)

Param(id, value) == [id |-> id, value |-> value]

fastParameter == "fast"

serviceTierParam(tier) ==
  IF Trimmed(TextOf(tier)) = <<"priority">> THEN <<Param(fastParameter, <<"true">>)>> ELSE <<>>

\* The first effort that says something; body.effort is that of its "reasoning".
chatParams(body) ==
  LET first == Trimmed(TextOf(body.reasoning_effort))
      effort == IF first # <<>> THEN first ELSE Trimmed(TextOf(body.effort))
  IN (IF effort = <<>> THEN <<>> ELSE <<Param("reasoning_effort", effort)>>)
       \o serviceTierParam(body.service_tier)

suppliedParameter(params, id) == \E i \in DOMAIN params : params[i].id = id

-----------------------------------------------------------------------------
(* Tools.  A tool that is not a function's may have no function at all.    *)

AnyObject == Object("any")

parseFunctionTool(tool) ==
  [name |-> tool.name,
   schema |-> IF Is("object", tool.parameters) THEN tool.parameters ELSE AnyObject]

HasSchema(tool) == \E kind \in {"missing", "null", "object"} : Is(kind, tool.parameters)

\* Other tools, and those that say nothing, are passed over.
IsFunction(tool) == tool.type = "function" \/ (tool.type = "" /\ tool.name # "")

\* The tools of a field that is a list of them.
FunctionTools(node) ==
  IF Is("array", node) THEN Without(node.array, {t \in ToSet(node.array) : ~ IsFunction(t)})
  ELSE <<>>

\* Variant: the last of a name counts.
parseChatTools_LastOfName(node) ==
  LET tools == FunctionTools(node)
      last == SelectSeq([i \in DOMAIN tools |-> i],
                        LAMBDA i : \A j \in DOMAIN tools : tools[j].name = tools[i].name => j <= i)
  IN IF \E i \in DOMAIN tools : tools[i].name = "" \/ ~ HasSchema(tools[i]) THEN {}
     ELSE {[i \in DOMAIN last |-> parseFunctionTool(tools[last[i]])]}

parseChatTools(node) ==
  LET tools == FunctionTools(node) IN
  IF \/ \E i \in DOMAIN tools : tools[i].name = "" \/ ~ HasSchema(tools[i])
     \/ \E i, j \in DOMAIN tools : i # j /\ tools[i].name = tools[j].name
  THEN {}
  ELSE {[i \in DOMAIN tools |-> parseFunctionTool(tools[i])]}

\* The tools of a name, if there are any.
ToolNamed(name, tools) ==
  {Without(tools, {t \in ToSet(tools) : t.name # name})} \ {<<>>}

\* Variant: "none" is one more word that leaves the model the choice.
applyToolChoice_AnyWord(choice, tools) ==
  IF Is("object", choice) THEN ToolNamed(choice.object, tools) ELSE {tools}

\* The name of a function, "none", or what leaves the model the choice.
applyToolChoice(choice, tools) ==
  CASE Is("object", choice) -> ToolNamed(choice.object, tools)
    [] Is("text", choice) /\ TextOf(choice) = <<"none">> -> {<<>>}
    [] OTHER -> {tools}

\* Of an earlier call, in the transcript.
toolCallArgumentsJSON(value) ==
  IF \/ Is("missing", value) \/ Is("null", value)
     \/ Is("text", value) /\ TextOf(value) = <<>>
  THEN Object("no arguments") ELSE value

-----------------------------------------------------------------------------
(* The request.  A body has no messages, or a prompt of some length.       *)

Plain ==
  [messages |-> TRUE, prompt |-> 1, model |-> "", reasoning_effort |-> Missing, effort |-> Missing,
   service_tier |-> Missing, tools |-> Missing, tool_choice |-> Missing]

\* Variant: only the body the host translated is asked for the tier.
buildGenerateRequest_TranslatedOnly(x) ==
  LET model == IF x.model # "" THEN x.model ELSE x.body.model IN
  IF x.key = "" \/ model = "" \/ ~ x.body.messages THEN {}
  ELSE {[key |-> x.key, proxy |-> x.proxy, model |-> model, tools |-> chosen, prompt |-> x.body.prompt,
         params |-> chatParams(x.body)] :
          chosen \in UNION {applyToolChoice(x.body.tool_choice, t) : t \in parseChatTools(x.body.tools)}}

\* original: the service_tier of the client's own body, which the host translated.
buildGenerateRequest(x) ==
  LET model == IF x.model # "" THEN x.model ELSE x.body.model
      params == chatParams(x.body) IN
  IF x.key = "" \/ model = "" \/ ~ x.body.messages THEN {}
  ELSE {[key |-> x.key, proxy |-> x.proxy, model |-> model, tools |-> chosen, prompt |-> x.body.prompt,
         params |-> IF suppliedParameter(params, fastParameter) THEN params
                    ELSE params \o serviceTierParam(x.original)] :
          chosen \in UNION {applyToolChoice(x.body.tool_choice, t) : t \in parseChatTools(x.body.tools)}}

checkPromptBudget(prompt) == prompt <= promptMaxRunes

\* The length of what a Send carries: runOneShot looks at it, startToolRun does not.
runGenerate(call) ==
  IF call.tools = <<>> /\ ~ checkPromptBudget(call.prompt) THEN {} ELSE {call.prompt}

\* The capabilities an agent may use.  A list is always given: without one it has its own.
agentToolList(tools) == IF tools = <<>> THEN {} ELSE {"mcp"}

localAgentOptions(tools) == [customTools |-> ToSet(tools), tools |-> agentToolList(tools)]

\* The words of ID=value,ID=value.
modelParamSignature(params) ==
  Flat([i \in DOMAIN params |->
          (IF i = 1 THEN <<>> ELSE <<",">>) \o <<params[i].id, "=">> \o params[i].value])

toolSetSignature(tools) == {tools[i].name : i \in DOMAIN tools}

\* Variant: the parameters are taken for the model's.
sessionCacheKey_OfModel(call, prefix) ==
  <<call.key, call.proxy, call.model, toolSetSignature(call.tools), prefix>>

sessionCacheKey(call, prefix) ==
  <<call.key, call.proxy, call.model, modelParamSignature(call.params),
    toolSetSignature(call.tools), prefix>>

\* A path is what its slashes separate.
streamFramingFor(path) ==
  LET trimmed == SubSeq(path, 1, Max({0} \cup {i \in DOMAIN path : path[i] # ""})) IN
  IF trimmed = <<>> \/ (Len(trimmed) > 1 /\ Last(trimmed) = "completions") THEN "raw" ELSE "SSE"

-----------------------------------------------------------------------------
(* Properties *)

ClientRequest(body, original) ==
  [key |-> "key", proxy |-> "", model |-> "m", body |-> body, original |-> original]

\* The agent gets the client's function tools, in order, each under a name of its own and with
\* an object for a schema: all, the one the client insists on, or none; and it may use nothing
\* but them, not even where there are none.  Whoever is refused had a tool without a name, with
\* another's or with no schema, or insists on one that is not there.
ToolsAreTheClients ==
  \A n \in 0..MaxTools : \A tools \in [1..n -> Tools], choice \in ToolChoices :
    LET body == [Plain EXCEPT !.tools = List(tools), !.tool_choice = choice]
        functions == FunctionTools(List(tools))
        names == [i \in DOMAIN functions |-> functions[i].name]
        wanted == CASE TextOf(choice) = <<"none">> -> <<>>
                    [] Is("object", choice) ->
                         Without(names, {a \in ToSet(names) : a # choice.object})
                    [] OTHER -> names
        calls == buildGenerateRequest(ClientRequest(body, Missing)) IN
    /\ calls = {} <=>
         \/ "" \in ToSet(names) \/ ~ IsInjective(names)
         \/ \E i \in DOMAIN functions, kind \in {"number", "text", "array"} :
              Is(kind, functions[i].parameters)
         \/ Is("object", choice) /\ wanted = <<>>
    /\ \A call \in calls :
         /\ [i \in DOMAIN call.tools |-> call.tools[i].name] = wanted
         /\ \A i \in DOMAIN call.tools : Is("object", call.tools[i].schema)
         /\ LET local == localAgentOptions(call.tools) IN
            /\ {t.name : t \in local.customTools} = ToSet(wanted)
            /\ local.tools = IF wanted = <<>> THEN {} ELSE {"mcp"}

\* A body that asks for an effort, in two ways, and for a tier.
AskBody(first, second, tier) ==
  [Plain EXCEPT !.reasoning_effort = first, !.effort = second, !.service_tier = tier]

Asks ==
  {ClientRequest(AskBody(e, f, tier), o) : e \in Efforts, f \in Efforts, tier \in Tiers, o \in Tiers}

Effort(value) == Trimmed(TextOf(value))

EffortMeant(x) ==
  LET first == Effort(x.body.reasoning_effort) IN
  IF first # <<>> THEN first ELSE Effort(x.body.effort)

FastMeant(x) == \E tier \in {x.body.service_tier, x.original} : Effort(tier) = <<"priority">>

\* The effort is the one the client states, wherever it does, and the fast mode is on if either
\* body asks for priority, however the host translated it; no parameter has two values.  Two
\* requests that mean the same have one session, and others have not.
ParamsAreMeant ==
  LET call == [x \in Asks |-> CHOOSE c \in buildGenerateRequest(x) : TRUE]
      keys == [x \in Asks |-> sessionCacheKey(call[x], <<"prefix">>)] IN
  /\ \A x \in Asks :
       LET params == call[x].params IN
       /\ buildGenerateRequest(x) = {call[x]}
       /\ \A i, j \in DOMAIN params : i # j => params[i].id # params[j].id
       /\ suppliedParameter(params, fastParameter) <=> FastMeant(x)
       /\ suppliedParameter(params, "reasoning_effort") <=> EffortMeant(x) # <<>>
       /\ \A i \in DOMAIN params :
            params[i].id = "reasoning_effort" => params[i].value = EffortMeant(x)
  /\ \A x, y \in Asks :
       keys[x] = keys[y] <=> EffortMeant(x) = EffortMeant(y) /\ (FastMeant(x) <=> FastMeant(y))

\* A request without tools that does not fit into a Send is refused, and no other.
OneShotsFit ==
  \A length \in 0..(promptMaxRunes + 1) :
    \A call \in buildGenerateRequest(ClientRequest([Plain EXCEPT !.prompt = length], Missing)) :
      runGenerate(call) = {length} \cap 0..promptMaxRunes

\* The transcript shows no call without arguments.
ArgumentsAreShown ==
  \A value \in ArgumentValues :
    LET shown == toolCallArgumentsJSON(value) IN
    /\ ~ Is("missing", shown) /\ ~ Is("null", shown)
    /\ Is("text", shown) => TextOf(shown) # <<>>

\* Who asks on the chat completions path, with a slash at its end or without, hears chunks and
\* no end that the host would tell twice; who asks on another path hears whole events.
FramingsFit ==
  \A n \in 0..1 :
    LET end == [i \in 1..n |-> ""] IN
    /\ streamFramingFor(<<"", "v1", "chat", "completions">> \o end) = "raw"
    /\ \A path \in {<<"", "v1", "responses">>, <<"", "v1", "messages">>} :
         streamFramingFor(path \o end) = "SSE"

RequestsAreMeant ==
  ToolsAreTheClients /\ ParamsAreMeant /\ OneShotsFit /\ ArgumentsAreShown /\ FramingsFit

(* What texts of the repository say and the code does not do. *)

\* generate.go:135: the cap is "on the text handed to a single Send"; a request with tools is
\* sent whatever its length.
EverySendFits ==
  \A tools \in {Missing, List(<<Tool("function", "f", Missing)>>)} :
    \A call \in buildGenerateRequest(ClientRequest([Plain EXCEPT !.prompt = promptMaxRunes + 1, !.tools = tools], Missing)) :
      \A length \in runGenerate(call) : length <= promptMaxRunes

\* An effort that is spelled as two parameters has the key of both (session.go:53).
KeysTellParams ==
  LET one == buildGenerateRequest(ClientRequest([Plain EXCEPT
                !.reasoning_effort = Text(<<"high", ",", "fast", "=", "true">>)], Missing))
      two == buildGenerateRequest(ClientRequest([Plain EXCEPT !.reasoning_effort = Text(<<"high">>),
                                         !.service_tier = Text(<<"priority">>)], Missing)) IN
  \A a \in one, b \in two :
    sessionCacheKey(a, <<>>) = sessionCacheKey(b, <<>>) => a.params = b.params
=============================================================================
