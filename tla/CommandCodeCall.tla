--------------------------- MODULE CommandCodeCall ---------------------------
(***************************************************************************)
(* How the Command Code plugin makes the upstream's request of a client's  *)
(* (auth-commandcode/go: buildExecutorCall and streamFramingFor in         *)
(* executor.go, upstream.go, ensureChatPayload in openai.go, the           *)
(* parameters of chatToAnthropic in anthropic.go, normalizeAPIBase in      *)
(* register.go), and what it reads of the answer's size and usage.         *)
(***************************************************************************)
EXTENDS CommandCodeModels, CommandCodeImages

CONSTANT defaultRequestMaxBytes  \* the limit of a request's body, some bytes here

ASSUME CallAssumption == defaultRequestMaxBytes \in Nat

\* A text that is not there.
NoText == ""

-----------------------------------------------------------------------------
(* Endpoints.  A path is the sequence of what its slashes separate.        *)

Base(scheme, user, host, path, query) ==
  [scheme |-> scheme, user |-> user, host |-> host, path |-> path, query |-> query]

defaultAPIBase == Base("https", FALSE, "api", <<>>, FALSE)

\* strings.TrimRight of slashes.
NoSlashAtEnd(path) ==
  SubSeq(path, 1, Max({0} \cup {i \in DOMAIN path : path[i] # NoText}))

\* What a blank text is read as.
NoBase == Base(NoText, FALSE, NoText, <<>>, FALSE)

normalizeAPIBase(base) ==
  IF base = NoBase THEN {defaultAPIBase}
  ELSE IF base.scheme \in {"http", "https"} /\ base.host # NoText /\ ~ base.user
  THEN {Base(base.scheme, FALSE, base.host, NoSlashAtEnd(base.path), FALSE)}
  ELSE {}

providerPathPrefix == <<"provider", "v1">>

Endpoint(base, path) == [scheme |-> base.scheme, host |-> base.host, path |-> path]

\* Variant: a base that has the prefix already gets it again.
providerEndpoint_AlwaysJoins(base, suffix) ==
  {Endpoint(b, Without(b.path, {NoText}) \o providerPathPrefix \o suffix) :
     b \in normalizeAPIBase(base)}

\* The prefix is looked for at the end of the whole address, of which the host is a part.
providerEndpoint(base, suffix) ==
  {IF IsSuffix(providerPathPrefix, <<b.host>> \o b.path) THEN Endpoint(b, b.path \o suffix)
   ELSE Endpoint(b, Without(b.path, {NoText}) \o providerPathPrefix \o suffix) :
     b \in normalizeAPIBase(base)}

-----------------------------------------------------------------------------
(* A request's body: its form, its length as the client wrote it and as    *)
(* each route writes it anew (for Claude's models, without the images),    *)
(* its messages, and its other fields.                                     *)

Lengths(chat, messages) == [chat |-> chat, messages |-> messages]

Plain ==
  [form |-> "object", size |-> 1, encoded |-> Lengths(1, 1), messages |-> List(<<>>),
   model |-> Missing, stream |-> FALSE,
   stream_options |-> Missing, max_tokens |-> Missing, max_completion_tokens |-> Missing,
   temperature |-> Missing, top_p |-> Missing, stop |-> Missing, tools |-> Missing]

TooLarge(size) == size > defaultRequestMaxBytes

UsageAsked == Object("include_usage")

payloadModel(payload, fallback) ==
  IF fallback # <<>> THEN fallback ELSE Trimmed(TextOf(payload.model))

\* The body with some fields set.
WithFields(payload, fields) ==
  [field \in DOMAIN payload |-> IF field \in DOMAIN fields THEN fields[field] ELSE payload[field]]

OptionsOf(payload, stream) ==
  IF stream /\ Is("missing", payload.stream_options) THEN UsageAsked ELSE payload.stream_options

\* Variant: a model the body names is kept.
ensureChatPayload_KeepsModel(payload, model, stream) ==
  IF payload.form # "object" \/ TooLarge(payload.size) \/ ~ Is("array", payload.messages) THEN {}
  ELSE {WithFields(payload, [model |-> IF Is("missing", payload.model) THEN Text(model)
                                       ELSE payload.model,
                             stream |-> stream, stream_options |-> OptionsOf(payload, stream),
                             size |-> payload.encoded.chat])}

\* The body is written anew, and may become longer.
ensureChatPayload(payload, model, stream) ==
  IF payload.form # "object" \/ TooLarge(payload.size) \/ ~ Is("array", payload.messages) THEN {}
  ELSE {WithFields(payload, [model |-> Text(model), stream |-> stream,
                             stream_options |-> OptionsOf(payload, stream),
                             size |-> payload.encoded.chat])}

defaultAnthropicMaxTokens == 8192
maxAnthropicMaxTokens == 200000

Truncated(halves) == IF halves >= 0 THEN halves \div 2 ELSE -((-halves) \div 2)

anthropicMaxTokens(payload) ==
  LET node == IF Is("missing", payload.max_tokens) THEN payload.max_completion_tokens
              ELSE payload.max_tokens
  IN CASE Is("missing", node) -> {defaultAnthropicMaxTokens}
       [] Is("number", node) -> {Truncated(node.number)} \cap 1..maxAnthropicMaxTokens
       [] OTHER -> {}

parseStopSequences(node) ==
  LET texts == IF Is("text", node) THEN <<node.text>>
               ELSE IF Is("array", node) THEN node.array ELSE <<>>
  IN Without([i \in DOMAIN texts |-> Trimmed(texts[i])], {<<>>})

EmptySchema == Object("no properties")

\* Variant: a tool without a name is passed over.
convertTools_SkipsUnnamed(node) ==
  LET fn(item) == IF Is("missing", item.function) THEN item ELSE item.function.object
      named == SelectSeq(IF Is("array", node) THEN node.array ELSE <<>>,
                         LAMBDA item : fn(item).name # <<>>)
  IN IF Is("missing", node) THEN {<<>>}
     ELSE IF \/ ~ Is("array", node)
             \/ \E i \in DOMAIN named : named[i].type \notin {NoText, "function"}
     THEN {}
     ELSE {[i \in DOMAIN named |->
              [name |-> fn(named[i]).name,
               schema |-> IF Is("missing", fn(named[i]).parameters)
                             \/ Is("null", fn(named[i]).parameters)
                          THEN EmptySchema ELSE fn(named[i]).parameters]]}

convertTools(node) ==
  LET fn(item) == IF Is("missing", item.function) THEN item ELSE item.function.object
      usable(item) == item.type \in {NoText, "function"} /\ fn(item).name # <<>>
      schema(item) == IF Is("missing", fn(item).parameters) \/ Is("null", fn(item).parameters)
                      THEN EmptySchema ELSE fn(item).parameters
  IN IF Is("missing", node) THEN {<<>>}
     ELSE IF ~ Is("array", node) \/ \E i \in DOMAIN node.array : ~ usable(node.array[i]) THEN {}
     ELSE {[i \in DOMAIN node.array |->
              [name |-> fn(node.array[i]).name, schema |-> schema(node.array[i])]]}

NumberOrMissing(value) == IF Is("number", value) THEN value ELSE Missing

\* What the plugin fetches images from: what each address answers, and the addresses that take
\* a connection.
Net(web, up) == [web |-> web, up |-> up]

ContentsOf(payload, proxied, net) ==
  IF Is("array", payload.messages)
  THEN Contents(payload.messages.array, net.web, proxied, net.up) ELSE {}

\* Variant: what the images add is not counted.
chatToAnthropic_OldSize(payload, model, stream, proxied, net) ==
  IF payload.form # "object" THEN {}
  ELSE {[model |-> Text(model), stream |-> stream, max_tokens |-> n, tools |-> tools,
         temperature |-> NumberOrMissing(payload.temperature),
         top_p |-> NumberOrMissing(payload.top_p),
         stop_sequences |-> parseStopSequences(payload.stop),
         messages |-> contents, size |-> payload.encoded.messages] :
           n \in anthropicMaxTokens(payload), tools \in convertTools(payload.tools),
           contents \in ContentsOf(payload, proxied, net)}

\* With each image in it, in base64.  A tool_choice is not looked at.
chatToAnthropic(payload, model, stream, proxied, net) ==
  IF payload.form # "object" THEN {}
  ELSE {[model |-> Text(model), stream |-> stream, max_tokens |-> n, tools |-> tools,
         temperature |-> NumberOrMissing(payload.temperature),
         top_p |-> NumberOrMissing(payload.top_p),
         stop_sequences |-> parseStopSequences(payload.stop),
         messages |-> contents, size |-> payload.encoded.messages + ShownLength(Flat(contents))] :
           n \in anthropicMaxTokens(payload), tools \in convertTools(payload.tools),
           contents \in ContentsOf(payload, proxied, net)}

-----------------------------------------------------------------------------
(* The call *)

\* Of a x-cmd-zdr header, NoText for none.
clientRequestedZDR(value) == value \in {"1", "true"}

\* x: the credential's key and proxy, the model the host asks for, the body, the client's
\* x-cmd-zdr; config: the plugin's.  The catalog has no say in the endpoint (ModelsGoByTheirIds).
buildExecutorCall(x, config) ==
  LET model == payloadModel(x.payload, x.model) IN
  IF x.key = NoText \/ model = <<>> THEN {}
  ELSE {[key |-> x.key, proxy |-> IF x.proxy # NoText THEN x.proxy ELSE config.proxy,
         model |-> model, payload |-> x.payload, zdr |-> config.zdr,
         clientZDR |-> clientRequestedZDR(x.zdr),
         anthropic |-> usesAnthropicMessages(model, <<>>)]}

upstreamHeaders(call, accept) ==
  [authorization |-> call.key, accept |-> accept,
   zdr |-> IF call.zdr /\ ~call.clientZDR THEN "1" ELSE NoText]

\* By a proxy that is set, or by the host, which streams an answer to who accepts a stream.
liveRoundTrip(proxy, headers) ==
  IF proxy # NoText THEN proxy
  ELSE IF headers.accept = "text/event-stream" THEN "host stream" ELSE "host"

\* Variant: a body's size is not looked at again.
doHTTP_AnySize(call, endpoint, body, accept) ==
  LET headers == upstreamHeaders(call, accept) IN
  {[endpoint |-> endpoint, headers |-> headers, body |-> body,
    through |-> liveRoundTrip(call.proxy, headers)]}

doHTTP(call, endpoint, body, accept) ==
  LET headers == upstreamHeaders(call, accept) IN
  IF TooLarge(body.size) THEN {}
  ELSE {[endpoint |-> endpoint, headers |-> headers, body |-> body,
         through |-> liveRoundTrip(call.proxy, headers)]}

Accepted(stream) == IF stream THEN "text/event-stream" ELSE "application/json"

\* executeOpenAI and streamOpenAI.
OpenAI(call, base, stream) ==
  UNION {doHTTP(call, e, b, Accepted(stream)) :
           e \in providerEndpoint(base, <<"chat", "completions">>),
           b \in ensureChatPayload(call.payload, call.model, stream)}

\* executeAnthropic and streamAnthropic.
Anthropic(call, base, stream, net) ==
  UNION {doHTTP(call, e, b, Accepted(stream)) :
           e \in providerEndpoint(base, <<"messages">>),
           b \in chatToAnthropic(call.payload, call.model, stream, call.proxy # NoText, net)}

Asked(x, config, stream, net) ==
  UNION {IF call.anthropic THEN Anthropic(call, config.base, stream, net)
         ELSE OpenAI(call, config.base, stream) : call \in buildExecutorCall(x, config)}

\* Who asks on a path of chat completions has its stream framed by the host.
streamFramingFor(path) ==
  LET trimmed == NoSlashAtEnd(path) IN
  IF trimmed = <<>> \/ (Len(trimmed) > 1 /\ Last(trimmed) = "completions") THEN "raw" ELSE "SSE"

-----------------------------------------------------------------------------
(* Answers *)

\* Variant: what is over the limit is cut off.
doJSON_Cut(maxBytes, bytes, breaks) ==
  IF breaks THEN {} ELSE {SubSeq(bytes, 1, IF Len(bytes) > maxBytes THEN maxBytes ELSE Len(bytes))}

doJSON(maxBytes, bytes, breaks) == IF breaks \/ Len(bytes) > maxBytes THEN {} ELSE {bytes}

Usage(prompt, completion) == [prompt |-> prompt, completion |-> completion]

\* None, if both are 0.
anthropicUsage(usage) == {usage} \ {Usage(0, 0)}

\* Of the message_start and message_deltas of a stream, the last to have any.
StreamUsage(usages) ==
  FoldLeft(LAMBDA known, usage : IF anthropicUsage(usage) = {} THEN known ELSE usage,
           Usage(0, 0), usages)
-----------------------------------------------------------------------------
(* Properties *)

Paths == UNION {[1..n -> {"x", "provider", "v1", NoText}] : n \in 0..4}

Bases ==
  [scheme : {NoText, "http"}, user : BOOLEAN, host : {NoText, "api"}, path : Paths,
   query : BOOLEAN]

\* An endpoint ends in the prefix and the route, and is the same whether the base was written
\* with the prefix or without, but for one that is not written.  To normalize a base that is
\* normalized changes nothing: it is done when the configuration is read and at every request.
EndpointHasPrefix(base, suffix) ==
  LET path == NoSlashAtEnd(base.path)
      with == Base(base.scheme, base.user, base.host, path \o providerPathPrefix \o <<NoText>>,
                   base.query) IN
  /\ \A n \in normalizeAPIBase(base) : normalizeAPIBase(n) = {n}
  /\ \A e \in providerEndpoint(base, suffix) : IsSuffix(providerPathPrefix \o suffix, e.path)
  /\ base # NoBase /\ NoText \notin ToSet(path) /\ ~ IsSuffix(providerPathPrefix, path) =>
       providerEndpoint(base, suffix) = providerEndpoint(with, suffix)

EndpointsHavePrefix ==
  \A base \in Bases : \A suffix \in {<<"messages">>, <<"chat", "completions">>} :
    EndpointHasPrefix(base, suffix)

Functions ==
  [name : {<<>>, <<"f">>}, parameters : {Missing, Null, Object("one"), Text(<<"p">>)}]

Tools ==
  [type : {NoText, "function", "custom"}, name : {<<>>, <<"g">>}, parameters : {Missing},
   function : {Missing} \cup {Object(f) : f \in Functions}]

ToolLists == {Missing, Null} \cup {List(t) : t \in UNION {[1..n -> Tools] : n \in 0..2}}

Limits == {Missing, Null} \cup {Number(h) : h \in {-1, 0, 1, 2, 3, 400000, 400001, 400002}}

Stops ==
  {Missing, Null} \cup {Text(t) : t \in {<<>>, <<" ">>, <<" ", "a">>, <<"a">>}}
     \cup {List(t) : t \in [1..2 -> {<<" ">>, <<" ", "a">>, <<"b">>}]}

Values == {Missing, Text(<<"1">>), Number(1)}

With(fields) == WithFields(Plain, fields)

\* Lengths within the limit, and one over it.
Sizes == {1, defaultRequestMaxBytes, defaultRequestMaxBytes + 1}

AllLengths == [chat : Sizes, messages : Sizes]

\* Where the second address on has an image, and whether it takes a connection.
Nets == {Net(Web(2, Answer(NoUrl, 200, "image/gif", <<"a">>, FALSE)), up) : up \in {{}, {"public"}}}

\* Chats with no image, one, two, or one that is not had, and of every role.
Chats ==
  LET remote == Part("image_url", <<>>, Remote(Chain[1]))
      attached == Part("image_url", <<>>, DataUrl(TRUE, TRUE, "", <<"d">>))
      text == Part("text", <<"t">>, Blank)
      refused == Part("image_url", <<>>, Blank)
      user(parts) == Message("user", List(parts)) IN
  {Missing, Text(<<"t">>), List(<<user(<<text, attached>>)>>), List(<<user(<<remote, attached>>)>>),
   List(<<user(<<text>>), user(<<refused>>)>>), List(<<Message("developer", Text(<<"t">>))>>),
   List(<<Message("system", List(<<text, attached>>)), Message("user", Text(<<"t">>)),
          Message("assistant", List(<<remote>>)), Message("tool", List(<<remote>>))>>)}

Payloads ==
  {With(fields) : fields \in
     [form : {"empty", "invalid", "array", "object"}, size : Sizes, encoded : AllLengths,
      messages : {Missing, List(<<>>)}]
     \cup [model : {Missing, Text(<<"b">>)}, stream : BOOLEAN,
           stream_options : {Missing, Null, Object("the client's")},
           temperature : Values, top_p : Values]
     \cup [max_tokens : Limits, max_completion_tokens : Limits]
     \cup [stop : Stops] \cup [tools : ToolLists]}

FunctionOf(tool) == IF Is("missing", tool.function) THEN tool ELSE tool.function.object

\* On the chat route nothing of the client's changes but the model, whether it streams and, if
\* it does, that usage is asked for, where the client says nothing of it; and the length.
ChatFieldsAreKept(p, model, stream) ==
  \A b \in ensureChatPayload(p, model, stream) :
    /\ DOMAIN b = DOMAIN p /\ b.model = Text(model) /\ b.stream = stream
    /\ \A field \in DOMAIN p \ {"model", "stream", "stream_options", "size"} : b[field] = p[field]
    /\ Is("missing", b.stream_options) => ~stream
    /\ b.stream_options # p.stream_options => stream /\ Is("missing", p.stream_options)

\* On the other the upstream gets a limit it takes, which is the client's if that named one, no
\* blank stop, and every tool of the client's in order, with the parameters the client gave it,
\* whatever they are, or none.
MessagesFieldsAreKept(p, model, stream, proxied, net) ==
  \A b \in chatToAnthropic(p, model, stream, proxied, net) :
    /\ b.max_tokens \in 1..maxAnthropicMaxTokens
    /\ Is("number", p.max_tokens) => b.max_tokens = p.max_tokens.number \div 2
    /\ (Is("missing", p.max_tokens) /\ Is("number", p.max_completion_tokens))
         => b.max_tokens = p.max_completion_tokens.number \div 2
    /\ \A i \in DOMAIN b.stop_sequences :
         b.stop_sequences[i] # <<>> /\ Head(b.stop_sequences[i]) # " "
    /\ Is("array", p.tools) =>
         /\ DOMAIN b.tools = DOMAIN p.tools.array
         /\ \A i \in DOMAIN b.tools :
              LET fn == FunctionOf(p.tools.array[i]) IN
              /\ b.tools[i].name = fn.name
              /\ \/ b.tools[i].schema = fn.parameters
                 \/ /\ b.tools[i].schema = EmptySchema
                    /\ Is("missing", fn.parameters) \/ Is("null", fn.parameters)

FieldsAreKept ==
  \A p \in Payloads, stream \in BOOLEAN, net \in Nets :
    /\ ChatFieldsAreKept(p, <<"m">>, stream)
    /\ MessagesFieldsAreKept(p, <<"m">>, stream, FALSE, net)

AskBodies ==
  {With(fields) : fields \in
     [size : Sizes, model : {Missing, Text(<<" ", "c">>)}, max_tokens : {Missing, Null, Number(2)}]
     \cup [encoded : [chat : Sizes, messages : Sizes \cup {2, 3}], messages : Chats]}

ClientAsks ==
  [key : {NoText, "key"}, proxy : {NoText, "the file's"}, model : {<<>>, <<"a">>, <<"C", "a">>},
   payload : AskBodies, zdr : {NoText, "0", "1", "true"}]

Configs ==
  [base : {defaultAPIBase, NoBase, Base("http", TRUE, "api", <<>>, FALSE)},
   proxy : {NoText, "the plugin's"}, zdr : BOOLEAN]

\* A client's own key, proxy or wish stands before the plugin's.
Through(x, config, stream) ==
  IF x.proxy # NoText THEN x.proxy
  ELSE IF config.proxy # NoText THEN config.proxy
  ELSE IF stream THEN "host stream" ELSE "host"

IsClaudes(model) == Head(model) \in {"c", "C"}

\* The body with contents in the place of its messages, as it is written for Claude's models.
LengthWith(payload, contents) == payload.encoded.messages + ShownLength(Flat(contents))

HasProxy(x, config) == x.proxy # NoText \/ config.proxy # NoText

\* What keeps a request back: a key, a model, a body or a base there is nothing to be made of,
\* and on the way to Claude's models a limit, tools, messages, or images that make it too large;
\* on the other a body that is too large, as it came or as it is written.
KeptBack(x, config, model, net) ==
  \/ x.key = NoText \/ model = <<>> \/ normalizeAPIBase(config.base) = {}
  \/ x.payload.form # "object" \/ ~ Is("array", x.payload.messages)
  \/ /\ IsClaudes(model)
     /\ \/ anthropicMaxTokens(x.payload) = {} \/ convertTools(x.payload.tools) = {}
        \/ \A contents \in ContentsOf(x.payload, HasProxy(x, config), net) :
             TooLarge(LengthWith(x.payload, contents))
  \/ ~ IsClaudes(model) /\ (TooLarge(x.payload.size) \/ TooLarge(x.payload.encoded.chat))

\* Claude's models get of each message what ContentIsKept says.
MessagesAreKept(messages, contents, proxied, net) ==
  /\ DOMAIN contents = DOMAIN messages
  /\ \A i \in DOMAIN messages : KeptAs(messages[i], contents[i], net.web, proxied, net.up)

\* What goes upstream is not over the limit, with what images it has in it, names the model the
\* host asked for, or the body, holds the client's messages, and goes where that model is, with
\* the credential's own key, through its proxy, the plugin's or the host, streaming if and only
\* if that is asked for.
CallIsTheirs(x, config, stream, net) ==
  LET model == IF x.model # <<>> THEN x.model ELSE Trimmed(TextOf(x.payload.model)) IN
  /\ Asked(x, config, stream, net) = {} <=> KeptBack(x, config, model, net)
  /\ \A s \in Asked(x, config, stream, net) :
       /\ s.headers.authorization = x.key
       /\ s.body.model = Text(model) /\ s.body.stream = stream
       /\ IF IsClaudes(model)
          THEN /\ MessagesAreKept(x.payload.messages.array, s.body.messages,
                                  HasProxy(x, config), net)
               /\ ~ TooLarge(LengthWith(x.payload, s.body.messages))
          ELSE s.body.messages = x.payload.messages /\ ~ TooLarge(x.payload.encoded.chat)
       /\ Last(s.endpoint.path) = IF IsClaudes(model) THEN "messages" ELSE "completions"
       /\ s.through = Through(x, config, stream)
       /\ s.headers.zdr # NoText <=> config.zdr /\ x.zdr \notin {"1", "true"}

CallsAreTheirs ==
  \A x \in ClientAsks, config \in Configs, stream \in BOOLEAN, net \in Nets :
    CallIsTheirs(x, config, stream, net)

\* Who asks on the chat completions path, with slashes at its end or without, hears chunks and
\* no end that the host would tell twice; who asks on another path hears whole events.
FramingFits(path, n) ==
  LET raw == Last(path) = "completions" /\ Len(path) > 1 IN
  streamFramingFor(path \o [i \in 1..n |-> NoText]) = IF raw THEN "raw" ELSE "SSE"

FramingsFit ==
  \A n \in 0..1 : \A end \in {<<"chat", "completions">>, <<"responses">>, <<"messages">>} :
    FramingFits(<<NoText, "v1">> \o end, n)

\* An answer that is read is whole.
AnswersAreWhole ==
  \A maxBytes \in 1..2, bytes \in UNION {[1..n -> {"a"}] : n \in 0..4}, breaks \in BOOLEAN :
    doJSON(maxBytes, bytes, breaks) = IF breaks \/ Len(bytes) > maxBytes THEN {} ELSE {bytes}

RequestsAreFit ==
  EndpointsHavePrefix /\ FieldsAreKept /\ CallsAreTheirs /\ FramingsFit /\ AnswersAreWhole

(* What texts of the repository say and the code does not do. *)

\* README.md:77: x-cmd-zdr is sent "unless the client already set that header".  A client that
\* set it to 0 has it sent; one that set it to 1 is not heard by the upstream at all, which
\* gets no header of the client's, and with zdr set the plugin's is left out for it.
ZdrIsKept ==
  \A x \in ClientAsks, config \in Configs, stream \in BOOLEAN, net \in Nets :
    \A s \in Asked(x, config, stream, net) : config.zdr \/ x.zdr = "1" => s.headers.zdr = "1"

\* anthropic.go:218: "max_tokens must be a positive integer"; 1.5 is 1.
MaxTokensIsInteger ==
  \A p \in Payloads : \A n \in anthropicMaxTokens(p) :
    Is("number", p.max_tokens) => p.max_tokens.number % 2 = 0

\* A stop of blanks, or with a blank before it, is another on the route of Claude's models.
SameStopsOnBothRoutes ==
  \A p \in Payloads, net \in Nets : \A b \in chatToAnthropic(p, <<"m">>, FALSE, FALSE, net) :
    Is("array", p.stop) => b.stop_sequences = p.stop.array

\* A tool's parameters that are no object go to Claude's models as they are.
SchemasAreObjects ==
  \A node \in ToolLists : \A tools \in convertTools(node) :
    \A i \in DOMAIN tools : Is("object", tools[i].schema)

\* A message_delta that counts the answer only loses the prompt's count (anthropic.go:596).
UsageIsWhole ==
  \A n, m \in 1..2 : StreamUsage(<<Usage(n, 1), Usage(0, m)>>).prompt = n

\* The host may be called "provider".
EndpointKeepsHost ==
  \A e \in providerEndpoint(Base("http", FALSE, "provider", <<"v1">>, FALSE), <<"messages">>) :
    IsSuffix(providerPathPrefix, SubSeq(e.path, 1, Len(e.path) - 1))
=============================================================================
