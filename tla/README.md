# Verification of cliproxyapi-plugins

TLA+ models, model-checking runs and machine-checked proofs for the two Go plugins of this
repository: `auth-cursor` (runs Cursor agents through a local SDK bridge) and `auth-commandcode`
(forwards to the Command Code API). Paths below are relative to the repository; `tools.go` and the
like without a directory are in `auth-cursor/go/`.

## 1. Inventory

### auth-cursor

| Part | State | Operations | Hard behaviour |
|---|---|---|---|
| Tool relay, `tools.go` | `toolRegistry` (runs by agent, runs by exposed call id), one `toolRun` per agent: waiter, parked calls, announced batch, two timers, text, `finished` | `startToolRun`, `resumeToolRun`, `CallCustomTool`, `announceBatch`, `deliver`, `readStream`, `teardown`, aborts from quiesce and bridge stop | six kinds of goroutines on two locks, a `sync.Once` and channels; HTTP turns come and go while a run lives on |
| Bridge pool, `bridge.go`, `register.go` | `bridgePool` (process per proxy, starts under way, generation), `currentConfig` | `acquireBridge`, `stopBridges`, `configure`, `stop` | starts outside the lock, joined by others and overtaken by a reconfigure; bridges that die |
| Session reuse, `session.go`, `runOneShot` in `generate.go` | `sessionStore` (entries by key, LRU order), `inUse` | `occupySession`, `rememberSession`, `rekeySession`, `releaseSession`, evictions | an entry changes while a turn runs on its agent |
| Requests, `executor.go`, `consumeRunStream` and `cancelRun` in `generate.go` | a goroutine and the host's stream per request; the bridge's agent and run | register, create or reuse an agent, send, read deltas, resume an unknown agent, cancel, emit chunks, close | each exit without a result must cancel the run; deltas come from another goroutine; the host may refuse a chunk at any time |
| What a request becomes, `buildGenerateRequest` and `streamFramingFor` in `executor.go`, parameters and tools in `chatcompletions.go` | none | parameters, tools and the choice of one, the form of the answer, the key of the session | two requests that mean the same must have one key, two that differ must not |
| Quiesce, `inflight.go` | cancel functions of running requests | register, unregister, `quiesce` | work that registers while a quiesce runs |
| Chat translation, `chatcompletions.go`, `nextSessionPrefix` in `session.go` | none | parse a chat, render prompt and increment, the keys of sessions, the results of tools | a key written by one request is read by the next |
| Images, `images.go` | none | which parts are images, what may be fetched, the download | a download comes in pieces and may break off |
| Catalog and exclusions, `catalog.go`, `models.go` | `modelCatalogs` (five minutes per credential) | `catalogFor`, `applyExcludedModels`, `resolveModelSelection` | stale answers; wildcard matching |
| Installation, `bridge_install.go`, `bridge_release.go` | a directory and its stamps | download, verify, rename, stamp | crashes and concurrent installers |
| Start of a bridge, `startBridge` and `stop` in `bridge.go`, `bridge_egress.go`, `toolcallback.go` | workspace, egress and callback servers, the child, two channels fed by its stderr | spawn, handshake, bind, ping, tell the callback's address, stop | every step may fail, the child may exit or hang at each |
| A bridge's environment, `bridgeEnv`, `validate`, `baseURL` and `bridgeAuthToken` in `bridge.go`, `bridge_egress.go` | none | the proxy of each path, the exemptions, where the bridge listens and with which token | two clients in the bridge, of which one ignores proxies; variables in two spellings |
| Failures, `bridge_errors.go` | none | status, retry and text of an error of a call, and of a run's result | the same fault arrives in several forms |
| Credentials, `auth.go`, `commandline.go`, the weights of `register.go` | the configuration's weights; the auth files are the host's | `parseAuth`, `refreshAuth`, `configure`, `commandLineExecute` | a login reads a file some steps before the host replaces it; records told under old weights |

### auth-commandcode

| Part | State | Operations | Hard behaviour |
|---|---|---|---|
| Catalog, `models.go` | entries, fetches in flight, back-off per key | `catalogFor` (only ever called with `refresh` and a context nobody cancels) | single flight, failures served from the cache |
| Requests and streams, `executor.go`, `openai.go`, `anthropic.go`, `sse.go`, `hosthttp.go`, `upstream.go` | a goroutine and the host's stream per request: buffer, role sent, tool index, stop reason | `execute`, `executeStream`; open, read events, forward chunks, terminate, close | streams that end early, in the middle of an event, on a refused chunk or a quiesce |
| In-flight work, `inflight.go` | cancel functions of running requests | register, unregister, `quiesce` | cancels from a snapshot, noticed between two reads only |
| Chat translation, `anthropic.go` | none | messages, tool calls and results to Anthropic's and back | a result must stand right after the calls it answers |
| What a request becomes, `buildExecutorCall` in `executor.go`, `upstream.go`, the parameters of `anthropic.go` | none | endpoint, headers, parameters, tools; the size and the usage of the answer | two routes for one request |
| Images, `images.go` | none | image blocks, what may be fetched, through redirects and a dialler | a host is looked at again when it is dialled |
| Failures, `errors.go` | none | status, retry, type and text | a stream carries the text only |
| Credentials, `auth.go`, `commandline.go`, the weights of `register.go` | the configuration's weights; the auth files are the host's | `parseAuth`, `refreshAuth`, `configure`, `commandLineExecute` | a login lists and reads files one by one before it chooses which to replace |

### How the parts interact

A request enters `execute` or `executeStream`, is registered as in-flight work, and `runGenerate`
sends it to the tool relay (it has tools, or results for a parked run) or to `runOneShot`. Both
take a bridge from the pool and an agent from the bridge. The bridge calls back into the tool relay
(`CallCustomTool`). A stopping bridge fails its tool runs and evicts its sessions; a quiesce
cancels in-flight work, aborts all tool runs and evicts all sessions. A bridge that is started is
first looked for on disk, verified against its stamps, and installed if need be.

In `auth-commandcode` the model's name decides the route: `/chat/completions`, whose stream is
passed on as it is, or `/messages`, whose events become chat chunks. Requests share nothing with
each other but `inFlight`.

The host keeps the credentials of both: it has a file parsed, has a record refreshed, saves what a
login hands it, and tells of a new configuration.

What makes each part correct:

- tool relay: every turn is answered once and hears nothing afterwards; a call is told once and its
  result comes with its batch or not at all; parked things end; a run that is over leaves nothing;
- bridge pool: one bridge per proxy, of the current settings, none forgotten, everyone answered;
- sessions: an agent serves one turn at a time, has seen what the client says it has seen, and is
  released when nobody can find it any more;
- start and installation: a bridge that is handed out is complete and runs the pinned release, or
  the log warns; one that did not come up leaves nothing behind; its traffic takes the proxy it was
  started for;
- Cursor requests: the client hears the run in order, all of it if it is told "complete"; no run
  goes on unread on an agent someone else will use;
- chats: what one request makes of a chat fits what the request before it made;
- catalogs: no list that is too old, none that is lost, one fetch where one is enough;
- commandcode requests: the client hears what the upstream said and no more, "complete" means all
  of it, each way out closes and reports, and a quiesce ends what was in flight;
- what goes out, on either side: the tools, parameters and images the client meant, whole, where
  its model is answered;
- failures: one fault is told in one way, and the parts of what is told agree;
- credentials: a record has the weight that is meant for it now; an imported key works, and what
  the operator set in a file survives the import.

## 2. Modules

| Module | Models | Notes |
|---|---|---|
| `ToolRun` | `tools.go` | a step is one critical section of `run.mu` or of the registry, or one channel operation |
| `CallRelay` | the promise of the tool relay for one call | abstract; `ToolRun` implements it (`RelayRefined`, checked and proved) |
| `CursorRequest` | `executor.go`, `inflight.go`, `runOneShot` to `cancelRun` in `generate.go` | a step is one call to the bridge or the host, one message of a run's stream, or one critical section of `inFlight.mu` |
| `CursorCall` | what a request is before it runs, in `executor.go`, `chatcompletions.go`, `generate.go`, `session.go` | operators only |
| `SessionCache` | `session.go`, its use in `runOneShot` | a step is one critical section of `sessionStore.mu` or one call to the bridge |
| `BridgePool` | `acquireBridge`, `stopBridges`, `stop`, `configure` | a step is one critical section of `bridgePool.mu`, one access to `currentConfig`, or one call outside the lock |
| `BridgeInstall` | `bridge_install.go` | a step is one operation on the file system |
| `BridgeStart` | `startBridge`, `readStderr`, `handshake`, `bindClients`, `ping`, `stop` | extends `BridgeInstall`; a step is a system call, an RPC, a line of stderr or a channel operation |
| `BridgeEnvironment` | proxies, egress, environment, announcement, token and stderr of a bridge | operators only |
| `CursorModels` | `catalog.go`, `models.go` | a step is one access to a `sync.Map`, or an answer of `ListModels`; the pure parts are operators |
| `ExcludedModels` | the exclusions of `models.go`, the same code in both plugins | operators only |
| `Chat` | a chat as a client sends it | data of the next three |
| `CursorChat` | `chatcompletions.go`, `nextSessionPrefix` | operators only |
| `CommandCodeChat` | the messages of `anthropic.go` | operators only |
| `Conversation` | a client that goes on with its chat, through either plugin | composes the two; a step is one message |
| `Images`, `CursorImages`, `CommandCodeImages` | `images.go` of either plugin | operators only; the first has what they share |
| `CursorFailures`, `CommandCodeFailures` | `bridge_errors.go`; `errors.go` of `auth-commandcode` | operators only |
| `AuthFile`, `CursorAuth`, `CommandCodeAuth` | `auth.go`, the weights of `register.go`, the files of `commandline.go`, of both and of either plugin | operators only |
| `Credentials` | an operator, a host, a reconfigure and `commandLineExecute` | a step is one write of a file, one call to the host or from it |
| `CommandCodeStream` | `executor.go`, `inflight.go`, the streams of `openai.go` and `anthropic.go`, `sse.go`, `hosthttp.go` | a step is one call to the host or one critical section of `inFlight.mu` |
| `CommandCodeCall` | `buildExecutorCall`, `upstream.go`, `ensureChatPayload`, the parameters of `chatToAnthropic`, sizes and usage of answers | operators only |
| `CommandCodeCatalog` | `catalogFor`, `fetchModels` in `models.go` | a step is one critical section of `modelCatalogs.mu`, one receive, or the upstream's answer |
| `CommandCodeModels` | what is made of the upstream's list in `models.go` | operators only |
| `JsonValues`, `Lists` | values of a request's body; loops over lists | used by the modules above |
| `ListTheorems` | - | lemmas about `Lists`, about sequences and about the search of `ExcludedModels` |
| `ToolRunProofs`, `SessionCacheProofs`, `CredentialsProofs` | - | theorems about the module of that name |
| `ConversationProofs` | - | theorems about `Conversation` and `CursorImages` |
| `BridgeProofs` | - | theorems about `BridgePool`, `BridgeStart`, `BridgeInstall` and `BridgeEnvironment` |
| `CursorProofs` | - | theorems about `CursorRequest`, `CursorModels`, `CursorCall` and `CursorFailures` |
| `CommandCodeProofs` | - | theorems about `CommandCodeStream`, `CommandCodeCatalog`, `CommandCodeModels`, `CommandCodeFailures`, `CommandCodeImages` and `CommandCodeCall` |
| `MC...` | - | instances of the module of that name, joined with the operators a request, a bridge or a chat of it goes through |

Definitions whose name has an underscore (`Taken_KeepsWaiter`) are variants: each is the definition
after it with a plausible mistake. They are used nowhere; `PROJECT.json` pairs each of them with
the property that fails when it takes the place of the original.

### ToolRun and the code

- `run[r]` has the fields of `toolRun` that `run.mu` guards. `fresh` are the calls with
  `rec.announced` false, `announced` is `run.announced`, `timers` the timers that are armed. A
  batch timer that fires although `Stop` came is harmless, since its function checks everything
  again, and is the same step; a result timer that has fired is in `timedOut`.
- `announcer`, `reader`, `teardown`, `turn`, `call` are the goroutines: a program counter and the
  local variables that outlive a lock. `announcer[r].stage = "taken"` is `announceBatch` between
  its two critical sections.
- `teardown[r].stage` is `finishOnce` and what runs in it. `sync.Once.Do` returns to every caller
  only when the first one is done: `TurnAborted`, `CallAborted`, `ReaderExits`.
- `stopping` are runs in the snapshot of an `abortParkedToolRuns` or `failToolRunsForProcess`.
- A turn is answered through `turn[q].answer`; `sends` counts the sends to `waiter.done`.
- Left out: arguments and results, names of tools, the ids upstream, the trimming of strings. A
  refusal for any of these is the choice of the refusing disjunct (`LookupResume`, `CallPark`).

### CursorRequest and the code

`req[r]` is the goroutine of `execute` or `executeStream` with the variables of `sendAndConsume`
and `consumeRunStream` that outlive a step; `bridge[r]` is what the bridge keeps for the request:
its agent, and whether the agent's run still executes. `got` is the history of the chunks the host
took. A request with tools appears as a turn of the tool relay that answers or fails
(`TurnAnswers`, `TurnFails`), as `ToolRun` shows it does; which session is hit, and whether the
agent can be kept, are free choices here and `SessionCache`'s business. The context of a request is
looked at where an RPC, a download, the stream or a turn waits, so its cancellation fails the step
under way. `cancelRun` and `releaseAgent` have a context of their own and may fail. What a request
is before it runs is `CursorCall`'s, what it is told when it fails `CursorFailures`'. Left out:
status messages, usage and the wording of errors.

### SessionCache and the code

A transcript is a sequence of exchanges; the key is the sequence of their texts (`TextOf`), as
`renderTranscript` leaves images out. An entry goes by the name of the turn whose agent it is.
`sessionTTL` has no clock: any idle entry may be found too old. `go releaseAgent` is done at once.
Credentials, models, parameters and tool names are in the key and only make more keys. A turn takes
the bridge that is alive, or starts one if there is none, as `acquireBridge` makes sure of. A turn
that returned has no variables any more (`NoTurn`). How the words of a chat become a key, and
whether two chats share one, is `CursorChat`'s.

### BridgePool and the code

`start[a]` is the `bridgeStart` that caller `a` leads; `starts[x]` says whose start is under way
for a proxy. `StartBridge` is the whole of `startBridge` (spawn, handshake, first RPCs), which ends
with a process or with an error after it stopped what it spawned; `BridgeStart` shows that it does.
`process[p].stop` is `stopOnce`. `Configure` assumes what the host does: it reconfigures one call
after the other. Requests, shutdowns and a reconfigure do run at once.

### BridgeInstall, BridgeStart and the code

`root` is the tree of the pinned release; a tree is what its binary is (`content`) and what its two
stamps say. `aside[p]` is the directory a process with id `p` moved an old tree to: its name has
the process id in it, and a rename onto a directory that is not empty fails. `starter[s]` is one
`resolveBridgeBinary`; a process may crash between any two operations, leave the directories as
they are, and come back under the same id. A step fails when what it needs is not there, or its
place is taken. Download, verification against the pinned sum and unpacking, in a directory of its
own, are one step that succeeds or fails.

`launch[s]` is the goroutine of `startBridge` after that, with the child, the goroutine of
`readStderr` and the one that waits for the child: `drained` and `exited` are the channels they
close, `discovered` and `unread` what the two buffered channels hold. The child announces itself,
writes too long a line, stops listening, or exits, whenever it likes. `Followed` are the starts
whose launch is modelled; the others only install.

### BridgeEnvironment and the code

A bridge has two HTTP clients. One ignores the environment's proxies, the other goes by them, in
one spelling of the variables or the other (`Spellings`); how they do is outside `src/` and
modelled as the comments of `bridge_egress.go` have it. A proxy is applied twice for that reason:
`startBridgeEgress` is the server in front of Cursor, `bridgeEnv` the environment of the child.
`Arrives` and `Through` put the two together and say through which proxy, and at which host, a
request ends up. An announcement is a record, a line of stderr such a record or some words; a
machine has files, links, addresses for names. Blanks and slashes at an end are left out.

### CursorModels and the code

`catalogs[k]` is an entry of `modelCatalogs`: models, and the time of the fetch; `discovered` the
last discovery. `call[a]` is a `modelsForAuth` or a generation that goes through `catalogFor`. Time
is a counter; it waits for fetches that have reached `Timeout` (`catalogTimeout`).
`evictStaleCatalogs` visits the entries one by one, as `sync.Map.Range` does, and deletes in a
second step. `matchExcludedModel` and `resolveModelSelection` are translated as they are and
compared with what a star (`Matches`) and a model's parameters mean. Case and blanks are left out.

### Chat, CursorChat, CommandCodeChat, Conversation and the code

A text is the sequence of what was joined to it, so that two ways to the same text are the same
text. A prompt is a sequence of labelled lines; a user's words may look like a label (`Labelled`),
none looks like the separator of lines. The client sends the whole chat every time, answers all
calls of a message before it goes on, in any order, and may return to an earlier point. Names and
arguments of calls are left out. One agent is kept between turns, the one of the last answer:
whether the cache still has it is `SessionCache`'s.

### Images, CursorImages, CommandCodeImages and the code

An image is referred to by a data URL, which has a comma, base64 that can be read, a media type and
some bytes, or has not, or by an address. `Resolved` says what the name of a host stands for, and
`Inward` are the addresses nobody may be sent to. `auth-cursor` downloads through the host, in
chunks, each of which may be an error or the last; `auth-commandcode` through `net/http`, which
follows redirects that `checkImageRedirect` looks at and dials each address by itself, or leaves
that to a proxy. `ContentOf` is what goes upstream of a message of each role: a user's and an
assistant's parts in their places, the texts of a system's, a tool's content as one text. Base64 is
its length (`Encoded`), the spelling of addresses is abstracted.

### CursorCall, CommandCodeCall, JsonValues and the code

A field of a body is what gjson tells of it: missing, null, a number, a text, a list, an object.
What may be refused is a set of one result, or of none. `CursorCall` goes from the body to what an
agent is created with, what a `Send` carries and what the key of the session is made of;
`CommandCodeCall` from the body to endpoint, headers and body upstream, on either route, and reads
usage and size of an answer. A body has three lengths: as it came, and as each route writes it
anew, which may be more; on `/messages` the images that were inlined add theirs. The limit is
looked at before the first and after the last (`ensureChatPayload`, `doHTTP`). Numbers beyond 2^53,
which writing anew rounds on the chat route, are not modelled. A prompt is its length, a path what
its slashes separate. What a client may ask of `CursorCall` (tools, choices, efforts, tiers) is a
constant.

### CursorFailures, CommandCodeFailures and the code

An error is the code it has on each level (Connect's and the SDK's details, or a status and a
body), a failure the status, the retry and the form of its text. How a text says a status is
`StatusInText`: a host that only has the text reads no more of it. Which text is told is kept, its
wording is not. The texts, codes, types and statuses that come from outside are constants.

### AuthFile, CursorAuth, CommandCodeAuth, Credentials and the code

The contents of a file are a function from its fields to values; a text is a word and whether
blanks or capitals are around it that the code takes away. `hosted[n]` is the host's record of a
file, `current` if it was told under the weights of now. `login` is `commandLineExecute`: the
plugin for Cursor asks for the account and reads the file of its name, the other lists the files,
reads the one of the key's digest, lists again and looks for the key in one file after the other,
each of which may not be there any more or not be readable. The host replaces the file in the end
with what it was handed. The host and the operator are the environment; that a weight in a file
outranks the plugin's is the host's rule. Prefix, metadata, flags and what is printed are left out.

### CommandCodeStream and the code

`req[r]` is the goroutine of `executeStream` (or the call of `execute`) with the variables of
`forwardAnthropicSSE`; `sent` and `got` are histories of what the upstream sent and the host took,
which the code does not keep. `pc` is `"returned"` between the return of `streamOpenAI` or
`streamAnthropic` and its deferred `Close`, `"closing"` until `closePluginStream`, `"leaving"`
until `unregisterInFlight`. `Upstream` is the upstream's protocol: a message is a sequence of text
and tool_use blocks, a stop reason and an end, on `/chat/completions` chunks and `[DONE]`. A cut
event is the part of an event that arrived before the connection ended: `readSSEEvent` hands it out
like a whole one and the next read fails. A cut event that still reads as the upstream's end is its
end. `more` is what the buffers hold beyond the event just read; it can be read after the context
is cancelled. A stream that goes through `net/http` and not through the host may end at once when
its context is cancelled, which is one of the moments of `StreamFails`. What goes upstream is
`CommandCodeCall`'s and `CommandCodeImages`', what a failure is told as `CommandCodeFailures`'.
Left out: ids, wording.

### CommandCodeCatalog and the code

`modelsForAuth` is the only caller of `catalogFor`: it refreshes, and its context is never
cancelled, so these branches are not there. `entries[k]` is the cached list with its back-off,
`inflight[k]` the leader whose `catalogWait` the map holds, `caller[a]` a call. A list goes by the
number of its publication upstream, and `Usable` are those with a model that has an id; what such a
list becomes is `CommandCodeModels`'. `known` is a history: what the cache held when the call
began. A panic in a fetch is left out.

## 3. Runs

| Run | Bound | Shows |
|---|---|---|
| `tool_relay` | 1 run, 3 turns, 2 calls | `AnsweredOnce`, `IdsResolve`, `BatchesAreWhole`, `EndedTurnLeavesNoRun`, `TimersFit`; `ToolRun` implements `CallRelay` |
| `tool_live` | 1 run, 2 turns, 1 call, 1 delta | turns and callbacks return, a stop ends the runs it found; deltas end with their turn |
| `pool` | 2 callers, 1 stopper, 2 proxies, 2 processes, 2 configurations | one current bridge per proxy, none forgotten; every call returns |
| `sessions` | 4 turns, 2 bridges, transcripts up to 2, limit 2 | the cache is consistent, no agent leaks, a hit continues what its agent heard, use is exclusive |
| `commandcode` | 1 request, 5 events besides pings and a cut one; images of up to 3 bytes, limit 2; bodies with a limit of 6 | order, completeness, nothing left behind; a quiesce ends the work; what is asked is sent, within the limit; what failed is told |
| `commandcode_catalog` | 4 calls, 1 key, 3 publications, the second unusable | one fetch per key, none on back-off; a known list is never lost; joiners agree; every call returns; models go by their ids |
| `cursor_request` | 1 request, 3 deltas, 2 calls; prompts around a limit of 2 | agents and runs are let go, what is heard is in order and, if "complete", all of it; a quiesce reaches what it found; calls are meant, faults are told |
| `credentials` | 3 keys of which two accounts share a file's name, 7 files, 5 configurations, 3 acts, 1 tick | a record has the weight that is meant; an import works and keeps what is the operator's; with `auth-commandcode` a key gets no second file |
| `bridge_start` | 2 starts under one process id, the first followed to its end; 3 words of stderr | a start is complete or undone; what runs without a warning is the pinned release; an undisturbed start installs it, unless its own process left a tree aside; every start ends; traffic takes the bridge's proxy |
| `conversation` | 2 words of which one looks like a label, 2 calls, 5 messages; images as above | a found agent has heard the whole chat; an ordinary chat finds its agent; results stand with their calls; images arrive whole |
| `cursor_models` | 2 calls, 2 keys, lifetime 2, timeout 1, 4 moments, all patterns of up to 4 symbols | exclusions and selections are right; lists are recent, sweeps complete |
| `sessions_running_agent` | 4 turns, 1 bridge, limit 4 | counterexample, section 4 |

Many properties are conjunctions of named parts, each with its own comment: `BatchesAreWhole`,
`DeltasEndWithTurn`, `TimersFit`, `NobodyWaitsForever`, `BridgesAreKnown`, `PoolCallsReturn`,
`CacheIsConsistent`, `UpstreamIsSpared`, `AnswersAreCurrent`, `AgentsAreLetGo`, `StreamIsWhole`,
`StreamIsRelayed`, `StartIsWhole`, `InstallIsSound`, `ChatGoesThrough`, `ModelsAreUsable`,
`ListsAreRecent`, `CatalogsAreKeptUp`, `ImportIsSound`.

What operators alone do (`CursorCall`, `CommandCodeCall`, the failures, images and
`BridgeEnvironment`) is stated over bounded inputs, and checked where a state of the run gets
there: `FaultsAreTold` and `FailuresAgree` when a request was told of an error, `CallsAreMeant`
when its agent is made, `WhatIsAskedIsSent` when its stream is open, `ImagesArriveWhole` when a
chat has begun, `BridgeIsReached` when a child runs, `ModelsAreListed` when a list was answered.

Why the bounds are enough.

- Goroutines of different tool runs share nothing but the registry, whose entries are per run, so
  one run shows the races inside a run. Three turns are the one that starts a run, the one that
  brings results and one that comes at the wrong time; two calls make partial and mixed batches.
- Two callers are a leader and one that joins it or comes after an overtaking stop; two proxies let
  a bridge of the wrong one be handed out. The theorems are for any number.
- Four session turns let two entries of one conversation be in use at once and meet at one key; a
  cache of two is full with them.
- Five events are a message with two tools, arguments for one of them, a reason and an end, or text
  between two tools. Three deltas and two calls show a role, a gap and a swapped index. Requests
  share no more than `inFlight`, and the theorems are for any number.
- Four catalog calls are a leader, one that joins it, one that comes during the back-off and one
  after it; keys share nothing. Three publications are one known, one that cannot be used and one
  that replaces it.
- Three acts of an operator are a file, a login and one more thing done meanwhile. One tick lets a
  date in a file pass. The files have an old expiry, two keys in two spellings, a weight; the
  configurations a name in capitals, a weight below zero, one too large, a key written twice.
- Two starts under one id are two proxies of a process at once, or a process and the one after its
  crash; that is what meets at `aside`.
- Five messages are a system's or a user's, an answer with two calls, both results and what comes
  next; the theorems are for any length.
- Two calls and two keys are a sweep against a store, and a key nobody asks for any more; four
  moments let an entry become stale while a fetch is under way. Four symbols are two stars around a
  segment and a letter; longer patterns with a prefix and a suffix that overlap are added. The
  theorem is for any.
- An image's limit of two bytes (`imageMaxBytes`) has images of none, one, two and three; a body's
  limit of six (`defaultRequestMaxBytes`) a body of one that an image, which is four in base64,
  leaves within it and two do not, bodies at the limit and over it, and any that grow when they are
  written anew; a prompt's limit of two (`promptMaxRunes`) prompts below, at and above it; a tail
  of three (`bridgeStderrTail`) lines that fit, fill and overflow it. Six addresses in a chain are
  one redirect more than is followed.

Deadlock is checked in `commandcode` and `cursor_models`, where a step is always possible. In the
others turns, calls, requests, processes and acts of an instance are used up and the model then
stops. Hanging is covered by the liveness properties.

### Fairness

- `FairSpec` of `ToolRun` is weak fairness of each goroutine's steps and of the timers: Go
  schedules goroutines and fires timers. Nothing is asked of the client. Of the bridge it is asked
  that a `Send` and an `onDelta` return, and, for the first part of `NobodyWaitsForever` only
  (`TurnReturns`, by `StreamsEnd`), that the streams it opened end. That no such thing is needed
  for the second part (`CallbackReturns`) and `StoppedRunsEnd` is what these show. The two
  releasing RPCs in a teardown are on `agentCleanupTimeout`.
- `PoolFairSpec` is weak fairness of callers, of the reconfigure and of the stop of a process: a
  start is on timeouts, and a stopped bridge exits because it is killed in the end (`stop`); a
  bridge nobody stops need not exit.
- `StreamFairSpec` asks that a request's goroutine runs, that the host's calls return and that
  `quiesce` goes through its snapshot. The upstream is asked nothing: it may send pings for ever.
- `CursorFairSpec` asks the same for `CursorRequest`, and of bridge and network nothing
  (`RequestStep` leaves their steps out).
- `CatalogFairSpec` is weak fairness of each call, whose fetch ends because `doJSON` has a timeout.
- `StartFairSpec` is weak fairness of the starting goroutine and of the two that serve it: RPCs and
  handshake are on timeouts, a killed child dies. The child is asked nothing else.

The other specifications have safety properties only and no fairness.

## 4. Disagreements between the code and its words

One ends a run with a counterexample; `PROJECT.json` quotes the words. In `sessions_running_agent`,
`rekeySession` closes an agent another turn is running on.

The others are kept as definitions next to the properties. Each is refuted by the instance named,
or by evaluating it (those of operators only):

| Definition | Instance | What happens |
|---|---|---|
| `RegistryHoldsNoFinishedRun` (`ToolRun`) | `ToolRun.cfg` | A run is torn down between the two critical sections of `announceBatch`; its call ids are registered afterwards and stay. |
| `RefusedOnlyByLaterStop` (`BridgePool`) | `BridgePool.cfg` | After a reconfigure, a request joins the overtaken start and fails. |
| `DroppedBridgeIsStopped` (`BridgePool`) | `BridgePool.cfg` | A bridge that died is dropped without `stop`; workspace, egress and callback server stay. |
| `ImagesAreSeen` (`SessionCache`) | `SessionCache.cfg` with two exchanges of one text (`OneText`) | Conversations that differ in images only share a key. |
| `CacheIsBounded` (`SessionCache`) | `SessionCache.cfg` | `evictOverflowLocked` is called when an agent is stored and not when one is put back: a turn whose entry was evicted while it ran makes the order longer than `sessionLimit` (`session.go:143`, `:160`); the next agent that is stored evicts the surplus. |
| `OldBinaryNotStamped` (`BridgeInstall`) | `InstallSpec`, 3 starts in 3 processes | Between moving its tree in and stamping it, a start loses the place to an old tree that another one puts back, and stamps that. |
| `RunsWhatItTrusts` (`BridgeStart`) | `BridgeStart.cfg` with 3 starts in 2 processes | The same with two starts of one process: an old tree is run without a warning. The code expects other processes and has no lock (`bridge_install.go:171`). |
| `StderrDrained` (`BridgeStart`) | `BridgeStart.cfg` | A line longer than the scanner's limit ends the draining; a child that goes on writing blocks. |
| `PrefixIsWhatAgentSaw` (`Conversation`) | `Conversation.cfg` | A system's message after the last answer is in a new agent's prompt and not in the key. |
| `FreshListIsThere` (`CursorModels`) | `CursorModels.cfg` without symmetry | A sweep deletes a list that was stored after it found the old one stale; it costs a fetch. |
| `LeavesAfterCancel` (`CursorRequest`) | `CursorRequest.cfg` | The bridge ends a run's stream in order but without a result; `consumeRunStream` leaves (`generate.go:284`) and does not call `cancelRun`. |
| `OtherAccountsStay` (`Credentials`) | `Credentials.cfg` | Two accounts whose emails differ in a character that `fileName` replaces have one file, and a login with the one replaces the other's. |
| `EditsSurviveLogin` (`Credentials`) | `Credentials.cfg` | What an operator writes between the read and the save of a login is lost. |
| `SummaryNamesFile` (`Credentials`) | `Credentials.cfg` | For an account without an email the name is the time, and is computed once more for the summary. |
| `FailedRunsBlameRequest` (`CursorFailures`) | - | A run whose result has a code like `AGENT_BUSY` has no status and cools the credential, where `bridge_errors.go:259` has a failed run blame the request (so does `session_test.go:322`). |
| `TextSaysStatus` (`CommandCodeFailures`) | - | Cancelled and timed-out requests have no type in their text, and an error event that says `invalid_request_error` says so under a 502. |
| `LocalHopIsDirect` (`BridgeEnvironment`) | - | The exemptions are of `127.0.0.1`, `::1` and `localhost`; on a machine without IPv6 the egress is at `127.0.0.2`, and the hop to it goes through the user's proxy (`bridge.go:510`). |
| `BareProxyDownloads` (`BridgeEnvironment`) | - | A proxy `host:port` is good for the egress (`bridge_egress.go:80`) and not for `downloadBridgeArchive`. |
| `NoImageIsDropped` (`CursorImages`) | - | An image that cannot be read is left out, and the request goes without it. |
| `DefaultIfUndeclared` (`CursorImages`) | - | A response that declares another type than an image's gets the default, as one that declares none (`images.go:19`). |
| `ShownAsUsers("system")` (`CommandCodeImages`) | - | The images of a system's message are fetched, and then dropped (`anthropic.go:163`). |
| `ShownAsUsers("tool")` (`CommandCodeImages`) | - | A tool's content that is no text is sent as its JSON, as text (`anthropic.go:418`): an image in it is forwarded as its URL, where `auth-commandcode/README.md:141` has remote images fetched. |
| `ShownAsUsers("assistant")` (`CommandCodeImages`) | - | An assistant's images are fetched without the proxy that is set, and without the request's context (`anthropic.go:365`). |
| `SchemasAreObjects` (`CommandCodeCall`) | - | A tool's parameters that are neither missing nor null go to `/messages` as they are, also a text or a number (`anthropic.go:275`). |
| `ZdrIsKept` (`CommandCodeCall`) | - | A client that sets `x-cmd-zdr` to 1 has none sent upstream, neither its own nor the plugin's; one that sets it to 0 has the plugin's sent (`README.md:77`). |
| `MaxTokensIsInteger` (`CommandCodeCall`) | - | 1.5 is 1 (`anthropic.go:218`). |
| `SameStopsOnBothRoutes` (`CommandCodeCall`) | - | A stop with a blank before it is another one on `/messages`. |
| `UsageIsWhole` (`CommandCodeCall`) | - | A `message_delta` without the prompt's tokens replaces the count of `message_start` (`anthropic.go:596`). |
| `EndpointKeepsHost` (`CommandCodeCall`) | - | The prefix is looked for at the end of the whole address, of which the host is a part: a host called `provider` is taken for half of it. |
| `EverySendFits` (`CursorCall`) | - | A request with tools is sent whatever its length (`generate.go:135`). |
| `KeysTellParams` (`CursorCall`) | - | An effort that is spelled like two parameters has the key of both (`session.go:53`). |

The models have more behaviours a reader may not expect: a refused delivery returns without taking
`deltaMu`, while `onDelta` may run for this turn; text that streams while no turn is attached is
dropped; a result timer that fires just before a delivery aborts the run after the results were
accepted; a turn whose entry was dropped while it ran puts the entry of its closed agent back
(`Rekey`), and the next turn that hits it fails; a crash that leaves a tree set aside makes later
installs under the same process id fail, and they fall back to what is there, with a warning.

Small divergences between texts and code, or between the plugins, that need no model:

- The roles "developer" and "function" are accepted by `auth-cursor` and refused by
  `auth-commandcode`. A unary answer with tool calls says "tool_calls" where the stream passes on
  the upstream's reason. The README of `auth-cursor` (line 175) has the per-account exclusions
  consulted first, while the code appends them to the host's.
- The comment at `register.go:38` has the login drop a file's weight, and `authData` keeps it.
- A request that cannot be built is told without a status (`executor.go:34`, `:81`), of which
  `main.go:87` says that it cools the credential.
- `egressProxyEnvVars` is "in the order net/http consults them", which uses `HTTP_PROXY` for plain
  HTTP only and `ALL_PROXY` not at all; the egress does not look at `NO_PROXY`.
- `auth-cursor` refuses a tool given twice and skips custom tools; `/messages` of
  `auth-commandcode` refuses custom ones and passes doubles on, drops `tool_choice`, and refuses a
  `max_tokens` of null. With a `tool_choice` of "none" the results for a parked run still resume
  it.
- In `auth-commandcode` an image may have 20 MiB (`images.go:15`) and so may a request
  (`upstream.go:18`): on `/messages` an image of more than 15 MiB, which base64 makes larger than
  20, is fetched and then refused.
- `extractTarGz` says that only links that escape are refused; any that goes up ("../") is.

## 5. Proofs

Every theorem is for any values of the constants that satisfy the module's assumption.

`ToolRun`, for any sets of runs, turns, calls, deltas and processes:

- `TypeCorrect`: `[]TypeOK`. One lemma for each action; `TypeOK` is inductive.
- `TimersDoFit`, that is `FinishedRunsAreQuiet`, `NoBatchIsLost`, `ParkedRunsHaveDeadlines`: each
  is inductive with `TypeOK`. They speak of `run` and `timedOut` alone, so the proofs show how each
  helper (`Scheduled`, `Taken`, `Delivered`, `Finished`...) keeps them, once, and that every action
  changes a run through one of these helpers.
- `TurnsAnsweredOnce`: `AnsweredOnce` is not inductive: it says nothing of the answers that are on
  their way. The invariant (`HolderInv` in `ToolRunProofs`) says who may still answer a turn. A
  turn's waiter is in at most one of three hands: attached to a run (`run[r].waiter`), in the
  announcer between taking the batch and sending, in a teardown before its last step. Whoever holds
  it, nobody has answered the turn, the turn is one that waits, and it belongs to the same run. A
  send empties the hand; a hand is filled only by `attachWaiter`, for a turn that is new, or by
  passing the waiter on within one critical section of `run.mu`. Two hands would mean two answers.
- `EndedTurnsLeaveNoRun`: `EndInv` has three parts. A run that is not born is known nowhere, and
  whoever names a run names a born one. The stage of a teardown fixes whether the run is in
  `byAgentID` and how often its agent was released. And the kind of the answer that a turn holds
  tells the stage: only a teardown that is over answers `final`, `failed` or `timeout`, and a turn
  that has cancelled itself returns only after its own abort.
- `IdsAlwaysResolve`, `BatchesStayWhole`: `BatchInv` says where a call can be. It is fresh,
  announced, told to a turn, being replied to, or replied to; what the announcer carries is what
  the run has announced and no turn has yet; the batches of different turns have no call in common;
  a turn that replies has exactly a batch that some turn returned with. While the run lives, an
  announced call is in `byExposedCallID` or its announcer has yet to put it there. Most steps move
  no batch, which `QuietBatches` proves once; the announcement, its answer, the delivery, the reply
  and the parking of a call each have a lemma.
- `TextsReachTurns`: `DeltaInv` follows a text with the waiter it is for. While a run has the
  waiter of a turn, the run's text has what the turn has heard, and so has the reader's copy once
  the stream has ended; the announcement or the teardown that takes the waiter takes the text in
  the same critical section; and a reader inside `onDelta` names a turn that has not returned,
  which `waitOn` ensures by taking `deltaMu`.
- `RelayKeepsPromise`: `Spec => RelayRefined`. With `BatchInv`, and with `KindInv` (an answer names
  calls exactly when it is of that kind), each step is one of `CallRelay` or a stutter: a turn that
  receives its answer, or is sent one when it is about to return, tells a batch; `DeliverReply`
  brings one; a callback that parks, fails or is answered moves its own call; and all else changes
  neither the calls' states nor what was told or delivered.

`CommandCodeStream`, for any set of requests and any `MaxEvents`:

- `StreamTypeCorrect`: `[]StreamTypeOK`, inductive.
- `NothingIsLeft`, `CompleteHasEnd`: neither property says anything of a request that is still
  under way. `LifeInv` follows a request through its life: it has a result from the moment the
  stream's function returns and has told it from `closePluginStream` on; the body is closed in
  between; and whoever is forwarding the upstream's end, writing the terminator or holding the
  result "complete" has seen that end. Each step touches one request, so the step's lemma is about
  that request and `Others` is about the rest.
- `StreamsAreRelayed`: `StreamIsRelayed` compares what was sent with what was heard, and between
  the two is the goroutine, which remembers some of it in a few variables. `RelayInv` has, while a
  request reads, a list of the events that were handled (`Hears`): it is what the upstream sent,
  but for the event in hand; the client has heard what it says, without the events that say
  nothing; the tool's index, the reason and the role are what the list sums up to; and `Follows` is
  what the upstream's protocol allows next. From the terminator on, what was told is the whole
  answer.

`CommandCodeCatalog`, for any calls, keys and lists (`UpstreamSpared`, `AnswersStayCurrent`,
`CatalogOnlyAdvances`, `CatalogTypeCorrect`): `CatalogInv` joins what a call under way must know. A
fetching call is the leader its key's map entry names, and so there is one; a back-off has a list
and no fetch; a list in a leader's hands, or in its `catalogWait`, is not newer than the
upstream's; what a call found known is still in the cache or was replaced by something newer; and a
joiner's leader is still fetching or has left its answer.

`CursorRequest`, for any requests, deltas and calls (`CursorTypeCorrect`, `AgentsGo`,
`ClosedStreamsAreSilent`): `Fits` says, for each program counter, what the bridge may hold for the
request: whose the agent is, whether a run may be executing on it, and whether the host has been
told. Whoever is in flight is busy, and the other way round. `AgentsAreLetGo` is `Fits` of a
request that is over, with what a session keeps. `StreamsAreInOrder` and `CompleteStreamsAreWhole`,
together `StreamsAreWhole`, rest on `ChunksFit`: what the chunks of a stream look like, and how
many of the deltas they hold, at each place of the request.

`BridgePool`, for any callers, stoppers, proxies, processes and configurations (`NoneIsLost`,
`BridgesAreSingle`, `PoolIsCurrent`, together `BridgesStayKnown`; `BridgesSuit`,
`PoolTypeCorrect`): `PoolInv` says what each caller's and each registered start's settings and
generation are worth: a start of the current generation has the current configuration unless a
reconfigure is between its two steps, and a process belongs to the proxy it was born for. A second
running bridge of a proxy would then be one the pool has registered or is starting twice in a
generation.

`BridgeStart` with `BridgeInstall`, for any starters, processes and crashes:

- `StartsAreWhole`: a launch is changed by its own steps only, so `LaunchInv` is about one record:
  what has been made so far, by the place of `startBridge` (`MadeSoFar`), what the child and the
  handshake have shown (`ShownSoFar`), and that whoever waited for the child knows it dead.
- `StartsRecover`: a start is alone until another one works. `AloneInv` says what lies in the root
  directory at each of its steps (`Left`); with nobody else there, each step finds what the one
  before it has left.
- `StartsRunPinned`, and with it `InstallsAreSound`, under the hypothesis `[]OneProcessInstalls`:
  no two processes install at once. Nothing in the code sees to that, and the code itself expects
  other processes (`bridge_install.go:171`); without it the property is false (section 4). The
  renames of one process keep out of each other's way, since a tree it has set aside blocks the
  next. `CleanInv` says so: there is one start with a tree set aside, which nobody else removes,
  and once an old tree has left the root it does not come back. What runs with a warning
  (`Fallback`) may be any tree.

What a bridge and its plugin know of each other, and from it `BridgesAreReached`:

- `WaysAreProxied`, for any environment, own proxy and hosts: the proxies of the environment and
  the credential's are any schemes and hosts; one without a host is refused (`bridge_egress.go:92`)
  and the bridge does not start. What the host exempts goes directly, as its variables say. The
  hop from the child to the egress is not in it: it may leave by a proxy (`LocalHopIsDirect`). The
  proof goes along the ways out of the child that `startBridgeEgress` and the variables of its
  environment leave.
- `BridgesAreUnderstood`, for machines with any links, files and addresses, and any announcement:
  `EvalSymlinks` follows the links of a path's first directory, and what it ends in is not a link
  again (`IsMachine`), so that what is beneath a directory moves with it (`MovedTogether`); a file
  is then known for one of the state or of a bridge's own directory by any of its names
  (`StateIsKnown`, `TempIsKnown`).
- `LastWordsStay`, for any number of lines of any length and any limit: by induction on the lines,
  with one argument: what is cut off already would be cut off anyway (`EndOfEnd`).

`SessionCache`, for any turns, bridges and exchanges:

- `AgentsAreExclusive`, `NoKeyIsLost`: `HeldFits` says which entry each program counter of a turn
  holds; a found entry is marked in use in the critical section that finds it, and only the turn
  that holds it takes the mark away (`SessionInv`).
- `CacheStaysConsistent`: `OrderInv` has the order without doubles, with every entry of the map in
  it and none of a turn that is not over; what a loop over the order leaves of it is shown in
  `ListTheorems` (`Without`). How long the order gets is not in it (`CacheIsBounded`). By
  `AgentInv` a live agent is in the map even while a turn holds it,
  or its bridge has exited: whoever takes an entry out releases its agent.
- `ReusedAgentsHeardAll`: `HeardInv` says what the agent of an entry has heard at each step of the
  turn that has it. An entry in the map has heard exactly what its key stands for, but for one that
  a turn is sending on, which is in use and found by nobody. The theorem assumes that texts tell
  exchanges apart (`TextTells`); without it `ImagesAreSeen` is false.

What operators do, for any inputs of their kind (`FailuresAssumption`, `CallAssumption`):

- `FaultsStayTold`: a fault that is known by a code is told in the same way whichever level of the
  error it came on, since each level is looked at in order and ends in the one function of the
  code; the proof goes through the levels. Of a text nothing is assumed.
- `FailuresStayAgreed`: `classifyHTTPStatus` and `defaultErrorType` are two tables of the same
  statuses, in the order of the code; the proof goes along their rows for any status. An error
  event's code is told as it is, or in front of the message.
- `CallsStayMeant`: what an agent is given is what the request and the model list mean. That the
  key of a session tells two efforts or modes apart is shown from the length of the key and the
  place of its comma, for efforts that are words (`EffortsAreWords`): an effort with a comma in it
  refutes it (`KeysTellParams`).
- `OffersAreRight`, `SendsAreRight`, and with them `ListsStayRight`: parsing keeps the indices of
  the items whose id has not been, in order (`KeptAre`); what the patterns drop of them leaves the
  order (`WithoutInOrder`), and `MatchIsRight` says which they drop. Lists, ids and patterns are
  any sequences.

What goes upstream of a request to Command Code, and from it `RequestsGoWhole`:

- `ImagesAreFound`, for any addresses, answers and hosts that can be reached: a client that is sent
  on again and again is at an address after so many requests (`AddressAt`, a recursive function;
  `SentAlongExists`), and it gets as far as `checkImageRedirect` lets it (`AlongStep`). Where it
  ends an image can be had or not; more than one end there is not (`OneEnd`).
- `ImagesAreShown`, for a message of any role and parts: the loop that makes blocks of parts keeps
  their places, and stops at an image that cannot be had. `KeptAs` has what is kept for each role,
  and is what the code does: of a system its texts, of a tool its text.
- `EndpointsAreRight`, for any path, route and host: what is cut off at the end of a path is all
  the slashes there (`NoSlashIs`), so that to cut again changes nothing, and a path that ends in
  the prefix still ends in it before the route. A base that is not written is the plugin's own. A
  host called as the prefix begins is excepted: it is looked at as a part of the path
  (`EndpointKeepsHost`).
- `ChatFieldsStay`, `MessagesFieldsStay`, for bodies with any values whose kinds exclude each other
  (`OneKind`, as gjson's do) and tools with parameters of any kind, which are passed on as they
  are: a trimmed stop has no blank before it (`TrimmedHead`), and a tool that is refused refuses
  all.
- `CallsStayTheirs`, for any credential, body and configuration: the two routes send what they make
  for each endpoint and body that is not too large (`SendsAre`), so that nothing goes only where
  one of them makes nothing or makes too much (`KeptBack`). How long a body is after it was written
  anew is known of each route alone, and on `/messages` of the images that were found.

`CursorModels`, for any calls, keys, lists and times:

- `ListsStayRecent`, `CatalogsStayUp`: `FetchesFit` and `EntriesFit` bound the time of what is
  stored by the time its fetch began and ended, `AgesFit` the age of what a call goes on with, and
  `SweepsFit` says that what a sweep has passed is not stale.
- `ModelsStayUsable`: for patterns, ids and lists of any length over any letters.
  `matchExcludedModel` looks for each segment at the first place after the one before and never
  goes back; the proof compares it with any way to take the letters of an id, letter by letter
  along the pattern. The search is never behind such a way (`SearchBehind`), so that it finds its
  places if there is one; and a search that went through makes one (`PathTakes`). The hypotheses
  say that lists are sequences of models, exclusions sequences of patterns, that "no value" is
  none, and that no model has a parameter twice: Cursor is then sent one value each.

`Credentials`, for any names, contents, weights, dates and number of acts that satisfy
`CredentialsAssumption` (every file a login may write has a name, a weight is a number):

- `WeightsAreFollowed`: `WeightsFit` relates the decoded weights to the entries of the
  configuration they came from, whatever their spelling; `HostedFits` says of a record that was
  told under them that it has the weight that is meant. One lookup goes through the keys, the other
  through the words; `WordsAreMeant` has them agree.
- `ImportsAreSound`: `Works` is a content with this key which no other field outranks and no date
  retires; a login that is about to save has such a content, and whoever writes a file forgets that
  it was imported. `ReplaceInv` says, while nobody disturbed a login, that what it has read is what
  the file still has, and that a file with the key is yet to be looked at or is the one it took.

`Conversation`, for chats of any length, any words and calls (`ConversationAssumption`: some word
does not look like a label):

- `ConversationInvariant`: each message may follow those before it (`ChatFits`: a tool's result
  only for a call that is pending, anything else only if none is), and the agent has heard the key
  it is kept under, unless the answer it was made in began late (`AgentHeardKey`).
- `ChatsGoThrough`: the conversion to `/messages` is a loop with a list it has made so far.
  `InShape` says what that list looks like after any well-formed chat, by induction on the chat:
  each message is `Done`, its calls with their results after them, but for one answer that stands
  last or before the results that have come. The other parts are about what the agent has heard and
  the prefix, the increment and the results `sessionSplit` makes; a chat has as many results as
  calls (`SameMembers`), so that none is lost to the relay.
- `ContinuedAreFound`: the key `nextSessionPrefix` computes from the request and its answer is the
  one `sessionSplit` makes of the chat that goes on.

The images of a chat, for messages of any length with whatever parts, any addresses (but for none
at all, which is no address) and whatever a server answers:

- `ImagesAreFetched`: `BodyFits` says, chunk after chunk, that the download is still reading if and
  only if nothing so far was an error or too much, and has what they hold; and what it is after the
  server's last chunk, after which no chunk counts.
- `ImagesAreSent`, and from it `ImagesGoThrough`: the images of messages are those of their parts
  in a row (`ImagesOfParts`), so that a cut between messages cuts the images (`ImagesOfConcat`); by
  induction on the parts (`SentFits`) the loop of `buildSdkImages` has attached each one that can
  be read, or has met one that cannot be had. `buildSdkImages` passes over an image without bytes
  and without an address, which a data URL may be: `Attached` says that there is nothing of it to
  send.

Proofs about one plugin share a module where they share lemmas; `ListTheorems` has what several
need: a sequence, what is kept of it and made of its members, joined sequences, and induction. The
library states induction for an operator, which no prover here can instantiate; `LeastNumber`,
`Induction` and `SeqInduction` state it for sets, of numbers or of sequences. So what a recursive
function computes can be proved, for `Without`, `Flat`, the search for a pattern and the chats of
any length. No module uses a `RECURSIVE` operator.

Only model-checked:

- Liveness (`NobodyWaitsForever`, `StoppedRunsEnd`, `PoolCallsReturn`, `QuiesceEndsWork`,
  `CatalogReturns`, `QuiesceReaches`, `StartEnds`): it needs fairness and `ENABLED`, which the
  provers cannot reason about.

## 6. Not modelled

- `auth-cursor/go/internal/sdk/v1` and its `.proto` files: generated protocol code, half of the
  lines of the repository's implementation. Its calls appear as steps of their callers.
- The plugin ABI (`main.go` and the C boundary of either plugin) and logging: conversion of memory
  and text.
- What the egress and the callback server relay: handlers of `net/http`. That they are started and
  stopped with their bridge is in `BridgeStart`, where they send what in `BridgeEnvironment`.
- In the modelled files: the estimate of tokens and the account of usage of `auth-cursor`, flags
  and prefixes, the wording of prompts, descriptions and errors.
- Registry and build scripts: release tooling.

Open, for whoever goes on: a panic in a fetch, which leaves its in-flight entry
(`auth-commandcode/go/models.go:124`); a bridge that exits by itself, whose workspace and servers
stay (`bridge.go:206`).
