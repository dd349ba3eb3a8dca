------------------------- MODULE BridgeEnvironment -------------------------
(***************************************************************************)
(* What a bridge and its plugin know of each other, and of the machine     *)
(* they run on (auth-cursor/go: bridgeEnv, readStderr, validate, baseURL,  *)
(* bridgeAuthToken and bridgeBearerAuth in bridge.go, bridge_egress.go,    *)
(* downloads in bridge_install.go).                                        *)
(*                                                                         *)
(* A bridge has two HTTP clients.  One ignores the environment's proxies,  *)
(* the other goes by them; both take CURSOR_BACKEND_URL for Cursor's       *)
(* address.  A proxy is therefore applied twice, in an egress on this      *)
(* machine and in the environment the bridge is started with.  That is a   *)
(* record: the value of each proxy variable, the hosts of each exemption   *)
(* list, Cursor's address, and the names of the other variables that are   *)
(* set.  What is unset or empty is Nothing.                                *)
(*                                                                         *)
(* Then the bridge announces itself on its stderr.  An announcement is a   *)
(* record; what is missing in it is NoText, 0, <<>> or NoURL.  A path is the   *)
(* sequence of its names.  A machine has files, links from directories to  *)
(* others, a directory for temporary files, the plugin's state directory,  *)
(* and addresses for the names of hosts.  Blanks around a value and a      *)
(* slash after a URL are taken off and left out here.                      *)
(***************************************************************************)
EXTENDS Naturals, FiniteSets, SequencesExt

CONSTANT bridgeStderrTail  \* how much of stderr is kept, 4096 bytes in the code

ASSUME DiscoveryAssumption == bridgeStderrTail \in Nat \ {0}

\* A text that is not there.
NoText == ""

Nothing == [scheme |-> NoText, host |-> NoText]

\* A proxy may be written as host:port, without a scheme.
Proxy(scheme, host) == [scheme |-> scheme, host |-> host]

-----------------------------------------------------------------------------
(* The egress *)

egressProxyEnvVars ==
  <<"HTTPS_PROXY", "https_proxy", "HTTP_PROXY", "http_proxy", "ALL_PROXY", "all_proxy">>

\* Variant: only the plugin's own proxy is looked at.
resolveEgressProxy_OwnOnly(proxyURL, env) == proxyURL

resolveEgressProxy(proxyURL, env) ==
  LET set == {i \in DOMAIN egressProxyEnvVars : env.proxy[egressProxyEnvVars[i]] # Nothing}
  IN  IF proxyURL # Nothing THEN proxyURL
      ELSE IF set = {} THEN Nothing
      ELSE env.proxy[egressProxyEnvVars[CHOOSE i \in set : \A j \in set : i <= j]]

egressProxySchemes == {"http", "https", "socks5", "socks5h"}

\* The scheme that is left out is http.
Fixed(proxy) == IF proxy.scheme = NoText THEN [proxy EXCEPT !.scheme = "http"] ELSE proxy

parseEgressProxy(proxy) == Fixed(proxy).scheme \in egressProxySchemes /\ Fixed(proxy).host # NoText

egressListenAddrs == <<"::1", "127.0.0.2">>

\* The addresses tried: the first that this machine has.
listenEgress(has) ==
  LET free == {i \in DOMAIN egressListenAddrs : egressListenAddrs[i] \in has}
  IN  IF free = {} THEN {}
      ELSE {egressListenAddrs[CHOOSE i \in free : \A j \in free : i <= j]}

\* No egress is needed where there is no proxy.  "address" is where it listens, "proxy" what
\* its transport dials through.
NoEgress == [address |-> NoText, proxy |-> Nothing]

\* The egresses that may come up; none if the start is to fail.
startBridgeEgress(proxyURL, env, has) ==
  LET proxy == resolveEgressProxy(proxyURL, env)
  IN  IF proxy = Nothing THEN {NoEgress}
      ELSE IF ~ parseEgressProxy(proxy) THEN {}
      ELSE {[address |-> address, proxy |-> Fixed(proxy)] : address \in listenEgress(has)}

\* Paths are what a client asks for: "/v1/..." of the cloud's REST, all else the backend's.
Cloud == "api.cursor.com"
Backend == "api2.cursor.sh"

\* Variant: what is an RPC is the backend's, all else the cloud's.
routeCursorRequest_ByRpc(path) == IF path = "rpc" THEN Backend ELSE Cloud

routeCursorRequest(path) == IF path = "/v1/" THEN Cloud ELSE Backend

-----------------------------------------------------------------------------
(* The environment *)

bridgeProxyEnvVars ==
  {"HTTP_PROXY", "http_proxy", "HTTPS_PROXY", "https_proxy", "ALL_PROXY", "all_proxy"}

bridgeNoProxyEnvVars == {"NO_PROXY", "no_proxy"}

bridgeLoopbackNoProxy == {"127.0.0.1", "::1", "localhost"}

bridgeStrippedEnvVars ==
  {"CURSOR_API_KEY", "CURSOR_SDK_BRIDGE_WORKSPACE", "CURSOR_SDK_BRIDGE_STATE_ROOT",
   "CURSOR_SDK_BRIDGE_HOST", "CURSOR_SDK_BRIDGE_PORT"}

\* Variant: the list of one spelling is looked at.
noProxyWithLoopback_OneSpelling(exempt) == exempt["NO_PROXY"] \cup bridgeLoopbackNoProxy

\* The lists of both spellings, and the loopback.
noProxyWithLoopback(exempt) ==
  (UNION {exempt[name] : name \in bridgeNoProxyEnvVars}) \cup bridgeLoopbackNoProxy

bridgeEnv(env, proxyURL, backendURL) ==
  [proxy   |-> IF proxyURL = Nothing THEN env.proxy
               ELSE [name \in bridgeProxyEnvVars |-> proxyURL],
   exempt  |-> IF backendURL = NoText THEN env.exempt
               ELSE [name \in bridgeNoProxyEnvVars |-> noProxyWithLoopback(env.exempt)],
   backend |-> IF backendURL = NoText THEN env.backend ELSE backendURL,
   others  |-> (env.others \ bridgeStrippedEnvVars) \cup {"CURSOR_SDK_CLIENT_LANGUAGE"}]

\* What startBridge gives the child, with that egress.
ChildEnv(env, proxyURL, egress) == bridgeEnv(env, proxyURL, egress.address)

\* downloadBridgeArchive, which fetches the bridge itself: whether it can be fetched through
\* the plugin's proxy.  url.Parse does not take a bare host:port, nor the transport what it
\* makes of it.
Downloads(config) == config = Nothing \/ config.scheme \in egressProxySchemes

-----------------------------------------------------------------------------
(* The bridge's clients *)

\* Where a client of a bridge with the environment env sends a request for a path of Cursor's.
SentTo(env, path) == IF env.backend # NoText THEN env.backend ELSE routeCursorRequest(path)

\* A client that goes by the environment reads one spelling of its variables; which one,
\* runtimes disagree about.
Spellings == {[proxy |-> "HTTPS_PROXY", exempt |-> "NO_PROXY"],
              [proxy |-> "https_proxy", exempt |-> "no_proxy"]}

Through(env, host, reads) ==
  IF host \in env.exempt[reads.exempt] THEN Nothing ELSE env.proxy[reads.proxy]

\* How a request of the client that ignores the proxies gets to Cursor: through which proxy,
\* and to which host.
Arrives(env, egress, path) ==
  IF egress # NoEgress /\ SentTo(env, path) = egress.address
  THEN [proxy |-> egress.proxy, host |-> routeCursorRequest(path)]
  ELSE [proxy |-> Nothing, host |-> SentTo(env, path)]

-----------------------------------------------------------------------------
(* Properties.                                                             *)

\* The paths the SDK asks for, and the hosts they belong to (bridge_egress_test.go:72).
HostOf == [path \in {"rpc", "/auth/", "/v1/"} |-> IF path = "/v1/" THEN Cloud ELSE Backend]

\* The host may have a proxy in any of the variables, may exempt a host in either list, and may
\* have another address and a key for Cursor.
Environments ==
  {[proxy |-> [name \in bridgeProxyEnvVars |-> IF name \in set THEN Proxy("http", name)
                                               ELSE Nothing],
    exempt |-> exempt, backend |-> backend, others |-> {"PATH", "CURSOR_API_KEY"}] :
     set \in SUBSET bridgeProxyEnvVars,
     exempt \in [bridgeNoProxyEnvVars -> {{}, {"intern"}}],
     backend \in {NoText, "api.example"}}

OwnProxies == {Nothing, Proxy("socks5", "ours"), Proxy(NoText, "ours"), Proxy("socks4", "ours"),
               Proxy("http", NoText)}

\* A request of the client that ignores the proxies reaches Cursor through the proxy of the
\* plugin, or else one of the host, which has a host's name, and directly only where nobody has
\* a proxy; at the host it belongs to, or where the host itself sends it (bridge_egress.go:53,
\* 92, 219).
ReachesCursor(env, proxyURL, egress, path) ==
  LET arrives == Arrives(ChildEnv(env, proxyURL, egress), egress, path) IN
  /\ proxyURL # Nothing => arrives.proxy = Fixed(proxyURL)
  /\ arrives.proxy = Nothing => \A name \in bridgeProxyEnvVars : env.proxy[name] = Nothing
  /\ arrives.proxy # Nothing => arrives.proxy.host # NoText
  /\ arrives.host = HostOf[path] \/ (egress = NoEgress /\ arrives.host = env.backend)

\* What else the bridge asks for goes through the same proxy of the plugin, or as the host has
\* it; and the host's exemptions survive (README.md:146; bridge.go:530, 585).
GoesAsConfigured(env, proxyURL, egress, host, reads) ==
  LET proxy == Through(ChildEnv(env, proxyURL, egress), host, reads) IN
  /\ host \in env.exempt[reads.exempt] => proxy = Nothing
  /\ (\A name \in bridgeNoProxyEnvVars : host \notin env.exempt[name] \cup bridgeLoopbackNoProxy)
       => proxy = IF proxyURL # Nothing THEN proxyURL ELSE env.proxy[reads.proxy]

\* However a bridge is started, if it is, each of its requests goes the way it should, and no
\* key is inherited (bridge.go:517).
WayIsProxied(env, proxyURL, egress, hosts) ==
  /\ \A path \in DOMAIN HostOf : ReachesCursor(env, proxyURL, egress, path)
  /\ \A host \in hosts, reads \in Spellings : GoesAsConfigured(env, proxyURL, egress, host, reads)
  /\ ChildEnv(env, proxyURL, egress).others \cap bridgeStrippedEnvVars = {}

EveryWayIsProxied ==
  \A env \in Environments, proxyURL \in OwnProxies, has \in SUBSET {"::1", "127.0.0.2"} :
    \A egress \in startBridgeEgress(proxyURL, env, has) :
      WayIsProxied(env, proxyURL, egress, {"anywhere", "intern"})

-----------------------------------------------------------------------------
\* These do not hold; see the README.

\* The hop to the egress is not sent through the user's proxy (bridge.go:510).
LocalHopIsDirect ==
  \A env \in Environments, proxyURL \in OwnProxies, has \in SUBSET {"::1", "127.0.0.2"} :
    \A egress \in startBridgeEgress(proxyURL, env, has) \ {NoEgress}, reads \in Spellings :
      Through(ChildEnv(env, proxyURL, egress), egress.address, reads) = Nothing

\* A proxy the egress takes is one the bridge can be downloaded through.
BareProxyDownloads == \A proxy \in OwnProxies : parseEgressProxy(proxy) => Downloads(proxy)

-----------------------------------------------------------------------------
(* What a new bridge says of itself *)

NoURL == [scheme |-> NoText, host |-> NoText, port |-> 0]

-----------------------------------------------------------------------------
(* Where the bridge listens *)

\* Variant: host and port come first.
baseURL_HostFirst(said) ==
  IF said.host = NoText \/ said.port = 0 THEN said.url
  ELSE [scheme |-> "http", host |-> said.host, port |-> said.port]

baseURL(said) ==
  IF said.url # NoURL THEN said.url
  ELSE IF said.host = NoText \/ said.port = 0 THEN NoURL
  ELSE [scheme |-> "http", host |-> said.host, port |-> said.port]

Loopback == {"127.0.0.1", "::1"}

\* Variant: one address of several is enough.
isLoopbackHost_OneOf(machine, host) ==
  \/ host = "localhost" \/ host \in Loopback
  \/ host \in DOMAIN machine.resolves /\ machine.resolves[host] \cap Loopback # {}

\* A name has to have addresses, and each of them to be this machine's.
isLoopbackHost(machine, host) ==
  \/ host = "localhost" \/ host \in Loopback
  \/ /\ host \in DOMAIN machine.resolves
     /\ machine.resolves[host] # {} /\ machine.resolves[host] \subseteq Loopback

validate(machine, said) ==
  /\ said.schema = 1 /\ said.transport = "tcp" /\ said.protocol = "connect"
  /\ baseURL(said) # NoURL
  /\ baseURL(said).scheme = "http"
  /\ isLoopbackHost(machine, baseURL(said).host)

-----------------------------------------------------------------------------
(* Its token *)

EvalSymlinks(machine, path) ==
  IF \E from \in DOMAIN machine.links : IsPrefix(from, path)
  THEN LET from == CHOOSE from \in DOMAIN machine.links : IsPrefix(from, path)
       IN  machine.links[from] \o SubSeq(path, Len(from) + 1, Len(path))
  ELSE path

\* Variant: the root is taken as it is written.
pathInsideRoot_AsWritten(machine, path, top) == IsPrefix(top, path)

pathInsideRoot(machine, path, top) == IsPrefix(EvalSymlinks(machine, top), path)

\* The names that start with bridgeTokenDirPrefix.
TokenDirs == {"cursor-sdk-bridge-a"}

tokenPathInBridgeTempDir(machine, resolved) ==
  /\ Len(resolved) > 2
  /\ Front(Front(resolved)) = EvalSymlinks(machine, machine.temp)
  /\ Last(Front(resolved)) \in TokenDirs

\* A file in the state directory is not looked at any further.
validateBridgeTokenPath(machine, path) ==
  LET resolved == EvalSymlinks(machine, path) IN
  /\ resolved \in DOMAIN machine.files
  /\ \/ pathInsideRoot(machine, resolved, machine.state)
     \/ /\ tokenPathInBridgeTempDir(machine, resolved)
        /\ machine.files[resolved].regular /\ ~machine.files[resolved].shared

\* No token is NoText.  A directory cannot be read.
bridgeAuthToken(machine, said) ==
  IF said.inline # NoText THEN said.inline
  ELSE IF said.file # <<>> /\ validateBridgeTokenPath(machine, said.file)
  THEN machine.files[EvalSymlinks(machine, said.file)].words
  ELSE NoText

Calls == {"unary", "stream"}

\* Variant: streams open without the header.
bridgeBearerAuth_Unary(token) == [call \in Calls |-> IF call = "unary" THEN token ELSE NoText]

\* The header of each kind of call.
bridgeBearerAuth(token) == [call \in Calls |-> token]

-----------------------------------------------------------------------------
(* Its stderr *)

\* Variant: the first bytes are kept.
WriteString_Head(tail, text) ==
  LET all == IF tail = <<>> THEN text ELSE tail \o <<"newline">> \o text
  IN  SubSeq(all, 1, IF Len(all) < bridgeStderrTail THEN Len(all) ELSE bridgeStderrTail)

WriteString(tail, text) ==
  LET all == IF tail = <<>> THEN text ELSE tail \o <<"newline">> \o text
  IN  SubSeq(all, IF Len(all) > bridgeStderrTail THEN Len(all) - bridgeStderrTail + 1 ELSE 1,
             Len(all))

\* A line is an announcement, one that cannot be read, or other text.  What is wrong with an
\* announcement is written in its place.
Line(kind, said, text) == [kind |-> kind, said |-> said, text |-> text]

ReadLine(machine, read, line) ==
  IF line.kind = "ready" /\ validate(machine, line.said)
  THEN IF read.announced # <<>> THEN read ELSE [read EXCEPT !.announced = <<line.said>>]
  ELSE IF line.kind = "text" /\ line.text = <<>> THEN read
  ELSE [read EXCEPT !.tail = WriteString(read.tail,
                                         IF line.kind = "text" THEN line.text ELSE <<"wrong">>)]

\* The announcement that is handed to the handshake, if there is one, and the tail.
readStderr(machine, lines) ==
  LET read[i \in 0 .. Len(lines)] == IF i = 0 THEN [announced |-> <<>>, tail |-> <<>>]
                                     ELSE ReadLine(machine, read[i - 1], lines[i])
  IN read[Len(lines)]

-----------------------------------------------------------------------------
(* Properties.                                                             *)

Addresses == Loopback \cup {"10.0.0.1"}

\* Directories may be links, as the one for temporary files is on macOS, or the user's cache.
Links == {{}, {<<"tmp">>}, {<<"cache">>}}

\* The token's file in the bridge's own directory, in the state directory, and elsewhere.
TokenFiles == {<<"tmp", "cursor-sdk-bridge-a", "token">>, <<"cache", "state", "token">>,
               <<"tmp", "token">>}

Moved(links, path) == IF <<path[1]>> \in links THEN <<"private">> \o path ELSE path

Machine(links, shared, words, found) ==
  [links |-> [from \in links |-> <<"private">> \o from],
   temp |-> <<"tmp">>, state |-> <<"cache", "state">>,
   files |-> [path \in {Moved(links, file) : file \in TokenFiles} |->
                [regular |-> TRUE, shared |-> shared, words |-> words]],
   resolves |-> [host \in {"box"} |-> found]]

Machines == {Machine(links, shared, words, found) :
               links \in Links, shared \in BOOLEAN, words \in {NoText, "secret"},
               found \in SUBSET Addresses}

Hosts == Addresses \cup {"localhost", "box"}

Said(url, host, port, inline, file) ==
  [schema |-> 1, transport |-> "tcp", protocol |-> "connect", url |-> url, host |-> host,
   port |-> port, inline |-> inline, file |-> file]

\* A bridge that listens at host says so in one way or in both; behind a URL, host and port are
\* whatever it was configured with.  It writes its token, or its file as it knows it.
Sayings(machine) ==
  {Said(url, host, port, inline, file) :
     url \in {NoURL} \cup [scheme : {"http", "https"}, host : Hosts, port : {1}],
     host \in {NoText, "::1", "10.0.0.1"}, port \in {0, 2},
     inline \in {NoText, "inline"}, file \in {<<>>} \cup TokenFiles \cup DOMAIN machine.files}

\* Variants in what a future bridge may say.
Foreign == {[Said(NoURL, "::1", 2, "inline", <<>>) EXCEPT !.schema = 2],
            [Said(NoURL, "::1", 2, "inline", <<>>) EXCEPT !.transport = "stdio"]}

OnThisMachine(machine, host) ==
  host = "localhost" \/ host \in Loopback
  \/ (host \in DOMAIN machine.resolves /\ machine.resolves[host] \in (SUBSET Loopback) \ {{}})

\* The token's file is in the state directory, or in a bridge's own among the temporary ones,
\* by whichever of its names a directory goes, and holds a token.
Written(machine, file) ==
  LET links == DOMAIN machine.links
      at == EvalSymlinks(machine, file)
  IN  /\ at \in DOMAIN machine.files /\ machine.files[at].words # NoText
      /\ \/ \E n \in 0 .. Len(at) : at = Moved(links, machine.state \o SubSeq(at, n + 1, Len(at)))
         \/ /\ \E dir \in TokenDirs :
                 at # <<>> /\ at = Moved(links, machine.temp \o <<dir, Last(at)>>)
            /\ machine.files[at].regular /\ ~machine.files[at].shared

\* A bridge that speaks plain HTTP on this machine is taken and dialled where it says, by its
\* URL before the rest; nothing else is.  Its token is found in either delivery, whichever of
\* its names a directory goes by, and goes with calls and streams alike (bridge.go:65, 93, 466,
\* 666; bridge_test.go:234).
IsUnderstood(machine, said) ==
  LET dialled == baseURL(said)
      token == bridgeAuthToken(machine, said)
  IN  /\ validate(machine, said) <=> /\ said.schema = 1 /\ said.transport = "tcp"
                                     /\ said.protocol = "connect"
                                     /\ dialled.scheme = "http"
                                     /\ OnThisMachine(machine, dialled.host)
      /\ said.url # NoURL => dialled = said.url
      /\ said.url = NoURL /\ said.host # NoText /\ said.port # 0
           => dialled = [scheme |-> "http", host |-> said.host, port |-> said.port]
      /\ said.inline # NoText => token = said.inline
      /\ said.inline = NoText => (token # NoText <=> Written(machine, said.file))
      /\ \A call \in Calls : bridgeBearerAuth(token)[call] = token

BridgeIsUnderstood ==
  \A machine \in Machines : \A said \in Sayings(machine) \cup Foreign : IsUnderstood(machine, said)

\* What a line leaves on stderr, and all that the lines have left there.
Logs(machine, line) ==
  IF line.kind = "text" THEN line.text
  ELSE IF validate(machine, line.said) THEN <<>> ELSE <<"wrong">>

AllLogged(machine, lines) ==
  LET left[i \in 0 .. Len(lines)] ==
        IF i = 0 THEN <<>>
        ELSE IF Logs(machine, lines[i]) = <<>> \/ left[i - 1] = <<>>
        THEN left[i - 1] \o Logs(machine, lines[i])
        ELSE left[i - 1] \o <<"newline">> \o Logs(machine, lines[i])
  IN left[Len(lines)]

\* However its lines follow each other: what is handed over is the first announcement that can
\* be used, and what is kept is the end of all other lines (bridge.go:355, 609).
EndIsKept(machine, lines) ==
  LET usable == {i \in DOMAIN lines : lines[i].kind = "ready" /\ validate(machine, lines[i].said)}
      all == AllLogged(machine, lines)
      read == readStderr(machine, lines)
  IN  /\ usable = {} => read.announced = <<>>
      /\ \A i \in usable : (\A j \in usable : i <= j) => read.announced = <<lines[i].said>>
      /\ read.tail = SubSeq(all, IF Len(all) < bridgeStderrTail THEN 1
                                 ELSE Len(all) - bridgeStderrTail + 1, Len(all))

LastWordsAreKept ==
  LET machine == CHOOSE m \in Machines : TRUE
      Lines == {Line("ready", Said(NoURL, "::1", 2, inline, <<>>), <<>>) : inline \in {"a", "b"}}
               \cup {Line("ready", said, <<>>) : said \in Foreign}
               \cup {Line("text", <<>>, text) : text \in {<<>>, <<"x">>, <<"y", "z">>}}
  IN  \A lines \in BoundedSeq(Lines, 4) : EndIsKept(machine, lines)
=============================================================================
