------------------------- MODULE CommandCodeImages -------------------------
(***************************************************************************)
(* What a request to an Anthropic model of Command Code holds of the       *)
(* messages' contents, and its images (auth-commandcode/go: images.go; in  *)
(* anthropic.go convertUserContent, convertImageURL,                       *)
(* convertAssistantContent, convertToolResult and the loop over the        *)
(* messages in chatToAnthropic).  Images are fetched by net/http, which    *)
(* follows redirects.                                                      *)
(*                                                                         *)
(* Whose message the blocks go in, and calls, are CommandCodeChat's.  What *)
(* may be refused is a set: of one result, or of none.                     *)
(***************************************************************************)
EXTENDS Images, JsonValues

allowedImageMIME == {"image/jpeg", "image/jpg", "image/png", "image/gif", "image/webp"}

Refused == [refused |-> TRUE]

parseDataURL(reference) ==
  LET mime == Or(reference.mime, defaultImageMimeType) IN
  IF /\ reference.separated /\ reference.encoded /\ mime \in allowedImageMIME
     /\ Len(reference.bytes) \in 1..imageMaxBytes
  THEN [bytes |-> reference.bytes, mime |-> mime]
  ELSE Refused

-----------------------------------------------------------------------------
(* Fetching *)

metadataImageHosts == {"metadata.google.internal", "metadata.goog"}

blockedImageIP(address) == address \in Inward

blockedImageHost(host) ==
  host = "localhost" \/ host \in metadataImageHosts \/ blockedImageIP(host)

\* What a host's name stands for is looked at when it is dialled.
parseFetchableImageURL(url) ==
  /\ url.scheme \in {"http", "https"} /\ ~ url.user /\ url.host # ""
  /\ ~ blockedImageHost(url.host)

\* Without a proxy: one of the addresses that may be dialled takes the connection.  "up" are
\* the addresses that do.
dialSafeImage(host, up) ==
  /\ ~ blockedImageHost(host)
  /\ \E i \in DOMAIN Resolved(host) :
       ~ blockedImageIP(Resolved(host)[i]) /\ Resolved(host)[i] \in up

\* A proxy that is set makes the connection itself, to whatever host.
imageHTTPClient(proxied, host, up) == proxied \/ dialSafeImage(host, up)

MaxRequests == 5

\* Variant: the count is one off.
checkImageRedirect_OneMore(url, made) == made <= MaxRequests /\ parseFetchableImageURL(url)

checkImageRedirect(url, made) == made < MaxRequests /\ parseFetchableImageURL(url)

\* What a server answers: "redirect" to an address, or a body that may break off.
Answer(redirect, status, mime, bytes, breaks) ==
  [redirect |-> redirect, status |-> status, mime |-> mime, bytes |-> bytes, breaks |-> breaks]

\* Where a client is: the address its last request goes to, and how many it has made.
At(url, made, state) == [url |-> url, made |-> made, state |-> state]

\* One round of net/http's client.
Hop(at, web, proxied, up) ==
  LET next == web[at.url].redirect IN
  IF at.state # "going" THEN at
  ELSE IF ~ imageHTTPClient(proxied, at.url.host, up) THEN At(at.url, at.made, "failed")
  ELSE IF next = NoUrl THEN At(at.url, at.made, "answered")
  ELSE IF checkImageRedirect(next, at.made) THEN At(next, at.made + 1, "going")
  ELSE At(at.url, at.made, "failed")

Arrival(url, web, proxied, up) ==
  LET at[i \in 0..(MaxRequests + 1)] ==
        IF i = 0 THEN At(url, 1, "going") ELSE Hop(at[i - 1], web, proxied, up)
  IN at[MaxRequests + 1]

responseMimeType(answer) == IF answer.mime = "text/html" THEN "" ELSE answer.mime

\* Variant: what is over the limit is cut off.
Received_Cut(answer) ==
  IF answer.breaks THEN <<>>
  ELSE SubSeq(answer.bytes, 1, IF Len(answer.bytes) > imageMaxBytes THEN imageMaxBytes
                               ELSE Len(answer.bytes))

\* One byte more than the limit is read.
Received(answer) ==
  IF answer.breaks \/ Len(answer.bytes) > imageMaxBytes THEN <<>> ELSE answer.bytes

\* "web" is what each address answers.
downloadImage(url, web, proxied, up) ==
  LET at == Arrival(url, web, proxied, up)
      answer == web[at.url]
      mime == Or(responseMimeType(answer), defaultImageMimeType) IN
  IF /\ parseFetchableImageURL(url) /\ at.state = "answered"
     /\ answer.status = 200 /\ Received(answer) # <<>> /\ mime \in allowedImageMIME
  THEN [bytes |-> Received(answer), mime |-> mime]
  ELSE Refused

-----------------------------------------------------------------------------
(* The blocks of a message.  A block holds a text, an image, or a value as *)
(* it is written.                                                          *)

Part(type, text, reference) == [type |-> type, text |-> text, reference |-> reference]

IsText(part) == part.type \in {"", "text"}

Block(type, holds) == [type |-> type, holds |-> holds]
TextBlock(letters) == Block("text", Text(letters))
Raw(value) == [raw |-> value]

\* Whatever cannot be had is the request's fault.
convertImageURL(reference, web, proxied, up) ==
  CASE reference.form = "blank"  -> Refused
    [] reference.form = "data"   -> parseDataURL(reference)
    [] reference.form = "remote" -> downloadImage(reference.url, web, proxied, up)

\* Part after part; an empty message becomes an empty text.
convertUserContent(content, web, proxied, up) ==
  LET image(part) == convertImageURL(part.reference, web, proxied, up)
      usable(part) == IsText(part) \/ (part.type = "image_url" /\ image(part) # Refused)
      block(part) == IF IsText(part) THEN TextBlock(part.text) ELSE Block("image", image(part)) IN
  IF Is("text", content) THEN {<<TextBlock(content.text)>>}
  ELSE IF Is("missing", content) \/ Is("null", content) THEN {<<TextBlock(<<>>)>>}
  ELSE IF ~ Is("array", content) \/ \E i \in DOMAIN content.array : ~ usable(content.array[i])
  THEN {}
  ELSE IF content.array = <<>> THEN {<<TextBlock(<<>>)>>}
  ELSE {[i \in DOMAIN content.array |-> block(content.array[i])]}

\* Of a message without calls.  Its images are not fetched through the proxy.
convertAssistantContent(content, web, up) ==
  IF Is("array", content) THEN convertUserContent(content, web, FALSE, up)
  ELSE {<<TextBlock(TextOf(content))>>}

convertToolResult(content) ==
  Block("tool_result", IF Is("text", content) THEN content
                       ELSE IF Is("missing", content) THEN Text(<<>>) ELSE Raw(content))

\* The system's blocks that are kept.
SystemBlocks(blocks) ==
  Flat([i \in DOMAIN blocks |->
          IF blocks[i].type = "text" /\ Trimmed(blocks[i].holds.text) # <<>> THEN <<blocks[i]>>
          ELSE <<>>])

Message(role, content) == [role |-> role, content |-> content]

\* What goes upstream of a message.
ContentOf(message, web, proxied, up) ==
  CASE message.role = "system" ->
         {SystemBlocks(blocks) : blocks \in convertUserContent(message.content, web, proxied, up)}
    [] message.role = "user" -> convertUserContent(message.content, web, proxied, up)
    [] message.role = "assistant" -> convertAssistantContent(message.content, web, up)
    [] message.role = "tool" -> {<<convertToolResult(message.content)>>}
    [] OTHER -> {}

\* Message after message.
Contents(messages, web, proxied, up) ==
  LET content(i) == ContentOf(messages[i], web, proxied, up) IN
  IF \E i \in DOMAIN messages : content(i) = {} THEN {}
  ELSE {[i \in DOMAIN messages |-> CHOOSE blocks \in content(i) : TRUE]}

\* The length of bytes in base64, and of all images in some blocks.
Encoded(bytes) == 4 * ((Len(bytes) + 2) \div 3)

ShownLength(blocks) ==
  FoldLeft(LAMBDA length, block : IF block.type = "image" THEN length + Encoded(block.holds.bytes)
                                  ELSE length, 0, blocks)

-----------------------------------------------------------------------------
(* Properties.                                                             *)

\* The i-th address that a client is sent to, from url on.
AddressAt(url, web, i) ==
  LET at[j \in 1..MaxRequests] == IF j = 1 THEN url ELSE web[at[j - 1]].redirect IN at[i]

\* A client that may go to each of n addresses gets to the last and is not sent on from there.
LeadsTo(url, web, proxied, up, n) ==
  \A i \in 1..n :
    LET address == AddressAt(url, web, i) IN
    /\ parseFetchableImageURL(address)
    /\ proxied \/ \E j \in DOMAIN Resolved(address.host) :
                     Resolved(address.host)[j] \in up \ Inward
    /\ i < n <=> web[address].redirect # NoUrl

CanBeHad(answer) ==
  /\ answer.status = 200 /\ answer.mime \in allowedImageMIME \cup {"", "text/html"}
  /\ ~ answer.breaks /\ Len(answer.bytes) \in 1..imageMaxBytes

\* How many addresses on from url an image is.
Distances(url, web, proxied, up) ==
  {n \in 1..MaxRequests : LeadsTo(url, web, proxied, up, n) /\ CanBeHad(web[AddressAt(url, web, n)])}

\* An image is fetched if and only if it is at the end of no more than five requests, can be
\* had there, and a server elsewhere can be reached on the way; then it is all there.
FetchedFromEnd(url, web, proxied, up) ==
  LET fetched == downloadImage(url, web, proxied, up)
      ends == Distances(url, web, proxied, up) IN
  /\ fetched # Refused <=> ends # {}
  /\ \A n \in ends : fetched.bytes = web[AddressAt(url, web, n)].bytes

\* What a message says is its parts, or one text.
PartsOf(content) ==
  IF Is("array", content) /\ content.array # <<>> THEN content.array
  ELSE <<Part("text", TextOf(content), Blank)>>

\* There is a block for each part, in their order: its text, or an image that holds what the
\* client attached or what is at its address.
BlocksAreParts(parts, blocks, web, proxied, up) ==
  LET attached(reference) ==
        IF reference.form = "data" THEN {reference.bytes}
        ELSE {web[AddressAt(reference.url, web, n)].bytes :
                n \in Distances(reference.url, web, proxied, up)}
  IN /\ DOMAIN blocks = DOMAIN parts
     /\ \A i \in DOMAIN parts :
          IF IsText(parts[i]) THEN blocks[i] = TextBlock(parts[i].text)
          ELSE /\ blocks[i].type = "image" /\ parts[i].type = "image_url"
               /\ blocks[i].holds.bytes \in attached(parts[i].reference)
               /\ Len(blocks[i].holds.bytes) \in 1..imageMaxBytes

\* The texts that are not blank.
TextsOf(parts) ==
  Flat([i \in DOMAIN parts |->
          IF IsText(parts[i]) /\ Trimmed(parts[i].text) # <<>> THEN <<TextBlock(parts[i].text)>>
          ELSE <<>>])

\* What goes upstream of a message is all that a user or an assistant said and showed, all that
\* the system said, and a tool's text.  The system's images and what a tool has but a text are
\* not among it (ShownAsUsers).
KeptAs(message, blocks, web, proxied, up) ==
  LET parts == PartsOf(message.content) IN
  /\ message.role \in {"system", "user", "assistant", "tool"}
  /\ message.role = "user" => BlocksAreParts(parts, blocks, web, proxied, up)
  /\ message.role = "assistant" => BlocksAreParts(parts, blocks, web, FALSE, up)
  /\ message.role = "system" => blocks = TextsOf(parts)
  /\ message.role = "tool" /\ Is("text", message.content) =>
       blocks = <<Block("tool_result", message.content)>>

ContentIsKept(message, web, proxied, up) ==
  \A blocks \in ContentOf(message, web, proxied, up) : KeptAs(message, blocks, web, proxied, up)

\* Six addresses that may be fetched, each of which sends a client on to the next.
Chain == <<Url("https", FALSE, "an.example"), Url("http", FALSE, "an.example"),
           Url("https", FALSE, "cdn.example"), Url("http", FALSE, "half.example"),
           Url("https", FALSE, "public"), Url("http", FALSE, "public")>>

Inside == Url("https", FALSE, "private")

Moved(next) == Answer(next, 302, "", <<>>, FALSE)

\* The n-th answers, or sends the client to a host it must not be sent to, or back.
Web(n, answer) ==
  [url \in ToSet(Chain) |->
     LET i == CHOOSE j \in DOMAIN Chain : Chain[j] = url IN
     IF i < n THEN Moved(Chain[i + 1]) ELSE answer]

Attached == {<<"a">>, <<"a", "b">>, <<"a", "b", "c">>, <<>>}

Finals == [redirect : {NoUrl}, status : {200, 404},
           mime : {"", "text/html", "image/gif", "image/tiff"}, bytes : Attached, breaks : BOOLEAN]
          \cup {Moved(next) : next \in {Inside, Chain[1]}}

References == {Blank, Remote(Chain[1]), Remote(Inside), DataUrl(TRUE, TRUE, "", <<"d">>),
               DataUrl(TRUE, TRUE, "image/gif", <<>>), DataUrl(TRUE, FALSE, "", <<"e">>),
               DataUrl(TRUE, TRUE, "", <<"e", "f", "g">>)}

Roles == {"system", "user", "assistant", "tool", "developer"}

\* Contents without an image, and with two.
Plainly ==
  {Missing, Null, Number(2), Text(<<>>), Text(<<" ">>), Text(<<"t">>), List(<<>>)}
    \cup {List(<<Part("", <<" ">>, Blank), Part("text", <<" ", "t">>, Blank),
                 Part(type, <<"u">>, Blank)>>) : type \in {"", "text", "audio"}}

Showing(shown) ==
  List(<<Part("image_url", <<>>, shown[1]), Part("text", <<"t">>, Blank),
         Part("image_url", <<>>, shown[2])>>)

\* One image at the first address.
Site(bytes) == Web(1, Answer(NoUrl, 200, "image/gif", bytes, FALSE))

ImagesGoWhole ==
  /\ \A n \in DOMAIN Chain, answer \in Finals, proxied \in BOOLEAN :
       \A up \in SUBSET {"public", "private"} :
         FetchedFromEnd(Chain[1], Web(n, answer), proxied, up)
  /\ \A role \in Roles, content \in Plainly \cup {Showing(shown) : shown \in [1..2 -> References]},
        bytes \in Attached, proxied \in BOOLEAN :
       ContentIsKept(Message(role, content), Site(bytes), proxied, {"public"})

(* What texts of the repository say and the code does not do. *)

\* auth-commandcode/README.md:141: "Remote images on Claude requests are fetched by the plugin, not
\* forwarded as URLs."  A user's are.  A system's are fetched, and dropped (anthropic.go:163); a tool's are
\* forwarded, as the text of the message that names them (anthropic.go:418); and an assistant's
\* are fetched without the proxy that is set (anthropic.go:365).
ShownAsUsers(role) ==
  \A proxied \in BOOLEAN, up \in {{}, {"public"}} :
    LET image == List(<<Part("image_url", <<>>, Remote(Chain[1]))>>)
        of(sender) == {[i \in DOMAIN blocks |-> blocks[i].holds] :
                         blocks \in ContentOf(Message(sender, image), Site(<<"a">>), proxied, up)}
    IN of(role) = of("user")
=============================================================================
