---------------------------- MODULE CursorImages ----------------------------
(***************************************************************************)
(* The images of a request to Cursor (auth-cursor/go: images.go;           *)
(* messageContent, parseImage and sessionSplit in chatcompletions.go).     *)
(* They are fetched through a stream of the host's: it opens or does not,  *)
(* and hands out chunks until one says that it is done, or fails.          *)
(***************************************************************************)
EXTENDS Images

Part(type, reference) == [type |-> type, reference |-> reference]

NoImage == [url |-> NoUrl, bytes |-> <<>>, mime |-> ""]

\* A data URL that cannot be read is no image.
parseImage(reference) ==
  CASE reference.form = "blank"  -> NoImage
    [] reference.form = "remote" -> [NoImage EXCEPT !.url = reference.url]
    [] reference.form = "data"   ->
         IF reference.separated /\ reference.encoded
         THEN [NoImage EXCEPT !.bytes = reference.bytes,
                              !.mime = Or(reference.mime, defaultImageMimeType)]
         ELSE NoImage

Shown(part) == part.type \in {"image_url", "input_image"}

\* What is no image is passed over.
messageContent(parts) ==
  LET image(part) == IF Shown(part) THEN parseImage(part.reference) ELSE NoImage IN
  Without([i \in DOMAIN parts |-> image(parts[i])], {NoImage})

\* The images of messages, which are each a sequence of parts.
ImagesOf(messages) == Flat([i \in DOMAIN messages |-> messageContent(messages[i])])

\* sessionSplit: those of the messages after the last assistant's.
IncrementImages(messages, last) ==
  IF last = 0 THEN <<>> ELSE ImagesOf(SubSeq(messages, last + 1, Len(messages)))

-----------------------------------------------------------------------------
(* Fetching *)

metadataImageHosts == {"metadata.google.internal", "metadata.goog"}

blockedImageIP(address) == address \in Inward

blockedImageHost(host) ==
  host = "localhost" \/ host \in metadataImageHosts \/ blockedImageIP(host)

parseFetchableImageURL(url) ==
  /\ url.scheme \in {"http", "https"} /\ ~ url.user /\ url.host # ""
  /\ ~ blockedImageHost(url.host)
  /\ Resolved(url.host) # <<>>
  /\ \A i \in DOMAIN Resolved(url.host) : ~ blockedImageIP(Resolved(url.host)[i])

\* What the host answers: whether it opens the stream, the status and media type of the
\* answer, and its chunks.
Chunk(payload, error, done) == [payload |-> payload, error |-> error, done |-> done]

responseMimeType(answer) == IF answer.mime = "text/html" THEN "" ELSE answer.mime

\* Variant: a chunk that says done is not looked at any further.
Read_DoneFirst(body, chunk) ==
  IF body.state # "reading" THEN body
  ELSE IF chunk.error THEN [body EXCEPT !.state = "failed"]
  ELSE IF chunk.done THEN [body EXCEPT !.state = "done"]
  ELSE IF Len(body.bytes) + Len(chunk.payload) > imageMaxBytes THEN [body EXCEPT !.state = "failed"]
  ELSE [body EXCEPT !.bytes = @ \o chunk.payload]

\* One turn of downloadImage's loop.
Read(body, chunk) ==
  IF body.state # "reading" THEN body
  ELSE IF chunk.error \/ Len(body.bytes) + Len(chunk.payload) > imageMaxBytes
       THEN [body EXCEPT !.state = "failed"]
  ELSE [bytes |-> body.bytes \o chunk.payload,
        state |-> IF chunk.done THEN "done" ELSE "reading"]

Unread == [bytes |-> <<>>, state |-> "reading"]

\* After the last chunk there is nothing to read but an error.
Body(chunks) ==
  LET after[n \in 0..Len(chunks)] == IF n = 0 THEN Unread ELSE Read(after[n - 1], chunks[n])
  IN  after[Len(chunks)]

Refused == [refused |-> TRUE]

downloadImage(url, answer) ==
  LET body == Body(answer.chunks) IN
  IF /\ parseFetchableImageURL(url) /\ answer.opens /\ answer.status \in 200..299
     /\ body.state = "done" /\ body.bytes # <<>>
  THEN [bytes |-> body.bytes, mime |-> responseMimeType(answer)]
  ELSE Refused

inlineSdkImage(bytes, mime) == [bytes |-> bytes, mime |-> Or(mime, defaultImageMimeType)]

\* One that cannot be fetched refuses the request, as its own fault (image_unavailable); one
\* that is neither bytes nor an address is left out.
BuildImage(built, image, answers) ==
  LET Added(bytes, mime) == [built EXCEPT !.images = Append(@, inlineSdkImage(bytes, mime))]
      fetched == downloadImage(image.url, answers[image.url]) IN
  IF built.refused THEN built
  ELSE CASE image.bytes # <<>>                       -> Added(image.bytes, image.mime)
         [] image.bytes = <<>> /\ image.url = NoUrl -> built
         [] OTHER -> IF fetched = Refused THEN [built EXCEPT !.refused = TRUE]
                     ELSE Added(fetched.bytes, fetched.mime)

Unbuilt == [refused |-> FALSE, images |-> <<>>]

buildSdkImages(images, answers) ==
  LET built[n \in 0..Len(images)] ==
        IF n = 0 THEN Unbuilt ELSE BuildImage(built[n - 1], images[n], answers)
  IN  built[Len(images)]

-----------------------------------------------------------------------------
(* Properties.                                                             *)

Payloads == {<<>>, <<"a">>, <<"b", "c">>}

ChunkSeqs == UNION {[1..n -> [payload : Payloads, error : BOOLEAN, done : BOOLEAN]] : n \in 0..2}

HostAnswers ==
  [opens : BOOLEAN, status : {200, 299, 404}, mime : {"image/gif", "text/html"}, chunks : ChunkSeqs]

\* The chunk that is a server's last, or 0.
LastChunk(chunks) ==
  LET ends == {i \in DOMAIN chunks : chunks[i].done} IN
  IF ends = {} THEN 0 ELSE Min(ends)

\* What a server sends.
Whole(chunks) == Flat([i \in 1..LastChunk(chunks) |-> chunks[i].payload])

\* An image that can be had: of a server elsewhere that sends all of it, and not too much.
CanBeHad(url, answer) ==
  /\ url.scheme \in {"http", "https"} /\ ~ url.user
  /\ url.host \in {"public", "an.example", "cdn.example"}
  /\ answer.opens /\ answer.status \in 200..299 /\ LastChunk(answer.chunks) > 0
  /\ \A i \in 1..LastChunk(answer.chunks) : ~ answer.chunks[i].error
  /\ Len(Whole(answer.chunks)) \in 1..imageMaxBytes

\* An image is fetched if and only if it can be had, and then it is all there.
FetchedWhole(url, answer) ==
  LET fetched == downloadImage(url, answer) IN
  /\ fetched # Refused <=> CanBeHad(url, answer)
  /\ fetched # Refused => fetched.bytes = Whole(answer.chunks)

Unavailable(part, answers) ==
  /\ Shown(part) /\ part.reference.form = "remote"
  /\ ~ CanBeHad(part.reference.url, answers[part.reference.url])

\* The bytes a part attaches, or none.
Attached(part, answers) ==
  LET reference == part.reference IN
  CASE Shown(part) /\ reference.form = "remote" -> <<Whole(answers[reference.url].chunks)>>
    [] /\ Shown(part) /\ reference.form = "data"
       /\ reference.separated /\ reference.encoded /\ reference.bytes # <<>> -> <<reference.bytes>>
    [] OTHER -> <<>>

\* A request that goes to Cursor has every image that can be read, in the order of the chat; if
\* one cannot be had, it does not go (images.go:44).  A chat's images are those an agent was sent
\* with the prefix and those of the increment (chatcompletions.go:191).
SentWhole(messages, answers) ==
  LET built == buildSdkImages(ImagesOf(messages), answers)
      parts == Flat(messages) IN
  /\ built.refused <=> \E i \in DOMAIN parts : Unavailable(parts[i], answers)
  /\ ~ built.refused => [i \in DOMAIN built.images |-> built.images[i].bytes]
                          = Flat([i \in DOMAIN parts |-> Attached(parts[i], answers)])
  /\ \A last \in DOMAIN messages :
       ImagesOf(messages) = ImagesOf(SubSeq(messages, 1, last)) \o IncrementImages(messages, last)

Here == Url("https", FALSE, "cdn.example")
There == Url("https", FALSE, "an.example")

References == {Blank, Remote(Here), Remote(There), DataUrl(TRUE, TRUE, "", <<"d">>),
               DataUrl(TRUE, TRUE, "image/gif", <<>>), DataUrl(TRUE, FALSE, "", <<"e">>)}

Sent(payload) == [opens |-> TRUE, status |-> 200, mime |-> "image/gif",
                  chunks |-> <<Chunk(payload, FALSE, TRUE)>>]

\* A message with one image.
Showing(reference) == <<Part("text", Blank), Part("image_url", reference)>>

ImagesGoWhole ==
  /\ \A url \in Urls, answer \in HostAnswers : FetchedWhole(url, answer)
  /\ \A shown \in [1..3 -> References], answers \in [{Here, There} -> {Sent(<<"a">>), Sent(<<>>)}] :
       SentWhole([i \in 1..3 |-> Showing(shown[i])], answers)

-----------------------------------------------------------------------------
\* These do not hold; see the README.

\* An image a client sent is sent on, or the request is refused.
NoImageIsDropped ==
  \A reference \in References \ {Blank} :
    LET built == buildSdkImages(messageContent(<<Part("image_url", reference)>>),
                                [url \in {Here, There} |-> Sent(<<"a">>)]) IN
    built.refused \/ Len(built.images) = 1

\* The default media type is used when the response declares none (images.go:21).
DefaultIfUndeclared ==
  \A answer \in HostAnswers :
    LET fetched == downloadImage(Here, answer) IN
    fetched # Refused => inlineSdkImage(fetched.bytes, fetched.mime).mime = answer.mime
=============================================================================
