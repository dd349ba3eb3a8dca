------------------------------- MODULE Images -------------------------------
(***************************************************************************)
(* What an image part of a message refers to: bytes the client sends with  *)
(* it, in a data URL, or an address they are to be fetched from.           *)
(***************************************************************************)
EXTENDS Lists

CONSTANT imageMaxBytes  \* the limit of the plugin, some bytes here

ASSUME ImagesAssumption == imageMaxBytes \in Nat \ {0}

NoUrl == [scheme |-> "", user |-> FALSE, host |-> ""]
Url(scheme, user, host) == [scheme |-> scheme, user |-> user, host |-> host]

\* "separated": has a comma; "encoded": as base64 that can be read; "mime": "" if not given.
Blank == [form |-> "blank"]
Remote(url) == [form |-> "remote", url |-> url]
DataUrl(separated, encoded, mime, bytes) ==
  [form |-> "data", separated |-> separated, encoded |-> encoded, mime |-> mime, bytes |-> bytes]

\* Addresses of this machine, of a network of its own, or of no single machine.
Inward == {"loopback", "private", "shared", "link-local", "multicast", "unspecified"}

\* What a name stands for, one address after the other; an address stands for itself, and what
\* stands for none is not known.
Resolved(host) ==
  CASE host \in Inward \cup {"public"}       -> <<host>>
    [] host \in {"an.example", "cdn.example"} -> <<"public", "public">>
    [] host = "half.example"                  -> <<"private", "public">>
    [] host \in {"localhost", "metadata.goog"} -> <<"loopback">>
    [] OTHER                                  -> <<>>

\* The hosts an address may name.
Hosts == {"public", "private", "an.example", "cdn.example", "half.example", "localhost",
          "metadata.goog", "unknown.example", ""}

Urls == [scheme : {"https", "ftp"}, user : {FALSE}, host : Hosts]
          \cup {Url("http", TRUE, "an.example")}

defaultImageMimeType == "image/png"

Or(mime, default) == IF mime = "" THEN default ELSE mime
=============================================================================
