---------------------------- MODULE HttpRequest ----------------------------
(***************************************************************************)
(* What becomes of the name of the server a client asks for, on its way    *)
(* from the inbound to the connection: send_request of                     *)
(* inbound/http/http_proxy.rs, which takes a request's address and         *)
(* credentials from its URI, rewrites its headers and puts the address     *)
(* into "host"; then HttpProxy::http_proxy, which passes the request to an *)
(* upstream HTTP proxy, or http_proxy_ of outbound/mod.rs, which reads     *)
(* "host" again and connects.  CONNECT and a transparent connection take   *)
(* the address as it is.                                                   *)
(***************************************************************************)
EXTENDS Addresses

CONSTANTS
  Words,     \* the tokens a client's texts are cut into
  Names,     \* texts a client names a server with
  Userinfos  \* what may stand in front of them, before an at sign, in a URI

\* The last at sign of an authority ends its userinfo, so the name behind it has
\* none.  A host header with one is no legal one, and is left out.
ASSUME RequestAssumption ==
  /\ Names \subseteq Seq(Words) /\ Userinfos \subseteq Seq(Words)
  /\ \A s \in Names : Places(s, "@") = {}

VARIABLES
  asked,  \* what the client asks for
  up,     \* the outbound: is it an HTTP proxy, has it credentials?
  pc,
  out,    \* the request as it is sent
  via,    \* is it sent to the upstream HTTP proxy, not to the server?
  dial    \* the text of the address the connection is made to

vars == <<asked, up, pc, out, via, dial>>

Absent == <<>>
Own == <<"own">>  \* an Authorization header of the client's

Tunnels ==
  [kind : {"connect"}, name : Names]
    \cup [kind : {"tproxy"}, name : {V4Text, V6Text, MappedText}, port : {80, 8080}]

\* A URI with a scheme has an authority, with one userinfo or none in it; one
\* without is a path, and the client names the server in "host".
Messages ==
  [kind : {"request"}, scheme : {"none", "http", "https", "ftp"},
   userinfo : {{}} \cup {{u} : u \in Userinfos}, name : Names \cup {Absent}, authorization : {Absent, Own},
   te : {"none", "other", "trailers"}, proxy : SUBSET {"proxy-connection", "proxy-authorization"}]

Legal(m) ==
  IF m.scheme = "none" THEN m.userinfo = {} ELSE m.name # Absent

Nothing == [target |-> Absent, host |-> Absent, scheme |-> "none", authorization |-> Absent,
            te |-> "none", proxy |-> {}]

Init ==
  /\ asked \in Tunnels \cup {m \in Messages : Legal(m)}
  /\ up \in {u \in [http : BOOLEAN, auth : BOOLEAN] : u.auth => u.http}
  /\ pc = "arrived" /\ out = Nothing /\ via = FALSE /\ dial = Absent

Fail ==
  /\ pc' = "failed"
  /\ UNCHANGED <<asked, up, out, via, dial>>

----------------------------------------------------------------------------
\* The address of a tunnel; connect::run reads it from the URI.
Address == IF asked.kind = "connect" THEN FromStr(asked.name) ELSE {FromStd(asked.name, asked.port)}

Tunnel ==
  /\ pc = "arrived" /\ asked.kind # "request"
  /\ IF Address = {} THEN Fail
     ELSE /\ pc' = "sent"
          /\ dial' \in {Display(a) : a \in Address}
          /\ UNCHANGED <<asked, up, out, via>>

----------------------------------------------------------------------------
(***************************************************************************)
(* send_request.                                                           *)
(***************************************************************************)
Authority(m) ==
  IF m.scheme = "none" THEN Absent
  ELSE IF m.userinfo = {} THEN m.name ELSE (CHOOSE u \in m.userinfo : TRUE) \o <<"@">> \o m.name

\* TryFrom<Uri> for ParsedUri: the address is what follows the last at sign ...
AuthOf(s) == {p[1] : p \in RSplit(s, "@")}
HostOf(s) == IF RSplit(s, "@") = {} THEN s ELSE (CHOOSE p \in RSplit(s, "@") : TRUE)[2]

\* ... and the user name and the password are decoded each on its own.  Escapes
\* of bytes that are no UTF-8, of which "%FF" is one, cannot be.
Decoded(s) ==
  IF Places(s, "%FF") # {} THEN {}
  ELSE {[i \in DOMAIN s |-> CASE s[i] = "%40" -> "@" [] s[i] = "%3A" -> ":" [] OTHER -> s[i]]}

UserAndPassword(auth) == IF Split(auth, ":") = {} THEN {<<auth, <<>>>>} ELSE Split(auth, ":")

\* (were the password used as it is written)
CredentialsEncoded(auth) == UNION {Decoded(p[1]) \X {p[2]} : p \in UserAndPassword(auth)}

Credentials(auth) == UNION {Decoded(p[1]) \X Decoded(p[2]) : p \in UserAndPassword(auth)}

\* The header made of them; the base64 of its text shows no more than the text.
Basic(c) == <<"Basic">> \o (c[1] \o <<":">> \o c[2])

\* The address and the scheme of a request: of its URI, which fails as a whole if
\* its userinfo cannot be decoded, or of its host header.
Parsed(m) ==
  IF m.scheme # "none"
  THEN {[scheme |-> m.scheme, at |-> a] :
          a \in IF m.scheme \in {"http", "https"} /\ (\A u \in AuthOf(Authority(m)) : Credentials(u) # {})
                THEN ParseHostHeader(HostOf(Authority(m))) ELSE {}}
  ELSE {[scheme |-> "http", at |-> a] : a \in IF m.name # Absent THEN ParseHostHeader(m.name) ELSE {}}

\* The URI's credentials are used if the client has sent none.
Authorization(m) ==
  IF m.authorization # Absent \/ AuthOf(Authority(m)) = {}
  THEN m.authorization
  ELSE Basic(CHOOSE c \in UNION {Credentials(u) : u \in AuthOf(Authority(m))} : TRUE)

Te(m) == IF m.te = "trailers" THEN "trailers" ELSE "none"

GoesWithoutSaying(scheme, port) ==
  \/ scheme = "http" /\ port = 80
  \/ scheme = "https" /\ port = 443

HostHeader(scheme, a) ==
  ToUrlStyle(a.hostname) \o
    (IF a.port = NoPort \/ GoesWithoutSaying(scheme, a.port) THEN <<>>
     ELSE <<":", NumeralOf(a.port)>>)

\* All proxy- headers of the client are dropped, and the URI keeps its path only.
SendRequest ==
  /\ pc = "arrived" /\ asked.kind = "request"
  /\ IF Parsed(asked) = {} THEN Fail
     ELSE /\ pc' = "rewritten"
          /\ \E a \in Parsed(asked) :
               out' = [target |-> Absent, host |-> HostHeader(a.scheme, a.at), scheme |-> a.scheme,
                       authorization |-> Authorization(asked), te |-> Te(asked), proxy |-> {}]
          /\ UNCHANGED <<asked, up, via, dial>>

----------------------------------------------------------------------------
\* HttpProxy::http_proxy: a request for an http server is put to the upstream
\* proxy, with the credentials for it.
Forward ==
  /\ pc = "rewritten" /\ up.http /\ out.scheme = "http"
  /\ pc' = "sent" /\ via' = TRUE
  /\ out' = [out EXCEPT !.target = out.host,
                        !.proxy = IF up.auth THEN {"proxy-authorization"} ELSE {}]
  /\ UNCHANGED <<asked, up, dial>>

\* (were the scheme forgotten)
HttpPort(scheme) == 80

DefaultPort(scheme) == IF scheme = "http" THEN 80 ELSE 443

\* http_proxy_: everything else is sent to the server the host header names,
\* through a connection that may lead through the upstream proxies.
Server ==
  {[a EXCEPT !.port = IF @ = NoPort THEN DefaultPort(out.scheme) ELSE @] :
     a \in ParseHostHeader(out.host)}

Exchange ==
  /\ pc = "rewritten" /\ ~(up.http /\ out.scheme = "http")
  /\ IF Server = {} THEN Fail
     ELSE /\ pc' = "sent"
          /\ dial' \in {Display(a) : a \in Server}
          /\ UNCHANGED <<asked, up, out, via>>

Next == Tunnel \/ SendRequest \/ Forward \/ Exchange

Spec == Init /\ [][Next]_vars

----------------------------------------------------------------------------
\* The forms of the variables: what is sent has an address with a port, or the
\* proxy to go to, and of "te" nothing but trailers.
TypeOK ==
  /\ pc \in {"arrived", "rewritten", "sent", "failed"}
  /\ pc = "sent" => via \/ (\E a \in FromStr(dial) : a.port # NoPort)
  /\ out.te \in {"none", "trailers"}
  /\ out.scheme \in {"none", "http", "https"}

\* The server the client means, read by the grammar of addresses.
SchemePort == [http |-> 80, https |-> 443, none |-> 80]

Wanted ==
  CASE asked.kind = "connect" -> {m \in Meaning(asked.name) : m.port # NoPort}
    [] asked.kind = "tproxy" -> {[hostname |-> IF asked.name = V6Text THEN V6 ELSE V4, port |-> asked.port]}
    [] asked.kind = "request" /\ asked.scheme = "ftp" -> {}
    [] OTHER -> MeaningFor(asked.name, SchemePort[asked.scheme])

\* Parsed, printed and parsed again, a legal address stays the one the client
\* meant: that is where the connection is made or the proxy is asked to go, and
\* the host header names that server to whoever reads the request.
RightServer ==
  /\ TypeOK
  /\ pc = "sent" /\ Wanted # {} =>
       IF via THEN MeaningFor(out.target, 80) = Wanted ELSE Meaning(dial) = Wanted
  /\ pc \in {"rewritten", "sent"} /\ asked.kind = "request" /\ Wanted # {} =>
       MeaningFor(out.host, SchemePort[out.scheme]) = Wanted

\* What userinfo says: its escapes stand for one character each, and a user name
\* alone has an empty password.
ClearText(u) ==
  LET clear == [i \in DOMAIN u |-> CASE u[i] = "%40" -> "@" [] u[i] = "%3A" -> ":" [] OTHER -> u[i]]
  IN  IF Places(u, ":") = {} THEN clear \o <<":">> ELSE clear

\* No credentials go astray: those for a proxy reach only the upstream proxy
\* and are its own; the server gets the client's own ones for it, or else the
\* user name and the password of the URI, in full and in clear, and none if the
\* URI has none; and the URI no longer shows any.
SecretsKept ==
  pc \in {"rewritten", "sent"} /\ asked.kind = "request" =>
    /\ out.proxy # {} => via /\ up.auth /\ out.proxy = {"proxy-authorization"}
    /\ "@" \notin {out.target[i] : i \in DOMAIN out.target}
    /\ asked.authorization = Own => out.authorization = Own
    /\ asked.authorization = Absent =>
         /\ asked.userinfo = {} => out.authorization = Absent
         /\ \A u \in asked.userinfo : out.authorization = <<"Basic">> \o ClearText(u)

\* A legal request fails only if its address has a colon that no port follows:
\* the one in front of an empty port, or those in an IPv6 address whose port
\* goes without saying (parse_host_header takes what follows the last colon).
NoPortBehindColon ==
  \/ (\E m \in Meaning(asked.name) : m.port = NoPort) /\ Places(asked.name, ":") # {}
  \/ out.host = ToUrlStyle(V6) /\ ~(up.http /\ out.scheme = "http")

\* ... or if there are bytes in its userinfo that are no UTF-8.
NotUtf8 == asked.kind = "request" /\ \E u \in asked.userinfo : Places(u, "%FF") # {}

FailsOnlyIf == pc = "failed" /\ Wanted # {} => NoPortBehindColon \/ NotUtf8

\* README.md (lines 31 and 44) redirects the connections to port 80 of IPv6
\* servers to the HTTP inbound: a request whose host header is such a server's
\* address does not fail.
ServesIPv6 ==
  asked.kind = "request" /\ asked.scheme = "none" /\ Wanted = {[hostname |-> V6, port |-> 80]}
    => pc # "failed"
=============================================================================
