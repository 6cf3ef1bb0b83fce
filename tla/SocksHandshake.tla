--------------------------- MODULE SocksHandshake ---------------------------
(***************************************************************************)
(* connect of Socks4Proxy and Socks5Proxy (outbound/socks4.rs, socks5.rs): *)
(* the dialogue with an upstream proxy over a connection to it.            *)
(*                                                                         *)
(* What the client writes is a sequence of messages; the pieces a message  *)
(* is written in mean nothing to a proxy that waits for the whole of it,   *)
(* but bytes that were written and not flushed may stay behind.  What it   *)
(* reads is a stream of bytes, read one at a time.  The proxy answers each *)
(* message with anything from a set of good, refusing and malformed        *)
(* replies, in any number of pieces, and may leave at any time.  After a   *)
(* reply that grants the request it may send bytes of the tunnel at once.  *)
(*                                                                         *)
(* A target is a host name with what matters to the code: whether it is an *)
(* address, the size of its encoding, and whether it is "odd" -- an IPv4   *)
(* address 0.0.0.x, x > 0, or a name with a NUL in it.                     *)
(***************************************************************************)
EXTENDS Naturals, Sequences

CONSTANTS
  NameSizes,  \* lengths of the domain names connected to
  MaxData     \* bound: bytes of the tunnel the proxy sends

ASSUME SocksAssumption == NameSizes \subseteq Nat /\ MaxData \in Nat

VARIABLES
  proto,    \* which of the two connects
  target,   \* addr
  pc,       \* where connect stands
  then,     \* where it goes on after the flush it is in
  rest,     \* how many bytes of the reply are still to be read
  written,  \* messages written to the connection, not flushed
  heard,    \* messages the proxy has received
  inbox,    \* bytes the proxy has sent, not read
  said,     \* the proxy's replies, one for each message it has answered
  data,     \* how many bytes of the tunnel the proxy has sent
  gone      \* has the proxy closed the connection?

client == <<pc, then, rest, written>>
proxy == <<inbox, said, data, gone>>
vars == <<proto, target, client, heard, proxy>>

----------------------------------------------------------------------------
Targets ==
  [kind : {"v4"}, size : {4}, odd : BOOLEAN] \cup [kind : {"v6"}, size : {16}, odd : {FALSE}]
    \cup [kind : {"name"}, size : NameSizes, odd : BOOLEAN]

Plain(m) == [msg |-> m, field |-> "none", len |-> 0, host |-> target]
Request(field, len) == [msg |-> "connect", field |-> field, len |-> len, host |-> target]

\* SOCKS4 has no way to say these: 0.0.0.x announces a name, NUL ends one.
Refuses(t) == t.odd

\* An IPv6 address is sent to a SOCKS4 proxy as if it were a name.
Request4 == Request(IF target.kind = "v4" THEN "v4" ELSE "name", 0)

\* (were the length cut to a byte)
FitsAlways(t) == TRUE

\* The length of a name is one byte.
Fits(t) == t.kind = "name" => t.size <= 255

Request5 == Request(target.kind, IF target.kind = "name" THEN target.size % 256 ELSE 0)

Init ==
  /\ proto \in {"socks4", "socks5"} /\ target \in Targets
  /\ pc = "begin" /\ then = "begin" /\ rest = 0
  /\ written = <<>> /\ heard = <<>>
  /\ inbox = <<>> /\ said = <<>> /\ data = 0 /\ gone = FALSE

----------------------------------------------------------------------------
(***************************************************************************)
(* The client.                                                             *)
(***************************************************************************)
\* (were the flush forgotten)
SayUnflushed(m, next) ==
  /\ written' = Append(written, m)
  /\ pc' = next
  /\ UNCHANGED then

\* A message is written; a flush comes before the answer is read.
Say(m, next) ==
  /\ written' = Append(written, m)
  /\ pc' = "flush" /\ then' = next

Fail == pc' = "error" /\ UNCHANGED <<then, written>>

Begin ==
  /\ pc = "begin"
  /\ \/ proto = "socks5" /\ Say(Plain("greeting"), "version")
     \/ proto = "socks4" /\ Refuses(target) /\ Fail
     \/ proto = "socks4" /\ ~Refuses(target) /\ Say(Request4, "null")
  /\ UNCHANGED <<proto, target, rest, heard, proxy>>

Authenticate ==
  /\ pc = "auth"
  /\ Say(Plain("auth"), "auth version")
  /\ UNCHANGED <<proto, target, rest, heard, proxy>>

\* The length is checked when the message has been begun.
SendRequest ==
  /\ pc = "request"
  /\ IF Fits(target) THEN Say(Request5, "reply version") ELSE Fail
  /\ UNCHANGED <<proto, target, rest, heard, proxy>>

Flush ==
  /\ pc = "flush"
  /\ heard' = heard \o written /\ written' = <<>>
  /\ pc' = then
  /\ UNCHANGED <<proto, target, then, rest, proxy>>

\* (were the outcome of a request, or of the authentication, not looked at)
AnyCode(b) == TRUE

IsGrant(b) == b = 0
IsAuthenticated(b) == b = 0

\* Where reading the byte b leads.
After4(b) ==
  CASE pc = "null" /\ b = 0 -> "code"
    [] pc = "code" /\ b = 90 -> "rest"
    [] OTHER -> "error"

After5(b) ==
  CASE pc = "version" /\ b = 5 -> "method"
    [] pc = "method" /\ b = 0 -> "request"
    [] pc = "method" /\ b = 2 -> "auth"
    [] pc = "auth version" /\ b = 1 -> "auth status"
    [] pc = "auth status" /\ IsAuthenticated(b) -> "request"
    [] pc = "reply version" /\ b = 5 -> "reply code"
    [] pc = "reply code" /\ IsGrant(b) -> "reply reserved"
    [] pc = "reply reserved" /\ b = 0 -> "reply type"
    [] pc = "reply type" /\ b = 3 -> "reply length"
    [] pc = "reply type" /\ b \in {1, 4} -> "rest"
    [] pc = "reply length" -> "rest"
    [] OTHER -> "error"

After(b) == IF proto = "socks4" THEN After4(b) ELSE After5(b)

\* (were a name's length taken to count the port)
RestWithoutPort(b) ==
  CASE pc = "reply type" -> IF b = 1 THEN 6 ELSE 18
    [] pc = "reply length" -> b
    [] pc = "code" -> 6

\* What follows that byte, of a reply that grants: an address and a port.
Rest(b) ==
  CASE pc = "reply type" -> IF b = 1 THEN 4 + 2 ELSE 16 + 2
    [] pc = "reply length" -> b + 2
    [] pc = "code" -> 2 + 4

Reading ==
  {"version", "method", "auth version", "auth status", "reply version", "reply code",
   "reply reserved", "reply type", "reply length", "null", "code"}

ReadByte ==
  /\ pc \in Reading /\ inbox # <<>>
  /\ pc' = After(Head(inbox))
  /\ rest' = IF pc' = "rest" THEN Rest(Head(inbox)) ELSE 0
  /\ inbox' = Tail(inbox)
  /\ UNCHANGED <<proto, target, then, written, heard, said, data, gone>>

ReadRest ==
  /\ pc = "rest" /\ Len(inbox) >= rest
  /\ pc' = "done" /\ rest' = 0
  /\ inbox' = SubSeq(inbox, rest + 1, Len(inbox))
  /\ UNCHANGED <<proto, target, then, written, heard, said, data, gone>>

\* The connection is closed: a read that cannot be satisfied is an error, a
\* write or a flush may be one.
Broken ==
  /\ gone
  /\ \/ pc \in Reading /\ inbox = <<>>
     \/ pc = "rest" /\ Len(inbox) < rest
     \/ pc \in {"flush", "auth", "request"}
  /\ Fail
  /\ UNCHANGED <<proto, target, rest, heard, proxy>>

----------------------------------------------------------------------------
(***************************************************************************)
(* The transport and the proxy.                                            *)
(***************************************************************************)
\* What is written may arrive before it is flushed.
Trickle ==
  /\ pc = "flush" /\ written # <<>>
  /\ heard' = Append(heard, Head(written)) /\ written' = Tail(written)
  /\ UNCHANGED <<proto, target, pc, then, rest, proxy>>

Fill(n) == [i \in 1 .. n |-> 0]

Grants ==
  IF proto = "socks4" THEN {<<0, 90>> \o Fill(6)}
  ELSE {<<5, 0, 0, 1>> \o Fill(6), <<5, 0, 0, 4>> \o Fill(18)}
         \cup {<<5, 0, 0, 3, n>> \o Fill(n + 2) : n \in {0, 2}}

Replies(m) ==
  CASE m.msg = "greeting" -> {<<5, 0>>, <<5, 2>>, <<5, 255>>, <<4, 0>>}
    [] m.msg = "auth" -> {<<1, 0>>, <<1, 1>>, <<5, 0>>}
    [] m.msg = "connect" ->
         Grants \cup
           (IF proto = "socks4" THEN {<<0, 91>> \o Fill(6), <<4, 90>> \o Fill(6)}
            ELSE {<<5, 1, 0, 1>> \o Fill(6), <<4, 0, 0, 1>> \o Fill(6),
                  <<5, 0, 1, 1>> \o Fill(6), <<5, 0, 0, 2>> \o Fill(6)})

Granted == said # <<>> /\ said[Len(said)] \in Grants

Answer ==
  /\ ~gone /\ Len(said) < Len(heard)
  /\ \E reply \in Replies(heard[Len(said) + 1]) :
       said' = Append(said, reply) /\ inbox' = inbox \o reply
  /\ UNCHANGED <<proto, target, client, heard, data, gone>>

DataByte == 7

SendData ==
  /\ ~gone /\ Granted /\ data < MaxData
  /\ inbox' = Append(inbox, DataByte) /\ data' = data + 1
  /\ UNCHANGED <<proto, target, client, heard, said, gone>>

Leave ==
  /\ ~gone
  /\ gone' = TRUE
  /\ UNCHANGED <<proto, target, client, heard, inbox, said, data>>

Next ==
  \/ Begin \/ Authenticate \/ SendRequest \/ Flush \/ ReadByte \/ ReadRest \/ Broken
  \/ Trickle \/ Answer \/ SendData \/ Leave

Spec == Init /\ [][Next]_vars

\* Fairness: connect goes on whenever it can.  The proxy need not do anything.
FairSpec ==
  Spec /\ WF_vars(Begin \/ Authenticate \/ SendRequest \/ Flush \/ ReadByte \/ ReadRest \/ Broken)

----------------------------------------------------------------------------
Message ==
  [msg : {"greeting", "auth", "connect"}, field : {"none", "v4", "v6", "name"},
   len : 0 .. 255, host : Targets]

TypeOK ==
  /\ proto \in {"socks4", "socks5"} /\ target \in Targets
  /\ {pc, then} \subseteq Reading \cup {"begin", "auth", "request", "flush", "rest", "done", "error"}
  /\ rest \in 0 .. 257
  /\ written \in Seq(Message) /\ heard \in Seq(Message)
  /\ inbox \in Seq(0 .. 255) /\ said \in Seq(Seq(0 .. 255))
  /\ data \in 0 .. MaxData /\ gone \in BOOLEAN

\* How a proxy reads a request.
Means(m) ==
  /\ proto = "socks4" => ~m.host.odd
  /\ proto = "socks5" /\ m.field = "name" => m.len = m.host.size

\* No target, however odd or long, makes the proxy connect to something else:
\* either connect fails or the request says what it should.
RequestMeansTarget ==
  \A i \in 1 .. Len(heard) : heard[i].msg = "connect" => Means(heard[i])

\* The reply is read to its end and not a byte further, whatever address the
\* proxy puts into it and however soon the tunnel's bytes follow it.
TunnelStartsClean ==
  /\ TypeOK
  /\ pc = "done" => inbox = [i \in 1 .. data |-> DataByte]

\* A connection is returned only if the proxy has granted this very request;
\* the password is sent only to a proxy that chose it, and a request follows
\* only a choice of no password or an accepted one.
OnlyIfGranted ==
  LET all == heard \o written
  IN  /\ pc = "done" => Granted /\ heard[Len(said)].msg = "connect"
      /\ proto = "socks5" =>
           \A i \in 2 .. Len(all) :
             \/ all[i].msg = "auth" /\ said[i - 1] = <<5, 2>>
             \/ all[i].msg = "connect" /\ said[i - 1] \in {<<5, 0>>, <<1, 0>>}

\* The client never waits for an answer to what it has not sent: if the proxy
\* answers everything it has received, or leaves, the handshake ends.
HandshakeEnds ==
  []<>(gone \/ Len(said) = Len(heard)) => <>(pc \in {"done", "error"})
=============================================================================
