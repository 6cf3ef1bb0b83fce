----------------------------- MODULE ProxyChain -----------------------------
(***************************************************************************)
(* The chain of outbounds: the stack main builds from the configuration,   *)
(* and how connect, http_proxy, happy_eyeballs and send_request consume an *)
(* iterator over it, for one request that comes in and the DoH requests it *)
(* causes.                                                                 *)
(*                                                                         *)
(* A job is a request: the one that came in, or the DoH request of one of  *)
(* its two racing branches.  A walk is one call of connect on the stack:   *)
(* down to the TCP connection, and up again through the outbounds, each of *)
(* which does its part on the connection it got.  "trace" is what was done *)
(* on the connection, in order; a walk ends in failure anywhere.           *)
(*                                                                         *)
(* "socks" is socks4 or socks5: they differ in their dialogue only (see    *)
(* SocksHandshake).  Which address a query yields and how select! ends the *)
(* race is in HappyEyeballs; here a branch wins, loses or fails.           *)
(***************************************************************************)
EXTENDS Naturals, Sequences, SequencesExt

CONSTANTS
  MaxProxies,  \* bound: upstream proxies
  MaxTls       \* bound: TLS layers around one of them

ASSUME ChainAssumption == MaxProxies \in Nat /\ MaxTls \in Nat

VARIABLES
  config,   \* what main read
  request,  \* what came in
  job,      \* each job: [pc, pos, trace], pos counting the stack from the bottom
  walk      \* each walk: [pc, pos, frames, addr, trace]

vars == <<config, request, job, walk>>

----------------------------------------------------------------------------
Families == {"v6", "v4"}
Jobs == {"main"} \cup Families   \* a DoH request is named by the branch it serves
Walks == Jobs \X ({"plain"} \cup Families)

Chains == UNION {[1 .. n -> [main : {"http", "socks"}, tls : 0 .. MaxTls]] : n \in 0 .. MaxProxies}
Configs == [proxies : Chains, fragment : {"unset", "0", "1", "2"}, doh : BOOLEAN, fake : BOOLEAN]
Requests ==
  [kind : {"connect", "http", "https"}, literal : BOOLEAN] \cup {[kind |-> "tproxy", literal |-> TRUE]}

\* Whom an address names.
Server(k) == <<"proxy", k>>
Target == <<"target", 0>>
Address(f) == <<f, 0>>
DohServer == <<"doh", 0>>
FakeHost == <<"fake", 0>>

Element(kind, k) == [kind |-> kind, at |-> k]

\* (were a proxy's layers put above it)
LayersAbove(k) ==
  <<Element(config.proxies[k].main, k)>> \o [i \in 1 .. config.proxies[k].tls |-> Element("tls", k)]

\* What main pushes for a proxy: its layers, then the proxy itself.
Pushed(k) ==
  [i \in 1 .. config.proxies[k].tls |-> Element("tls", k)] \o <<Element(config.proxies[k].main, k)>>

FragmentsAll == config.fragment \in {"unset", "2"}

Stack ==
  <<Element("raw", 0)>>
    \o FlattenSeq([k \in 1 .. Len(config.proxies) |-> Pushed(k)])
    \o (IF FragmentsAll THEN <<Element("fragment", 0)>> ELSE <<>>)

\* The stack a job uses: send_request adds the layer to a DoH request that wants
\* one and does not have it.
StackOf(j) ==
  IF j # "main" /\ config.fragment = "1" /\ ~FragmentsAll
  THEN Append(Stack, Element("fragment", 0)) ELSE Stack

Scheme(j) == IF j = "main" THEN request.kind ELSE "https"

\* (were TLS spoken with whom the chain connects to)
FakeHostToo(j) == IF j = "main" THEN Target ELSE IF config.fake THEN FakeHost ELSE DohServer

\* The host a request is for, and the one the chain is asked to connect to.
Host(j) == IF j = "main" THEN Target ELSE DohServer
Dest(j) == IF j = "main" THEN Target ELSE IF config.fake THEN FakeHost ELSE DohServer

NoJob == [pc |-> "idle", pos |-> 1, trace |-> <<>>]
NoWalk == [pc |-> "idle", pos |-> 1, frames |-> <<>>, addr |-> Target, trace |-> <<>>]

Init ==
  /\ config \in Configs /\ (config.fake => config.doh)
  /\ request \in Requests
  /\ job = [j \in Jobs |-> NoJob]
  /\ walk = [w \in Walks |-> NoWalk]

----------------------------------------------------------------------------
\* connect is called on the element at pos.
Walking(pos, addr) == [NoWalk EXCEPT !.pc = "down", !.pos = pos, !.addr = addr]
Sending(j) == [NoJob EXCEPT !.pc = "descend", !.pos = Len(StackOf(j))]

Races(j) == j = "main" /\ request.kind # "tproxy" /\ config.doh /\ ~request.literal

\* happy_eyeballs, or connect where it is not called, on the element at pos.
Connect(j, pos) ==
  IF Races(j)
  THEN /\ job' = [i \in Jobs |-> IF i = j THEN [job[j] EXCEPT !.pc = "racing", !.pos = pos] ELSE Sending(i)]
       /\ walk' = [w \in Walks |-> IF w \in {j} \X Families THEN [NoWalk EXCEPT !.pc = "resolving"]
                                   ELSE walk[w]]
  ELSE /\ job' = [job EXCEPT ![j].pc = "connecting", ![j].pos = pos]
       /\ walk' = [walk EXCEPT ![<<j, "plain">>] = Walking(pos, Dest(j))]

\* CONNECT and redirected connections use the top of the stack at once.
ArriveTunnel ==
  /\ job["main"].pc = "idle" /\ request.kind \in {"connect", "tproxy"}
  /\ Connect("main", Len(Stack))
  /\ UNCHANGED <<config, request>>

\* Other requests are sent by http_proxy.
ArriveRequest ==
  /\ job["main"].pc = "idle" /\ request.kind \in {"http", "https"}
  /\ job' = [job EXCEPT !["main"] = Sending("main")]
  /\ UNCHANGED <<config, request, walk>>

\* http_proxy of the element at pos: the fragment layer has nothing to do with
\* plain HTTP, a proxy for HTTP does it itself, and others connect.
PassesOn(e, scheme) == e.kind = "fragment" /\ scheme = "http"
Forwards(e, scheme) == e.kind = "http" /\ scheme = "http"

Descend(j) ==
  /\ job[j].pc = "descend"
  /\ LET pos == job[j].pos
         e == StackOf(j)[pos]
     IN  \/ /\ PassesOn(e, Scheme(j))
            /\ job' = [job EXCEPT ![j].pos = pos - 1]
            /\ UNCHANGED walk
         \/ /\ Forwards(e, Scheme(j))
            /\ job' = [job EXCEPT ![j].pc = "forwarding"]
            /\ walk' = [walk EXCEPT ![<<j, "plain">>] = Walking(pos - 1, Server(e.at))]
         \/ /\ ~PassesOn(e, Scheme(j)) /\ ~Forwards(e, Scheme(j))
            /\ Connect(j, pos)
  /\ UNCHANGED <<config, request>>

\* dns_resolve of a branch returns: an address, none, or an error.  Each branch
\* walks the stack with an iterator of its own.
Resolved(f) ==
  /\ job["main"].pc = "racing" /\ walk[<<"main", f>>].pc = "resolving"
  /\ job[f].pc \in {"done", "failed"}
  /\ \E branch \in {[NoWalk EXCEPT !.pc = "failed"]}
                     \cup (IF job[f].pc = "done"
                           THEN {Walking(job["main"].pos, Address(f))} ELSE {}) :
       walk' = [walk EXCEPT ![<<"main", f>>] = branch, ![<<f, "plain">>] = NoWalk]
  /\ job' = [job EXCEPT ![f] = NoJob]
  /\ UNCHANGED <<config, request>>

FallBack ==
  /\ job["main"].pc = "racing"
  /\ \A f \in Families : walk[<<"main", f>>].pc = "failed"
  /\ job' = [job EXCEPT !["main"].pc = "connecting"]
  /\ walk' = [walk EXCEPT ![<<"main", "plain">>] = Walking(job["main"].pos, Target)]
  /\ UNCHANGED <<config, request>>

----------------------------------------------------------------------------
Frame(w) == [element |-> StackOf(w[1])[walk[w].pos], addr |-> walk[w].addr]

\* At the bottom the TCP connection is made.
Dial(w) ==
  /\ walk[w].pc = "down" /\ Frame(w).element.kind = "raw"
  /\ walk' = [walk EXCEPT ![w].pc = "up",
                          ![w].trace = <<[did |-> "dial", at |-> 0, addr |-> walk[w].addr]>>]
  /\ UNCHANGED <<config, request, job>>

\* connect calls connect of the element below: a proxy asks it for itself, a
\* layer for the address it was asked for.
AskedBelow(f) ==
  IF f.element.kind \in {"http", "socks"} THEN Server(f.element.at) ELSE f.addr

Down(w) ==
  /\ walk[w].pc = "down" /\ Frame(w).element.kind # "raw"
  /\ walk' = [walk EXCEPT ![w].pos = @ - 1, ![w].frames = Append(@, Frame(w)),
                          ![w].addr = AskedBelow(Frame(w))]
  /\ UNCHANGED <<config, request, job>>

\* What the outbound of a frame does on its connection.
Deed(f) ==
  CASE f.element.kind \in {"http", "socks"} -> [did |-> "ask", at |-> f.element.at, addr |-> f.addr]
    [] f.element.kind = "tls" -> [did |-> "tls", at |-> 0, addr |-> f.addr]
    [] f.element.kind = "fragment" -> [did |-> "fragment", at |-> 0, addr |-> f.addr]

\* The connection comes back up to the last frame.
Up(w) ==
  /\ walk[w].pc = "up" /\ walk[w].frames # <<>>
  /\ walk' = [walk EXCEPT ![w].frames = Front(@), ![w].trace = Append(@, Deed(Last(walk[w].frames)))]
  /\ UNCHANGED <<config, request, job>>

\* The TCP connection is refused, or a proxy or a TLS peer does not agree.
WalkFails(w) ==
  /\ \/ walk[w].pc = "down" /\ Frame(w).element.kind = "raw"
     \/ walk[w].pc = "up" /\ walk[w].frames # <<>>
  /\ walk' = [walk EXCEPT ![w] = [NoWalk EXCEPT !.pc = "failed"]]
  /\ UNCHANGED <<config, request, job>>

\* connect returns to the job.  The branch that loses is dropped with its query.
Return(j, b) ==
  /\ walk[<<j, b>>].pc = "up" /\ walk[<<j, b>>].frames = <<>>
  /\ walk' = [w \in Walks |->
       CASE w = <<j, b>> -> [walk[w] EXCEPT !.pc = "open"]
         [] w # <<j, b>> /\ b \in Families /\ walk[w].pc \notin {"idle", "open", "failed"} ->
              [NoWalk EXCEPT !.pc = "dropped"]
         [] OTHER -> walk[w]]
  /\ job' = [i \in Jobs |->
       CASE i = j -> [job[j] EXCEPT !.pc = IF @ = "forwarding" THEN "forward" ELSE "connected",
                                    !.trace = walk[<<j, b>>].trace]
         [] i # j /\ b \in Families /\ job[i].pc \notin {"idle", "done", "failed"} ->
              [NoJob EXCEPT !.pc = "dropped"]
         [] OTHER -> job[i]]
  /\ UNCHANGED <<config, request>>

\* The job's end.  A tunnel is ready; a request goes to its host, over TLS if it
\* asks for that; or to the proxy for HTTP, which is told the host.
Sent(j, did, at) == [did |-> did, at |-> at, addr |-> Host(j)]

LastDeeds(j) ==
  CASE Scheme(j) = "http" -> <<Sent(j, "send", 0)>>
    [] Scheme(j) = "https" -> <<Sent(j, "tls", 0), Sent(j, "send", 0)>>
    [] OTHER -> <<>>

Finish(j) ==
  /\ job[j].pc = "connected"
  /\ job' = [job EXCEPT ![j].pc = "done", ![j].trace = @ \o LastDeeds(j)]
  /\ UNCHANGED <<config, request, walk>>

Forward(j) ==
  /\ job[j].pc = "forward"
  /\ job' = [job EXCEPT ![j].pc = "done",
                        ![j].trace = Append(@, Sent(j, "forward", Len(config.proxies)))]
  /\ UNCHANGED <<config, request, walk>>

\* No connection, no agreement with the host, or no response.
JobFails(j) ==
  /\ \/ job[j].pc \in {"connected", "forward"} /\ Scheme(j) \in {"http", "https"}
     \/ job[j].pc \in {"connecting", "forwarding"} /\ walk[<<j, "plain">>].pc = "failed"
  /\ job' = [job EXCEPT ![j].pc = "failed"]
  /\ UNCHANGED <<config, request, walk>>

Next ==
  \/ ArriveTunnel \/ ArriveRequest \/ FallBack
  \/ \E j \in Jobs : Descend(j) \/ Finish(j) \/ Forward(j) \/ JobFails(j)
  \/ \E f \in Families : Resolved(f)
  \/ \E w \in Walks : Dial(w) \/ Down(w) \/ Up(w) \/ WalkFails(w)
  \/ \E j \in Jobs, b \in {"plain"} \cup Families : Return(j, b)

Spec == Init /\ [][Next]_vars

----------------------------------------------------------------------------
Deeds ==
  [did : {"dial", "tls", "ask", "fragment", "send", "forward"}, at : 0 .. MaxProxies,
   addr : ({"proxy"} \X (1 .. MaxProxies)) \cup {Target, DohServer, FakeHost} \cup {Address(f) : f \in Families}]

\* In particular no iterator is asked for more than it has: every position is
\* one of the stack.
TypeOK ==
  /\ config \in Configs /\ request \in Requests
  /\ \A j \in Jobs :
       /\ job[j].pc \in {"idle", "descend", "racing", "connecting", "forwarding", "connected",
                         "forward", "done", "failed", "dropped"}
       /\ job[j].pos \in 1 .. Len(StackOf(j)) /\ job[j].trace \in Seq(Deeds)
  /\ \A w \in Walks :
       /\ walk[w].pc \in {"idle", "resolving", "down", "up", "open", "failed", "dropped"}
       /\ walk[w].pos \in 1 .. Len(StackOf(w[1])) /\ walk[w].trace \in Seq(Deeds)

\* What the configuration promises of a connection through the first n proxies
\* to dest: each is dialled or asked for by the one before it, and its layers
\* are around all that is said to it.
Layers(k) == [i \in 1 .. config.proxies[k].tls |-> [did |-> "tls", at |-> 0, addr |-> Server(k)]]
Hop(k, n, dest) == IF k <= n THEN Server(k) ELSE dest

Route(n, dest) ==
  <<[did |-> "dial", at |-> 0, addr |-> Hop(1, n, dest)]>>
    \o FlattenSeq([k \in 1 .. n |->
         Layers(k) \o <<[did |-> "ask", at |-> k, addr |-> Hop(k + 1, n, dest)]>>])

\* config_example.json5, lines 24 to 26: 0 for no request, 1 for DoH requests
\* only, 2 (the default) for all; plain HTTP has no ClientHello to fragment.
FragmentWanted(j) ==
  CASE config.fragment = "0" -> FALSE
    [] config.fragment = "1" -> j # "main"
    [] config.fragment \in {"2", "unset"} -> TRUE

Fragmented(j, dest) ==
  IF FragmentWanted(j) /\ Scheme(j) # "http" THEN <<[did |-> "fragment", at |-> 0, addr |-> dest]>> ELSE <<>>

\* The destination of a walk.
WalkDest(w) == IF w[2] = "plain" THEN Dest(w[1]) ELSE Address(w[2])

Forwarding(j) ==
  Scheme(j) = "http" /\ config.proxies # <<>> /\ Last(config.proxies).main = "http"

WalkRoute(w) ==
  LET n == Len(config.proxies)
  IN  IF Forwarding(w[1]) THEN Route(n - 1, Server(n)) \o Layers(n)
      ELSE Route(n, WalkDest(w)) \o Fragmented(w[1], WalkDest(w))

\* Whatever is configured, whichever inbound asks and whichever branches race
\* over the stack, a connection passes every proxy once and in order, to the
\* destination it is for, and the ClientHello that follows is fragmented exactly
\* if the configuration says so.
HopsInOrder ==
  /\ TypeOK
  /\ \A w \in Walks :
       /\ IsPrefix(walk[w].trace, WalkRoute(w))
       /\ walk[w].pc = "open" => walk[w].trace = WalkRoute(w)

\* The host a request is for, whatever the chain was asked for, and what the
\* chain may have been asked for: that host, the fake one in place of the DoH
\* server, or an address the name resolved to.
RealHost(j) == IF j = "main" THEN Target ELSE DohServer

AskedFor(j) ==
  CASE j # "main" -> {IF config.fake THEN FakeHost ELSE DohServer}
    [] j = "main" -> {Target} \cup {Address(f) : f \in {g \in Families : config.doh /\ ~request.literal}}

\* What is said behind the chain: nothing yet in a tunnel, the request itself to
\* the last proxy if that is one for HTTP, and else to the host.
Said(j, did, at) == [did |-> did, at |-> at, addr |-> RealHost(j)]

LastWords(j) ==
  CASE Forwarding(j) -> <<Said(j, "forward", Len(config.proxies))>>
    [] Scheme(j) = "http" /\ ~Forwarding(j) -> <<Said(j, "send", 0)>>
    [] Scheme(j) = "https" -> <<Said(j, "tls", 0), Said(j, "send", 0)>>
    [] Scheme(j) \notin {"http", "https"} -> <<>>

\* A request that is answered went the whole way, whichever branch won and
\* whichever of the two was dropped with its DoH request: every proxy and every
\* layer of the configuration, then the last hop to what may be asked for, the
\* fragments if the request wants them, and only then TLS and the request itself,
\* both with the real host.
RequestArrives ==
  \A j \in Jobs :
    job[j].pc = "done" =>
      LET n == Len(config.proxies)
      IN  \/ /\ Forwarding(j)
             /\ job[j].trace = Route(n - 1, Server(n)) \o Layers(n) \o LastWords(j)
          \/ /\ ~Forwarding(j)
             /\ \E dest \in AskedFor(j) :
                  job[j].trace = Route(n, dest) \o Fragmented(j, dest) \o LastWords(j)
=============================================================================
