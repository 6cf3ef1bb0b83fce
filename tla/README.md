# A verification of local_proxy_rs

TLA+ models of local_proxy_rs, the TLC runs that check them on small instances,
and proofs, checked by TLAPS, that hold for every instance. Paths below are
relative to `src/`; `LP` stands for `local_proxy/src`.

## The system

local_proxy listens on TCP (HTTP proxy, transparent proxy) and UDP (DNS), and
carries everything over a chain of upstream proxies. Names are resolved over
DoH, and TLS ClientHellos are sent in fragments. One process, tokio tasks, one
global `ProxyState` (configuration, stack of outbounds, DoH answer cache).

| Component | Source | State | Operations |
|---|---|---|---|
| Fragment layer | `LP/outbound/layer/fragment.rs` | per connection: enum `State` with a buffer and a pointer, the current chunk, a timer | `poll_read`, `poll_write`, `poll_flush`, `poll_shutdown` |
| DoH query and cache | `LP/utils/dns.rs`, `LP/main.rs` | the TTL cache behind an `RwLock`; the local variables of each call | `doh_query` |
| DNS relay | `LP/inbound/dns.rs` | per socket: the loop and a channel of 1024 replies; a task per datagram | `start`, `run` |
| Address racing | `LP/outbound/mod.rs`, `LP/utils/addr.rs` | per call: two branches, two flags | `happy_eyeballs`, `dns_resolve` |
| Proxy chain, SOCKS handshakes | `LP/outbound/{http,socks4,socks5,raw}.rs`, `LP/outbound/layer/` | the iterator over the stack, the handshake in progress | `connect`, `http_proxy`, `wrap` |
| HTTP inbound | `LP/inbound/http/`, `LP/outbound/mod.rs` | a task per client, one per connection to a server, one per tunnel | `handle`, CONNECT, `send_request`, upgrade |
| Transparent inbound | `LP/inbound/tproxy.rs`, `tproxy_tokio/` | a task per connection; sockets of the operating system | accept, original destination |
| Start-up | `LP/main.rs`, `LP/config.rs` | the configuration as completed, the stack | asks for credentials, builds the stack, joins the listeners |
| Addresses, URIs | `LP/utils/{addr,uri_parse}.rs` | none | parse, format |
| Body wrapper | `LP/utils/http.rs` | none | adapts body types |

How they interact:

- An inbound gets a connection from the last outbound of the stack; each
  outbound gets its own connection from the one before it (`ProxyStack`), and
  layers (TLS, fragments) wrap what they get.
- For a name, the last step is a race of two branches, each of which resolves
  the name with `doh_query` and connects to the address.
- `doh_query` is itself an HTTP request through the same chain, made with
  `doh = false` so that it does not resolve its own server over DoH.
- The relay and all races share the cache, keyed by the bytes of the query with
  its id replaced by 0xabcd.
- An accepted connection is copied in both directions (`copy_bidirectional`);
  these two directions poll the fragment layer in an order nobody controls.

What is hard here, by component, and what makes the component correct:

- *Fragment layer*: polls end at any transport call and resume from the state;
  reading drives the timer and the flush; bytes are held back. Correct if every
  byte arrives once and in order, the ClientHello only in fragments, and nothing
  is held for ever.
- *DoH and cache*: overlapping queries, eviction, expiry, ids patched in and
  out. Correct if what is cached answers its key and what is returned is fresh
  and carries the caller's id.
- *Relay*: tasks and the loop meet in a bounded channel. Correct if each
  reply is the right one for its client, at most one, and is not stuck.
- *Racing*: `select!` drops a branch at any await. Correct if one
  connection is left, the name leaves only as a last resort and the address
  belongs to the name.
- *Chain, inbounds, start-up, addresses*: handshakes with a peer that may answer
  anything; which stack a configuration builds; when the process ends; parsing
  what was formatted.

`PROJECT.json` lists the hazards at their lines with the properties for each.

## Modules

### FragmentLayer, Tunnel, BytePipe, FragmentPipe

The write side of `FragmentLayer<RW>`. One action is one call of the wrapped
transport, or the code between two: `CallWrite`, `CallFlush`, `CallRead` and
`CallShutdown` enter a poll; `NewChunk`, `FlushByte`, `WriteByte`, `EndMessage`,
`RawWrite`, `EndRaw`, `LastFlush` are `poll_flush`; `Absorb` and `WriteThrough`
the body of `poll_write`; `TransportPending` and `TransportError` end a poll at any
call of the transport. Polls never overlap (they take `&mut self`) but follow each
other in any order.

Data: the i-th byte the caller writes is `Src(i)`; a length byte the layer makes is
`LenByte(v)`. The buffer is always a prefix of the stream, so its length stands
for it. Only three facts about the first record matter to the code: is its type
0x16, is byte 6 0x01, and its length.

`Tunnel` is the caller that `FragmentLayer` leaves open: `copy_bidirectional`, one
task that copies in both directions between a client and the layer. `UpRead` ..
`UpClose` are the loop towards the server, `DownRead` .. `DownClose` the one towards
the client; `InLayer`, `WriteReturns`, `FlushReturns` and `Waits` are the steps of
the layer with what the task makes of the end of a poll. The order in which the two
loops are polled is left open, the peers send and close as they like, and `Break` is
any failure outside of the layer. Every step of a tunnel that touches the layer is an
action of `FragmentLayer`, so that a tunnel is one of the behaviours of the layer by
construction. Reading takes all that has arrived; a shorter read is the same as bytes
that arrive later.

`BytePipe` is the abstract specification: what a stream layer owes both ends.
`FragmentPipe` shows that the layer implements it, reading the payload off the
wire as a TLS peer does: `Payload` is the k-th payload byte on the wire for each k.
`BytePipe!SafeSpec` is what may happen, `BytePipe!Spec` adds that what is owed is
delivered.

### DohQuery, DnsRelay, HappyEyeballs, SharedCache

`DohQuery` is the procedure `doh_query` with the cache: `Lookup`, `Answer`,
`AnswerFails`, `Store` are the pieces between two awaits. (The lock of the cache is
never held across one, so an access is one step.) The crate `ttl_cache` is modelled
from how it is used: an entry lives for its lifetime, a new one replaces the old
one of its key, and the oldest goes when there are too many.

Time is a clock in units of the order of the cache's lifetime; no unit passes
between an answer's arrival and its way into the cache, which is code
without waiting (but for the lock).

`DnsRelay` extends it with the loop, its tasks and the channel; a caller of `DohQuery`
is a task. `HappyEyeballs` instantiates it with a caller for each branch: `Race` starts
both, `Resolve` ends `dns_resolve`, `ConnectFails` and `Win` end `connect`;
`BranchFails` has the `else` of `select!`; `Abandon` is the caller dropping the whole
call. A socket stands for a connection through the whole chain.

`SharedCache` composes the two over one `cache` and one clock. It extends `DnsRelay`, so
that what is proved of the relay can be cited in it, and instantiates `HappyEyeballs`;
`RelayStep` leaves the races where they are and `RacesStep` the relay. `MCSharedCache` gives
it its questions. A client of the relay may ask for the
very question of a race, so that either finds what the other stored. The properties
of the races are stated in `HappyEyeballs` and checked here.

### SocksHandshake

`connect` of `Socks4Proxy` and `Socks5Proxy` against a proxy that answers each
message with a good, a refusing or a malformed reply, in any pieces, may send
bytes of the tunnel right behind a grant and may leave at any time. The client's
messages are records (`Say` writes one, `Flush` delivers it); the replies are
bytes, because how many of them are read is the point: `After` says where a byte
leads, `Rest` how much of the reply follows it. A target is reduced to its kind,
the size of its encoding and whether SOCKS4 has no way to say it (`odd`). The
handshake of the HTTP proxy is hyper's and is one step of `ProxyChain`.

### ProxyChain

The stack `main` builds from a configuration, and its use by one request and the
DoH requests this causes. Every configuration within the bounds is an initial
state. A *job* is a request: the one that came in (by CONNECT, as plain HTTP or HTTPS,
or by redirection) or the DoH request of a racing branch. A *walk* is one call of
`connect`: `Down` the stack to `Dial`, and `Up` again while each outbound does its
part, noted in `trace`. `Descend` is `http_proxy`, `Resolved` and `FallBack` are the
race seen from the stack, `Forward` and `Finish` the end of `send_request`. Any step
of a walk may fail. `HopsInOrder` is about each connection while it is made;
`RequestArrives` is about the whole trace of a request that is answered: the route through
every proxy and layer, then the fragments, then TLS and the request (`LastWords`).

### Addresses, HttpRequest, MCHttpRequest

`Addresses` has the parsers and printers of `utils/addr.rs` over texts cut into
tokens where the code looks (brackets, colons, at signs). A parser is the set of its
results: one, or none where it fails. The reference they are checked against is the
grammar of addresses (`Hosts`, `Suffixes`), which lists each legal text with its
meaning. `MCHttpRequest` takes as `Names` all of these and two that are not legal, as
`Userinfos` texts with each of the separators in them, plain and escaped, an empty one and
two with an escape that is no UTF-8, and as `Words` the tokens in both.

`HttpRequest` follows one request from the client to the connection: `SendRequest` is
`send_request` with `ParsedUri`, the credentials and the headers; `Forward` is
`HttpProxy::http_proxy`, `Exchange` is `http_proxy_`, which parses the `host` header that
`SendRequest` printed; `Tunnel` is the address of CONNECT and of a redirected connection.
`ParsedUri` splits the userinfo before it decodes each half (`UserAndPassword`,
`Credentials`), and fails, with the whole request, where one is no UTF-8: `Decoded` is the set
of results. A URI may have no userinfo or an empty one, which are different requests. The
header made of the two shows no more than its text, which stands for its base64
(`Basic`). The path and the query of a URI pass through and are left out.

### HttpInbound

One client of the HTTP inbound over several requests: `Request` .. `Switched` are the
call that handles a request, `Written`, `BodyBreaks` and `Dropped` what hyper does with
its outcome, `Copy`, `GiveUp` and `CopyEnds` the task that `connect::run` and
`proxy_upgrade` spawn. `holder` says who keeps a connection to a server open. The task
that exchanges messages on one is spawned (`outbound/mod.rs:126`) and nobody waits for it:
`ExchangeEnds` may come at any time, also long after the response, so that the client's next
request may open a second connection before the first is closed.

### Startup, MCStartup

`main`: `ReadUser` and `ReadPassword` are the dialogue at the terminal, `Build` the
checks of the proxies' `new` and the pushes onto the stack, `Bind`, `Returns` and
`Sleep` the `start` functions of the inbounds, in the order `join!` polls them, and `End`
the return of `main`. Configurations and the addresses other programs have
taken are initial states. `Configs`, of which the bounds make a finite set, are among
`Files`: all the files `config.rs` accepts, of any length (`StartupAssumption`).

### Redirection

`start` and `run` of the transparent inbound over `tproxy_tokio`, for every operating
system the crate is built for: `Parse`, `BindRedir`, and `Run`, which asks for the
destination. `from_str`, `bind_redir` and `destination_addr` each match on the type in
arms of their own, under `cfg`s of their own: `ParseCfg`, `BindCfg` and `DestinationCfg` say
on which systems each has an arm, and `OfferedWorks` that they agree. What `getsockopt`,
`getsockname` and `DIOCNATLOOK` answer about a connection is external. `Fails` is an error
return of any other call (`set_nodelay`, `peer_addr`, the two socket calls themselves, the
connection to the destination), after which the connection is closed; `FailsOnlyWithPf` is
about what goes wrong without such an error. `ForcePf` is the `Lazy` around `/dev/pf`: a
failed first use poisons it. A connection whose destination is the listener comes back as
another one.

MC modules define the values of CONSTANTs that a cfg cannot write. Where a definition
is followed or preceded by a variant introduced by "were ...", the variant is a
plausible mistake: every checked property is violated when one of them takes its
definition's place.

## Runs

| Run | Bounds | States | Shows |
|---|---|---|---|
| `FragmentPipe.cfg` | payload of 0..2 bytes, 9 bytes in all, whole writes, nothing behind the ClientHello | 19 thousand | `TypeOK`, `InOrder`, `NothingLost`, `OneByteInFlight`, `ImplementsPipe` |
| `FragmentHello.cfg` | payload of 0..1, 7 bytes | -- | `HelloOnlyInFragments` is violated |
| `Tunnel.cfg` | payload of 0..1, 6 bytes that arrive 3 at a time, 1 byte back, whole writes, trailing bytes | 74 thousand | `HelloFlushed`, `CloseIsLast`, `BytesArrive`, `EndsWithPeers` |
| `DnsRelay.cfg` | 2 datagrams, 2 clients, 2 ids, 2 questions, cache of 1, channel of 1, 1 tick | 70 thousand | `CacheSound`, `RightReply`, `OneReply`, `AnswersLeave` |
| `SharedCache.cfg` | 1 datagram and 1 racing connection, 1 name, 1 literal, cache of 1, 1 tick | 229 thousand | `RelayUnmixed`, `OneConnection`, `NameKeptInside`, `RightAddress`, `WarnedWhenDohFailed`, `CallsEnd` |
| `SocksHandshake.cfg` | both protocols, names of 1, 255 and 256 bytes, 2 bytes of the tunnel | 4 thousand | `RequestMeansTarget`, `OnlyIfGranted`, `TunnelStartsClean`, `HandshakeEnds` |
| `ProxyChain.cfg` | 0..2 proxies with 0..2 TLS layers each, all values of `fragment`, with and without DoH and a fake host | 794 thousand | `HopsInOrder`, `RequestArrives` |
| `HttpRequest.cfg` | every legal and some illegal addresses, 4 schemes, credentials in each place, 10 forms of userinfo, 3 upstreams | 155 thousand | `RightServer`, `SecretsKept`, `FailsOnlyIf` |
| `HttpRequestIPv6.cfg` | the same | -- | `ServesIPv6` is violated |
| `HttpInbound.cfg` | 3 requests | 5 thousand | `ToldWhenOpen`, `CopiesAfterHttp`, `NoTunnelBehind`, `NoOrphan` |
| `Startup.cfg` | 1 upstream proxy with all credentials or 2 sound ones, or 0..2 listeners of each inbound | 98 thousand | `ConfiguredKept`, `StackComplete`, `ServesIfItCan` |
| `Redirection.cfg` | 5 systems, every type and family, 2 connections | 9 thousand | `OfferedWorks`, `RightDestination`, `FailsOnlyWithPf` |

Type invariants are checked too, `TypeOK` of `FragmentLayer` alone and those of the other
modules as conjuncts of a property named above (`HelloFlushed`, `RelayUnmixed`,
`OneConnection`, `TunnelStartsClean`, `HopsInOrder`, `RightServer`, `NoTunnelBehind`, `StackComplete`,
`FailsOnlyWithPf`), which is otherwise about a hazard.

Why the bounds are enough.

- *Layer*. A payload of two bytes is the least that needs two fragments, so that a
  chunk is resumed and followed by another; nine bytes leave two behind the record,
  one of them written in a call of its own. Short writes and trailing bytes are in
  `FragmentHello.cfg` and, for every bound, in the proofs.
- *Tunnel*. Six bytes are exactly the least ClientHello; they come in two pieces, so
  that the first is held back, and the timer, a flush, a close of either side and the
  other direction may come between the two. One byte back fills the buffer
  towards the client.
- *Relay and races*. Two tasks can overlap in every way two can: both miss, one
  stores between the other's call and its lookup, both wait for the one place in the
  channel. With a cache of one, the second question evicts the first and the second answer to
  one question replaces the first. With a lifetime of no unit, one tick expires
  an entry. In `SharedCache` three queries (a task's and two branches') meet in a cache
  of one entry.
- *Chain*. Two proxies have an order, and so have two layers around one
  of them; `http_proxy`, which looks at the last proxy only, then meets one that is
  alone, one that is last and one that is not.
- *Handshakes*. 255 and 256 are the two sides of what SOCKS5's length byte holds.
- *Requests*. The three functions that read an address distinguish a
  name, an IPv4 address and an IPv6 address, with brackets or without, with no port, an empty
  one, the port that goes without saying or another. Userinfo has a colon or none, a second
  one, escapes of a colon and of an at sign on either side of it, and bytes that do
  not decode in the user name or in the password.
- *Inbound*. Of three requests, the second has one before and one after it.
- *Start-up*. One proxy meets every credential and answer; two show the dialogue go
  on to the next and the order of the stack; two addresses let the second fail after the first was bound.
- *Redirection*. A second connection is the one that finds `/dev/pf` open or the
  `Lazy` poisoned, or the one that the first made to the listener itself.

`CHECK_DEADLOCK FALSE` is set everywhere because the system may stop there: a stream
is closed, all datagrams are used, a handshake or a request has ended, the
inbounds sleep.

Bounds that exist only for checking: `MaxStream` and `MaxRecord` (bytes), `MaxDown` and
`Pieces` (what peers send), `MaxTime` (the clock), `MaxProxies` and `MaxTls` (the
configuration), `NameSizes`, `MaxData`, `MaxRequests`, `MaxConns`, and the finite sets of
callers and connections (each is one call, never reused).

### Where the code and the documentation disagree

Two runs end in a counterexample:

- `FragmentHello.cfg`. `README.md:53` says that TLS ClientHellos are sent in
  fragments. `poll_flush` offers all of `buf.inner` in each iteration (`fragment.rs:204`).
  With bytes behind the ClientHello in the buffer, the fragments are followed by the
  whole ClientHello again. `InOrder` and `NothingLost` hold when neither this nor a
  short write of the raw buffer has happened (`Repeats`); the fragments
  themselves are always right.
- `HttpRequestIPv6.cfg`. `README.md:31` and `README.md:44` have connections to port 80 of
  IPv6 servers redirected to the HTTP inbound. `parse_host_header` splits `host` at its
  last colon (`addr.rs:25`), so that `[2001:db8::1]` is an error and the client gets 502.
  `FailsOnlyIf` says that this, and an empty port, are the only legal addresses
  that fail, unless the userinfo in front of them does not decode.

Met while modelling, without a run of their own:

- `README.md:55` says that `fragment` = 1 disables the fragmentation; a DoH request is
  fragmented with that value (`dns.rs:42`). `config_example.json5:24-25` says what the code
  does (0 disables it, 1 is for DoH only), and this is the rule `HopsInOrder` checks.
- The timer of `poll_read` starts with the first read (`fragment.rs:75`): a client that is
  silent for a second after the connection is made is never fragmented.
- `poll_read` lets go of a flush the transport would not complete (`fragment.rs:85`). The
  task that copies may know of nothing to flush then (`FlushForgotten`): bytes that the
  timer sent off can stay in a TLS layer below until the next write. `HelloFlushed`
  says that this is never the fate of a ClientHello.
- A client that closes its side in the middle of a record loses what it sent of it
  (`Unfinished` in `CloseIsLast`), since `poll_shutdown` passes no held bytes on.
- The timer is polled by the direction to the client only: not while that client
  does not read, and not after the server has closed its side. These are the two
  premises of `BytesArrive`.
- A failed DNS query gets no reply (`dns.rs:54`), and an answer too short to be
  one is cached all the same. `AnswersLeave` speaks of the others.
- A connection made straight to the transparent listener is connected to itself, again
  and again, where a rule leaves its destination alone.

### Fairness

A property that something happens is checked under fairness of the program's own
steps only; what it needs of the world outside is a premise of the property.

- `FragmentLayer`: the owner of the stream polls reading whenever it is woken (the
  timer wakes it), and the transport does not refuse for ever. Nothing obliges
  the caller to write, flush or close.
- `Tunnel`: a woken task polls both directions, so that neither is passed over for
  ever; the transport as above, and one that has been shut down refuses what is written
  to it. Peers need not send, close or read (`ClientReads` is a premise).
- `DnsRelay`: runnable tasks run; tokio's channel queues its senders in order and
  `select!` picks a ready branch at random, so neither a sender nor the receiving
  branch starves: strong fairness. Nothing obliges upstream to answer.
- `SharedCache` (`SharedFairSpec`): the branches of a race are polled; nothing is asked of
  the relay. The
  code sets no timeout, so that upstream answers and connections end is a premise of
  `CallsEnd`, stated for each call (`WorldEnds`).
- `SocksHandshake`: `connect` goes on whenever it can; that the proxy answers what it
  has received, or leaves, is the premise of `HandshakeEnds`.
- `HttpInbound`: tasks that can run do; that of an exchange nobody uses any more closes its
  connection (`Unused`; its sender is dropped with the call), which an exchange in use is not
  obliged to. A server told the end of a tunnel ends it too.
- `Startup`: `main` runs on; whoever sits at the terminal need not answer.
- `ProxyChain`, `HttpRequest` and `Redirection` have safety properties only.

## Proofs

Each module of proofs is about a component, or a few that are composed, and states the
inductive invariants of which the checked properties follow. The theorems hold for every value of the
constants; what they take for granted of these are the named assumptions of the
modules, most of which only give types. The literals a cfg gives are among
those values, and TLC checks the assumptions in every run.

| Module | Theorem | Statement |
|---|---|---|
| `FragmentLayerProofs` | `Bookkeeping` | `Spec => []IInv` |
| | `TypeCorrect` | `Spec => []TypeOK` |
| | `OrderKept` | `Spec => []InOrder` |
| | `NoByteLost` | `Spec => []NothingLost` |
| | `ByteByByte` | `Spec => []OneByteInFlight` |
| | `LayerIsPipe` | `Spec => Pipe!SafeSpec`, if `~ShortWrites` and `~Trailing` |
| | `TunnelInvariant` | `TunnelSpec => []TInv` |
| | `TunnelWire` | `TunnelSpec => [](InOrder /\ NothingLost /\ OneByteInFlight)` |
| | `TunnelClose` | `TunnelSpec => CloseIsLast` |
| | `TunnelFlush` | `TunnelSpec => []HelloFlushed` |
| `SharedCacheProofs` | `RelayInvariant` | `Spec => []RInv` |
| | `CacheKept` | `Spec => []CacheSound` |
| | `RepliesRightly` | `Spec => []RightReply` |
| | `RepliesOnce` | `Spec => []OneReply` |
| | `RepliesFresh` | `Spec => []FreshReply` |
| | `SharedInvariant` | `SharedSpec => []SInv` |
| | `RelayStaysUnmixed` | `SharedSpec => []RelayUnmixed` |
| | `SharedCacheKept` | `SharedSpec => []CacheSound` |
| | `HoldsOneConnection` | `SharedSpec => []OneConnection` |
| | `NamesStayInside` | `SharedSpec => []NameKeptInside` |
| | `AddressesAreRight` | `SharedSpec => []RightAddress` |
| | `WarnsTruly` | `SharedSpec => []WarnedWhenDohFailed` |
| `ProxyChainProofs` | `ChainInvariant` | `Spec => []IInv` |
| | `PassesInOrder` | `Spec => []HopsInOrder` |
| | `ArrivesBehindChain` | `Spec => []RequestArrives` |
| `HttpRequestProofs` | `RequestInvariant` | `Spec => []IInv` |
| | `ServerIsRight` | `Spec => []RightServer` |
| | `SecretsStay` | `Spec => []SecretsKept` |
| | `FailsOnlyThere` | `Spec => []FailsOnlyIf` |
| `SocksHandshakeProofs` | `HandshakeInvariant` | `Spec => []SInv` |
| | `RequestsAreRight` | `Spec => []RequestMeansTarget` |
| | `GrantedOnly` | `Spec => []OnlyIfGranted` |
| | `TunnelIsClean` | `Spec => []TunnelStartsClean` |
| `HttpInboundProofs` | `Lifetimes` | `Spec => []IInv` |
| | `ToldTruly` | `Spec => []ToldWhenOpen` |
| | `CopyingApart` | `Spec => []CopiesAfterHttp` |
| | `TunnelsEndFirst` | `Spec => []NoTunnelBehind` |
| `StartupProofs` | `Prepared` | `Spec => []IInv` |
| | `TypeCorrect` | `Spec => []TypeOK` |
| | `FileKept` | `Spec => []ConfiguredKept` |
| | `AllOnStack` | `Spec => []StackComplete` |
| `RedirectionProofs` | `RedirectionInvariant` | `Spec => []RInv` |
| | `WhatIsOfferedWorks` | `Spec => []OfferedWorks` |
| | `RedirectedIsRight` | `Spec => []RightDestination` |
| | `OnlyPfFails` | `Spec => []FailsOnlyWithPf` |

TLC checked each inductive invariant on small instances before it was proved, those of
the layer and the tunnel with short writes and trailing bytes too. (That of
`ProxyChain` without the conjuncts that say a sequence is one of a set TLC cannot list.)

### FragmentLayerProofs: the layer

For every `MaxRecord`, `MaxStream`, `ShortWrites` and `Trailing`, from
`FragmentAssumption` alone (their types). None of the properties is inductive: `InOrder`
says nothing of where the next byte comes from, and `NothingLost` nothing of the
states in between. `IInv` adds, for each state of the layer, how the length of the wire
follows from the pointers:

- `Held`: nothing is on the wire while the layer waits, and the buffer is all
  that was taken;
- `Sending`: in `SendingMessage` the wire has six bytes for each payload byte that
  `bptr` has passed and as many as `chunk.ptr` says, and the chunk is the one
  made for `bptr`;
- `Raw`, `Through`: the wire is the fragments and the raw buffer, then all that was
  taken, unless `Repeats`;
- `Counted`, `Place`, `Flushed`: unflushed bytes, the place in the poll, and the
  flush that precedes a byte.

The proof has a lemma for each action that writes (`NewChunkStep`,
`WriteByteStep`, `WriteThroughStep`, ...), which rest on lemmas about the operators
(`ChunkFacts`, `FragmentByteAt`, ...).

`LayerIsPipe` is the refinement of `BytePipe` without its fairness: initial states map to
initial states, and each step to one of `BytePipe` or a stutter. It assumes what the
refinement needs and `FragmentPipe.cfg` sets: a transport that takes writes whole and a caller
that does not pipeline (otherwise `poll_flush` repeats bytes, as `FragmentHello.cfg` shows). The
mapping counts payload bytes on the wire, so that the proof is about the places of
these (`PayloadPlaces`), one for each byte of the stream behind the header and in their
order. That what is owed is delivered is left to TLC: it is a fairness condition.

### FragmentLayerProofs: the tunnel

For the same constants and every `Pieces`, `MaxDown` and `DownCap`, from
`FragmentAssumption` and `TunnelAssumption`. `TInv` contains the layer's `IInv`: a step of
the tunnel that the layer notices is a step of the layer, so its half is the lemma
proved above. The other half says what the task's variables have to do with the layer's:

- `Polls`: a write has something to write, and no other poll has;
- `InStep`: the task offers what it has read and not yet written, flushes only
  when nothing is left to write, and has read everything when it has read the end;
- `Unsettled`: the layer waits only with an unfinished record;
- `Closing`: between the task's last flush and its shutdown everything stays passed
  on, although the other direction goes on polling the layer;
- `StillDirty`: while a ClientHello is not flushed to its end, the task knows that
  it has to flush -- the flushes the layer makes by itself do not clear its flag;
- `Downward`: the counts of the other direction.

The lemma `TunnelIsLayer` has what holds by construction: a tunnel's steps are the layer's
or leave it alone. `TunnelWire` then follows from the layer's theorems without another
look at the actions.

### SharedCacheProofs

The relay by itself, for any number of tasks, clients, ids and questions, every
`CacheCap`, `Ttl`, `ChanCap` and `MaxTime`, from `DohAssumption` and `RelayAssumption`. It begins
with `doh_query`: one lemma for each of its actions, that it
keeps `DohInv`, for callers to cite. `RightReply` needs more than that each entry answers its
key: a query answered now, but stored and read later, must still be the one that
was asked (`Sound`), and for `FreshReply` an entry's age must be that of its answer
(`EntrySound`, which is why no time may pass before `Store`). `InsertedFacts` has what
an insertion that replaces, and evicts, does to a cache.

Then the replies. `Right` says that a reply answers its query and that
the query has ended, so that nothing changes it any more; `Once` and `Apart` that
replies in the channel, at the socket and behind it are of different tasks; `Owned` that
a task has a client.

Relay and races together, for any number of racing calls, datagrams, names and
literals, from the relay's assumptions and `SharedAssumption`: what the races ask are questions clients may ask, and no text is
both a name and an address.

`SInv` is the relay's `RInv` with `DohInv` for the queries of the races. A step of either side
changes the cache under the other, so each half is proved for the steps of both; this
needs no more of the other side than that it keeps the cache sound. What a
call is in is one of five things (`CallSound`): it has not begun, it races, it has fallen
back to the name, its host is an address, or its race is over. Each says how far both
branches, their queries and their sockets have come; a branch that was dropped has no
socket that is open, which is `OneConnection`, and nothing goes out by name unless
both branches have failed, which is `NameKeptInside`. `warned` is equivalent to what
`failed` says of the branches when the call falls back, although a branch sets that
flag before it knows (it begins as true).

### ProxyChainProofs

For chains of any number of proxies with any number of TLS layers, from `ChainAssumption`
(that the two bounds are numbers).

The route a connection should take and the stack that `main` builds are both
concatenations of a piece per proxy. A piece of the stack and a piece of the route are
`Aligned` if going through the one does the other, and aligned pieces meet where the
address one is asked for is that the next has; `AlignedConcat` puts two of them
together, and by induction over the number of proxies the whole stack is aligned with the
whole route (`AlignedChain`, `WalkLaid`). That number is not bounded here: the induction is
`CountingUp`, which follows from the well-foundedness of the order of numbers.

`IInv` then says where each walk is in its stack: on the way down its frames are
those of the outbounds it has come through; on the way up its trace is the part of the
route that lies below. `JobOk` has what each place of a job implies: behind its
connection the job's trace is the whole route of a walk it may start (`Carried`), and at its
end that with the last words (`Arrived`), which is all of `RequestArrives`, although the walks
that lost are gone by then. `WaitedFor` says that a walk under way has a job that
waits for it, and `DohLater` that no DoH request precedes the race it is for.

### HttpRequestProofs

For all texts that clients may write, of any length and in any words, as names and as
userinfo, from `RequestAssumption`: they are sequences of tokens, and no name has an at sign
in it. (What follows the last at sign of an authority has none. A host header could have
one, but is not a legal one then.)

Most of it is about `Addresses`. A text is known by its length and its tokens; two that are
split at the same place are equal (`SplitIs`, `CutBehind`). No two pairs of a host and a suffix
of the grammar make the same text (`OneMeaning`); a legal text is read as what it means, or
not at all, and `LegalRead` says when; what is printed with a port, or without one that goes
without saying, is a legal text of the same meaning (`DisplayMeans`, `HeaderMeans`). Of texts
that are not legal it is only needed that what is read and printed is a text
without an at sign (`HeaderIsFree`), and that what `Display` prints can be read.

`IInv` is small beside these: before the request is rewritten nothing is in it, and then it is
the record made of what was parsed (`Carries`), with where it stands told by `Handled`.
`SecretsKept` follows from that, from the authority being cut behind the userinfo
(`AuthorityIs`), which may have at signs and colons of its own, and from what the userinfo
is split into and decoded to: `CredentialsAre` says that it is its clear text, or nothing
if some of it does not decode, and `ParsedIs` what that does to the address. The words of the grammar itself (a name, an address of each kind, four
ports) are fixed in the model, and so they are in the theorems.

### SocksHandshakeProofs

For names of any size and any number of bytes of the tunnel. Client and proxy speak in
turn (`Dialogue`): when it is the client's turn nothing is under way; when the
proxy's, one message is; and while a reply is read the stream is the rest of it and
then the bytes of the tunnel (`Unread`). `Seen` says what has been read of it, from which
follow, at `done`, that it was a grant and that it was read to its end and no further.
`TunnelStartsClean` rests on how long each reply is that begins as this one did.

### HttpInboundProofs

For every `MaxRequests`. `CopiesAfterHttp` and `NoTunnelBehind` speak of requests long past.
`IInv` says what these may have left, which is the task of an exchange at most
(`Linked`, `Alone`), that those to come have nothing (`Untouched`), and what the current one has at
each place of the task that serves the client (`Holds`). All steps but `Request` concern the current request alone
(`Current`), and `Request` is taken only where `Holds` leaves nothing to inherit.

### StartupProofs

For every set of configuration files, from `StartupAssumption` (that they are files). Behind
the dialogue `ConfiguredKept` follows from what it has done so far to the proxy it is
about, and those it has not come to being as they were read (`Dialogue`). `StackComplete`
speaks of the end: until then the stack has the proxies built, each at a place of
its own and in the file's order, with its layer below it, and nothing else (`Built`).

### RedirectionProofs

For every `MaxConns`. `OfferedWorks` rests on what `start` has let through (`Started`): types
that were parsed, and a default, which is not parsed but was bound, and on the arms of the
three matches for every type and system. `RightDestination`
and `FailsOnlyWithPf` rest on the answers of the kernel for every system, type and family
that leaves, and on `PF` never changing once it was forced, so that a connection that
was refused still says why (`ConnSound`).

### Only model-checked

- Liveness and the fairness half of `ImplementsPipe`: TLAPS treats neither fairness nor
  ENABLED.
- `NoOrphan`, `AnswersLeave`, `CallsEnd`, `HandshakeEnds`, `BytesArrive`, `EndsWithPeers` and
  `ServesIfItCan` are liveness.


## Not modelled

- The body wrapper (`utils/http.rs`) has no state: it adapts the types of bodies.
- The bindings of pf (`pfvar_bindgen_*.rs`) are generated declarations, 57 thousand of
  the repository's 60 thousand lines, without behaviour. Of `pf.rs`, the fields of
  a `pfioc_natlook` are abstracted to what is asked for and in which family.
- `udp_natlook`, the UDP defaults and types of `tproxy_tokio` are never called by the program.
  NetBSD, named in some conditions of the crate, has no bindings and does not build.
- A transport that takes zero bytes of a write makes `poll_flush` spin
  (`fragment.rs:203`); tokio's transports return an error or wait instead, so the case
  is left out of the transport's answers.
- Path and query of a URI, bodies, and headers other than those `send_request` and the
  proxies look at.
- TLS itself, hyper and the kernel are outside: a transport is a byte stream that may
  take less than it is offered, wait, or fail.

## Plan

Done, in this order: `FragmentLayer`, `BytePipe`, `FragmentPipe`,
`FragmentLayerProofs`; `DohQuery`, `DnsRelay`; `HappyEyeballs`; `ProxyChain`;
`SocksHandshake`; `Addresses`, `HttpRequest`; `HttpInbound`, `Tunnel`; `Startup`;
`Redirection`; `SharedCache`; the proofs about `Tunnel`, `HttpInbound`, `DnsRelay`; those about
`SharedCache`, `Redirection`, `SocksHandshake`, the refinement of `BytePipe`, `Startup`,
`ProxyChain` and `HttpRequest`. Every safety property a run checks has a theorem.

Proofs to come, by what they would add: that without `Repeats` no plain byte of a
ClientHello's header reaches the wire.
