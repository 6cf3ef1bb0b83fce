------------------------------ MODULE Startup ------------------------------
(***************************************************************************)
(* main of main.rs: the credentials of the upstream proxies, completed at  *)
(* the terminal and checked by the proxies' "new"; the outbound stack; and *)
(* the start functions of the three inbounds, run by join!.  (Where the    *)
(* fragment layer goes on the stack is in ProxyChain.)                     *)
(*                                                                         *)
(* A credential is "absent", empty, a "good" one or one that is "bad" for  *)
(* SOCKS: with a NUL (SOCKS4) or of more than 255 bytes (SOCKS5).          *)
(***************************************************************************)
EXTENDS Naturals, Sequences

CONSTANT Configs  \* configurations: what config.json5 holds

Empty == ""
Lines == {Empty, "good", "bad"}  \* what is typed at the terminal
Credentials == Lines \cup {"absent"}
Inbounds == <<"http", "tproxy", "dns">>  \* in the order join! polls them
InboundSet == {Inbounds[i] : i \in 1 .. 3}

\* What serde makes of the file: upstream proxies, and the addresses and the
\* type of redirection of the inbounds.
ProxyConfs == [protocol : STRING, layer : STRING, server : STRING, user : Credentials, password : Credentials]
Files == [proxies : Seq(ProxyConfs), listen : [InboundSet -> Seq(STRING)], redir : BOOLEAN]

ASSUME StartupAssumption == Configs \subseteq Files

VARIABLES
  conf,     \* the configuration; main fills in credentials
  read,     \* ... as it was read
  taken,    \* addresses other programs listen on
  stage,    \* "user" and "password" (read next), "build", "start", "panicked", "ended"
  at,       \* number of the upstream proxy being configured
  stack,    \* proxy_stack
  inbound,  \* each inbound's start function: pending, serving, or returned
  bound     \* how many of its sockets each inbound has bound, each with its accept loop

vars == <<conf, read, taken, stage, at, stack, inbound, bound>>

\* What an address is taken for: DNS comes by UDP.
Socket(i, a) == <<IF i = "dns" THEN "udp" ELSE "tcp", a>>
First(i, n) == {Socket(i, conf.listen[i][k]) : k \in 1 .. n}
Count(i) == Len(conf.listen[i])
Sockets(i) == First(i, Count(i))

Proxy == conf.proxies[at]

\* What else than a proxy is on the stack.
Layer(l) == [protocol |-> l]

\* Where the dialogue about the n-th upstream proxy of c begins.
Entry(c, n) ==
  IF n > Len(c.proxies) THEN "start"
  ELSE IF c.proxies[n].user = "absent" THEN "user" ELSE "build"

Init ==
  /\ conf \in Configs /\ read = conf
  /\ taken \in SUBSET {<<t, a>> : t \in {"tcp", "udp"}, a \in {"a", "b"}}
  /\ at = 1 /\ stage = Entry(conf, 1)
  /\ stack = <<Layer("raw")>>
  /\ inbound = [i \in InboundSet |-> "pending"]
  /\ bound = [i \in InboundSet |-> 0]

----------------------------------------------------------------------------
\* (were the password asked for whatever the file says)
ReadUserAlways(line) ==
  /\ stage = "user"
  /\ conf' = [conf EXCEPT !.proxies[at].user = line]
  /\ stage' = "password"
  /\ UNCHANGED <<read, taken, at, stack, inbound, bound>>

\* The terminal's answer to "proxy user>" ...
ReadUser(line) ==
  /\ stage = "user"
  /\ conf' = [conf EXCEPT !.proxies[at].user = line]
  /\ stage' = IF Proxy.password = "absent" THEN "password" ELSE "build"
  /\ UNCHANGED <<read, taken, at, stack, inbound, bound>>

\* ... and to "proxy password>", where nothing means none.
ReadPassword(line) ==
  /\ stage = "password"
  /\ conf' = [conf EXCEPT !.proxies[at].password = IF line = Empty THEN "absent" ELSE line]
  /\ stage' = "build"
  /\ UNCHANGED <<read, taken, at, stack, inbound, bound>>

\* (were only user names checked)
UserFits(p) == p.protocol \in {"socks4", "socks5"} => p.user # "bad"

\* The checks of the proxies' new.
Fits(p) ==
  /\ p.server = "good"
  /\ p.protocol \in {"socks4", "socks5"} => "bad" \notin {p.user, p.password}

\* An empty user name is none; then layers and protocol go onto the stack, or
\* end the program.
Buildable(p) == p.layer \in {Empty, "tls"} /\ p.protocol \in {"http", "socks4", "socks5"} /\ Fits(p)

Build ==
  /\ stage = "build"
  /\ LET p == [Proxy EXCEPT !.user = IF @ = Empty THEN "absent" ELSE @]
     IN  /\ conf' = [conf EXCEPT !.proxies[at] = p]
         /\ IF Buildable(p)
            THEN /\ stack' = stack \o (IF p.layer = Empty THEN <<>> ELSE <<Layer(p.layer)>>) \o <<p>>
                 /\ at' = at + 1
                 /\ stage' = Entry(conf, at + 1)
            ELSE /\ stage' = "panicked"
                 /\ UNCHANGED <<at, stack>>
  /\ UNCHANGED <<read, taken, inbound, bound>>

----------------------------------------------------------------------------
\* The inbound that join! polls next: each start function runs on until it
\* returns or sleeps for good.
Turn(i) ==
  /\ stage = "start" /\ inbound[i] = "pending"
  /\ \E n \in 1 .. 3 : Inbounds[n] = i /\ \A m \in 1 .. n - 1 : inbound[Inbounds[m]] # "pending"

Held == UNION {First(i, bound[i]) : i \in InboundSet}
NextSocket(i) == Socket(i, conf.listen[i][bound[i] + 1])

\* Nothing to listen on, or a type of redirection that is not known.
Refuses(i) == Count(i) = 0 \/ (i = "tproxy" /\ ~conf.redir)

\* start binds the addresses one after the other, and has each accept at once.
Bind(i) ==
  /\ Turn(i) /\ ~Refuses(i) /\ bound[i] < Count(i)
  /\ NextSocket(i) \notin taken \cup Held
  /\ bound' = [bound EXCEPT ![i] = @ + 1]
  /\ UNCHANGED <<conf, read, taken, stage, at, stack, inbound>>

\* It returns when one cannot be bound; nobody looks at what it returns.
Returns(i) ==
  /\ Turn(i)
  /\ Refuses(i) \/ (bound[i] < Count(i) /\ NextSocket(i) \in taken \cup Held)
  /\ inbound' = [inbound EXCEPT ![i] = "returned"]
  /\ UNCHANGED <<conf, read, taken, stage, at, stack, bound>>

Sleep(i) ==
  /\ Turn(i) /\ ~Refuses(i) /\ bound[i] = Count(i)
  /\ inbound' = [inbound EXCEPT ![i] = "serving"]
  /\ UNCHANGED <<conf, read, taken, stage, at, stack, bound>>

\* (were it try_join!)
OneReturned == \E i \in InboundSet : inbound[i] = "returned"

\* join! waits for all of them.
AllReturned == \A i \in InboundSet : inbound[i] = "returned"

\* main returns, and with the runtime every accept loop ends.
End ==
  /\ stage = "start" /\ AllReturned
  /\ stage' = "ended"
  /\ bound' = [i \in InboundSet |-> 0]
  /\ UNCHANGED <<conf, read, taken, at, stack, inbound>>

Next ==
  \/ \E line \in Lines : ReadUser(line) \/ ReadPassword(line)
  \/ Build
  \/ \E i \in InboundSet : Bind(i) \/ Returns(i) \/ Sleep(i)
  \/ End

Spec == Init /\ [][Next]_vars

\* main runs on; whoever sits at the terminal need not answer.
FairSpec == Spec /\ WF_vars(Build \/ (\E i \in InboundSet : Bind(i) \/ Returns(i) \/ Sleep(i)) \/ End)

----------------------------------------------------------------------------
TypeOK ==
  /\ stage \in {"user", "password", "build", "start", "panicked", "ended"}
  /\ at \in 1 .. Len(conf.proxies) + 1
  /\ \A n \in DOMAIN conf.proxies : {conf.proxies[n].user, conf.proxies[n].password} \subseteq Credentials
  /\ inbound \in [InboundSet -> {"pending", "serving", "returned"}]
  /\ \A i \in InboundSet : bound[i] \in 0 .. Count(i)

\* config_example.json5 (line 11): what the file sets is not asked for.  So a
\* password in the file survives a dialogue about the user name, and neither
\* is replaced by an answer.
ConfiguredKept ==
  \A n \in 1 .. at - 1 :
    LET file == read.proxies[n]
        used == conf.proxies[n]
    IN  /\ file.user \notin {"absent", Empty} => used.user = file.user
        /\ file.user = Empty => used.user = "absent"
        /\ file.password # "absent" \/ file.user # "absent" => used.password = file.password

\* Once the inbounds start, the stack is "raw" and then, in the order of the
\* file, every upstream proxy of it behind its layer and nothing else; and all
\* credentials fit the handshakes they are for: one byte of length in SOCKS5, a
\* NUL at the end in SOCKS4.
Places(n) == {p \in [1 .. n -> 2 .. Len(stack)] : \A k, m \in 1 .. n : k < m => p[k] < p[m]}

InPlace(n, k) ==
  /\ stack[k] = conf.proxies[n]
  /\ conf.proxies[n].layer = "tls" => stack[k - 1] = Layer("tls")

StackComplete ==
  /\ TypeOK
  /\ stage = "start" =>
       /\ \E place \in Places(Len(conf.proxies)) :
            /\ \A n \in DOMAIN place : InPlace(n, place[n])
            /\ \A k \in 2 .. Len(stack) : \E n \in DOMAIN place :
                 k = place[n] \/ (k = place[n] - 1 /\ conf.proxies[n].layer = "tls")
       /\ stack[1] = Layer("raw")
       /\ \A n \in DOMAIN conf.proxies :
            conf.proxies[n].protocol # "http" => "bad" \notin {conf.proxies[n].user, conf.proxies[n].password}

\* An inbound whose addresses are free serves, and goes on, whatever becomes of
\* the others: a listener that fails takes none of the others with it.
CanServe(i) ==
  /\ ~Refuses(i)
  /\ \A m, n \in 1 .. Count(i) : conf.listen[i][m] = conf.listen[i][n] => m = n
  /\ \A j \in InboundSet \ {i} : Sockets(i) \cap (taken \cup Sockets(j)) = {}

ServesIfItCan ==
  \A i \in InboundSet :
    stage = "start" /\ CanServe(i) ~> [](stage = "start" /\ inbound[i] = "serving")
=============================================================================
