---------------------------- MODULE Redirection ----------------------------
(***************************************************************************)
(* The transparent proxy: start and run of inbound/tproxy.rs over the      *)
(* crate tproxy_tokio, which knows per operating system the types of       *)
(* redirection there are (RedirType), how to listen (bind_redir) and how   *)
(* to learn where a connection was meant to go (destination_addr).  The    *)
(* kernel is external: what its calls answer about a connection.           *)
(***************************************************************************)
EXTENDS Naturals, Sequences

CONSTANT MaxConns  \* bound: connections accepted

ASSUME MaxConnsAssumption == MaxConns \in Nat

VARIABLES
  os,      \* the operating system the program is built for
  wanted,  \* redir_type of the configuration
  family,  \* the listener's address: v4, v6, or v6 taking IPv4 as well
  stage,   \* of start: "parse", "bind", "listening", "refused"
  ty,      \* the RedirType
  device,  \* may the program open /dev/pf?
  pf,      \* the cell PF: "unopened", "open", "poisoned"
  conns    \* the connections accepted, in order

vars == <<os, wanted, family, stage, ty, device, pf, conns>>

Systems == {"linux", "freebsd", "openbsd", "macos", "other"}
Types == {"redirect", "tproxy", "pf", "ipfw"}
Absent == "absent"

\* Where connections are meant to go; Self is the listener.
Self == "self"
Destinations == {"d4", "d6"}
FamilyOf(d) == IF d = "d4" THEN "v4" ELSE "v6"
Listens(f) == family \in {f, "dual"}

\* A connection comes by the rule of the packet filter, or straight to the
\* listener.
Connections == {c \in [direct : BOOLEAN, dst : Destinations] : Listens(FamilyOf(c.dst))}

----------------------------------------------------------------------------
(***************************************************************************)
(* RedirType.                                                              *)
(***************************************************************************)
TcpDefault ==
  CASE os = "linux" -> "redirect"
    [] os \in {"freebsd", "openbsd", "macos"} -> "pf"
    [] OTHER -> "not_supported"

TcpAvailableTypes ==
  CASE os = "linux" -> {"redirect", "tproxy"}
    [] os \in {"freebsd", "macos"} -> {"pf", "ipfw"}
    [] os = "openbsd" -> {"pf"}
    [] OTHER -> {}

\* Three matches over the type, each with the cfgs of its own arms.  from_str:
\* per name, the systems with an arm for it.
ParseCfg ==
  [redirect |-> {"linux"}, tproxy |-> {"linux"},
   pf |-> {"freebsd", "openbsd", "macos"}, ipfw |-> {"freebsd", "macos"}]

\* bind_redir: one file for Linux, one for the BSDs and macOS, and one for the
\* rest, which refuses.
BindCfg ==
  [redirect |-> {"linux"}, tproxy |-> {"linux"},
   pf |-> {"freebsd", "openbsd", "macos"}, ipfw |-> {"freebsd", "macos"}]

\* (were the arm for ipfw there on FreeBSD alone, where ipfw comes from)
DestinationCfgFreeBsd ==
  [redirect |-> {"linux"}, tproxy |-> {"linux"},
   pf |-> {"freebsd", "macos"} \cup {"openbsd"}, ipfw |-> {"freebsd"}]

\* destination_addr: it has two arms for pf.
DestinationCfg ==
  [redirect |-> {"linux"}, tproxy |-> {"linux"},
   pf |-> {"freebsd", "macos"} \cup {"openbsd"}, ipfw |-> {"freebsd", "macos"}]

\* Whom the arm for the type asks.
Arm ==
  IF ty \notin Types \/ os \notin DestinationCfg[ty] THEN "unreachable"
  ELSE CASE ty = "redirect" -> "getsockopt"
         [] ty = "pf" /\ os # "openbsd" -> "natlook"
         [] OTHER -> "getsockname"

Parses == wanted \in Types /\ os \in ParseCfg[wanted]
Binds == ty \in Types /\ os \in BindCfg[ty]

----------------------------------------------------------------------------
(***************************************************************************)
(* The kernel's answers about a connection: one, or none.                  *)
(***************************************************************************)
Meant(c) == IF c.direct THEN Self ELSE c.dst

\* getsockopt: the destination in the table of connections, by family.
SoOriginalDst(c) == IF FamilyOf(c.dst) = "v4" THEN {Meant(c)} ELSE {}
Ip6tSoOriginalDst(c) == IF FamilyOf(c.dst) = "v6" THEN {Meant(c)} ELSE {}

\* getsockname: a rule that leaves the packet as it is leaves it its
\* destination; one that rewrites it makes that the listener.
Rewrites == ty = "redirect" \/ (ty = "pf" /\ os # "openbsd")
LocalAddr(c) == IF Rewrites THEN {Self} ELSE {Meant(c)}

\* DIOCNATLOOK: pf finds the state it made for a connection, asked for by the
\* addresses it has seen it with.
PfStates(c, af) == IF c.direct \/ af # FamilyOf(c.dst) THEN {} ELSE {c.dst}

\* tcp_natlook asks with the addresses of the socket, and in their family: on a
\* listener for both that is v6, with IPv4-mapped addresses.
TcpNatlook(c) == PfStates(c, IF family = "v4" THEN "v4" ELSE "v6")

AsksPf == Arm = "natlook"

\* get_original_destination_addr: IPv4 first, then IPv6.
OriginalDst(c) == IF SoOriginalDst(c) # {} THEN SoOriginalDst(c) ELSE Ip6tSoOriginalDst(c)

\* (were getsockname asked on every system but those of pf)
DestinationByName(c) == IF AsksPf THEN TcpNatlook(c) ELSE LocalAddr(c)

\* What destination_addr returns.
Destination(c) ==
  CASE Arm = "getsockopt" -> OriginalDst(c)
    [] Arm = "natlook" -> TcpNatlook(c)
    [] Arm = "getsockname" -> LocalAddr(c)
    [] OTHER -> {}

----------------------------------------------------------------------------
Init ==
  /\ os \in Systems
  /\ wanted \in Types \cup {Absent, "not_supported"}
  /\ family \in {"v4", "v6", "dual"}
  /\ stage = "parse" /\ ty = Absent /\ conns = <<>>
  /\ device \in BOOLEAN /\ pf = "unopened"

Parse ==
  /\ stage = "parse"
  /\ IF wanted = Absent THEN ty' = TcpDefault /\ stage' = "bind"
     ELSE IF Parses THEN ty' = wanted /\ stage' = "bind"
     ELSE stage' = "refused" /\ UNCHANGED ty
  /\ UNCHANGED <<os, wanted, family, device, pf, conns>>

\* (An address that is taken: see Startup.)
BindRedir ==
  /\ stage = "bind"
  /\ stage' = IF Binds THEN "listening" ELSE "refused"
  /\ UNCHANGED <<os, wanted, family, ty, device, pf, conns>>

Accepted(c) == [from |-> c, state |-> "accepted", target |-> "none"]

Accept(c) ==
  /\ stage = "listening" /\ Len(conns) < MaxConns
  /\ conns' = Append(conns, Accepted(c))
  /\ UNCHANGED <<os, wanted, family, stage, ty, device, pf>>

\* Somebody lets the program open /dev/pf, or no longer does.
DeviceChanges ==
  /\ device' = ~device
  /\ UNCHANGED <<os, wanted, family, stage, ty, pf, conns>>

\* (were a failed attempt not remembered)
ForcePfAgain == IF pf = "open" \/ device THEN "open" ELSE "unopened"

\* The first use of PF opens the device; a failure panics, then and for ever.
ForcePf == IF pf # "unopened" THEN pf ELSE IF device THEN "open" ELSE "poisoned"

\* run asks for the destination.  A panic, also of the arm of unreachable!, ends
\* its task.
Run(i) ==
  /\ conns[i].state = "accepted"
  /\ pf' = IF AsksPf THEN ForcePf ELSE pf
  /\ LET d == Destination(conns[i].from)
     IN  conns' =
           IF Arm = "unreachable" THEN [conns EXCEPT ![i].state = "unreachable"]
           ELSE IF AsksPf /\ pf' # "open" THEN [conns EXCEPT ![i].state = "panicked"]
           ELSE IF d = {} THEN [conns EXCEPT ![i].state = "dropped"]
           ELSE [conns EXCEPT ![i].state = "connecting", ![i].target = CHOOSE x \in d : TRUE]
  /\ UNCHANGED <<os, wanted, family, stage, ty, device>>

\* It connects there, through the outbound stack.  If that is the listener, the
\* connection comes back as another one to accept.
Connect(i) ==
  /\ conns[i].state = "connecting"
  /\ LET left == [conns EXCEPT ![i].state = "connected"]
     IN  IF conns[i].target = Self
         THEN /\ Len(conns) < MaxConns
              /\ conns' = Append(left, Accepted([conns[i].from EXCEPT !.direct = TRUE]))
         ELSE conns' = left
  /\ UNCHANGED <<os, wanted, family, stage, ty, device, pf>>

\* Another call fails, and with it the connection: set_nodelay, getsockopt,
\* getsockname, getpeername or the ioctl of pf, for which PF has been forced; or
\* the way there.
Fails(i) ==
  /\ conns[i].state \in {"accepted", "connecting"}
  /\ pf' = pf \/ (conns[i].state = "accepted" /\ AsksPf /\ ForcePf = "open" /\ pf' = "open")
  /\ conns' = [conns EXCEPT ![i].state = "failed", ![i].target = "none"]
  /\ UNCHANGED <<os, wanted, family, stage, ty, device>>

Next ==
  \/ Parse \/ BindRedir \/ DeviceChanges
  \/ \E c \in Connections : Accept(c)
  \/ \E i \in DOMAIN conns : Run(i) \/ Connect(i) \/ Fails(i)

Spec == Init /\ [][Next]_vars

----------------------------------------------------------------------------
TypeOK ==
  /\ stage \in {"parse", "bind", "listening", "refused"}
  /\ ty \in Types \cup {Absent, "not_supported"}
  /\ device \in BOOLEAN /\ pf \in {"unopened", "open", "poisoned"}
  /\ Len(conns) <= MaxConns
  /\ \A i \in DOMAIN conns :
       /\ conns[i].state \in {"accepted", "connecting", "connected", "dropped", "failed", "panicked", "unreachable"}
       /\ conns[i].state \in {"connecting", "connected"} <=> conns[i].target \in Destinations \cup {Self}

\* The tables of the crate agree, each with its own cfgs.  A type is refused only
\* if the crate does not offer it on this system: what tcp_available_types and
\* tcp_default name, from_str and bind_redir take.  And whatever they take has
\* an arm of its own in destination_addr, never the one marked unreachable!
\* (linux/mod.rs, bsd/mod.rs, other.rs), also the default of a system without
\* redirection, which is not parsed.
OfferedWorks ==
  /\ stage = "refused" =>
       /\ wanted \notin TcpAvailableTypes
       /\ wanted = Absent => TcpDefault = "not_supported"
  /\ \A i \in DOMAIN conns : conns[i].state # "unreachable"

\* Whatever the system, type and family, a connection that was redirected goes
\* where it was meant to go or nowhere, and so never back to the listener.
RightDestination ==
  \A i \in DOMAIN conns :
    ~conns[i].from.direct => conns[i].target \in {"none", conns[i].from.dst}

\* Unless a call on its own socket or the way there fails, it goes nowhere only
\* where pf is asked for an IPv4 connection taken by an IPv6 listener, or could
\* not be asked the first time: then every connection fails, whatever becomes of
\* the device, and none before or otherwise.
FailsOnlyWithPf ==
  /\ TypeOK
  /\ \A i \in DOMAIN conns :
       /\ conns[i].state = "panicked" => AsksPf /\ pf = "poisoned"
       /\ conns[i].state = "connected" /\ AsksPf => pf = "open"
       /\ conns[i].state = "dropped" /\ ~conns[i].from.direct =>
            AsksPf /\ family = "dual" /\ conns[i].from.dst = "d4"
=============================================================================
