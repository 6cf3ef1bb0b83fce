------------------------- MODULE RedirectionProofs -------------------------
(***************************************************************************)
(* The safety invariants of Redirection, for any number of connections.    *)
(*                                                                         *)
(* None is inductive.  That no arm of unreachable! is met rests on what    *)
(* start has let through, and that on a comparison of the tables: what is  *)
(* offered is parsed, what is parsed is bound, and what is bound has an    *)
(* arm in destination_addr.  Where a connection goes rests on the answers  *)
(* of the kernel for every system, type and family that leaves, and what   *)
(* PF remembers on its never changing once it was forced.                  *)
(***************************************************************************)
EXTENDS Redirection, SequenceTheorems, TLAPS

Origin == [direct : BOOLEAN, dst : Destinations]

ConnStates == {"accepted", "connecting", "connected", "dropped", "failed", "panicked", "unreachable"}

Conn == [from : Origin, state : ConnStates, target : Destinations \cup {Self, "none"}]

Typed ==
  /\ os \in Systems
  /\ wanted \in Types \cup {Absent, "not_supported"}
  /\ family \in {"v4", "v6", "dual"}
  /\ stage \in {"parse", "bind", "listening", "refused"}
  /\ ty \in Types \cup {Absent, "not_supported"}
  /\ device \in BOOLEAN /\ pf \in {"unopened", "open", "poisoned"}
  /\ conns \in Seq(Conn) /\ Len(conns) <= MaxConns

\* What start has let through, and nothing is accepted before it has.
Started ==
  /\ stage = "parse" => ty = Absent
  /\ stage = "bind" => (ty \in Types /\ os \in ParseCfg[ty]) \/ (wanted = Absent /\ ty = TcpDefault)
  /\ stage = "listening" => Binds
  /\ stage = "refused" => wanted \notin TcpAvailableTypes
  /\ stage = "refused" /\ wanted = Absent => TcpDefault = "not_supported"
  /\ conns # <<>> => stage = "listening"

Going == {"connecting", "connected"}

\* What is true of a connection, whatever becomes of the others.
ConnSound(k) ==
  /\ Listens(FamilyOf(k.from.dst))
  /\ k.state # "unreachable"
  /\ k.state \in Going <=> k.target # "none"
  /\ ~k.from.direct => k.target \in {"none", k.from.dst}
  /\ k.state = "panicked" => AsksPf /\ pf = "poisoned"
  /\ k.state \in Going /\ AsksPf => pf = "open"
  /\ k.state = "dropped" /\ ~k.from.direct => AsksPf /\ family = "dual" /\ k.from.dst = "d4"

RInv == Typed /\ Started /\ \A i \in DOMAIN conns : ConnSound(conns[i])

----------------------------------------------------------------------------
(***************************************************************************)
(* The tables of RedirType, and the answers of the kernel.                 *)
(***************************************************************************)
\* The three matches and the types that are offered, each with its own cfgs.
LEMMA TablesAgree ==
  ASSUME os \in Systems
  PROVE  /\ \A t \in TcpAvailableTypes : t \in Types /\ os \in ParseCfg[t]
         /\ \A t \in Types : os \in ParseCfg[t] => os \in BindCfg[t]
         /\ TcpDefault = "not_supported" \/ (TcpDefault \in Types /\ os \in BindCfg[TcpDefault])
         /\ Binds => Arm \in {"getsockopt", "getsockname", "natlook"}
<1>1. \A t \in TcpAvailableTypes : t \in Types /\ os \in ParseCfg[t]
  BY DEF Systems, Types, TcpAvailableTypes, ParseCfg
<1>2. \A t \in Types : os \in ParseCfg[t] => os \in BindCfg[t]
  BY DEF Systems, Types, ParseCfg, BindCfg
<1>3. TcpDefault = "not_supported" \/ (TcpDefault \in Types /\ os \in BindCfg[TcpDefault])
  BY DEF Systems, Types, TcpDefault, BindCfg
<1>4. ASSUME Binds PROVE os \in DestinationCfg[ty]
  BY <1>4 DEF Systems, Types, Binds, BindCfg, DestinationCfg
<1>5. Binds => Arm \in {"getsockopt", "getsockname", "natlook"}
  BY <1>4 DEF Binds, Arm
<1> QED
  BY <1>1, <1>2, <1>3, <1>5

\* Which rules rewrite, and whom the arms ask.
LEMMA ArmSound ==
  ASSUME os \in Systems, Binds
  PROVE  /\ AsksPf <=> Arm = "natlook"
         /\ Arm = "getsockname" => ~Rewrites
<1>1. Arm = "getsockname" => ty # "redirect" /\ ~(ty = "pf" /\ os # "openbsd")
  BY DEF Arm
<1> QED
  BY <1>1 DEF AsksPf, Rewrites

LEMMA DestinationSound ==
  ASSUME NEW c \in Origin, os \in Systems, family \in {"v4", "v6", "dual"},
         Binds, Listens(FamilyOf(c.dst))
  PROVE  /\ Destination(c) \subseteq Destinations \cup {Self}
         /\ ~c.direct => Destination(c) \subseteq {c.dst}
         /\ ~c.direct /\ Destination(c) = {} => AsksPf /\ family = "dual" /\ c.dst = "d4"
<1>0. c.dst \in {"d4", "d6"} /\ c.direct \in BOOLEAN
  BY DEF Origin, Destinations
<1>1. FamilyOf(c.dst) \in {"v4", "v6"}
  BY DEF FamilyOf
<1>2. Meant(c) \in Destinations \cup {Self}
  BY <1>0 DEF Meant, Destinations
<1>3. ~c.direct => Meant(c) = c.dst
  BY DEF Meant
<1>4. OriginalDst(c) = {Meant(c)}
  BY <1>1 DEF OriginalDst, SoOriginalDst, Ip6tSoOriginalDst
<1>5. TcpNatlook(c) \subseteq {c.dst}
  BY DEF TcpNatlook, PfStates
<1>6. ~c.direct /\ TcpNatlook(c) = {} => family = "dual" /\ c.dst = "d4"
  BY <1>0 DEF TcpNatlook, PfStates, FamilyOf, Listens
<1>7. Arm = "getsockname" => LocalAddr(c) = {Meant(c)}
  BY ArmSound DEF LocalAddr
<1>8. CASE Arm = "getsockopt"
  <2>1. Destination(c) = {Meant(c)}
    BY <1>4, <1>8 DEF Destination
  <2> QED
    BY <2>1, <1>2, <1>3
<1>9. CASE Arm = "natlook"
  <2>1. Destination(c) = TcpNatlook(c) /\ AsksPf
    BY <1>9 DEF Destination, AsksPf
  <2> QED
    BY <2>1, <1>0, <1>5, <1>6 DEF Destinations
<1>10. CASE Arm = "getsockname"
  <2>1. Destination(c) = {Meant(c)}
    BY <1>7, <1>10 DEF Destination
  <2> QED
    BY <2>1, <1>2, <1>3
<1>11. Arm \in {"getsockopt", "getsockname", "natlook"}
  BY TablesAgree
<1> QED
  BY <1>8, <1>9, <1>10, <1>11

----------------------------------------------------------------------------
(***************************************************************************)
(* The steps.                                                              *)
(***************************************************************************)
LEMMA RInit == Init => RInv
<1> SUFFICES ASSUME Init PROVE RInv
  OBVIOUS
<1>1. conns \in Seq(Conn) /\ Len(conns) = 0 /\ DOMAIN conns = {}
  BY EmptySeq DEF Init
<1>2. Typed
  BY <1>1, MaxConnsAssumption DEF Init, Typed
<1>3. Started
  BY DEF Init, Started
<1> QED
  BY <1>1, <1>2, <1>3 DEF RInv

\* What ConnSound says depends on nothing else.
LEMMA SoundKept ==
  ASSUME UNCHANGED <<os, family, ty, pf>>, NEW k, ConnSound(k)
  PROVE  ConnSound(k)'
BY DEF ConnSound, Listens, AsksPf, Arm

\* Nor do the tables depend on anything but the system and the type.
LEMMA TablesKept ==
  ASSUME UNCHANGED <<os, ty>>
  PROVE  UNCHANGED <<TcpDefault, TcpAvailableTypes, Binds, AsksPf>>
BY DEF TcpDefault, TcpAvailableTypes, Binds, AsksPf, Arm

LEMMA ParseStep == RInv /\ Parse => RInv'
<1> SUFFICES ASSUME RInv, Parse PROVE RInv'
  OBVIOUS
<1>1. os \in Systems /\ stage = "parse" /\ conns = <<>> /\ conns' = conns /\ os' = os /\ wanted' = wanted
  BY DEF RInv, Typed, Started, Parse
<1>2. TcpDefault \in Types \cup {"not_supported"}
  BY <1>1, TablesAgree
<1>3. Typed'
  BY <1>2 DEF RInv, Typed, Parse, Parses
<1>4. TcpDefault = TcpDefault' /\ TcpAvailableTypes = TcpAvailableTypes'
  BY <1>1 DEF TcpDefault, TcpAvailableTypes
<1>5. CASE wanted = Absent
  <2>1. ty' = TcpDefault /\ stage' = "bind"
    BY <1>5 DEF Parse
  <2> QED
    BY <1>1, <1>3, <1>4, <1>5, <2>1 DEF RInv, Started
<1>6. CASE wanted # Absent /\ Parses
  <2>1. ty' = wanted /\ stage' = "bind"
    BY <1>6 DEF Parse
  <2> QED
    BY <1>1, <1>3, <1>6, <2>1 DEF RInv, Started, Parses
<1>7. CASE wanted # Absent /\ ~Parses
  <2>1. stage' = "refused"
    BY <1>7 DEF Parse
  <2>2. wanted \notin TcpAvailableTypes
    BY <1>1, <1>7, TablesAgree DEF Parses
  <2> QED
    BY <1>1, <1>3, <1>4, <1>7, <2>1, <2>2 DEF RInv, Started
<1> QED
  BY <1>5, <1>6, <1>7

LEMMA BindRedirStep == RInv /\ BindRedir => RInv'
<1> SUFFICES ASSUME RInv, BindRedir PROVE RInv'
  OBVIOUS
<1>1. os \in Systems /\ stage = "bind" /\ conns = <<>> /\ conns' = conns /\ os' = os
      /\ wanted' = wanted /\ ty' = ty
  BY DEF RInv, Typed, Started, BindRedir
<1>2. Typed'
  BY DEF RInv, Typed, BindRedir
<1>3. TcpDefault = TcpDefault' /\ TcpAvailableTypes = TcpAvailableTypes' /\ Binds = Binds'
  BY <1>1, TablesKept
<1>4. CASE Binds
  <2>1. stage' = "listening"
    BY <1>4 DEF BindRedir
  <2> QED
    BY <1>1, <1>2, <1>3, <1>4, <2>1 DEF RInv, Started
<1>5. CASE ~Binds
  <2>1. wanted = Absent /\ ty = TcpDefault
    BY <1>1, <1>5, TablesAgree DEF RInv, Started, Binds
  <2>2. stage' = "refused" /\ TcpDefault = "not_supported"
    BY <1>1, <1>5, <2>1, TablesAgree DEF BindRedir, Binds
  <2>3. Absent \notin TcpAvailableTypes
    BY <1>1, TablesAgree DEF Absent, Types
  <2> QED
    BY <1>1, <1>2, <1>3, <2>1, <2>2, <2>3 DEF RInv, Started
<1> QED
  BY <1>4, <1>5

LEMMA DeviceStep == RInv /\ DeviceChanges => RInv'
<1> SUFFICES ASSUME RInv, DeviceChanges PROVE RInv'
  OBVIOUS
<1> QED
  BY SoundKept DEF RInv, Typed, Started, DeviceChanges, Binds, TcpDefault, TcpAvailableTypes

\* A connection that has been accepted claims nothing yet.
LEMMA AcceptedSound ==
  ASSUME NEW c \in Origin, Listens(FamilyOf(c.dst))
  PROVE  Accepted(c) \in Conn /\ ConnSound(Accepted(c))
<1>1. PICK k : k = Accepted(c)
  OBVIOUS
<1>2. k.from = c /\ k.state = "accepted" /\ k.target = "none"
  BY <1>1 DEF Accepted
<1>3. k \in Conn
  BY <1>1 DEF Accepted, Conn, ConnStates
<1>4. ConnSound(k)
  BY <1>2 DEF ConnSound, Going
<1> QED
  BY <1>1, <1>3, <1>4

\* One more connection.
LEMMA OneMore ==
  ASSUME RInv, stage = "listening", UNCHANGED <<os, wanted, family, stage, ty, device, pf>>,
         NEW s \in Seq(Conn), Len(s) < MaxConns, \A i \in 1 .. Len(s) : ConnSound(s[i]),
         NEW k \in Conn, ConnSound(k), conns' = Append(s, k)
  PROVE  RInv'
<1>1. conns' \in Seq(Conn) /\ Len(conns') = Len(s) + 1
  BY AppendProperties
<1>2. Len(s) \in Nat
  BY LenProperties
<1>3. Typed'
  BY <1>1, <1>2, MaxConnsAssumption DEF RInv, Typed
<1>4. Started'
  BY DEF RInv, Started, Binds, TcpDefault, TcpAvailableTypes
<1>5. ASSUME NEW i \in DOMAIN conns' PROVE ConnSound(conns[i])'
  <2>1. i \in 1 .. Len(s) + 1
    BY <1>1, <1>5, LenProperties
  <2>4. UNCHANGED <<os, family, ty, pf>>
    OBVIOUS
  <2>2. CASE i = Len(s) + 1
    <3>1. conns'[i] = k
      BY <2>2, AppendProperties
    <3> QED
      BY <2>4, <3>1, SoundKept DEF ConnSound
  <2>3. CASE i \in 1 .. Len(s)
    <3>1. conns'[i] = s[i]
      BY <2>3, AppendProperties
    <3> QED
      BY <2>3, <2>4, <3>1, SoundKept DEF ConnSound
  <2> QED
    BY <1>2, <2>1, <2>2, <2>3
<1> QED
  BY <1>3, <1>4, <1>5 DEF RInv

LEMMA AcceptStep ==
  ASSUME NEW c \in Connections
  PROVE  RInv /\ Accept(c) => RInv'
<1> SUFFICES ASSUME RInv, Accept(c) PROVE RInv'
  OBVIOUS
<1>1. c \in Origin /\ Listens(FamilyOf(c.dst))
  BY DEF Connections, Origin
<1>2. Accepted(c) \in Conn /\ ConnSound(Accepted(c))
  BY <1>1, AcceptedSound
<1>3. PICK s, k : s = conns /\ k = Accepted(c)
  OBVIOUS
<1>4. s \in Seq(Conn) /\ Len(s) < MaxConns /\ conns' = Append(s, k)
  BY <1>3 DEF RInv, Typed, Accept
<1>5. stage = "listening" /\ UNCHANGED <<os, wanted, family, stage, ty, device, pf>>
  BY DEF Accept
<1>6. \A i \in 1 .. Len(s) : ConnSound(s[i])
  BY <1>3, <1>4 DEF RInv
<1> QED
  BY <1>2, <1>3, <1>4, <1>5, <1>6, OneMore

\* The device is opened at most once, and a failure is for good.
LEMMA ForcePfSound ==
  ASSUME pf \in {"unopened", "open", "poisoned"}
  PROVE  /\ ForcePf \in {"open", "poisoned"}
         /\ pf = "open" => ForcePf = "open"
         /\ pf = "poisoned" => ForcePf = "poisoned"
BY DEF ForcePf

\* What became of the others stays true when PF is forced.
LEMMA SoundForced ==
  ASSUME UNCHANGED <<os, family, ty>>, pf \in {"unopened", "open", "poisoned"},
         pf' = IF AsksPf THEN ForcePf ELSE pf, NEW k, ConnSound(k)
  PROVE  ConnSound(k)'
BY ForcePfSound DEF ConnSound, Listens, AsksPf, Arm

\* A connection that is in the list, changed in place.
LEMMA OneChanged ==
  ASSUME NEW s \in Seq(Conn), NEW i \in 1 .. Len(s), NEW k \in Conn,
         NEW t, t = [s EXCEPT ![i] = k]
  PROVE  /\ t \in Seq(Conn)
         /\ Len(t) = Len(s)
         /\ t[i] = k
         /\ \A j \in 1 .. Len(s) : j # i => t[j] = s[j]
BY ExceptSeq

LEMMA RunStep ==
  ASSUME NEW i \in DOMAIN conns
  PROVE  RInv /\ Run(i) => RInv'
<1> SUFFICES ASSUME RInv, Run(i) PROVE RInv'
  OBVIOUS
<1>1. PICK s : s = conns
  OBVIOUS
<1>2. PICK e : e = s[i]
  OBVIOUS
<1>3. s \in Seq(Conn) /\ Len(s) \in Nat /\ DOMAIN s = 1 .. Len(s)
  BY <1>1, LenProperties DEF RInv, Typed
<1>4. i \in 1 .. Len(s) /\ e \in Conn
  BY <1>1, <1>2, <1>3
<1>5. ConnSound(e) /\ e.state = "accepted"
  BY <1>1, <1>2 DEF RInv, Run
<1>6. e.target = "none" /\ e.from \in Origin /\ Listens(FamilyOf(e.from.dst))
  BY <1>4, <1>5 DEF ConnSound, Going, Conn
<1>7. stage = "listening" /\ Binds /\ Arm # "unreachable"
  BY <1>1, <1>3, <1>4, TablesAgree DEF RInv, Typed, Started
<1>8. UNCHANGED <<os, wanted, family, stage, ty, device>> /\ pf' = IF AsksPf THEN ForcePf ELSE pf
  BY DEF Run
<1>9. pf \in {"unopened", "open", "poisoned"} /\ pf' \in {"unopened", "open", "poisoned"}
  BY <1>8, ForcePfSound DEF RInv, Typed
<1>10. AsksPf' = AsksPf /\ Listens(FamilyOf(e.from.dst))'
  BY <1>6, <1>8 DEF AsksPf, Arm, Listens
<1>11. PICK d : d = Destination(e.from)
  OBVIOUS
<1>12. /\ d \subseteq Destinations \cup {Self}
       /\ ~e.from.direct => d \subseteq {e.from.dst}
       /\ ~e.from.direct /\ d = {} => AsksPf /\ family = "dual" /\ e.from.dst = "d4"
  BY <1>6, <1>7, <1>11, DestinationSound DEF RInv, Typed
<1>13. \E k \in Conn : ConnSound(k)' /\ conns' = [s EXCEPT ![i] = k]
  <2>1. CASE AsksPf /\ pf' # "open"
    <3>1. PICK k : k = [e EXCEPT !.state = "panicked"]
      OBVIOUS
    <3>2. k \in Conn /\ k.state = "panicked" /\ k.from = e.from /\ k.target = "none"
      BY <1>4, <1>6, <3>1 DEF Conn, ConnStates
    <3>3. pf' = "poisoned"
      BY <1>8, <2>1, ForcePfSound, <1>9
    <3>4. ConnSound(k)'
      BY <1>10, <2>1, <3>2, <3>3 DEF ConnSound, Going
    <3>5. conns' = [s EXCEPT ![i] = k]
      BY <1>1, <1>2, <1>7, <2>1, <3>1 DEF Run
    <3> QED
      BY <3>2, <3>4, <3>5
  <2>2. CASE ~(AsksPf /\ pf' # "open") /\ d = {}
    <3>1. PICK k : k = [e EXCEPT !.state = "dropped"]
      OBVIOUS
    <3>2. k \in Conn /\ k.state = "dropped" /\ k.from = e.from /\ k.target = "none"
      BY <1>4, <1>6, <3>1 DEF Conn, ConnStates
    <3>4. ConnSound(k)'
      BY <1>8, <1>10, <1>12, <2>2, <3>2 DEF ConnSound, Going
    <3>5. conns' = [s EXCEPT ![i] = k]
      BY <1>1, <1>2, <1>7, <1>11, <2>2, <3>1 DEF Run
    <3> QED
      BY <3>2, <3>4, <3>5
  <2>3. CASE ~(AsksPf /\ pf' # "open") /\ d # {}
    <3>1. PICK x : x = CHOOSE y \in d : TRUE
      OBVIOUS
    <3>2. x \in d
      BY <2>3, <3>1
    <3>3. x \in Destinations \cup {Self} /\ x # "none"
      BY <1>12, <3>2 DEF Destinations, Self
    <3>4. PICK k : k = [e EXCEPT !.state = "connecting", !.target = x]
      OBVIOUS
    <3>5. k \in Conn /\ k.state = "connecting" /\ k.from = e.from /\ k.target = x
      BY <1>4, <3>3, <3>4 DEF Conn, ConnStates
    <3>6. ConnSound(k)'
      BY <1>10, <1>12, <2>3, <3>2, <3>3, <3>5 DEF ConnSound, Going
    <3>7. conns' = [s EXCEPT ![i].state = "connecting", ![i].target = x]
      BY <1>1, <1>2, <1>7, <1>11, <2>3, <3>1 DEF Run
    <3>8. conns' = [s EXCEPT ![i] = k]
      BY <1>2, <1>3, <1>4, <3>4, <3>7
    <3> QED
      BY <3>5, <3>6, <3>8
  <2> QED
    BY <2>1, <2>2, <2>3
<1>14. PICK k \in Conn : ConnSound(k)' /\ conns' = [s EXCEPT ![i] = k]
  BY <1>13
<1>15. conns' \in Seq(Conn) /\ Len(conns') = Len(s)
  BY <1>3, <1>4, <1>14, OneChanged
<1>16. Typed'
  BY <1>1, <1>8, <1>9, <1>15 DEF RInv, Typed
<1>17. Started'
  BY <1>7, <1>8 DEF RInv, Started, Binds, TcpDefault, TcpAvailableTypes
<1>18. ASSUME NEW j \in DOMAIN conns' PROVE ConnSound(conns[j])'
  <2>1. j \in 1 .. Len(s)
    BY <1>15, <1>18, LenProperties
  <2>2. CASE j = i
    <3>1. conns'[j] = k
      BY <1>3, <1>4, <1>14, <2>2, OneChanged
    <3> QED
      BY <1>14, <3>1 DEF ConnSound
  <2>3. CASE j # i
    <3>1. conns'[j] = s[j]
      BY <1>3, <1>4, <1>14, <2>1, <2>3, OneChanged
    <3>2. PICK h : h = s[j]
      OBVIOUS
    <3>3. ConnSound(h)
      BY <1>1, <1>3, <2>1, <3>2 DEF RInv
    <3>4. ConnSound(h)'
      BY <1>8, <1>9, <3>3, SoundForced
    <3> QED
      BY <3>1, <3>2, <3>4 DEF ConnSound
  <2> QED
    BY <2>2, <2>3
<1> QED
  BY <1>16, <1>17, <1>18 DEF RInv

LEMMA ConnectStep ==
  ASSUME NEW i \in DOMAIN conns
  PROVE  RInv /\ Connect(i) => RInv'
<1> SUFFICES ASSUME RInv, Connect(i) PROVE RInv'
  OBVIOUS
<1>1. PICK s : s = conns
  OBVIOUS
<1>2. PICK e : e = s[i]
  OBVIOUS
<1>3. s \in Seq(Conn) /\ Len(s) \in Nat /\ DOMAIN s = 1 .. Len(s)
  BY <1>1, LenProperties DEF RInv, Typed
<1>4. i \in 1 .. Len(s) /\ e \in Conn
  BY <1>1, <1>2, <1>3
<1>5. ConnSound(e) /\ e.state = "connecting"
  BY <1>1, <1>2 DEF RInv, Connect
<1>6. stage = "listening" /\ UNCHANGED <<os, wanted, family, stage, ty, device, pf>>
  BY <1>1, <1>3, <1>4 DEF RInv, Started, Connect
<1>7. PICK k : k = [e EXCEPT !.state = "connected"]
  OBVIOUS
<1>8. k \in Conn /\ k.state = "connected" /\ k.from = e.from /\ k.target = e.target
  BY <1>4, <1>7 DEF Conn, ConnStates
<1>9. ConnSound(k)
  BY <1>5, <1>8 DEF ConnSound, Going
<1>10. PICK left : left = [s EXCEPT ![i] = k]
  OBVIOUS
<1>11. left = [conns EXCEPT ![i].state = "connected"]
  BY <1>1, <1>2, <1>7, <1>10
<1>12. /\ left \in Seq(Conn) /\ Len(left) = Len(s) /\ left[i] = k
       /\ \A j \in 1 .. Len(s) : j # i => left[j] = s[j]
  BY <1>3, <1>4, <1>8, <1>10, OneChanged
<1>13. ASSUME NEW j \in 1 .. Len(left) PROVE ConnSound(left[j])
  <2>1. j = i => left[j] = k
    BY <1>12
  <2>2. j # i => left[j] = s[j] /\ ConnSound(s[j])
    BY <1>1, <1>3, <1>12, <1>13 DEF RInv
  <2> QED
    BY <1>9, <2>1, <2>2
<1>14. CASE e.target # Self
  <2>1. conns' = left
    BY <1>1, <1>2, <1>11, <1>14 DEF Connect
  <2>2. Typed'
    BY <1>1, <1>6, <1>12, <2>1 DEF RInv, Typed
  <2>3. Started'
    BY <1>6 DEF RInv, Started, Binds, TcpDefault, TcpAvailableTypes
  <2>4. ASSUME NEW j \in DOMAIN conns' PROVE ConnSound(conns[j])'
    <3>1. j \in 1 .. Len(left)
      BY <1>12, <2>1, <2>4, LenProperties
    <3>2. PICK h : h = left[j]
      OBVIOUS
    <3>3. ConnSound(h)
      BY <1>13, <3>1, <3>2
    <3>4. ConnSound(h)'
      BY <1>6, <3>3, SoundKept
    <3> QED
      BY <2>1, <3>2, <3>4 DEF ConnSound
  <2> QED
    BY <2>2, <2>3, <2>4 DEF RInv
<1>15. CASE e.target = Self
  <2>1. PICK c : c = [e.from EXCEPT !.direct = TRUE]
    OBVIOUS
  <2>2. e.from \in Origin
    BY <1>4 DEF Conn
  <2>3. c \in Origin /\ c.dst = e.from.dst
    BY <2>1, <2>2 DEF Origin
  <2>4. Listens(FamilyOf(c.dst))
    BY <1>5, <2>3 DEF ConnSound
  <2>5. PICK a : a = Accepted(c)
    OBVIOUS
  <2>6. a \in Conn /\ ConnSound(a)
    BY <2>3, <2>4, <2>5, AcceptedSound
  <2>7. Len(s) < MaxConns /\ conns' = Append(left, a)
    BY <1>1, <1>2, <1>11, <1>15, <2>1, <2>5 DEF Connect
  <2>8. \A j \in 1 .. Len(left) : ConnSound(left[j])
    BY <1>13
  <2> QED
    BY <1>6, <1>12, <2>6, <2>7, <2>8, OneMore
<1> QED
  BY <1>14, <1>15

LEMMA FailsStep ==
  ASSUME NEW i \in DOMAIN conns
  PROVE  RInv /\ Fails(i) => RInv'
<1> SUFFICES ASSUME RInv, Fails(i) PROVE RInv'
  OBVIOUS
<1>1. PICK s : s = conns
  OBVIOUS
<1>2. PICK e : e = s[i]
  OBVIOUS
<1>3. s \in Seq(Conn) /\ Len(s) \in Nat /\ DOMAIN s = 1 .. Len(s)
  BY <1>1, LenProperties DEF RInv, Typed
<1>4. i \in 1 .. Len(s) /\ e \in Conn /\ ConnSound(e)
  BY <1>1, <1>2, <1>3 DEF RInv
<1>5. stage = "listening" /\ UNCHANGED <<os, wanted, family, stage, ty, device>>
  BY <1>1, <1>3, <1>4 DEF RInv, Started, Fails
<1>6. /\ pf \in {"unopened", "open", "poisoned"} /\ pf' \in {"unopened", "open", "poisoned"}
      /\ pf' = pf \/ pf = "unopened"
  BY DEF RInv, Typed, Fails, ForcePf
<1>7. PICK k : k = [e EXCEPT !.state = "failed", !.target = "none"]
  OBVIOUS
<1>8. k \in Conn /\ k.state = "failed" /\ k.from = e.from /\ k.target = "none"
  BY <1>4, <1>7 DEF Conn, ConnStates
<1>9. ConnSound(k)'
  BY <1>4, <1>5, <1>8 DEF ConnSound, Going, Listens
<1>10. conns' = [s EXCEPT ![i] = k]
  <2>1. conns' = [s EXCEPT ![i].state = "failed", ![i].target = "none"]
    BY <1>1 DEF Fails
  <2> QED
    BY <1>2, <1>3, <1>4, <1>7, <2>1
<1>11. /\ conns' \in Seq(Conn) /\ Len(conns') = Len(s) /\ conns'[i] = k
       /\ \A j \in 1 .. Len(s) : j # i => conns'[j] = s[j]
  BY <1>3, <1>4, <1>8, <1>10, OneChanged
<1>12. Typed'
  BY <1>1, <1>5, <1>6, <1>11 DEF RInv, Typed
<1>13. Started'
  BY <1>5 DEF RInv, Started, Binds, TcpDefault, TcpAvailableTypes
<1>14. ASSUME NEW j \in DOMAIN conns' PROVE ConnSound(conns[j])'
  <2>1. j \in 1 .. Len(s)
    BY <1>11, <1>14, LenProperties
  <2>2. CASE j = i
    BY <1>9, <1>11, <2>2 DEF ConnSound
  <2>3. CASE j # i
    <3>1. PICK h : h = s[j]
      OBVIOUS
    <3>2. ConnSound(h) /\ conns'[j] = h
      BY <1>1, <1>3, <1>11, <2>1, <2>3, <3>1 DEF RInv
    <3>3. ConnSound(h)'
      BY <1>5, <1>6, <3>2 DEF ConnSound, Listens, AsksPf, Arm
    <3> QED
      BY <3>2, <3>3 DEF ConnSound
  <2> QED
    BY <2>2, <2>3
<1> QED
  BY <1>12, <1>13, <1>14 DEF RInv

LEMMA RInvariant == RInv /\ [Next]_vars => RInv'
<1> SUFFICES ASSUME RInv, [Next]_vars PROVE RInv'
  OBVIOUS
<1>1. CASE UNCHANGED vars
  BY <1>1 DEF vars, RInv, Typed, Started, ConnSound, Listens, AsksPf, Arm, Binds, TcpDefault,
              TcpAvailableTypes
<1>2. CASE Parse
  BY <1>2, ParseStep
<1>3. CASE BindRedir
  BY <1>3, BindRedirStep
<1>4. CASE DeviceChanges
  BY <1>4, DeviceStep
<1>5. CASE \E c \in Connections : Accept(c)
  BY <1>5, AcceptStep
<1>6. CASE \E i \in DOMAIN conns : Run(i) \/ Connect(i) \/ Fails(i)
  BY <1>6, RunStep, ConnectStep, FailsStep
<1> QED
  BY <1>1, <1>2, <1>3, <1>4, <1>5, <1>6 DEF Next

----------------------------------------------------------------------------
(***************************************************************************)
(* The theorems.                                                           *)
(***************************************************************************)
\* RInv is invariant.
THEOREM RedirectionInvariant == Spec => []RInv
<1>1. Init => RInv
  BY RInit
<1>2. RInv /\ [Next]_vars => RInv'
  BY RInvariant
<1> QED
  BY <1>1, <1>2, PTL DEF Spec

\* The matches of from_str, bind_redir and destination_addr agree under their own
\* cfgs, with each other and with tcp_available_types and tcp_default: what is
\* offered is parsed and bound, and no arm of unreachable! is reached.
THEOREM WhatIsOfferedWorks == Spec => []OfferedWorks
<1>1. RInv => OfferedWorks
  BY DEF RInv, Started, ConnSound, OfferedWorks
<1> QED
  BY <1>1, RedirectionInvariant, PTL

\* A connection that was redirected goes where it was meant to go or nowhere
\* (destination_addr on every system).
THEOREM RedirectedIsRight == Spec => []RightDestination
<1>1. RInv => RightDestination
  BY DEF RInv, ConnSound, RightDestination
<1> QED
  BY <1>1, RedirectionInvariant, PTL

\* Unless another call fails, it goes nowhere only for pf: an IPv4 connection on
\* an IPv6 listener, or a device that could not be opened the first time it was
\* needed (tcp_natlook, PF).
THEOREM OnlyPfFails == Spec => []FailsOnlyWithPf
<1>1. ASSUME RInv PROVE TypeOK
  <2>1. ASSUME NEW i \in DOMAIN conns
        PROVE  /\ conns[i].state \in ConnStates
               /\ conns[i].state \in Going <=> conns[i].target \in Destinations \cup {Self}
    <3>1. conns[i] \in Conn /\ ConnSound(conns[i])
      BY <1>1 DEF RInv, Typed
    <3>2. conns[i].target \in Destinations \cup {Self, "none"} /\ "none" \notin Destinations \cup {Self}
      BY <3>1 DEF Conn, Destinations, Self
    <3> QED
      BY <3>1, <3>2 DEF ConnSound, Conn
  <2> QED
    BY <1>1, <2>1 DEF TypeOK, RInv, Typed, ConnStates, Going
<1>2. RInv => FailsOnlyWithPf
  BY <1>1 DEF RInv, ConnSound, FailsOnlyWithPf, Going
<1> QED
  BY <1>2, RedirectionInvariant, PTL
=============================================================================
