----------------------------- MODULE Addresses -----------------------------
(***************************************************************************)
(* Addresses and their text: SocketAddr and HostName of utils/addr.rs.     *)
(*                                                                         *)
(* A text is a sequence of tokens, cut where the code looks: brackets,     *)
(* colons, at signs, and what stands between them.  What a parser makes of *)
(* a text is the set of its results: one, or none where it fails.          *)
(***************************************************************************)
EXTENDS Naturals, Sequences

\* The numerals among the tokens, and what they mean as a port.
Numerals == {"1", "80", "443", "8080"}
PortOf == [t \in Numerals |->
  CASE t = "1" -> 1 [] t = "80" -> 80 [] t = "443" -> 443 [] t = "8080" -> 8080]
NumeralOf(p) == CHOOSE t \in Numerals : PortOf[t] = p

NoPort == 0

V4Text == <<"192.0.2.1">>
V6Text == <<":", ":", "1">>
MappedText == <<":", ":", "ffff", ":", "192.0.2.1">>  \* the same host as V4Text
NameText == <<"example">>

V4 == [kind |-> "V4", text |-> V4Text]
V6 == [kind |-> "V6", text |-> V6Text]
Domain(s) == [kind |-> "Domain", text |-> s]

----------------------------------------------------------------------------
\* str::rsplit_once and str::split_once: the parts before and behind the last,
\* or the first, c.
Places(s, c) == {i \in DOMAIN s : s[i] = c}
SplitAt(s, i) == <<SubSeq(s, 1, i - 1), SubSeq(s, i + 1, Len(s))>>
RSplit(s, c) == {SplitAt(s, i) : i \in {k \in Places(s, c) : \A j \in Places(s, c) : j <= k}}
Split(s, c) == {SplitAt(s, i) : i \in {k \in Places(s, c) : \A j \in Places(s, c) : k <= j}}

\* u16::from_str.
ParsePort(s) == IF Len(s) = 1 /\ s[1] \in Numerals THEN {PortOf[s[1]]} ELSE {}

Unbracketed(s) ==
  IF Len(s) >= 2 /\ s[1] = "[" /\ s[Len(s)] = "]" THEN SubSeq(s, 2, Len(s) - 1) ELSE s

\* HostName::from_str.  An IPv4-mapped address becomes an IPv4 address.
HostName(s) ==
  LET t == Unbracketed(s)
  IN  CASE t \in {V4Text, MappedText} -> V4
        [] t = V6Text -> V6
        [] OTHER -> Domain(t)

\* (were the port split off at the first colon)
FromStrFirst(s) ==
  UNION {{[hostname |-> HostName(p[1]), port |-> q] : q \in ParsePort(p[2])} : p \in Split(s, ":")}

\* SocketAddr::from_str: the port is required.
FromStr(s) ==
  UNION {{[hostname |-> HostName(p[1]), port |-> q] : q \in ParsePort(p[2])} : p \in RSplit(s, ":")}

\* SocketAddr::parse_host_header: what has a colon has a port.
ParseHostHeader(s) ==
  IF RSplit(s, ":") = {} THEN {[hostname |-> HostName(s), port |-> NoPort]} ELSE FromStr(s)

\* From<std::net::SocketAddr>: an address the system reports.
FromStd(ip, port) == [hostname |-> HostName(ip), port |-> port]

\* HostName::to_string_url_style.
ToUrlStyle(h) == IF h.kind = "V6" THEN <<"[">> \o h.text \o <<"]">> ELSE h.text

\* Display of SocketAddr (and TcpStream::connect and CONNECT read it back).
Display(a) == ToUrlStyle(a.hostname) \o <<":", NumeralOf(a.port)>>

----------------------------------------------------------------------------
(***************************************************************************)
(* What a text means: the reference the code is compared with.             *)
(*                                                                         *)
(*   authority = [ userinfo "@" ] host [ ":" [ port ] ]                    *)
(*   host = name | IPv4 | "[" IPv6 "]"                                     *)
(***************************************************************************)
Hosts == {<<NameText, Domain(NameText)>>, <<V4Text, V4>>,
          <<<<"[">> \o V6Text \o <<"]">>, V6>>, <<<<"[">> \o MappedText \o <<"]">>, V4>>}

Suffixes == {<<<<>>, NoPort>>, <<<<":">>, NoPort>>} \cup {<<<<":", t>>, PortOf[t]>> : t \in Numerals}

Meaning(s) ==
  {[hostname |-> hp[1][2], port |-> hp[2][2]] : hp \in {x \in Hosts \X Suffixes : x[1][1] \o x[2][1] = s}}

\* ... with the port that goes without saying.
MeaningFor(s, port) ==
  {[m EXCEPT !.port = IF @ = NoPort THEN port ELSE @] : m \in Meaning(s)}
=============================================================================
