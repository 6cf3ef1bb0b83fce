--------------------------- MODULE StartupProofs ---------------------------
(***************************************************************************)
(* Proofs that main keeps what the configuration file says and puts every  *)
(* upstream proxy of it on the stack, for any configuration, whatever is   *)
(* typed at the terminal.                                                  *)
(*                                                                         *)
(* ConfiguredKept speaks of the proxies behind the dialogue.  It is        *)
(* inductive only with what the dialogue has done so far to the proxy it   *)
(* is about, and with those in front of it being as they were read         *)
(* (Dialogue).  StackComplete speaks of the end; until then the stack is   *)
(* complete for the proxies that have been built (Built), which needs the  *)
(* place each of them was put at.                                          *)
(***************************************************************************)
EXTENDS Startup, SequenceTheorems, TLAPS

Elements == {Layer("raw"), Layer("tls")} \cup ProxyConfs

Typed ==
  /\ conf \in Files /\ read \in Files
  /\ Len(read.proxies) = Len(conf.proxies)
  /\ stage \in {"user", "password", "build", "start", "panicked", "ended"}
  /\ at \in 1 .. Len(conf.proxies) + 1
  /\ stack \in Seq(Elements)
  /\ inbound \in [InboundSet -> {"pending", "serving", "returned"}]
  /\ bound \in [InboundSet -> Nat]
  /\ \A i \in InboundSet : bound[i] <= Count(i)

\* What the dialogue has changed: nothing in front of it; a user name, where
\* the file has none; and a password only behind a user name.
Dialogue ==
  /\ stage \in {"user", "password", "build"} => at <= Len(conf.proxies)
  /\ stage \in {"start", "ended"} => at = Len(conf.proxies) + 1
  /\ \A n \in 1 .. Len(conf.proxies) : n > at => conf.proxies[n] = read.proxies[n]
  /\ stage = "user" => conf.proxies[at] = read.proxies[at] /\ read.proxies[at].user = "absent"
  /\ stage = "password" => read.proxies[at].user = "absent" /\ read.proxies[at].password = "absent"
  /\ stage = "build" =>
       /\ read.proxies[at].user # "absent" => conf.proxies[at] = read.proxies[at]
       /\ read.proxies[at].password # "absent" => conf.proxies[at].password = read.proxies[at].password

\* The stack is complete for the proxies built, at the places "place" says.
BuiltAt(place) ==
  /\ place \in [1 .. at - 1 -> 2 .. Len(stack)]
  /\ \A k, m \in 1 .. at - 1 : k < m => place[k] < place[m]
  /\ \A n \in 1 .. at - 1 : InPlace(n, place[n])
  /\ \A k \in 2 .. Len(stack) : \E n \in 1 .. at - 1 :
       k = place[n] \/ (k = place[n] - 1 /\ conf.proxies[n].layer = "tls")

Built ==
  /\ Len(stack) >= 1 /\ stack[1] = Layer("raw")
  /\ \E place : BuiltAt(place)
  /\ \A n \in 1 .. at - 1 :
       conf.proxies[n].protocol # "http" => "bad" \notin {conf.proxies[n].user, conf.proxies[n].password}

IInv == Typed /\ Dialogue /\ ConfiguredKept /\ Built

----------------------------------------------------------------------------
LEMMA FileFacts ==
  ASSUME NEW c \in Files
  PROVE  /\ c = [proxies |-> c.proxies, listen |-> c.listen, redir |-> c.redir]
         /\ c.proxies \in Seq(ProxyConfs) /\ Len(c.proxies) \in Nat /\ DOMAIN c.proxies = 1 .. Len(c.proxies)
         /\ \A n \in 1 .. Len(c.proxies) :
              /\ c.proxies[n] \in ProxyConfs
              /\ c.proxies[n].user \in Credentials /\ c.proxies[n].password \in Credentials
         /\ c.listen \in [InboundSet -> Seq(STRING)]
<1>1. c.proxies \in Seq(ProxyConfs) /\ c.listen \in [InboundSet -> Seq(STRING)]
      /\ c = [proxies |-> c.proxies, listen |-> c.listen, redir |-> c.redir]
  BY DEF Files
<1>2. ASSUME NEW n \in 1 .. Len(c.proxies) PROVE c.proxies[n] \in ProxyConfs
  BY <1>1
<1>3. \A p \in ProxyConfs : p.user \in Credentials /\ p.password \in Credentials
  BY DEF ProxyConfs
<1> QED
  BY <1>1, <1>2, <1>3

\* The configuration with another n-th proxy.
LEMMA Rewritten ==
  ASSUME NEW c \in Files, NEW n \in 1 .. Len(c.proxies), NEW p \in ProxyConfs,
         NEW d, d = [c EXCEPT !.proxies[n] = p]
  PROVE  /\ d \in Files /\ Len(d.proxies) = Len(c.proxies) /\ d.listen = c.listen /\ d.redir = c.redir
         /\ d.proxies[n] = p
         /\ \A m \in 1 .. Len(c.proxies) : m # n => d.proxies[m] = c.proxies[m]
<1>1. c.proxies \in Seq(ProxyConfs) /\ c.listen \in [InboundSet -> Seq(STRING)] /\ c.redir \in BOOLEAN
  BY DEF Files
<1>2. PICK s : s = [c.proxies EXCEPT ![n] = p]
  OBVIOUS
<1>3. s \in Seq(ProxyConfs) /\ Len(s) = Len(c.proxies) /\ s[n] = p
  BY <1>1, <1>2
<1>4. \A m \in 1 .. Len(c.proxies) : m # n => s[m] = c.proxies[m]
  BY <1>1, <1>2
<1>5. d = [proxies |-> s, listen |-> c.listen, redir |-> c.redir]
  BY <1>2 DEF Files
<1>6. [proxies |-> s, listen |-> c.listen, redir |-> c.redir] \in Files
  BY <1>1, <1>3 DEF Files
<1>7. d \in Files /\ d.proxies = s /\ d.listen = c.listen /\ d.redir = c.redir
  <2>1. PICK r : r = [proxies |-> s, listen |-> c.listen, redir |-> c.redir]
    OBVIOUS
  <2>2. r \in Files /\ r.proxies = s /\ r.listen = c.listen /\ r.redir = c.redir
    BY <1>6, <2>1
  <2>3. d = r
    BY <1>5, <2>1
  <2> QED
    BY ONLY <2>2, <2>3
<1> QED
  BY <1>3, <1>4, <1>7

LEMMA Sizes ==
  ASSUME Typed
  PROVE  /\ Len(conf.proxies) \in Nat /\ Len(read.proxies) = Len(conf.proxies)
         /\ at \in Nat \ {0} /\ at <= Len(conf.proxies) + 1
         /\ at - 1 \in Nat
  BY FileFacts DEF Typed

LEMMA BuiltKept ==
  ASSUME Typed, Built, UNCHANGED <<at, stack>>,
         \A n \in 1 .. at - 1 : conf'.proxies[n] = conf.proxies[n]
  PROVE  Built'
<1>1. at - 1 \in Nat
  BY Sizes
<1>2. PICK place : BuiltAt(place)
  BY DEF Built
<1>3. \A n \in 1 .. at - 1 : InPlace(n, place[n])'
  BY <1>2 DEF BuiltAt, InPlace, Layer
<1>4. BuiltAt(place)'
  BY <1>2, <1>3 DEF BuiltAt
<1> QED
  BY <1>4 DEF Built, Layer

\* A step of the dialogue: all it changes is the proxy the dialogue is about.
LEMMA ProxyRewritten ==
  ASSUME IInv, at <= Len(conf.proxies), NEW p \in ProxyConfs,
         conf' = [conf EXCEPT !.proxies[at] = p],
         stage' \in {"password", "build"},
         UNCHANGED <<read, at, stack, inbound, bound>>
  PROVE  /\ Typed' /\ ConfiguredKept' /\ Built'
         /\ Len(conf'.proxies) = Len(conf.proxies) /\ conf'.proxies[at] = p
         /\ \A m \in 1 .. Len(conf.proxies) : m # at => conf'.proxies[m] = conf.proxies[m]
<1>1. at \in 1 .. Len(conf.proxies) /\ at - 1 \in Nat /\ conf \in Files
  BY Sizes DEF IInv, Typed
<1>2. /\ conf' \in Files /\ Len(conf'.proxies) = Len(conf.proxies) /\ conf'.listen = conf.listen
      /\ conf'.proxies[at] = p
      /\ \A m \in 1 .. Len(conf.proxies) : m # at => conf'.proxies[m] = conf.proxies[m]
  BY <1>1, Rewritten
<1>3. Typed'
  <2>1. \A i \in InboundSet : Count(i)' = Count(i)
    BY <1>2 DEF Count
  <2> QED
    BY <1>2, <2>1 DEF IInv, Typed
<1>4. \A n \in 1 .. at - 1 : conf'.proxies[n] = conf.proxies[n]
  BY <1>1, <1>2
<1>5. ConfiguredKept'
  BY <1>4 DEF IInv, ConfiguredKept
<1>6. Built'
  BY <1>4, BuiltKept DEF IInv
<1> QED
  BY <1>2, <1>3, <1>5, <1>6

LEMMA ReadUserStep ==
  ASSUME IInv, NEW line \in Lines, ReadUser(line)
  PROVE  IInv'
<1>1. /\ stage = "user" /\ at <= Len(conf.proxies)
      /\ conf' = [conf EXCEPT !.proxies[at].user = line]
      /\ stage' = (IF conf.proxies[at].password = "absent" THEN "password" ELSE "build")
      /\ UNCHANGED <<read, at, stack, inbound, bound>>
  BY DEF ReadUser, IInv, Dialogue, Proxy
<1>2. PICK p : p = [conf.proxies[at] EXCEPT !.user = line]
  OBVIOUS
<1>3. conf.proxies[at] \in ProxyConfs /\ at \in 1 .. Len(conf.proxies) /\ Len(conf.proxies) \in Nat
  <2>1. Len(conf.proxies) \in Nat /\ at \in Nat \ {0}
    BY Sizes DEF IInv
  <2>2. at <= Len(conf.proxies)
    BY <1>1
  <2>3. at \in 1 .. Len(conf.proxies)
    BY <2>1, <2>2
  <2> QED
    BY <2>1, <2>3, FileFacts DEF IInv, Typed
<1>4. p \in ProxyConfs /\ p.password = conf.proxies[at].password
  BY <1>2, <1>3 DEF ProxyConfs, Credentials
<1>5. conf' = [conf EXCEPT !.proxies[at] = p]
  BY <1>1, <1>2
<1>6. /\ Typed' /\ ConfiguredKept' /\ Built'
      /\ Len(conf'.proxies) = Len(conf.proxies) /\ conf'.proxies[at] = p
      /\ \A m \in 1 .. Len(conf.proxies) : m # at => conf'.proxies[m] = conf.proxies[m]
  BY <1>1, <1>4, <1>5, ProxyRewritten
<1>7. conf.proxies[at] = read.proxies[at] /\ read.proxies[at].user = "absent"
  BY <1>1 DEF IInv, Dialogue
<1>8. Dialogue'
  <2>1. \A n \in 1 .. Len(conf.proxies) : n > at => conf'.proxies[n] = read.proxies[n]
    <3> TAKE n \in 1 .. Len(conf.proxies)
    <3>1. n > at => n # at
      BY <1>3
    <3> QED
      BY <3>1, <1>6 DEF IInv, Dialogue
  <2> QED
    BY <1>1, <1>3, <1>4, <1>6, <1>7, <2>1 DEF Dialogue
<1> QED
  BY <1>6, <1>8 DEF IInv

LEMMA ReadPasswordStep ==
  ASSUME IInv, NEW line \in Lines, ReadPassword(line)
  PROVE  IInv'
<1> DEFINE password == IF line = Empty THEN "absent" ELSE line
<1>1. /\ stage = "password" /\ at <= Len(conf.proxies)
      /\ conf' = [conf EXCEPT !.proxies[at].password = password]
      /\ stage' = "build"
      /\ UNCHANGED <<read, at, stack, inbound, bound>>
  BY DEF ReadPassword, IInv, Dialogue
<1>2. PICK p : p = [conf.proxies[at] EXCEPT !.password = password]
  OBVIOUS
<1>3. conf.proxies[at] \in ProxyConfs /\ at \in 1 .. Len(conf.proxies) /\ Len(conf.proxies) \in Nat
  <2>1. Len(conf.proxies) \in Nat /\ at \in Nat \ {0}
    BY Sizes DEF IInv
  <2>2. at <= Len(conf.proxies)
    BY <1>1
  <2>3. at \in 1 .. Len(conf.proxies)
    BY <2>1, <2>2
  <2> QED
    BY <2>1, <2>3, FileFacts DEF IInv, Typed
<1>4. p \in ProxyConfs
  <2>1. password \in Credentials
    BY DEF Credentials
  <2> QED
    BY <1>2, <1>3, <2>1 DEF ProxyConfs
<1>5. conf' = [conf EXCEPT !.proxies[at] = p]
  BY <1>1, <1>2
<1>6. /\ Typed' /\ ConfiguredKept' /\ Built'
      /\ Len(conf'.proxies) = Len(conf.proxies) /\ conf'.proxies[at] = p
      /\ \A m \in 1 .. Len(conf.proxies) : m # at => conf'.proxies[m] = conf.proxies[m]
  BY <1>1, <1>4, <1>5, ProxyRewritten
<1>7. read.proxies[at].user = "absent" /\ read.proxies[at].password = "absent"
  BY <1>1 DEF IInv, Dialogue
<1>8. Dialogue'
  <2>1. \A n \in 1 .. Len(conf.proxies) : n > at => conf'.proxies[n] = read.proxies[n]
    <3> TAKE n \in 1 .. Len(conf.proxies)
    <3>1. n > at => n # at
      BY <1>3
    <3> QED
      BY <3>1, <1>6 DEF IInv, Dialogue
  <2> QED
    BY <1>1, <1>3, <1>4, <1>6, <1>7, <2>1 DEF Dialogue
<1> QED
  BY <1>6, <1>8 DEF IInv

\* One more element on a stack.
LEMMA Pushed ==
  ASSUME NEW s \in Seq(Elements), NEW e \in Elements
  PROVE  /\ s \o <<e>> \in Seq(Elements)
         /\ Len(s \o <<e>>) = Len(s) + 1
         /\ (s \o <<e>>)[Len(s) + 1] = e
         /\ \A k \in 1 .. Len(s) : (s \o <<e>>)[k] = s[k]
  OBVIOUS

\* A proxy's layer, if it has one, and the proxy go onto the stack.
Grown(s, p) == s \o (IF p.layer = Empty THEN <<>> ELSE <<Layer(p.layer)>>) \o <<p>>

LEMMA StackGrows ==
  ASSUME NEW s \in Seq(Elements), NEW p \in ProxyConfs, p.layer \in {Empty, "tls"}
  PROVE  /\ Grown(s, p) \in Seq(Elements)
         /\ \A k \in 1 .. Len(s) : Grown(s, p)[k] = s[k]
         /\ Grown(s, p)[Len(Grown(s, p))] = p
         /\ \/ p.layer # "tls" /\ Len(Grown(s, p)) = Len(s) + 1
            \/ p.layer = "tls" /\ Len(Grown(s, p)) = Len(s) + 2 /\ Grown(s, p)[Len(Grown(s, p)) - 1] = Layer("tls")
<1> DEFINE u == Grown(s, p)
<1>1. p \in Elements /\ Layer("tls") \in Elements
  BY Zenon DEF Elements
<1>2. CASE p.layer = Empty
  <2>1. s \o <<>> = s
    OBVIOUS
  <2>2. u = s \o <<p>>
    BY <1>2, <2>1, Zenon DEF Grown
  <2>3. p.layer # "tls"
    BY <1>2, Zenon DEF Empty
  <2> QED
    BY <1>1, <2>2, <2>3, Pushed
<1>3. CASE p.layer # Empty
  <2>1. PICK t : t = s \o <<Layer("tls")>>
    OBVIOUS
  <2>2. p.layer = "tls"
    BY <1>3
  <2>3. u = t \o <<p>>
    BY <1>3, <2>1, <2>2, Zenon DEF Grown
  <2>4. /\ t \in Seq(Elements) /\ Len(t) = Len(s) + 1 /\ t[Len(s) + 1] = Layer("tls")
        /\ \A k \in 1 .. Len(s) : t[k] = s[k]
    BY <1>1, <2>1, Pushed
  <2>5. /\ u \in Seq(Elements) /\ Len(u) = Len(t) + 1 /\ u[Len(t) + 1] = p
        /\ \A k \in 1 .. Len(t) : u[k] = t[k]
    <3>1. /\ t \o <<p>> \in Seq(Elements) /\ Len(t \o <<p>>) = Len(t) + 1 /\ (t \o <<p>>)[Len(t) + 1] = p
          /\ \A k \in 1 .. Len(t) : (t \o <<p>>)[k] = t[k]
      BY <1>1, <2>4, Pushed, Zenon
    <3> QED
      BY <2>3, <3>1, Zenon
  <2>6. Len(s) \in Nat
    OBVIOUS
  <2> QED
    BY ONLY <2>2, <2>4, <2>5, <2>6
<1> QED
  BY <1>2, <1>3

LEMMA BuildStep ==
  ASSUME IInv, Build
  PROVE  IInv'
<1> DEFINE user == IF conf.proxies[at].user = Empty THEN "absent" ELSE conf.proxies[at].user
<1>1. PICK p : p = [conf.proxies[at] EXCEPT !.user = user]
  OBVIOUS
<1>2. /\ stage = "build" /\ conf' = [conf EXCEPT !.proxies[at] = p]
      /\ \/ /\ Buildable(p)
            /\ stack' = stack \o (IF p.layer = Empty THEN <<>> ELSE <<Layer(p.layer)>>) \o <<p>>
            /\ at' = at + 1
            /\ stage' = Entry(conf, at + 1)
         \/ stage' = "panicked" /\ UNCHANGED <<at, stack>>
      /\ UNCHANGED <<read, inbound, bound>>
  <2>1. p = [Proxy EXCEPT !.user = IF @ = Empty THEN "absent" ELSE @]
    BY <1>1 DEF Proxy
  <2> QED
    BY <2>1, Zenon DEF Build
<1>3. conf.proxies[at] \in ProxyConfs /\ at \in 1 .. Len(conf.proxies) /\ Len(conf.proxies) \in Nat
  <2>1. Len(conf.proxies) \in Nat /\ at \in Nat \ {0}
    BY Sizes DEF IInv
  <2>2. at <= Len(conf.proxies)
    BY <1>2 DEF IInv, Dialogue
  <2>3. at \in 1 .. Len(conf.proxies)
    BY <2>1, <2>2
  <2> QED
    BY <2>1, <2>3, FileFacts DEF IInv, Typed
<1>4. p \in ProxyConfs /\ p.user = user /\ p.password = conf.proxies[at].password
  <2>1. user \in Credentials
    BY <1>3 DEF ProxyConfs, Credentials
  <2> QED
    BY <1>1, <1>3, <2>1 DEF ProxyConfs
<1>5. /\ conf' \in Files /\ Len(conf'.proxies) = Len(conf.proxies) /\ conf'.listen = conf.listen
      /\ conf'.proxies[at] = p
      /\ \A m \in 1 .. Len(conf.proxies) : m # at => conf'.proxies[m] = conf.proxies[m]
  <2>1. conf \in Files
    BY DEF IInv, Typed
  <2>2. conf' = [conf EXCEPT !.proxies[at] = p]
    BY <1>2
  <2>3. at \in 1 .. Len(conf.proxies) /\ p \in ProxyConfs
    BY <1>3, <1>4
  <2> QED
    BY <2>1, <2>2, <2>3, Rewritten, SMTT(30)
<1>6. \A n \in 1 .. at - 1 : conf'.proxies[n] = conf.proxies[n]
  BY <1>3, <1>5
<1>7. \A n \in 1 .. Len(conf.proxies) : n > at => conf'.proxies[n] = conf.proxies[n] /\ conf.proxies[n] = read.proxies[n]
  <2> TAKE n \in 1 .. Len(conf.proxies)
  <2>1. n > at => n # at
    BY <1>3
  <2> QED
    BY <1>5, <2>1 DEF IInv, Dialogue
<1>8. \A i \in InboundSet : Count(i)' = Count(i)
  BY <1>5 DEF Count
<1>9. CASE stage' = "panicked" /\ UNCHANGED <<at, stack>>
  <2>1. Typed'
    BY <1>2, <1>5, <1>8, <1>9 DEF IInv, Typed
  <2>2. Dialogue'
    BY <1>2, <1>5, <1>7, <1>9 DEF Dialogue
  <2>3. ConfiguredKept'
    BY <1>2, <1>6, <1>9 DEF IInv, ConfiguredKept
  <2>4. Built'
    BY <1>6, <1>9, BuiltKept DEF IInv
  <2> QED
    BY <2>1, <2>2, <2>3, <2>4 DEF IInv
<1>10. CASE /\ Buildable(p)
            /\ stack' = stack \o (IF p.layer = Empty THEN <<>> ELSE <<Layer(p.layer)>>) \o <<p>>
            /\ at' = at + 1
            /\ stage' = Entry(conf, at + 1)
  <2>1. /\ stack \in Seq(Elements) /\ p.layer \in {Empty, "tls"}
        /\ p.protocol # "http" => "bad" \notin {p.user, p.password}
    BY <1>10 DEF IInv, Typed, Buildable, Fits
  <2>2. /\ stack' \in Seq(Elements)
        /\ \A k \in 1 .. Len(stack) : stack'[k] = stack[k]
        /\ stack'[Len(stack')] = p
        /\ \/ p.layer # "tls" /\ Len(stack') = Len(stack) + 1
           \/ p.layer = "tls" /\ Len(stack') = Len(stack) + 2 /\ stack'[Len(stack') - 1] = Layer("tls")
    <3>1. p \in ProxyConfs
      BY <1>4
    <3>2. stack' = Grown(stack, p)
      BY <1>10, Zenon DEF Grown
    <3>3. stack \in Seq(Elements) /\ p.layer \in {Empty, "tls"}
      BY <2>1
    <3> QED
      BY <3>1, <3>2, <3>3, StackGrows, ZenonT(40)
  <2>3. \/ stage' = "start" /\ at + 1 > Len(conf.proxies)
        \/ /\ at + 1 <= Len(conf.proxies) /\ stage' \in {"user", "build"}
           /\ stage' = "user" <=> conf.proxies[at + 1].user = "absent"
    BY <1>3, <1>10 DEF Entry
  <2>4. Typed'
    BY <1>2, <1>3, <1>5, <1>8, <1>10, <2>2, <2>3 DEF IInv, Typed
  <2>5. Dialogue'
    <3>1. at + 1 <= Len(conf.proxies) =>
            conf'.proxies[at + 1] = read.proxies[at + 1] /\ conf.proxies[at + 1] = read.proxies[at + 1]
      BY <1>3, <1>7
    <3>2. \A n \in 1 .. Len(conf.proxies) : n > at + 1 => conf'.proxies[n] = read.proxies[n]
      BY <1>3, <1>7
    <3>3. stage' = "start" => at + 1 = Len(conf.proxies) + 1
      BY <1>3, <2>3
    <3>4. stage' = "user" => read.proxies[at + 1].user = "absent" /\ at + 1 <= Len(conf.proxies)
      BY <2>3, <3>1
    <3> QED
      BY <1>2, <1>5, <1>10, <2>3, <3>1, <3>2, <3>3, <3>4 DEF Dialogue
  <2>6. ConfiguredKept'
    <3> DEFINE file == read.proxies[at]
    <3>1. /\ file.user # "absent" => conf.proxies[at] = file
          /\ file.password # "absent" => conf.proxies[at].password = file.password
      BY <1>2 DEF IInv, Dialogue
    <3>2. /\ file.user \notin {"absent", Empty} => p.user = file.user
          /\ file.password # "absent" \/ file.user # "absent" => p.password = file.password
      BY <1>4, <3>1
    <3>3. file.user = Empty => p.user = "absent"
      <4>1. Empty # "absent"
        BY Zenon DEF Empty
      <4> QED
        BY <1>4, <3>1, <4>1
    <3>4. \A n \in 1 .. at : n = at \/ n \in 1 .. at - 1
      BY <1>3
    <3>5. at' - 1 = at
      BY <1>3, <1>10
    <3>6. ASSUME NEW n \in 1 .. at
          PROVE  /\ read.proxies[n].user \notin {"absent", Empty} => conf'.proxies[n].user = read.proxies[n].user
                 /\ read.proxies[n].user = Empty => conf'.proxies[n].user = "absent"
                 /\ read.proxies[n].password # "absent" \/ read.proxies[n].user # "absent" =>
                      conf'.proxies[n].password = read.proxies[n].password
      BY <1>5, <1>6, <3>2, <3>3, <3>4 DEF IInv, ConfiguredKept
    <3> QED
      BY <1>2, <3>5, <3>6 DEF ConfiguredKept
  <2>7. Built'
    <3>1. PICK place : BuiltAt(place)
      BY DEF IInv, Built
    <3>2. PICK q : q = [n \in 1 .. at |-> IF n < at THEN place[n] ELSE Len(stack')]
      OBVIOUS
    <3>3. PICK l \in Nat, m \in Nat : l = Len(stack) /\ m = Len(stack') /\ (m = l + 1 \/ m = l + 2)
      <4>1. Len(stack) \in Nat /\ Len(stack') \in Nat
        BY <2>1, <2>2
      <4> QED
        BY <4>1, <2>2
    <3>4. l >= 1
      BY <3>3 DEF IInv, Built
    <3>5. /\ \A n \in 1 .. at - 1 : place[n] \in 2 .. l
          /\ \A k, n \in 1 .. at - 1 : k < n => place[k] < place[n]
      BY <3>1, <3>3 DEF BuiltAt
    <3>6. at \in Nat \ {0} /\ (\A n \in 1 .. at : n = at \/ n \in 1 .. at - 1)
      BY <1>3
    <3>7. /\ q[at] = m
          /\ \A n \in 1 .. at - 1 : q[n] = place[n] /\ n \in 1 .. at
      BY <3>2, <3>3, <3>6
    <3>8. q \in [1 .. at -> 2 .. m]
      <4>1. \A n \in 1 .. at : q[n] \in 2 .. m
        <5> TAKE n \in 1 .. at
        <5>1. CASE n = at
          BY <5>1, <3>3, <3>4, <3>7
        <5>2. CASE n \in 1 .. at - 1
          <6>1. q[n] = place[n] /\ place[n] \in 2 .. l
            BY <5>2, <3>5, <3>7
          <6> QED
            BY <6>1, <3>3
        <5> QED
          BY <3>6, <5>1, <5>2
      <4> QED
        BY <3>2, <4>1
    <3>9. \A k, n \in 1 .. at : k < n => q[k] < q[n]
      <4> SUFFICES ASSUME NEW k \in 1 .. at, NEW n \in 1 .. at, k < n PROVE q[k] < q[n]
        OBVIOUS
      <4>1. k \in 1 .. at - 1 /\ q[k] = place[k] /\ place[k] \in 2 .. l
        <5>1. k \in 1 .. at - 1
          BY <3>6
        <5> QED
          BY <5>1, <3>5, <3>7
      <4>2. CASE n = at
        BY <4>1, <4>2, <3>3, <3>7
      <4>3. CASE n \in 1 .. at - 1
        BY <4>1, <4>3, <3>5, <3>7
      <4> QED
        BY <3>6, <4>2, <4>3
    <3>10. \A k \in 1 .. l : stack'[k] = stack[k]
      BY <2>2, <3>3
    <3>11. ASSUME NEW n \in 1 .. at
           PROVE  InPlace(n, q[n])'
      <4>1. CASE n = at
        <5>1. stack'[m] = p /\ (p.layer = "tls" => stack'[m - 1] = Layer("tls"))
          BY <2>2, <3>3
        <5> QED
          BY <4>1, <1>5, <3>7, <5>1 DEF InPlace, Layer
      <4>2. CASE n \in 1 .. at - 1
        <5>1. PICK k \in 2 .. l : k = place[n]
          BY <4>2, <3>5
        <5>2. InPlace(n, k)
          BY <4>2, <3>1, <5>1 DEF BuiltAt
        <5>3. conf'.proxies[n] = conf.proxies[n]
          BY <4>2, <1>6
        <5>4. stack'[k] = stack[k] /\ stack'[k - 1] = stack[k - 1]
          BY <3>10, <3>3, <5>1
        <5>5. q[n] = k
          BY <4>2, <3>7, <5>1
        <5> QED
          BY <5>2, <5>3, <5>4, <5>5 DEF InPlace, Layer
      <4> QED
        BY <3>6, <4>1, <4>2
    <3>12. ASSUME NEW k \in 2 .. m
           PROVE  \E n \in 1 .. at : k = q[n] \/ (k = q[n] - 1 /\ conf'.proxies[n].layer = "tls")
      <4>1. CASE k <= l
        <5>1. k \in 2 .. Len(stack)
          BY <4>1, <3>3
        <5>2. PICK n \in 1 .. at - 1 : k = place[n] \/ (k = place[n] - 1 /\ conf.proxies[n].layer = "tls")
          BY <5>1, <3>1 DEF BuiltAt
        <5> QED
          BY <5>2, <1>6, <3>7
      <4>2. CASE k = m
        BY <4>2, <3>6, <3>7
      <4>3. CASE k = l + 1 /\ k # m
        <5>1. m = l + 2 /\ k = m - 1
          BY <4>3, <3>3
        <5>2. p.layer = "tls"
          BY <5>1, <2>2, <3>3
        <5> QED
          BY <5>1, <5>2, <1>5, <3>6, <3>7
      <4> QED
        BY <3>3, <4>1, <4>2, <4>3
    <3>13. at' - 1 = at
      BY <1>3, <1>10
    <3>14. BuiltAt(q)'
      BY <3>3, <3>8, <3>9, <3>11, <3>12, <3>13 DEF BuiltAt
    <3>15. Len(stack') >= 1 /\ stack'[1] = Layer("raw")
      BY <3>3, <3>4, <3>10 DEF IInv, Built
    <3>16. \A n \in 1 .. at : conf'.proxies[n].protocol # "http" =>
                                "bad" \notin {conf'.proxies[n].user, conf'.proxies[n].password}
      BY <1>5, <1>6, <2>1, <3>6 DEF IInv, Built
    <3> QED
      BY <3>13, <3>14, <3>15, <3>16 DEF Built, Layer
  <2> QED
    BY <2>4, <2>5, <2>6, <2>7 DEF IInv
<1> QED
  BY <1>2, <1>9, <1>10

LEMMA InboundStep ==
  ASSUME IInv, NEW i \in InboundSet, Bind(i) \/ Returns(i) \/ Sleep(i)
  PROVE  IInv'
<1>1. UNCHANGED <<conf, read, stage, at, stack>>
  BY DEF Bind, Returns, Sleep
<1>2. Typed'
  <2>1. \A j \in InboundSet : Count(j)' = Count(j) /\ Count(j) \in Nat
    <3>1. conf.listen \in [InboundSet -> Seq(STRING)]
      BY FileFacts DEF IInv, Typed
    <3> QED
      BY <1>1, <3>1 DEF Count
  <2>2. inbound' \in [InboundSet -> {"pending", "serving", "returned"}]
    BY DEF Bind, Returns, Sleep, IInv, Typed
  <2>3. bound' \in [InboundSet -> Nat]
    BY DEF Bind, Returns, Sleep, IInv, Typed
  <2>4. ASSUME NEW j \in InboundSet PROVE bound'[j] <= Count(j)
    <3>1. bound[j] \in Nat /\ bound[j] <= Count(j)
      BY DEF IInv, Typed
    <3>2. bound'[j] = bound[j] \/ (bound'[j] = bound[j] + 1 /\ bound[j] < Count(j))
      BY DEF Bind, Returns, Sleep, IInv, Typed
    <3> QED
      BY <2>1, <3>1, <3>2
  <2> QED
    BY <1>1, <2>1, <2>2, <2>3, <2>4 DEF IInv, Typed
<1>3. Dialogue'
  BY <1>1 DEF IInv, Dialogue
<1>4. ConfiguredKept'
  BY <1>1 DEF IInv, ConfiguredKept
<1>5. Built'
  BY <1>1, BuiltKept DEF IInv
<1> QED
  BY <1>2, <1>3, <1>4, <1>5 DEF IInv

LEMMA EndStep ==
  ASSUME IInv, End
  PROVE  IInv'
<1>1. /\ stage = "start" /\ stage' = "ended"
      /\ bound' = [i \in InboundSet |-> 0]
      /\ UNCHANGED <<conf, read, at, stack, inbound>>
  BY DEF End
<1>2. Typed'
  <2>1. \A j \in InboundSet : Count(j)' = Count(j) /\ Count(j) \in Nat
    <3>1. conf.listen \in [InboundSet -> Seq(STRING)]
      BY FileFacts DEF IInv, Typed
    <3> QED
      BY <1>1, <3>1 DEF Count
  <2>2. bound' \in [InboundSet -> Nat] /\ \A i \in InboundSet : bound'[i] <= Count(i)
    BY <1>1, <2>1
  <2> QED
    BY <1>1, <2>1, <2>2 DEF IInv, Typed
<1>3. Dialogue'
  BY <1>1 DEF IInv, Dialogue
<1>4. ConfiguredKept'
  BY <1>1 DEF IInv, ConfiguredKept
<1>5. Built'
  BY <1>1, BuiltKept DEF IInv
<1> QED
  BY <1>2, <1>3, <1>4, <1>5 DEF IInv

LEMMA InitInv == Init => IInv
<1> SUFFICES ASSUME Init PROVE IInv
  OBVIOUS
<1>1. /\ conf \in Files /\ read = conf /\ at = 1 /\ stage = Entry(conf, 1)
      /\ stack = <<Layer("raw")>>
      /\ inbound = [i \in InboundSet |-> "pending"] /\ bound = [i \in InboundSet |-> 0]
  BY StartupAssumption DEF Init
<1>2. Len(conf.proxies) \in Nat /\ \A i \in InboundSet : Count(i) \in Nat
  BY <1>1, FileFacts DEF Count
<1>3. \/ stage = "start" /\ 1 > Len(conf.proxies)
      \/ /\ 1 <= Len(conf.proxies) /\ stage \in {"user", "build"}
         /\ stage = "user" <=> conf.proxies[1].user = "absent"
  BY <1>1, <1>2 DEF Entry
<1>4. stack \in Seq(Elements) /\ Len(stack) = 1 /\ stack[1] = Layer("raw")
  <2>1. Layer("raw") \in Elements
    BY Zenon DEF Elements
  <2> QED
    BY <1>1, <2>1
<1>5. Typed
  BY <1>1, <1>2, <1>3, <1>4 DEF Typed
<1>6. Dialogue
  <2>1. stage = "start" => 1 = Len(conf.proxies) + 1
    BY <1>2, <1>3
  <2> QED
    BY <1>1, <1>2, <1>3, <2>1 DEF Dialogue
<1>7. 1 .. at - 1 = {}
  BY <1>1
<1>8. ConfiguredKept
  BY <1>7 DEF ConfiguredKept
<1>9. Built
  <2>1. PICK place : place = [n \in {} |-> 2]
    OBVIOUS
  <2>2. 2 .. Len(stack) = {}
    BY <1>4
  <2>3. BuiltAt(place)
    BY <1>7, <2>1, <2>2 DEF BuiltAt
  <2> QED
    BY <1>4, <1>7, <2>3 DEF Built
<1> QED
  BY <1>5, <1>6, <1>8, <1>9 DEF IInv

LEMMA StepInv == IInv /\ [Next]_vars => IInv'
<1> SUFFICES ASSUME IInv, [Next]_vars PROVE IInv'
  OBVIOUS
<1>1. ASSUME NEW line \in Lines, ReadUser(line) \/ ReadPassword(line) PROVE IInv'
  BY <1>1, ReadUserStep, ReadPasswordStep
<1>2. CASE Build
  BY <1>2, BuildStep
<1>3. ASSUME NEW i \in InboundSet, Bind(i) \/ Returns(i) \/ Sleep(i) PROVE IInv'
  BY <1>3, InboundStep
<1>4. CASE End
  BY <1>4, EndStep
<1>5. CASE UNCHANGED vars
  <2>1. UNCHANGED <<conf, read, stage, at, stack, inbound, bound>>
    BY <1>5 DEF vars
  <2>2. Typed'
    BY <2>1 DEF IInv, Typed, Count
  <2>3. Dialogue' /\ ConfiguredKept'
    BY <2>1 DEF IInv, Dialogue, ConfiguredKept
  <2>4. Built'
    BY <2>1, BuiltKept DEF IInv
  <2> QED
    BY <2>2, <2>3, <2>4 DEF IInv
<1> QED
  BY <1>1, <1>2, <1>3, <1>4, <1>5, Zenon DEF Next

----------------------------------------------------------------------------
\* The dialogue and the stack are in step with each other, for any file.
THEOREM Prepared == Spec => []IInv
BY InitInv, StepInv, PTL DEF Spec

\* The variables keep their types: no proxy is configured that the file does
\* not have, and no inbound binds more sockets than it has addresses.
THEOREM TypeCorrect == Spec => []TypeOK
<1>1. IInv => TypeOK
  <2> SUFFICES ASSUME IInv PROVE TypeOK
    OBVIOUS
  <2>1. \A n \in DOMAIN conf.proxies : {conf.proxies[n].user, conf.proxies[n].password} \subseteq Credentials
    BY FileFacts DEF IInv, Typed
  <2>2. \A i \in InboundSet : bound[i] \in 0 .. Count(i)
    <3>1. conf.listen \in [InboundSet -> Seq(STRING)]
      BY FileFacts DEF IInv, Typed
    <3> QED
      BY <3>1 DEF IInv, Typed, Count
  <2> QED
    BY <2>1, <2>2 DEF IInv, Typed, TypeOK
<1> QED
  BY <1>1, Prepared, PTL

\* What the file sets is used as it stands, whatever is typed at the terminal.
THEOREM FileKept == Spec => []ConfiguredKept
<1>1. IInv => ConfiguredKept
  BY DEF IInv
<1> QED
  BY <1>1, Prepared, PTL

\* The inbounds start on a stack that has all proxies of the file, in its order.
THEOREM AllOnStack == Spec => []StackComplete
<1>1. IInv /\ TypeOK => StackComplete
  <2> SUFFICES ASSUME IInv, TypeOK, stage = "start"
               PROVE  /\ \E place \in Places(Len(conf.proxies)) :
                           /\ \A n \in DOMAIN place : InPlace(n, place[n])
                           /\ \A k \in 2 .. Len(stack) : \E n \in DOMAIN place :
                                k = place[n] \/ (k = place[n] - 1 /\ conf.proxies[n].layer = "tls")
                      /\ stack[1] = Layer("raw")
                      /\ \A n \in DOMAIN conf.proxies :
                           conf.proxies[n].protocol # "http" =>
                             "bad" \notin {conf.proxies[n].user, conf.proxies[n].password}
    BY Zenon DEF StackComplete
  <2>1. at - 1 = Len(conf.proxies) /\ DOMAIN conf.proxies = 1 .. Len(conf.proxies)
    BY FileFacts, Sizes DEF IInv, Typed, Dialogue
  <2>2. PICK place : BuiltAt(place)
    BY DEF IInv, Built
  <2>3. place \in Places(Len(conf.proxies)) /\ DOMAIN place = 1 .. Len(conf.proxies)
    BY <2>1, <2>2 DEF BuiltAt, Places
  <2>4. /\ \A n \in DOMAIN place : InPlace(n, place[n])
        /\ \A k \in 2 .. Len(stack) : \E n \in DOMAIN place :
             k = place[n] \/ (k = place[n] - 1 /\ conf.proxies[n].layer = "tls")
    BY <2>1, <2>2, <2>3 DEF BuiltAt
  <2> QED
    BY <2>1, <2>3, <2>4 DEF IInv, Built
<1> QED
  BY <1>1, Prepared, TypeCorrect, PTL

=============================================================================
