------------------------ MODULE SocksHandshakeProofs ------------------------
(***************************************************************************)
(* Proofs that, for names of any size and any number of bytes of the       *)
(* tunnel, a SOCKS handshake asks for what it should, returns a connection *)
(* only if the proxy granted that request, and leaves to the tunnel all of *)
(* its bytes and nothing but them.                                         *)
(*                                                                         *)
(* The client speaks in turn: it has sent at most one message that has no  *)
(* reply yet, and while it waits the stream holds that reply from the byte *)
(* it has come to, then the bytes of the tunnel (Unread).  Where it stands *)
(* says what it has read of the reply (Seen), and the whole replies that   *)
(* begin that way say how long they are.                                   *)
(***************************************************************************)
EXTENDS SocksHandshake, SequenceTheorems, TLAPS

Byte == 0 .. 255

\* Where the client stands in the dialogue, a flush apart.
Stand == IF pc = "flush" THEN then ELSE pc

Starts == {"version", "auth version", "reply version", "null"}

\* The message whose reply is read there.
Expects(p) ==
  IF p \in {"version", "method"} THEN "greeting"
  ELSE IF p \in {"auth version", "auth status"} THEN "auth" ELSE "connect"

\* The bytes of the reply read there, n of them being left in "rest", ...
ReadOf(p, n, reply) ==
  CASE p \in Starts -> 0
    [] p \in {"method", "auth status", "reply code", "code"} -> 1
    [] p = "reply reserved" -> 2
    [] p = "reply type" -> 3
    [] p = "reply length" -> 4
    [] p = "rest" -> Len(reply) - n
    [] p = "done" -> Len(reply)

\* ... and what they were.
Seen(p, n, reply) ==
  /\ p \in {"method", "reply code", "reply reserved", "reply type", "reply length"} => reply[1] = 5
  /\ p = "auth status" => reply[1] = 1
  /\ p = "code" => reply[1] = 0
  /\ p \in {"reply reserved", "reply type", "reply length"} => reply[2] = 0
  /\ p \in {"reply type", "reply length"} => reply[3] = 0
  /\ p = "reply length" => reply[4] = 3
  /\ p \in {"rest", "done"} => reply \in Grants
  /\ p = "rest" => n \in 0 .. Len(reply)

\* The stream q is the reply behind its first k bytes, and d of the tunnel's.
Unread(q, reply, k, d) ==
  /\ k \in 0 .. Len(reply)
  /\ Len(q) = (Len(reply) - k) + d
  /\ \A i \in 1 .. Len(q) : q[i] = IF i <= Len(reply) - k THEN reply[i + k] ELSE DataByte

----------------------------------------------------------------------------
\* The i-th message of the client, with the reply it was sent upon.
MessageSound(i, m) ==
  /\ m \in Message
  /\ m.msg = "connect" => Means(m)
  /\ proto = "socks4" => i = 1 /\ m.msg = "connect"
  /\ proto = "socks5" /\ i = 1 => m.msg = "greeting"
  /\ proto = "socks5" /\ i # 1 =>
       /\ i - 1 \in 1 .. Len(said)
       /\ \/ m.msg = "auth" /\ said[i - 1] = <<5, 2>>
          \/ m.msg = "connect" /\ said[i - 1] \in {<<5, 0>>, <<1, 0>>}

Typed ==
  /\ TypeOK
  /\ Len(written) <= 1
  /\ Len(said) <= Len(heard)

MessagesSound ==
  /\ \A i \in 1 .. Len(heard) : MessageSound(i, heard[i])
  /\ written # <<>> => MessageSound(Len(heard) + 1, written[1])

\* Nothing has been said ...
Beginning ==
  /\ pc = "begin" /\ written = <<>> /\ heard = <<>> /\ said = <<>> /\ inbox = <<>> /\ data = 0

\* ... it is the client's turn again ...
Turn ==
  /\ pc \in {"auth", "request"} /\ proto = "socks5"
  /\ written = <<>> /\ Len(said) = Len(heard) /\ said # <<>>
  /\ pc = "auth" => said[Len(said)] = <<5, 2>>
  /\ pc = "request" => said[Len(said)] \in {<<5, 0>>, <<1, 0>>}
  /\ inbox = <<>> /\ data = 0

\* ... it has spoken, the proxy not ...
LastMessage == IF written # <<>> THEN written[1] ELSE heard[Len(heard)]

Spoken ==
  /\ pc \in Starts \/ (pc = "flush" /\ then \in Starts)
  /\ pc # "flush" => written = <<>>
  /\ Len(heard) + Len(written) = Len(said) + 1
  /\ (proto = "socks4") <=> (Stand = "null")
  /\ LastMessage.msg = Expects(Stand)
  /\ inbox = <<>> /\ data = 0

\* ... or the reply is being read.
Hears(p, m, reply) ==
  /\ p \notin {"rest", "done"} => ((proto = "socks4") <=> (p \in {"null", "code"}))
  /\ m.msg = Expects(p) /\ reply \in Replies(m)
  /\ Unread(inbox, reply, ReadOf(p, rest, reply), data)
  /\ Seen(p, rest, reply)
  /\ data # 0 => reply \in Grants

Listening ==
  /\ pc \in Reading \cup {"rest", "done"} \/ (pc = "flush" /\ then \in Starts)
  /\ written = <<>> /\ Len(said) = Len(heard) /\ said # <<>>
  /\ Hears(Stand, heard[Len(heard)], said[Len(said)])

Dialogue == pc = "error" \/ Beginning \/ Turn \/ Spoken \/ Listening

SInv == Typed /\ MessagesSound /\ Dialogue

----------------------------------------------------------------------------
(***************************************************************************)
(* The replies.                                                            *)
(***************************************************************************)
\* Of n bytes.
Text(r, n) == r \in Seq(Byte) /\ Len(r) = n

\* Some bytes, and some more of an address and a port.
Short(x, y) == <<x, y>>
Reply4(x, y) == <<x, y>> \o Fill(6)
Reply5(x, y, z, u, n) == <<x, y, z, u>> \o Fill(n)
Named5(n) == <<5, 0, 0, 3, n>> \o Fill(n + 2)

Begins2(r, x, y) == r[1] = x /\ r[2] = y
Begins4(r, x, y, z, u) == r[1] = x /\ r[2] = y /\ r[3] = z /\ r[4] = u
Fifth(r, n) == r[5] = n
BeginsLike(r, a, k) == \A i \in 1 .. k : r[i] = a[i]

LEMMA OneLength ==
  ASSUME NEW r, NEW n, NEW k, Text(r, n), Text(r, k)
  PROVE  n = k
<1>1. Len(r) = n
  BY DEF Text
<1>2. Len(r) = k
  BY DEF Text
<1> QED
  BY <1>1, <1>2

LEMMA Numbers ==
  /\ 0 \in Byte /\ 1 \in Byte /\ 2 \in Byte /\ 3 \in Byte /\ 4 \in Byte /\ 5 \in Byte
  /\ 90 \in Byte /\ 91 \in Byte /\ 255 \in Byte
BY DEF Byte

LEMMA Padding ==
  ASSUME NEW a, NEW k \in Nat, Text(a, k), NEW n \in Nat, NEW r, r = a \o Fill(n)
  PROVE  Text(r, k + n) /\ BeginsLike(r, a, k)
<1>1. PICK b : b = Fill(n)
  OBVIOUS
<1>2. b \in Seq(Byte) /\ Len(b) = n
  BY <1>1 DEF Fill, Byte
<1>3. a \in Seq(Byte) /\ Len(a) = k
  BY DEF Text
<1>4. /\ a \o b \in Seq(Byte) /\ Len(a \o b) = Len(a) + Len(b)
      /\ \A i \in 1 .. Len(a) + Len(b) :
           (a \o b)[i] = IF i <= Len(a) THEN a[i] ELSE b[i - Len(a)]
  BY <1>2, <1>3, ConcatProperties
<1>5. \A i \in 1 .. k : i \in 1 .. k + n /\ i <= k
  OBVIOUS
<1> QED
  BY <1>1, <1>2, <1>3, <1>4, <1>5 DEF Text, BeginsLike

LEMMA ShortFacts ==
  ASSUME NEW x \in Byte, NEW y \in Byte
  PROVE  Text(Short(x, y), 2) /\ Begins2(Short(x, y), x, y)
<1>1. PICK a : a = <<x, y>>
  OBVIOUS
<1>2. a \in Seq(Byte)
  BY <1>1
<1>3. Len(a) = 2
  BY <1>1
<1>4. a[1] = x /\ a[2] = y
  BY <1>1
<1> QED
  BY <1>1, <1>2, <1>3, <1>4 DEF Text, Begins2, Short

LEMMA Reply4Facts ==
  ASSUME NEW x \in Byte, NEW y \in Byte
  PROVE  Text(Reply4(x, y), 8) /\ Begins2(Reply4(x, y), x, y)
<1>1. PICK r, a : r = Reply4(x, y) /\ a = Short(x, y)
  OBVIOUS
<1>2. Text(a, 2) /\ a[1] = x /\ a[2] = y
  BY <1>1, ShortFacts DEF Begins2
<1>3. r = a \o Fill(6)
  BY <1>1 DEF Reply4, Short
<1>4. Text(r, 2 + 6) /\ BeginsLike(r, a, 2)
  BY <1>2, <1>3, Padding, Zenon, 2 \in Nat, 6 \in Nat
<1> QED
  BY <1>1, <1>2, <1>4 DEF Begins2, BeginsLike

LEMMA Reply5Facts ==
  ASSUME NEW x \in Byte, NEW y \in Byte, NEW z \in Byte, NEW u \in Byte, NEW n \in Nat
  PROVE  Text(Reply5(x, y, z, u, n), 4 + n) /\ Begins4(Reply5(x, y, z, u, n), x, y, z, u)
<1>1. PICK r : r = Reply5(x, y, z, u, n)
  OBVIOUS
<1>2. PICK a : a = <<x, y, z, u>>
  OBVIOUS
<1>3. Text(a, 4)
  BY <1>2 DEF Text
<1>4. a[1] = x /\ a[2] = y /\ a[3] = z /\ a[4] = u
  BY <1>2
<1>5. r = a \o Fill(n)
  BY <1>1, <1>2 DEF Reply5
<1>6. Text(r, 4 + n) /\ BeginsLike(r, a, 4)
  BY <1>3, <1>5, Padding, Zenon, 4 \in Nat
<1> QED
  BY <1>1, <1>4, <1>6 DEF Begins4, BeginsLike

LEMMA Named5Facts ==
  ASSUME NEW n \in {0, 2}
  PROVE  Text(Named5(n), 7 + n) /\ Begins4(Named5(n), 5, 0, 0, 3) /\ Fifth(Named5(n), n)
<1>1. PICK r : r = Named5(n)
  OBVIOUS
<1>2. PICK a : a = <<5, 0, 0, 3, n>>
  OBVIOUS
<1>3. a \in Seq(Byte)
  BY <1>2 DEF Byte
<1>4. Text(a, 5)
  BY <1>2, <1>3 DEF Text
<1>5. a[1] = 5 /\ a[2] = 0 /\ a[3] = 0 /\ a[4] = 3 /\ a[5] = n
  BY <1>2
<1>6. PICK h \in Nat : h = n + 2
  OBVIOUS
<1>7. r = a \o Fill(h)
  BY <1>1, <1>2, <1>6 DEF Named5
<1>8. Text(r, 5 + h) /\ BeginsLike(r, a, 5)
  BY <1>4, <1>7, Padding, 5 \in Nat
<1>10. 5 + h = 7 + n
  BY <1>6
<1> QED
  BY <1>1, <1>5, <1>8, <1>10 DEF Begins4, Fifth, BeginsLike

LEMMA TheGrants ==
  ASSUME NEW reply \in Grants
  PROVE  \/ proto = "socks4" /\ reply = Reply4(0, 90)
         \/ /\ proto # "socks4"
            /\ \/ reply = Reply5(5, 0, 0, 1, 6) \/ reply = Reply5(5, 0, 0, 4, 18)
               \/ \E n \in {0, 2} : reply = Named5(n)
BY DEF Grants, Reply4, Reply5, Named5

\* How long what grants is, and how it begins.
LEMMA GrantsAreLong ==
  ASSUME NEW reply \in Grants
  PROVE  \/ proto = "socks4" /\ Text(reply, 8)
         \/ /\ proto # "socks4"
            /\ \/ Text(reply, 10) /\ Begins4(reply, 5, 0, 0, 1)
               \/ Text(reply, 22) /\ Begins4(reply, 5, 0, 0, 4)
               \/ \E n \in {0, 2} :
                    Text(reply, 7 + n) /\ Begins4(reply, 5, 0, 0, 3) /\ Fifth(reply, n)
<1>1. CASE proto = "socks4" /\ reply = Reply4(0, 90)
  BY <1>1, Numbers, Reply4Facts
<1>2. CASE proto # "socks4" /\ reply = Reply5(5, 0, 0, 1, 6)
  BY <1>2, Numbers, Reply5Facts, SMTT(30)
<1>3. CASE proto # "socks4" /\ reply = Reply5(5, 0, 0, 4, 18)
  BY <1>3, Numbers, Reply5Facts, SMTT(30)
<1>4. CASE proto # "socks4" /\ \E n \in {0, 2} : reply = Named5(n)
  BY <1>4, Named5Facts
<1> QED
  BY <1>1, <1>2, <1>3, <1>4, TheGrants

\* A choice of a method, and the outcome of the authentication, grant nothing.
LEMMA ShortReplies ==
  ASSUME NEW m, NEW reply \in Replies(m), m.msg \in {"greeting", "auth"}
  PROVE  /\ Text(reply, 2) /\ reply \notin Grants
         /\ m.msg = "greeting" /\ reply[1] = 5 /\ reply[2] = 0 => reply = <<5, 0>>
         /\ m.msg = "greeting" /\ reply[1] = 5 /\ reply[2] = 2 => reply = <<5, 2>>
         /\ m.msg = "auth" /\ reply[1] = 1 /\ reply[2] = 0 => reply = <<1, 0>>
<1>1. \/ reply = Short(5, 0) \/ reply = Short(5, 2) \/ reply = Short(5, 255) \/ reply = Short(4, 0)
      \/ reply = Short(1, 0) \/ reply = Short(1, 1) \/ reply = Short(5, 0)
  <2>1. CASE m.msg = "greeting"
    BY <2>1 DEF Replies, Short
  <2>2. CASE m.msg = "auth"
    BY <2>2 DEF Replies, Short
  <2> QED
    BY <2>1, <2>2
<1>2. PICK x \in Byte, y \in Byte : reply = Short(x, y)
  BY ONLY <1>1, Numbers
<1>3. Text(reply, 2) /\ Begins2(reply, x, y)
  BY <1>2, ShortFacts
<1>4. reply \notin Grants
  <2>1. ~Text(reply, 8) /\ ~Text(reply, 10) /\ ~Text(reply, 22)
    BY <1>3, OneLength
  <2>2. \A n \in {0, 2} : ~Text(reply, 7 + n)
    BY <1>3, OneLength
  <2> QED
    BY <2>1, <2>2, GrantsAreLong
<1>5. /\ x = 5 /\ y = 0 => reply = <<5, 0>>
      /\ x = 5 /\ y = 2 => reply = <<5, 2>>
      /\ x = 1 /\ y = 0 => reply = <<1, 0>>
  BY <1>2, Zenon DEF Short
<1> QED
  BY <1>3, <1>4, <1>5, Zenon DEF Begins2

\* A reply to a request begins like one that grants it only if it does.
LEMMA RequestReplies ==
  ASSUME NEW m, NEW reply \in Replies(m), m.msg = "connect", proto \in {"socks4", "socks5"}
  PROVE  /\ \E n \in Nat : n >= 7 /\ Text(reply, n)
         /\ proto = "socks4" => Text(reply, 8)
         /\ proto = "socks4" /\ reply[1] = 0 /\ reply[2] = 90 => reply \in Grants
         /\ proto = "socks5" /\ reply[1] = 5 /\ reply[2] = 0 /\ reply[3] = 0 =>
              /\ reply[4] = 1 => reply \in Grants /\ Text(reply, 10)
              /\ reply[4] = 4 => reply \in Grants /\ Text(reply, 22)
              /\ reply[4] = 3 => reply \in Grants /\ Text(reply, 7 + reply[5])
<1>0. \A n \in Nat : n >= 7 /\ Text(reply, n) => \E k \in Nat : k >= 7 /\ Text(reply, k)
  OBVIOUS
<1>1. CASE proto = "socks4"
  <2>1. \/ reply \in Grants
        \/ reply = Reply4(0, 91) \/ reply = Reply4(4, 90)
    BY <1>1 DEF Replies, Reply4
  <2>2. Text(Reply4(0, 91), 8) /\ Begins2(Reply4(0, 91), 0, 91)
    BY Numbers, Reply4Facts
  <2>3. Text(Reply4(4, 90), 8) /\ Begins2(Reply4(4, 90), 4, 90)
    BY Numbers, Reply4Facts
  <2>4. Text(reply, 8)
    BY <1>1, <2>1, <2>2, <2>3, GrantsAreLong, Zenon
  <2>5. reply[1] = 0 /\ reply[2] = 90 => reply \in Grants
    BY <2>1, <2>2, <2>3 DEF Begins2
  <2> QED
    BY <1>0, <1>1, <2>4, <2>5
<1>2. CASE proto = "socks5"
  <2>1. \/ reply \in Grants
        \/ reply = Reply5(5, 1, 0, 1, 6) \/ reply = Reply5(4, 0, 0, 1, 6)
        \/ reply = Reply5(5, 0, 1, 1, 6) \/ reply = Reply5(5, 0, 0, 2, 6)
    BY <1>2 DEF Replies, Reply5
  <2>2. CASE reply \in Grants
    <3>1. CASE Text(reply, 10) /\ Begins4(reply, 5, 0, 0, 1)
      BY <1>0, <1>2, <2>2, <3>1 DEF Begins4
    <3>2. CASE Text(reply, 22) /\ Begins4(reply, 5, 0, 0, 4)
      BY <1>0, <1>2, <2>2, <3>2 DEF Begins4
    <3>3. ASSUME NEW n \in {0, 2}, Text(reply, 7 + n), Begins4(reply, 5, 0, 0, 3), Fifth(reply, n)
          PROVE  /\ \E k \in Nat : k >= 7 /\ Text(reply, k)
                 /\ reply[4] = 3 /\ Text(reply, 7 + reply[5])
      <4>1. 7 + n \in Nat /\ 7 + n >= 7
        OBVIOUS
      <4>2. \E k \in Nat : k >= 7 /\ Text(reply, k)
        BY <1>0, <3>3, <4>1
      <4>3. reply[4] = 3 /\ Text(reply, 7 + reply[5])
        BY <3>3 DEF Begins4, Fifth
      <4> QED
        BY <4>2, <4>3
    <3> QED
      BY <1>2, <2>2, <3>1, <3>2, <3>3, GrantsAreLong
  <2>3. CASE \/ reply = Reply5(5, 1, 0, 1, 6) \/ reply = Reply5(4, 0, 0, 1, 6)
             \/ reply = Reply5(5, 0, 1, 1, 6) \/ reply = Reply5(5, 0, 0, 2, 6)
    <3>1. PICK x \in Byte, y \in Byte, z \in Byte, u \in Byte :
                 reply = Reply5(x, y, z, u, 6) /\ (y = 1 \/ x = 4 \/ z = 1 \/ u = 2)
      BY ONLY <2>3, Numbers
    <3>2. Text(reply, 10) /\ Begins4(reply, x, y, z, u)
      BY <3>1, Reply5Facts
    <3>3. ~(reply[1] = 5 /\ reply[2] = 0 /\ reply[3] = 0 /\ reply[4] \in {1, 3, 4})
      BY <3>1, <3>2 DEF Begins4
    <3> QED
      BY <1>0, <1>2, <3>2, <3>3
  <2> QED
    BY <2>1, <2>2, <2>3
<1> QED
  BY <1>1, <1>2

----------------------------------------------------------------------------
(***************************************************************************)
(* The stream: one byte further, all that is left, one byte more.          *)
(***************************************************************************)
LEMMA UnreadAll ==
  ASSUME NEW reply \in Seq(Byte)
  PROVE  Unread(reply, reply, 0, 0)
<1>1. Len(reply) \in Nat
  BY LenProperties
<1> QED
  BY <1>1 DEF Unread

LEMMA UnreadHead ==
  ASSUME NEW q \in Seq(Byte), NEW reply \in Seq(Byte), NEW k \in Nat, NEW d \in Nat,
         Unread(q, reply, k, d), k < Len(reply)
  PROVE  q # <<>> /\ Head(q) = reply[k + 1]
<1>1. Len(q) \in Nat /\ Len(reply) \in Nat
  BY LenProperties
<1>2. Len(q) = (Len(reply) - k) + d
  BY DEF Unread
<1>3. 1 \in 1 .. Len(q) /\ 1 <= Len(reply) - k
  BY <1>1, <1>2
<1>4. q[1] = reply[1 + k]
  BY <1>3 DEF Unread
<1>5. q # <<>>
  BY <1>1, <1>3, EmptySeq
<1>6. Head(q) = q[1]
  BY <1>5, HeadTailProperties
<1> QED
  BY <1>4, <1>5, <1>6

LEMMA UnreadTail ==
  ASSUME NEW q \in Seq(Byte), NEW reply \in Seq(Byte), NEW k \in Nat, NEW d \in Nat,
         Unread(q, reply, k, d), k < Len(reply)
  PROVE  Tail(q) \in Seq(Byte) /\ Unread(Tail(q), reply, k + 1, d)
<1>1. Len(q) \in Nat /\ Len(reply) \in Nat
  BY LenProperties
<1>2. Len(q) = (Len(reply) - k) + d
  BY DEF Unread
<1>3. q # <<>>
  BY UnreadHead
<1>4. PICK t : t = Tail(q)
  OBVIOUS
<1>5. t \in Seq(Byte) /\ Len(t) = Len(q) - 1
  BY <1>3, <1>4, HeadTailProperties
<1>6. \A i \in 1 .. Len(q) - 1 : t[i] = q[i + 1]
  BY <1>3, <1>4, <1>5, HeadTailProperties
<1>7. ASSUME NEW i \in 1 .. Len(t)
      PROVE  t[i] = IF i <= Len(reply) - (k + 1) THEN reply[i + (k + 1)] ELSE DataByte
  <2>1. i \in 1 .. Len(q) - 1 /\ i + 1 \in 1 .. Len(q)
    BY <1>1, <1>5
  <2>2. t[i] = q[i + 1]
    BY <1>6, <2>1
  <2>3. q[i + 1] = IF i + 1 <= Len(reply) - k THEN reply[(i + 1) + k] ELSE DataByte
    BY <2>1 DEF Unread
  <2>4. (i + 1) + k = i + (k + 1) /\ (i + 1 <= Len(reply) - k <=> i <= Len(reply) - (k + 1))
    BY <1>1, <2>1
  <2> QED
    BY <2>2, <2>3, <2>4
<1>8. k + 1 \in 0 .. Len(reply) /\ Len(t) = (Len(reply) - (k + 1)) + d
  BY <1>1, <1>2, <1>5
<1> QED
  BY <1>4, <1>5, <1>7, <1>8 DEF Unread

LEMMA UnreadRest ==
  ASSUME NEW q \in Seq(Byte), NEW reply \in Seq(Byte), NEW n \in 0 .. Len(reply), NEW d \in Nat,
         Unread(q, reply, Len(reply) - n, d)
  PROVE  /\ SubSeq(q, n + 1, Len(q)) \in Seq(Byte)
         /\ Unread(SubSeq(q, n + 1, Len(q)), reply, Len(reply), d)
<1>1. Len(q) \in Nat /\ Len(reply) \in Nat
  BY LenProperties
<1>2. Len(q) = n + d
  BY <1>1 DEF Unread
<1>3. PICK t : t = SubSeq(q, n + 1, Len(q))
  OBVIOUS
<1>4. n + 1 \in 1 .. Len(q) + 1
  BY <1>1, <1>2
<1>5. t \in Seq(Byte) /\ Len(t) = d /\ \A i \in 1 .. d : t[i] = q[n + i]
  <2>1. PICK a, b : a = n + 1 /\ b = Len(q)
    OBVIOUS
  <2>2. a \in Int /\ b \in Int /\ t = SubSeq(q, a, b)
    BY <1>1, <1>3, <2>1
  <2>3. \A i \in a .. b : q[i] \in Byte
    BY <1>1, <1>2, <2>1, ElementOfSeq
  <2>4. t \in Seq(Byte)
    BY <2>2, <2>3, SubSeqProperties
  <2>5. Len(t) = IF a <= b THEN b - a + 1 ELSE 0
    BY <2>2, <2>3, SubSeqProperties
  <2>6. \A i \in 1 .. b - a + 1 : t[i] = q[a + i - 1]
    BY <2>2, <2>3, SubSeqProperties
  <2>7. b - a + 1 = d /\ Len(t) = d
    BY <1>1, <1>2, <2>1, <2>5
  <2>8. \A i \in 1 .. d : a + i - 1 = n + i
    BY <1>1, <2>1
  <2> QED
    BY <2>4, <2>6, <2>7, <2>8
<1>6. ASSUME NEW i \in 1 .. Len(t)
      PROVE  t[i] = IF i <= Len(reply) - Len(reply) THEN reply[i + Len(reply)] ELSE DataByte
  <2>1. i \in 1 .. d /\ n + i \in 1 .. Len(q)
    BY <1>1, <1>2, <1>5
  <2>2. t[i] = q[n + i]
    BY <1>5, <2>1
  <2>3. ~(n + i <= Len(reply) - (Len(reply) - n)) /\ ~(i <= Len(reply) - Len(reply))
    BY <1>1, <2>1
  <2>4. q[n + i] = DataByte
    BY <2>1, <2>3 DEF Unread
  <2> QED
    BY <2>2, <2>3, <2>4
<1>7. Len(reply) \in 0 .. Len(reply) /\ Len(t) = (Len(reply) - Len(reply)) + d
  BY <1>1, <1>5
<1> QED
  BY <1>3, <1>5, <1>6, <1>7 DEF Unread

LEMMA UnreadMore ==
  ASSUME NEW q \in Seq(Byte), NEW reply \in Seq(Byte), NEW k \in Nat, NEW d \in Nat,
         Unread(q, reply, k, d)
  PROVE  Append(q, DataByte) \in Seq(Byte) /\ Unread(Append(q, DataByte), reply, k, d + 1)
<1>1. Len(q) \in Nat /\ Len(reply) \in Nat
  BY LenProperties
<1>2. Len(q) = (Len(reply) - k) + d /\ k \in 0 .. Len(reply)
  BY DEF Unread
<1>3. PICK t : t = Append(q, DataByte)
  OBVIOUS
<1>4. t \in Seq(Byte) /\ Len(t) = Len(q) + 1
  BY <1>3, AppendProperties DEF DataByte, Byte
<1>5. (\A i \in 1 .. Len(q) : t[i] = q[i]) /\ t[Len(q) + 1] = DataByte
  BY <1>3, AppendProperties DEF DataByte, Byte
<1>6. ASSUME NEW i \in 1 .. Len(t)
      PROVE  t[i] = IF i <= Len(reply) - k THEN reply[i + k] ELSE DataByte
  <2>1. CASE i = Len(q) + 1
    <3>1. ~(i <= Len(reply) - k)
      BY <1>1, <1>2, <2>1
    <3> QED
      BY <1>5, <2>1, <3>1
  <2>2. CASE i # Len(q) + 1
    <3>1. i \in 1 .. Len(q)
      BY <1>1, <1>4, <2>2
    <3> QED
      BY <1>5, <3>1 DEF Unread
  <2> QED
    BY <2>1, <2>2
<1>7. Len(t) = (Len(reply) - k) + (d + 1)
  BY <1>1, <1>2, <1>4
<1> QED
  BY <1>2, <1>3, <1>4, <1>6, <1>7 DEF Unread

\* Behind the reply there is the tunnel.
LEMMA UnreadEnd ==
  ASSUME NEW q \in Seq(Byte), NEW reply \in Seq(Byte), NEW d \in Nat,
         Unread(q, reply, Len(reply), d)
  PROVE  q = [i \in 1 .. d |-> DataByte]
<1>1. Len(q) \in Nat /\ Len(reply) \in Nat
  BY LenProperties
<1>2. Len(q) = d
  BY <1>1 DEF Unread
<1>3. ASSUME NEW i \in 1 .. d PROVE q[i] = DataByte
  <2>1. ~(i <= Len(reply) - Len(reply)) /\ i \in 1 .. Len(q)
    BY <1>1, <1>2
  <2> QED
    BY <2>1 DEF Unread
<1>4. q = [i \in 1 .. Len(q) |-> q[i]]
  OBVIOUS
<1> QED
  BY <1>2, <1>3, <1>4

----------------------------------------------------------------------------
(***************************************************************************)
(* What a step leaves as it was.                                           *)
(***************************************************************************)
LEMMA MessageKept ==
  ASSUME UNCHANGED <<proto, said>>, NEW i, NEW m, MessageSound(i, m)
  PROVE  MessageSound(i, m)'
BY DEF MessageSound, Means

LEMMA ProtoKept ==
  ASSUME UNCHANGED proto
  PROVE  Grants' = Grants /\ \A m : Replies(m)' = Replies(m)
BY DEF Grants, Replies

LEMMA MessagesKept ==
  ASSUME MessagesSound, UNCHANGED <<proto, said, heard>>, written' = <<>> \/ UNCHANGED written
  PROVE  MessagesSound'
<1>1. ASSUME NEW i \in 1 .. Len(heard') PROVE MessageSound(i, heard[i])'
  <2>1. PICK m : m = heard[i]
    OBVIOUS
  <2>2. MessageSound(i, m)
    BY <1>1, <2>1 DEF MessagesSound
  <2>3. MessageSound(i, m)'
    BY <2>2, MessageKept
  <2> QED
    BY <2>1, <2>3 DEF MessageSound, Means
<1>2. ASSUME written' # <<>> PROVE MessageSound(Len(heard) + 1, written[1])'
  <2>1. PICK m, n : m = written[1] /\ n = Len(heard) + 1
    OBVIOUS
  <2>2. MessageSound(n, m)
    BY <1>2, <2>1 DEF MessagesSound
  <2>3. MessageSound(n, m)'
    BY <2>2, MessageKept
  <2> QED
    BY <1>2, <2>1, <2>3 DEF MessageSound, Means
<1> QED
  BY <1>1, <1>2 DEF MessagesSound

LEMMA SInit == Init => SInv
<1> SUFFICES ASSUME Init PROVE SInv
  OBVIOUS
<1>1. Len(heard) = 0 /\ Len(said) = 0 /\ Len(written) = 0
  BY DEF Init
<1>2. TypeOK
  <2>1. written \in Seq(Message) /\ heard \in Seq(Message)
    BY DEF Init
  <2>2. inbox \in Seq(0 .. 255) /\ said \in Seq(Seq(0 .. 255))
    BY DEF Init
  <2>3. data \in 0 .. MaxData
    BY SocksAssumption DEF Init
  <2>4. {pc, then} \subseteq Reading \cup {"begin", "auth", "request", "flush", "rest", "done", "error"}
    BY DEF Init
  <2>5. proto \in {"socks4", "socks5"} /\ target \in Targets
    BY DEF Init
  <2>6. rest \in 0 .. 257
    BY DEF Init
  <2>7. gone \in BOOLEAN
    BY DEF Init
  <2> QED
    BY <2>1, <2>2, <2>3, <2>4, <2>5, <2>6, <2>7 DEF TypeOK
<1>3. MessagesSound
  BY <1>1 DEF MessagesSound, Init
<1>4. Beginning
  BY DEF Init, Beginning
<1> QED
  BY <1>1, <1>2, <1>3, <1>4 DEF SInv, Typed, Dialogue

\* A failure ends the dialogue.
LEMMA FailStep == SInv /\ Fail /\ UNCHANGED <<proto, target, rest, heard, proxy>> => SInv'
<1> SUFFICES ASSUME SInv, Fail, UNCHANGED <<proto, target, rest, heard, proxy>> PROVE SInv'
  OBVIOUS
<1>1. /\ pc' = "error" /\ UNCHANGED <<then, written, proto, target, rest, heard>>
      /\ UNCHANGED <<inbox, said, data, gone>>
  BY DEF Fail, proxy
<1>2. Typed'
  BY <1>1 DEF SInv, Typed, TypeOK
<1>3. MessagesSound'
  BY <1>1, MessagesKept DEF SInv
<1> QED
  BY <1>1, <1>2, <1>3 DEF SInv, Dialogue

\* The client speaks in its turn.
LEMMA SayStep ==
  ASSUME SInv, written = <<>>, inbox = <<>>, data = 0, Len(said) = Len(heard),
         NEW p \in Starts, NEW m, MessageSound(Len(heard) + 1, m), m.msg = Expects(p),
         (proto = "socks4") <=> (p = "null"),
         Say(m, p), UNCHANGED <<proto, target, rest, heard, proxy>>
  PROVE  SInv'
<1>1. /\ UNCHANGED <<proto, target, rest, heard>> /\ UNCHANGED <<inbox, said, data, gone>>
      /\ pc' = "flush" /\ then' = p
  BY DEF Say, proxy
<1>2. m \in Message
  BY DEF MessageSound
<1>3. PICK w : w = written'
  OBVIOUS
<1>4. PICK v : v = written
  OBVIOUS
<1>5. w = Append(v, m) /\ v = <<>> /\ v \in Seq(Message) /\ Len(v) = 0
  BY <1>3, <1>4 DEF Say
<1>6. w \in Seq(Message) /\ w # <<>> /\ Len(w) = 1 /\ w[1] = m
  BY <1>2, <1>5, AppendProperties
<1>7. Typed'
  <2>1. {pc', then'} \subseteq Reading \cup {"begin", "auth", "request", "flush", "rest", "done", "error"}
    BY <1>1 DEF Starts, Reading
  <2>2. written' \in Seq(Message) /\ Len(written') <= 1
    BY <1>3, <1>6
  <2>3. TypeOK'
    BY <1>1, <2>1, <2>2 DEF SInv, Typed, TypeOK
  <2> QED
    BY <1>1, <2>2, <2>3 DEF SInv, Typed
<1>8. MessageSound(Len(heard) + 1, written[1])'
  <2>1. PICK n : n = Len(heard) + 1
    OBVIOUS
  <2>2. MessageSound(n, m)'
    BY <1>1, <2>1, MessageKept
  <2> QED
    BY <1>1, <1>3, <1>6, <2>1, <2>2 DEF MessageSound, Means
<1>9. \A i \in 1 .. Len(heard') : MessageSound(i, heard[i])'
  <2>1. ASSUME NEW i \in 1 .. Len(heard') PROVE MessageSound(i, heard[i])'
    <3>1. PICK h : h = heard[i]
      OBVIOUS
    <3>2. MessageSound(i, h)
      BY <1>1, <3>1 DEF SInv, MessagesSound
    <3>3. MessageSound(i, h)'
      BY <1>1, <3>2, MessageKept
    <3> QED
      BY <1>1, <3>1, <3>3 DEF MessageSound, Means
  <2> QED
    BY <2>1
<1>10. Len(heard) \in Nat
  BY LenProperties DEF SInv, Typed, TypeOK
<1>11. Stand' = p
  BY <1>1 DEF Stand
<1>12. LastMessage' = m
  BY <1>3, <1>6 DEF LastMessage
<1>13. Len(heard') + Len(written') = Len(said') + 1
  BY <1>1, <1>3, <1>6, <1>10
<1>14. Spoken'
  BY <1>1, <1>11, <1>12, <1>13 DEF Spoken
<1> QED
  BY <1>7, <1>8, <1>9, <1>14 DEF SInv, MessagesSound, Dialogue

LEMMA RequestsTyped ==
  ASSUME target \in Targets
  PROVE  /\ \A w \in {"greeting", "auth"} : Plain(w) \in Message /\ Plain(w).msg = w
         /\ Request4 \in Message /\ Request4.msg = "connect" /\ Request4.host = target
         /\ Request5 \in Message /\ Request5.msg = "connect" /\ Request5.host = target
<1>1. target.kind \in {"v4", "v6", "name"} /\ (target.kind = "name" => target.size \in Nat)
  BY SocksAssumption DEF Targets
<1>2. ASSUME NEW w \in {"greeting", "auth"} PROVE Plain(w) \in Message /\ Plain(w).msg = w
  BY DEF Plain, Message
<1>3. ASSUME NEW f \in {"v4", "v6", "name"}, NEW n \in 0 .. 255
      PROVE  /\ Request(f, n) \in Message /\ Request(f, n).msg = "connect"
             /\ Request(f, n).host = target
  BY DEF Request, Message
<1>4. target.kind = "name" => target.size % 256 \in 0 .. 255
  BY <1>1
<1>5. /\ Request4 \in Message /\ Request4.msg = "connect" /\ Request4.host = target
  <2>1. PICK f \in {"v4", "v6", "name"} : f = IF target.kind = "v4" THEN "v4" ELSE "name"
    OBVIOUS
  <2>2. PICK n \in 0 .. 255 : n = 0
    OBVIOUS
  <2>3. Request4 = Request(f, n)
    BY <2>1, <2>2 DEF Request4
  <2> QED
    BY <1>3, <2>3, ZenonT(40)
<1>6. /\ Request5 \in Message /\ Request5.msg = "connect" /\ Request5.host = target
  <2>1. PICK n \in 0 .. 255 : n = IF target.kind = "name" THEN target.size % 256 ELSE 0
    BY <1>4
  <2>2. Request5 = Request(target.kind, n)
    BY <2>1 DEF Request5
  <2> QED
    BY <1>1, <1>3, <2>2, ZenonT(40)
<1> QED
  BY <1>2, <1>5, <1>6

LEMMA BeginStep == SInv /\ Begin => SInv'
<1> SUFFICES ASSUME SInv, Begin PROVE SInv'
  OBVIOUS
<1>1. Beginning
  BY DEF SInv, Dialogue, Begin, Turn, Spoken, Listening, Starts, Reading
<1>2. /\ written = <<>> /\ inbox = <<>> /\ data = 0 /\ Len(heard) = 0 /\ Len(said) = 0
  BY <1>1 DEF Beginning
<1>3. target \in Targets /\ proto \in {"socks4", "socks5"}
  BY DEF SInv, Typed, TypeOK
<1>4. UNCHANGED <<proto, target, rest, heard, proxy>>
  BY DEF Begin
<1>5. CASE proto = "socks5" /\ Say(Plain("greeting"), "version")
  <2>1. PICK m : m = Plain("greeting")
    OBVIOUS
  <2>2. m \in Message /\ m.msg = "greeting"
    BY <1>3, <2>1, RequestsTyped
  <2>3. MessageSound(Len(heard) + 1, m)
    BY <1>2, <1>5, <2>2 DEF MessageSound
  <2>4. "version" \in Starts /\ m.msg = Expects("version")
    BY <2>2 DEF Starts, Expects
  <2> QED
    BY <1>2, <1>4, <1>5, <2>1, <2>3, <2>4, SayStep
<1>6. CASE proto = "socks4" /\ Refuses(target) /\ Fail
  BY <1>4, <1>6, FailStep
<1>7. CASE proto = "socks4" /\ ~Refuses(target) /\ Say(Request4, "null")
  <2>1. PICK m : m = Request4
    OBVIOUS
  <2>2. m \in Message /\ m.msg = "connect" /\ m.host = target
    BY <1>3, <2>1, RequestsTyped
  <2>3. Means(m)
    BY <1>7, <2>2 DEF Means, Refuses
  <2>4. MessageSound(Len(heard) + 1, m)
    BY <1>2, <1>7, <2>2, <2>3 DEF MessageSound
  <2>5. "null" \in Starts /\ m.msg = Expects("null")
    BY <2>2 DEF Starts, Expects
  <2> QED
    BY <1>2, <1>4, <1>7, <2>1, <2>4, <2>5, SayStep
<1> QED
  BY <1>5, <1>6, <1>7 DEF Begin

\* The replies after which it is the client's turn grant nothing.
LEMMA TurnReplies ==
  ASSUME NEW r \in {<<5, 0>>, <<5, 2>>, <<1, 0>>}
  PROVE  r \notin Grants
<1>1. PICK x \in Byte, y \in Byte : r = Short(x, y)
  BY Numbers DEF Short
<1>2. Text(r, 2)
  BY <1>1, ShortFacts
<1>3. ~Text(r, 8) /\ ~Text(r, 10) /\ ~Text(r, 22)
  BY <1>2, OneLength
<1>4. \A n \in {0, 2} : ~Text(r, 7 + n)
  BY <1>2, OneLength
<1> QED
  BY <1>3, <1>4, GrantsAreLong

\* What Turn says of the messages and of the stream.
LEMMA AtTurn ==
  ASSUME SInv, pc \in {"auth", "request"}
  PROVE  /\ proto = "socks5" /\ written = <<>> /\ inbox = <<>> /\ data = 0
         /\ Len(said) = Len(heard) /\ Len(heard) \in Nat /\ Len(heard) \in 1 .. Len(said)
         /\ Len(heard) + 1 # 1
         /\ pc = "auth" => said[Len(heard)] = <<5, 2>>
         /\ pc = "request" => said[Len(heard)] \in {<<5, 0>>, <<1, 0>>}
<1>1. Turn
  BY DEF SInv, Dialogue, Beginning, Turn, Spoken, Listening, Starts, Reading
<1>2. Len(heard) \in Nat /\ said \in Seq(Seq(0 .. 255))
  BY LenProperties DEF SInv, Typed, TypeOK
<1>3. Len(said) = Len(heard) /\ said # <<>>
  BY <1>1 DEF Turn
<1>4. Len(said) # 0
  BY <1>2, <1>3, EmptySeq
<1>5. Len(heard) \in 1 .. Len(said) /\ Len(heard) + 1 # 1
  BY <1>2, <1>3, <1>4
<1> QED
  BY <1>1, <1>2, <1>3, <1>5 DEF Turn

LEMMA AuthenticateStep == SInv /\ Authenticate => SInv'
<1> SUFFICES ASSUME SInv, Authenticate PROVE SInv'
  OBVIOUS
<1>1. pc = "auth" /\ UNCHANGED <<proto, target, rest, heard, proxy>> /\ Say(Plain("auth"), "auth version")
  BY DEF Authenticate
<1>2. PICK m : m = Plain("auth")
  OBVIOUS
<1>3. m \in Message /\ m.msg = "auth"
  BY <1>2, RequestsTyped DEF SInv, Typed, TypeOK
<1>4. PICK i : i = Len(heard) + 1
  OBVIOUS
<1>5. proto = "socks5" /\ i # 1 /\ i - 1 \in 1 .. Len(said) /\ said[i - 1] = <<5, 2>>
  <2>0. Len(heard) \in Nat
    BY <1>1, AtTurn
  <2>1. i - 1 = Len(heard)
    BY <1>4, <2>0
  <2> QED
    BY <1>1, <1>4, <2>1, AtTurn
<1>6. MessageSound(i, m)
  BY <1>3, <1>5 DEF MessageSound
<1>7. "auth version" \in Starts /\ m.msg = Expects("auth version")
  BY <1>3 DEF Starts, Expects
<1> QED
  BY <1>1, <1>2, <1>4, <1>5, <1>6, <1>7, AtTurn, SayStep

LEMMA SendRequestStep == SInv /\ SendRequest => SInv'
<1> SUFFICES ASSUME SInv, SendRequest PROVE SInv'
  OBVIOUS
<1>1. pc = "request" /\ UNCHANGED <<proto, target, rest, heard, proxy>> /\ target \in Targets
  BY DEF SendRequest, SInv, Typed, TypeOK
<1>2. CASE ~Fits(target)
  BY <1>1, <1>2, FailStep DEF SendRequest
<1>3. CASE Fits(target)
  <2>1. Say(Request5, "reply version")
    BY <1>3 DEF SendRequest
  <2>2. PICK m : m = Request5
    OBVIOUS
  <2>3. m \in Message /\ m.msg = "connect" /\ m.host = target
    BY <1>1, <2>2, RequestsTyped
  <2>4. m.field = "name" => m.len = target.size
    <3>1. m.field = target.kind /\ m.len = IF target.kind = "name" THEN target.size % 256 ELSE 0
      BY <2>2 DEF Request5, Request
    <3>2. target.kind = "name" => target.size \in Nat /\ target.size <= 255
      BY <1>1, <1>3, SocksAssumption DEF Targets, Fits
    <3>3. target.kind = "name" => target.size % 256 = target.size
      BY <3>2
    <3> QED
      BY <3>1, <3>3
  <2>5. PICK i : i = Len(heard) + 1
    OBVIOUS
  <2>6. proto = "socks5" /\ i # 1 /\ i - 1 \in 1 .. Len(said) /\ said[i - 1] \in {<<5, 0>>, <<1, 0>>}
    <3>1. i - 1 = Len(heard)
      BY <1>1, <2>5, AtTurn
    <3> QED
      BY <1>1, <2>5, <3>1, AtTurn
  <2>7. Means(m)
    BY <2>3, <2>4, <2>6 DEF Means
  <2>8. MessageSound(i, m)
    BY <2>3, <2>6, <2>7 DEF MessageSound
  <2>9. "reply version" \in Starts /\ m.msg = Expects("reply version")
    BY <2>3 DEF Starts, Expects
  <2> QED
    BY <1>1, <2>1, <2>2, <2>5, <2>6, <2>8, <2>9, AtTurn, SayStep
<1> QED
  BY <1>2, <1>3

LEMMA BrokenStep == SInv /\ Broken => SInv'
BY FailStep DEF Broken

LEMMA LeaveStep == SInv /\ Leave => SInv'
<1> SUFFICES ASSUME SInv, Leave PROVE SInv'
  OBVIOUS
<1>1. /\ UNCHANGED <<proto, target, heard>> /\ UNCHANGED <<pc, then, rest, written>>
      /\ UNCHANGED <<inbox, said, data>> /\ gone' = TRUE
  BY DEF Leave, client
<1>2. Typed'
  BY <1>1 DEF SInv, Typed, TypeOK
<1>3. MessagesSound'
  BY <1>1, MessagesKept DEF SInv
<1>4. Grants' = Grants /\ \A m : Replies(m)' = Replies(m)
  BY <1>1, ProtoKept
<1>5. Stand' = Stand
  BY <1>1 DEF Stand
<1>6. Dialogue'
  <2>1. Beginning => Beginning'
    BY <1>1 DEF Beginning
  <2>2. Turn => Turn'
    BY <1>1 DEF Turn
  <2>3. Spoken => Spoken'
    BY <1>1, <1>5 DEF Spoken, LastMessage
  <2>4. Listening => Listening'
    BY <1>1, <1>4, <1>5 DEF Listening, Hears, Seen
  <2> QED
    BY <1>1, <2>1, <2>2, <2>3, <2>4 DEF SInv, Dialogue
<1> QED
  BY <1>2, <1>3, <1>6 DEF SInv

----------------------------------------------------------------------------
(***************************************************************************)
(* A message is received.                                                  *)
(***************************************************************************)
LEMMA OneMessage ==
  ASSUME NEW w \in Seq(Message), Len(w) <= 1, w # <<>>
  PROVE  Len(w) = 1 /\ w[1] \in Message
<1>1. PICK n : n = Len(w)
  OBVIOUS
<1>2. n \in Nat /\ n # 0 /\ n <= 1
  BY <1>1, EmptySeq, LenProperties
<1>3. n = 1
  BY ONLY <1>2
<1>4. 1 \in 1 .. Len(w)
  BY <1>1, <1>3
<1> QED
  BY <1>1, <1>3, <1>4, ElementOfSeq

LEMMA DeliverStep ==
  ASSUME SInv, pc = "flush", NEW m, written # <<>>, m = written[1],
         heard' = Append(heard, m), written' = <<>>, pc' \in {pc, then},
         UNCHANGED <<proto, target, then, rest, proxy>>
  PROVE  SInv'
<1>1. /\ UNCHANGED <<proto, target, then, rest>> /\ UNCHANGED <<inbox, said, data, gone>>
  BY DEF proxy
<1>2. PICK h, n : h = heard /\ n = Len(heard)
  OBVIOUS
<1>3. PICK w : w = written
  OBVIOUS
<1>4. h \in Seq(Message) /\ n = Len(h) /\ n \in Nat
  BY <1>2, LenProperties DEF SInv, Typed, TypeOK
<1>5. w \in Seq(Message) /\ Len(w) = 1
  <2>1. w \in Seq(Message) /\ Len(w) <= 1 /\ w # <<>>
    BY <1>3 DEF SInv, Typed, TypeOK
  <2> QED
    BY <2>1, OneMessage
<1>6. m \in Message /\ MessageSound(n + 1, m)
  BY <1>2 DEF SInv, MessagesSound, MessageSound
<1>7. PICK g : g = heard'
  OBVIOUS
<1>8. g = Append(h, m)
  BY <1>2, <1>7
<1>9. g \in Seq(Message) /\ Len(g) = n + 1 /\ g[n + 1] = m
  BY <1>4, <1>6, <1>8, AppendProperties
<1>10. \A i \in 1 .. n : g[i] = h[i]
  BY <1>4, <1>6, <1>8, AppendProperties
<1>11. ~Listening /\ Spoken
  BY DEF SInv, Dialogue, Beginning, Turn, Listening
<1>12. then \in Starts /\ Stand' = Stand
  BY <1>1, <1>11 DEF Spoken, Stand, Starts
<1>13. n = Len(said) /\ Len(said) \in Nat
  BY <1>2, <1>3, <1>4, <1>5, <1>11, LenProperties DEF Spoken, SInv, Typed, TypeOK
<1>14. Typed'
  <2>1. {pc', then'} \subseteq Reading \cup {"begin", "auth", "request", "flush", "rest", "done", "error"}
    BY <1>1, <1>12 DEF Starts, Reading
  <2>2. written' \in Seq(Message) /\ Len(written') <= 1
    OBVIOUS
  <2>3. heard' \in Seq(Message)
    BY <1>7, <1>9
  <2>4. TypeOK'
    BY <1>1, <2>1, <2>2, <2>3 DEF SInv, Typed, TypeOK
  <2>5. Len(said') <= Len(heard')
    BY <1>1, <1>7, <1>9, <1>13
  <2> QED
    BY <2>2, <2>4, <2>5 DEF Typed
<1>15. MessagesSound'
  <2>1. ASSUME NEW i \in 1 .. Len(heard') PROVE MessageSound(i, heard[i])'
    <3>1. PICK e : e = g[i]
      OBVIOUS
    <3>2. MessageSound(i, e)
      <4>1. CASE i = n + 1
        BY <1>6, <1>9, <3>1, <4>1
      <4>2. CASE i # n + 1
        <5>1. i \in 1 .. n
          BY <1>4, <1>7, <1>9, <4>2
        <5>2. e = heard[i]
          BY <1>2, <1>10, <3>1, <5>1
        <5> QED
          BY <1>2, <5>1, <5>2 DEF SInv, MessagesSound
      <4> QED
        BY <4>1, <4>2
    <3>3. MessageSound(i, e)'
      BY <1>1, <3>2, MessageKept
    <3> QED
      BY <1>7, <3>1, <3>3 DEF MessageSound, Means
  <2> QED
    BY <2>1 DEF MessagesSound
<1>16. LastMessage' = m /\ LastMessage = m
  <2>1. LastMessage' = heard'[Len(heard')]
    BY DEF LastMessage
  <2> QED
    BY <1>7, <1>9, <2>1 DEF LastMessage
<1>17. Spoken'
  <2>1. Len(heard') + Len(written') = Len(said') + 1
    BY <1>1, <1>4, <1>7, <1>9, <1>13
  <2>2. inbox' = <<>> /\ data' = 0
    BY <1>1, <1>11 DEF Spoken
  <2>3. ((proto' = "socks4") <=> (Stand' = "null")) /\ LastMessage'.msg = Expects(Stand')
    BY <1>1, <1>11, <1>12, <1>16 DEF Spoken
  <2> QED
    BY <1>1, <1>12, <2>1, <2>2, <2>3 DEF Spoken, Expects
<1> QED
  BY <1>14, <1>15, <1>17 DEF SInv, Dialogue

LEMMA FlushStep == SInv /\ Flush => SInv'
<1> SUFFICES ASSUME SInv, Flush PROVE SInv'
  OBVIOUS
<1>1. /\ pc = "flush" /\ heard' = heard \o written /\ written' = <<>> /\ pc' = then
      /\ UNCHANGED <<proto, target, then, rest, proxy>>
  BY DEF Flush
<1>2. PICK h, w : h = heard /\ w = written
  OBVIOUS
<1>3. h \in Seq(Message) /\ w \in Seq(Message) /\ Len(w) <= 1
  BY <1>2 DEF SInv, Typed, TypeOK
<1>4. CASE w # <<>>
  <2>1. Len(w) = 1 /\ w[1] \in Message
    BY <1>3, <1>4, OneMessage
  <2>2. PICK m : m = w[1]
    OBVIOUS
  <2>3. m \in Message
    BY <2>1, <2>2
  <2>4. w = <<m>>
    BY <1>3, <2>1, <2>2
  <2>5. h \o w = Append(h, m)
    BY <1>3, <2>3, <2>4, AppendIsConcat
  <2> QED
    BY <1>1, <1>2, <1>4, <2>2, <2>5, DeliverStep
<1>5. CASE w = <<>>
  <2>1. heard' = heard /\ written' = written
    <3>1. h \o <<>> = h
      BY <1>3, ConcatEmptySeq
    <3> QED
      BY <1>1, <1>2, <1>5, <3>1
  <2>2. UNCHANGED <<proto, target, then, rest>> /\ UNCHANGED <<inbox, said, data, gone>>
    BY <1>1 DEF proxy
  <2>3. Spoken \/ Listening
    BY <1>1 DEF SInv, Dialogue, Beginning, Turn
  <2>4. then \in Starts
    BY <1>1, <2>3 DEF Spoken, Listening, Starts, Reading
  <2>5. pc' \in Starts /\ Stand' = Stand
    BY <1>1, <2>4 DEF Stand, Starts
  <2>6. Typed'
    <3>1. {pc', then'} \subseteq Reading \cup {"begin", "auth", "request", "flush", "rest", "done", "error"}
      BY <2>2, <2>4, <2>5 DEF Starts, Reading
    <3>2. TypeOK'
      BY <2>1, <2>2, <3>1 DEF SInv, Typed, TypeOK
    <3> QED
      BY <2>1, <2>2, <3>2 DEF SInv, Typed
  <2>7. MessagesSound'
    BY <2>1, <2>2, MessagesKept DEF SInv
  <2>8. Grants' = Grants /\ \A m : Replies(m)' = Replies(m)
    BY <2>2, ProtoKept
  <2>9. Spoken => Spoken'
    BY <1>1, <2>1, <2>2, <2>5 DEF Spoken, LastMessage
  <2>10. Listening => Listening'
    BY <1>1, <2>1, <2>2, <2>5, <2>8 DEF Listening, Hears, Seen, Starts, Reading
  <2> QED
    BY <2>3, <2>6, <2>7, <2>9, <2>10 DEF SInv, Dialogue
<1> QED
  BY <1>4, <1>5

LEMMA TrickleStep == SInv /\ Trickle => SInv'
<1> SUFFICES ASSUME SInv, Trickle PROVE SInv'
  OBVIOUS
<1>1. /\ pc = "flush" /\ written # <<>> /\ heard' = Append(heard, Head(written))
      /\ written' = Tail(written) /\ pc' = pc /\ UNCHANGED <<proto, target, then, rest, proxy>>
  BY DEF Trickle
<1>2. PICK w : w = written
  OBVIOUS
<1>3. w \in Seq(Message) /\ Len(w) <= 1 /\ w # <<>>
  BY <1>1, <1>2 DEF SInv, Typed, TypeOK
<1>5. Len(w) = 1
  BY <1>3, OneMessage
<1>6. PICK t : t = Tail(w)
  OBVIOUS
<1>7. t \in Seq(Message) /\ Len(t) = 0
  BY <1>3, <1>5, <1>6, HeadTailProperties
<1>8. t = <<>>
  BY <1>7, EmptySeq
<1>9. Head(w) = w[1]
  BY <1>3
<1> QED
  BY <1>1, <1>2, <1>6, <1>8, <1>9, DeliverStep

----------------------------------------------------------------------------
(***************************************************************************)
(* The reply is read.                                                      *)
(***************************************************************************)
Open == Reading \cup {"begin", "auth", "request", "flush", "rest", "done", "error"}

LEMMA ReadKeeps ==
  ASSUME SInv, UNCHANGED <<proto, target, then, written, heard, said, data, gone>>,
         pc' \in Open, rest' \in 0 .. 257, inbox' \in Seq(Byte), Dialogue'
  PROVE  SInv'
<1>1. TypeOK'
  <2>1. {pc', then'} \subseteq Open
    BY DEF SInv, Typed, TypeOK, Open
  <2>2. inbox' \in Seq(0 .. 255)
    BY DEF Byte
  <2> QED
    BY <2>1, <2>2 DEF SInv, Typed, TypeOK, Open
<1>2. Typed'
  BY <1>1 DEF SInv, Typed
<1>3. MessagesSound'
  BY MessagesKept DEF SInv
<1> QED
  BY <1>2, <1>3 DEF SInv

\* The message that was answered, and the answer.
LEMMA Answered ==
  ASSUME SInv, Listening
  PROVE  \E n \in Nat \ {0}, m \in Message, reply \in Seq(Byte) :
           /\ n = Len(heard) /\ n = Len(said) /\ m = heard[n] /\ reply = said[n]
           /\ Hears(Stand, m, reply)
<1>1. PICK h, s : h = heard /\ s = said
  OBVIOUS
<1>2. h \in Seq(Message) /\ s \in Seq(Seq(Byte))
  BY <1>1 DEF SInv, Typed, TypeOK, Byte
<1>3. s # <<>> /\ Len(s) = Len(h)
  BY <1>1 DEF Listening
<1>4. PICK n : n = Len(s)
  OBVIOUS
<1>5. n \in Nat /\ n # 0
  BY <1>2, <1>3, <1>4, EmptySeq, LenProperties
<1>6. n \in 1 .. Len(s) /\ n \in 1 .. Len(h)
  BY <1>3, <1>4, <1>5
<1>7. h[n] \in Message
  BY <1>2, <1>6, ElementOfSeq
<1>8. s[n] \in Seq(Byte)
  BY <1>2, <1>6, ElementOfSeq
<1>9. Hears(Stand, h[n], s[n])
  BY <1>1, <1>3, <1>4 DEF Listening
<1> QED
  BY <1>1, <1>3, <1>4, <1>5, <1>7, <1>8, <1>9

\* The client listens on, in another place.
LEMMA ListensOn ==
  ASSUME SInv, Listening, pc # "flush",
         UNCHANGED <<proto, target, then, written, heard, said, data, gone>>,
         NEW p \in Reading \cup {"rest", "done"}, pc' = p, NEW r \in 0 .. 257, rest' = r,
         NEW q \in Seq(Byte), inbox' = q,
         NEW n, NEW m, NEW reply, n = Len(heard), n = Len(said), m = heard[n], reply = said[n],
         Unread(q, reply, ReadOf(p, r, reply), data), Seen(p, r, reply), m.msg = Expects(p),
         p \notin {"rest", "done"} => ((proto = "socks4") <=> (p \in {"null", "code"})),
         Hears(Stand, m, reply)
  PROVE  SInv'
<1>1. Grants' = Grants /\ \A x : Replies(x)' = Replies(x)
  BY ProtoKept
<1>2. Stand' = p
  BY DEF Stand, Reading
<1>3. Seen(p, r, reply)'
  BY <1>1 DEF Seen
<1>4. reply \in Replies(m) /\ (data # 0 => reply \in Grants)
  BY DEF Hears
<1>5. Hears(p, m, reply)'
  BY <1>1, <1>3, <1>4 DEF Hears
<1>6. Hears(Stand, heard[Len(heard)], said[Len(said)])'
  <2>1. heard'[Len(heard')] = m /\ said'[Len(said')] = reply
    OBVIOUS
  <2> QED
    BY <1>2, <1>5, <2>1, ZenonT(40) DEF Hears, Seen, Replies, Grants
<1>7. Listening'
  BY <1>6 DEF Listening
<1> QED
  BY <1>7, ReadKeeps DEF Dialogue, Open

LEMMA ReadRestStep == SInv /\ ReadRest => SInv'
<1> SUFFICES ASSUME SInv, ReadRest PROVE SInv'
  OBVIOUS
<1>1. /\ pc = "rest" /\ pc' = "done" /\ rest' = 0 /\ inbox' = SubSeq(inbox, rest + 1, Len(inbox))
      /\ UNCHANGED <<proto, target, then, written, heard, said, data, gone>>
  BY DEF ReadRest
<1>2. Listening
  BY <1>1 DEF SInv, Dialogue, Beginning, Turn, Spoken, Starts
<1>3. PICK n \in Nat \ {0}, m \in Message, reply \in Seq(Byte) :
        /\ n = Len(heard) /\ n = Len(said) /\ m = heard[n] /\ reply = said[n]
        /\ Hears(Stand, m, reply)
  BY <1>2, Answered
<1>4. Stand = "rest"
  BY <1>1 DEF Stand
<1>5. ReadOf("rest", rest, reply) = Len(reply) - rest /\ ReadOf("done", 0, reply) = Len(reply)
  BY DEF ReadOf, Starts
<1>6. /\ Unread(inbox, reply, Len(reply) - rest, data) /\ rest \in 0 .. Len(reply)
      /\ reply \in Grants /\ m.msg = Expects("rest")
  BY <1>3, <1>4, <1>5 DEF Hears, Seen
<1>7. PICK q, c : q = inbox /\ c = rest
  OBVIOUS
<1>8. q \in Seq(Byte) /\ data \in Nat /\ c \in 0 .. Len(reply)
  BY <1>6, <1>7, SocksAssumption DEF SInv, Typed, TypeOK, Byte
<1>9. PICK t : t = SubSeq(q, c + 1, Len(q))
  OBVIOUS
<1>10. t \in Seq(Byte) /\ Unread(t, reply, Len(reply), data)
  BY <1>6, <1>7, <1>8, <1>9, UnreadRest
<1>11. Seen("done", 0, reply) /\ m.msg = Expects("done")
  BY <1>6 DEF Seen, Expects
<1>12. PICK p \in Reading \cup {"rest", "done"} : p = "done"
  OBVIOUS
<1>13. PICK r \in 0 .. 257 : r = 0
  OBVIOUS
<1>14. pc # "flush" /\ pc' = p /\ rest' = r /\ inbox' = t
  BY <1>1, <1>7, <1>9, <1>12, <1>13
<1>15. Unread(t, reply, ReadOf(p, r, reply), data) /\ Seen(p, r, reply) /\ m.msg = Expects(p)
  BY <1>5, <1>10, <1>11, <1>12, <1>13
<1>16. t \in Seq(Byte)
  BY <1>10
<1>17. p \notin {"rest", "done"} => ((proto = "socks4") <=> (p \in {"null", "code"}))
  BY <1>12
<1> QED
  BY <1>1, <1>2, <1>3, <1>14, <1>15, <1>16, <1>17, ListensOn

LEMMA ReadSoFar ==
  ASSUME NEW p \in Reading, NEW r, NEW reply
  PROVE  /\ p \in Starts => ReadOf(p, r, reply) = 0
         /\ p \in {"method", "auth status", "reply code", "code"} => ReadOf(p, r, reply) = 1
         /\ p = "reply reserved" => ReadOf(p, r, reply) = 2
         /\ p = "reply type" => ReadOf(p, r, reply) = 3
         /\ p = "reply length" => ReadOf(p, r, reply) = 4
         /\ ReadOf(p, r, reply) \in 0 .. 4
         /\ Expects(p) # "connect" => ReadOf(p, r, reply) \in 0 .. 1
<1>1. p \in Starts => ReadOf(p, r, reply) = 0
  BY DEF ReadOf, Starts
<1>2. p \in {"method", "auth status", "reply code", "code"} => ReadOf(p, r, reply) = 1
  BY DEF ReadOf, Starts
<1>3. p = "reply reserved" => ReadOf(p, r, reply) = 2
  BY DEF ReadOf, Starts
<1>4. p = "reply type" => ReadOf(p, r, reply) = 3
  BY DEF ReadOf, Starts
<1>5. p = "reply length" => ReadOf(p, r, reply) = 4
  BY DEF ReadOf, Starts
<1>6. \/ p \in Starts \/ p \in {"method", "auth status", "reply code", "code"}
      \/ p \in {"reply reserved", "reply type", "reply length"}
  BY DEF Reading, Starts
<1>7. PICK v : v = ReadOf(p, r, reply)
  OBVIOUS
<1>8. p \in {"reply reserved", "reply type", "reply length"} => Expects(p) = "connect"
  BY DEF Expects
<1>9. v \in {0, 1} \/ (Expects(p) = "connect" /\ v \in {2, 3, 4})
  BY <1>1, <1>2, <1>3, <1>4, <1>5, <1>6, <1>7, <1>8
<1>10. v \in 0 .. 4 /\ (Expects(p) # "connect" => v \in 0 .. 1)
  BY ONLY <1>9
<1> QED
  BY <1>1, <1>2, <1>3, <1>4, <1>5, <1>7, <1>10

\* One byte is read: where the client is, and what byte it is.
LEMMA ByteRead ==
  ASSUME SInv, pc \in Reading, inbox # <<>>
  PROVE  /\ Listening
         /\ \E n \in Nat \ {0}, m \in Message, reply \in Seq(Byte), k \in 0 .. 4 :
              /\ n = Len(heard) /\ n = Len(said) /\ m = heard[n] /\ reply = said[n]
              /\ Hears(pc, m, reply) /\ k = ReadOf(pc, rest, reply)
              /\ k < Len(reply) /\ reply[k + 1] \in Byte /\ Head(inbox) = reply[k + 1]
              /\ Tail(inbox) \in Seq(Byte) /\ Unread(Tail(inbox), reply, k + 1, data)
<1>1. Listening
  BY DEF SInv, Dialogue, Beginning, Turn, Spoken, Reading
<1>2. Stand = pc
  BY DEF Stand, Reading
<1>3. PICK n \in Nat \ {0}, m \in Message, reply \in Seq(Byte) :
        /\ n = Len(heard) /\ n = Len(said) /\ m = heard[n] /\ reply = said[n]
        /\ Hears(pc, m, reply)
  BY <1>1, <1>2, Answered
<1>4. PICK k : k = ReadOf(pc, rest, reply)
  OBVIOUS
<1>5. k \in 0 .. 4 /\ (Expects(pc) # "connect" => k \in 0 .. 1)
  BY <1>4, ReadSoFar DEF Expects
<1>6. m.msg = Expects(pc) /\ reply \in Replies(m) /\ Unread(inbox, reply, k, data)
  BY <1>3, <1>4 DEF Hears
<1>7. Len(reply) \in Nat
  BY LenProperties
<1>8. k < Len(reply)
  <2>1. CASE m.msg \in {"greeting", "auth"}
    <3>1. Text(reply, 2)
      BY <1>6, <2>1, ShortReplies
    <3>2. Len(reply) = 2
      BY <3>1 DEF Text
    <3>3. k \in 0 .. 1
      BY <1>5, <1>6, <2>1
    <3> QED
      BY <3>2, <3>3
  <2>2. CASE m.msg = "connect"
    <3>1. PICK l \in Nat : l >= 7 /\ Text(reply, l)
      BY <1>6, <2>2, RequestReplies DEF SInv, Typed, TypeOK
    <3>2. Len(reply) = l
      BY <3>1 DEF Text
    <3> QED
      BY <1>5, <3>1, <3>2
  <2> QED
    BY <2>1, <2>2 DEF Message
<1>9. PICK q : q = inbox
  OBVIOUS
<1>10. q \in Seq(Byte) /\ data \in Nat /\ k \in Nat
  BY <1>5, <1>9, SocksAssumption DEF SInv, Typed, TypeOK, Byte
<1>11. Head(q) = reply[k + 1]
  BY <1>6, <1>8, <1>9, <1>10, UnreadHead
<1>12. Tail(q) \in Seq(Byte) /\ Unread(Tail(q), reply, k + 1, data)
  BY <1>6, <1>8, <1>9, <1>10, UnreadTail
<1>13. k + 1 \in 1 .. Len(reply)
  BY <1>5, <1>7, <1>8
<1>14. reply[k + 1] \in Byte
  BY <1>13, ElementOfSeq
<1> QED
  BY <1>1, <1>3, <1>4, <1>5, <1>8, <1>9, <1>11, <1>12, <1>14

\* Where a byte leads.
LeadsOn(how, from, b, c, to) == proto = how /\ pc = from /\ b = c /\ After(b) = to

Continues(b) ==
  \/ After(b) = "error"
  \/ LeadsOn("socks4", "null", b, 0, "code")
  \/ LeadsOn("socks4", "code", b, 90, "rest")
  \/ LeadsOn("socks5", "version", b, 5, "method")
  \/ LeadsOn("socks5", "method", b, 0, "request")
  \/ LeadsOn("socks5", "method", b, 2, "auth")
  \/ LeadsOn("socks5", "auth version", b, 1, "auth status")
  \/ LeadsOn("socks5", "auth status", b, 0, "request")
  \/ LeadsOn("socks5", "reply version", b, 5, "reply code")
  \/ LeadsOn("socks5", "reply code", b, 0, "reply reserved")
  \/ LeadsOn("socks5", "reply reserved", b, 0, "reply type")
  \/ LeadsOn("socks5", "reply type", b, 3, "reply length")
  \/ LeadsOn("socks5", "reply type", b, 1, "rest")
  \/ LeadsOn("socks5", "reply type", b, 4, "rest")
  \/ LeadsOn("socks5", "reply length", b, b, "rest")

LEMMA WhereTo ==
  ASSUME NEW b, proto \in {"socks4", "socks5"}
  PROVE  Continues(b)
<1>1. CASE proto = "socks4"
  <2>1. After(b) = After4(b)
    BY <1>1 DEF After
  <2>2. \/ After4(b) = "error"
        \/ pc = "null" /\ b = 0 /\ After4(b) = "code"
        \/ pc = "code" /\ b = 90 /\ After4(b) = "rest"
    BY DEF After4
  <2> QED
    BY <1>1, <2>1, <2>2 DEF LeadsOn, Continues
<1>2. CASE proto = "socks5"
  <2>1. After(b) = After5(b)
    BY <1>2 DEF After
  <2>2. \/ After5(b) = "error"
        \/ pc = "version" /\ b = 5 /\ After5(b) = "method"
        \/ pc = "method" /\ b = 0 /\ After5(b) = "request"
        \/ pc = "method" /\ b = 2 /\ After5(b) = "auth"
        \/ pc = "auth version" /\ b = 1 /\ After5(b) = "auth status"
        \/ pc = "auth status" /\ b = 0 /\ After5(b) = "request"
        \/ pc = "reply version" /\ b = 5 /\ After5(b) = "reply code"
        \/ pc = "reply code" /\ b = 0 /\ After5(b) = "reply reserved"
        \/ pc = "reply reserved" /\ b = 0 /\ After5(b) = "reply type"
        \/ pc = "reply type" /\ b = 3 /\ After5(b) = "reply length"
        \/ pc = "reply type" /\ b \in {1, 4} /\ After5(b) = "rest"
        \/ pc = "reply length" /\ After5(b) = "rest"
    <3>1. pc = "version" => After5(b) = IF b = 5 THEN "method" ELSE "error"
      BY DEF After5
    <3>2. pc = "method" => After5(b) = IF b = 0 THEN "request" ELSE IF b = 2 THEN "auth" ELSE "error"
      BY DEF After5
    <3>3. pc = "auth version" => After5(b) = IF b = 1 THEN "auth status" ELSE "error"
      BY DEF After5
    <3>4. pc = "auth status" => After5(b) = IF b = 0 THEN "request" ELSE "error"
      BY DEF After5, IsAuthenticated
    <3>5. pc = "reply version" => After5(b) = IF b = 5 THEN "reply code" ELSE "error"
      BY DEF After5
    <3>6. pc = "reply code" => After5(b) = IF b = 0 THEN "reply reserved" ELSE "error"
      BY DEF After5, IsGrant
    <3>7. pc = "reply reserved" => After5(b) = IF b = 0 THEN "reply type" ELSE "error"
      BY DEF After5
    <3>8. pc = "reply type" =>
            /\ b = 3 => After5(b) = "reply length"
            /\ b \in {1, 4} => After5(b) = "rest"
            /\ b \notin {1, 3, 4} => After5(b) = "error"
      <4>0. 3 \notin {1, 4}
        OBVIOUS
      <4>1. ASSUME pc = "reply type", b = 3 PROVE After5(b) = "reply length"
        BY <4>0, <4>1, Zenon DEF After5
      <4>2. ASSUME pc = "reply type", b \in {1, 4} PROVE After5(b) = "rest"
        <5>0. b = 1 \/ b = 4
          BY <4>2, Zenon
        <5>1. b # 3
          BY ONLY <5>0
        <5> QED
          BY <4>2, <5>1, Zenon DEF After5
      <4>3. pc = "reply type" /\ b \notin {1, 3, 4} => After5(b) = "error"
        BY DEF After5
      <4> QED
        BY <4>1, <4>2, <4>3
    <3>9. pc = "reply length" => After5(b) = "rest"
      BY DEF After5
    <3>10. pc \notin {"version", "method", "auth version", "auth status", "reply version",
                     "reply code", "reply reserved", "reply type", "reply length"}
             => After5(b) = "error"
      BY DEF After5
    <3> QED
      BY <3>1, <3>2, <3>3, <3>4, <3>5, <3>6, <3>7, <3>8, <3>9, <3>10
  <2> QED
    BY <1>2, <2>1, <2>2, ZenonT(40) DEF LeadsOn, Continues
<1> QED
  BY <1>1, <1>2

\* After a short reply it is the client's turn.
LEMMA TurnNext ==
  ASSUME SInv, Listening, proto = "socks5",
         UNCHANGED <<proto, target, then, written, heard, said, data, gone>>,
         NEW p \in {"auth", "request"}, pc' = p, rest' = 0, NEW q \in Seq(Byte), inbox' = q,
         NEW n, NEW reply \in Seq(Byte), n = Len(said), reply = said[n],
         Text(reply, 2), Unread(q, reply, 2, data), reply \notin Grants,
         data # 0 => reply \in Grants,
         p = "auth" => reply = <<5, 2>>, p = "request" => reply \in {<<5, 0>>, <<1, 0>>}
  PROVE  SInv'
<1>1. data = 0
  OBVIOUS
<1>2. Len(reply) = 2
  BY DEF Text
<1>3. Len(q) = 0
  BY <1>1, <1>2 DEF Unread
<1>4. q = <<>>
  BY <1>3, EmptySeq
<1>5. written' = <<>> /\ Len(said') = Len(heard') /\ said' # <<>>
  BY DEF Listening
<1>6. said'[Len(said')] = reply
  OBVIOUS
<1>7. Turn'
  BY <1>1, <1>4, <1>5, <1>6 DEF Turn
<1>8. pc' \in Open /\ rest' \in 0 .. 257
  BY DEF Open
<1> QED
  BY <1>7, <1>8, ReadKeeps DEF Dialogue

LEMMA ReadByteStep == SInv /\ ReadByte => SInv'
<1> SUFFICES ASSUME SInv, ReadByte PROVE SInv'
  OBVIOUS
<1>1. /\ pc \in Reading /\ inbox # <<>> /\ pc' = After(Head(inbox))
      /\ rest' = (IF pc' = "rest" THEN Rest(Head(inbox)) ELSE 0) /\ inbox' = Tail(inbox)
      /\ UNCHANGED <<proto, target, then, written, heard, said, data, gone>>
  BY DEF ReadByte
<1>2. Listening
  BY <1>1, ByteRead
<1>3. PICK n \in Nat \ {0}, m \in Message, reply \in Seq(Byte), k \in 0 .. 4 :
        /\ n = Len(heard) /\ n = Len(said) /\ m = heard[n] /\ reply = said[n]
        /\ Hears(pc, m, reply) /\ k = ReadOf(pc, rest, reply)
        /\ k < Len(reply) /\ reply[k + 1] \in Byte /\ Head(inbox) = reply[k + 1]
        /\ Tail(inbox) \in Seq(Byte) /\ Unread(Tail(inbox), reply, k + 1, data)
  BY <1>1, ByteRead
<1>4. PICK b \in Byte : b = reply[k + 1] /\ b = Head(inbox)
  BY <1>3
<1>5. PICK q \in Seq(Byte) : q = Tail(inbox)
  BY <1>3
<1>6. PICK p : p = pc
  OBVIOUS
<1>7. /\ inbox' = q /\ Unread(q, reply, k + 1, data) /\ pc' = After(b)
      /\ rest' = IF pc' = "rest" THEN Rest(b) ELSE 0
  BY <1>1, <1>3, <1>4, <1>5
<1>8. /\ (p \in Starts => k = 0)
      /\ (p \in {"method", "auth status", "reply code", "code"} => k = 1)
      /\ (p = "reply reserved" => k = 2) /\ (p = "reply type" => k = 3)
      /\ (p = "reply length" => k = 4)
  BY <1>1, <1>3, <1>6, ReadSoFar
<1>8a. PICK j : j = k + 1
  OBVIOUS
<1>8b. /\ (p \in Starts => j = 1)
      /\ (p \in {"method", "auth status", "reply code", "code"} => j = 2)
      /\ (p = "reply reserved" => j = 3) /\ (p = "reply type" => j = 4)
      /\ (p = "reply length" => j = 5)
  <2>1. (k = 0 => j = 1) /\ (k = 1 => j = 2) /\ (k = 2 => j = 3) /\ (k = 3 => j = 4) /\ (k = 4 => j = 5)
    BY ONLY <1>8a
  <2> QED
    BY <1>8, <2>1, Zenon
<1>8c. b = reply[j] /\ Unread(q, reply, j, data)
  BY <1>4, <1>7, <1>8a
<1>9. /\ (p \in Starts => b = reply[1])
      /\ (p \in {"method", "auth status", "reply code", "code"} => b = reply[2])
      /\ (p = "reply reserved" => b = reply[3]) /\ (p = "reply type" => b = reply[4])
      /\ (p = "reply length" => b = reply[5])
  BY <1>8b, <1>8c
<1>10. /\ (p \in Starts => Unread(q, reply, 1, data))
       /\ (p \in {"method", "auth status", "reply code", "code"} => Unread(q, reply, 2, data))
       /\ (p = "reply reserved" => Unread(q, reply, 3, data))
       /\ (p = "reply type" => Unread(q, reply, 4, data))
       /\ (p = "reply length" => Unread(q, reply, 5, data))
  BY <1>8b, <1>8c
<1>11. /\ reply \in Replies(m) /\ m.msg = Expects(p) /\ Seen(p, rest, reply)
       /\ (data # 0 => reply \in Grants)
  BY <1>3, <1>6 DEF Hears
<1>12. Stand = pc /\ pc # "flush" /\ proto \in {"socks4", "socks5"} /\ Hears(Stand, m, reply)
  BY <1>1, <1>3 DEF Stand, Reading, SInv, Typed, TypeOK
<1>13. ASSUME NEW s \in Reading, pc' = s, Unread(q, reply, ReadOf(s, 0, reply), data),
              Seen(s, 0, reply), m.msg = Expects(s), (proto = "socks4") <=> (s \in {"null", "code"})
       PROVE  SInv'
  <2>1. PICK r \in 0 .. 257 : r = 0
    OBVIOUS
  <2>2. s # "rest" /\ s \in Reading \cup {"rest", "done"}
    BY DEF Reading
  <2>3. rest' = r
    BY <1>7, <1>13, <2>1, <2>2
  <2>4. Unread(q, reply, ReadOf(s, r, reply), data) /\ Seen(s, r, reply)
    BY <1>13, <2>1
  <2> QED
    BY <1>1, <1>2, <1>3, <1>7, <1>12, <1>13, <2>2, <2>3, <2>4, ListensOn
<1>14. ASSUME pc' = "rest", NEW r \in 0 .. 257, rest' = r, Text(reply, (k + 1) + r), reply \in Grants,
              m.msg = "connect"
       PROVE  SInv'
  <2>1. PICK s \in Reading \cup {"rest", "done"} : s = "rest"
    OBVIOUS
  <2>2. Len(reply) = (k + 1) + r
    BY <1>14 DEF Text
  <2>3. ReadOf(s, r, reply) = Len(reply) - r
    BY <2>1 DEF ReadOf, Starts
  <2>4. ReadOf(s, r, reply) = k + 1
    BY <2>2, <2>3
  <2>5. r \in 0 .. Len(reply)
    BY <2>2
  <2>6. Seen(s, r, reply)
    BY <1>14, <2>1, <2>5 DEF Seen
  <2>7. m.msg = Expects(s)
    BY <1>14, <2>1 DEF Expects
  <2>8. Unread(q, reply, ReadOf(s, r, reply), data)
    BY <1>7, <2>4
  <2>9. pc' = s /\ (s \notin {"rest", "done"} => ((proto = "socks4") <=> (s \in {"null", "code"})))
    BY <1>14, <2>1
  <2>10. rest' = r
    BY <1>14
  <2> QED
    BY <1>1, <1>2, <1>3, <1>7, <1>12, <2>6, <2>7, <2>8, <2>9, <2>10, ListensOn
<1>15. CASE LeadsOn("socks4", "null", b, 0, "code")
  <2>0. proto = "socks4" /\ pc = "null" /\ b = 0 /\ After(b) = "code"
    BY <1>15 DEF LeadsOn
  <2>1. PICK s \in Reading : s = "code"
    BY DEF Reading
  <2>2. pc' = s /\ ((proto = "socks4") <=> (s \in {"null", "code"}))
    BY <1>7, <2>0, <2>1
  <2>3. m.msg = Expects(s)
    BY <1>6, <1>11, <2>0, <2>1 DEF Expects
  <2>4. ReadOf(s, 0, reply) = 1
    BY <2>1, ReadSoFar
  <2>5. Unread(q, reply, ReadOf(s, 0, reply), data)
    BY <1>6, <1>10, <2>0, <2>4 DEF Starts
  <2>6. Seen(s, 0, reply)
    BY <1>6, <1>9, <1>11, <2>0, <2>1 DEF Seen, Starts
  <2> QED
    BY <1>13, <2>2, <2>3, <2>5, <2>6
<1>16. CASE LeadsOn("socks4", "code", b, 90, "rest")
  <2>0. proto = "socks4" /\ pc = "code" /\ b = 90 /\ After(b) = "rest"
    BY <1>16 DEF LeadsOn
  <2>1. m.msg = "connect"
    BY <1>6, <1>11, <2>0 DEF Expects
  <2>2. reply[1] = 0 /\ reply[2] = 90
    BY <1>6, <1>9, <1>11, <2>0 DEF Seen
  <2>3. Text(reply, 8) /\ reply \in Grants
    BY <1>11, <1>12, <2>0, <2>1, <2>2, RequestReplies
  <2>4. PICK r \in 0 .. 257 : r = 6
    OBVIOUS
  <2>5. pc' = "rest" /\ rest' = r
    BY <1>7, <2>0, <2>4 DEF Rest
  <2>6. (k + 1) + r = 8
    BY <1>6, <1>8, <2>0, <2>4
  <2> QED
    BY <1>14, <2>1, <2>3, <2>5, <2>6
<1>17. CASE LeadsOn("socks5", "version", b, 5, "method")
  <2>0. proto = "socks5" /\ pc = "version" /\ b = 5 /\ After(b) = "method"
    BY <1>17 DEF LeadsOn
  <2>1. PICK s \in Reading : s = "method"
    BY DEF Reading
  <2>2. pc' = s /\ ((proto = "socks4") <=> (s \in {"null", "code"}))
    BY <1>7, <2>0, <2>1
  <2>3. m.msg = Expects(s)
    BY <1>6, <1>11, <2>0, <2>1 DEF Expects
  <2>4. ReadOf(s, 0, reply) = 1
    BY <2>1, ReadSoFar
  <2>5. Unread(q, reply, ReadOf(s, 0, reply), data)
    BY <1>6, <1>10, <2>0, <2>4 DEF Starts
  <2>6. Seen(s, 0, reply)
    BY <1>6, <1>9, <1>11, <2>0, <2>1 DEF Seen, Starts
  <2> QED
    BY <1>13, <2>2, <2>3, <2>5, <2>6
<1>18. CASE LeadsOn("socks5", "method", b, 0, "request")
  <2>0. proto = "socks5" /\ pc = "method" /\ b = 0 /\ After(b) = "request"
    BY <1>18 DEF LeadsOn
  <2>1. PICK s \in {"auth", "request"} : s = "request"
    OBVIOUS
  <2>2. pc' = s /\ rest' = 0
    BY <1>7, <2>0, <2>1
  <2>3. m.msg = "greeting"
    BY <1>6, <1>11, <2>0 DEF Expects
  <2>4. Text(reply, 2) /\ reply \notin Grants
    BY <1>11, <2>3, ShortReplies
  <2>5. reply[1] = 5 /\ reply[2] = 0
    BY <1>6, <1>9, <1>11, <2>0 DEF Seen
  <2>6. reply = <<5, 0>>
    BY <1>11, <2>3, <2>5, ShortReplies, Zenon
  <2>7. Unread(q, reply, 2, data)
    BY <1>6, <1>10, <2>0
  <2>8. /\ (s = "auth" => reply = <<5, 2>>)
        /\ (s = "request" => reply \in {<<5, 0>>, <<1, 0>>})
    BY <2>1, <2>6
  <2> QED
    BY <1>1, <1>2, <1>3, <1>7, <1>11, <2>0, <2>2, <2>4, <2>7, <2>8, TurnNext
<1>19. CASE LeadsOn("socks5", "method", b, 2, "auth")
  <2>0. proto = "socks5" /\ pc = "method" /\ b = 2 /\ After(b) = "auth"
    BY <1>19 DEF LeadsOn
  <2>1. PICK s \in {"auth", "request"} : s = "auth"
    OBVIOUS
  <2>2. pc' = s /\ rest' = 0
    BY <1>7, <2>0, <2>1
  <2>3. m.msg = "greeting"
    BY <1>6, <1>11, <2>0 DEF Expects
  <2>4. Text(reply, 2) /\ reply \notin Grants
    BY <1>11, <2>3, ShortReplies
  <2>5. reply[1] = 5 /\ reply[2] = 2
    BY <1>6, <1>9, <1>11, <2>0 DEF Seen
  <2>6. reply = <<5, 2>>
    BY <1>11, <2>3, <2>5, ShortReplies, Zenon
  <2>7. Unread(q, reply, 2, data)
    BY <1>6, <1>10, <2>0
  <2>8. /\ (s = "auth" => reply = <<5, 2>>)
        /\ (s = "request" => reply \in {<<5, 0>>, <<1, 0>>})
    BY <2>1, <2>6
  <2> QED
    BY <1>1, <1>2, <1>3, <1>7, <1>11, <2>0, <2>2, <2>4, <2>7, <2>8, TurnNext
<1>20. CASE LeadsOn("socks5", "auth version", b, 1, "auth status")
  <2>0. proto = "socks5" /\ pc = "auth version" /\ b = 1 /\ After(b) = "auth status"
    BY <1>20 DEF LeadsOn
  <2>1. PICK s \in Reading : s = "auth status"
    BY DEF Reading
  <2>2. pc' = s /\ ((proto = "socks4") <=> (s \in {"null", "code"}))
    BY <1>7, <2>0, <2>1
  <2>3. m.msg = Expects(s)
    BY <1>6, <1>11, <2>0, <2>1 DEF Expects
  <2>4. ReadOf(s, 0, reply) = 1
    BY <2>1, ReadSoFar
  <2>5. Unread(q, reply, ReadOf(s, 0, reply), data)
    BY <1>6, <1>10, <2>0, <2>4 DEF Starts
  <2>6. Seen(s, 0, reply)
    BY <1>6, <1>9, <1>11, <2>0, <2>1 DEF Seen, Starts
  <2> QED
    BY <1>13, <2>2, <2>3, <2>5, <2>6
<1>21. CASE LeadsOn("socks5", "auth status", b, 0, "request")
  <2>0. proto = "socks5" /\ pc = "auth status" /\ b = 0 /\ After(b) = "request"
    BY <1>21 DEF LeadsOn
  <2>1. PICK s \in {"auth", "request"} : s = "request"
    OBVIOUS
  <2>2. pc' = s /\ rest' = 0
    BY <1>7, <2>0, <2>1
  <2>3. m.msg = "auth"
    BY <1>6, <1>11, <2>0 DEF Expects
  <2>4. Text(reply, 2) /\ reply \notin Grants
    BY <1>11, <2>3, ShortReplies
  <2>5. reply[1] = 1 /\ reply[2] = 0
    BY <1>6, <1>9, <1>11, <2>0 DEF Seen
  <2>6. reply = <<1, 0>>
    BY <1>11, <2>3, <2>5, ShortReplies, Zenon
  <2>7. Unread(q, reply, 2, data)
    BY <1>6, <1>10, <2>0
  <2>8. /\ (s = "auth" => reply = <<5, 2>>)
        /\ (s = "request" => reply \in {<<5, 0>>, <<1, 0>>})
    BY <2>1, <2>6
  <2> QED
    BY <1>1, <1>2, <1>3, <1>7, <1>11, <2>0, <2>2, <2>4, <2>7, <2>8, TurnNext
<1>22. CASE LeadsOn("socks5", "reply version", b, 5, "reply code")
  <2>0. proto = "socks5" /\ pc = "reply version" /\ b = 5 /\ After(b) = "reply code"
    BY <1>22 DEF LeadsOn
  <2>1. PICK s \in Reading : s = "reply code"
    BY DEF Reading
  <2>2. pc' = s /\ ((proto = "socks4") <=> (s \in {"null", "code"}))
    BY <1>7, <2>0, <2>1
  <2>3. m.msg = Expects(s)
    BY <1>6, <1>11, <2>0, <2>1 DEF Expects
  <2>4. ReadOf(s, 0, reply) = 1
    BY <2>1, ReadSoFar
  <2>5. Unread(q, reply, ReadOf(s, 0, reply), data)
    BY <1>6, <1>10, <2>0, <2>4 DEF Starts
  <2>6. Seen(s, 0, reply)
    BY <1>6, <1>9, <1>11, <2>0, <2>1 DEF Seen, Starts
  <2> QED
    BY <1>13, <2>2, <2>3, <2>5, <2>6
<1>23. CASE LeadsOn("socks5", "reply code", b, 0, "reply reserved")
  <2>0. proto = "socks5" /\ pc = "reply code" /\ b = 0 /\ After(b) = "reply reserved"
    BY <1>23 DEF LeadsOn
  <2>1. PICK s \in Reading : s = "reply reserved"
    BY DEF Reading
  <2>2. pc' = s /\ ((proto = "socks4") <=> (s \in {"null", "code"}))
    BY <1>7, <2>0, <2>1
  <2>3. m.msg = Expects(s)
    BY <1>6, <1>11, <2>0, <2>1 DEF Expects
  <2>4. ReadOf(s, 0, reply) = 2
    BY <2>1, ReadSoFar
  <2>5. Unread(q, reply, ReadOf(s, 0, reply), data)
    BY <1>6, <1>10, <2>0, <2>4 DEF Starts
  <2>6. Seen(s, 0, reply)
    BY <1>6, <1>9, <1>11, <2>0, <2>1 DEF Seen, Starts
  <2> QED
    BY <1>13, <2>2, <2>3, <2>5, <2>6
<1>24. CASE LeadsOn("socks5", "reply reserved", b, 0, "reply type")
  <2>0. proto = "socks5" /\ pc = "reply reserved" /\ b = 0 /\ After(b) = "reply type"
    BY <1>24 DEF LeadsOn
  <2>1. PICK s \in Reading : s = "reply type"
    BY DEF Reading
  <2>2. pc' = s /\ ((proto = "socks4") <=> (s \in {"null", "code"}))
    BY <1>7, <2>0, <2>1
  <2>3. m.msg = Expects(s)
    BY <1>6, <1>11, <2>0, <2>1 DEF Expects
  <2>4. ReadOf(s, 0, reply) = 3
    BY <2>1, ReadSoFar
  <2>5. Unread(q, reply, ReadOf(s, 0, reply), data)
    BY <1>6, <1>10, <2>0, <2>4 DEF Starts
  <2>6. Seen(s, 0, reply)
    BY <1>6, <1>9, <1>11, <2>0, <2>1 DEF Seen, Starts
  <2> QED
    BY <1>13, <2>2, <2>3, <2>5, <2>6
<1>25. CASE LeadsOn("socks5", "reply type", b, 3, "reply length")
  <2>0. proto = "socks5" /\ pc = "reply type" /\ b = 3 /\ After(b) = "reply length"
    BY <1>25 DEF LeadsOn
  <2>1. PICK s \in Reading : s = "reply length"
    BY DEF Reading
  <2>2. pc' = s /\ ((proto = "socks4") <=> (s \in {"null", "code"}))
    BY <1>7, <2>0, <2>1
  <2>3. m.msg = Expects(s)
    BY <1>6, <1>11, <2>0, <2>1 DEF Expects
  <2>4. ReadOf(s, 0, reply) = 4
    BY <2>1, ReadSoFar
  <2>5. Unread(q, reply, ReadOf(s, 0, reply), data)
    BY <1>6, <1>10, <2>0, <2>4 DEF Starts
  <2>6. Seen(s, 0, reply)
    BY <1>6, <1>9, <1>11, <2>0, <2>1 DEF Seen, Starts
  <2> QED
    BY <1>13, <2>2, <2>3, <2>5, <2>6
<1>26. CASE LeadsOn("socks5", "reply type", b, 1, "rest") \/ LeadsOn("socks5", "reply type", b, 4, "rest")
  <2>0. proto = "socks5" /\ pc = "reply type" /\ b \in {1, 4} /\ After(b) = "rest"
    BY <1>26 DEF LeadsOn
  <2>1. m.msg = "connect"
    BY <1>6, <1>11, <2>0 DEF Expects
  <2>2. reply[1] = 5 /\ reply[2] = 0 /\ reply[3] = 0 /\ reply[4] = b
    BY <1>6, <1>9, <1>11, <2>0 DEF Seen
  <2>3. reply \in Grants /\ (b = 1 => Text(reply, 10)) /\ (b = 4 => Text(reply, 22))
    BY <1>11, <1>12, <2>0, <2>1, <2>2, RequestReplies
  <2>4. PICK r \in 0 .. 257 : r = IF b = 1 THEN 6 ELSE 18
    OBVIOUS
  <2>5. pc' = "rest" /\ rest' = r
    <3>1. Rest(b) = IF b = 1 THEN 4 + 2 ELSE 16 + 2
      BY <2>0, Zenon DEF Rest
    <3>2. r = IF b = 1 THEN 4 + 2 ELSE 16 + 2
      BY <2>4
    <3> QED
      BY <1>7, <2>0, <3>1, <3>2
  <2>6. k = 3
    BY <1>6, <1>8, <2>0
  <2>7. Text(reply, (k + 1) + r)
    <3>1. CASE b = 1
      <4>1. r = 6
        BY <2>4, <3>1
      <4>2. (k + 1) + r = 10
        BY ONLY <2>6, <4>1
      <4> QED
        BY <2>3, <3>1, <4>2
    <3>2. CASE b = 4
      <4>1. r = 18
        BY <2>4, <3>2
      <4>2. (k + 1) + r = 22
        BY ONLY <2>6, <4>1
      <4> QED
        BY <2>3, <3>2, <4>2
    <3> QED
      BY <2>0, <3>1, <3>2
  <2> QED
    BY <1>14, <2>1, <2>3, <2>5, <2>7
<1>27. CASE LeadsOn("socks5", "reply length", b, b, "rest")
  <2>0. proto = "socks5" /\ pc = "reply length" /\ After(b) = "rest"
    BY <1>27 DEF LeadsOn
  <2>1. m.msg = "connect"
    BY <1>6, <1>11, <2>0 DEF Expects
  <2>2. reply[1] = 5 /\ reply[2] = 0 /\ reply[3] = 0 /\ reply[4] = 3 /\ reply[5] = b
    BY <1>6, <1>9, <1>11, <2>0 DEF Seen
  <2>3. reply \in Grants /\ Text(reply, 7 + b)
    BY <1>11, <1>12, <2>0, <2>1, <2>2, RequestReplies
  <2>4. PICK r \in 0 .. 257 : r = b + 2
    BY DEF Byte
  <2>5. pc' = "rest" /\ rest' = r
    BY <1>7, <2>0, <2>4 DEF Rest
  <2>6. (k + 1) + r = 7 + b
    <3>1. k = 4
      BY <1>6, <1>8, <2>0
    <3> QED
      BY ONLY <3>1, <2>4, b \in Byte DEF Byte
  <2> QED
    BY <1>14, <2>1, <2>3, <2>5, <2>6
<1>28. CASE After(b) = "error"
  <2>1. pc' = "error" /\ rest' = 0 /\ pc' \in Open /\ rest' \in 0 .. 257
    BY <1>7, <1>28 DEF Open
  <2> QED
    BY <1>1, <1>7, <2>1, ReadKeeps DEF Dialogue
<1>29. Continues(b)
  BY <1>12, WhereTo
<1> QED
  BY ONLY <1>15, <1>16, <1>17, <1>18, <1>19, <1>20, <1>21, <1>22, <1>23, <1>24, <1>25, <1>26,
          <1>27, <1>28, <1>29 DEF Continues

----------------------------------------------------------------------------
(***************************************************************************)
(* The proxy.                                                              *)
(***************************************************************************)
\* What a message was sent upon is still there when more is said.
LEMMA SaidMore ==
  ASSUME UNCHANGED proto, NEW s \in Seq(Seq(Byte)), NEW r \in Seq(Byte), said = s,
         said' = Append(s, r), NEW i, NEW m, MessageSound(i, m)
  PROVE  MessageSound(i, m)'
<1>1. m \in Message /\ (m.msg = "connect" => Means(m)')
  BY DEF MessageSound, Means
<1>2. (proto' = "socks4" => i = 1 /\ m.msg = "connect") /\ (proto' = "socks5" /\ i = 1 => m.msg = "greeting")
  BY DEF MessageSound
<1>3. ASSUME proto = "socks5", i # 1
      PROVE  /\ i - 1 \in 1 .. Len(said')
             /\ \/ m.msg = "auth" /\ said'[i - 1] = <<5, 2>>
                \/ m.msg = "connect" /\ said'[i - 1] \in {<<5, 0>>, <<1, 0>>}
  <2>1. PICK j : j = i - 1
    OBVIOUS
  <2>2. /\ j \in 1 .. Len(s)
        /\ (m.msg = "auth" /\ s[j] = <<5, 2>>) \/ (m.msg = "connect" /\ s[j] \in {<<5, 0>>, <<1, 0>>})
    BY <1>3, <2>1 DEF MessageSound
  <2>3. PICK t : t = Append(s, r)
    OBVIOUS
  <2>4. t[j] = s[j]
    BY <2>2, <2>3, AppendProperties
  <2>5. Len(t) = Len(s) + 1 /\ Len(s) \in Nat
    BY <2>3, AppendProperties, LenProperties
  <2>6. j \in 1 .. Len(t)
    BY <2>2, <2>5
  <2> QED
    BY <2>1, <2>2, <2>3, <2>4, <2>6
<1> QED
  BY <1>1, <1>2, <1>3 DEF MessageSound

LEMMA ReplyTyped ==
  ASSUME NEW m \in Message, proto \in {"socks4", "socks5"}, NEW reply \in Replies(m)
  PROVE  reply \in Seq(Byte)
<1>1. CASE m.msg \in {"greeting", "auth"}
  <2>1. Text(reply, 2)
    BY <1>1, ShortReplies
  <2> QED
    BY <2>1 DEF Text
<1>2. CASE m.msg = "connect"
  <2>1. PICK l \in Nat : l >= 7 /\ Text(reply, l)
    BY <1>2, RequestReplies
  <2> QED
    BY <2>1 DEF Text
<1> QED
  BY <1>1, <1>2 DEF Message

LEMMA AnswerStep == SInv /\ Answer => SInv'
<1> SUFFICES ASSUME SInv, Answer PROVE SInv'
  OBVIOUS
<1>1. PICK reply : /\ reply \in Replies(heard[Len(said) + 1])
                   /\ said' = Append(said, reply) /\ inbox' = inbox \o reply
  BY DEF Answer
<1>2. /\ Len(said) < Len(heard) /\ UNCHANGED <<proto, target, heard, data, gone>>
      /\ UNCHANGED <<pc, then, rest, written>>
  BY DEF Answer, client
<1>3. PICK h, s, q : h = heard /\ s = said /\ q = inbox
  OBVIOUS
<1>4. h \in Seq(Message) /\ s \in Seq(Seq(Byte)) /\ q \in Seq(Byte) /\ proto \in {"socks4", "socks5"}
  BY <1>3 DEF SInv, Typed, TypeOK, Byte
<1>5. PICK n : n = Len(s)
  OBVIOUS
<1>6. n \in Nat /\ Len(h) \in Nat /\ n < Len(h)
  BY <1>2, <1>3, <1>4, <1>5, LenProperties
<1>7. PICK m : m = h[n + 1]
  OBVIOUS
<1>8. m \in Message
  <2>1. n + 1 \in 1 .. Len(h)
    BY <1>6
  <2> QED
    BY <1>4, <1>7, <2>1, ElementOfSeq
<1>9. reply \in Replies(m) /\ reply \in Seq(Byte)
  BY <1>1, <1>3, <1>4, <1>5, <1>7, <1>8, ReplyTyped
<1>10. PICK u, t : u = Append(s, reply) /\ t = q \o reply
  OBVIOUS
<1>11. said' = u /\ inbox' = t
  BY <1>1, <1>3, <1>10
<1>12. u \in Seq(Seq(Byte)) /\ Len(u) = n + 1 /\ u[n + 1] = reply /\ u # <<>>
  BY <1>4, <1>5, <1>9, <1>10, AppendProperties
<1>13. t \in Seq(Byte)
  BY <1>4, <1>9, <1>10, ConcatProperties
<1>14. Typed'
  <2>1. said' \in Seq(Seq(0 .. 255)) /\ inbox' \in Seq(0 .. 255)
    BY <1>11, <1>12, <1>13 DEF Byte
  <2>2. TypeOK'
    BY <1>2, <2>1 DEF SInv, Typed, TypeOK
  <2>3. Len(said') <= Len(heard')
    <3>1. n + 1 <= Len(h)
      BY <1>6
    <3> QED
      BY <1>2, <1>3, <1>11, <1>12, <3>1
  <2> QED
    BY <1>2, <2>2, <2>3 DEF SInv, Typed
<1>15. MessagesSound'
  <2>1. ASSUME NEW i, NEW x, MessageSound(i, x) PROVE MessageSound(i, x)'
    BY <1>2, <1>3, <1>4, <1>9, <1>10, <1>11, <2>1, SaidMore
  <2>2. ASSUME NEW i \in 1 .. Len(heard') PROVE MessageSound(i, heard[i])'
    <3>1. PICK x : x = heard[i]
      OBVIOUS
    <3>2. MessageSound(i, x)
      BY <1>2, <2>2, <3>1 DEF SInv, MessagesSound
    <3>3. MessageSound(i, x)'
      BY <2>1, <3>2
    <3> QED
      BY <1>2, <3>1, <3>3 DEF MessageSound, Means
  <2>3. ASSUME written' # <<>> PROVE MessageSound(Len(heard) + 1, written[1])'
    <3>1. PICK i, x : i = Len(heard) + 1 /\ x = written[1]
      OBVIOUS
    <3>2. MessageSound(i, x)
      BY <1>2, <2>3, <3>1 DEF SInv, MessagesSound
    <3>3. MessageSound(i, x)'
      BY <2>1, <3>2
    <3> QED
      BY <1>2, <3>1, <3>3 DEF MessageSound, Means
  <2> QED
    BY <2>2, <2>3 DEF MessagesSound
<1>16. CASE pc = "error"
  BY <1>2, <1>14, <1>15, <1>16 DEF SInv, Dialogue
<1>17. CASE Spoken
  <2>1. Len(heard) + Len(written) = Len(said) + 1 /\ written \in Seq(Message)
    BY <1>17 DEF Spoken, SInv, Typed, TypeOK
  <2>2. PICK w : w = written
    OBVIOUS
  <2>3. Len(w) \in Nat /\ Len(h) + Len(w) = n + 1
    BY <1>3, <1>5, <2>1, <2>2, LenProperties
  <2>4. Len(w) = 0 /\ Len(h) = n + 1
    BY ONLY <1>6, <2>3
  <2>5. w = <<>>
    BY <2>1, <2>2, <2>4, EmptySeq
  <2>6. LastMessage = m
    BY <1>3, <1>7, <2>2, <2>4, <2>5 DEF LastMessage
  <2>7. t = reply
    <3>1. q = <<>>
      BY <1>3, <1>17 DEF Spoken
    <3> QED
      BY <1>9, <1>10, <3>1, ConcatEmptySeq
  <2>8. PICK p : p = Stand
    OBVIOUS
  <2>9. p \in Starts /\ Stand' = p
    BY <1>2, <1>17, <2>8 DEF Stand, Spoken, Starts
  <2>10. ReadOf(p, rest, reply) = 0
    BY <2>9, ReadSoFar DEF Starts, Reading
  <2>11. Unread(t, reply, ReadOf(p, rest, reply), 0) /\ data' = 0
    BY <1>2, <1>9, <1>17, <2>7, <2>10, UnreadAll DEF Spoken
  <2>12. Seen(p, rest, reply)'
    BY <2>9 DEF Seen, Starts
  <2>13. m.msg = Expects(p) /\ ((proto = "socks4") <=> (p = "null"))
    BY <1>17, <2>6, <2>8 DEF Spoken
  <2>14. (proto' = "socks4") <=> (p \in {"null", "code"})
    BY <1>2, <2>9, <2>13 DEF Starts
  <2>15. reply \in Replies(m)'
    BY <1>2, <1>9, ProtoKept
  <2>16. Hears(p, m, reply)'
    BY <1>2, <1>11, <2>11, <2>12, <2>13, <2>14, <2>15 DEF Hears
  <2>17. heard'[Len(heard')] = m /\ said'[Len(said')] = reply
    BY <1>2, <1>3, <1>7, <1>11, <1>12, <2>4
  <2>18. Hears(Stand, heard[Len(heard)], said[Len(said)])'
    BY <2>9, <2>16, <2>17 DEF Hears, Seen, Replies, Grants
  <2>19. Len(said') = Len(heard') /\ said' # <<>> /\ written' = <<>>
    BY <1>2, <1>3, <1>11, <1>12, <2>2, <2>4, <2>5
  <2>20. pc' \in Reading \cup {"rest", "done"} \/ (pc' = "flush" /\ then' \in Starts)
    BY <1>2, <1>17 DEF Spoken, Starts, Reading
  <2>21. Listening'
    BY <2>18, <2>19, <2>20 DEF Listening
  <2> QED
    BY <1>14, <1>15, <2>21 DEF SInv, Dialogue
<1>18. ~Beginning /\ ~Turn /\ ~Listening
  <2>1. Len(said) # Len(heard)
    BY <1>3, <1>5, <1>6
  <2> QED
    BY <2>1 DEF Beginning, Turn, Listening
<1> QED
  BY <1>16, <1>17, <1>18 DEF SInv, Dialogue

\* The last message of the client, where it was not answered.
LEMMA SpokenLast ==
  ASSUME SInv, Spoken
  PROVE  \E m \in Message : m = LastMessage /\ MessageSound(Len(said) + 1, m)
<1>1. PICK h, w, n : h = heard /\ w = written /\ n = Len(said)
  OBVIOUS
<1>2. h \in Seq(Message) /\ w \in Seq(Message) /\ Len(w) <= 1 /\ n \in Nat
  BY <1>1, LenProperties DEF SInv, Typed, TypeOK
<1>3. Len(h) + Len(w) = n + 1 /\ Len(h) \in Nat
  BY <1>1, <1>2, LenProperties DEF Spoken
<1>4. CASE w # <<>>
  <2>1. Len(w) = 1
    BY <1>2, <1>4, OneMessage
  <2>2. Len(h) = n
    BY ONLY <1>2, <1>3, <2>1, n \in Nat
  <2>3. MessageSound(n + 1, w[1]) /\ LastMessage = w[1]
    BY <1>1, <1>4, <2>2 DEF SInv, MessagesSound, LastMessage
  <2> QED
    BY <1>1, <2>3 DEF MessageSound
<1>5. CASE w = <<>>
  <2>1. Len(w) = 0
    BY <1>5
  <2>2. Len(h) = n + 1 /\ n + 1 \in 1 .. Len(h)
    BY ONLY <1>2, <1>3, <2>1
  <2>3. MessageSound(n + 1, h[n + 1]) /\ LastMessage = h[n + 1]
    BY <1>1, <1>5, <2>2 DEF SInv, MessagesSound, LastMessage
  <2> QED
    BY <1>1, <2>3 DEF MessageSound
<1> QED
  BY <1>4, <1>5

\* Only the reply that is read last grants.
LEMMA GrantIsRead ==
  ASSUME SInv, Granted, pc # "error"
  PROVE  Listening
<1>1. ~Beginning
  BY DEF Beginning, Granted
<1>2. ~Turn
  <2>1. ASSUME Turn PROVE said[Len(said)] \in {<<5, 0>>, <<5, 2>>, <<1, 0>>}
    BY <2>1, Zenon DEF Turn
  <2> QED
    BY <2>1, TurnReplies DEF Granted
<1>3. ASSUME Spoken PROVE FALSE
  <2>1. PICK m \in Message : MessageSound(Len(said) + 1, m)
    BY <1>3, SpokenLast
  <2>2. PICK s, n : s = said /\ n = Len(said)
    OBVIOUS
  <2>3. n \in Nat /\ n # 0
    BY <2>2, EmptySeq, LenProperties DEF Granted, SInv, Typed, TypeOK
  <2>4. n + 1 # 1 /\ (n + 1) - 1 = n
    BY <2>3
  <2>5. said[n] \in Grants
    BY <2>2 DEF Granted
  <2>6. proto \in {"socks4", "socks5"} /\ MessageSound(n + 1, m)
    BY <2>1, <2>2 DEF SInv, Typed, TypeOK
  <2>7. said[n] \in {<<5, 0>>, <<5, 2>>, <<1, 0>>}
    <3>1. PICK i : i = n + 1
      OBVIOUS
    <3>2. i # 1 /\ i - 1 = n
      BY <2>4, <3>1
    <3>3. proto = "socks5" /\ (said[i - 1] = <<5, 2>> \/ said[i - 1] \in {<<5, 0>>, <<1, 0>>})
      BY <2>6, <3>1, <3>2, Zenon DEF MessageSound
    <3> QED
      BY <3>2, <3>3, Zenon
  <2> QED
    BY <2>5, <2>7, TurnReplies
<1> QED
  BY <1>1, <1>2, <1>3 DEF SInv, Dialogue

LEMMA SendDataStep == SInv /\ SendData => SInv'
<1> SUFFICES ASSUME SInv, SendData PROVE SInv'
  OBVIOUS
<1>1. /\ Granted /\ data < MaxData /\ inbox' = Append(inbox, DataByte) /\ data' = data + 1
      /\ UNCHANGED <<proto, target, heard, said, gone>> /\ UNCHANGED <<pc, then, rest, written>>
  BY DEF SendData, client
<1>2. PICK q, d : q = inbox /\ d = data
  OBVIOUS
<1>3. q \in Seq(Byte) /\ d \in Nat /\ d + 1 \in 0 .. MaxData
  BY <1>1, <1>2, SocksAssumption DEF SInv, Typed, TypeOK, Byte
<1>4. PICK t : t = Append(q, DataByte)
  OBVIOUS
<1>5. t \in Seq(Byte)
  BY <1>3, <1>4, AppendProperties, Numbers DEF DataByte, Byte
<1>6. inbox' = t /\ data' = d + 1
  BY <1>1, <1>2, <1>4
<1>7. Typed'
  <2>1. inbox' \in Seq(0 .. 255) /\ data' \in 0 .. MaxData
    BY <1>3, <1>5, <1>6 DEF Byte
  <2>2. TypeOK'
    BY <1>1, <2>1 DEF SInv, Typed, TypeOK
  <2> QED
    BY <1>1, <2>2 DEF SInv, Typed
<1>8. MessagesSound'
  BY <1>1, MessagesKept DEF SInv
<1>9. CASE pc = "error"
  BY <1>1, <1>7, <1>8, <1>9 DEF SInv, Dialogue
<1>10. CASE pc # "error"
  <2>1. Listening
    BY <1>1, <1>10, GrantIsRead
  <2>2. PICK n \in Nat \ {0}, m \in Message, reply \in Seq(Byte) :
          /\ n = Len(heard) /\ n = Len(said) /\ m = heard[n] /\ reply = said[n]
          /\ Hears(Stand, m, reply)
    BY <2>1, Answered
  <2>3. reply \in Grants
    BY <1>1, <2>2 DEF Granted
  <2>4. PICK p, r : p = Stand /\ r = rest
    OBVIOUS
  <2>5. PICK k : k = ReadOf(p, r, reply)
    OBVIOUS
  <2>6. Unread(q, reply, k, d)
    BY <1>2, <2>2, <2>4, <2>5 DEF Hears
  <2>7. k \in Nat
    BY <2>6, LenProperties DEF Unread
  <2>8. Unread(t, reply, k, d + 1)
    BY <1>3, <1>4, <2>6, <2>7, UnreadMore
  <2>9. Grants' = Grants /\ \A x : Replies(x)' = Replies(x)
    BY <1>1, ProtoKept
  <2>10. Stand' = p /\ rest' = r
    BY <1>1, <2>4 DEF Stand
  <2>11. Hears(p, m, reply)'
    BY <1>1, <1>6, <2>2, <2>3, <2>4, <2>5, <2>8, <2>9, <2>10 DEF Hears, Seen
  <2>12. heard'[Len(heard')] = m /\ said'[Len(said')] = reply
    BY <1>1, <2>2
  <2>13. Hears(Stand, heard[Len(heard)], said[Len(said)])'
    BY <2>10, <2>11, <2>12 DEF Hears, Seen, Replies, Grants
  <2>14. Listening'
    BY <1>1, <2>1, <2>13 DEF Listening
  <2> QED
    BY <1>7, <1>8, <2>14 DEF SInv, Dialogue
<1> QED
  BY <1>9, <1>10

LEMMA SUnchanged == SInv /\ UNCHANGED vars => SInv'
<1> SUFFICES ASSUME SInv, UNCHANGED vars PROVE SInv'
  OBVIOUS
<1>1. /\ UNCHANGED <<proto, target, heard>> /\ UNCHANGED <<pc, then, rest, written>>
      /\ UNCHANGED <<inbox, said, data, gone>>
  BY DEF vars, client, proxy
<1>2. Typed' /\ MessagesSound'
  BY <1>1, MessagesKept DEF SInv, Typed, TypeOK
<1>3. Grants' = Grants /\ \A m : Replies(m)' = Replies(m)
  BY <1>1, ProtoKept
<1>4. Stand' = Stand
  BY <1>1 DEF Stand
<1>5. (Beginning => Beginning') /\ (Turn => Turn')
  BY <1>1 DEF Beginning, Turn
<1>6. Spoken => Spoken'
  BY <1>1, <1>4 DEF Spoken, LastMessage
<1>7. Listening => Listening'
  BY <1>1, <1>3, <1>4 DEF Listening, Hears, Seen
<1> QED
  BY <1>1, <1>2, <1>5, <1>6, <1>7 DEF SInv, Dialogue

LEMMA SNext == SInv /\ [Next]_vars => SInv'
<1> SUFFICES ASSUME SInv, [Next]_vars PROVE SInv'
  OBVIOUS
<1>1. CASE Begin
  BY <1>1, BeginStep
<1>2. CASE Authenticate
  BY <1>2, AuthenticateStep
<1>3. CASE SendRequest
  BY <1>3, SendRequestStep
<1>4. CASE Flush
  BY <1>4, FlushStep
<1>5. CASE ReadByte
  BY <1>5, ReadByteStep
<1>6. CASE ReadRest
  BY <1>6, ReadRestStep
<1>7. CASE Broken
  BY <1>7, BrokenStep
<1>8. CASE Trickle
  BY <1>8, TrickleStep
<1>9. CASE Answer
  BY <1>9, AnswerStep
<1>10. CASE SendData
  BY <1>10, SendDataStep
<1>11. CASE Leave
  BY <1>11, LeaveStep
<1>12. CASE UNCHANGED vars
  BY <1>12, SUnchanged
<1> QED
  BY <1>1, <1>2, <1>3, <1>4, <1>5, <1>6, <1>7, <1>8, <1>9, <1>10, <1>11, <1>12 DEF Next

----------------------------------------------------------------------------
(***************************************************************************)
(* The theorems.                                                           *)
(***************************************************************************)
\* SInv is invariant.
THEOREM HandshakeInvariant == Spec => []SInv
<1>1. Init => SInv
  BY SInit
<1>2. SInv /\ [Next]_vars => SInv'
  BY SNext
<1> QED
  BY <1>1, <1>2, PTL DEF Spec

\* A request says what it should, or none is sent (the checks of connect of
\* Socks4Proxy and Socks5Proxy).
THEOREM RequestsAreRight == Spec => []RequestMeansTarget
<1>1. SInv => RequestMeansTarget
  BY DEF SInv, MessagesSound, MessageSound, RequestMeansTarget
<1> QED
  BY <1>1, HandshakeInvariant, PTL

\* A connection is returned only when the last request was granted, and each
\* message is sent upon the reply that calls for it.
THEOREM GrantedOnly == Spec => []OnlyIfGranted
<1>1. ASSUME SInv PROVE OnlyIfGranted
  <2>1. ASSUME pc = "done" PROVE Granted /\ heard[Len(said)].msg = "connect"
    <3>1. Listening /\ Stand = "done"
      BY <1>1, <2>1 DEF SInv, Dialogue, Beginning, Turn, Spoken, Starts, Stand
    <3>2. said[Len(said)] \in Grants /\ heard[Len(heard)].msg = "connect"
      BY <3>1 DEF Listening, Hears, Seen, Expects
    <3> QED
      BY <3>1, <3>2 DEF Listening, Granted
  <2>2. PICK h, w, all : h = heard /\ w = written /\ all = h \o w
    OBVIOUS
  <2>3. h \in Seq(Message) /\ w \in Seq(Message) /\ Len(w) <= 1
    BY <1>1, <2>2 DEF SInv, Typed, TypeOK
  <2>4. PICK a, c : a = Len(h) /\ c = Len(w)
    OBVIOUS
  <2>5. a \in Nat /\ c \in Nat /\ c <= 1
    BY <2>3, <2>4, LenProperties
  <2>6. Len(all) = a + c /\ \A i \in 1 .. a + c : all[i] = IF i <= a THEN h[i] ELSE w[i - a]
    BY <2>2, <2>3, <2>4, ConcatProperties
  <2>7. ASSUME NEW i \in 2 .. Len(all), proto = "socks5"
        PROVE  \/ all[i].msg = "auth" /\ said[i - 1] = <<5, 2>>
               \/ all[i].msg = "connect" /\ said[i - 1] \in {<<5, 0>>, <<1, 0>>}
    <3>1. MessageSound(i, all[i])
      <4>1. CASE i <= a
        <5>1. i \in 1 .. a /\ i \in 1 .. a + c
          BY <2>5, <2>6, <4>1
        <5>2. all[i] = h[i]
          BY <2>6, <4>1, <5>1
        <5> QED
          BY <1>1, <2>2, <2>4, <5>1, <5>2 DEF SInv, MessagesSound
      <4>2. CASE ~(i <= a)
        <5>1. i = a + 1 /\ c = 1 /\ i \in 1 .. a + c /\ i - a = 1
          BY <2>5, <2>6, <4>2
        <5>2. all[i] = w[1]
          BY <2>6, <4>2, <5>1
        <5>3. w # <<>>
          <6>1. Len(w) # 0
            BY <2>4, <5>1
          <6> QED
            BY <2>3, <6>1, EmptySeq
        <5> QED
          BY <1>1, <2>2, <2>4, <5>1, <5>2, <5>3 DEF SInv, MessagesSound
      <4> QED
        BY <4>1, <4>2
    <3>2. i # 1
      OBVIOUS
    <3> QED
      BY <2>7, <3>1, <3>2, Zenon DEF MessageSound
  <2>8. all = heard \o written
    BY <2>2
  <2> QED
    BY <2>1, <2>7, <2>8 DEF OnlyIfGranted
<1> QED
  BY <1>1, HandshakeInvariant, PTL

\* Nothing of the reply is left in the connection that is returned, and nothing
\* of the tunnel is missing (the last reads of connect).
THEOREM TunnelIsClean == Spec => []TunnelStartsClean
<1>1. ASSUME SInv PROVE TunnelStartsClean
  <2>1. ASSUME pc = "done" PROVE inbox = [i \in 1 .. data |-> DataByte]
    <3>1. Listening /\ Stand = "done"
      BY <1>1, <2>1 DEF SInv, Dialogue, Beginning, Turn, Spoken, Starts, Stand
    <3>2. PICK n \in Nat \ {0}, m \in Message, reply \in Seq(Byte) : Hears(Stand, m, reply)
      BY <1>1, <3>1, Answered
    <3>3. PICK q, d : q = inbox /\ d = data
      OBVIOUS
    <3>4. q \in Seq(Byte) /\ d \in Nat
      BY <1>1, <3>3, SocksAssumption DEF SInv, Typed, TypeOK, Byte
    <3>5. ReadOf("done", rest, reply) = Len(reply)
      BY DEF ReadOf, Starts
    <3>6. Unread(q, reply, Len(reply), d)
      BY <3>1, <3>2, <3>3, <3>5 DEF Hears
    <3> QED
      BY <3>3, <3>4, <3>6, UnreadEnd
  <2> QED
    BY <1>1, <2>1 DEF TunnelStartsClean, SInv, Typed
<1> QED
  BY <1>1, HandshakeInvariant, PTL
=============================================================================
