------------------------- MODULE HttpRequestProofs -------------------------
(***************************************************************************)
(* Proofs that an address keeps its meaning on its way through the         *)
(* program, and credentials go where they belong, whatever words the       *)
(* clients' names and userinfo are made of.                                *)
(*                                                                         *)
(* The grammar of addresses is unambiguous (OneMeaning); what the parsers  *)
(* make of a legal address is what it means, or nothing (LegalRead); what  *)
(* is printed, with a port or without the one that goes without saying, is *)
(* legal again and means the same (DisplayMeans, HeaderMeans).  The        *)
(* invariant (IInv) then says which of these texts each variable holds.    *)
(***************************************************************************)
EXTENDS HttpRequest, SequenceTheorems, WellFoundedInduction, TLAPS

----------------------------------------------------------------------------
(***************************************************************************)
(* Texts: sequences of tokens.                                             *)
(***************************************************************************)
Glyphs ==
  Words \cup Numerals \cup {":", "[", "]", "@", "ffff", "192.0.2.1", "example", "%40"}

Text(s, n) == s \in Seq(Glyphs) /\ Len(s) = n
Token(s, i, c) == s[i] = c
Free(s, c) == \A i \in 1 .. Len(s) : s[i] # c

One(a) == <<a>>
Two(a, b) == <<a, b>>

LEMMA OneToken ==
  ASSUME NEW a \in Glyphs
  PROVE  Text(One(a), 1) /\ Token(One(a), 1, a)
<1>1. One(a) \in Seq(Glyphs)
  BY DEF One
<1>2. Len(One(a)) = 1
  BY DEF One
<1>3. One(a)[1] = a
  BY DEF One
<1> QED
  BY <1>1, <1>2, <1>3 DEF Text, Token

LEMMA TwoTokens ==
  ASSUME NEW a \in Glyphs, NEW b \in Glyphs
  PROVE  Text(Two(a, b), 2) /\ Token(Two(a, b), 1, a) /\ Token(Two(a, b), 2, b)
<1>1. Two(a, b) \in Seq(Glyphs)
  BY DEF Two
<1>2. Len(Two(a, b)) = 2
  BY DEF Two
<1>3. Two(a, b)[1] = a
  BY DEF Two
<1>4. Two(a, b)[2] = b
  BY DEF Two
<1> QED
  BY <1>1, <1>2, <1>3, <1>4 DEF Text, Token

LEMMA GlyphFacts ==
  /\ \A c \in {":", "[", "]", "@", "ffff", "192.0.2.1", "example", "%40", "1", "80", "443", "8080"} : c \in Glyphs
  /\ \A n \in Numerals : n \in Glyphs /\ n \notin {":", "[", "]", "@"}
  BY DEF Glyphs, Numerals

LEMMA V6Tokens ==
  Text(V6Text, 3) /\ Token(V6Text, 1, ":") /\ Token(V6Text, 2, ":") /\ Token(V6Text, 3, "1")
<1>1. V6Text \in Seq(Glyphs)
  BY GlyphFacts DEF V6Text
<1>2. Len(V6Text) = 3
  BY DEF V6Text
<1>3. V6Text[1] = ":"
  BY DEF V6Text
<1>4. V6Text[2] = ":"
  BY DEF V6Text
<1>5. V6Text[3] = "1"
  BY DEF V6Text
<1> QED
  BY <1>1, <1>2, <1>3, <1>4, <1>5 DEF Text, Token

LEMMA MappedTokens ==
  /\ Text(MappedText, 5) /\ Token(MappedText, 1, ":") /\ Token(MappedText, 2, ":")
  /\ Token(MappedText, 3, "ffff") /\ Token(MappedText, 4, ":") /\ Token(MappedText, 5, "192.0.2.1")
<1>1. MappedText \in Seq(Glyphs)
  BY GlyphFacts DEF MappedText
<1>2. Len(MappedText) = 5
  BY DEF MappedText
<1>3. MappedText[1] = ":"
  BY DEF MappedText
<1>4. MappedText[2] = ":"
  BY DEF MappedText
<1>5. MappedText[3] = "ffff"
  BY DEF MappedText
<1>6. MappedText[4] = ":"
  BY DEF MappedText
<1>7. MappedText[5] = "192.0.2.1"
  BY DEF MappedText
<1> QED
  BY <1>1, <1>2, <1>3, <1>4, <1>5, <1>6, <1>7 DEF Text, Token

LEMMA SingleTokens ==
  /\ Text(V4Text, 1) /\ Token(V4Text, 1, "192.0.2.1")
  /\ Text(NameText, 1) /\ Token(NameText, 1, "example")
<1>1. V4Text = One("192.0.2.1") /\ NameText = One("example")
  BY DEF V4Text, NameText, One
<1> QED
  BY <1>1, OneToken, GlyphFacts

\* In brackets.
Bracketed(t) == <<"[">> \o t \o <<"]">>

LEMMA BracketedIs ==
  ASSUME NEW t \in Seq(Glyphs)
  PROVE  /\ Bracketed(t) \in Seq(Glyphs) /\ Len(Bracketed(t)) = Len(t) + 2
         /\ Token(Bracketed(t), 1, "[") /\ Token(Bracketed(t), Len(t) + 2, "]")
         /\ \A i \in 1 .. Len(t) : Token(Bracketed(t), i + 1, t[i])
<1> DEFINE open == One("[")
           close == One("]")
           left == open \o t
<1>1. Text(open, 1) /\ Token(open, 1, "[") /\ Text(close, 1) /\ Token(close, 1, "]")
  BY OneToken, GlyphFacts
<1>2. Bracketed(t) = left \o close
  BY DEF Bracketed, One
<1> HIDE DEF open, close
<1>3. Len(t) \in Nat
  BY LenProperties
<1>4. /\ left \in Seq(Glyphs) /\ Len(left) = 1 + Len(t)
      /\ \A i \in 1 .. 1 + Len(t) : left[i] = IF i <= 1 THEN open[i] ELSE t[i - 1]
  <2>1. open \in Seq(Glyphs) /\ Len(open) = 1
    BY <1>1 DEF Text
  <2>2. /\ left \in Seq(Glyphs) /\ Len(left) = Len(open) + Len(t)
        /\ \A i \in 1 .. Len(open) + Len(t) : left[i] = IF i <= Len(open) THEN open[i] ELSE t[i - Len(open)]
    BY <2>1, ConcatProperties
  <2> HIDE DEF left
  <2> QED
    BY <2>1, <2>2
<1> HIDE DEF left
<1>5. /\ left \o close \in Seq(Glyphs) /\ Len(left \o close) = Len(left) + 1
      /\ \A i \in 1 .. Len(left) + 1 : (left \o close)[i] = IF i <= Len(left) THEN left[i] ELSE close[i - Len(left)]
  <2>1. close \in Seq(Glyphs) /\ Len(close) = 1
    BY <1>1 DEF Text
  <2> DEFINE u == left \o close
  <2>2. /\ u \in Seq(Glyphs) /\ Len(u) = Len(left) + Len(close)
        /\ \A i \in 1 .. Len(left) + Len(close) : u[i] = IF i <= Len(left) THEN left[i] ELSE close[i - Len(left)]
    BY <1>4, <2>1, ConcatProperties
  <2> HIDE DEF u
  <2>3. /\ u \in Seq(Glyphs) /\ Len(u) = Len(left) + 1
        /\ \A i \in 1 .. Len(left) + 1 : u[i] = IF i <= Len(left) THEN left[i] ELSE close[i - Len(left)]
    BY <2>1, <2>2
  <2> QED
    BY <2>3 DEF u
<1>6. (left \o close)[1] = left[1] /\ left[1] = open[1]
  BY <1>3, <1>4, <1>5
<1>7. (left \o close)[Len(t) + 2] = close[1]
  BY <1>3, <1>4, <1>5
<1>8. ASSUME NEW i \in 1 .. Len(t) PROVE (left \o close)[i + 1] = t[i]
  <2>1. (left \o close)[i + 1] = left[i + 1]
    BY <1>3, <1>4, <1>5
  <2>2. left[i + 1] = t[(i + 1) - 1]
    BY <1>3, <1>4
  <2> QED
    BY <2>1, <2>2
<1> QED
  BY <1>1, <1>2, <1>3, <1>4, <1>5, <1>6, <1>7, <1>8 DEF Token

----------------------------------------------------------------------------
(***************************************************************************)
(* rsplit_once.                                                            *)
(***************************************************************************)
\* s is a, the last c, and b.
CutAs(s, a, c, b) ==
  /\ s \in Seq(Glyphs) /\ a \in Seq(Glyphs) /\ b \in Seq(Glyphs)
  /\ Len(s) = Len(a) + 1 + Len(b)
  /\ \A i \in 1 .. Len(a) : s[i] = a[i]
  /\ s[Len(a) + 1] = c
  /\ \A i \in 1 .. Len(b) : s[Len(a) + 1 + i] = b[i]
  /\ Free(b, c)

LEMMA SplitIs ==
  ASSUME NEW s, NEW a, NEW c, NEW b, CutAs(s, a, c, b)
  PROVE  RSplit(s, c) = {<<a, b>>}
<1> DEFINE k == Len(a) + 1
<1>1. Len(a) \in Nat /\ Len(b) \in Nat /\ Len(s) = Len(a) + 1 + Len(b) /\ DOMAIN s = 1 .. Len(s)
  BY LenProperties DEF CutAs
<1>2. k \in Places(s, c)
  BY <1>1 DEF CutAs, Places
<1>3. ASSUME NEW j \in Places(s, c) PROVE j <= k
  <2>1. j \in 1 .. Len(s) /\ s[j] = c
    BY <1>1 DEF Places
  <2> SUFFICES ASSUME j > k PROVE FALSE
    BY <1>1, <2>1
  <2> DEFINE i == j - k
  <2>2. i \in 1 .. Len(b) /\ j = Len(a) + 1 + i
    BY <1>1, <2>1
  <2>3. s[j] = b[i] /\ b[i] # c
    BY <2>2 DEF CutAs, Free
  <2> QED
    BY <2>1, <2>3
<1>4. \A i \in Places(s, c) : i \in Int
  BY <1>1 DEF Places
<1>5. {i \in Places(s, c) : \A j \in Places(s, c) : j <= i} = {k}
  BY <1>1, <1>2, <1>3, <1>4
<1>6. SplitAt(s, k) = <<a, b>>
  <2>1. \A i \in 1 .. Len(s) : s[i] \in Glyphs
    BY ElementOfSeq DEF CutAs
  <2>2. SubSeq(s, 1, k - 1) = a
    <3> DEFINE x == SubSeq(s, 1, k - 1)
    <3>1. \A i \in 1 .. k - 1 : s[i] \in Glyphs
      BY <1>1, <2>1
    <3>2. x \in Seq(Glyphs) /\ Len(x) = IF 1 <= k - 1 THEN (k - 1) - 1 + 1 ELSE 0
      BY <1>1, <3>1, SubSeqProperties
    <3>3. \A i \in 1 .. (k - 1) - 1 + 1 : x[i] = s[1 + i - 1]
      BY <1>1, <3>1, SubSeqProperties
    <3> HIDE DEF x
    <3>4. Len(x) = Len(a)
      BY <1>1, <3>2
    <3>5. \A i \in 1 .. Len(x) : x[i] = a[i]
      <4> TAKE i \in 1 .. Len(x)
      <4>1. i \in 1 .. Len(a) /\ 1 + i - 1 = i /\ i \in 1 .. (k - 1) - 1 + 1
        BY <1>1, <3>4
      <4>2. x[i] = s[1 + i - 1]
        BY <3>3, <4>1
      <4> QED
        BY <4>1, <4>2 DEF CutAs
    <3>6. a \in Seq(Glyphs)
      BY DEF CutAs
    <3>7. x = a
      BY <3>2, <3>4, <3>5, <3>6, SeqEqual
    <3> QED
      BY <3>7 DEF x
  <2>3. SubSeq(s, k + 1, Len(s)) = b
    <3> DEFINE x == SubSeq(s, k + 1, Len(s))
    <3>1. \A i \in k + 1 .. Len(s) : s[i] \in Glyphs
      BY <1>1, <2>1
    <3>2. x \in Seq(Glyphs) /\ Len(x) = IF k + 1 <= Len(s) THEN Len(s) - (k + 1) + 1 ELSE 0
      BY <1>1, <3>1, SubSeqProperties
    <3>3. \A i \in 1 .. Len(s) - (k + 1) + 1 : x[i] = s[(k + 1) + i - 1]
      BY <1>1, <3>1, SubSeqProperties
    <3> HIDE DEF x
    <3>4. Len(x) = Len(b)
      BY <1>1, <3>2
    <3>5. \A i \in 1 .. Len(x) : x[i] = b[i]
      <4> TAKE i \in 1 .. Len(x)
      <4>1. i \in 1 .. Len(b) /\ (k + 1) + i - 1 = Len(a) + 1 + i /\ i \in 1 .. Len(s) - (k + 1) + 1
        BY <1>1, <3>4
      <4>2. x[i] = s[(k + 1) + i - 1]
        BY <3>3, <4>1
      <4> QED
        BY <4>1, <4>2 DEF CutAs
    <3>6. b \in Seq(Glyphs)
      BY DEF CutAs
    <3>7. x = b
      BY <3>2, <3>4, <3>5, <3>6, SeqEqual
    <3> QED
      BY <3>7 DEF x
  <2> QED
    BY <2>2, <2>3 DEF SplitAt
<1> QED
  BY <1>5, <1>6 DEF RSplit

LEMMA NothingToSplit ==
  ASSUME NEW s \in Seq(Glyphs), NEW c, Free(s, c)
  PROVE  Places(s, c) = {} /\ RSplit(s, c) = {}
<1>1. Places(s, c) = {}
  BY LenProperties DEF Places, Free
<1> QED
  BY <1>1 DEF RSplit

LEMMA FreeOf ==
  ASSUME NEW s \in Seq(Glyphs), NEW c, Places(s, c) = {}
  PROVE  Free(s, c)
  BY LenProperties DEF Places, Free

\* Every text splits so, or has no c.
LEMMA Splits ==
  ASSUME NEW s \in Seq(Glyphs), NEW c, NEW p \in RSplit(s, c)
  PROVE  /\ p[1] \in Seq(Glyphs) /\ p[2] \in Seq(Glyphs) /\ Free(p[2], c)
         /\ \A d : Free(s, d) => Free(p[1], d) /\ Free(p[2], d)
<1>1. PICK k \in Places(s, c) : p = SplitAt(s, k) /\ \A j \in Places(s, c) : j <= k
  BY DEF RSplit
<1>2. Len(s) \in Nat /\ DOMAIN s = 1 .. Len(s)
  BY LenProperties
<1>3. k \in 1 .. Len(s)
  BY <1>2 DEF Places
<1>4. \A i \in 1 .. Len(s) : s[i] \in Glyphs
  BY ElementOfSeq
<1> DEFINE x == SubSeq(s, 1, k - 1)
           y == SubSeq(s, k + 1, Len(s))
<1>5. p = <<x, y>>
  BY <1>1 DEF SplitAt
<1>6. /\ x \in Seq(Glyphs) /\ Len(x) = IF 1 <= k - 1 THEN (k - 1) - 1 + 1 ELSE 0
      /\ \A i \in 1 .. (k - 1) - 1 + 1 : x[i] = s[1 + i - 1]
  <2>1. \A i \in 1 .. k - 1 : s[i] \in Glyphs
    BY <1>2, <1>3, <1>4
  <2> QED
    BY <1>3, <2>1, SubSeqProperties
<1>7. /\ y \in Seq(Glyphs) /\ Len(y) = IF k + 1 <= Len(s) THEN Len(s) - (k + 1) + 1 ELSE 0
      /\ \A i \in 1 .. Len(s) - (k + 1) + 1 : y[i] = s[(k + 1) + i - 1]
  <2>1. \A i \in k + 1 .. Len(s) : s[i] \in Glyphs
    BY <1>2, <1>3, <1>4
  <2> QED
    BY <1>2, <1>3, <2>1, SubSeqProperties
<1> HIDE DEF x, y
<1>8. \A i \in 1 .. Len(x) : x[i] = s[i] /\ i \in 1 .. Len(s)
  <2> TAKE i \in 1 .. Len(x)
  <2>1. i \in 1 .. (k - 1) - 1 + 1 /\ 1 + i - 1 = i /\ i \in 1 .. Len(s)
    BY <1>2, <1>3, <1>6
  <2> QED
    BY <1>6, <2>1
<1>9. \A i \in 1 .. Len(y) : y[i] = s[k + i] /\ k + i \in 1 .. Len(s)
  <2> TAKE i \in 1 .. Len(y)
  <2>0. Len(y) = Len(s) - k
    <3>1. CASE k + 1 <= Len(s)
      <4>1. Len(y) = Len(s) - (k + 1) + 1
        BY <1>7, <3>1
      <4> QED
        BY <1>2, <1>3, <4>1
    <3>2. CASE ~(k + 1 <= Len(s))
      <4>1. Len(y) = 0
        BY <1>7, <3>2
      <4>2. k \in Int /\ Len(s) \in Int /\ k <= Len(s)
        BY <1>2, <1>3
      <4>3. k = Len(s)
        BY <3>2, <4>2
      <4>4. Len(s) - k = 0
        BY <4>2, <4>3
      <4> QED
        BY <4>1, <4>4
    <3> QED
      BY <3>1, <3>2
  <2>1. i \in 1 .. Len(s) - (k + 1) + 1 /\ (k + 1) + i - 1 = k + i /\ k + i \in 1 .. Len(s)
    BY <1>2, <1>3, <2>0
  <2> QED
    BY <1>7, <2>1
<1>10. Free(y, c)
  <2> SUFFICES ASSUME NEW i \in 1 .. Len(y), y[i] = c PROVE FALSE
    BY DEF Free
  <2>1. k + i \in Places(s, c)
    BY <1>2, <1>9 DEF Places
  <2>2. k + i <= k
    BY <1>1, <2>1
  <2>3. i \in 1 .. Len(y) /\ Len(y) \in Nat
    BY <1>7, LenProperties
  <2> QED
    BY <1>3, <2>2, <2>3
<1>11. \A d : Free(s, d) => Free(x, d) /\ Free(y, d)
  BY <1>8, <1>9 DEF Free
<1>12. p[1] = x /\ p[2] = y
  BY <1>5
<1> QED
  BY <1>6, <1>7, <1>10, <1>11, <1>12

LEMMA Joined ==
  ASSUME NEW a \in Seq(Glyphs), NEW w \in Seq(Glyphs)
  PROVE  /\ a \o w \in Seq(Glyphs) /\ Len(a \o w) = Len(a) + Len(w)
         /\ \A i \in 1 .. Len(a) + Len(w) : (a \o w)[i] = IF i <= Len(a) THEN a[i] ELSE w[i - Len(a)]
  BY ConcatProperties

\* What is put behind a text, from c on.
LEMMA CutBehind ==
  ASSUME NEW a \in Seq(Glyphs), NEW w \in Seq(Glyphs), NEW b \in Seq(Glyphs), NEW c,
         Len(w) = 1 + Len(b), w[1] = c, \A i \in 1 .. Len(b) : w[i + 1] = b[i], Free(b, c)
  PROVE  CutAs(a \o w, a, c, b)
<1> DEFINE s == a \o w
<1>1. /\ s \in Seq(Glyphs) /\ Len(s) = Len(a) + Len(w)
      /\ \A i \in 1 .. Len(a) + Len(w) : s[i] = IF i <= Len(a) THEN a[i] ELSE w[i - Len(a)]
  BY Joined
<1> HIDE DEF s
<1>2. Len(a) \in Nat /\ Len(b) \in Nat
  BY LenProperties
<1>3. \A i \in 1 .. Len(a) : s[i] = a[i]
  BY <1>1, <1>2
<1>4. s[Len(a) + 1] = c
  <2>1. s[Len(a) + 1] = w[Len(a) + 1 - Len(a)] /\ Len(a) + 1 - Len(a) = 1
    BY <1>1, <1>2
  <2> QED
    BY <2>1
<1>5. ASSUME NEW i \in 1 .. Len(b) PROVE s[Len(a) + 1 + i] = b[i]
  <2>1. s[Len(a) + 1 + i] = w[(Len(a) + 1 + i) - Len(a)] /\ (Len(a) + 1 + i) - Len(a) = i + 1
    BY <1>1, <1>2
  <2> QED
    BY <2>1
<1>6. Len(s) = Len(a) + 1 + Len(b)
  BY <1>1, <1>2
<1>7. CutAs(s, a, c, b)
  BY <1>1, <1>3, <1>4, <1>5, <1>6 DEF CutAs
<1> QED
  BY <1>7 DEF s

----------------------------------------------------------------------------
(***************************************************************************)
(* Addresses read.                                                         *)
(***************************************************************************)
LEMMA FromSplit ==
  ASSUME NEW s, NEW a, NEW b, RSplit(s, ":") = {<<a, b>>}
  PROVE  /\ FromStr(s) = {[hostname |-> HostName(a), port |-> q] : q \in ParsePort(b)}
         /\ ParseHostHeader(s) = FromStr(s)
<1> DEFINE F(p) == {[hostname |-> HostName(p[1]), port |-> q] : q \in ParsePort(p[2])}
           cut == <<a, b>>
<1>0. F(cut) = {[hostname |-> HostName(a), port |-> q] : q \in ParsePort(b)}
  OBVIOUS
<1>1. FromStr(s) = {[hostname |-> HostName(a), port |-> q] : q \in ParsePort(b)}
  <2>1. FromStr(s) = UNION {F(p) : p \in RSplit(s, ":")}
    BY DEF FromStr
  <2>2. RSplit(s, ":") = {cut}
    OBVIOUS
  <2> HIDE DEF F, cut
  <2>3. UNION {F(p) : p \in {cut}} = F(cut)
    OBVIOUS
  <2> QED
    BY <1>0, <2>1, <2>2, <2>3
<1>2. RSplit(s, ":") # {}
  OBVIOUS
<1>3. ParseHostHeader(s) = FromStr(s)
  BY <1>2 DEF ParseHostHeader
<1> QED
  BY <1>1, <1>3

\* A text with a port behind it.
LEMMA PortIsRead ==
  ASSUME NEW t \in Seq(Glyphs), NEW n \in Numerals
  PROVE  LET s == t \o Two(":", n)
         IN  /\ FromStr(s) = {[hostname |-> HostName(t), port |-> PortOf[n]]}
             /\ ParseHostHeader(s) = FromStr(s)
<1> DEFINE s == t \o Two(":", n)
<1>1. ":" \in Glyphs /\ n \in Glyphs /\ n # ":"
  BY GlyphFacts
<1>2. Text(Two(":", n), 2) /\ Token(Two(":", n), 1, ":") /\ Token(Two(":", n), 2, n)
  BY <1>1, TwoTokens
<1>3. Text(One(n), 1) /\ Token(One(n), 1, n)
  BY <1>1, OneToken
<1>4. CutAs(s, t, ":", One(n))
  <2>1. Two(":", n) \in Seq(Glyphs) /\ Len(Two(":", n)) = 1 + Len(One(n)) /\ One(n) \in Seq(Glyphs)
    BY <1>2, <1>3 DEF Text
  <2>2. \A i \in 1 .. Len(One(n)) : Two(":", n)[i + 1] = One(n)[i]
    <3>1. \A i \in 1 .. Len(One(n)) : i = 1 /\ i + 1 = 2
      BY <1>3 DEF Text
    <3> QED
      BY <1>2, <1>3, <3>1 DEF Token
  <2>3. Free(One(n), ":")
    BY <1>1, <1>3 DEF Free, Text, Token
  <2>4. Two(":", n)[1] = ":"
    BY <1>2 DEF Token
  <2> QED
    BY <2>1, <2>2, <2>3, <2>4, CutBehind
<1>5. RSplit(s, ":") = {<<t, One(n)>>}
  BY <1>4, SplitIs
<1>6. ParsePort(One(n)) = {PortOf[n]}
  BY <1>3 DEF ParsePort, Text, Token
<1> HIDE DEF s
<1>7. FromStr(s) = {[hostname |-> HostName(t), port |-> q] : q \in ParsePort(One(n))} /\ ParseHostHeader(s) = FromStr(s)
  BY <1>5, FromSplit
<1>8. FromStr(s) = {[hostname |-> HostName(t), port |-> PortOf[n]]}
  BY <1>6, <1>7
<1> QED
  BY <1>7, <1>8 DEF s

\* What is not one token is no port.
LEMMA NoPortRead ==
  ASSUME NEW s, NEW a, NEW b, CutAs(s, a, ":", b), Len(b) # 1
  PROVE  FromStr(s) = {} /\ ParseHostHeader(s) = {}
<1>1. RSplit(s, ":") = {<<a, b>>}
  BY SplitIs
<1>2. ParsePort(b) = {}
  BY DEF ParsePort
<1>3. FromStr(s) = {[hostname |-> HostName(a), port |-> q] : q \in ParsePort(b)} /\ ParseHostHeader(s) = FromStr(s)
  BY <1>1, FromSplit
<1> QED
  BY <1>2, <1>3

\* A colon with nothing behind it.
LEMMA EmptyPort ==
  ASSUME NEW t \in Seq(Glyphs)
  PROVE  FromStr(t \o One(":")) = {} /\ ParseHostHeader(t \o One(":")) = {}
<1>1. Text(One(":"), 1) /\ Token(One(":"), 1, ":")
  BY OneToken, GlyphFacts
<1>2. <<>> \in Seq(Glyphs) /\ Len(<<>>) = 0
  BY EmptySeq
<1>3. One(":") \in Seq(Glyphs) /\ Len(One(":")) = 1 + Len(<<>>) /\ One(":")[1] = ":"
  BY <1>1, <1>2 DEF Text, Token
<1>4. (\A i \in 1 .. Len(<<>>) : One(":")[i + 1] = <<>>[i]) /\ Free(<<>>, ":")
  BY <1>2 DEF Free
<1>5. CutAs(t \o One(":"), t, ":", <<>>)
  BY <1>2, <1>3, <1>4, CutBehind
<1> QED
  BY <1>2, <1>5, NoPortRead

LEMMA PlainRead ==
  ASSUME NEW s \in Seq(Glyphs), Free(s, ":")
  PROVE  ParseHostHeader(s) = {[hostname |-> HostName(s), port |-> NoPort]}
  BY NothingToSplit DEF ParseHostHeader

\* An IPv6 address in brackets whose port goes without saying.
LEMMA BracketsCut ==
  /\ \E a, b : CutAs(Bracketed(V6Text), a, ":", b) /\ Len(b) = 2
  /\ \E a, b : CutAs(Bracketed(MappedText), a, ":", b) /\ Len(b) = 2
<1> DEFINE four == <<"[", ":", ":", "ffff">>
<1>0. four \in Seq(Glyphs) /\ Len(four) = 4
      /\ Token(four, 1, "[") /\ Token(four, 2, ":") /\ Token(four, 3, ":") /\ Token(four, 4, "ffff")
  <2>1. four \in Seq(Glyphs)
    BY GlyphFacts
  <2>2. Len(four) = 4
    OBVIOUS
  <2>3. four[1] = "["
    OBVIOUS
  <2>4. four[2] = ":"
    OBVIOUS
  <2>5. four[3] = ":"
    OBVIOUS
  <2>6. four[4] = "ffff"
    OBVIOUS
  <2> QED
    BY <2>1, <2>2, <2>3, <2>4, <2>5, <2>6 DEF Token
<1> HIDE DEF four
<1>1. \E a, b : CutAs(Bracketed(V6Text), a, ":", b) /\ Len(b) = 2
  <2> DEFINE s == Bracketed(V6Text)
             a == Two("[", ":")
             b == Two("1", "]")
  <2>1. V6Text \in Seq(Glyphs) /\ Len(V6Text) = 3
    BY V6Tokens DEF Text
  <2>2. /\ s \in Seq(Glyphs) /\ Len(s) = Len(V6Text) + 2 /\ Token(s, 1, "[") /\ Token(s, Len(V6Text) + 2, "]")
        /\ \A i \in 1 .. Len(V6Text) : Token(s, i + 1, V6Text[i])
    BY <2>1, BracketedIs
  <2>3. /\ Text(a, 2) /\ Token(a, 1, "[") /\ Token(a, 2, ":")
        /\ Text(b, 2) /\ Token(b, 1, "1") /\ Token(b, 2, "]")
    BY TwoTokens, GlyphFacts
  <2> HIDE DEF s, a, b
  <2>4. s[1] = "[" /\ s[5] = "]" /\ Len(s) = 5
    BY <2>1, <2>2 DEF Token
  <2>5. s[1 + 1] = V6Text[1] /\ s[2 + 1] = V6Text[2] /\ s[3 + 1] = V6Text[3]
    BY <2>1, <2>2 DEF Token
  <2>6. s[2] = ":" /\ s[3] = ":" /\ s[4] = "1"
    BY <2>5, V6Tokens DEF Token
  <2>7. Len(a) = 2 /\ Len(b) = 2 /\ a \in Seq(Glyphs) /\ b \in Seq(Glyphs)
    BY <2>3 DEF Text
  <2>8. \A i \in 1 .. Len(a) : s[i] = a[i]
    <3>1. \A i \in 1 .. Len(a) : i = 1 \/ i = 2
      BY <2>7
    <3> QED
      BY <2>3, <2>4, <2>6, <3>1 DEF Token
  <2>9. \A i \in 1 .. Len(b) : s[Len(a) + 1 + i] = b[i] /\ b[i] # ":"
    <3>1. \A i \in 1 .. Len(b) : (i = 1 /\ Len(a) + 1 + i = 4) \/ (i = 2 /\ Len(a) + 1 + i = 5)
      BY <2>7
    <3> QED
      BY <2>3, <2>4, <2>6, <3>1 DEF Token
  <2>10. Len(a) + 1 = 3 /\ Len(s) = Len(a) + 1 + Len(b)
    BY <2>4, <2>7
  <2>11. CutAs(s, a, ":", b)
    BY <2>2, <2>6, <2>7, <2>8, <2>9, <2>10 DEF CutAs, Free
  <2> QED
    BY <2>7, <2>11 DEF s
<1>2. \E a, b : CutAs(Bracketed(MappedText), a, ":", b) /\ Len(b) = 2
  <2> DEFINE s == Bracketed(MappedText)
             b == Two("192.0.2.1", "]")
  <2>1. MappedText \in Seq(Glyphs) /\ Len(MappedText) = 5
    BY MappedTokens DEF Text
  <2>2. /\ s \in Seq(Glyphs) /\ Len(s) = Len(MappedText) + 2 /\ Token(s, 1, "[") /\ Token(s, Len(MappedText) + 2, "]")
        /\ \A i \in 1 .. Len(MappedText) : Token(s, i + 1, MappedText[i])
    BY <2>1, BracketedIs
  <2>3. Text(b, 2) /\ Token(b, 1, "192.0.2.1") /\ Token(b, 2, "]")
    BY TwoTokens, GlyphFacts
  <2> HIDE DEF s, b
  <2>4. s[1] = "[" /\ s[7] = "]" /\ Len(s) = 7
    BY <2>1, <2>2 DEF Token
  <2>5. /\ s[1 + 1] = MappedText[1] /\ s[2 + 1] = MappedText[2] /\ s[3 + 1] = MappedText[3]
        /\ s[4 + 1] = MappedText[4] /\ s[5 + 1] = MappedText[5]
    BY <2>1, <2>2 DEF Token
  <2>6. s[2] = ":" /\ s[3] = ":" /\ s[4] = "ffff" /\ s[5] = ":" /\ s[6] = "192.0.2.1"
    BY <2>5, MappedTokens DEF Token
  <2>7. Len(b) = 2 /\ b \in Seq(Glyphs)
    BY <2>3 DEF Text
  <2>8. \A i \in 1 .. Len(four) : s[i] = four[i]
    <3>1. \A i \in 1 .. Len(four) : i = 1 \/ i = 2 \/ i = 3 \/ i = 4
      BY <1>0
    <3> QED
      BY <1>0, <2>4, <2>6, <3>1 DEF Token
  <2>9. \A i \in 1 .. Len(b) : s[Len(four) + 1 + i] = b[i] /\ b[i] # ":"
    <3>1. \A i \in 1 .. Len(b) : (i = 1 /\ Len(four) + 1 + i = 6) \/ (i = 2 /\ Len(four) + 1 + i = 7)
      BY <1>0, <2>7
    <3> QED
      BY <2>3, <2>4, <2>6, <3>1 DEF Token
  <2>10. Len(four) + 1 = 5 /\ Len(s) = Len(four) + 1 + Len(b)
    BY <1>0, <2>4, <2>7
  <2>11. CutAs(s, four, ":", b)
    BY <1>0, <2>2, <2>6, <2>7, <2>8, <2>9, <2>10 DEF CutAs, Free
  <2> QED
    BY <2>7, <2>11 DEF s
<1> QED
  BY <1>1, <1>2

LEMMA BracketsAlone ==
  ASSUME NEW t \in {V6Text, MappedText}
  PROVE  ParseHostHeader(Bracketed(t)) = {}
<1>1. PICK a, b : CutAs(Bracketed(t), a, ":", b) /\ Len(b) = 2
  BY BracketsCut
<1> QED
  BY <1>1, NoPortRead

----------------------------------------------------------------------------
(***************************************************************************)
(* Hosts read.                                                             *)
(***************************************************************************)
LEMMA BracketsOff ==
  ASSUME NEW t \in Seq(Glyphs)
  PROVE  Unbracketed(Bracketed(t)) = t
<1> DEFINE s == Bracketed(t)
           u == SubSeq(s, 2, Len(s) - 1)
<1>1. /\ s \in Seq(Glyphs) /\ Len(s) = Len(t) + 2 /\ Token(s, 1, "[") /\ Token(s, Len(t) + 2, "]")
      /\ \A i \in 1 .. Len(t) : Token(s, i + 1, t[i])
  BY BracketedIs
<1>2. Len(t) \in Nat
  BY LenProperties
<1> HIDE DEF s
<1>3. Unbracketed(s) = u
  <2>1. Len(s) >= 2 /\ s[1] = "[" /\ s[Len(s)] = "]"
    BY <1>1, <1>2 DEF Token
  <2> QED
    BY <2>1 DEF Unbracketed
<1>4. /\ u \in Seq(Glyphs) /\ Len(u) = Len(t)
      /\ \A i \in 1 .. Len(t) : u[i] = s[i + 1]
  <2>1. \A i \in 2 .. Len(s) - 1 : s[i] \in Glyphs
    <3>1. \A i \in 1 .. Len(s) : s[i] \in Glyphs
      BY <1>1, ElementOfSeq
    <3> QED
      BY <1>1, <1>2, <3>1
  <2>2. Len(s) - 1 \in Int /\ Len(s) - 1 = Len(t) + 1
    BY <1>1, <1>2
  <2>3. /\ u \in Seq(Glyphs) /\ Len(u) = IF 2 <= Len(s) - 1 THEN (Len(s) - 1) - 2 + 1 ELSE 0
        /\ \A i \in 1 .. (Len(s) - 1) - 2 + 1 : u[i] = s[2 + i - 1]
    BY <2>1, <2>2, SubSeqProperties
  <2> HIDE DEF u
  <2>4. Len(u) = Len(t)
    BY <1>2, <2>2, <2>3
  <2>5. ASSUME NEW i \in 1 .. Len(t) PROVE u[i] = s[i + 1]
    <3>1. i \in 1 .. (Len(s) - 1) - 2 + 1 /\ 2 + i - 1 = i + 1
      BY <1>2, <2>2
    <3>2. u[i] = s[2 + i - 1]
      BY <2>3, <3>1
    <3> QED
      BY <3>1, <3>2
  <2> QED
    BY <2>3, <2>4, <2>5
<1> HIDE DEF u
<1>5. \A i \in 1 .. Len(u) : u[i] = t[i]
  BY <1>1, <1>4 DEF Token
<1>6. u = t
  BY <1>4, <1>5, SeqEqual
<1> QED
  BY <1>3, <1>6 DEF s

LEMMA TextsDiffer ==
  /\ V6Text \notin {V4Text, MappedText, NameText} /\ MappedText \notin {V4Text, NameText} /\ V4Text # NameText
<1>1. Len(V6Text) = 3 /\ Len(MappedText) = 5 /\ Len(V4Text) = 1 /\ Len(NameText) = 1
  BY V6Tokens, MappedTokens, SingleTokens DEF Text
<1>2. V4Text[1] # NameText[1]
  BY SingleTokens DEF Token
<1>3. V4Text # NameText
  BY <1>2
<1>4. V6Text # V4Text /\ V6Text # MappedText /\ V6Text # NameText
  BY <1>1
<1>5. MappedText # V4Text /\ MappedText # NameText
  BY <1>1
<1> QED
  BY <1>3, <1>4, <1>5

LEMMA HostRead ==
  ASSUME NEW s, NEW t, Unbracketed(s) = t
  PROVE  /\ t \in {V4Text, MappedText} => HostName(s) = V4
         /\ t = V6Text => HostName(s) = V6
         /\ t \notin {V4Text, MappedText, V6Text} => HostName(s) = Domain(t)
  BY TextsDiffer DEF HostName

LEMMA NoBrackets ==
  ASSUME NEW s, s[1] # "["
  PROVE  Unbracketed(s) = s
  BY DEF Unbracketed

LEMMA HostsRead ==
  /\ HostName(NameText) = Domain(NameText) /\ HostName(V4Text) = V4
  /\ HostName(V6Text) = V6 /\ HostName(MappedText) = V4
  /\ HostName(Bracketed(V6Text)) = V6 /\ HostName(Bracketed(MappedText)) = V4
<1>1. Unbracketed(NameText) = NameText /\ Unbracketed(V4Text) = V4Text
  <2>1. NameText[1] # "[" /\ V4Text[1] # "["
    BY SingleTokens DEF Token
  <2> QED
    BY <2>1, NoBrackets
<1>2. Unbracketed(V6Text) = V6Text /\ Unbracketed(MappedText) = MappedText
  <2>1. V6Text[1] # "[" /\ MappedText[1] # "["
    BY V6Tokens, MappedTokens DEF Token
  <2> QED
    BY <2>1, NoBrackets
<1>3. Unbracketed(Bracketed(V6Text)) = V6Text /\ Unbracketed(Bracketed(MappedText)) = MappedText
  <2>1. V6Text \in Seq(Glyphs) /\ MappedText \in Seq(Glyphs)
    BY V6Tokens, MappedTokens DEF Text
  <2> QED
    BY <2>1, BracketsOff
<1>4. NameText \notin {V4Text, MappedText, V6Text}
  BY TextsDiffer
<1> QED
  BY <1>1, <1>2, <1>3, <1>4, HostRead

\* Whatever the text: a host has no at sign if its text has none.
HostNames == [kind : {"V4", "V6", "Domain"}, text : Seq(Glyphs)]

LEMMA HostIsFree ==
  ASSUME NEW s \in Seq(Glyphs), Free(s, "@")
  PROVE  HostName(s) \in HostNames /\ Free(HostName(s).text, "@")
<1> DEFINE t == Unbracketed(s)
<1>1. t \in Seq(Glyphs) /\ Free(t, "@")
  <2>1. CASE Len(s) >= 2 /\ s[1] = "[" /\ s[Len(s)] = "]"
    <3> DEFINE u == SubSeq(s, 2, Len(s) - 1)
    <3>1. t = u
      BY <2>1 DEF Unbracketed
    <3>2. Len(s) \in Nat /\ Len(s) - 1 \in Int
      BY LenProperties
    <3>3. \A i \in 2 .. Len(s) - 1 : s[i] \in Glyphs /\ s[i] # "@"
      <4>1. \A i \in 2 .. Len(s) - 1 : i \in 1 .. Len(s)
        BY <3>2
      <4> QED
        BY <4>1, ElementOfSeq DEF Free
    <3>4. /\ u \in Seq(Glyphs) /\ Len(u) = IF 2 <= Len(s) - 1 THEN (Len(s) - 1) - 2 + 1 ELSE 0
          /\ \A i \in 1 .. (Len(s) - 1) - 2 + 1 : u[i] = s[2 + i - 1]
      BY <3>2, <3>3, SubSeqProperties
    <3> HIDE DEF u, t
    <3>5. Len(u) = Len(s) - 2
      <4>1. PICK n \in Nat : n = Len(s)
        BY <3>2
      <4>2. n >= 2 /\ Len(u) = IF 2 <= n - 1 THEN (n - 1) - 2 + 1 ELSE 0
        BY <2>1, <3>4, <4>1
      <4>3. Len(u) = n - 2
        BY ONLY <4>2, n \in Nat
      <4> QED
        BY <4>1, <4>3
    <3>6. ASSUME NEW i \in 1 .. Len(u) PROVE u[i] # "@"
      <4>1. i \in 1 .. (Len(s) - 1) - 2 + 1 /\ 2 + i - 1 \in 2 .. Len(s) - 1
        BY <3>2, <3>5
      <4>2. u[i] = s[2 + i - 1]
        BY <3>4, <4>1
      <4> QED
        BY <3>3, <4>1, <4>2
    <3> QED
      BY <3>1, <3>4, <3>6 DEF Free
  <2>2. CASE ~(Len(s) >= 2 /\ s[1] = "[" /\ s[Len(s)] = "]")
    <3>1. t = s
      BY <2>2 DEF Unbracketed
    <3> QED
      BY <3>1
  <2> QED
    BY <2>1, <2>2
<1> HIDE DEF t
<1>2. HostName(s) \in {V4, V6, Domain(t)}
  BY HostRead DEF t
<1>3. Free(V4Text, "@") /\ Free(V6Text, "@") /\ V4Text \in Seq(Glyphs) /\ V6Text \in Seq(Glyphs)
  <2>1. \A i \in 1 .. Len(V4Text) : V4Text[i] # "@"
    BY SingleTokens DEF Text, Token
  <2>2. \A i \in 1 .. Len(V6Text) : i = 1 \/ i = 2 \/ i = 3
    BY V6Tokens DEF Text
  <2>3. \A i \in 1 .. Len(V6Text) : V6Text[i] # "@"
    BY <2>2, V6Tokens DEF Token
  <2> QED
    BY <2>1, <2>3, SingleTokens, V6Tokens DEF Free, Text
<1>4. V4 \in HostNames /\ V4.text = V4Text /\ V6 \in HostNames /\ V6.text = V6Text
  BY <1>3 DEF V4, V6, HostNames
<1>5. Domain(t) \in HostNames /\ Domain(t).text = t
  BY <1>1 DEF Domain, HostNames
<1>6. CASE HostName(s) = V4
  BY <1>3, <1>4, <1>6
<1>7. CASE HostName(s) = V6
  BY <1>3, <1>4, <1>7
<1>8. CASE HostName(s) = Domain(t)
  BY <1>1, <1>5, <1>8
<1> QED
  BY <1>2, <1>6, <1>7, <1>8

LEMMA TextsFree ==
  ASSUME NEW t \in {V4Text, V6Text, MappedText}
  PROVE  t \in Seq(Glyphs) /\ Free(t, "@")
<1>1. V4Text \in Seq(Glyphs) /\ V6Text \in Seq(Glyphs) /\ MappedText \in Seq(Glyphs)
  BY SingleTokens, V6Tokens, MappedTokens DEF Text
<1>2. Free(V4Text, "@")
  <2>1. Len(V4Text) = 1 /\ V4Text[1] = "192.0.2.1"
    BY SingleTokens DEF Text, Token
  <2> QED
    BY <2>1 DEF Free
<1>3. Free(V6Text, "@")
  <2>1. Len(V6Text) = 3 /\ V6Text[1] = ":" /\ V6Text[2] = ":" /\ V6Text[3] = "1"
    BY V6Tokens DEF Text, Token
  <2>2. \A i \in 1 .. 3 : i = 1 \/ i = 2 \/ i = 3
    OBVIOUS
  <2> QED
    BY <2>1, <2>2 DEF Free
<1>4. Free(MappedText, "@")
  <2>1. /\ Len(MappedText) = 5 /\ MappedText[1] = ":" /\ MappedText[2] = ":"
        /\ MappedText[3] = "ffff" /\ MappedText[4] = ":" /\ MappedText[5] = "192.0.2.1"
    BY MappedTokens DEF Text, Token
  <2>2. \A i \in 1 .. 5 : i = 1 \/ i = 2 \/ i = 3 \/ i = 4 \/ i = 5
    OBVIOUS
  <2> QED
    BY <2>1, <2>2 DEF Free
<1> QED
  BY <1>1, <1>2, <1>3, <1>4

----------------------------------------------------------------------------
(***************************************************************************)
(* The grammar of addresses is unambiguous.                                *)
(***************************************************************************)
BracketedHost(h) == h = <<Bracketed(V6Text), V6>> \/ h = <<Bracketed(MappedText), V4>>

LEMMA HostCases ==
  ASSUME NEW h \in Hosts
  PROVE  h = <<NameText, Domain(NameText)>> \/ h = <<V4Text, V4>> \/ BracketedHost(h)
  BY DEF Hosts, BracketedHost, Bracketed

PortSuffix(p, n) == p = <<Two(":", n), PortOf[n]>>

LEMMA SuffixCases ==
  ASSUME NEW p \in Suffixes
  PROVE  \/ p = <<<<>>, NoPort>> \/ p = <<One(":"), NoPort>>
         \/ \E n \in Numerals : PortSuffix(p, n)
  BY DEF Suffixes, PortSuffix, One, Two

LEMMA Ports ==
  /\ \A n \in Numerals : PortOf[n] \in {1, 80, 443, 8080} /\ NumeralOf(PortOf[n]) = n
  /\ \A q \in {1, 80, 443, 8080} : NumeralOf(q) \in Numerals /\ PortOf[NumeralOf(q)] = q
<1>1. PortOf["1"] = 1 /\ PortOf["80"] = 80 /\ PortOf["443"] = 443 /\ PortOf["8080"] = 8080
  BY DEF PortOf, Numerals
<1>2. \A n \in Numerals : n = "1" \/ n = "80" \/ n = "443" \/ n = "8080"
  BY DEF Numerals
<1>3. \A n, m \in Numerals : PortOf[n] = PortOf[m] => n = m
  BY <1>1, <1>2
<1>4. ASSUME NEW n \in Numerals PROVE PortOf[n] \in {1, 80, 443, 8080}
  <2>1. PortOf[n] = 1 \/ PortOf[n] = 80 \/ PortOf[n] = 443 \/ PortOf[n] = 8080
    <3>1. CASE n = "1"
      BY <1>1, <3>1
    <3>2. CASE n = "80"
      BY <1>1, <3>2
    <3>3. CASE n = "443"
      BY <1>1, <3>3
    <3>4. CASE n = "8080"
      BY <1>1, <3>4
    <3> QED
      BY <1>2, <3>1, <3>2, <3>3, <3>4
  <2> QED
    BY <2>1
<1>5. ASSUME NEW n \in Numerals PROVE NumeralOf(PortOf[n]) = n
  BY <1>3 DEF NumeralOf
<1>6. ASSUME NEW q \in {1, 80, 443, 8080} PROVE \E n \in Numerals : PortOf[n] = q
  BY <1>1 DEF Numerals
<1>7. ASSUME NEW q \in {1, 80, 443, 8080} PROVE NumeralOf(q) \in Numerals /\ PortOf[NumeralOf(q)] = q
  BY <1>6 DEF NumeralOf
<1> QED
  BY <1>4, <1>5, <1>7

\* How each host begins.
Begins(t, first, fourth) ==
  /\ t \in Seq(Glyphs) /\ Len(t) >= 1 /\ t[1] = first
  /\ first = "[" => Len(t) >= 4 /\ t[4] = fourth

LEMMA BracketedBegins ==
  ASSUME NEW t \in Seq(Glyphs), Len(t) >= 3
  PROVE  Begins(Bracketed(t), "[", t[3])
<1>1. Bracketed(t) \in Seq(Glyphs) /\ Len(Bracketed(t)) = Len(t) + 2 /\ Bracketed(t)[1] = "["
      /\ \A i \in 1 .. Len(t) : Bracketed(t)[i + 1] = t[i]
  BY BracketedIs DEF Token
<1>2. Len(t) \in Nat
  BY LenProperties
<1>3. 3 \in 1 .. Len(t) /\ 3 + 1 = 4
  BY <1>2
<1>4. Bracketed(t)[4] = t[3]
  BY <1>1, <1>3
<1>5. Len(Bracketed(t)) >= 4
  BY <1>1, <1>2
<1> QED
  BY <1>1, <1>4, <1>5 DEF Begins

LEMMA HostBegins ==
  /\ Begins(NameText, "example", "none") /\ Begins(V4Text, "192.0.2.1", "none")
  /\ Begins(Bracketed(V6Text), "[", "1") /\ Begins(Bracketed(MappedText), "[", "ffff")
<1>1. V6Text \in Seq(Glyphs) /\ Len(V6Text) >= 3 /\ V6Text[3] = "1"
  BY V6Tokens DEF Text, Token
<1>2. MappedText \in Seq(Glyphs) /\ Len(MappedText) >= 3 /\ MappedText[3] = "ffff"
  BY MappedTokens DEF Text, Token
<1>3. Begins(NameText, "example", "none") /\ Begins(V4Text, "192.0.2.1", "none")
  BY SingleTokens DEF Text, Token, Begins
<1> QED
  BY <1>1, <1>2, <1>3, BracketedBegins

LEMMA HostText ==
  ASSUME NEW h \in Hosts
  PROVE  h[1] \in Seq(Glyphs)
  BY HostCases, HostBegins DEF Begins, BracketedHost

LEMMA SuffixText ==
  ASSUME NEW p \in Suffixes
  PROVE  /\ p[1] \in Seq(Glyphs)
         /\ p = <<<<>>, NoPort>> => Len(p[1]) = 0
         /\ p = <<One(":"), NoPort>> => Len(p[1]) = 1
         /\ \A n \in Numerals : PortSuffix(p, n) => Len(p[1]) = 2 /\ p[1][2] = n
<1>1. <<>> \in Seq(Glyphs) /\ Len(<<>>) = 0
  BY EmptySeq
<1>2. One(":") \in Seq(Glyphs) /\ Len(One(":")) = 1
  BY OneToken, GlyphFacts DEF Text
<1>3. \A n \in Numerals : Two(":", n) \in Seq(Glyphs) /\ Len(Two(":", n)) = 2 /\ Two(":", n)[2] = n
  BY TwoTokens, GlyphFacts DEF Text, Token
<1>4. \A n \in Numerals : PortSuffix(p, n) => p[1] = Two(":", n)
  BY DEF PortSuffix
<1>5. p = <<<<>>, NoPort>> => p[1] = <<>>
  OBVIOUS
<1>6. p = <<One(":"), NoPort>> => p[1] = One(":")
  OBVIOUS
<1>7. p[1] = <<>> \/ p[1] = One(":") \/ \E n \in Numerals : PortSuffix(p, n)
  BY <1>5, <1>6, SuffixCases
<1> QED
  BY <1>1, <1>2, <1>3, <1>4, <1>5, <1>6, <1>7

\* A host is told from its first tokens, whatever follows it.
LEMMA SameHost ==
  ASSUME NEW h \in Hosts, NEW g \in Hosts, NEW u \in Seq(Glyphs), NEW v \in Seq(Glyphs),
         h[1] \o u = g[1] \o v
  PROVE  h = g
<1>1. ASSUME NEW t, NEW w \in Seq(Glyphs), NEW first, NEW fourth, Begins(t, first, fourth)
      PROVE  (t \o w)[1] = first /\ (first = "[" => (t \o w)[4] = fourth)
  <2>1. t \in Seq(Glyphs) /\ Len(t) \in Nat /\ Len(w) \in Nat /\ Len(t) >= 1
    BY <1>1, LenProperties DEF Begins
  <2>2. \A i \in 1 .. Len(t) + Len(w) : (t \o w)[i] = IF i <= Len(t) THEN t[i] ELSE w[i - Len(t)]
    BY <2>1, Joined
  <2>3. (t \o w)[1] = t[1]
    BY <2>1, <2>2
  <2>4. Len(t) >= 4 => (t \o w)[4] = t[4]
    BY <2>1, <2>2
  <2> QED
    BY <1>1, <2>3, <2>4 DEF Begins
<1> DEFINE s == h[1] \o u
<1>2. ASSUME NEW k \in Hosts, NEW w \in Seq(Glyphs), k[1] \o w = s
      PROVE  \/ k = <<NameText, Domain(NameText)>> /\ s[1] = "example"
             \/ k = <<V4Text, V4>> /\ s[1] = "192.0.2.1"
             \/ k = <<Bracketed(V6Text), V6>> /\ s[1] = "[" /\ s[4] = "1"
             \/ k = <<Bracketed(MappedText), V4>> /\ s[1] = "[" /\ s[4] = "ffff"
  <2> HIDE DEF s
  <2>1. CASE k = <<NameText, Domain(NameText)>>
    <3>1. Begins(k[1], "example", "none")
      BY <2>1, HostBegins
    <3> QED
      BY <1>1, <1>2, <2>1, <3>1
  <2>2. CASE k = <<V4Text, V4>>
    <3>1. Begins(k[1], "192.0.2.1", "none")
      BY <2>2, HostBegins
    <3> QED
      BY <1>1, <1>2, <2>2, <3>1
  <2>3. CASE k = <<Bracketed(V6Text), V6>>
    <3>1. Begins(k[1], "[", "1")
      BY <2>3, HostBegins
    <3>2. s[1] = "[" /\ s[4] = "1"
      BY <1>1, <1>2, <3>1
    <3> QED
      BY <2>3, <3>2
  <2>4. CASE k = <<Bracketed(MappedText), V4>>
    <3>1. Begins(k[1], "[", "ffff")
      BY <2>4, HostBegins
    <3>2. s[1] = "[" /\ s[4] = "ffff"
      BY <1>1, <1>2, <3>1
    <3> QED
      BY <2>4, <3>2
  <2> QED
    BY <2>1, <2>2, <2>3, <2>4, HostCases DEF BracketedHost
<1> DEFINE a == <<NameText, Domain(NameText)>>
           b == <<V4Text, V4>>
           c == <<Bracketed(V6Text), V6>>
           d == <<Bracketed(MappedText), V4>>
<1>3. \/ h = a /\ s[1] = "example"
      \/ h = b /\ s[1] = "192.0.2.1"
      \/ h = c /\ s[1] = "[" /\ s[4] = "1"
      \/ h = d /\ s[1] = "[" /\ s[4] = "ffff"
  BY <1>2
<1>4. \/ g = a /\ s[1] = "example"
      \/ g = b /\ s[1] = "192.0.2.1"
      \/ g = c /\ s[1] = "[" /\ s[4] = "1"
      \/ g = d /\ s[1] = "[" /\ s[4] = "ffff"
  BY <1>2
<1> HIDE DEF a, b, c, d, s
<1> QED
  BY <1>3, <1>4

LEMMA SecondBehind ==
  ASSUME NEW t \in Seq(Glyphs), NEW w \in Seq(Glyphs), Len(w) = 2
  PROVE  (t \o w)[Len(t) + 2] = w[2]
<1>1. Len(t) \in Nat
  BY LenProperties
<1>2. Len(t) + 2 \in 1 .. Len(t) + Len(w) /\ ~(Len(t) + 2 <= Len(t)) /\ (Len(t) + 2) - Len(t) = 2
  BY <1>1
<1>3. (t \o w)[Len(t) + 2] = w[(Len(t) + 2) - Len(t)]
  BY <1>2, Joined
<1> QED
  BY <1>2, <1>3

LEMMA SameSuffix ==
  ASSUME NEW p \in Suffixes, NEW q \in Suffixes, NEW t \in Seq(Glyphs), t \o p[1] = t \o q[1]
  PROVE  p = q
<1> DEFINE u == p[1]
           v == q[1]
<1>1. u \in Seq(Glyphs) /\ v \in Seq(Glyphs)
  BY SuffixText
<1>2. Len(t) \in Nat /\ Len(u) \in Nat /\ Len(v) \in Nat
  BY <1>1, LenProperties
<1>3. t \o u = t \o v
  OBVIOUS
<1> HIDE DEF u, v
<1>4. Len(u) = Len(v)
  <2>1. Len(t \o u) = Len(t) + Len(u) /\ Len(t \o v) = Len(t) + Len(v)
    BY <1>1, Joined
  <2>2. Len(t) + Len(u) = Len(t) + Len(v)
    BY <1>3, <2>1
  <2> QED
    BY <1>2, <2>2
<1>5. Len(u) = 2 => u[2] = v[2]
  <2>1. ASSUME Len(u) = 2 PROVE u[2] = v[2]
    <3>1. (t \o u)[Len(t) + 2] = u[2]
      BY <1>1, <2>1, SecondBehind
    <3>2. (t \o v)[Len(t) + 2] = v[2]
      BY <1>1, <1>4, <2>1, SecondBehind
    <3> QED
      BY <1>3, <3>1, <3>2
  <2> QED
    BY <2>1
<1>6. /\ p = <<<<>>, NoPort>> => Len(u) = 0
      /\ p = <<One(":"), NoPort>> => Len(u) = 1
      /\ \A n \in Numerals : PortSuffix(p, n) => Len(u) = 2 /\ u[2] = n
  BY SuffixText DEF u
<1>7. /\ q = <<<<>>, NoPort>> => Len(v) = 0
      /\ q = <<One(":"), NoPort>> => Len(v) = 1
      /\ \A n \in Numerals : PortSuffix(q, n) => Len(v) = 2 /\ v[2] = n
  BY SuffixText DEF v
<1>8. CASE p = <<<<>>, NoPort>>
  <2>1. Len(v) = 0
    BY <1>4, <1>6, <1>8
  <2>2. ~(q = <<One(":"), NoPort>>) /\ \A n \in Numerals : ~PortSuffix(q, n)
    BY <1>7, <2>1
  <2> QED
    BY <1>8, <2>2, SuffixCases
<1>9. CASE p = <<One(":"), NoPort>>
  <2>1. Len(v) = 1
    BY <1>4, <1>6, <1>9
  <2>2. ~(q = <<<<>>, NoPort>>) /\ \A n \in Numerals : ~PortSuffix(q, n)
    BY <1>7, <2>1
  <2> QED
    BY <1>9, <2>2, SuffixCases
<1>10. ASSUME NEW n \in Numerals, PortSuffix(p, n) PROVE p = q
  <2>1. Len(u) = 2 /\ u[2] = n
    BY <1>6, <1>10
  <2>2. Len(v) = 2 /\ v[2] = n
    BY <1>4, <1>5, <2>1
  <2>3. PICK m \in Numerals : PortSuffix(q, m)
    BY <1>7, <2>2, SuffixCases
  <2>4. m = n
    BY <1>7, <2>2, <2>3
  <2> QED
    BY <1>10, <2>3, <2>4 DEF PortSuffix
<1> QED
  BY <1>8, <1>9, <1>10, SuffixCases

\* So a legal address has one meaning.
Meant(h, p) == [hostname |-> h[2], port |-> p[2]]

LEMMA OneMeaning ==
  ASSUME NEW h \in Hosts, NEW p \in Suffixes
  PROVE  Meaning(h[1] \o p[1]) = {Meant(h, p)}
<1> DEFINE s == h[1] \o p[1]
           S == {x \in Hosts \X Suffixes : x[1][1] \o x[2][1] = s}
<1>1. ASSUME NEW x \in S PROVE x = <<h, p>>
  <2>1. PICK g \in Hosts, q \in Suffixes : x = <<g, q>>
    BY <1>1
  <2>2. g[1] \o q[1] = h[1] \o p[1]
    BY <1>1, <2>1
  <2>3. p[1] \in Seq(Glyphs) /\ q[1] \in Seq(Glyphs) /\ h[1] \in Seq(Glyphs)
    BY SuffixText, HostText
  <2>4. g = h
    BY <2>2, <2>3, SameHost
  <2>5. q = p
    BY <2>2, <2>3, <2>4, SameSuffix
  <2> QED
    BY <2>1, <2>4, <2>5
<1>2. <<h, p>> \in S
  OBVIOUS
<1>3. S = {<<h, p>>}
  BY <1>1, <1>2
<1>4. Meaning(s) = {[hostname |-> hp[1][2], port |-> hp[2][2]] : hp \in S}
  BY DEF Meaning
<1> HIDE DEF S, s
<1>5. Meaning(s) = {[hostname |-> <<h, p>>[1][2], port |-> <<h, p>>[2][2]]}
  BY <1>3, <1>4
<1> QED
  BY <1>5 DEF Meant, s

----------------------------------------------------------------------------
(***************************************************************************)
(* A legal address is read as what it means, or not at all.                *)
(***************************************************************************)
Reads(h, p, s) ==
  /\ \A a \in ParseHostHeader(s) \cup FromStr(s) : a = Meant(h, p)
  /\ p[2] # NoPort => FromStr(s) # {} /\ ParseHostHeader(s) # {}
  /\ ParseHostHeader(s) = {} =>
       /\ p[2] = NoPort /\ Places(s, ":") # {}
       /\ p[1] = <<>> => BracketedHost(h)

LEMMA HasPlace ==
  ASSUME NEW s, NEW c, RSplit(s, c) # {}
  PROVE  Places(s, c) # {}
  BY DEF RSplit

LEMMA CutHasPlace ==
  ASSUME NEW s, NEW a, NEW c, NEW b, CutAs(s, a, c, b)
  PROVE  Places(s, c) # {}
<1>1. RSplit(s, c) = {<<a, b>>}
  BY SplitIs
<1>2. RSplit(s, c) # {}
  BY <1>1
<1> QED
  BY <1>2, HasPlace

LEMMA HostHasMeaning ==
  ASSUME NEW h \in Hosts
  PROVE  HostName(h[1]) = h[2]
  BY HostCases, HostsRead DEF BracketedHost

LEMMA PortRead ==
  ASSUME NEW h \in Hosts, NEW p \in Suffixes, NEW n \in Numerals, PortSuffix(p, n)
  PROVE  Reads(h, p, h[1] \o p[1])
<1> DEFINE s == h[1] \o p[1]
<1>1. p[1] = Two(":", n) /\ p[2] = PortOf[n]
  BY DEF PortSuffix
<1>2. h[1] \in Seq(Glyphs) /\ HostName(h[1]) = h[2]
  BY HostText, HostHasMeaning
<1>3. FromStr(s) = {[hostname |-> HostName(h[1]), port |-> PortOf[n]]} /\ ParseHostHeader(s) = FromStr(s)
  BY <1>1, <1>2, PortIsRead
<1> HIDE DEF s
<1>4. FromStr(s) = {Meant(h, p)} /\ ParseHostHeader(s) = {Meant(h, p)}
  BY <1>1, <1>2, <1>3 DEF Meant
<1>5. Reads(h, p, s)
  BY <1>4 DEF Reads
<1> QED
  BY <1>5 DEF s

LEMMA ColonRead ==
  ASSUME NEW h \in Hosts, NEW p \in Suffixes, p = <<One(":"), NoPort>>
  PROVE  Reads(h, p, h[1] \o p[1])
<1> DEFINE s == h[1] \o p[1]
<1>1. p[1] = One(":") /\ p[2] = NoPort /\ h[1] \in Seq(Glyphs)
  BY HostText
<1>2. FromStr(s) = {} /\ ParseHostHeader(s) = {}
  <2>1. FromStr(h[1] \o One(":")) = {} /\ ParseHostHeader(h[1] \o One(":")) = {}
    BY <1>1, EmptyPort
  <2> QED
    BY <1>1, <2>1
<1>3. Text(One(":"), 1) /\ Token(One(":"), 1, ":")
  BY OneToken, GlyphFacts
<1>4. Places(s, ":") # {}
  <2>1. One(":") \in Seq(Glyphs) /\ Len(One(":")) = 1 /\ One(":")[1] = ":"
    BY <1>3 DEF Text, Token
  <2>2. Len(h[1]) \in Nat
    BY <1>1, LenProperties
  <2>3. s \in Seq(Glyphs) /\ Len(s) = Len(h[1]) + 1
    <3>1. s \in Seq(Glyphs) /\ Len(s) = Len(h[1]) + Len(One(":"))
      BY <1>1, <2>1, Joined
    <3> QED
      BY <2>1, <3>1
  <2>4. s[Len(h[1]) + 1] = One(":")[(Len(h[1]) + 1) - Len(h[1])] /\ (Len(h[1]) + 1) - Len(h[1]) = 1
    <3>1. Len(h[1]) + 1 \in 1 .. Len(h[1]) + Len(One(":")) /\ ~(Len(h[1]) + 1 <= Len(h[1]))
      BY <2>1, <2>2
    <3>2. s[Len(h[1]) + 1] = One(":")[(Len(h[1]) + 1) - Len(h[1])]
      BY <1>1, <2>1, <3>1, Joined
    <3>3. PICK k \in Nat : k = Len(h[1])
      BY <2>2
    <3>4. (k + 1) - k = 1
      OBVIOUS
    <3> QED
      BY <3>2, <3>3, <3>4
  <2>5. DOMAIN s = 1 .. Len(s)
    BY <2>3, LenProperties
  <2>6. Len(h[1]) + 1 \in DOMAIN s /\ s[Len(h[1]) + 1] = ":"
    BY <2>1, <2>2, <2>3, <2>4, <2>5
  <2> QED
    BY <2>6 DEF Places
<1>5. p[1] # <<>>
  <2>1. Len(One(":")) = 1 /\ Len(<<>>) = 0
    BY <1>3, EmptySeq DEF Text
  <2> QED
    BY <1>1, <2>1
<1> HIDE DEF s
<1>6. Reads(h, p, s)
  BY <1>1, <1>2, <1>4, <1>5 DEF Reads
<1> QED
  BY <1>6 DEF s

LEMMA HostAloneRead ==
  ASSUME NEW h \in Hosts, NEW p \in Suffixes, p = <<<<>>, NoPort>>
  PROVE  Reads(h, p, h[1] \o p[1])
<1> DEFINE s == h[1]
<1>1. s \in Seq(Glyphs) /\ p[1] = <<>> /\ p[2] = NoPort
  BY HostText
<1>2. h[1] \o p[1] = s
  BY <1>1, ConcatEmptySeq
<1>3. CASE ~BracketedHost(h)
  <2>1. s = NameText \/ s = V4Text
    BY <1>3, HostCases
  <2>2. Free(NameText, ":") /\ Free(V4Text, ":")
    BY SingleTokens DEF Text, Token, Free
  <2>3. Free(s, ":") /\ HostName(s) = h[2]
    BY <2>1, <2>2, HostHasMeaning
  <2> HIDE DEF s
  <2>4. ParseHostHeader(s) = {[hostname |-> h[2], port |-> NoPort]}
    BY <1>1, <2>3, PlainRead
  <2>5. FromStr(s) = {}
    BY <1>1, <2>3, NothingToSplit DEF FromStr
  <2>6. Meant(h, p) = [hostname |-> h[2], port |-> NoPort]
    BY <1>1 DEF Meant
  <2>7. Reads(h, p, s)
    BY <1>1, <2>4, <2>5, <2>6 DEF Reads
  <2> QED
    BY <1>2, <2>7
<1>4. CASE BracketedHost(h)
  <2>1. s = Bracketed(V6Text) \/ s = Bracketed(MappedText)
    BY <1>4 DEF BracketedHost
  <2> HIDE DEF s
  <2>2. PICK a, b : CutAs(s, a, ":", b) /\ Len(b) = 2
    BY <2>1, BracketsCut
  <2>3. FromStr(s) = {} /\ ParseHostHeader(s) = {}
    BY <2>2, NoPortRead
  <2>4. Places(s, ":") # {}
    BY <2>2, CutHasPlace
  <2>5. Reads(h, p, s)
    BY <1>1, <1>4, <2>3, <2>4 DEF Reads
  <2> QED
    BY <1>2, <2>5
<1> QED
  BY <1>3, <1>4

LEMMA LegalRead ==
  ASSUME NEW h \in Hosts, NEW p \in Suffixes
  PROVE  Reads(h, p, h[1] \o p[1])
  BY PortRead, ColonRead, HostAloneRead, SuffixCases

----------------------------------------------------------------------------
(***************************************************************************)
(* Addresses printed.                                                      *)
(***************************************************************************)
PortNumbers == {1, 80, 443, 8080}

LEMMA SuffixPort ==
  ASSUME NEW p \in Suffixes
  PROVE  p[2] = NoPort \/ (p[2] \in PortNumbers /\ p[2] # NoPort)
<1>1. NoPort \notin PortNumbers
  BY DEF NoPort, PortNumbers
<1>2. ASSUME NEW n \in Numerals PROVE PortOf[n] \in PortNumbers
  <2>1. PortOf[n] \in {1, 80, 443, 8080}
    BY Ports
  <2> QED
    BY <2>1 DEF PortNumbers
<1>3. ASSUME NEW n \in Numerals, PortSuffix(p, n) PROVE p[2] \in PortNumbers
  BY <1>2, <1>3 DEF PortSuffix
<1> QED
  BY <1>1, <1>3, SuffixCases

LEMMA PortPrinted ==
  ASSUME NEW q \in PortNumbers
  PROVE  /\ NumeralOf(q) \in Numerals /\ PortOf[NumeralOf(q)] = q
         /\ <<":", NumeralOf(q)>> = Two(":", NumeralOf(q))
         /\ <<Two(":", NumeralOf(q)), q>> \in Suffixes
<1>1. NumeralOf(q) \in Numerals /\ PortOf[NumeralOf(q)] = q
  BY Ports DEF PortNumbers
<1>2. <<":", NumeralOf(q)>> = Two(":", NumeralOf(q))
  BY DEF Two
<1>3. <<Two(":", NumeralOf(q)), PortOf[NumeralOf(q)]>> \in Suffixes
  BY <1>1 DEF Suffixes, Two
<1> QED
  BY <1>1, <1>2, <1>3

\* A host is printed as the grammar has it.
Prints(g, x) == g[1] = ToUrlStyle(x) /\ g[2] = x /\ (BracketedHost(g) => x = V6)

LEMMA HostPrinted ==
  ASSUME NEW h \in Hosts
  PROVE  \E g \in Hosts : Prints(g, h[2])
<1>1. ToUrlStyle(Domain(NameText)) = NameText
  BY DEF ToUrlStyle, Domain
<1>2. ToUrlStyle(V4) = V4Text
  BY DEF ToUrlStyle, V4
<1>3. ToUrlStyle(V6) = Bracketed(V6Text)
  BY DEF ToUrlStyle, V6, Bracketed
<1>4. V4 # V6 /\ Domain(NameText) # V4 /\ Domain(NameText) # V6
  BY DEF V4, V6, Domain
<1> DEFINE a == <<NameText, Domain(NameText)>>
           b == <<V4Text, V4>>
           c == <<Bracketed(V6Text), V6>>
<1>5. a \in Hosts /\ b \in Hosts /\ c \in Hosts
  BY DEF Hosts, Bracketed
<1>6. ~BracketedHost(a)
  BY <1>4, TextsDiffer, HostBegins DEF BracketedHost, Begins
<1>7. ~BracketedHost(b)
  BY <1>4, TextsDiffer, HostBegins DEF BracketedHost, Begins
<1>8. Prints(a, Domain(NameText)) /\ Prints(b, V4) /\ Prints(c, V6)
  BY <1>1, <1>2, <1>3, <1>6, <1>7 DEF Prints
<1>9. h[2] = Domain(NameText) \/ h[2] = V4 \/ h[2] = V6
  BY HostCases DEF BracketedHost
<1> HIDE DEF a, b, c
<1> QED
  BY <1>5, <1>8, <1>9

\* With a port, ...
LEMMA DisplayIs ==
  ASSUME NEW h \in Hosts, NEW q \in PortNumbers
  PROVE  \E g \in Hosts, p \in Suffixes :
           /\ Display([hostname |-> h[2], port |-> q]) = g[1] \o p[1]
           /\ Meant(g, p) = [hostname |-> h[2], port |-> q]
<1>1. PICK g \in Hosts : Prints(g, h[2])
  BY HostPrinted
<1> DEFINE p == <<Two(":", NumeralOf(q)), q>>
<1>2. p \in Suffixes /\ <<":", NumeralOf(q)>> = Two(":", NumeralOf(q))
  BY PortPrinted
<1>3. Display([hostname |-> h[2], port |-> q]) = ToUrlStyle(h[2]) \o <<":", NumeralOf(q)>>
  BY DEF Display
<1>4. Display([hostname |-> h[2], port |-> q]) = g[1] \o p[1]
  BY <1>1, <1>2, <1>3 DEF Prints
<1>5. Meant(g, p) = [hostname |-> h[2], port |-> q]
  BY <1>1 DEF Prints, Meant
<1> QED
  BY <1>2, <1>4, <1>5

\* ... or without the one that goes without saying.
Told(scheme, p, q) ==
  \/ q = <<<<>>, NoPort>> /\ (p[2] = NoPort \/ GoesWithoutSaying(scheme, p[2]))
  \/ q[1] # <<>> /\ q[2] = p[2] /\ q[2] # NoPort

LEMMA HeaderIs ==
  ASSUME NEW h \in Hosts, NEW p \in Suffixes, NEW scheme
  PROVE  \E g \in Hosts, q \in Suffixes :
           /\ HostHeader(scheme, Meant(h, p)) = g[1] \o q[1]
           /\ Prints(g, h[2]) /\ Told(scheme, p, q)
<1>1. PICK g \in Hosts : Prints(g, h[2])
  BY HostPrinted
<1>2. Meant(h, p).hostname = h[2] /\ Meant(h, p).port = p[2]
  BY DEF Meant
<1> DEFINE silent == p[2] = NoPort \/ GoesWithoutSaying(scheme, p[2])
<1>3. HostHeader(scheme, Meant(h, p)) = ToUrlStyle(h[2]) \o (IF silent THEN <<>> ELSE <<":", NumeralOf(p[2])>>)
  BY <1>2 DEF HostHeader
<1>4. CASE silent
  <2> DEFINE q == <<<<>>, NoPort>>
  <2>1. q \in Suffixes
    BY DEF Suffixes
  <2>2. HostHeader(scheme, Meant(h, p)) = g[1] \o q[1]
    BY <1>1, <1>3, <1>4 DEF Prints
  <2>3. Told(scheme, p, q)
    BY <1>4 DEF Told
  <2> QED
    BY <1>1, <2>1, <2>2, <2>3
<1>5. CASE ~silent
  <2> DEFINE q == <<Two(":", NumeralOf(p[2])), p[2]>>
  <2>0. p[2] \in PortNumbers /\ p[2] # NoPort
    BY <1>5, SuffixPort
  <2>1. q \in Suffixes /\ <<":", NumeralOf(p[2])>> = Two(":", NumeralOf(p[2])) /\ NumeralOf(p[2]) \in Numerals
    BY <2>0, PortPrinted
  <2>2. HostHeader(scheme, Meant(h, p)) = g[1] \o q[1]
    BY <1>1, <1>3, <1>5, <2>1 DEF Prints
  <2>3. q[1] # <<>>
    <3>1. Len(Two(":", NumeralOf(p[2]))) = 2 /\ Len(<<>>) = 0
      BY <2>1, TwoTokens, GlyphFacts, EmptySeq DEF Text
    <3> QED
      BY <3>1
  <2>4. q[2] = p[2]
    OBVIOUS
  <2>5. Told(scheme, p, q)
    BY <2>0, <2>3, <2>4 DEF Told
  <2> QED
    BY <1>1, <2>1, <2>2, <2>5
<1> QED
  BY <1>4, <1>5

LEMMA MeaningForIs ==
  ASSUME NEW h \in Hosts, NEW p \in Suffixes, NEW port
  PROVE  MeaningFor(h[1] \o p[1], port) =
           {[hostname |-> h[2], port |-> IF p[2] = NoPort THEN port ELSE p[2]]}
<1>1. Meaning(h[1] \o p[1]) = {Meant(h, p)}
  BY OneMeaning
<1>2. [Meant(h, p) EXCEPT !.port = IF @ = NoPort THEN port ELSE @] =
        [hostname |-> h[2], port |-> IF p[2] = NoPort THEN port ELSE p[2]]
  BY DEF Meant
<1> QED
  BY <1>1, <1>2 DEF MeaningFor

----------------------------------------------------------------------------
(***************************************************************************)
(* Any address: what is read can be printed and read again.                *)
(***************************************************************************)
ReadAs(a) ==
  /\ a = [hostname |-> a.hostname, port |-> a.port]
  /\ a.hostname \in HostNames /\ Free(a.hostname.text, "@")

LEMMA PortsParsed ==
  ASSUME NEW b, NEW q \in ParsePort(b)
  PROVE  q \in PortNumbers
<1>1. PICK n \in Numerals : q = PortOf[n]
  BY DEF ParsePort
<1>2. PortOf[n] \in {1, 80, 443, 8080}
  BY Ports
<1> QED
  BY <1>1, <1>2 DEF PortNumbers

LEMMA FromStrTyped ==
  ASSUME NEW s \in Seq(Glyphs), Free(s, "@"), NEW a \in FromStr(s)
  PROVE  ReadAs(a) /\ a.port \in PortNumbers
<1>1. PICK p \in RSplit(s, ":") : \E q \in ParsePort(p[2]) : a = [hostname |-> HostName(p[1]), port |-> q]
  BY DEF FromStr
<1>2. PICK q \in ParsePort(p[2]) : a = [hostname |-> HostName(p[1]), port |-> q]
  BY <1>1
<1>3. q \in PortNumbers
  BY PortsParsed
<1>4. p[1] \in Seq(Glyphs) /\ Free(p[1], "@")
  BY Splits
<1>5. HostName(p[1]) \in HostNames /\ Free(HostName(p[1]).text, "@")
  BY <1>4, HostIsFree
<1>6. a.hostname = HostName(p[1]) /\ a.port = q
  BY <1>2
<1> QED
  BY <1>2, <1>3, <1>5, <1>6 DEF ReadAs

LEMMA HeaderTyped ==
  ASSUME NEW s \in Seq(Glyphs), Free(s, "@"), NEW a \in ParseHostHeader(s)
  PROVE  ReadAs(a) /\ a.port \in PortNumbers \cup {NoPort}
<1>1. CASE RSplit(s, ":") = {}
  <2>1. a = [hostname |-> HostName(s), port |-> NoPort]
    BY <1>1 DEF ParseHostHeader
  <2>2. HostName(s) \in HostNames /\ Free(HostName(s).text, "@")
    BY HostIsFree
  <2>3. a.hostname = HostName(s) /\ a.port = NoPort
    BY <2>1
  <2> QED
    BY <2>1, <2>2, <2>3 DEF ReadAs
<1>2. CASE RSplit(s, ":") # {}
  <2>1. a \in FromStr(s)
    BY <1>2 DEF ParseHostHeader
  <2> QED
    BY <2>1, FromStrTyped
<1> QED
  BY <1>1, <1>2

LEMMA UrlStyleTyped ==
  ASSUME NEW x \in HostNames
  PROVE  ToUrlStyle(x) \in Seq(Glyphs) /\ (Free(x.text, "@") => Free(ToUrlStyle(x), "@"))
<1>1. x.text \in Seq(Glyphs)
  BY DEF HostNames
<1> DEFINE t == x.text
<1>2. CASE x.kind = "V6"
  <2>1. ToUrlStyle(x) = Bracketed(t)
    BY <1>2 DEF ToUrlStyle, Bracketed
  <2> HIDE DEF t
  <2>2. /\ Bracketed(t) \in Seq(Glyphs) /\ Len(Bracketed(t)) = Len(t) + 2
        /\ Bracketed(t)[1] = "[" /\ Bracketed(t)[Len(t) + 2] = "]"
        /\ \A i \in 1 .. Len(t) : Bracketed(t)[i + 1] = t[i]
    BY <1>1, BracketedIs DEF Token, t
  <2>3. Len(t) \in Nat
    BY <1>1, LenProperties DEF t
  <2>4. ASSUME Free(t, "@"), NEW i \in 1 .. Len(Bracketed(t)) PROVE Bracketed(t)[i] # "@"
    <3>1. i = 1 \/ i = Len(t) + 2 \/ (i - 1 \in 1 .. Len(t) /\ (i - 1) + 1 = i)
      BY <2>2, <2>3
    <3>2. CASE i = 1
      BY <2>2, <3>2
    <3>3. CASE i = Len(t) + 2
      BY <2>2, <3>3
    <3>4. CASE i - 1 \in 1 .. Len(t) /\ (i - 1) + 1 = i
      <4>1. Bracketed(t)[(i - 1) + 1] = t[i - 1] /\ t[i - 1] # "@"
        BY <2>2, <2>4, <3>4 DEF Free
      <4> QED
        BY <3>4, <4>1
    <3> QED
      BY <3>1, <3>2, <3>3, <3>4
  <2>5. Free(t, "@") => Free(Bracketed(t), "@")
    BY <2>4 DEF Free
  <2> QED
    BY <2>1, <2>2, <2>5 DEF t
<1>3. CASE x.kind # "V6"
  <2>1. ToUrlStyle(x) = x.text
    BY <1>3 DEF ToUrlStyle
  <2> QED
    BY <1>1, <2>1
<1> QED
  BY <1>2, <1>3

LEMMA FreeJoined ==
  ASSUME NEW a \in Seq(Glyphs), NEW w \in Seq(Glyphs), NEW c, Free(a, c), Free(w, c)
  PROVE  a \o w \in Seq(Glyphs) /\ Free(a \o w, c)
<1> DEFINE s == a \o w
<1>1. /\ s \in Seq(Glyphs) /\ Len(s) = Len(a) + Len(w)
      /\ \A i \in 1 .. Len(a) + Len(w) : s[i] = IF i <= Len(a) THEN a[i] ELSE w[i - Len(a)]
  BY Joined
<1> HIDE DEF s
<1>2. Len(a) \in Nat /\ Len(w) \in Nat
  BY LenProperties
<1>3. ASSUME NEW i \in 1 .. Len(s) PROVE s[i] # c
  <2>1. CASE i <= Len(a)
    <3>1. i \in 1 .. Len(a) /\ s[i] = a[i]
      BY <1>1, <1>2, <2>1
    <3> QED
      BY <3>1 DEF Free
  <2>2. CASE ~(i <= Len(a))
    <3>1. i - Len(a) \in 1 .. Len(w) /\ s[i] = w[i - Len(a)]
      BY <1>1, <1>2, <2>2
    <3> QED
      BY <3>1 DEF Free
  <2> QED
    BY <2>1, <2>2
<1>4. Free(s, c)
  BY <1>3 DEF Free
<1> QED
  BY <1>1, <1>4 DEF s

\* The host header of any address is a text without an at sign.
LEMMA HeaderIsFree ==
  ASSUME NEW a, ReadAs(a), a.port \in PortNumbers \cup {NoPort}, NEW scheme
  PROVE  HostHeader(scheme, a) \in Seq(Glyphs) /\ Free(HostHeader(scheme, a), "@")
<1> DEFINE t == ToUrlStyle(a.hostname)
           silent == a.port = NoPort \/ GoesWithoutSaying(scheme, a.port)
<1>1. t \in Seq(Glyphs) /\ Free(t, "@")
  BY UrlStyleTyped DEF ReadAs
<1>2. HostHeader(scheme, a) = t \o (IF silent THEN <<>> ELSE <<":", NumeralOf(a.port)>>)
  BY DEF HostHeader
<1>3. CASE silent
  <2>1. <<>> \in Seq(Glyphs) /\ Free(<<>>, "@")
    <3>1. <<>> \in Seq(Glyphs) /\ Len(<<>>) = 0
      BY EmptySeq
    <3> QED
      BY <3>1 DEF Free
  <2> HIDE DEF t
  <2> QED
    BY <1>1, <1>2, <1>3, <2>1, FreeJoined
<1>4. CASE ~silent
  <2> DEFINE n == NumeralOf(a.port)
  <2>1. n \in Numerals /\ <<":", n>> = Two(":", n)
    BY <1>4, PortPrinted
  <2> HIDE DEF n
  <2>2. Text(Two(":", n), 2) /\ Token(Two(":", n), 1, ":") /\ Token(Two(":", n), 2, n) /\ n # "@"
    BY <2>1, TwoTokens, GlyphFacts
  <2>3. Two(":", n) \in Seq(Glyphs) /\ Free(Two(":", n), "@")
    <3>1. Two(":", n) \in Seq(Glyphs) /\ Len(Two(":", n)) = 2
      BY <2>2 DEF Text
    <3>2. Two(":", n)[1] = ":" /\ Two(":", n)[2] = n
      BY <2>2 DEF Token
    <3> HIDE DEF Two
    <3>3. ASSUME NEW i \in 1 .. Len(Two(":", n)) PROVE Two(":", n)[i] # "@"
      <4>1. i \in 1 .. 2
        BY <3>1
      <4>2. i = 1 \/ i = 2
        BY ONLY <4>1
      <4> QED
        BY <2>2, <3>2, <4>2
    <3> QED
      BY <3>1, <3>3 DEF Free
  <2> HIDE DEF t
  <2>4. HostHeader(scheme, a) = t \o Two(":", n)
    BY <1>2, <1>4, <2>1 DEF n
  <2> QED
    BY <1>1, <2>3, <2>4, FreeJoined
<1> QED
  BY <1>3, <1>4

\* What Display prints, FromStr reads.
LEMMA DisplayRead ==
  ASSUME NEW a, ReadAs(a), a.port \in PortNumbers
  PROVE  \E b \in FromStr(Display(a)) : b.port # NoPort
<1> DEFINE t == ToUrlStyle(a.hostname)
           n == NumeralOf(a.port)
<1>1. t \in Seq(Glyphs)
  BY UrlStyleTyped DEF ReadAs
<1>2. n \in Numerals /\ <<":", n>> = Two(":", n) /\ PortOf[n] = a.port
  BY PortPrinted
<1>3. Display(a) = t \o <<":", n>>
  BY DEF Display
<1> HIDE DEF t, n
<1>4. FromStr(Display(a)) = {[hostname |-> HostName(t), port |-> PortOf[n]]}
  BY <1>1, <1>2, <1>3, PortIsRead
<1>5. NoPort \notin PortNumbers
  BY DEF NoPort, PortNumbers
<1>6. [hostname |-> HostName(t), port |-> PortOf[n]] \in FromStr(Display(a))
  BY <1>4
<1> QED
  BY <1>2, <1>5, <1>6

----------------------------------------------------------------------------
(***************************************************************************)
(* Credentials in a URI.                                                   *)
(***************************************************************************)
LEMMA NamesAre ==
  ASSUME NEW s \in Names
  PROVE  s \in Seq(Glyphs) /\ Free(s, "@")
<1>1. s \in Seq(Words) /\ Places(s, "@") = {}
  BY RequestAssumption
<1>2. s \in Seq(Glyphs)
  <2>1. Words \subseteq Glyphs
    BY DEF Glyphs
  <2> QED
    BY <1>1, <2>1, SeqMonotonic
<1> QED
  BY <1>1, <1>2, FreeOf

LEMMA UserinfosAre ==
  ASSUME NEW s \in Userinfos
  PROVE  s \in Seq(Glyphs)
<1>1. s \in Seq(Words) /\ Words \subseteq Glyphs
  BY RequestAssumption DEF Glyphs
<1> QED
  BY <1>1, SeqMonotonic

LEMMA LeastNumber ==
  ASSUME NEW T \in SUBSET Nat, T # {}
  PROVE  \E n \in T : \A m \in T : n <= m
<1>1. PICK n \in T : \A m \in T : ~ (<<m, n>> \in OpToRel(<, Nat))
  BY NatLessThanWellFounded, WFMin, Zenon
<1>2. ASSUME NEW m \in T PROVE n <= m
  <2>1. <<m, n>> \in OpToRel(<, Nat) <=> m < n
    BY DEF OpToRel
  <2>2. ~(m < n)
    BY <1>1, <2>1, Zenon
  <2> QED
    BY <2>2
<1> QED
  BY <1>2, Zenon

\* A text with a c in it is cut at the first one.
LEMMA FirstSplit ==
  ASSUME NEW s \in Seq(Glyphs), NEW c, Places(s, c) # {}
  PROVE  \E k \in 1 .. Len(s) : s[k] = c /\ Split(s, c) = {SplitAt(s, k)}
<1>1. DOMAIN s = 1 .. Len(s) /\ Len(s) \in Nat
  BY LenProperties
<1>2. Places(s, c) \in SUBSET Nat
  BY <1>1 DEF Places
<1>3. PICK k \in Places(s, c) : \A j \in Places(s, c) : k <= j
  BY <1>2, LeastNumber
<1>4. {i \in Places(s, c) : \A j \in Places(s, c) : i <= j} = {k}
  BY <1>2, <1>3
<1>5. Split(s, c) = {SplitAt(s, k)}
  BY <1>4 DEF Split
<1>6. k \in 1 .. Len(s) /\ s[k] = c
  BY <1>1, <1>3 DEF Places
<1> QED
  BY <1>5, <1>6

LEMMA Halves ==
  ASSUME NEW s \in Seq(Glyphs), NEW k \in 1 .. Len(s)
  PROVE  \E x, y \in Seq(Glyphs) :
           /\ SplitAt(s, k) = <<x, y>> /\ Len(x) = k - 1 /\ Len(y) = Len(s) - k
           /\ \A i \in 1 .. k - 1 : x[i] = s[i]
           /\ \A i \in 1 .. Len(s) - k : y[i] = s[k + i]
<1> DEFINE x == SubSeq(s, 1, k - 1)
           y == SubSeq(s, k + 1, Len(s))
<1>1. Len(s) \in Nat /\ \A i \in 1 .. Len(s) : s[i] \in Glyphs
  BY LenProperties, ElementOfSeq
<1>2. /\ x \in Seq(Glyphs) /\ Len(x) = IF 1 <= k - 1 THEN (k - 1) - 1 + 1 ELSE 0
      /\ \A i \in 1 .. (k - 1) - 1 + 1 : x[i] = s[1 + i - 1]
  <2>1. \A i \in 1 .. k - 1 : s[i] \in Glyphs
    BY <1>1
  <2> QED
    BY <2>1, SubSeqProperties
<1>3. /\ y \in Seq(Glyphs) /\ Len(y) = IF k + 1 <= Len(s) THEN Len(s) - (k + 1) + 1 ELSE 0
      /\ \A i \in 1 .. Len(s) - (k + 1) + 1 : y[i] = s[(k + 1) + i - 1]
  <2>1. \A i \in k + 1 .. Len(s) : s[i] \in Glyphs
    BY <1>1
  <2> QED
    BY <1>1, <2>1, SubSeqProperties
<1>4. SplitAt(s, k) = <<x, y>>
  BY DEF SplitAt
<1> HIDE DEF x, y
<1>5. Len(x) = k - 1 /\ Len(y) = Len(s) - k
  BY <1>1, <1>2, <1>3
<1>6. ASSUME NEW i \in 1 .. k - 1 PROVE x[i] = s[i]
  <2>1. i \in 1 .. (k - 1) - 1 + 1 /\ 1 + i - 1 = i
    OBVIOUS
  <2> QED
    BY <1>2, <2>1
<1>7. ASSUME NEW i \in 1 .. Len(s) - k PROVE y[i] = s[k + i]
  <2>1. i \in 1 .. Len(s) - (k + 1) + 1 /\ (k + 1) + i - 1 = k + i
    BY <1>1
  <2> QED
    BY <1>3, <2>1
<1> QED
  BY <1>2, <1>3, <1>4, <1>5, <1>6, <1>7

\* A text in clear, token by token.
Plain(t) == CASE t = "%40" -> "@" [] t = "%3A" -> ":" [] OTHER -> t
Clear(s) == [i \in DOMAIN s |-> Plain(s[i])]

LEMMA ClearIs ==
  ASSUME NEW s \in Seq(Glyphs)
  PROVE  /\ Clear(s) \in Seq(Glyphs) /\ Len(Clear(s)) = Len(s)
         /\ \A i \in 1 .. Len(s) : Clear(s)[i] = Plain(s[i])
         /\ Decoded(s) = IF Places(s, "%FF") # {} THEN {} ELSE {Clear(s)}
<1> DEFINE n == Len(s)
<1>1. DOMAIN s = 1 .. n /\ n \in Nat /\ \A i \in 1 .. n : s[i] \in Glyphs
  BY LenProperties, ElementOfSeq
<1>2. \A t \in Glyphs : Plain(t) \in Glyphs
  BY GlyphFacts DEF Plain
<1> HIDE DEF n
<1>3. Clear(s) = [i \in 1 .. n |-> Plain(s[i])]
  BY <1>1 DEF Clear
<1>4. \A i \in 1 .. n : Plain(s[i]) \in Glyphs
  BY <1>1, <1>2
<1>5. Clear(s) \in Seq(Glyphs) /\ Len(Clear(s)) = n
  <2> HIDE DEF Plain
  <2> DEFINE d == [i \in 1 .. n |-> Plain(s[i])]
  <2>1. d \in [1 .. n -> Glyphs]
    BY <1>4
  <2> HIDE DEF d
  <2>2. d \in Seq(Glyphs) /\ Len(d) = n
    BY <1>1, <2>1
  <2> QED
    BY <1>3, <2>2 DEF d
<1>6. \A i \in 1 .. n : Clear(s)[i] = Plain(s[i])
  BY <1>3
<1>7. Decoded(s) = IF Places(s, "%FF") # {} THEN {} ELSE {Clear(s)}
  BY DEF Decoded, Clear, Plain
<1> QED
  BY <1>5, <1>6, <1>7 DEF n

\* The user name and the password decoded, with a colon between them, are the
\* userinfo in clear; if one cannot be decoded, neither can the userinfo.
LEMMA CredentialsAre ==
  ASSUME NEW u \in Seq(Glyphs)
  PROVE  /\ Credentials(u) = {} => Places(u, "%FF") # {}
         /\ \A c \in Credentials(u) : Basic(c) = <<"Basic">> \o ClearText(u)
<1>1. ClearText(u) = IF Places(u, ":") = {} THEN Clear(u) \o One(":") ELSE Clear(u)
  BY DEF ClearText, Clear, Plain, One
<1>2. \A c : Basic(c) = <<"Basic">> \o ((c[1] \o One(":")) \o c[2])
  BY DEF Basic, One
<1>3. One(":") \in Seq(Glyphs) /\ Len(One(":")) = 1 /\ One(":")[1] = ":"
  BY OneToken, GlyphFacts DEF Text, Token
<1>4. /\ Clear(u) \in Seq(Glyphs) /\ Len(Clear(u)) = Len(u) /\ Len(u) \in Nat
      /\ \A i \in 1 .. Len(u) : Clear(u)[i] = Plain(u[i])
      /\ Decoded(u) = IF Places(u, "%FF") # {} THEN {} ELSE {Clear(u)}
  BY ClearIs, LenProperties
<1>5. CASE Places(u, ":") = {}
  <2> DEFINE none == <<>>
  <2>1. none \in Seq(Glyphs) /\ Len(none) = 0
    BY EmptySeq
  <2>2. UserAndPassword(u) = {<<u, none>>}
    BY <1>5 DEF UserAndPassword, Split
  <2> HIDE DEF none
  <2>3. Decoded(none) = {none}
    <3>1. Places(none, "%FF") = {}
      BY <2>1, LenProperties DEF Places
    <3>2. Decoded(none) = {Clear(none)} /\ Clear(none) \in Seq(Glyphs) /\ Len(Clear(none)) = 0
      BY <2>1, <3>1, ClearIs
    <3>3. Clear(none) = none
      BY <2>1, <3>2, SeqEqual
    <3> QED
      BY <3>2, <3>3
  <2>4. Credentials(u) = Decoded(u) \X Decoded(none)
    BY <2>2 DEF Credentials
  <2>5. ASSUME NEW c \in Credentials(u)
        PROVE  Basic(c) = <<"Basic">> \o ClearText(u)
    <3>1. c[1] = Clear(u) /\ c[2] = none
      BY <1>4, <2>3, <2>4
    <3>2. (Clear(u) \o One(":")) \in Seq(Glyphs)
      BY <1>3, <1>4, ConcatProperties
    <3>3. (Clear(u) \o One(":")) \o none = Clear(u) \o One(":")
      BY <3>2, ConcatEmptySeq DEF none
    <3> QED
      BY <1>1, <1>2, <1>5, <3>1, <3>3
  <2>6. Credentials(u) = {} => Places(u, "%FF") # {}
    <3> SUFFICES ASSUME Places(u, "%FF") = {} PROVE Credentials(u) # {}
      OBVIOUS
    <3>1. Clear(u) \in Decoded(u) /\ none \in Decoded(none)
      BY <1>4, <2>3
    <3>2. <<Clear(u), none>> \in Decoded(u) \X Decoded(none)
      BY <3>1
    <3> QED
      BY <2>4, <3>2
  <2> QED
    BY <2>5, <2>6
<1>6. CASE Places(u, ":") # {}
  <2>1. PICK k \in 1 .. Len(u) : u[k] = ":" /\ Split(u, ":") = {SplitAt(u, k)}
    BY <1>6, FirstSplit
  <2>2. PICK x \in Seq(Glyphs), y \in Seq(Glyphs) :
          /\ SplitAt(u, k) = <<x, y>> /\ Len(x) = k - 1 /\ Len(y) = Len(u) - k
          /\ \A i \in 1 .. k - 1 : x[i] = u[i]
          /\ \A i \in 1 .. Len(u) - k : y[i] = u[k + i]
    BY Halves
  <2>3. Credentials(u) = Decoded(x) \X Decoded(y)
    <3>1. UserAndPassword(u) = {<<x, y>>}
      BY <2>1, <2>2 DEF UserAndPassword
    <3> QED
      BY <3>1 DEF Credentials
  <2>4. /\ Clear(x) \in Seq(Glyphs) /\ Len(Clear(x)) = k - 1
        /\ \A i \in 1 .. k - 1 : Clear(x)[i] = Plain(u[i])
        /\ Decoded(x) = IF Places(x, "%FF") # {} THEN {} ELSE {Clear(x)}
    <3>1. x \in Seq(Glyphs) /\ Len(x) = k - 1
      BY <2>2
    <3>2. /\ Clear(x) \in Seq(Glyphs) /\ Len(Clear(x)) = Len(x)
          /\ \A i \in 1 .. Len(x) : Clear(x)[i] = Plain(x[i])
          /\ Decoded(x) = IF Places(x, "%FF") # {} THEN {} ELSE {Clear(x)}
      BY ONLY <3>1, ClearIs, Zenon
    <3>3. \A i \in 1 .. k - 1 : Clear(x)[i] = Plain(x[i])
      BY <3>1, <3>2
    <3>4. \A i \in 1 .. k - 1 : x[i] = u[i]
      BY <2>2
    <3>5. \A i \in 1 .. k - 1 : Clear(x)[i] = Plain(u[i])
      BY <3>3, <3>4
    <3> QED
      BY <3>1, <3>2, <3>5
  <2>5. /\ Clear(y) \in Seq(Glyphs) /\ Len(Clear(y)) = Len(u) - k
        /\ \A i \in 1 .. Len(u) - k : Clear(y)[i] = Plain(u[k + i])
        /\ Decoded(y) = IF Places(y, "%FF") # {} THEN {} ELSE {Clear(y)}
    <3>1. y \in Seq(Glyphs) /\ Len(y) = Len(u) - k
      BY <2>2
    <3>2. /\ Clear(y) \in Seq(Glyphs) /\ Len(Clear(y)) = Len(y)
          /\ \A i \in 1 .. Len(y) : Clear(y)[i] = Plain(y[i])
          /\ Decoded(y) = IF Places(y, "%FF") # {} THEN {} ELSE {Clear(y)}
      BY ONLY <3>1, ClearIs, Zenon
    <3>3. \A i \in 1 .. Len(u) - k : Clear(y)[i] = Plain(y[i])
      BY <3>1, <3>2
    <3>4. \A i \in 1 .. Len(u) - k : y[i] = u[k + i]
      BY <2>2
    <3>5. \A i \in 1 .. Len(u) - k : Clear(y)[i] = Plain(u[k + i])
      BY <3>3, <3>4
    <3> QED
      BY <3>1, <3>2, <3>5
  <2>6. Credentials(u) = {} => Places(u, "%FF") # {}
    <3> SUFFICES ASSUME Credentials(u) = {} PROVE Places(u, "%FF") # {}
      OBVIOUS
    <3>1. DOMAIN u = 1 .. Len(u) /\ DOMAIN x = 1 .. Len(x) /\ DOMAIN y = 1 .. Len(y)
      BY LenProperties
    <3>2. Places(x, "%FF") # {} \/ Places(y, "%FF") # {}
      <4> SUFFICES ASSUME Places(x, "%FF") = {}, Places(y, "%FF") = {} PROVE FALSE
        OBVIOUS
      <4>1. Clear(x) \in Decoded(x)
        BY <2>4
      <4>2. Clear(y) \in Decoded(y)
        BY <2>5
      <4>3. <<Clear(x), Clear(y)>> \in Decoded(x) \X Decoded(y)
        BY <4>1, <4>2
      <4> QED
        BY <2>3, <4>3
    <3>3. CASE Places(x, "%FF") # {}
      <4>1. PICK i \in 1 .. k - 1 : x[i] = "%FF"
        BY <2>2, <3>1, <3>3 DEF Places
      <4>2. i \in 1 .. Len(u) /\ u[i] = "%FF"
        BY <1>4, <2>2, <4>1
      <4> QED
        BY <3>1, <4>2 DEF Places
    <3>4. CASE Places(y, "%FF") # {}
      <4>1. PICK i \in 1 .. Len(u) - k : y[i] = "%FF"
        BY <2>2, <3>1, <3>4 DEF Places
      <4>2. k + i \in 1 .. Len(u) /\ u[k + i] = "%FF"
        BY <1>4, <2>2, <4>1
      <4> QED
        BY <3>1, <4>2 DEF Places
    <3> QED
      BY <3>2, <3>3, <3>4
  <2> DEFINE left == Clear(x) \o One(":")
             both == left \o Clear(y)
  <2>7. /\ left \in Seq(Glyphs) /\ Len(left) = k
        /\ \A i \in 1 .. k : left[i] = IF i <= k - 1 THEN Clear(x)[i] ELSE One(":")[i - (k - 1)]
    <3> DEFINE cx == Clear(x)
               co == One(":")
    <3>1. cx \in Seq(Glyphs) /\ Len(cx) = k - 1 /\ co \in Seq(Glyphs) /\ Len(co) = 1
      BY <1>3, <2>4
    <3> HIDE DEF cx, co
    <3>2. /\ cx \o co \in Seq(Glyphs) /\ Len(cx \o co) = Len(cx) + Len(co)
          /\ \A i \in 1 .. Len(cx) + Len(co) : (cx \o co)[i] = IF i <= Len(cx) THEN cx[i] ELSE co[i - Len(cx)]
      BY <3>1, ConcatProperties
    <3>3. Len(cx) + Len(co) = k
      BY <3>1
    <3>4. left = cx \o co
      BY DEF cx, co
    <3> HIDE DEF left
    <3>5. /\ left \in Seq(Glyphs) /\ Len(left) = k
          /\ \A i \in 1 .. k : left[i] = IF i <= k - 1 THEN cx[i] ELSE co[i - (k - 1)]
      BY <3>1, <3>2, <3>3, <3>4
    <3> QED
      BY <3>5 DEF cx, co
  <2> HIDE DEF left
  <2>8. /\ both \in Seq(Glyphs) /\ Len(both) = Len(u)
        /\ \A i \in 1 .. Len(u) : both[i] = IF i <= k THEN left[i] ELSE Clear(y)[i - k]
    BY <1>4, <2>5, <2>7, ConcatProperties
  <2> HIDE DEF both
  <2>9. ASSUME NEW i \in 1 .. Len(u) PROVE both[i] = Clear(u)[i]
    <3>1. Clear(u)[i] = Plain(u[i])
      BY <1>4
    <3>2. CASE i <= k - 1
      <4>1. i \in 1 .. k - 1 /\ i \in 1 .. k
        BY <1>4, <3>2
      <4>2. both[i] = Clear(x)[i]
        BY <2>7, <2>8, <3>2, <4>1
      <4> QED
        BY <2>4, <3>1, <4>1, <4>2
    <3>3. CASE i = k
      <4>1. k \in 1 .. k /\ ~(k <= k - 1) /\ k - (k - 1) = 1
        OBVIOUS
      <4>2. both[i] = One(":")[k - (k - 1)]
        BY <2>7, <2>8, <3>3, <4>1
      <4>3. Plain(u[k]) = ":"
        BY <2>1 DEF Plain
      <4> QED
        BY <1>3, <3>1, <3>3, <4>1, <4>2, <4>3
    <3>4. CASE i > k
      <4>1. i - k \in 1 .. Len(u) - k /\ k + (i - k) = i /\ ~(i <= k)
        BY <1>4, <3>4
      <4>2. both[i] = Clear(y)[i - k]
        BY <2>8, <4>1
      <4> QED
        BY <2>5, <3>1, <4>1, <4>2
    <3> QED
      BY <1>4, <3>2, <3>3, <3>4
  <2>10. both = Clear(u)
    BY <1>4, <2>8, <2>9, SeqEqual
  <2>11. ASSUME NEW c \in Credentials(u)
         PROVE  Basic(c) = <<"Basic">> \o ClearText(u)
    <3>1. c[1] = Clear(x) /\ c[2] = Clear(y)
      BY <2>3, <2>4, <2>5
    <3>2. (c[1] \o One(":")) \o c[2] = both
      BY <3>1 DEF both, left
    <3> QED
      BY <1>1, <1>2, <1>6, <2>10, <3>2
  <2> QED
    BY <2>6, <2>11
<1> QED
  BY <1>5, <1>6

LegalMessages == {m \in Messages : Legal(m)}

\* An authority is cut at its last at sign, into the userinfo and the name.
LEMMA AuthorityIs ==
  ASSUME NEW m \in LegalMessages
  PROVE  /\ m.scheme # "none" => m.name \in Names /\ HostOf(Authority(m)) = m.name
         /\ AuthOf(Authority(m)) = m.userinfo
<1>1. /\ m.userinfo = {} \/ \E u \in Userinfos : m.userinfo = {u}
      /\ m.name \in Names \cup {Absent} /\ Legal(m)
  BY DEF LegalMessages, Messages
<1>2. CASE m.scheme = "none"
  <2>1. Authority(m) = Absent /\ m.userinfo = {}
    BY <1>1, <1>2 DEF Authority, Legal
  <2>2. Absent \in Seq(Glyphs) /\ Free(Absent, "@")
    <3>1. <<>> \in Seq(Glyphs) /\ Len(<<>>) = 0
      BY EmptySeq
    <3> QED
      BY <3>1 DEF Free, Absent
  <2>3. RSplit(Authority(m), "@") = {}
    BY <2>1, <2>2, NothingToSplit
  <2> QED
    BY <1>2, <2>1, <2>3 DEF AuthOf
<1>3. CASE m.scheme # "none" /\ m.userinfo = {}
  <2>1. m.name \in Names /\ Authority(m) = m.name
    BY <1>1, <1>3 DEF Authority, Legal
  <2>2. RSplit(Authority(m), "@") = {}
    BY <2>1, NamesAre, NothingToSplit
  <2> QED
    BY <1>3, <2>1, <2>2 DEF AuthOf, HostOf
<1>4. CASE m.scheme # "none" /\ m.userinfo # {}
  <2> DEFINE n == m.name
             w == One("@") \o n
  <2>0. PICK u \in Userinfos : m.userinfo = {u}
    BY <1>1, <1>4
  <2>1. n \in Names /\ Authority(m) = u \o <<"@">> \o n
    <3>1. (CHOOSE v \in m.userinfo : TRUE) = u
      BY <2>0
    <3> QED
      BY <1>1, <1>4, <3>1 DEF Authority, Legal
  <2>2. u \in Seq(Glyphs) /\ n \in Seq(Glyphs) /\ Free(n, "@")
    BY <2>1, NamesAre, UserinfosAre
  <2>3. Text(One("@"), 1) /\ Token(One("@"), 1, "@")
    BY OneToken, GlyphFacts
  <2> HIDE DEF n
  <2>4. One("@") \in Seq(Glyphs) /\ Len(One("@")) = 1 /\ One("@")[1] = "@"
    BY <2>3 DEF Text, Token
  <2>5. (u \o One("@")) \o n = u \o (One("@") \o n)
    BY <2>2, <2>4, ConcatAssociative
  <2>6. Authority(m) = u \o w
    BY <2>1, <2>5 DEF One, n
  <2>7. /\ w \in Seq(Glyphs) /\ Len(w) = Len(One("@")) + Len(n)
        /\ \A i \in 1 .. Len(One("@")) + Len(n) :
             w[i] = IF i <= Len(One("@")) THEN One("@")[i] ELSE n[i - Len(One("@"))]
    BY <2>2, <2>4, Joined
  <2>8. Len(n) \in Nat
    BY <2>2, LenProperties
  <2> HIDE DEF w
  <2>9. Len(w) = 1 + Len(n) /\ w[1] = "@"
    BY <2>4, <2>7, <2>8
  <2>10. ASSUME NEW i \in 1 .. Len(n) PROVE w[i + 1] = n[i]
    <3>1. PICK k \in Nat : k = Len(n)
      BY <2>8
    <3>2. i \in 1 .. k
      BY <3>1
    <3>3. i + 1 \in 1 .. 1 + k /\ ~(i + 1 <= 1) /\ (i + 1) - 1 = i
      BY ONLY <3>1, <3>2
    <3>4. i + 1 \in 1 .. Len(One("@")) + Len(n)
      BY <2>4, <3>1, <3>3
    <3>5. w[i + 1] = IF i + 1 <= Len(One("@")) THEN One("@")[i + 1] ELSE n[(i + 1) - Len(One("@"))]
      BY <2>7, <3>4
    <3> QED
      BY <2>4, <3>3, <3>5
  <2>11. CutAs(u \o w, u, "@", n)
    BY <2>2, <2>7, <2>9, <2>10, CutBehind
  <2>12. RSplit(Authority(m), "@") = {<<u, n>>}
    BY <2>6, <2>11, SplitIs
  <2>13. AuthOf(Authority(m)) = {u} /\ HostOf(Authority(m)) = n
    <3>1. RSplit(Authority(m), "@") # {} /\ (CHOOSE p \in RSplit(Authority(m), "@") : TRUE) = <<u, n>>
      BY <2>12
    <3>2. <<u, n>>[1] = u /\ <<u, n>>[2] = n
      OBVIOUS
    <3>3. AuthOf(Authority(m)) = {<<u, n>>[1]}
      BY <2>12 DEF AuthOf
    <3>4. HostOf(Authority(m)) = <<u, n>>[2]
      BY <3>1 DEF HostOf
    <3> QED
      BY <3>2, <3>3, <3>4
  <2> QED
    BY <1>4, <2>0, <2>1, <2>13 DEF n
<1> QED
  BY <1>2, <1>3, <1>4

Scheme(m) == IF m.scheme = "none" THEN "http" ELSE m.scheme

LEMMA ParsedIs ==
  ASSUME NEW m \in LegalMessages
  PROVE  /\ \A p \in Parsed(m) : /\ p = [scheme |-> Scheme(m), at |-> p.at]
                                 /\ p.at \in ParseHostHeader(m.name)
                                 /\ m.name \in Names /\ m.scheme \in {"none", "http", "https"}
                                 /\ \A u \in m.userinfo : Credentials(u) # {}
         /\ Parsed(m) = {} => \/ m.scheme = "ftp" \/ m.name = Absent \/ ParseHostHeader(m.name) = {}
                             \/ \E u \in m.userinfo : Credentials(u) = {}
<1>1. m.name \in Names \cup {Absent} /\ m.scheme \in {"none", "http", "https", "ftp"}
  BY DEF LegalMessages, Messages
<1>2. /\ m.scheme # "none" => m.name \in Names /\ HostOf(Authority(m)) = m.name
      /\ AuthOf(Authority(m)) = m.userinfo /\ (m.scheme = "none" => m.userinfo = {})
  BY AuthorityIs DEF LegalMessages, Legal
<1> DEFINE clear == \A u \in m.userinfo : Credentials(u) # {}
<1> DEFINE texts == IF m.scheme = "none" THEN IF m.name # Absent THEN ParseHostHeader(m.name) ELSE {}
                    ELSE IF m.scheme \in {"http", "https"} /\ clear THEN ParseHostHeader(m.name) ELSE {}
<1>3. Parsed(m) = {[scheme |-> Scheme(m), at |-> a] : a \in texts}
  <2>1. CASE m.scheme = "none"
    BY <2>1 DEF Parsed, Scheme
  <2>2. CASE m.scheme # "none"
    BY <1>2, <2>2 DEF Parsed, Scheme
  <2> QED
    BY <2>1, <2>2
<1>4. ASSUME NEW p \in Parsed(m)
      PROVE  /\ p = [scheme |-> Scheme(m), at |-> p.at]
             /\ p.at \in ParseHostHeader(m.name)
             /\ m.name \in Names /\ m.scheme \in {"none", "http", "https"} /\ clear
  <2>1. PICK a \in texts : p = [scheme |-> Scheme(m), at |-> a]
    BY <1>3
  <2>2. p.at = a
    BY <2>1
  <2>3. a \in ParseHostHeader(m.name) /\ m.scheme \in {"none", "http", "https"} /\ m.name \in Names /\ clear
    BY <1>1, <1>2
  <2> QED
    BY <2>1, <2>2, <2>3
<1>5. ASSUME Parsed(m) = {}
      PROVE  m.scheme = "ftp" \/ m.name = Absent \/ ParseHostHeader(m.name) = {} \/ ~clear
  <2>1. texts = {}
    BY <1>3, <1>5
  <2> QED
    BY <1>1, <2>1
<1> QED
  BY <1>4, <1>5


----------------------------------------------------------------------------
(***************************************************************************)
(* What a step leaves: the request that is sent carries what was read from *)
(* the one asked for, and nothing else.                                    *)
(***************************************************************************)
Proxied == up.http /\ out.scheme = "http"

Carries(p) ==
  out = [target |-> IF via THEN HostHeader(p.scheme, p.at) ELSE Absent,
         host |-> HostHeader(p.scheme, p.at), scheme |-> p.scheme,
         authorization |-> Authorization(asked), te |-> Te(asked),
         proxy |-> IF via /\ up.auth THEN {"proxy-authorization"} ELSE {}]

Tunnelled ==
  /\ out = Nothing /\ via = FALSE
  /\ \/ pc = "arrived"
     \/ pc = "sent" /\ \E a \in Address : dial = Display(a)
     \/ pc = "failed" /\ Address = {}

Unread == out = Nothing /\ via = FALSE /\ (pc = "arrived" \/ (pc = "failed" /\ Parsed(asked) = {}))

Handled ==
  \/ pc = "rewritten" /\ via = FALSE
  \/ pc = "sent" /\ via = TRUE /\ Proxied
  \/ pc = "sent" /\ via = FALSE /\ ~Proxied /\ \E a \in Server : dial = Display(a)
  \/ pc = "failed" /\ via = FALSE /\ ~Proxied /\ Server = {}

Requested == Unread \/ (Handled /\ \E p \in Parsed(asked) : Carries(p))

IInv ==
  /\ asked \in Tunnels \cup LegalMessages
  /\ asked.kind # "request" => Tunnelled
  /\ asked.kind = "request" => Requested

LEMMA InitOk == Init => IInv
  BY DEF Init, IInv, Tunnelled, Requested, Unread, LegalMessages

LEMMA TunnelOk ==
  ASSUME IInv, Tunnel
  PROVE  IInv'
<1>1. asked' = asked /\ out' = out /\ via' = via /\ asked.kind # "request" /\ out = Nothing /\ via = FALSE
  BY DEF Tunnel, Fail, IInv, Tunnelled
<1>2. Address' = Address
  BY <1>1 DEF Address
<1>3. CASE Address = {}
  BY <1>1, <1>2, <1>3 DEF Tunnel, Fail, IInv, Tunnelled
<1>4. CASE Address # {}
  <2>1. pc' = "sent" /\ \E a \in Address : dial' = Display(a)
    BY <1>4 DEF Tunnel
  <2> QED
    BY <1>1, <1>2, <2>1 DEF IInv, Tunnelled
<1> QED
  BY <1>3, <1>4

LEMMA SendRequestOk ==
  ASSUME IInv, SendRequest
  PROVE  IInv'
<1>1. asked' = asked /\ up' = up /\ via' = via /\ asked.kind = "request" /\ out = Nothing /\ via = FALSE
  BY DEF SendRequest, Fail, IInv, Requested, Unread, Handled
<1>2. CASE Parsed(asked) = {}
  <2>1. Unread'
    BY <1>1, <1>2 DEF SendRequest, Fail, Unread
  <2> QED
    BY <1>1, <2>1 DEF IInv, Requested
<1>3. CASE Parsed(asked) # {}
  <2>1. PICK p \in Parsed(asked) :
          out' = [target |-> Absent, host |-> HostHeader(p.scheme, p.at), scheme |-> p.scheme,
                  authorization |-> Authorization(asked), te |-> Te(asked), proxy |-> {}]
    BY <1>3 DEF SendRequest
  <2>2. Carries(p)'
    BY <1>1, <2>1 DEF Carries
  <2>3. Handled'
    BY <1>1, <1>3 DEF SendRequest, Handled
  <2> QED
    BY <1>1, <2>2, <2>3 DEF IInv, Requested
<1> QED
  BY <1>2, <1>3

LEMMA ForwardOk ==
  ASSUME IInv, Forward
  PROVE  IInv'
<1>1. asked' = asked /\ up' = up /\ pc = "rewritten" /\ via' = TRUE
  BY DEF Forward
<1>2. asked.kind = "request" /\ via = FALSE
  BY <1>1 DEF IInv, Tunnelled, Requested, Unread, Handled
<1>3. PICK p \in Parsed(asked) : Carries(p)
  BY <1>1, <1>2 DEF IInv, Requested, Unread
<1>4. out' = [out EXCEPT !.target = out.host, !.proxy = IF up.auth THEN {"proxy-authorization"} ELSE {}]
  BY DEF Forward
<1>5. Carries(p)'
  BY <1>1, <1>2, <1>3, <1>4 DEF Carries
<1>6. out'.scheme = out.scheme
  BY <1>2, <1>3, <1>4 DEF Carries
<1>7. Handled'
  BY <1>1, <1>6 DEF Forward, Handled, Proxied
<1> QED
  BY <1>1, <1>2, <1>5, <1>7 DEF IInv, Requested

LEMMA ExchangeOk ==
  ASSUME IInv, Exchange
  PROVE  IInv'
<1>1. asked' = asked /\ up' = up /\ pc = "rewritten" /\ via' = via /\ out' = out
  BY DEF Exchange, Fail
<1>2. asked.kind = "request" /\ via = FALSE
  BY <1>1 DEF IInv, Tunnelled, Requested, Unread, Handled
<1>3. PICK p \in Parsed(asked) : Carries(p)
  BY <1>1, <1>2 DEF IInv, Requested, Unread
<1>4. Carries(p)'
  BY <1>1, <1>3 DEF Carries
<1>5. Server' = Server /\ Proxied' = Proxied /\ ~Proxied
  BY <1>1 DEF Server, Proxied, Exchange
<1>6. Handled'
  <2>1. CASE Server = {}
    BY <1>1, <1>2, <1>5, <2>1 DEF Exchange, Fail, Handled
  <2>2. CASE Server # {}
    <3>1. pc' = "sent" /\ \E a \in Server : dial' = Display(a)
      BY <2>2 DEF Exchange
    <3> QED
      BY <1>1, <1>2, <1>5, <3>1 DEF Handled
  <2> QED
    BY <2>1, <2>2
<1> QED
  BY <1>1, <1>2, <1>4, <1>6 DEF IInv, Requested

LEMMA StutterOk ==
  ASSUME IInv, UNCHANGED vars
  PROVE  IInv'
<1>1. asked' = asked /\ up' = up /\ pc' = pc /\ via' = via /\ out' = out /\ dial' = dial
  BY DEF vars
<1>2. Address' = Address /\ Server' = Server /\ Proxied' = Proxied
  BY <1>1 DEF Address, Server, Proxied
<1>3. ASSUME NEW p PROVE Carries(p)' <=> Carries(p)
  BY <1>1 DEF Carries
<1> QED
  BY <1>1, <1>2, <1>3 DEF IInv, Tunnelled, Requested, Unread, Handled

\* What the code keeps at every step between the inbound and the connection.
THEOREM RequestInvariant == Spec => []IInv
<1>1. IInv /\ [Next]_vars => IInv'
  BY TunnelOk, SendRequestOk, ForwardOk, ExchangeOk, StutterOk DEF Next
<1> QED
  BY <1>1, InitOk, PTL DEF Spec


----------------------------------------------------------------------------
(***************************************************************************)
(* A legal address keeps its meaning on every way through the program.     *)
(***************************************************************************)
Spelt(s, h, p) == s = h[1] \o p[1]

LEMMA LegalIs ==
  ASSUME NEW s, Meaning(s) # {}
  PROVE  \E h \in Hosts, p \in Suffixes : Spelt(s, h, p)
<1>1. PICK x \in Hosts \X Suffixes : x[1][1] \o x[2][1] = s
  BY DEF Meaning
<1>2. PICK h \in Hosts, p \in Suffixes : x = <<h, p>>
  BY <1>1
<1>3. x[1] = h /\ x[2] = p
  BY <1>2
<1> QED
  BY <1>1, <1>3 DEF Spelt

Filled(h, p, port) == [hostname |-> h[2], port |-> IF p[2] = NoPort THEN port ELSE p[2]]

LEMMA FilledPort ==
  ASSUME NEW h \in Hosts, NEW p \in Suffixes, NEW port \in PortNumbers
  PROVE  Filled(h, p, port).port \in PortNumbers
  BY SuffixPort DEF Filled

\* Printed with a port, it is read as before ...
LEMMA DisplayMeans ==
  ASSUME NEW h \in Hosts, NEW q \in PortNumbers
  PROVE  Meaning(Display([hostname |-> h[2], port |-> q])) = {[hostname |-> h[2], port |-> q]}
<1>1. PICK g \in Hosts, p \in Suffixes :
        /\ Display([hostname |-> h[2], port |-> q]) = g[1] \o p[1]
        /\ Meant(g, p) = [hostname |-> h[2], port |-> q]
  BY DisplayIs, Zenon
<1>2. Meaning(g[1] \o p[1]) = {Meant(g, p)}
  BY OneMeaning, Zenon
<1> QED
  BY <1>1, <1>2, Zenon

\* ... and so it is without the one that goes without saying.
LEMMA HeaderMeans ==
  ASSUME NEW h \in Hosts, NEW p \in Suffixes, NEW scheme \in {"http", "https"}
  PROVE  LET s == HostHeader(scheme, Meant(h, p))
         IN  /\ MeaningFor(s, DefaultPort(scheme)) = {Filled(h, p, DefaultPort(scheme))}
             /\ \A a \in ParseHostHeader(s) :
                  [a EXCEPT !.port = IF @ = NoPort THEN DefaultPort(scheme) ELSE @] =
                    Filled(h, p, DefaultPort(scheme))
             /\ ParseHostHeader(s) = {} => s = ToUrlStyle(V6)
<1> DEFINE s == HostHeader(scheme, Meant(h, p))
           d == DefaultPort(scheme)
<1>1. PICK g \in Hosts, q \in Suffixes : s = g[1] \o q[1] /\ Prints(g, h[2]) /\ Told(scheme, p, q)
  BY HeaderIs
<1>2. GoesWithoutSaying(scheme, p[2]) => p[2] = d
  BY DEF GoesWithoutSaying, DefaultPort
<1>3. Filled(g, q, d) = Filled(h, p, d)
  <2>1. g[2] = h[2]
    BY <1>1 DEF Prints
  <2>2. CASE q = <<<<>>, NoPort>> /\ (p[2] = NoPort \/ GoesWithoutSaying(scheme, p[2]))
    <3>1. q[2] = NoPort
      BY <2>2
    <3> HIDE DEF d
    <3> QED
      BY <1>2, <2>1, <2>2, <3>1 DEF Filled
  <2>3. CASE q[1] # <<>> /\ q[2] = p[2] /\ q[2] # NoPort
    BY <2>1, <2>3 DEF Filled
  <2> QED
    BY <1>1, <2>2, <2>3 DEF Told
<1> HIDE DEF s, d
<1>4. MeaningFor(s, d) = {Filled(h, p, d)}
  <2>1. MeaningFor(g[1] \o q[1], d) = {Filled(g, q, d)}
    BY MeaningForIs DEF Filled
  <2> QED
    BY <1>1, <1>3, <2>1
<1>5. Reads(g, q, s)
  BY <1>1, LegalRead
<1>6. ASSUME NEW a \in ParseHostHeader(s)
      PROVE  [a EXCEPT !.port = IF @ = NoPort THEN d ELSE @] = Filled(h, p, d)
  <2>1. a = Meant(g, q)
    BY <1>5 DEF Reads
  <2>2. [Meant(g, q) EXCEPT !.port = IF @ = NoPort THEN d ELSE @] = Filled(g, q, d)
    BY DEF Meant, Filled
  <2> QED
    BY <1>3, <2>1, <2>2
<1>7. ASSUME ParseHostHeader(s) = {} PROVE s = ToUrlStyle(V6)
  <2>1. q[2] = NoPort /\ (q[1] = <<>> => BracketedHost(g))
    BY <1>5, <1>7 DEF Reads
  <2>2. q = <<<<>>, NoPort>>
    BY <1>1, <2>1 DEF Told
  <2>3. q[1] = <<>>
    BY <2>2
  <2>4. g[1] = ToUrlStyle(V6)
    BY <1>1, <2>1, <2>3 DEF Prints
  <2>5. s = g[1]
    BY <1>1, <2>3, HostText, ConcatEmptySeq
  <2> QED
    BY <2>4, <2>5
<1> QED
  BY <1>4, <1>6, <1>7 DEF s, d

\* No text with an address in it is empty.
LEMMA AbsentIllegal == Meaning(Absent) = {}
<1> SUFFICES ASSUME Meaning(Absent) # {} PROVE FALSE
  OBVIOUS
<1>1. PICK h \in Hosts, p \in Suffixes : Absent = h[1] \o p[1]
  BY LegalIs DEF Spelt
<1>2. h[1] \in Seq(Glyphs) /\ p[1] \in Seq(Glyphs)
  BY HostText, SuffixText
<1>3. Len(h[1] \o p[1]) = Len(h[1]) + Len(p[1])
  BY <1>2, Joined
<1>4. Len(h[1]) \in Nat /\ Len(p[1]) \in Nat
  BY <1>2, LenProperties
<1>5. Len(Absent) = 0
  BY EmptySeq DEF Absent
<1>6. Len(h[1]) >= 1
  BY HostCases, HostBegins DEF Begins, BracketedHost
<1>7. Len(h[1]) + Len(p[1]) = 0
  BY <1>1, <1>3, <1>5
<1>8. PICK i \in Nat, j \in Nat : i = Len(h[1]) /\ j = Len(p[1])
  BY <1>4
<1>9. i >= 1 /\ i + j = 0
  BY <1>6, <1>7, <1>8
<1> QED
  BY ONLY <1>9


----------------------------------------------------------------------------
(***************************************************************************)
(* What the invariant says of the server that is reached.                  *)
(***************************************************************************)
Default(m) == SchemePort[m.scheme]

LEMMA DefaultIs ==
  ASSUME NEW m, m.scheme \in {"none", "http", "https"}
  PROVE  /\ Scheme(m) \in {"http", "https"}
         /\ DefaultPort(Scheme(m)) = Default(m) /\ SchemePort[Scheme(m)] = Default(m)
         /\ Default(m) \in PortNumbers /\ (Scheme(m) = "http" => Default(m) = 80)
  BY DEF Scheme, DefaultPort, SchemePort, Default, PortNumbers

\* The address a client asks for, if it is a legal one.
LEMMA RequestWants ==
  ASSUME asked \in LegalMessages, asked.kind = "request", Wanted # {}
  PROVE  /\ asked.scheme \in {"none", "http", "https"} /\ asked.name # Absent
         /\ Wanted = MeaningFor(asked.name, Default(asked))
         /\ \E h \in Hosts, p \in Suffixes : Spelt(asked.name, h, p)
<1>1. asked.scheme \in {"none", "http", "https", "ftp"}
  BY DEF LegalMessages, Messages
<1>2. asked.scheme # "ftp"
  BY DEF Wanted
<1>3. Wanted = MeaningFor(asked.name, Default(asked))
  BY <1>2 DEF Wanted, Default
<1>4. Meaning(asked.name) # {}
  BY <1>3 DEF MeaningFor
<1>5. asked.name # Absent
  BY <1>4, AbsentIllegal
<1> QED
  BY <1>1, <1>2, <1>3, <1>4, <1>5, LegalIs

LEMMA ConnectWants ==
  ASSUME asked.kind = "connect", Wanted # {}
  PROVE  \E h \in Hosts, p \in Suffixes :
           Spelt(asked.name, h, p) /\ p[2] \in PortNumbers /\ Wanted = {Meant(h, p)}
<1>1. Wanted = {m \in Meaning(asked.name) : m.port # NoPort}
  BY DEF Wanted
<1>2. PICK m \in Meaning(asked.name) : m.port # NoPort
  BY <1>1
<1>3. PICK h \in Hosts, p \in Suffixes : Spelt(asked.name, h, p)
  BY <1>2, LegalIs
<1>4. Meaning(asked.name) = {Meant(h, p)}
  BY <1>3, OneMeaning DEF Spelt
<1>5. m = Meant(h, p) /\ Wanted = {Meant(h, p)}
  BY <1>1, <1>2, <1>4
<1>6. p[2] # NoPort
  BY <1>2, <1>5 DEF Meant
<1> QED
  BY <1>3, <1>5, <1>6, SuffixPort

\* A tunnel is made to the address asked for, ...
LEMMA TunnelRight ==
  ASSUME asked \in Tunnels, NEW a \in Address, dial = Display(a)
  PROVE  /\ ReadAs(a) /\ a.port \in PortNumbers
         /\ Wanted # {} => Meaning(dial) = Wanted
<1>1. CASE asked.kind = "connect"
  <2>1. asked.name \in Names /\ a \in FromStr(asked.name)
    BY <1>1 DEF Tunnels, Address
  <2>2. ReadAs(a) /\ a.port \in PortNumbers
    BY <2>1, NamesAre, FromStrTyped
  <2>3. ASSUME Wanted # {} PROVE Meaning(dial) = Wanted
    <3>1. PICK h \in Hosts, p \in Suffixes :
            Spelt(asked.name, h, p) /\ p[2] \in PortNumbers /\ Wanted = {Meant(h, p)}
      BY <1>1, <2>3, ConnectWants
    <3>2. a = Meant(h, p)
      BY <2>1, <3>1, LegalRead DEF Reads, Spelt
    <3> QED
      BY <3>1, <3>2, DisplayMeans DEF Meant
  <2> QED
    BY <2>2, <2>3
<1>2. CASE asked.kind = "tproxy"
  <2>1. asked.name \in {V4Text, V6Text, MappedText} /\ asked.port \in {80, 8080}
    BY <1>2 DEF Tunnels
  <2>2. a = [hostname |-> HostName(asked.name), port |-> asked.port]
    BY <1>2 DEF Address, FromStd
  <2>3. HostName(asked.name) = IF asked.name = V6Text THEN V6 ELSE V4
    BY <2>1, TextsDiffer, HostsRead
  <2>4. asked.port \in PortNumbers
    BY <2>1 DEF PortNumbers
  <2>5. Wanted = {a}
    BY <1>2, <2>2, <2>3 DEF Wanted
  <2>6. \E h \in Hosts : h[2] = HostName(asked.name)
    <3>1. <<V4Text, V4>> \in Hosts /\ <<Bracketed(V6Text), V6>> \in Hosts
      BY DEF Hosts, Bracketed
    <3>2. <<V4Text, V4>>[2] = V4 /\ <<Bracketed(V6Text), V6>>[2] = V6
      OBVIOUS
    <3> QED
      BY <2>3, <3>1, <3>2
  <2>7. Meaning(dial) = {a}
    BY <2>2, <2>4, <2>6, DisplayMeans
  <2>8. ReadAs(a)
    <3>1. asked.name \in Seq(Glyphs) /\ Free(asked.name, "@")
      BY <2>1, TextsFree
    <3>2. HostName(asked.name) \in HostNames /\ Free(HostName(asked.name).text, "@")
      BY <3>1, HostIsFree
    <3>3. a.hostname = HostName(asked.name) /\ a.port = asked.port
      BY <2>2
    <3> QED
      BY <2>2, <3>2, <3>3 DEF ReadAs
  <2>9. a.port = asked.port
    BY <2>2
  <2> QED
    BY <2>4, <2>5, <2>7, <2>8, <2>9
<1> QED
  BY <1>1, <1>2 DEF Tunnels


\* ... and a request carries a header that can be read, ...
LEMMA CarriedTyped ==
  ASSUME asked \in LegalMessages, NEW p \in Parsed(asked), Carries(p)
  PROVE  /\ asked.name \in Names /\ asked.scheme \in {"none", "http", "https"}
         /\ p.at \in ParseHostHeader(asked.name)
         /\ out.scheme = Scheme(asked) /\ out.host = HostHeader(Scheme(asked), p.at)
         /\ out.host \in Seq(Glyphs) /\ Free(out.host, "@")
<1>1. p = [scheme |-> Scheme(asked), at |-> p.at] /\ p.at \in ParseHostHeader(asked.name)
  BY ParsedIs
<1>2. asked.name \in Names /\ asked.scheme \in {"none", "http", "https"}
  BY ParsedIs
<1>3. p.scheme = Scheme(asked)
  BY <1>1
<1>4. out.scheme = Scheme(asked) /\ out.host = HostHeader(Scheme(asked), p.at)
  BY <1>3 DEF Carries
<1>5. ReadAs(p.at) /\ p.at.port \in PortNumbers \cup {NoPort}
  BY <1>1, <1>2, NamesAre, HeaderTyped
<1>6. out.host \in Seq(Glyphs) /\ Free(out.host, "@")
  BY <1>4, <1>5, HeaderIsFree
<1> QED
  BY <1>1, <1>2, <1>4, <1>6

LEMMA ServerTyped ==
  ASSUME asked \in LegalMessages, NEW p \in Parsed(asked), Carries(p), NEW a \in Server
  PROVE  ReadAs(a) /\ a.port \in PortNumbers
<1>1. out.host \in Seq(Glyphs) /\ Free(out.host, "@") /\ out.scheme = Scheme(asked)
      /\ asked.scheme \in {"none", "http", "https"}
  BY CarriedTyped
<1>2. DefaultPort(out.scheme) \in PortNumbers
  BY <1>1, DefaultIs
<1>3. PICK b \in ParseHostHeader(out.host) :
        a = [b EXCEPT !.port = IF @ = NoPort THEN DefaultPort(out.scheme) ELSE @]
  BY DEF Server
<1>4. ReadAs(b) /\ b.port \in PortNumbers \cup {NoPort}
  BY <1>1, HeaderTyped
<1> DEFINE q == IF b.port = NoPort THEN DefaultPort(out.scheme) ELSE b.port
<1>5. a = [hostname |-> b.hostname, port |-> q]
  BY <1>3, <1>4 DEF ReadAs
<1>6. q \in PortNumbers
  BY <1>2, <1>4
<1> HIDE DEF q
<1>7. a.hostname = b.hostname /\ a.port = q
  BY <1>5
<1> QED
  BY <1>4, <1>5, <1>6, <1>7 DEF ReadAs

\* ... to the server the client means.
LEMMA CarriedMeans ==
  ASSUME asked \in LegalMessages, asked.kind = "request", NEW p \in Parsed(asked), Carries(p), Wanted # {}
  PROVE  /\ MeaningFor(out.host, Default(asked)) = Wanted
         /\ \A a \in Server : Meaning(Display(a)) = Wanted
         /\ Server = {} => out.host = ToUrlStyle(V6)
<1>1. /\ p.at \in ParseHostHeader(asked.name)
      /\ out.scheme = Scheme(asked) /\ out.host = HostHeader(Scheme(asked), p.at)
      /\ asked.scheme \in {"none", "http", "https"}
  BY CarriedTyped
<1>2. PICK h \in Hosts, q \in Suffixes : Spelt(asked.name, h, q)
  BY RequestWants
<1>3. p.at = Meant(h, q)
  BY <1>1, <1>2, LegalRead DEF Reads, Spelt
<1> DEFINE d == DefaultPort(out.scheme)
<1>4. d = Default(asked) /\ d \in PortNumbers /\ out.scheme \in {"http", "https"}
  BY <1>1, DefaultIs
<1>5. Wanted = {Filled(h, q, d)}
  <2>1. Wanted = MeaningFor(asked.name, d)
    BY <1>4, RequestWants
  <2> HIDE DEF d
  <2> QED
    BY <1>2, <2>1, MeaningForIs DEF Spelt, Filled
<1>6. /\ MeaningFor(out.host, d) = {Filled(h, q, d)}
      /\ \A a \in ParseHostHeader(out.host) :
           [a EXCEPT !.port = IF @ = NoPort THEN d ELSE @] = Filled(h, q, d)
      /\ ParseHostHeader(out.host) = {} => out.host = ToUrlStyle(V6)
  BY <1>1, <1>3, <1>4, HeaderMeans
<1>7. \A a \in Server : a = Filled(h, q, d)
  BY <1>6 DEF Server
<1>8. Meaning(Display(Filled(h, q, d))) = {Filled(h, q, d)}
  <2>1. Filled(h, q, d).port \in PortNumbers
    BY <1>4, FilledPort
  <2> HIDE DEF d
  <2>2. Filled(h, q, d) = [hostname |-> h[2], port |-> Filled(h, q, d).port]
    BY DEF Filled
  <2> QED
    BY <2>1, <2>2, DisplayMeans
<1>9. Server = {} => ParseHostHeader(out.host) = {}
  BY DEF Server
<1> HIDE DEF d
<1> QED
  BY <1>4, <1>5, <1>6, <1>7, <1>8, <1>9

----------------------------------------------------------------------------
\* Whatever texts clients write: an address that is legal is the one that is
\* connected to, or that the upstream proxy and the host header are given.
THEOREM ServerIsRight == Spec => []RightServer
<1>1. IInv => RightServer
  <2> SUFFICES ASSUME IInv PROVE RightServer
    OBVIOUS
  <2>1. CASE asked.kind # "request"
    <3>1. Tunnelled /\ asked \in Tunnels
      BY <2>1 DEF IInv, LegalMessages, Messages
    <3>2. out.te = "none" /\ out.scheme = "none" /\ via = FALSE /\ pc # "rewritten"
          /\ pc \in {"arrived", "sent", "failed"}
      BY <3>1 DEF Tunnelled, Nothing
    <3>3. ASSUME pc = "sent"
          PROVE  (\E a \in FromStr(dial) : a.port # NoPort) /\ (Wanted # {} => Meaning(dial) = Wanted)
      <4>1. PICK a \in Address : dial = Display(a)
        BY <3>1, <3>3 DEF Tunnelled
      <4> QED
        BY <3>1, <4>1, TunnelRight, DisplayRead
    <3> QED
      BY <2>1, <3>2, <3>3 DEF RightServer, TypeOK
  <2>2. CASE asked.kind = "request" /\ Unread
    <3>1. out.te = "none" /\ out.scheme = "none" /\ pc \in {"arrived", "failed"}
      BY <2>2 DEF Unread, Nothing
    <3> QED
      BY <3>1 DEF RightServer, TypeOK
  <2>3. CASE asked.kind = "request" /\ Handled /\ \E p \in Parsed(asked) : Carries(p)
    <3>1. asked \in LegalMessages
      BY <2>3 DEF IInv, Tunnels
    <3>2. PICK p \in Parsed(asked) : Carries(p)
      BY <2>3
    <3>3. asked.scheme \in {"none", "http", "https"} /\ out.scheme = Scheme(asked)
      BY <3>1, <3>2, CarriedTyped
    <3>4. /\ Scheme(asked) \in {"http", "https"}
          /\ SchemePort[Scheme(asked)] = Default(asked)
          /\ Scheme(asked) = "http" => Default(asked) = 80
      BY <3>3, DefaultIs
    <3>5. out.te = Te(asked) /\ Te(asked) \in {"none", "trailers"}
      BY <3>2 DEF Carries, Te
    <3>6. pc \in {"rewritten", "sent", "failed"}
      BY <2>3 DEF Handled
    <3>7. ASSUME pc = "sent", via # TRUE
          PROVE  (\E a \in FromStr(dial) : a.port # NoPort) /\ (Wanted # {} => Meaning(dial) = Wanted)
      <4>1. PICK a \in Server : dial = Display(a)
        BY <2>3, <3>7 DEF Handled
      <4>2. \E b \in FromStr(dial) : b.port # NoPort
        BY <3>1, <3>2, <4>1, ServerTyped, DisplayRead
      <4> QED
        BY <2>3, <3>1, <3>2, <4>1, <4>2, CarriedMeans
    <3>8. ASSUME Wanted # {} PROVE MeaningFor(out.host, Default(asked)) = Wanted
      BY <2>3, <3>1, <3>2, <3>8, CarriedMeans
    <3>9. ASSUME pc = "sent", via = TRUE
          PROVE  out.target = out.host /\ Default(asked) = 80
      <4>1. out.scheme = "http"
        BY <2>3, <3>9 DEF Handled, Proxied
      <4> QED
        BY <3>2, <3>3, <3>4, <3>9, <4>1 DEF Carries
    <3>10. via \in BOOLEAN
      BY <2>3 DEF Handled
    <3>11. TypeOK
      BY <3>3, <3>4, <3>5, <3>6, <3>7, <3>10 DEF TypeOK
    <3> QED
      BY <3>3, <3>4, <3>7, <3>8, <3>9, <3>10, <3>11 DEF RightServer
  <2> QED
    BY <2>1, <2>2, <2>3 DEF IInv, Requested
<1> QED
  BY <1>1, RequestInvariant, PTL

\* Whatever userinfo stands in a URI and whatever headers come with it.
THEOREM SecretsStay == Spec => []SecretsKept
<1>1. IInv => SecretsKept
  <2> SUFFICES ASSUME IInv, pc \in {"rewritten", "sent"}, asked.kind = "request" PROVE SecretsKept
    BY DEF SecretsKept
  <2>1. asked \in LegalMessages /\ Handled
    BY DEF IInv, Tunnels, Requested, Unread
  <2>2. PICK p \in Parsed(asked) : Carries(p)
    BY DEF IInv, Requested, Unread
  <2>3. out.proxy = IF via /\ up.auth THEN {"proxy-authorization"} ELSE {}
    BY <2>2 DEF Carries
  <2>4. out.target \in Seq(Glyphs) /\ Free(out.target, "@")
    <3>1. out.host \in Seq(Glyphs) /\ Free(out.host, "@")
      BY <2>1, <2>2, CarriedTyped
    <3>2. Absent \in Seq(Glyphs) /\ Len(Absent) = 0
      BY EmptySeq DEF Absent
    <3>3. Free(Absent, "@")
      BY <3>2 DEF Free
    <3>4. out.target = out.host \/ out.target = Absent
      BY <2>2 DEF Carries
    <3> QED
      BY <3>1, <3>2, <3>3, <3>4
  <2>5. "@" \notin {out.target[i] : i \in DOMAIN out.target}
    <3>1. DOMAIN out.target = 1 .. Len(out.target)
      BY <2>4, LenProperties
    <3> QED
      BY <2>4, <3>1 DEF Free
  <2>6. out.authorization = Authorization(asked)
    BY <2>2 DEF Carries
  <2>7. Own # Absent
    <3>1. Len(Own) = 1
      BY DEF Own
    <3>2. Len(Absent) = 0
      BY EmptySeq DEF Absent
    <3> QED
      BY <3>1, <3>2
  <2>8. AuthOf(Authority(asked)) = asked.userinfo
    BY <2>1, AuthorityIs
  <2>9. asked.userinfo = {} => Authorization(asked) = asked.authorization
    BY <2>8 DEF Authorization
  <2>10. ASSUME asked.authorization = Absent, NEW u \in asked.userinfo
         PROVE  Authorization(asked) = <<"Basic">> \o ClearText(u)
    <3>1. u \in Userinfos /\ asked.userinfo = {u}
      BY <2>1, <2>10 DEF LegalMessages, Messages
    <3>2. Authorization(asked) = Basic(CHOOSE c \in Credentials(u) : TRUE)
      BY <2>8, <2>10, <3>1 DEF Authorization
    <3>3. Credentials(u) # {}
      BY <2>1, <2>2, <2>10, ParsedIs
    <3>4. (CHOOSE c \in Credentials(u) : TRUE) \in Credentials(u)
      BY <3>3
    <3> QED
      BY <3>1, <3>2, <3>4, UserinfosAre, CredentialsAre
  <2> QED
    BY <2>3, <2>5, <2>6, <2>7, <2>9, <2>10, Zenon DEF SecretsKept, Authorization
<1> QED
  BY <1>1, RequestInvariant, PTL

\* Nothing but the address's colons and undecodable userinfo makes a request with
\* a legal address fail.
THEOREM FailsOnlyThere == Spec => []FailsOnlyIf
<1>1. IInv => FailsOnlyIf
  <2> SUFFICES ASSUME IInv, pc = "failed", Wanted # {} PROVE NoPortBehindColon \/ NotUtf8
    BY DEF FailsOnlyIf
  <2>1. asked.kind = "request"
    <3> SUFFICES ASSUME asked.kind # "request" PROVE FALSE
      OBVIOUS
    <3>1. asked \in Tunnels /\ Address = {}
      BY DEF IInv, LegalMessages, Messages, Tunnelled
    <3>2. asked.kind = "connect" /\ FromStr(asked.name) = {}
      BY <3>1 DEF Tunnels, Address
    <3>3. PICK h \in Hosts, p \in Suffixes : Spelt(asked.name, h, p) /\ p[2] \in PortNumbers
      BY <3>2, ConnectWants
    <3>4. NoPort \notin PortNumbers
      BY DEF NoPort, PortNumbers
    <3> QED
      BY <3>2, <3>3, <3>4, LegalRead DEF Reads, Spelt
  <2>2. asked \in LegalMessages
    BY <2>1 DEF IInv, Tunnels
  <2>3. CASE Parsed(asked) = {}
    <3>0. CASE \E u \in asked.userinfo : Credentials(u) = {}
      <4>1. PICK u \in asked.userinfo : Credentials(u) = {}
        BY <3>0
      <4>2. u \in Userinfos
        BY <2>2, <4>1 DEF LegalMessages, Messages
      <4>3. Places(u, "%FF") # {}
        BY <4>1, <4>2, UserinfosAre, CredentialsAre
      <4> QED
        BY <2>1, <4>1, <4>3 DEF NotUtf8
    <3> SUFFICES ASSUME \A u \in asked.userinfo : Credentials(u) # {} PROVE NoPortBehindColon
      BY <3>0
    <3>1. ParseHostHeader(asked.name) = {}
      BY <2>1, <2>2, <2>3, RequestWants, ParsedIs
    <3>2. PICK h \in Hosts, p \in Suffixes : Spelt(asked.name, h, p)
      BY <2>1, <2>2, RequestWants
    <3>3. p[2] = NoPort /\ Places(asked.name, ":") # {}
      BY <3>1, <3>2, LegalRead DEF Reads, Spelt
    <3>4. Meaning(asked.name) = {Meant(h, p)} /\ Meant(h, p).port = p[2]
      BY <3>2, OneMeaning DEF Spelt, Meant
    <3> QED
      BY <3>3, <3>4 DEF NoPortBehindColon
  <2>4. CASE Parsed(asked) # {}
    <3>1. ~Proxied /\ Server = {}
      BY <2>1, <2>4 DEF IInv, Requested, Unread, Handled
    <3>2. PICK p \in Parsed(asked) : Carries(p)
      BY <2>1, <2>4 DEF IInv, Requested, Unread
    <3>3. out.host = ToUrlStyle(V6)
      BY <2>1, <2>2, <3>1, <3>2, CarriedMeans
    <3> QED
      BY <3>1, <3>3 DEF NoPortBehindColon, Proxied
  <2> QED
    BY <2>3, <2>4
<1> QED
  BY <1>1, RequestInvariant, PTL
=============================================================================
