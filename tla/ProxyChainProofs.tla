-------------------------- MODULE ProxyChainProofs --------------------------
(***************************************************************************)
(* Proofs that, for chains of any number of proxies with any number of TLS *)
(* layers each, the hops of a connection are passed in order, and that a   *)
(* request goes the whole way before anything is said to its server.       *)
(*                                                                         *)
(* The inductive invariant IInv describes each job and each walk by where  *)
(* it stands in its stack.  A walk's route is the piece of the stack it    *)
(* goes through; Laid says that the piece lies in the stack as built.      *)
(* Going down, the frames held are those of the layers already passed;     *)
(* coming up, the trace is what the layers below have done, in their       *)
(* order.  A job and the walks it waits for are tied by WaitedFor, and     *)
(* DohLater says that no DoH request precedes the race it serves.          *)
(*                                                                         *)
(* Three tools come first: induction over the numbers, by way of the       *)
(* well-foundedness of their order (LeastNumber, CountingUp); the          *)
(* sequences that FlattenSeq builds (FlattenExists, Flattened); and what   *)
(* concatenation does to a sequence that lies inside another.              *)
(***************************************************************************)
EXTENDS ProxyChain, SequenceTheorems, WellFoundedInduction, TLAPS

----------------------------------------------------------------------------
\* Induction, from the well-foundedness of the order of numbers.
LEMMA LeastNumber ==
  ASSUME NEW T \in SUBSET Nat, T # {}
  PROVE  \E n \in T : \A m \in T : n <= m
<1>1. PICK n \in T : \A m \in T : ~ (<<m, n>> \in OpToRel(<, Nat))
  BY NatLessThanWellFounded, WFMin, Zenon
<1>2. ASSUME NEW m \in T PROVE n <= m
  <2>1. <<m, n>> \in OpToRel(<, Nat) <=> m < n
    BY DEF OpToRel
  <2>2. ~(m < n)
    BY <1>1, <2>1, Zenon
  <2> QED
    BY <2>2
<1> QED
  BY <1>2, Zenon

LEMMA CountingUp ==
  ASSUME NEW n \in Nat, NEW G, 0 \in G, \A k \in 0 .. n - 1 : k \in G => k + 1 \in G
  PROVE  \A k \in 0 .. n : k \in G
<1> DEFINE T == {k \in 0 .. n : k \notin G}
<1>1. SUFFICES ASSUME T # {} PROVE FALSE
  OBVIOUS
<1>2. T \in SUBSET Nat
  OBVIOUS
<1>3. PICK k \in T : \A m \in T : k <= m
  BY <1>1, <1>2, LeastNumber
<1>4. k # 0 /\ k \in 1 .. n /\ k \notin G
  OBVIOUS
<1>5. k - 1 \in 0 .. n - 1 /\ k - 1 \notin T
  BY <1>3, <1>4
<1>6. k - 1 \in G
  BY <1>5
<1>7. (k - 1) + 1 = k
  BY <1>4
<1> QED
  BY <1>4, <1>5, <1>6, <1>7

\* FlattenSeq concatenates from the left: f[i] is what the first i make.
FlattensTo(seqs, f) ==
  /\ f[0] = <<>>
  /\ \A i \in 1 .. Len(seqs) : f[i] = f[i - 1] \o seqs[i]

\* The equation of the function inside FlattenSeq, for the first n.
Concatenates(seqs, n, g) ==
  g = [i \in 1 .. n |-> IF i = 1 THEN seqs[i] ELSE g[i - 1] \o seqs[i]]

LEMMA ConcatenatesAt ==
  ASSUME NEW seqs, NEW n \in Nat, NEW g, Concatenates(seqs, n, g), NEW i \in 1 .. n
  PROVE  g[i] = IF i = 1 THEN seqs[i] ELSE g[i - 1] \o seqs[i]
<1> DEFINE h == [k \in 1 .. n |-> IF k = 1 THEN seqs[k] ELSE g[k - 1] \o seqs[k]]
<1>1. g = h
  BY Zenon DEF Concatenates
<1>2. h[i] = IF i = 1 THEN seqs[i] ELSE g[i - 1] \o seqs[i]
  OBVIOUS
<1> HIDE DEF h
<1> QED
  BY <1>1, <1>2, Zenon

LEMMA FlattenExists ==
  ASSUME NEW seqs, NEW n \in Nat
  PROVE  \E g : Concatenates(seqs, n, g)
<1> DEFINE G == {k \in 0 .. n : \E g : Concatenates(seqs, k, g)}
<1>1. 0 \in G
  <2> DEFINE g == [i \in 1 .. 0 |-> <<>>]
  <2>1. Concatenates(seqs, 0, g)
    BY DEF Concatenates
  <2>2. 0 \in 0 .. n
    OBVIOUS
  <2> HIDE DEF g
  <2> QED
    BY <2>1, <2>2, Zenon
<1>2. ASSUME NEW k \in 0 .. n - 1, k \in G PROVE k + 1 \in G
  <2>1. PICK g : Concatenates(seqs, k, g)
    BY <1>2, Zenon
  <2> DEFINE h == [i \in 1 .. k + 1 |-> IF i <= k THEN g[i] ELSE IF i = 1 THEN seqs[i] ELSE g[i - 1] \o seqs[i]]
  <2>2. ASSUME NEW i \in 1 .. k + 1
        PROVE  h[i] = IF i = 1 THEN seqs[i] ELSE h[i - 1] \o seqs[i]
    <3>1. i # 1 => i - 1 \in 1 .. k /\ h[i - 1] = g[i - 1]
      OBVIOUS
    <3>2. i <= k => g[i] = IF i = 1 THEN seqs[i] ELSE g[i - 1] \o seqs[i]
      BY <2>1, ConcatenatesAt
    <3>3. h[i] = IF i <= k THEN g[i] ELSE IF i = 1 THEN seqs[i] ELSE g[i - 1] \o seqs[i]
      OBVIOUS
    <3> HIDE DEF h
    <3> QED
      BY <3>1, <3>2, <3>3
  <2>3. Concatenates(seqs, k + 1, h)
    <3>1. h = [i \in 1 .. k + 1 |-> h[i]]
      OBVIOUS
    <3> HIDE DEF h
    <3> QED
      BY <2>2, <3>1 DEF Concatenates
  <2>4. k + 1 \in 0 .. n
    OBVIOUS
  <2> HIDE DEF h
  <2> QED
    BY <2>3, <2>4, Zenon
<1>3. \A k \in 0 .. n : k \in G
  <2> HIDE DEF G
  <2> QED
    BY <1>1, <1>2, CountingUp
<1>4. n \in G
  BY <1>3
<1> QED
  BY <1>4, Zenon

LEMMA Flattened ==
  ASSUME NEW S, NEW seqs \in Seq(Seq(S))
  PROVE  \E f \in [0 .. Len(seqs) -> Seq(S)] :
           FlattensTo(seqs, f) /\ FlattenSeq(seqs) = f[Len(seqs)]
<1> DEFINE n == Len(seqs)
           flat == CHOOSE g : Concatenates(seqs, n, g)
           f == [i \in 0 .. n |-> IF i = 0 THEN <<>> ELSE flat[i]]
           G == {k \in 0 .. n : f[k] \in Seq(S) /\ (k # 0 => f[k] = f[k - 1] \o seqs[k])}
<1>0. n \in Nat
  OBVIOUS
<1>1. Concatenates(seqs, n, flat)
  <2>1. \E g : Concatenates(seqs, n, g)
    BY <1>0, FlattenExists
  <2> QED
    BY <2>1, Zenon
<1>2. FlattenSeq(seqs) = IF Len(seqs) = 0 THEN seqs ELSE flat[Len(seqs)]
  BY DEF FlattenSeq, Concatenates
<1> HIDE DEF flat
<1>3. \A k \in 1 .. n : seqs[k] \in Seq(S)
  OBVIOUS
<1>4. \A k \in 1 .. n : f[k] = IF k = 1 THEN seqs[k] ELSE f[k - 1] \o seqs[k]
  <2> SUFFICES ASSUME NEW k \in 1 .. n PROVE f[k] = IF k = 1 THEN seqs[k] ELSE f[k - 1] \o seqs[k]
    OBVIOUS
  <2>1. f[k] = flat[k] /\ (k # 1 => f[k - 1] = flat[k - 1])
    OBVIOUS
  <2>2. flat[k] = IF k = 1 THEN seqs[k] ELSE flat[k - 1] \o seqs[k]
    <3> HIDE DEF f, G, n
    <3> QED
      BY <1>0, <1>1, ConcatenatesAt
  <2> HIDE DEF f
  <2> QED
    BY <2>1, <2>2
<1>5. f[0] = <<>>
  OBVIOUS
<1>6. DOMAIN f = 0 .. n /\ f = [k \in 0 .. n |-> f[k]]
  OBVIOUS
<1>7. n # 0 => f[n] = flat[n]
  BY <1>0
<1> HIDE DEF f
<1>8. 0 \in G
  <2>1. 0 \in 0 .. n /\ <<>> \in Seq(S)
    BY <1>0
  <2> QED
    BY <1>5, <2>1
<1>9. ASSUME NEW k \in 0 .. n - 1, k \in G PROVE k + 1 \in G
  <2>1. k + 1 \in 1 .. n /\ (k + 1) - 1 = k /\ (k + 1 = 1 <=> k = 0)
    BY <1>0
  <2>2. f[k + 1] = IF k + 1 = 1 THEN seqs[k + 1] ELSE f[(k + 1) - 1] \o seqs[k + 1]
    BY <1>4, <2>1
  <2>3. f[k] \in Seq(S) /\ seqs[k + 1] \in Seq(S)
    BY <1>3, <1>9, <2>1
  <2>4. f[k] \o seqs[k + 1] \in Seq(S)
    BY <2>3, ConcatProperties
  <2>5. <<>> \o seqs[k + 1] = seqs[k + 1]
    BY <2>3, ConcatEmptySeq
  <2>6. f[k + 1] = f[k] \o seqs[k + 1]
    <3>1. CASE k = 0
      BY <1>5, <2>1, <2>2, <2>5, <3>1
    <3>2. CASE k # 0
      BY <2>1, <2>2, <3>2
    <3> QED
      BY <3>1, <3>2
  <2>7. k + 1 \in 0 .. n
    BY <2>1
  <2> QED
    BY <2>1, <2>4, <2>6, <2>7
<1>10. \A k \in 0 .. n : k \in G
  <2> HIDE DEF G
  <2> QED
    BY <1>0, <1>8, <1>9, CountingUp
<1>11. f \in [0 .. n -> Seq(S)]
  BY <1>6, <1>10
<1>12. FlattensTo(seqs, f)
  <2>1. \A k \in 1 .. n : k \in 0 .. n /\ k # 0
    BY <1>0
  <2>2. \A k \in 1 .. n : f[k] = f[k - 1] \o seqs[k]
    BY <1>10, <2>1
  <2> QED
    BY <1>5, <2>2 DEF FlattensTo
<1>13. FlattenSeq(seqs) = f[n]
  <2>1. CASE n = 0
    <3>1. seqs = <<>>
      BY <2>1
    <3> QED
      BY <1>2, <1>5, <2>1, <3>1
  <2>2. CASE n # 0
    BY <1>2, <1>7, <2>2
  <2> QED
    BY <2>1, <2>2
<1> QED
  BY <1>11, <1>12, <1>13
----------------------------------------------------------------------------
(***************************************************************************)
(* A piece of a stack and a piece of a route are aligned if they have the  *)
(* same length and each element of the one, asked for the address in the   *)
(* other, does what stands there and asks the element below for the        *)
(* address that stands before.                                             *)
(***************************************************************************)
Kinds == {"http", "socks", "tls", "fragment"}
Elements == [kind : {"raw"} \cup Kinds, at : Nat]

Addresses ==
  ({"proxy"} \X (1 .. MaxProxies)) \cup {Target, DohServer, FakeHost} \cup {Address(f) : f \in Families}

FrameAt(s, r, q) == [element |-> s[q], addr |-> r[q].addr]

Fits(s, r, q) == s[q].kind \in Kinds /\ r[q] = Deed(FrameAt(s, r, q))
Meets(s, r, q) == AskedBelow(FrameAt(s, r, q)) = r[q - 1].addr

Ends(s, r, below, above) ==
  IF Len(s) = 0 THEN below = above
  ELSE AskedBelow(FrameAt(s, r, 1)) = below /\ r[Len(s)].addr = above

Pieces(s, r) == s \in Seq(Elements) /\ r \in Seq(Deeds) /\ Len(s) = Len(r)

Aligned(s, r, below, above) ==
  /\ Pieces(s, r)
  /\ \A q \in 1 .. Len(s) : Fits(s, r, q)
  /\ \A q \in 2 .. Len(s) : Meets(s, r, q)
  /\ Ends(s, r, below, above)

LEMMA AlignedConcat ==
  ASSUME NEW s, NEW r, NEW t, NEW u, NEW a, NEW b, NEW c,
         Aligned(s, r, a, b), Aligned(t, u, b, c)
  PROVE  Aligned(s \o t, r \o u, a, c)
<1>1. Pieces(s, r) /\ Pieces(t, u)
  BY DEF Aligned
<1> DEFINE n == Len(s)
           m == Len(t)
           st == s \o t
           ru == r \o u
<1>2. n \in Nat /\ m \in Nat /\ Len(r) = n /\ Len(u) = m
  BY <1>1 DEF Pieces
<1>3. /\ st \in Seq(Elements) /\ Len(st) = n + m
      /\ \A i \in 1 .. n + m : st[i] = IF i <= n THEN s[i] ELSE t[i - n]
  BY <1>1, ConcatProperties DEF Pieces
<1>4. /\ ru \in Seq(Deeds) /\ Len(ru) = n + m
      /\ \A i \in 1 .. n + m : ru[i] = IF i <= n THEN r[i] ELSE u[i - n]
  BY <1>1, <1>2, ConcatProperties DEF Pieces
<1>5. Pieces(st, ru)
  BY <1>3, <1>4 DEF Pieces
<1> HIDE DEF n, m, st, ru
<1>6. \A i \in 1 .. n : st[i] = s[i] /\ ru[i] = r[i]
  BY <1>2, <1>3, <1>4
<1>7. \A i \in 1 .. m : st[n + i] = t[i] /\ ru[n + i] = u[i]
  <2> SUFFICES ASSUME NEW i \in 1 .. m PROVE st[n + i] = t[i] /\ ru[n + i] = u[i]
    OBVIOUS
  <2>1. n + i \in 1 .. n + m /\ ~(n + i <= n) /\ (n + i) - n = i
    BY <1>2
  <2> QED
    BY <1>3, <1>4, <2>1
<1>8. ASSUME NEW q \in 1 .. n + m PROVE Fits(st, ru, q)
  <2>1. CASE q <= n
    <3>1. q \in 1 .. n
      BY <1>2, <2>1
    <3>2. Fits(s, r, q)
      BY <3>1 DEF Aligned, n
    <3> QED
      BY <1>6, <3>1, <3>2 DEF Fits, FrameAt
  <2>2. CASE ~(q <= n)
    <3>1. PICK i \in 1 .. m : q = n + i
      <4>1. q - n \in 1 .. m /\ q = n + (q - n)
        BY <1>2, <2>2
      <4> QED
        BY <4>1
    <3>2. Fits(t, u, i)
      BY <3>1 DEF Aligned, m
    <3> QED
      BY <1>7, <3>1, <3>2 DEF Fits, FrameAt
  <2> QED
    BY <2>1, <2>2
<1>9. Ends(s, r, a, b) /\ Ends(t, u, b, c)
  BY DEF Aligned
<1>10. ASSUME NEW q \in 2 .. n + m PROVE Meets(st, ru, q)
  <2>1. CASE q <= n
    <3>1. q \in 2 .. n /\ q \in 1 .. n /\ q - 1 \in 1 .. n
      BY <1>2, <2>1
    <3>2. Meets(s, r, q)
      BY <3>1 DEF Aligned, n
    <3> QED
      BY <1>6, <3>1, <3>2 DEF Meets, FrameAt
  <2>2. CASE q = n + 1
    <3>1. n \in 1 .. n /\ 1 \in 1 .. m /\ q - 1 = n /\ n # 0 /\ m # 0
      BY <1>2, <2>2
    <3>2. r[n].addr = b
      BY <1>9, <3>1 DEF Ends, n
    <3>3. AskedBelow(FrameAt(t, u, 1)) = b
      BY <1>9, <3>1 DEF Ends, m
    <3>4. FrameAt(st, ru, q) = FrameAt(t, u, 1)
      BY <1>7, <2>2, <3>1 DEF FrameAt
    <3>5. ru[q - 1].addr = b
      BY <1>6, <3>1, <3>2
    <3> QED
      BY <3>3, <3>4, <3>5 DEF Meets
  <2>3. CASE q > n + 1
    <3>1. PICK i \in 2 .. m : q = n + i
      <4>1. q - n \in 2 .. m /\ q = n + (q - n)
        BY <1>2, <2>3
      <4> QED
        BY <4>1
    <3>2. Meets(t, u, i)
      BY <3>1 DEF Aligned, m
    <3>3. i \in 1 .. m /\ i - 1 \in 1 .. m /\ q - 1 = n + (i - 1)
      BY <1>2, <3>1
    <3>4. ru[q - 1] = u[i - 1]
      BY <1>7, <3>3
    <3>5. FrameAt(st, ru, q) = FrameAt(t, u, i)
      BY <1>7, <3>1, <3>3 DEF FrameAt
    <3> QED
      BY <3>2, <3>4, <3>5 DEF Meets
  <2> QED
    BY <1>2, <2>1, <2>2, <2>3
<1>11. Ends(st, ru, a, c)
  <2>1. CASE n = 0 /\ m = 0
    <3>1. a = b /\ b = c
      BY <1>9, <2>1 DEF Ends, n, m
    <3> QED
      BY <1>3, <2>1, <3>1 DEF Ends
  <2>2. CASE n = 0 /\ m # 0
    <3>1. a = b /\ AskedBelow(FrameAt(t, u, 1)) = b /\ u[m].addr = c
      BY <1>9, <2>2 DEF Ends, n, m
    <3>2. 1 \in 1 .. m /\ m \in 1 .. m /\ n + 1 = 1 /\ n + m = m
      BY <1>2, <2>2
    <3>3. st[1] = t[1] /\ ru[1] = u[1] /\ ru[m] = u[m]
      BY <1>7, <3>2
    <3> QED
      BY <1>3, <2>2, <3>1, <3>2, <3>3 DEF Ends, FrameAt
  <2>3. CASE n # 0 /\ m = 0
    <3>1. b = c /\ AskedBelow(FrameAt(s, r, 1)) = a /\ r[n].addr = b
      BY <1>9, <2>3 DEF Ends, n, m
    <3>2. 1 \in 1 .. n /\ n \in 1 .. n /\ n + m = n
      BY <1>2, <2>3
    <3>3. st[1] = s[1] /\ ru[1] = r[1] /\ ru[n] = r[n]
      BY <1>6, <3>2
    <3> QED
      BY <1>3, <2>3, <3>1, <3>2, <3>3 DEF Ends, FrameAt
  <2>4. CASE n # 0 /\ m # 0
    <3>1. AskedBelow(FrameAt(s, r, 1)) = a /\ u[m].addr = c
      BY <1>9, <2>4 DEF Ends, n, m
    <3>2. 1 \in 1 .. n /\ m \in 1 .. m /\ n + m # 0
      BY <1>2, <2>4
    <3>3. st[1] = s[1] /\ ru[1] = r[1] /\ ru[n + m] = u[m]
      BY <1>6, <1>7, <3>2
    <3> QED
      BY <1>3, <3>1, <3>2, <3>3 DEF Ends, FrameAt
  <2> QED
    BY <2>1, <2>2, <2>3, <2>4
<1> QED
  BY <1>3, <1>5, <1>8, <1>10, <1>11 DEF Aligned, st, ru
----------------------------------------------------------------------------
\* The pieces stacks and routes are made of.
ConfigOk == config \in Configs /\ request \in Requests

LEMMA ConfigFacts ==
  ASSUME ConfigOk
  PROVE  /\ Len(config.proxies) \in 0 .. MaxProxies
         /\ config.proxies \in Seq([main : {"http", "socks"}, tls : 0 .. MaxTls])
         /\ \A k \in 1 .. Len(config.proxies) :
              /\ config.proxies[k].main \in {"http", "socks"}
              /\ config.proxies[k].tls \in Nat
         /\ MaxProxies \in Nat
<1>1. PICK n \in 0 .. MaxProxies : config.proxies \in [1 .. n -> [main : {"http", "socks"}, tls : 0 .. MaxTls]]
  BY DEF ConfigOk, Configs, Chains
<1>2. n \in Nat /\ MaxProxies \in Nat /\ MaxTls \in Nat
  BY ChainAssumption
<1>3. Len(config.proxies) = n /\ config.proxies \in Seq([main : {"http", "socks"}, tls : 0 .. MaxTls])
  <2> DEFINE T == [main : {"http", "socks"}, tls : 0 .. MaxTls]
             p == config.proxies
  <2>1. p \in [1 .. n -> T]
    BY <1>1
  <2> HIDE DEF T, p
  <2>2. Len(p) = n /\ p \in Seq(T)
    BY <1>2, <2>1
  <2> QED
    BY <2>2 DEF T, p
<1>4. \A k \in 1 .. n : config.proxies[k] \in [main : {"http", "socks"}, tls : 0 .. MaxTls]
  BY <1>1
<1> QED
  BY <1>2, <1>3, <1>4

LEMMA ServerAddress ==
  ASSUME ConfigOk, NEW k \in 1 .. Len(config.proxies)
  PROVE  Server(k) \in Addresses /\ k \in 1 .. MaxProxies /\ k \in Nat
<1>1. k \in 1 .. MaxProxies /\ k \in Nat
  BY ConfigFacts
<1> QED
  BY <1>1 DEF Server, Addresses

LEMMA DeedsAre == Deeds = [did : {"dial", "tls", "ask", "fragment", "send", "forward"},
                           at : 0 .. MaxProxies, addr : Addresses]
  BY DEF Deeds, Addresses

TlsElements(k) == [i \in 1 .. config.proxies[k].tls |-> Element("tls", k)]
AskOf(k, addr) == <<[did |-> "ask", at |-> k, addr |-> addr]>>

LEMMA AlignedLayers ==
  ASSUME ConfigOk, NEW k \in 1 .. Len(config.proxies)
  PROVE  Aligned(TlsElements(k), Layers(k), Server(k), Server(k))
<1> DEFINE m == config.proxies[k].tls
           e == Element("tls", k)
           d == [did |-> "tls", at |-> 0, addr |-> Server(k)]
<1>1. m \in Nat /\ k \in Nat /\ Server(k) \in Addresses /\ MaxProxies \in Nat
  BY ConfigFacts, ServerAddress
<1>2. e \in Elements /\ e.kind = "tls"
  BY <1>1 DEF Elements, Element, Kinds
<1>3. d \in Deeds
  BY <1>1, DeedsAre
<1>4. TlsElements(k) = [i \in 1 .. m |-> e] /\ Layers(k) = [i \in 1 .. m |-> d]
  BY DEF TlsElements, Layers
<1>5. Pieces(TlsElements(k), Layers(k)) /\ Len(TlsElements(k)) = m
  <2> HIDE DEF m, e, d
  <2>1. [i \in 1 .. m |-> e] \in Seq(Elements) /\ [i \in 1 .. m |-> d] \in Seq(Deeds)
    BY <1>1, <1>2, <1>3
  <2>2. Len([i \in 1 .. m |-> e]) = m /\ Len([i \in 1 .. m |-> d]) = m
    BY <1>1
  <2> QED
    BY <1>4, <2>1, <2>2 DEF Pieces
<1>6. \A i \in 1 .. m : TlsElements(k)[i] = e /\ Layers(k)[i] = d
  BY <1>4
<1>7. Deed([element |-> e, addr |-> Server(k)]) = d /\ AskedBelow([element |-> e, addr |-> Server(k)]) = Server(k)
  BY DEF Deed, AskedBelow, Element
<1>8. d.addr = Server(k)
  OBVIOUS
<1>9. \A i \in 1 .. m : FrameAt(TlsElements(k), Layers(k), i) = [element |-> e, addr |-> Server(k)]
  BY <1>6, <1>8 DEF FrameAt
<1> HIDE DEF m, e, d
<1>10. \A i \in 1 .. m : Fits(TlsElements(k), Layers(k), i)
  BY <1>2, <1>6, <1>7, <1>9 DEF Fits, Kinds
<1>11. \A i \in 2 .. m : Meets(TlsElements(k), Layers(k), i)
  <2> SUFFICES ASSUME NEW i \in 2 .. m PROVE Meets(TlsElements(k), Layers(k), i)
    OBVIOUS
  <2>1. i \in 1 .. m /\ i - 1 \in 1 .. m
    BY <1>1
  <2> QED
    BY <1>6, <1>7, <1>8, <1>9, <2>1 DEF Meets
<1>12. Ends(TlsElements(k), Layers(k), Server(k), Server(k))
  <2>1. m # 0 => 1 \in 1 .. m /\ m \in 1 .. m
    BY <1>1
  <2> QED
    BY <1>5, <1>6, <1>7, <1>8, <1>9, <2>1 DEF Ends
<1> QED
  BY <1>5, <1>10, <1>11, <1>12 DEF Aligned

\* One element and what it does.
LEMMA AlignedOne ==
  ASSUME NEW e \in Elements, NEW d \in Deeds, e.kind \in Kinds,
         d = Deed([element |-> e, addr |-> d.addr])
  PROVE  Aligned(<<e>>, <<d>>, AskedBelow([element |-> e, addr |-> d.addr]), d.addr)
<1>1. Pieces(<<e>>, <<d>>) /\ Len(<<e>>) = 1
  BY DEF Pieces
<1>2. FrameAt(<<e>>, <<d>>, 1) = [element |-> e, addr |-> d.addr]
  BY DEF FrameAt
<1>3. \A q \in 1 .. 1 : q = 1
  OBVIOUS
<1>4. Fits(<<e>>, <<d>>, 1)
  BY <1>2 DEF Fits
<1>5. Ends(<<e>>, <<d>>, AskedBelow([element |-> e, addr |-> d.addr]), d.addr)
  BY <1>1, <1>2 DEF Ends
<1> DEFINE s == <<e>>
           r == <<d>>
<1> HIDE DEF s, r
<1>6. \A q \in 1 .. Len(s) : Fits(s, r, q)
  BY <1>1, <1>3, <1>4 DEF s, r
<1>7. \A q \in 2 .. Len(s) : Meets(s, r, q)
  BY <1>1 DEF s
<1>8. Aligned(s, r, AskedBelow([element |-> e, addr |-> d.addr]), d.addr)
  BY <1>1, <1>5, <1>6, <1>7 DEF Aligned, s, r
<1> QED
  BY <1>8 DEF s, r

LEMMA AlignedAsk ==
  ASSUME ConfigOk, NEW k \in 1 .. Len(config.proxies), NEW addr \in Addresses
  PROVE  Aligned(<<Element(config.proxies[k].main, k)>>, AskOf(k, addr), Server(k), addr)
<1> DEFINE e == Element(config.proxies[k].main, k)
           d == [did |-> "ask", at |-> k, addr |-> addr]
<1>1. k \in Nat /\ k \in 0 .. MaxProxies /\ config.proxies[k].main \in {"http", "socks"}
  BY ConfigFacts, ServerAddress
<1>2. e \in Elements /\ e.kind \in {"http", "socks"} /\ e.at = k
  BY <1>1 DEF Element, Elements, Kinds
<1>3. d \in Deeds /\ d.addr = addr
  BY <1>1, DeedsAre
<1>4. d = Deed([element |-> e, addr |-> addr]) /\ AskedBelow([element |-> e, addr |-> addr]) = Server(k)
  <2> HIDE DEF e
  <2> QED
    BY <1>2 DEF Deed, AskedBelow
<1> HIDE DEF e, d
<1>5. Aligned(<<e>>, <<d>>, Server(k), addr)
  BY <1>2, <1>3, <1>4, AlignedOne DEF Kinds
<1> QED
  BY <1>5 DEF AskOf, e, d

LEMMA AlignedFragment ==
  ASSUME NEW dest \in Addresses
  PROVE  Aligned(<<Element("fragment", 0)>>, <<[did |-> "fragment", at |-> 0, addr |-> dest]>>, dest, dest)
<1> DEFINE e == Element("fragment", 0)
           d == [did |-> "fragment", at |-> 0, addr |-> dest]
<1>1. e \in Elements /\ e.kind = "fragment"
  BY DEF Element, Elements, Kinds
<1>2. d \in Deeds /\ d.addr = dest
  BY ChainAssumption, DeedsAre
<1>3. d = Deed([element |-> e, addr |-> dest]) /\ AskedBelow([element |-> e, addr |-> dest]) = dest
  <2> HIDE DEF e
  <2> QED
    BY <1>1 DEF Deed, AskedBelow
<1> HIDE DEF e, d
<1>4. Aligned(<<e>>, <<d>>, dest, dest)
  BY <1>1, <1>2, <1>3, AlignedOne DEF Kinds
<1> QED
  BY <1>4 DEF e, d

\* A proxy with its layers, and what a connection through it to addr takes.
LEMMA AlignedProxy ==
  ASSUME ConfigOk, NEW k \in 1 .. Len(config.proxies), NEW addr \in Addresses
  PROVE  Aligned(Pushed(k), Layers(k) \o AskOf(k, addr), Server(k), addr)
<1>1. Aligned(TlsElements(k) \o <<Element(config.proxies[k].main, k)>>, Layers(k) \o AskOf(k, addr), Server(k), addr)
  BY AlignedLayers, AlignedAsk, AlignedConcat
<1> QED
  BY <1>1 DEF Pushed, TlsElements

LEMMA AlignedEmpty ==
  ASSUME NEW a
  PROVE  Aligned(<<>>, <<>>, a, a)
<1>1. Pieces(<<>>, <<>>) /\ Len(<<>>) = 0
  BY DEF Pieces
<1> QED
  BY <1>1 DEF Aligned, Ends
----------------------------------------------------------------------------
(***************************************************************************)
(* The first n proxies of a stack are aligned with the route through them. *)
(***************************************************************************)
Proxies == Len(config.proxies)
StackBlocks == [k \in 1 .. Proxies |-> Pushed(k)]
RouteBlocks(n, dest) == [k \in 1 .. n |-> Layers(k) \o AskOf(k, Hop(k + 1, n, dest))]
DialOf(addr) == <<[did |-> "dial", at |-> 0, addr |-> addr]>>

LEMMA RouteIs ==
  ASSUME NEW n, NEW dest
  PROVE  Route(n, dest) = DialOf(Hop(1, n, dest)) \o FlattenSeq(RouteBlocks(n, dest))
  BY DEF Route, DialOf, RouteBlocks, AskOf

LEMMA HopAddress ==
  ASSUME ConfigOk, NEW n \in 0 .. Proxies, NEW dest \in Addresses, NEW k \in 1 .. n + 1
  PROVE  /\ Hop(k, n, dest) \in Addresses
         /\ k <= n => Hop(k, n, dest) = Server(k)
         /\ Hop(n + 1, n, dest) = dest
<1>1. n \in Nat /\ Proxies \in Nat
  BY ConfigFacts DEF Proxies
<1>2. k <= n => k \in 1 .. Len(config.proxies)
  BY <1>1 DEF Proxies
<1>3. k <= n => Server(k) \in Addresses
  BY <1>2, ServerAddress
<1>4. ~(n + 1 <= n)
  BY <1>1
<1> QED
  BY <1>3, <1>4 DEF Hop

LEMMA AlignedChain ==
  ASSUME ConfigOk, NEW n \in 0 .. Proxies, NEW dest \in Addresses,
         NEW f, FlattensTo(StackBlocks, f)
  PROVE  Aligned(f[n], FlattenSeq(RouteBlocks(n, dest)), Hop(1, n, dest), dest)
<1>1. Proxies \in Nat /\ n \in Nat /\ Proxies = Len(config.proxies)
  BY ConfigFacts DEF Proxies
<1> DEFINE blocks == RouteBlocks(n, dest)
<1>2. ASSUME NEW k \in 1 .. n
      PROVE  Aligned(Pushed(k), blocks[k], Server(k), Hop(k + 1, n, dest))
  <2>1. k \in 1 .. Len(config.proxies) /\ k + 1 \in 1 .. n + 1
    BY <1>1
  <2>2. Hop(k + 1, n, dest) \in Addresses
    BY <2>1, HopAddress
  <2>3. blocks[k] = Layers(k) \o AskOf(k, Hop(k + 1, n, dest))
    BY DEF RouteBlocks
  <2> QED
    BY <2>1, <2>2, <2>3, AlignedProxy
<1>3. blocks \in Seq(Seq(Deeds)) /\ Len(blocks) = n
  <2>1. \A k \in 1 .. n : blocks[k] \in Seq(Deeds)
    BY <1>2 DEF Aligned, Pieces
  <2>2. blocks = [k \in 1 .. n |-> blocks[k]]
    BY DEF RouteBlocks
  <2> HIDE DEF blocks
  <2>3. blocks \in [1 .. n -> Seq(Deeds)]
    BY <2>1, <2>2
  <2> QED
    BY <1>1, <2>3
<1>4. PICK g \in [0 .. n -> Seq(Deeds)] : FlattensTo(blocks, g) /\ FlattenSeq(blocks) = g[n]
  <2> HIDE DEF blocks
  <2> QED
    BY <1>3, Flattened
<1>5. g[0] = <<>> /\ f[0] = <<>>
  BY <1>4 DEF FlattensTo
<1>6. \A k \in 1 .. n : g[k] = g[k - 1] \o blocks[k]
  <2> HIDE DEF blocks
  <2> QED
    BY <1>3, <1>4 DEF FlattensTo
<1>7. Len(StackBlocks) = Proxies /\ \A k \in 1 .. Proxies : StackBlocks[k] = Pushed(k)
  BY <1>1 DEF StackBlocks
<1>8. \A k \in 1 .. n : f[k] = f[k - 1] \o Pushed(k)
  <2> SUFFICES ASSUME NEW k \in 1 .. n PROVE f[k] = f[k - 1] \o Pushed(k)
    OBVIOUS
  <2>1. k \in 1 .. Proxies
    BY <1>1
  <2> QED
    BY <1>7, <2>1 DEF FlattensTo
<1> HIDE DEF blocks
<1> DEFINE G == {k \in 0 .. n : Aligned(f[k], g[k], Hop(1, n, dest), Hop(k + 1, n, dest))}
<1>9. 0 \in G
  <2>1. Aligned(f[0], g[0], Hop(1, n, dest), Hop(0 + 1, n, dest))
    BY <1>5, AlignedEmpty
  <2> QED
    BY <1>1, <2>1
<1>10. ASSUME NEW k \in 0 .. n - 1, k \in G PROVE k + 1 \in G
  <2>1. k + 1 \in 1 .. n /\ (k + 1) - 1 = k /\ k + 1 <= n /\ k + 1 \in 1 .. n + 1
    BY <1>1
  <2>2. Hop(k + 1, n, dest) = Server(k + 1)
    BY <2>1, HopAddress
  <2>3. Aligned(f[k], g[k], Hop(1, n, dest), Server(k + 1))
    BY <1>10, <2>2
  <2>4. Aligned(Pushed(k + 1), blocks[k + 1], Server(k + 1), Hop((k + 1) + 1, n, dest))
    BY <1>2, <2>1
  <2>5. f[k + 1] = f[k] \o Pushed(k + 1) /\ g[k + 1] = g[k] \o blocks[k + 1]
    BY <1>6, <1>8, <2>1
  <2>6. Aligned(f[k + 1], g[k + 1], Hop(1, n, dest), Hop((k + 1) + 1, n, dest))
    BY <2>3, <2>4, <2>5, AlignedConcat
  <2>7. k + 1 \in 0 .. n
    BY <2>1
  <2> QED
    BY <2>6, <2>7
<1>11. \A k \in 0 .. n : k \in G
  <2> HIDE DEF G
  <2> QED
    BY <1>1, <1>9, <1>10, CountingUp
<1>12. n \in 0 .. n /\ 1 \in 1 .. n + 1
  BY <1>1
<1>13. Hop(n + 1, n, dest) = dest
  BY <1>12, HopAddress
<1>14. Aligned(f[n], g[n], Hop(1, n, dest), dest)
  BY <1>11, <1>12, <1>13
<1> QED
  BY <1>4, <1>14 DEF blocks

----------------------------------------------------------------------------
(***************************************************************************)
(* A route is laid out on a stack: the connection is dialled at the        *)
(* bottom, and what stands above is aligned, up to the destination.        *)
(***************************************************************************)
Laid(s, r, dest) ==
  /\ s \in Seq(Elements) /\ r \in Seq(Deeds) /\ Len(r) \in 1 .. Len(s)
  /\ s[1].kind = "raw" /\ r[1] = [did |-> "dial", at |-> 0, addr |-> r[1].addr]
  /\ \A q \in 2 .. Len(r) : Fits(s, r, q) /\ Meets(s, r, q)
  /\ r[Len(r)].addr = dest

Bottom == <<Element("raw", 0)>>

\* A sequence with one element put in front.
LEMMA InFront ==
  ASSUME NEW T, NEW a \in T, NEW s \in Seq(T)
  PROVE  /\ <<a>> \o s \in Seq(T) /\ Len(<<a>> \o s) = 1 + Len(s)
         /\ (<<a>> \o s)[1] = a
         /\ \A q \in 2 .. 1 + Len(s) : (<<a>> \o s)[q] = s[q - 1]
<1> DEFINE one == <<a>>
           both == one \o s
<1>1. one \in Seq(T) /\ Len(one) = 1 /\ one[1] = a /\ Len(s) \in Nat
  OBVIOUS
<1> HIDE DEF one
<1>2. both \in Seq(T) /\ Len(both) = Len(one) + Len(s)
  BY <1>1, ConcatProperties
<1>3. \A i \in 1 .. Len(one) + Len(s) : both[i] = IF i <= Len(one) THEN one[i] ELSE s[i - Len(one)]
  BY <1>1, ConcatProperties
<1> HIDE DEF both
<1>4. \A i \in 1 .. 1 + Len(s) : both[i] = IF i <= 1 THEN one[i] ELSE s[i - 1]
  BY <1>1, <1>3
<1>5. both[1] = a
  BY <1>1, <1>4
<1>6. \A q \in 2 .. 1 + Len(s) : both[q] = s[q - 1]
  BY <1>1, <1>4
<1>7. Len(both) = 1 + Len(s)
  BY <1>1, <1>2
<1> QED
  BY <1>2, <1>5, <1>6, <1>7 DEF both, one

LEMMA LaidOut ==
  ASSUME NEW s, NEW r, NEW t \in Seq(Elements), NEW addr \in Addresses, NEW dest,
         Aligned(s, r, addr, dest)
  PROVE  /\ Laid(Bottom \o (s \o t), DialOf(addr) \o r, dest)
         /\ Len(DialOf(addr) \o r) = 1 + Len(s)
<1> DEFINE n == Len(s)
           m == Len(t)
           d == [did |-> "dial", at |-> 0, addr |-> addr]
           up == s \o t
           whole == Bottom \o up
           way == DialOf(addr) \o r
<1>1. s \in Seq(Elements) /\ r \in Seq(Deeds) /\ Len(r) = n /\ n \in Nat /\ m \in Nat
  BY DEF Aligned, Pieces
<1>2. Bottom = <<Element("raw", 0)>> /\ Element("raw", 0) \in Elements
  BY DEF Bottom, Elements, Element
<1>3. d \in Deeds
  BY DeedsAre, ChainAssumption
<1>4. DialOf(addr) = <<d>>
  BY DEF DialOf
<1> HIDE DEF d
<1>5. /\ up \in Seq(Elements) /\ Len(up) = n + m
      /\ \A i \in 1 .. n + m : up[i] = IF i <= n THEN s[i] ELSE t[i - n]
  BY <1>1, ConcatProperties
<1> HIDE DEF up
<1>6. /\ whole \in Seq(Elements) /\ Len(whole) = 1 + Len(up)
      /\ whole[1] = Element("raw", 0)
      /\ \A q \in 2 .. 1 + Len(up) : whole[q] = up[q - 1]
  BY <1>2, <1>5, InFront
<1>7. /\ way \in Seq(Deeds) /\ Len(way) = 1 + n
      /\ way[1] = d
      /\ \A q \in 2 .. 1 + n : way[q] = r[q - 1]
  <2>1. /\ <<d>> \o r \in Seq(Deeds) /\ Len(<<d>> \o r) = 1 + Len(r)
        /\ (<<d>> \o r)[1] = d
        /\ \A q \in 2 .. 1 + Len(r) : (<<d>> \o r)[q] = r[q - 1]
    BY <1>1, <1>3, InFront
  <2> QED
    BY <1>1, <1>4, <2>1
<1> HIDE DEF whole, way, n, m
<1>8. whole[1] = Element("raw", 0) /\ way[1] = d
  BY <1>6, <1>7
<1>9. \A q \in 2 .. 1 + n : q - 1 \in 1 .. n /\ whole[q] = s[q - 1] /\ way[q] = r[q - 1]
  <2> SUFFICES ASSUME NEW q \in 2 .. 1 + n
               PROVE  q - 1 \in 1 .. n /\ whole[q] = s[q - 1] /\ way[q] = r[q - 1]
    OBVIOUS
  <2>1. q - 1 \in 1 .. n /\ q \in 2 .. 1 + (n + m) /\ q - 1 \in 1 .. n + m /\ q - 1 <= n
    BY <1>1
  <2>2. whole[q] = up[q - 1]
    BY <1>5, <1>6, <2>1
  <2>3. up[q - 1] = s[q - 1]
    BY <1>5, <2>1
  <2>4. way[q] = r[q - 1]
    BY <1>7, <2>1
  <2> QED
    BY <2>1, <2>2, <2>3, <2>4
<1>10. ASSUME NEW q \in 2 .. 1 + n PROVE Fits(whole, way, q) /\ Meets(whole, way, q)
  <2>1. q - 1 \in 1 .. n /\ FrameAt(whole, way, q) = FrameAt(s, r, q - 1)
    BY <1>9 DEF FrameAt
  <2>2. Fits(s, r, q - 1)
    BY <2>1 DEF Aligned, n
  <2>3. Fits(whole, way, q)
    BY <1>9, <2>1, <2>2 DEF Fits
  <2>4. CASE q = 2
    <3>1. n # 0 /\ q - 1 = 1 /\ way[1].addr = addr
      BY <1>1, <1>8, <2>4 DEF d
    <3>2. AskedBelow(FrameAt(s, r, 1)) = addr
      BY <3>1 DEF Aligned, Ends, n
    <3> QED
      BY <2>1, <2>3, <3>1, <3>2 DEF Meets
  <2>5. CASE q # 2
    <3>1. q - 1 \in 2 .. n /\ q - 1 \in 2 .. 1 + n
      BY <1>1, <2>5
    <3>2. Meets(s, r, q - 1) /\ way[q - 1] = r[(q - 1) - 1]
      BY <1>9, <3>1 DEF Aligned, n
    <3> QED
      BY <2>1, <2>3, <3>2 DEF Meets
  <2> QED
    BY <2>4, <2>5
<1>11. way[Len(way)].addr = dest
  <2>1. CASE n = 0
    <3>1. addr = dest
      BY <2>1 DEF Aligned, Ends, n
    <3> QED
      BY <1>7, <1>8, <2>1, <3>1 DEF d
  <2>2. CASE n # 0
    <3>1. 1 + n \in 2 .. 1 + n /\ (1 + n) - 1 = n
      BY <1>1, <2>2
    <3>2. r[n].addr = dest
      BY <2>2 DEF Aligned, Ends, n
    <3> QED
      BY <1>7, <1>9, <3>1, <3>2
  <2> QED
    BY <2>1, <2>2
<1>12. whole[1].kind = "raw" /\ way[1] = [did |-> "dial", at |-> 0, addr |-> way[1].addr]
  BY <1>8 DEF d, Element
<1>13. Len(way) = 1 + n /\ Len(way) \in 1 .. Len(whole)
  BY <1>1, <1>5, <1>6, <1>7
<1>14. Laid(whole, way, dest)
  BY <1>6, <1>7, <1>10, <1>11, <1>12, <1>13 DEF Laid
<1> QED
  BY <1>13, <1>14 DEF whole, way, up, n
----------------------------------------------------------------------------
(***************************************************************************)
(* The stack of every job and the route of every walk.                     *)
(***************************************************************************)
Top(j) == IF FragmentWanted(j) THEN <<Element("fragment", 0)>> ELSE <<>>

LEMMA ElementsAre ==
  ASSUME ConfigOk
  PROVE  /\ Bottom \in Seq(Elements)
         /\ \A j : Top(j) \in Seq(Elements)
         /\ \A k \in 1 .. Proxies :
              /\ Element(config.proxies[k].main, k) \in Elements
              /\ TlsElements(k) \in Seq(Elements)
              /\ Pushed(k) = TlsElements(k) \o <<Element(config.proxies[k].main, k)>>
              /\ Pushed(k) \in Seq(Elements)
<1>1. Bottom \in Seq(Elements)
  BY DEF Bottom, Elements, Element
<1>2. ASSUME NEW j PROVE Top(j) \in Seq(Elements)
  <2>1. Element("fragment", 0) \in Elements
    BY DEF Elements, Element, Kinds
  <2> QED
    BY <2>1 DEF Top
<1>3. ASSUME NEW k \in 1 .. Proxies
      PROVE  /\ Element(config.proxies[k].main, k) \in Elements
             /\ TlsElements(k) \in Seq(Elements)
             /\ Pushed(k) = TlsElements(k) \o <<Element(config.proxies[k].main, k)>>
             /\ Pushed(k) \in Seq(Elements)
  <2>1. k \in 1 .. Len(config.proxies) /\ k \in Nat
    BY ConfigFacts DEF Proxies
  <2>2. config.proxies[k].main \in {"http", "socks"}
    BY <2>1, ConfigFacts
  <2>3. Element(config.proxies[k].main, k) \in Elements
    BY <2>1, <2>2 DEF Element, Elements, Kinds
  <2>4. TlsElements(k) \in Seq(Elements)
    BY <2>1, AlignedLayers DEF Aligned, Pieces
  <2>5. Target \in Addresses
    BY DEF Addresses
  <2>6. Pushed(k) \in Seq(Elements)
    BY <2>1, <2>5, AlignedProxy DEF Aligned, Pieces
  <2> QED
    BY <2>3, <2>4, <2>6 DEF Pushed, TlsElements
<1> QED
  BY <1>1, <1>2, <1>3

LEMMA ElementsConcat ==
  ASSUME NEW s \in Seq(Elements), NEW t \in Seq(Elements), NEW u \in Seq(Elements)
  PROVE  (s \o t) \o u = s \o (t \o u)
  BY ConcatAssociative

LEMMA DeedsConcat ==
  ASSUME NEW s \in Seq(Deeds), NEW t \in Seq(Deeds), NEW u \in Seq(Deeds)
  PROVE  (s \o t) \o u = s \o (t \o u)
  BY ConcatAssociative

LEMMA StackIs ==
  ASSUME ConfigOk
  PROVE  \E f \in [0 .. Proxies -> Seq(Elements)] :
           /\ FlattensTo(StackBlocks, f)
           /\ \A j \in Jobs : StackOf(j) = Bottom \o (f[Proxies] \o Top(j))
<1>1. Proxies \in Nat
  BY ConfigFacts DEF Proxies
<1>2. StackBlocks \in Seq(Seq(Elements)) /\ Len(StackBlocks) = Proxies
  <2>1. StackBlocks \in [1 .. Proxies -> Seq(Elements)]
    BY ElementsAre DEF StackBlocks
  <2> QED
    BY <1>1, <2>1
<1>3. PICK f \in [0 .. Proxies -> Seq(Elements)] :
        FlattensTo(StackBlocks, f) /\ FlattenSeq(StackBlocks) = f[Proxies]
  BY <1>2, Flattened
<1> DEFINE all == f[Proxies]
           fragment == <<Element("fragment", 0)>>
<1>4. all \in Seq(Elements) /\ fragment \in Seq(Elements) /\ Bottom \in Seq(Elements)
  <2>1. Element("fragment", 0) \in Elements
    BY DEF Elements, Element, Kinds
  <2> QED
    BY <1>1, <1>3, <2>1, ElementsAre
<1>5. Stack = (Bottom \o all) \o (IF FragmentsAll THEN fragment ELSE <<>>)
  BY <1>3 DEF Stack, Bottom, StackBlocks, Proxies
<1>assoc. (Bottom \o all) \o fragment = Bottom \o (all \o fragment)
  <2> HIDE DEF all, fragment
  <2> QED
    BY <1>4, ConcatAssociative
<1>6. config.fragment \in {"unset", "0", "1", "2"}
  BY DEF ConfigOk, Configs
<1>7. ASSUME NEW j \in Jobs PROVE StackOf(j) = Bottom \o (all \o Top(j))
  <2>1. Bottom \o all \in Seq(Elements)
    BY <1>4, ConcatProperties
  <2>2. CASE FragmentsAll
    <3>1. FragmentWanted(j) /\ config.fragment # "1"
      BY <2>2 DEF FragmentsAll, FragmentWanted
    <3>2. StackOf(j) = (Bottom \o all) \o fragment
      BY <1>5, <2>2, <3>1 DEF StackOf
    <3> QED
      BY <1>assoc, <3>1, <3>2 DEF Top
  <2>3. CASE ~FragmentsAll /\ config.fragment = "1" /\ j # "main"
    <3>1. FragmentWanted(j)
      BY <2>3 DEF FragmentWanted
    <3>2. (Bottom \o all) \o <<>> = Bottom \o all
      BY <2>1, ConcatEmptySeq
    <3>3. StackOf(j) = Append(Bottom \o all, Element("fragment", 0))
      BY <1>5, <2>3, <3>2 DEF StackOf
    <3>4. Element("fragment", 0) \in Elements
      BY DEF Elements, Element, Kinds
    <3>5. StackOf(j) = (Bottom \o all) \o fragment
      BY <2>1, <3>3, <3>4, AppendIsConcat
    <3> QED
      BY <1>assoc, <3>1, <3>5 DEF Top
  <2>4. CASE ~FragmentsAll /\ ~(config.fragment = "1" /\ j # "main")
    <3>1. ~FragmentWanted(j)
      BY <1>6, <2>4 DEF FragmentWanted, FragmentsAll
    <3>2. (Bottom \o all) \o <<>> = Bottom \o all /\ all \o <<>> = all
      BY <1>4, <2>1, ConcatEmptySeq
    <3>3. StackOf(j) = Bottom \o all
      BY <1>5, <2>4, <3>2 DEF StackOf
    <3> QED
      BY <3>1, <3>2, <3>3 DEF Top
  <2> QED
    BY <2>2, <2>3, <2>4
<1> QED
  BY <1>3, <1>7

\* Where a request for plain HTTP leaves the fragment layer behind.
Base(j) == IF FragmentWanted(j) THEN Len(StackOf(j)) - 1 ELSE Len(StackOf(j))

\* What stands at the top of a stack.
TopIs(j, base) ==
  /\ StackOf(j) \in Seq(Elements) /\ base \in 1 .. Len(StackOf(j))
  /\ base = Base(j)
  /\ FragmentWanted(j) =>
       Len(StackOf(j)) = base + 1 /\ StackOf(j)[base + 1].kind = "fragment"
  /\ ~FragmentWanted(j) => Len(StackOf(j)) = base
  /\ Proxies = 0 => StackOf(j)[base].kind = "raw"
  /\ Proxies # 0 => StackOf(j)[base] = Element(config.proxies[Proxies].main, Proxies)

\* ... of a sequence with another behind it.
LEMMA Behind ==
  ASSUME NEW T, NEW s \in Seq(T), NEW a \in T
  PROVE  /\ s \o <<a>> \in Seq(T) /\ Len(s \o <<a>>) = Len(s) + 1
         /\ (s \o <<a>>)[Len(s) + 1] = a
         /\ \A i \in 1 .. Len(s) : (s \o <<a>>)[i] = s[i]
<1>1. s \o <<a>> = Append(s, a)
  BY AppendIsConcat
<1> QED
  BY <1>1, AppendProperties
LEMMA StackTop ==
  ASSUME ConfigOk, NEW j \in Jobs,
         NEW f \in [0 .. Proxies -> Seq(Elements)], FlattensTo(StackBlocks, f),
         StackOf(j) = Bottom \o (f[Proxies] \o Top(j))
  PROVE  TopIs(j, 1 + Len(f[Proxies]))
<1> DEFINE all == f[Proxies]
           n == Len(all)
           below == Bottom \o all
<1>1. Proxies \in Nat /\ all \in Seq(Elements)
  <2>1. Proxies \in Nat
    BY ConfigFacts DEF Proxies
  <2>2. Proxies \in 0 .. Proxies
    BY <2>1
  <2> QED
    BY <2>1, <2>2
<1>2. Bottom = <<Element("raw", 0)>> /\ Element("raw", 0) \in Elements /\ Element("raw", 0).kind = "raw"
  BY DEF Bottom, Element, Elements
<1> HIDE DEF all
<1>3. /\ below \in Seq(Elements) /\ Len(below) = 1 + n
      /\ below[1] = Element("raw", 0)
      /\ \A q \in 2 .. 1 + n : below[q] = all[q - 1]
  BY <1>1, <1>2, InFront
<1>4. n \in Nat
  BY <1>1
<1>5. below[1 + n] = IF Proxies = 0 THEN Element("raw", 0) ELSE Element(config.proxies[Proxies].main, Proxies)
  <2>1. CASE Proxies = 0
    <3>1. all = <<>>
      BY <2>1 DEF FlattensTo, all
    <3>2. 1 + n = 1
      BY <3>1
    <3> HIDE DEF below, n
    <3> QED
      BY <1>3, <2>1, <3>2
  <2>2. CASE Proxies # 0
    <3> DEFINE e == Element(config.proxies[Proxies].main, Proxies)
               front == f[Proxies - 1] \o TlsElements(Proxies)
    <3>1. Proxies \in 1 .. Proxies /\ Proxies - 1 \in 0 .. Proxies
      BY <1>1, <2>2
    <3>2. Len(StackBlocks) = Proxies /\ StackBlocks[Proxies] = Pushed(Proxies)
      BY <1>1, <3>1 DEF StackBlocks
    <3>3. all = f[Proxies - 1] \o Pushed(Proxies)
      BY <3>1, <3>2 DEF FlattensTo, all
    <3>4. e \in Elements /\ TlsElements(Proxies) \in Seq(Elements) /\ f[Proxies - 1] \in Seq(Elements)
          /\ Pushed(Proxies) = TlsElements(Proxies) \o <<e>>
      BY <3>1, ElementsAre
    <3> HIDE DEF e
    <3>5. <<e>> \in Seq(Elements)
      BY <3>4
    <3>6. front \in Seq(Elements)
      BY <3>4, ConcatProperties
    <3>7. all = front \o <<e>>
      <4>1. front \o <<e>> = f[Proxies - 1] \o (TlsElements(Proxies) \o <<e>>)
        BY <3>4, <3>5, ElementsConcat
      <4> QED
        BY <3>3, <3>4, <4>1, Zenon
    <3> HIDE DEF front
    <3>8. Len(all) = Len(front) + 1 /\ all[Len(front) + 1] = e
      BY <3>4, <3>6, <3>7, Behind
    <3>9. n >= 1 /\ all[n] = e /\ 1 + n \in 2 .. 1 + n /\ (1 + n) - 1 = n
      BY <3>6, <3>8
    <3>10. below[1 + n] = e
      BY <1>3, <3>9
    <3> QED
      BY <2>2, <3>10 DEF e
  <2> QED
    BY <2>1, <2>2
<1>6. StackOf(j) = below \o Top(j)
  <2>1. Top(j) \in Seq(Elements) /\ Bottom \in Seq(Elements)
    BY ElementsAre
  <2>2. (Bottom \o all) \o Top(j) = Bottom \o (all \o Top(j))
    BY <1>1, <2>1, ElementsConcat
  <2> QED
    BY <2>2 DEF all
<1> HIDE DEF below, n
<1>7. CASE FragmentWanted(j)
  <2>1. Element("fragment", 0) \in Elements /\ Element("fragment", 0).kind = "fragment"
    BY DEF Element, Elements, Kinds
  <2>2. StackOf(j) = below \o <<Element("fragment", 0)>>
    BY <1>6, <1>7 DEF Top
  <2>3. /\ StackOf(j) \in Seq(Elements) /\ Len(StackOf(j)) = (1 + n) + 1
        /\ StackOf(j)[(1 + n) + 1] = Element("fragment", 0)
        /\ \A i \in 1 .. 1 + n : StackOf(j)[i] = below[i]
    BY <1>3, <2>1, <2>2, Behind
  <2>4. 1 + n \in 1 .. 1 + n /\ 1 + n \in 1 .. (1 + n) + 1 /\ ((1 + n) + 1) - 1 = 1 + n
    BY <1>4
  <2>5. Base(j) = 1 + n
    BY <1>7, <2>3, <2>4 DEF Base
  <2>6. StackOf(j)[1 + n] = below[1 + n]
    BY <2>3, <2>4
  <2>7. TopIs(j, 1 + n)
    BY <1>2, <1>5, <1>7, <2>1, <2>3, <2>4, <2>5, <2>6 DEF TopIs
  <2> QED
    BY <2>7 DEF n, all
<1>8. CASE ~FragmentWanted(j)
  <2>1. below \o <<>> = below
    BY <1>3, ConcatEmptySeq
  <2>2. StackOf(j) = below
    BY <1>6, <1>8, <2>1 DEF Top
  <2>3. Base(j) = 1 + n
    BY <1>3, <1>8, <2>2 DEF Base
  <2>4. 1 + n \in 1 .. 1 + n
    BY <1>4
  <2>5. TopIs(j, 1 + n)
    BY <1>2, <1>3, <1>5, <1>8, <2>2, <2>3, <2>4 DEF TopIs
  <2> QED
    BY <2>5 DEF n, all
<1> QED
  BY <1>7, <1>8

\* The address at the end of a walk's route, and how long it is.
WalkEnd(w) == IF Forwarding(w[1]) THEN Server(Proxies) ELSE WalkDest(w)

RouteEnd(j) ==
  CASE Forwarding(j) -> Base(j) - 1
    [] ~Forwarding(j) /\ Scheme(j) = "http" -> Base(j)
    [] ~Forwarding(j) /\ Scheme(j) # "http" -> Len(StackOf(j))

LEMMA WalkAddress ==
  ASSUME NEW w \in Walks
  PROVE  w[1] \in Jobs /\ WalkDest(w) \in Addresses
<1>1. w[1] \in Jobs /\ w[2] \in {"plain"} \cup Families
  BY DEF Walks
<1>2. Dest(w[1]) \in Addresses
  BY DEF Dest, Addresses
<1>3. w[2] \in Families => Address(w[2]) \in Addresses
  BY DEF Addresses
<1> QED
  BY <1>1, <1>2, <1>3 DEF WalkDest

LEMMA ForwardingFacts ==
  ASSUME ConfigOk, NEW j \in Jobs
  PROVE  Forwarding(j) <=> /\ Scheme(j) = "http" /\ Proxies # 0
                           /\ config.proxies[Proxies].main = "http"
<1>1. Proxies \in Nat
  BY ConfigFacts DEF Proxies
<1>2. config.proxies # <<>> <=> Proxies # 0
  <2> DEFINE p == config.proxies
             T == [main : {"http", "socks"}, tls : 0 .. MaxTls]
  <2>1. p \in Seq(T)
    BY ConfigFacts
  <2> HIDE DEF p, T
  <2>2. p # <<>> <=> Len(p) # 0
    BY <2>1, EmptySeq
  <2> QED
    BY <2>2 DEF p, Proxies
<1> QED
  BY <1>2 DEF Forwarding, Last, Proxies

LEMMA WalkLaid ==
  ASSUME ConfigOk, NEW w \in Walks
  PROVE  /\ Laid(StackOf(w[1]), WalkRoute(w), WalkEnd(w))
         /\ Len(WalkRoute(w)) = RouteEnd(w[1])
<1> DEFINE j == w[1]
           dest == WalkDest(w)
<1>1. j \in Jobs /\ dest \in Addresses /\ Proxies \in Nat
  BY WalkAddress, ConfigFacts DEF Proxies
<1>2. PICK f \in [0 .. Proxies -> Seq(Elements)] :
        /\ FlattensTo(StackBlocks, f)
        /\ \A i \in Jobs : StackOf(i) = Bottom \o (f[Proxies] \o Top(i))
  BY StackIs
<1> DEFINE all == f[Proxies]
<1>3. StackOf(j) = Bottom \o (all \o Top(j))
  BY <1>1, <1>2
<1>4. TopIs(j, 1 + Len(all))
  BY <1>1, <1>2, <1>3, StackTop
<1>5. all \in Seq(Elements) /\ Top(j) \in Seq(Elements)
  BY <1>1, <1>2, ElementsAre
<1> HIDE DEF j, dest
<1>6. CASE ~Forwarding(j)
  <2> DEFINE flat == FlattenSeq(RouteBlocks(Proxies, dest))
             hop == Hop(1, Proxies, dest)
             last == Fragmented(j, dest)
  <2>1. Aligned(all, flat, hop, dest)
    <3>1. Proxies \in 0 .. Proxies
      BY <1>1
    <3> QED
      BY <1>1, <1>2, <3>1, AlignedChain
  <2>2. hop \in Addresses
    <3>1. Proxies \in 0 .. Proxies /\ 1 \in 1 .. Proxies + 1
      BY <1>1
    <3> QED
      BY <1>1, <3>1, HopAddress
  <2>3. WalkRoute(w) = (DialOf(hop) \o flat) \o last
    BY <1>6, RouteIs DEF WalkRoute, Proxies, j, dest
  <2>4. flat \in Seq(Deeds)
    BY <2>1 DEF Aligned, Pieces
  <2> HIDE DEF flat, hop
  <2>5. DialOf(hop) \in Seq(Deeds)
    <3>1. [did |-> "dial", at |-> 0, addr |-> hop] \in Deeds
      BY <2>2, DeedsAre, ChainAssumption
    <3> QED
      BY <3>1 DEF DialOf
  <2>6. WalkEnd(w) = dest
    BY <1>6 DEF WalkEnd, j, dest
  <2>7. CASE FragmentWanted(j) /\ Scheme(j) # "http"
    <3>1. Aligned(Top(j), last, dest, dest)
      BY <1>1, <2>7, AlignedFragment DEF Top, Fragmented
    <3>2. last \in Seq(Deeds)
      BY <3>1 DEF Aligned, Pieces
    <3> HIDE DEF last
    <3>3. Aligned(all \o Top(j), flat \o last, hop, dest)
      BY <2>1, <3>1, AlignedConcat
    <3>4. WalkRoute(w) = DialOf(hop) \o (flat \o last)
      BY <2>3, <2>4, <2>5, <3>2, DeedsConcat
    <3> DEFINE s == all \o Top(j)
    <3>5. s \in Seq(Elements)
      BY <1>5, ConcatProperties
    <3> HIDE DEF s
    <3>6. s \o <<>> = s /\ <<>> \in Seq(Elements)
      BY <3>5, ConcatEmptySeq
    <3>7. Laid(Bottom \o (s \o <<>>), WalkRoute(w), dest) /\ Len(WalkRoute(w)) = 1 + Len(s)
      BY <2>2, <3>3, <3>4, <3>6, LaidOut, ZenonT(40) DEF s
    <3>8. Laid(StackOf(j), WalkRoute(w), dest)
      BY <1>3, <3>6, <3>7 DEF s
    <3>9. Len(s) = Len(all) + Len(Top(j)) /\ Len(Top(j)) = 1
      <4>1. Len(s) = Len(all) + Len(Top(j))
        BY <1>5, ConcatProperties DEF s
      <4>2. Top(j) = <<Element("fragment", 0)>>
        BY <2>7 DEF Top
      <4> QED
        BY <4>1, <4>2
    <3>10. Len(WalkRoute(w)) = Len(StackOf(j))
      <4>1. Len(all) \in Nat /\ Len(StackOf(j)) = (1 + Len(all)) + 1
        BY <1>4, <1>5, <2>7 DEF TopIs
      <4> QED
        BY <3>7, <3>9, <4>1
    <3>11. RouteEnd(j) = Len(StackOf(j))
      BY <1>6, <2>7 DEF RouteEnd
    <3> QED
      BY <2>6, <3>8, <3>10, <3>11 DEF j
  <2>8. CASE ~(FragmentWanted(j) /\ Scheme(j) # "http")
    <3>1. last = <<>>
      BY <2>8 DEF Fragmented
    <3>2. DialOf(hop) \o flat \in Seq(Deeds)
      BY <2>4, <2>5, ConcatProperties
    <3>3. WalkRoute(w) = DialOf(hop) \o flat
      BY <2>3, <3>1, <3>2, ConcatEmptySeq
    <3>4. Laid(Bottom \o (all \o Top(j)), WalkRoute(w), dest) /\ Len(WalkRoute(w)) = 1 + Len(all)
      BY <1>5, <2>1, <2>2, <3>3, LaidOut
    <3>5. RouteEnd(j) = 1 + Len(all)
      BY <1>4, <1>6, <2>8 DEF RouteEnd, TopIs
    <3> QED
      BY <1>3, <2>6, <3>4, <3>5 DEF j
  <2> QED
    BY <2>7, <2>8
<1>7. CASE Forwarding(j)
  <2> DEFINE k == Proxies
             e == Element(config.proxies[k].main, k)
             before == f[k - 1]
             flat == FlattenSeq(RouteBlocks(k - 1, Server(k)))
             hop == Hop(1, k - 1, Server(k))
             s == before \o TlsElements(k)
             r == flat \o Layers(k)
             t == <<e>> \o Top(j)
  <2>1. Proxies # 0 /\ Scheme(j) = "http"
    BY <1>1, <1>7, ForwardingFacts
  <2>2. k \in 1 .. Len(config.proxies) /\ k \in 1 .. Proxies /\ k - 1 \in 0 .. Proxies /\ 1 \in 1 .. (k - 1) + 1
    BY <1>1, <2>1 DEF Proxies
  <2>3. Server(k) \in Addresses
    BY <2>2, ServerAddress
  <2>4. Aligned(before, flat, hop, Server(k)) /\ hop \in Addresses
    BY <1>2, <2>2, <2>3, AlignedChain, HopAddress
  <2>5. Aligned(TlsElements(k), Layers(k), Server(k), Server(k))
    BY <2>2, AlignedLayers
  <2>6. WalkRoute(w) = (DialOf(hop) \o flat) \o Layers(k)
    BY <1>7, RouteIs DEF WalkRoute, Proxies, j
  <2>7. WalkEnd(w) = Server(k)
    BY <1>7 DEF WalkEnd, j
  <2>8. /\ e \in Elements /\ TlsElements(k) \in Seq(Elements) /\ before \in Seq(Elements)
        /\ Pushed(k) = TlsElements(k) \o <<e>>
    BY <1>2, <2>2, ElementsAre
  <2>9. all = before \o Pushed(k)
    <3>1. Len(StackBlocks) = Proxies /\ StackBlocks[Proxies] = Pushed(Proxies)
      BY <1>1, <2>2 DEF StackBlocks
    <3> QED
      BY <1>2, <2>2, <3>1 DEF FlattensTo
  <2>10. flat \in Seq(Deeds) /\ Layers(k) \in Seq(Deeds)
    BY <2>4, <2>5 DEF Aligned, Pieces
  <2> HIDE DEF e, before, flat, hop, all
  <2>11. DialOf(hop) \in Seq(Deeds)
    <3>1. [did |-> "dial", at |-> 0, addr |-> hop] \in Deeds
      BY <2>4, DeedsAre, ChainAssumption
    <3> QED
      BY <3>1 DEF DialOf
  <2>12. WalkRoute(w) = DialOf(hop) \o r
    BY <2>6, <2>10, <2>11, DeedsConcat
  <2>13. Aligned(s, r, hop, Server(k))
    BY <2>4, <2>5, AlignedConcat
  <2>14. <<e>> \in Seq(Elements)
    BY <2>8
  <2>15. t \in Seq(Elements) /\ s \in Seq(Elements)
    BY <1>5, <2>8, <2>14, ConcatProperties
  <2>16. all = s \o <<e>>
    BY <2>8, <2>9, <2>14, ElementsConcat
  <2>17. all \o Top(j) = s \o t
    <3> HIDE DEF s
    <3> QED
      BY <1>5, <2>14, <2>15, <2>16, ElementsConcat
  <2> HIDE DEF s, r, t
  <2>18. Laid(Bottom \o (s \o t), WalkRoute(w), Server(k)) /\ Len(WalkRoute(w)) = 1 + Len(s)
    BY <2>4, <2>12, <2>13, <2>15, LaidOut
  <2>19. Len(all) = Len(s) + 1 /\ Len(s) \in Nat
    BY <2>8, <2>15, <2>16, Behind
  <2>20. RouteEnd(j) = 1 + Len(s)
    <3>1. RouteEnd(j) = Base(j) - 1 /\ Base(j) = 1 + Len(all)
      BY <1>4, <1>7 DEF RouteEnd, TopIs, all
    <3> QED
      BY <2>19, <3>1
  <2>21. StackOf(j) = Bottom \o (s \o t)
    BY <1>3, <2>17 DEF all
  <2> QED
    BY <2>7, <2>18, <2>20, <2>21 DEF j
<1> QED
  BY <1>6, <1>7
----------------------------------------------------------------------------
(***************************************************************************)
(* One walk: going down, its frames are those of the elements above it;    *)
(* coming up, its trace is the route so far.                               *)
(***************************************************************************)
WalkPcs == {"idle", "resolving", "down", "up", "open", "failed", "dropped"}
Frames == [element : Elements, addr : Addresses]

Stacked(frames, s, r, m) ==
  /\ Len(frames) = Len(r) - m
  /\ \A i \in 1 .. Len(frames) : frames[i] = FrameAt(s, r, Len(r) - i + 1)

Travelled(trace, r) == \A q \in 1 .. Len(trace) : trace[q] = r[q]

WalkType(v) ==
  v \in [pc : WalkPcs, pos : Nat, frames : Seq(Frames), addr : Addresses, trace : Seq(Deeds)]

WalkSound(v, s, r) ==
  /\ WalkType(v)
  /\ v.pc = "down" => /\ v.pos \in 1 .. Len(r) /\ v.addr = r[v.pos].addr
                      /\ Stacked(v.frames, s, r, v.pos) /\ v.trace = <<>>
  /\ v.pc = "up" => /\ v.pos = 1 /\ Len(v.trace) \in 1 .. Len(r)
                    /\ Travelled(v.trace, r) /\ Stacked(v.frames, s, r, Len(v.trace))
  /\ v.pc = "open" => v.pos = 1 /\ v.trace = r
  /\ v.pc \notin {"down", "up", "open"} => v.pos = 1 /\ v.trace = <<>>

LEMMA AtRest ==
  ASSUME NEW s, NEW r, NEW pc \in WalkPcs, pc \notin {"down", "up", "open"}
  PROVE  WalkSound([NoWalk EXCEPT !.pc = pc], s, r)
<1> DEFINE v == [NoWalk EXCEPT !.pc = pc]
<1>1. v = [pc |-> pc, pos |-> 1, frames |-> <<>>, addr |-> Target, trace |-> <<>>]
  BY DEF NoWalk
<1>2. Target \in Addresses /\ <<>> \in Seq(Frames) /\ <<>> \in Seq(Deeds)
  BY DEF Addresses
<1>3. v.pc = pc /\ v.pos = 1 /\ v.trace = <<>>
  BY <1>1
<1> HIDE DEF v
<1>4. WalkType(v)
  BY <1>1, <1>2 DEF WalkType
<1>5. WalkSound(v, s, r)
  BY <1>3, <1>4 DEF WalkSound
<1> QED
  BY <1>5 DEF v

LEMMA WalkingIs ==
  ASSUME NEW pos, NEW addr
  PROVE  Walking(pos, addr) = [pc |-> "down", pos |-> pos, frames |-> <<>>, addr |-> addr, trace |-> <<>>]
<1> DEFINE v == [NoWalk EXCEPT !.pc = "down"]
           u == [v EXCEPT !.pos = pos]
<1>1. v = [pc |-> "down", pos |-> 1, frames |-> <<>>, addr |-> Target, trace |-> <<>>]
  BY DEF NoWalk
<1> HIDE DEF v
<1>2. u = [pc |-> "down", pos |-> pos, frames |-> <<>>, addr |-> Target, trace |-> <<>>]
  BY <1>1
<1>3. Walking(pos, addr) = [u EXCEPT !.addr = addr]
  BY DEF Walking, u, v
<1> HIDE DEF u
<1> QED
  BY <1>2, <1>3

LEMMA SetsOut ==
  ASSUME NEW s, NEW r, NEW dest \in Addresses, Laid(s, r, dest)
  PROVE  WalkSound(Walking(Len(r), dest), s, r)
<1> DEFINE v == Walking(Len(r), dest)
<1>1. v = [pc |-> "down", pos |-> Len(r), frames |-> <<>>, addr |-> dest, trace |-> <<>>]
  BY WalkingIs
<1>2. r \in Seq(Deeds) /\ Len(r) \in Nat /\ Len(r) \in 1 .. Len(r) /\ r[Len(r)].addr = dest
  BY DEF Laid
<1>3. WalkType(v)
  <2>1. "down" \in WalkPcs /\ <<>> \in Seq(Frames) /\ <<>> \in Seq(Deeds)
    BY DEF WalkPcs
  <2> QED
    BY <1>1, <1>2, <2>1 DEF WalkType
<1>4. Stacked(<<>>, s, r, Len(r))
  BY <1>2 DEF Stacked
<1>5. v.pc = "down" /\ v.pos = Len(r) /\ v.frames = <<>> /\ v.addr = dest /\ v.trace = <<>>
  BY <1>1
<1> HIDE DEF v
<1>6. WalkSound(v, s, r)
  BY <1>2, <1>3, <1>4, <1>5 DEF WalkSound
<1> QED
  BY <1>6 DEF v

\* Only the bottom is dialled.
LEMMA RawIsBottom ==
  ASSUME NEW s, NEW r, NEW dest, Laid(s, r, dest), NEW q \in 1 .. Len(r)
  PROVE  s[q].kind = "raw" <=> q = 1
<1>1. q # 1 => q \in 2 .. Len(r)
  BY DEF Laid
<1>2. q # 1 => s[q].kind \in Kinds
  BY <1>1 DEF Laid, Fits
<1> QED
  BY <1>2 DEF Laid, Kinds

LEMMA DialStep ==
  ASSUME NEW s, NEW r, NEW dest, Laid(s, r, dest), NEW v, WalkSound(v, s, r),
         v.pc = "down", s[v.pos].kind = "raw"
  PROVE  WalkSound([v EXCEPT !.pc = "up", !.trace = <<[did |-> "dial", at |-> 0, addr |-> v.addr]>>], s, r)
<1> DEFINE d == [did |-> "dial", at |-> 0, addr |-> v.addr]
           u == [v EXCEPT !.pc = "up", !.trace = <<d>>]
<1>1. v.pos \in 1 .. Len(r) /\ v.addr = r[v.pos].addr /\ Stacked(v.frames, s, r, v.pos) /\ WalkType(v)
  BY DEF WalkSound
<1>2. v.pos = 1
  BY <1>1, RawIsBottom
<1>3. r[1] = d
  BY <1>1, <1>2 DEF Laid
<1>4. r \in Seq(Deeds) /\ Len(r) \in Nat /\ 1 \in 1 .. Len(r)
  BY <1>1, <1>2 DEF Laid
<1>5. d \in Deeds
  BY <1>3, <1>4
<1> HIDE DEF d
<1>6. <<d>> \in Seq(Deeds) /\ Len(<<d>>) = 1 /\ <<d>>[1] = d
  BY <1>5
<1>7. u.pc = "up" /\ u.pos = 1 /\ u.frames = v.frames /\ u.trace = <<d>> /\ WalkType(u)
  BY <1>1, <1>2, <1>6 DEF WalkType, WalkPcs
<1>8. Travelled(<<d>>, r)
  BY <1>3, <1>6 DEF Travelled
<1> HIDE DEF u
<1>9. Stacked(u.frames, s, r, Len(u.trace)) /\ Len(u.trace) \in 1 .. Len(r)
  BY <1>1, <1>2, <1>4, <1>6, <1>7
<1>10. WalkSound(u, s, r)
  BY <1>7, <1>8, <1>9 DEF WalkSound
<1> QED
  BY <1>10 DEF u, d

LEMMA DownStep ==
  ASSUME NEW s, NEW r, NEW dest, Laid(s, r, dest), NEW v, WalkSound(v, s, r),
         v.pc = "down", s[v.pos].kind # "raw"
  PROVE  LET frame == [element |-> s[v.pos], addr |-> v.addr]
         IN  WalkSound([v EXCEPT !.pos = @ - 1, !.frames = Append(@, frame), !.addr = AskedBelow(frame)], s, r)
<1> DEFINE frame == [element |-> s[v.pos], addr |-> v.addr]
           u == [v EXCEPT !.pos = @ - 1, !.frames = Append(@, frame), !.addr = AskedBelow(frame)]
<1>1. v.pos \in 1 .. Len(r) /\ v.addr = r[v.pos].addr /\ Stacked(v.frames, s, r, v.pos) /\ WalkType(v)
      /\ v.trace = <<>>
  BY DEF WalkSound
<1>2. s \in Seq(Elements) /\ r \in Seq(Deeds) /\ Len(r) \in Nat /\ Len(r) <= Len(s) /\ Len(s) \in Nat
  BY DEF Laid
<1>3. v.pos \in 2 .. Len(r) /\ v.pos - 1 \in 1 .. Len(r) /\ v.pos - 1 \in Nat
  <2>1. v.pos # 1
    BY <1>1, RawIsBottom
  <2> QED
    BY <1>1, <1>2, <2>1
<1>4. frame = FrameAt(s, r, v.pos)
  BY <1>1 DEF FrameAt
<1>5. AskedBelow(frame) = r[v.pos - 1].addr
  BY <1>3, <1>4 DEF Laid, Meets
<1>6. frame \in Frames
  <2>1. v.pos \in 1 .. Len(s)
    BY <1>1, <1>2
  <2>2. s[v.pos] \in Elements
    BY <1>2, <2>1
  <2> QED
    BY <1>1, <2>2 DEF Frames, WalkType
<1>7. AskedBelow(frame) \in Addresses
  <2>1. r[v.pos - 1] \in Deeds
    BY <1>2, <1>3
  <2> QED
    BY <1>5, <2>1, DeedsAre
<1> HIDE DEF frame
<1>8. v.frames \in Seq(Frames)
  BY <1>1 DEF WalkType
<1>9. /\ Append(v.frames, frame) \in Seq(Frames)
      /\ Len(Append(v.frames, frame)) = Len(v.frames) + 1
      /\ \A i \in 1 .. Len(v.frames) : Append(v.frames, frame)[i] = v.frames[i]
      /\ Append(v.frames, frame)[Len(v.frames) + 1] = frame
  BY <1>6, <1>8, AppendProperties
<1>10. /\ u.pc = "down" /\ u.pos = v.pos - 1 /\ u.frames = Append(v.frames, frame)
       /\ u.addr = AskedBelow(frame) /\ u.trace = <<>>
       /\ WalkType(u)
  BY <1>1, <1>3, <1>7, <1>9 DEF WalkType
<1>11. Len(v.frames) = Len(r) - v.pos /\ Len(v.frames) \in Nat
  BY <1>1, <1>8 DEF Stacked
<1>12. Len(r) - (Len(v.frames) + 1) + 1 = v.pos
  BY <1>1, <1>2, <1>11
<1> HIDE DEF u
<1>13. ASSUME NEW i \in 1 .. Len(v.frames) + 1
       PROVE  Append(v.frames, frame)[i] = FrameAt(s, r, Len(r) - i + 1)
  <2>1. CASE i \in 1 .. Len(v.frames)
    BY <1>1, <1>9, <2>1 DEF Stacked
  <2>2. CASE i = Len(v.frames) + 1
    <3>1. Len(r) - i + 1 = v.pos
      BY <1>12, <2>2
    <3> QED
      BY <1>4, <1>9, <2>2, <3>1
  <2> QED
    BY <1>11, <2>1, <2>2
<1>14. Stacked(u.frames, s, r, u.pos)
  <2>1. Len(v.frames) + 1 = Len(r) - (v.pos - 1)
    BY <1>2, <1>3, <1>11
  <2> QED
    BY <1>9, <1>10, <1>13, <2>1 DEF Stacked
<1>15. WalkSound(u, s, r)
  BY <1>3, <1>5, <1>10, <1>14 DEF WalkSound
<1> QED
  BY <1>15 DEF u, frame

LEMMA UpStep ==
  ASSUME NEW s, NEW r, NEW dest, Laid(s, r, dest), NEW v, WalkSound(v, s, r),
         v.pc = "up", v.frames # <<>>
  PROVE  WalkSound([v EXCEPT !.frames = Front(@), !.trace = Append(@, Deed(Last(v.frames)))], s, r)
<1> DEFINE n == Len(v.trace)
           m == Len(v.frames)
           d == Deed(Last(v.frames))
           u == [v EXCEPT !.frames = Front(@), !.trace = Append(@, d)]
<1>1. v.pos = 1 /\ n \in 1 .. Len(r) /\ Travelled(v.trace, r) /\ Stacked(v.frames, s, r, n) /\ WalkType(v)
  BY DEF WalkSound
<1>2. v.frames \in Seq(Frames) /\ v.trace \in Seq(Deeds)
  BY <1>1 DEF WalkType
<1>3. m \in Nat \ {0} /\ n \in Nat
  BY <1>2, EmptySeq
<1>4. r \in Seq(Deeds) /\ Len(r) \in Nat
  BY DEF Laid
<1>5. m = Len(r) - n
  BY <1>1 DEF Stacked
<1>6. n + 1 \in 2 .. Len(r) /\ n + 1 \in 1 .. Len(r) /\ Len(r) - m + 1 = n + 1 /\ m \in 1 .. m
  BY <1>1, <1>3, <1>4, <1>5
<1>7. Last(v.frames) = FrameAt(s, r, n + 1)
  <2>1. v.frames[m] = FrameAt(s, r, Len(r) - m + 1)
    BY <1>1, <1>6 DEF Stacked
  <2> QED
    BY <1>6, <2>1 DEF Last
<1>8. d = r[n + 1] /\ d \in Deeds
  <2>1. Fits(s, r, n + 1)
    BY <1>6 DEF Laid
  <2>2. d = r[n + 1]
    BY <1>7, <2>1 DEF Fits
  <2> QED
    BY <1>4, <1>6, <2>2
<1> HIDE DEF d
<1>9. /\ Append(v.trace, d) \in Seq(Deeds)
      /\ Len(Append(v.trace, d)) = n + 1
      /\ \A i \in 1 .. n : Append(v.trace, d)[i] = v.trace[i]
      /\ Append(v.trace, d)[n + 1] = d
  BY <1>2, <1>8, AppendProperties
<1>10. /\ Front(v.frames) \in Seq(Frames) /\ Len(Front(v.frames)) = m - 1
       /\ \A i \in 1 .. m - 1 : Front(v.frames)[i] = v.frames[i]
  <2>1. \A i \in 1 .. m - 1 : v.frames[i] \in Frames
    BY <1>2, <1>3
  <2>2. /\ SubSeq(v.frames, 1, m - 1) \in Seq(Frames)
        /\ Len(SubSeq(v.frames, 1, m - 1)) = IF 1 <= m - 1 THEN (m - 1) - 1 + 1 ELSE 0
        /\ \A i \in 1 .. (m - 1) - 1 + 1 : SubSeq(v.frames, 1, m - 1)[i] = v.frames[1 + i - 1]
    <3>1. m - 1 \in Int /\ 1 \in Int
      BY <1>3
    <3> QED
      BY <2>1, <3>1, SubSeqProperties
  <2>3. Front(v.frames) = SubSeq(v.frames, 1, m - 1)
    BY DEF Front
  <2> HIDE DEF m
  <2>4. \A i \in 1 .. m - 1 : i \in 1 .. (m - 1) - 1 + 1 /\ 1 + i - 1 = i
    BY <1>3
  <2>5. (IF 1 <= m - 1 THEN (m - 1) - 1 + 1 ELSE 0) = m - 1
    BY <1>3
  <2> QED
    BY <2>2, <2>3, <2>4, <2>5
<1>11. /\ u.pc = "up" /\ u.pos = 1 /\ u.frames = Front(v.frames) /\ u.trace = Append(v.trace, d)
       /\ WalkType(u)
  BY <1>1, <1>9, <1>10 DEF WalkType
<1> HIDE DEF u, n, m
<1>12. Travelled(u.trace, r)
  <2>1. ASSUME NEW q \in 1 .. n + 1 PROVE Append(v.trace, d)[q] = r[q]
    <3>1. CASE q \in 1 .. n
      BY <1>1, <1>9, <3>1 DEF Travelled, n
    <3>2. CASE q = n + 1
      BY <1>8, <1>9, <3>2
    <3>3. q \in 1 .. n \/ q = n + 1
      BY <1>3
    <3> QED
      BY <3>1, <3>2, <3>3
  <2> QED
    BY <1>9, <1>11, <2>1 DEF Travelled
<1>13. Stacked(u.frames, s, r, n + 1)
  <2>1. m - 1 = Len(r) - (n + 1)
    BY <1>3, <1>4, <1>5
  <2>2. \A i \in 1 .. m - 1 : i \in 1 .. m
    BY <1>3
  <2>3. \A i \in 1 .. m - 1 : v.frames[i] = FrameAt(s, r, Len(r) - i + 1)
    BY <1>1, <2>2 DEF Stacked, m
  <2> QED
    BY <1>10, <1>11, <2>1, <2>3 DEF Stacked
<1>14. Len(u.trace) = n + 1 /\ Len(u.trace) \in 1 .. Len(r)
  BY <1>6, <1>9, <1>11
<1>15. WalkSound(u, s, r)
  BY <1>11, <1>12, <1>13, <1>14 DEF WalkSound
<1> QED
  BY <1>15 DEF u, d

LEMMA ReturnStep ==
  ASSUME NEW s, NEW r, NEW dest, Laid(s, r, dest), NEW v, WalkSound(v, s, r),
         v.pc = "up", v.frames = <<>>
  PROVE  v.trace = r /\ WalkSound([v EXCEPT !.pc = "open"], s, r)
<1>1. v.pos = 1 /\ Len(v.trace) \in 1 .. Len(r) /\ Travelled(v.trace, r)
      /\ Stacked(v.frames, s, r, Len(v.trace)) /\ WalkType(v)
  BY DEF WalkSound
<1>2. r \in Seq(Deeds) /\ v.trace \in Seq(Deeds) /\ Len(r) \in Nat
  BY <1>1 DEF Laid, WalkType
<1>3. Len(v.trace) = Len(r)
  <2>1. 0 = Len(r) - Len(v.trace)
    BY <1>1 DEF Stacked
  <2> QED
    BY <1>1, <1>2, <2>1
<1>4. v.trace = r
  BY <1>1, <1>2, <1>3, SeqEqual DEF Travelled
<1> DEFINE u == [v EXCEPT !.pc = "open"]
<1>5. u.pc = "open" /\ u.pos = 1 /\ u.trace = r /\ WalkType(u)
  BY <1>1, <1>4 DEF WalkType, WalkPcs
<1> HIDE DEF u
<1>6. WalkSound(u, s, r)
  BY <1>5 DEF WalkSound
<1> QED
  BY <1>4, <1>6 DEF u
----------------------------------------------------------------------------
(***************************************************************************)
(* The inductive invariant.                                                *)
(***************************************************************************)
JobPcs == {"idle", "descend", "racing", "connecting", "forwarding", "connected",
           "forward", "done", "failed", "dropped"}

\* A job has the connection of one of the walks it may start, and at its end the
\* last words behind it.
Carried(j, trace) ==
  \E b \in {"plain"} \cup Families : (b # "plain" => Races(j)) /\ trace = WalkRoute(<<j, b>>)

Arrived(j, trace) ==
  \E b \in {"plain"} \cup Families :
    (b # "plain" => Races(j)) /\ trace = WalkRoute(<<j, b>>) \o LastWords(j)

\* What a job may be in.
JobOk(j, v) ==
  /\ v \in [pc : JobPcs, pos : Nat, trace : Seq(Deeds)]
  /\ v.pos \in 1 .. Len(StackOf(j))
  /\ v.pc = "descend" => v.pos = Len(StackOf(j)) \/ (v.pos = Base(j) /\ Scheme(j) = "http")
  /\ v.pc = "racing" => Races(j) /\ v.pos = RouteEnd(j)
  /\ v.pc \in {"racing", "connecting", "connected"} => ~Forwarding(j)
  /\ v.pc \in {"forwarding", "forward"} => Forwarding(j)
  /\ v.pc \in {"connected", "forward"} => Carried(j, v.trace)
  /\ v.pc = "done" => Arrived(j, v.trace)

WalkOk(w, v) == WalkSound(v, StackOf(w[1]), WalkRoute(w))

\* A call of connect that goes on has a job waiting for it.
Busy(v) == v.pc \in {"resolving", "down", "up"}

WaitedFor(w, v, jobs) ==
  Busy(v) => \/ w[2] = "plain" /\ jobs[w[1]].pc \in {"connecting", "forwarding"}
             \/ w[2] # "plain" /\ w[1] = "main" /\ jobs["main"].pc = "racing"

\* Names are resolved only once the way is known.
DohLater(jobs) ==
  jobs["main"].pc \in {"idle", "descend"} => \A f \in Families : jobs[f].pc = "idle"

Whole(jobs, walks) ==
  /\ DOMAIN jobs = Jobs /\ DOMAIN walks = Walks
  /\ \A j \in Jobs : JobOk(j, jobs[j])
  /\ \A w \in Walks : WalkOk(w, walks[w])
  /\ \A w \in Walks : WaitedFor(w, walks[w], jobs)
  /\ DohLater(jobs)

IInv == ConfigOk /\ Whole(job, walk)

LEMMA Frozen ==
  ASSUME config' = config, request' = request
  PROVE  /\ ConfigOk' = ConfigOk
         /\ \A j : StackOf(j)' = StackOf(j) /\ Base(j)' = Base(j) /\ Scheme(j)' = Scheme(j)
         /\ \A j : Forwarding(j)' = Forwarding(j) /\ RouteEnd(j)' = RouteEnd(j) /\ Races(j)' = Races(j)
         /\ \A w : WalkRoute(w)' = WalkRoute(w)
         /\ \A j : LastWords(j)' = LastWords(j)
<1>1. ConfigOk' = ConfigOk
  BY DEF ConfigOk
<1>2. ASSUME NEW j PROVE StackOf(j)' = StackOf(j)
  BY DEF StackOf, Stack, Pushed, FragmentsAll, FlattenSeq, Element
<1>3. ASSUME NEW j PROVE Scheme(j)' = Scheme(j)
  BY DEF Scheme
<1>4. ASSUME NEW j PROVE FragmentWanted(j)' = FragmentWanted(j)
  BY DEF FragmentWanted
<1>5. ASSUME NEW j PROVE Base(j)' = Base(j)
  BY <1>2, <1>4 DEF Base
<1>6. ASSUME NEW j PROVE Forwarding(j)' = Forwarding(j)
  BY <1>3 DEF Forwarding, Last
<1>7. ASSUME NEW j PROVE RouteEnd(j)' = RouteEnd(j)
  BY <1>2, <1>3, <1>5, <1>6 DEF RouteEnd
<1>8. ASSUME NEW j PROVE Races(j)' = Races(j)
  BY DEF Races
<1>9. ASSUME NEW w PROVE WalkRoute(w)' = WalkRoute(w)
  <2>1. ASSUME NEW n, NEW dest PROVE Route(n, dest)' = Route(n, dest)
    BY DEF Route, Layers, Hop, FlattenSeq
  <2>2. ASSUME NEW j PROVE Dest(j)' = Dest(j)
    BY DEF Dest
  <2>3. WalkDest(w)' = WalkDest(w)
    BY <2>2 DEF WalkDest
  <2>4. ASSUME NEW j, NEW dest PROVE Fragmented(j, dest)' = Fragmented(j, dest)
    BY <1>3, <1>4 DEF Fragmented
  <2>5. ASSUME NEW k PROVE Layers(k)' = Layers(k)
    BY DEF Layers
  <2> QED
    BY <1>6, <2>1, <2>3, <2>4, <2>5 DEF WalkRoute
<1>10. ASSUME NEW j PROVE LastWords(j)' = LastWords(j)
  BY <1>3, <1>6 DEF LastWords, Said, RealHost
<1> QED
  BY <1>1, <1>2, <1>3, <1>5, <1>6, <1>7, <1>8, <1>9, <1>10

LEMMA Keeps ==
  ASSUME config' = config, request' = request, ConfigOk, Whole(job', walk')
  PROVE  IInv'
<1>1. ASSUME NEW j, JobOk(j, job'[j]) PROVE JobOk(j, job[j])'
  <2>1. ASSUME NEW v PROVE Carried(j, v)' = Carried(j, v) /\ Arrived(j, v)' = Arrived(j, v)
    <3>1. Races(j)' = Races(j) /\ LastWords(j)' = LastWords(j)
          /\ \A b : WalkRoute(<<j, b>>)' = WalkRoute(<<j, b>>)
      BY Frozen
    <3> QED
      BY <3>1 DEF Carried, Arrived
  <2> QED
    BY <1>1, <2>1, Frozen DEF JobOk
<1>2. ASSUME NEW w, WalkOk(w, walk'[w]) PROVE WalkOk(w, walk[w])'
  BY <1>2, Frozen DEF WalkOk
<1> QED
  BY <1>1, <1>2, Frozen DEF IInv, Whole, WaitedFor, DohLater
----------------------------------------------------------------------------
(***************************************************************************)
(* The steps of walks.                                                     *)
(***************************************************************************)
LEMMA WalkFacts ==
  ASSUME IInv, NEW w \in Walks
  PROVE  /\ Laid(StackOf(w[1]), WalkRoute(w), WalkEnd(w))
         /\ WalkSound(walk[w], StackOf(w[1]), WalkRoute(w))
         /\ w[1] \in Jobs /\ WalkEnd(w) \in Addresses
<1>1. w[1] \in Jobs /\ WalkDest(w) \in Addresses /\ ConfigOk
  BY WalkAddress DEF IInv
<1>2. Forwarding(w[1]) => Server(Proxies) \in Addresses
  <2>1. Forwarding(w[1]) => Proxies \in 1 .. Len(config.proxies)
    BY <1>1, ForwardingFacts, ConfigFacts DEF Proxies
  <2> QED
    BY <1>1, <2>1, ServerAddress
<1> QED
  BY <1>1, <1>2, WalkLaid DEF IInv, Whole, WalkOk, WalkEnd

\* A step of one walk that was going on.
LEMMA OneWalk ==
  ASSUME IInv, NEW w \in Walks, Busy(walk[w]), NEW v, WalkOk(w, v),
         walk' = [walk EXCEPT ![w] = v], UNCHANGED <<config, request, job>>
  PROVE  IInv'
<1>1. DOMAIN walk = Walks /\ Whole(job, walk) /\ ConfigOk
  BY DEF IInv, Whole
<1>2. DOMAIN walk' = Walks /\ walk'[w] = v /\ \A u \in Walks : u # w => walk'[u] = walk[u]
  BY <1>1
<1>3. \A u \in Walks : WalkOk(u, walk'[u])
  BY <1>1, <1>2 DEF Whole
<1>4. ASSUME NEW u \in Walks PROVE WaitedFor(u, walk'[u], job)
  <2>1. WaitedFor(w, walk[w], job) /\ WaitedFor(u, walk[u], job)
    BY <1>1 DEF Whole
  <2>2. CASE u = w
    BY <2>1, <2>2 DEF WaitedFor
  <2>3. CASE u # w
    BY <1>2, <2>1, <2>3
  <2> QED
    BY <2>2, <2>3
<1>5. Whole(job', walk')
  BY <1>1, <1>2, <1>3, <1>4 DEF Whole
<1> QED
  BY <1>1, <1>5, Keeps

LEMMA DialKeeps ==
  ASSUME IInv, NEW w \in Walks, Dial(w)
  PROVE  IInv'
<1> DEFINE v == [walk[w] EXCEPT !.pc = "up", !.trace = <<[did |-> "dial", at |-> 0, addr |-> walk[w].addr]>>]
<1>1. walk[w].pc = "down" /\ StackOf(w[1])[walk[w].pos].kind = "raw"
      /\ UNCHANGED <<config, request, job>>
  BY DEF Dial, Frame
<1>2. walk' = [walk EXCEPT ![w] = v]
  BY DEF Dial
<1>3. WalkOk(w, v)
  BY <1>1, WalkFacts, DialStep DEF WalkOk
<1> HIDE DEF v
<1> QED
  BY <1>1, <1>2, <1>3, OneWalk DEF Busy

LEMMA DownKeeps ==
  ASSUME IInv, NEW w \in Walks, Down(w)
  PROVE  IInv'
<1> DEFINE frame == [element |-> StackOf(w[1])[walk[w].pos], addr |-> walk[w].addr]
           v == [walk[w] EXCEPT !.pos = @ - 1, !.frames = Append(@, frame), !.addr = AskedBelow(frame)]
<1>1. walk[w].pc = "down" /\ StackOf(w[1])[walk[w].pos].kind # "raw"
      /\ UNCHANGED <<config, request, job>>
  BY DEF Down, Frame
<1>2. walk' = [walk EXCEPT ![w] = v]
  BY DEF Down, Frame
<1>3. WalkOk(w, v)
  BY <1>1, WalkFacts, DownStep DEF WalkOk
<1> HIDE DEF v
<1> QED
  BY <1>1, <1>2, <1>3, OneWalk DEF Busy

LEMMA UpKeeps ==
  ASSUME IInv, NEW w \in Walks, Up(w)
  PROVE  IInv'
<1> DEFINE v == [walk[w] EXCEPT !.frames = Front(@), !.trace = Append(@, Deed(Last(walk[w].frames)))]
<1>1. walk[w].pc = "up" /\ walk[w].frames # <<>> /\ UNCHANGED <<config, request, job>>
  BY DEF Up
<1>2. walk' = [walk EXCEPT ![w] = v]
  BY DEF Up
<1>3. WalkOk(w, v)
  BY <1>1, WalkFacts, UpStep DEF WalkOk
<1> HIDE DEF v
<1> QED
  BY <1>1, <1>2, <1>3, OneWalk DEF Busy

LEMMA WalkFailsKeeps ==
  ASSUME IInv, NEW w \in Walks, WalkFails(w)
  PROVE  IInv'
<1> DEFINE v == [NoWalk EXCEPT !.pc = "failed"]
<1>1. walk[w].pc \in {"down", "up"} /\ UNCHANGED <<config, request, job>>
  BY DEF WalkFails
<1>2. walk' = [walk EXCEPT ![w] = v]
  BY DEF WalkFails
<1>3. WalkOk(w, v)
  BY AtRest DEF WalkOk, WalkPcs
<1> HIDE DEF v
<1> QED
  BY <1>1, <1>2, <1>3, OneWalk DEF Busy
----------------------------------------------------------------------------
(***************************************************************************)
(* The steps of jobs.                                                      *)
(***************************************************************************)
JobRecs == [pc : JobPcs, pos : Nat, trace : Seq(Deeds)]

LEMMA JobFacts ==
  ASSUME IInv, NEW j \in Jobs
  PROVE  /\ JobOk(j, job[j]) /\ job[j] \in JobRecs /\ ConfigOk
         /\ DOMAIN job = Jobs /\ DOMAIN walk = Walks
         /\ \A b \in {"plain"} \cup Families :
              <<j, b>> \in Walks /\ <<j, b>>[1] = j /\ <<j, b>>[2] = b
         /\ \A f \in Families : f \in Jobs /\ f # "main" /\ f # "plain"
  BY DEF IInv, Whole, JobOk, JobRecs, Walks, Jobs, Families

\* A step that changes one job, and no other job's walks.
LEMMA OneJob ==
  ASSUME IInv, NEW j \in Jobs, NEW v, JobOk(j, v), job' = [job EXCEPT ![j] = v],
         UNCHANGED <<config, request>>, DOMAIN walk' = Walks,
         \A w \in Walks : WalkOk(w, walk'[w]),
         \A w \in Walks : w[1] # j => walk'[w] = walk[w],
         \A w \in Walks : w[1] = j => WaitedFor(w, walk'[w], job'),
         j = "main" /\ v.pc \in {"idle", "descend"} => job[j].pc \in {"idle", "descend"},
         j # "main" => job[j].pc # "idle"
  PROVE  IInv'
<1>1. DOMAIN job = Jobs /\ Whole(job, walk) /\ ConfigOk
  BY DEF IInv, Whole
<1>2. DOMAIN job' = Jobs /\ job'[j] = v /\ \A i \in Jobs : i # j => job'[i] = job[i]
  BY <1>1
<1>3. \A i \in Jobs : JobOk(i, job'[i])
  BY <1>1, <1>2 DEF Whole
<1>4. ASSUME NEW w \in Walks PROVE WaitedFor(w, walk'[w], job')
  <2>1. CASE w[1] = j
    BY <2>1
  <2>2. CASE w[1] # j
    <3>1. walk'[w] = walk[w] /\ WaitedFor(w, walk[w], job)
      BY <1>1, <2>2 DEF Whole
    <3>2. w[1] \in Jobs
      BY WalkAddress
    <3>3. job'[w[1]] = job[w[1]]
      BY <1>2, <2>2, <3>2
    <3> QED
      BY <3>1, <3>3 DEF WaitedFor
  <2> QED
    BY <2>1, <2>2
<1>5. DohLater(job')
  <2>0. DohLater(job)
    BY <1>1 DEF Whole
  <2>1. CASE j = "main"
    <3>1. \A f \in Families : job'[f] = job[f]
      BY <1>2, <2>1 DEF Jobs, Families
    <3> QED
      BY <1>2, <2>0, <2>1, <3>1 DEF DohLater
  <2>2. CASE j # "main"
    <3>1. j \in Families /\ job[j].pc # "idle" /\ job'["main"] = job["main"]
      BY <1>2, <2>2 DEF Jobs
    <3>2. job["main"].pc \notin {"idle", "descend"}
      BY <2>0, <3>1 DEF DohLater
    <3> QED
      BY <3>1, <3>2 DEF DohLater
  <2> QED
    BY <2>1, <2>2
<1>6. Whole(job', walk')
  BY <1>2, <1>3, <1>4, <1>5 DEF Whole
<1> QED
  BY <1>1, <1>6, Keeps

\* ... and none of its own, which are over.
LEMMA JobAlone ==
  ASSUME IInv, NEW j \in Jobs, NEW v, JobOk(j, v), job' = [job EXCEPT ![j] = v],
         UNCHANGED <<config, request, walk>>,
         \A w \in Walks : w[1] = j => ~Busy(walk[w]),
         j = "main" /\ v.pc \in {"idle", "descend"} => job[j].pc \in {"idle", "descend"},
         j # "main" => job[j].pc # "idle"
  PROVE  IInv'
<1>1. \A w \in Walks : w[1] = j => WaitedFor(w, walk'[w], job')
  BY DEF WaitedFor
<1>2. DOMAIN walk' = Walks /\ \A w \in Walks : WalkOk(w, walk'[w])
  BY DEF IInv, Whole
<1> QED
  BY <1>1, <1>2, OneJob

\* ... and starts a walk of its own.
LEMMA JobWalks ==
  ASSUME IInv, NEW j \in Jobs, NEW v, JobOk(j, v), v.pc \in {"connecting", "forwarding"},
         job' = [job EXCEPT ![j] = v],
         NEW u, WalkOk(<<j, "plain">>, u), walk' = [walk EXCEPT ![<<j, "plain">>] = u],
         UNCHANGED <<config, request>>,
         \A w \in Walks : w[1] = j /\ w # <<j, "plain">> => ~Busy(walk[w]),
         j # "main" => job[j].pc # "idle"
  PROVE  IInv'
<1> DEFINE x == <<j, "plain">>
<1>1. x \in Walks /\ x[1] = j /\ x[2] = "plain" /\ DOMAIN walk = Walks /\ DOMAIN job = Jobs
  BY JobFacts
<1>2. DOMAIN walk' = Walks /\ walk'[x] = u /\ \A w \in Walks : w # x => walk'[w] = walk[w]
  BY <1>1
<1>3. WalkOk(x, u)
  OBVIOUS
<1> HIDE DEF x
<1>4. \A w \in Walks : WalkOk(w, walk'[w])
  BY <1>2, <1>3 DEF IInv, Whole
<1>5. \A w \in Walks : w[1] # j => walk'[w] = walk[w]
  BY <1>1, <1>2
<1>6. ASSUME NEW w \in Walks, w[1] = j PROVE WaitedFor(w, walk'[w], job')
  <2>1. CASE w = x
    <3>1. job'[w[1]] = v /\ w[2] = "plain"
      BY <1>1, <1>6, <2>1
    <3> QED
      BY <3>1 DEF WaitedFor
  <2>2. CASE w # x
    <3>1. ~Busy(walk[w]) /\ walk'[w] = walk[w]
      BY <1>2, <1>6, <2>2 DEF x
    <3> QED
      BY <3>1 DEF WaitedFor
  <2> QED
    BY <2>1, <2>2
<1> QED
  BY <1>2, <1>4, <1>5, <1>6, OneJob

\* Nothing waits for a walk of a job that is in none of the three states.
LEMMA NoWalksOf ==
  ASSUME IInv, NEW j \in Jobs, job[j].pc \notin {"racing", "connecting", "forwarding"},
         NEW w \in Walks, w[1] = j
  PROVE  ~Busy(walk[w])
<1>1. WaitedFor(w, walk[w], job)
  BY DEF IInv, Whole
<1> QED
  BY <1>1 DEF WaitedFor

LEMMA WalkStarts ==
  ASSUME ConfigOk, NEW w \in Walks
  PROVE  /\ WalkOk(w, Walking(RouteEnd(w[1]), WalkEnd(w)))
         /\ RouteEnd(w[1]) \in 1 .. Len(StackOf(w[1]))
<1>1. Laid(StackOf(w[1]), WalkRoute(w), WalkEnd(w)) /\ Len(WalkRoute(w)) = RouteEnd(w[1])
  BY WalkLaid
<1>2. RouteEnd(w[1]) \in 1 .. Len(StackOf(w[1]))
  BY <1>1 DEF Laid
<1>3. w[1] \in Jobs /\ WalkDest(w) \in Addresses
  BY WalkAddress
<1>4. Forwarding(w[1]) => Server(Proxies) \in Addresses
  <2>1. Forwarding(w[1]) => Proxies \in 1 .. Len(config.proxies)
    BY <1>3, ForwardingFacts, ConfigFacts DEF Proxies
  <2> QED
    BY <2>1, ServerAddress
<1>5. WalkEnd(w) \in Addresses
  BY <1>3, <1>4 DEF WalkEnd
<1>6. WalkSound(Walking(Len(WalkRoute(w)), WalkEnd(w)), StackOf(w[1]), WalkRoute(w))
  BY <1>1, <1>5, SetsOut
<1> QED
  BY <1>1, <1>2, <1>6 DEF WalkOk

LEMMA StackLength ==
  ASSUME ConfigOk, NEW j \in Jobs
  PROVE  Len(StackOf(j)) \in Nat \ {0} /\ 1 \in 1 .. Len(StackOf(j)) /\ Len(StackOf(j)) \in 1 .. Len(StackOf(j))
<1>1. <<j, "plain">> \in Walks /\ <<j, "plain">>[1] = j
  BY DEF Walks
<1>2. Laid(StackOf(j), WalkRoute(<<j, "plain">>), WalkEnd(<<j, "plain">>))
  BY <1>1, WalkLaid
<1> QED
  BY <1>2 DEF Laid

LEMMA SendingOk ==
  ASSUME ConfigOk, NEW j \in Jobs
  PROVE  JobOk(j, Sending(j)) /\ Sending(j).pc = "descend"
<1>1. Sending(j) = [pc |-> "descend", pos |-> Len(StackOf(j)), trace |-> <<>>]
  <2> DEFINE half == [NoJob EXCEPT !.pc = "descend"]
  <2>1. half = [pc |-> "descend", pos |-> 1, trace |-> <<>>]
    BY DEF NoJob
  <2>2. Sending(j) = [half EXCEPT !.pos = Len(StackOf(j))]
    BY DEF Sending
  <2> HIDE DEF half
  <2> QED
    BY <2>1, <2>2
<1>2. Sending(j) \in [pc : JobPcs, pos : Nat, trace : Seq(Deeds)]
  <2>1. "descend" \in JobPcs /\ <<>> \in Seq(Deeds) /\ Len(StackOf(j)) \in Nat
    BY StackLength DEF JobPcs
  <2> QED
    BY <1>1, <2>1
<1> DEFINE v == Sending(j)
<1>3. v.pc = "descend" /\ v.pos = Len(StackOf(j))
  BY <1>1
<1> HIDE DEF v
<1>4. JobOk(j, v)
  BY <1>2, <1>3, StackLength DEF JobOk, v
<1> QED
  BY <1>3, <1>4 DEF v

LEMMA NoJobOk ==
  ASSUME ConfigOk, NEW j \in Jobs, NEW pc \in {"idle", "dropped"}
  PROVE  JobOk(j, [NoJob EXCEPT !.pc = pc]) /\ [NoJob EXCEPT !.pc = pc].pc = pc
<1> DEFINE v == [NoJob EXCEPT !.pc = pc]
<1>1. v = [pc |-> pc, pos |-> 1, trace |-> <<>>]
  BY DEF NoJob
<1>2. v \in [pc : JobPcs, pos : Nat, trace : Seq(Deeds)]
  <2>1. pc \in JobPcs /\ <<>> \in Seq(Deeds)
    BY DEF JobPcs
  <2> HIDE DEF v
  <2> QED
    BY <1>1, <2>1
<1>3. v.pc = pc /\ v.pos = 1
  BY <1>1
<1> HIDE DEF v
<1>4. JobOk(j, v)
  BY <1>2, <1>3, StackLength DEF JobOk
<1> QED
  BY <1>3, <1>4 DEF v
LEMMA WalkEndIs ==
  ASSUME NEW j \in Jobs, ~Forwarding(j)
  PROVE  /\ WalkEnd(<<j, "plain">>) = Dest(j)
         /\ \A f \in Families : WalkEnd(<<j, f>>) = Address(f)
  BY DEF WalkEnd, WalkDest, Families

\* Connecting, with the way known: of one walk, or of a race and its queries.
LEMMA ConnectKeeps ==
  ASSUME IInv, NEW j \in Jobs, ~Forwarding(j), Connect(j, RouteEnd(j)), UNCHANGED <<config, request>>,
         job[j].pc = "descend" \/ (j = "main" /\ job[j].pc = "idle")
  PROVE  IInv'
<1> DEFINE pos == RouteEnd(j)
           x == <<j, "plain">>
<1>1. JobOk(j, job[j]) /\ job[j] \in JobRecs /\ ConfigOk /\ DOMAIN job = Jobs /\ DOMAIN walk = Walks
      /\ x \in Walks /\ x[1] = j /\ x[2] = "plain"
  BY JobFacts
<1>2. pos \in 1 .. Len(StackOf(j)) /\ pos \in Nat
  BY <1>1, WalkStarts
<1>3. \A w \in Walks : w[1] = j => ~Busy(walk[w])
  BY NoWalksOf
<1>4. CASE ~Races(j)
  <2> DEFINE v == [job[j] EXCEPT !.pc = "connecting", !.pos = pos]
             u == Walking(pos, Dest(j))
  <2>1. job' = [job EXCEPT ![j] = v]
    <3>1. job' = [job EXCEPT ![j].pc = "connecting", ![j].pos = pos]
      BY <1>4 DEF Connect
    <3> QED
      BY <1>1, <3>1
  <2>2. walk' = [walk EXCEPT ![x] = u]
    BY <1>4 DEF Connect
  <2>3. v \in JobRecs /\ v.pc = "connecting" /\ v.pos = pos
    <3> HIDE DEF pos
    <3> QED
      BY <1>1, <1>2 DEF JobRecs, JobPcs
  <2> HIDE DEF v
  <2>4. JobOk(j, v)
    BY <1>2, <2>3 DEF JobOk, JobRecs
  <2>5. WalkOk(x, u)
    BY <1>1, WalkStarts, WalkEndIs
  <2> HIDE DEF u
  <2> QED
    BY <1>3, <2>1, <2>2, <2>3, <2>4, <2>5, JobWalks
<1>5. CASE Races(j)
  <2>1. j = "main" /\ Races("main")
    BY <1>5 DEF Races
  <2> DEFINE v == [job[j] EXCEPT !.pc = "racing", !.pos = pos]
             u == [NoWalk EXCEPT !.pc = "resolving"]
  <2>2. job' = [i \in Jobs |-> IF i = j THEN v ELSE Sending(i)]
    BY <1>5 DEF Connect
  <2>3. walk' = [w \in Walks |-> IF w \in {j} \X Families THEN u ELSE walk[w]]
    BY <1>5 DEF Connect
  <2>4. v \in JobRecs /\ v.pc = "racing" /\ v.pos = pos
    <3> HIDE DEF pos
    <3> QED
      BY <1>1, <1>2 DEF JobRecs, JobPcs
  <2> HIDE DEF v
  <2>5. JobOk(j, v)
    BY <1>2, <1>5, <2>4 DEF JobOk, JobRecs
  <2>6. \A i \in Jobs : JobOk(i, Sending(i))
    BY <1>1, SendingOk
  <2>7. \A i \in Jobs : JobOk(i, job'[i])
    BY <2>2, <2>5, <2>6
  <2>8. \A w : WalkOk(w, u)
    BY AtRest DEF WalkOk, WalkPcs
  <2> HIDE DEF u
  <2>9. \A w \in Walks : WalkOk(w, walk'[w])
    BY <2>3, <2>8 DEF IInv, Whole
  <2>10. job'["main"].pc = "racing"
    BY <1>1, <2>1, <2>2, <2>4
  <2>11. ASSUME NEW w \in Walks PROVE WaitedFor(w, walk'[w], job')
    <3>1. CASE w \in {j} \X Families
      <4>1. w[1] = "main" /\ w[2] # "plain"
        BY <2>1, <3>1 DEF Families
      <4> QED
        BY <2>10, <4>1 DEF WaitedFor
    <3>2. CASE w \notin {j} \X Families
      <4>1. walk'[w] = walk[w] /\ w[1] \in Jobs
        BY <2>3, <3>2, WalkAddress
      <4>2. ~Busy(walk[w])
        <5>1. CASE w[1] = j
          BY <1>3, <5>1
        <5>2. CASE w[1] # j
          <6>1. w[1] \in Families
            BY <2>1, <4>1, <5>2 DEF Jobs
          <6>2. job[w[1]].pc = "idle"
            BY <2>1, <6>1 DEF IInv, Whole, DohLater
          <6> QED
            BY <4>1, <6>2, NoWalksOf
        <5> QED
          BY <5>1, <5>2
      <4> QED
        BY <4>1, <4>2 DEF WaitedFor
    <3> QED
      BY <3>1, <3>2
  <2>12. DohLater(job')
    BY <2>10 DEF DohLater
  <2>13. DOMAIN job' = Jobs /\ DOMAIN walk' = Walks
    BY <2>2, <2>3
  <2>14. Whole(job', walk')
    BY <2>7, <2>9, <2>11, <2>12, <2>13 DEF Whole
  <2> QED
    BY <1>1, <2>14, Keeps
<1> QED
  BY <1>4, <1>5

LEMMA TopFacts ==
  ASSUME ConfigOk, NEW j \in Jobs
  PROVE  TopIs(j, Base(j))
<1>1. PICK f \in [0 .. Proxies -> Seq(Elements)] :
        /\ FlattensTo(StackBlocks, f)
        /\ \A i \in Jobs : StackOf(i) = Bottom \o (f[Proxies] \o Top(i))
  BY StackIs
<1>2. TopIs(j, 1 + Len(f[Proxies]))
  BY <1>1, StackTop
<1> QED
  BY <1>2 DEF TopIs

LEMMA ArriveTunnelKeeps ==
  ASSUME IInv, ArriveTunnel
  PROVE  IInv'
<1>1. "main" \in Jobs /\ ConfigOk
  BY DEF Jobs, IInv
<1>2. Scheme("main") \in {"connect", "tproxy"}
  BY DEF ArriveTunnel, Scheme
<1>3. ~Forwarding("main")
  BY <1>2 DEF Forwarding
<1>4. RouteEnd("main") = Len(StackOf("main"))
  BY <1>2, <1>3 DEF RouteEnd
<1>5. StackOf("main") = Stack
  BY DEF StackOf
<1> QED
  BY <1>1, <1>3, <1>4, <1>5, ConnectKeeps DEF ArriveTunnel

LEMMA ArriveRequestKeeps ==
  ASSUME IInv, ArriveRequest
  PROVE  IInv'
<1>1. "main" \in Jobs /\ ConfigOk /\ "main" \notin Families
  BY DEF Jobs, IInv, Families
<1>2. JobOk("main", Sending("main"))
  BY <1>1, SendingOk
<1>3. job["main"].pc = "idle" /\ job' = [job EXCEPT !["main"] = Sending("main")]
      /\ UNCHANGED <<config, request, walk>>
  BY DEF ArriveRequest
<1>4. \A w \in Walks : w[1] = "main" => ~Busy(walk[w])
  BY <1>1, <1>3, NoWalksOf
<1> QED
  BY <1>1, <1>2, <1>3, <1>4, JobAlone

LEMMA DescendKeeps ==
  ASSUME IInv, NEW j \in Jobs, Descend(j)
  PROVE  IInv'
<1> DEFINE pos == job[j].pos
           s == StackOf(j)
           e == s[pos]
           x == <<j, "plain">>
<1>1. JobOk(j, job[j]) /\ job[j] \in JobRecs /\ ConfigOk /\ DOMAIN job = Jobs
      /\ x \in Walks /\ x[1] = j /\ x[2] = "plain"
  BY JobFacts
<1>2. job[j].pc = "descend" /\ UNCHANGED <<config, request>>
  BY DEF Descend
<1>3. pos = Len(s) \/ (pos = Base(j) /\ Scheme(j) = "http")
  BY <1>1, <1>2 DEF JobOk
<1>4. pos \in 1 .. Len(s)
  BY <1>1 DEF JobOk
<1>5. TopIs(j, Base(j))
  BY <1>1, TopFacts
<1>6. Base(j) \in 1 .. Len(s) /\ Len(s) \in Nat /\ Proxies \in Nat
  BY <1>1, <1>5, StackLength, ConfigFacts DEF TopIs, Proxies
<1>7. s[Base(j)].kind \in {"raw", "http", "socks"}
      /\ (s[Base(j)].kind = "http" <=> Proxies # 0 /\ config.proxies[Proxies].main = "http")
      /\ (s[Base(j)].kind = "http" => s[Base(j)].at = Proxies)
  <2>1. CASE Proxies = 0
    BY <1>5, <2>1 DEF TopIs
  <2>2. CASE Proxies # 0
    <3>1. s[Base(j)] = Element(config.proxies[Proxies].main, Proxies)
      BY <1>5, <2>2 DEF TopIs
    <3>2. config.proxies[Proxies].main \in {"http", "socks"}
      BY <1>1, <1>6, <2>2, ConfigFacts DEF Proxies
    <3>3. s[Base(j)].kind = config.proxies[Proxies].main /\ s[Base(j)].at = Proxies
      BY <3>1 DEF Element
    <3> QED
      BY <2>2, <3>2, <3>3
  <2> QED
    BY <2>1, <2>2
<1>8. /\ FragmentWanted(j) => Len(s) = Base(j) + 1 /\ s[Len(s)].kind = "fragment"
      /\ ~FragmentWanted(j) => Len(s) = Base(j)
  BY <1>5 DEF TopIs
<1>9. e.kind # "fragment" => pos = Base(j) \/ Scheme(j) # "http"
  BY <1>3, <1>8
<1>10. Forwarding(j) <=> Scheme(j) = "http" /\ s[Base(j)].kind = "http"
  BY <1>1, <1>7, ForwardingFacts
<1>11. \A w \in Walks : w[1] = j => ~Busy(walk[w])
  BY <1>2, NoWalksOf
<1>12. CASE /\ PassesOn(e, Scheme(j))
            /\ job' = [job EXCEPT ![j].pos = pos - 1]
            /\ UNCHANGED walk
  <2> DEFINE v == [job[j] EXCEPT !.pos = pos - 1]
  <2>1. e.kind = "fragment" /\ Scheme(j) = "http"
    BY <1>12 DEF PassesOn
  <2>2. pos # Base(j)
    BY <1>7, <2>1
  <2>3. pos = Len(s) /\ Len(s) = Base(j) + 1
    BY <1>3, <1>8, <2>2
  <2>4. pos - 1 = Base(j) /\ pos - 1 \in Nat
    BY <1>6, <2>3
  <2>5. job' = [job EXCEPT ![j] = v]
    BY <1>1, <1>12
  <2>6. v.pc = "descend" /\ v.pos = Base(j) /\ v \in JobRecs
    <3> DEFINE b == pos - 1
    <3>1. b \in Nat /\ b = Base(j)
      BY <2>4
    <3> HIDE DEF b
    <3>2. [job[j] EXCEPT !.pos = b].pc = "descend" /\ [job[j] EXCEPT !.pos = b].pos = b
          /\ [job[j] EXCEPT !.pos = b] \in JobRecs
      BY <1>1, <1>2, <3>1 DEF JobRecs
    <3> QED
      BY <3>1, <3>2 DEF b
  <2> HIDE DEF v
  <2>7. JobOk(j, v)
    BY <1>6, <2>1, <2>6 DEF JobOk, JobRecs
  <2> QED
    BY <1>2, <1>11, <1>12, <2>5, <2>6, <2>7, JobAlone
<1>13. CASE /\ Forwards(e, Scheme(j))
            /\ job' = [job EXCEPT ![j].pc = "forwarding"]
            /\ walk' = [walk EXCEPT ![<<j, "plain">>] = Walking(pos - 1, Server(e.at))]
  <2> DEFINE v == [job[j] EXCEPT !.pc = "forwarding"]
             u == Walking(pos - 1, Server(e.at))
  <2>1. e.kind = "http" /\ Scheme(j) = "http"
    BY <1>13 DEF Forwards
  <2>2. pos = Base(j)
    BY <1>9, <2>1
  <2>3. Forwarding(j) /\ e.at = Proxies
    BY <1>7, <1>10, <2>1, <2>2
  <2>4. pos - 1 = RouteEnd(j)
    BY <2>2, <2>3 DEF RouteEnd
  <2>5. Server(e.at) = WalkEnd(x)
    BY <1>1, <2>3 DEF WalkEnd
  <2>6. WalkOk(x, u)
    <3>1. WalkOk(x, Walking(RouteEnd(j), WalkEnd(x)))
      BY <1>1, WalkStarts
    <3> QED
      BY <2>4, <2>5, <3>1
  <2>7. job' = [job EXCEPT ![j] = v]
    BY <1>1, <1>13
  <2>8. v.pc = "forwarding" /\ v.pos = pos /\ v \in JobRecs
    BY <1>1 DEF JobRecs, JobPcs
  <2> HIDE DEF v
  <2>9. JobOk(j, v)
    BY <1>4, <2>3, <2>8 DEF JobOk, JobRecs
  <2> HIDE DEF u
  <2>10. walk' = [walk EXCEPT ![<<j, "plain">>] = u]
    BY <1>13 DEF u
  <2> QED
    BY <1>2, <1>11, <2>6, <2>7, <2>8, <2>9, <2>10, JobWalks
<1>14. CASE /\ ~PassesOn(e, Scheme(j)) /\ ~Forwards(e, Scheme(j))
            /\ Connect(j, pos)
  <2>1. Scheme(j) = "http" => e.kind # "fragment" /\ e.kind # "http"
    BY <1>14 DEF PassesOn, Forwards
  <2>2. Scheme(j) = "http" => pos = Base(j)
    BY <1>9, <2>1
  <2>3. ~Forwarding(j)
    BY <1>10, <2>1, <2>2
  <2>4. pos = RouteEnd(j)
    BY <1>3, <2>2, <2>3 DEF RouteEnd
  <2> QED
    BY <1>2, <1>14, <2>3, <2>4, ConnectKeeps
<1> QED
  BY <1>12, <1>13, <1>14 DEF Descend
LEMMA FallBackKeeps ==
  ASSUME IInv, FallBack
  PROVE  IInv'
<1> DEFINE x == <<"main", "plain">>
           v == [job["main"] EXCEPT !.pc = "connecting"]
           u == Walking(job["main"].pos, Target)
<1>0. "main" \in Jobs /\ "main" \notin Families
  BY DEF Jobs, Families
<1>1. JobOk("main", job["main"]) /\ job["main"] \in JobRecs /\ ConfigOk /\ DOMAIN job = Jobs
      /\ x \in Walks /\ x[1] = "main" /\ x[2] = "plain"
  BY <1>0, JobFacts
<1>2. job["main"].pc = "racing" /\ UNCHANGED <<config, request>>
      /\ \A f \in Families : walk[<<"main", f>>].pc = "failed"
  BY DEF FallBack
<1>3. job' = [job EXCEPT !["main"] = v]
  BY <1>1 DEF FallBack
<1>4. walk' = [walk EXCEPT ![<<"main", "plain">>] = u]
  BY DEF FallBack
<1>5. ~Forwarding("main") /\ job["main"].pos = RouteEnd("main")
  BY <1>1, <1>2 DEF JobOk
<1>6. v.pc = "connecting" /\ v.pos = job["main"].pos /\ v \in JobRecs
  BY <1>1 DEF JobRecs, JobPcs
<1> HIDE DEF v
<1>7. JobOk("main", v)
  BY <1>0, <1>1, <1>5, <1>6 DEF JobOk, JobRecs
<1>8. WalkEnd(x) = Target
  BY <1>0, <1>5, WalkEndIs DEF Dest
<1>9. WalkOk(x, u)
  BY <1>1, <1>5, <1>8, WalkStarts
<1>10. ASSUME NEW w \in Walks, w[1] = "main", w # x PROVE ~Busy(walk[w])
  <2>1. w = <<w[1], w[2]>> /\ w[2] \in {"plain"} \cup Families
    BY DEF Walks
  <2>2. w[2] \in Families /\ w = <<"main", w[2]>>
    BY <1>10, <2>1
  <2>3. walk[w].pc = "failed"
    BY <1>2, <2>2
  <2> QED
    BY <2>3 DEF Busy
<1> HIDE DEF u
<1> QED
  BY <1>0, <1>2, <1>3, <1>4, <1>6, <1>7, <1>9, <1>10, JobWalks

LEMMA ResolvedKeeps ==
  ASSUME IInv, NEW f \in Families, Resolved(f)
  PROVE  IInv'
<1> DEFINE x == <<"main", f>>
           y == <<f, "plain">>
<1>0. "main" \in Jobs /\ "main" \notin Families /\ f \in Jobs /\ f # "main" /\ f # "plain"
  BY DEF Jobs, Families
<1>1. /\ JobOk("main", job["main"]) /\ JobOk(f, job[f]) /\ ConfigOk
      /\ DOMAIN job = Jobs /\ DOMAIN walk = Walks
      /\ x \in Walks /\ x[1] = "main" /\ x[2] = f
      /\ y \in Walks /\ y[1] = f /\ y[2] = "plain"
  BY <1>0, JobFacts
<1>2. job["main"].pc = "racing" /\ job[f].pc \in {"done", "failed"} /\ UNCHANGED <<config, request>>
      /\ job' = [job EXCEPT ![f] = NoJob]
  BY DEF Resolved
<1>3. PICK branch \in {[NoWalk EXCEPT !.pc = "failed"], Walking(job["main"].pos, Address(f))} :
        walk' = [walk EXCEPT ![x] = branch, ![y] = NoWalk]
  BY DEF Resolved
<1>4. ~Forwarding("main") /\ job["main"].pos = RouteEnd("main")
  BY <1>1, <1>2 DEF JobOk
<1>5. WalkOk(x, branch)
  <2>1. WalkEnd(x) = Address(f)
    BY <1>0, <1>4, WalkEndIs
  <2>2. WalkOk(x, Walking(job["main"].pos, Address(f)))
    BY <1>1, <1>4, <2>1, WalkStarts
  <2>3. WalkOk(x, [NoWalk EXCEPT !.pc = "failed"])
    BY AtRest DEF WalkOk, WalkPcs
  <2> QED
    BY <1>3, <2>2, <2>3
<1>6. [NoWalk EXCEPT !.pc = "idle"] = NoWalk /\ [NoJob EXCEPT !.pc = "idle"] = NoJob
      /\ NoWalk.pc = "idle" /\ NoJob.pc = "idle"
  BY DEF NoWalk, NoJob
<1>7. WalkOk(y, NoWalk)
  <2>1. WalkOk(y, [NoWalk EXCEPT !.pc = "idle"])
    BY AtRest DEF WalkOk, WalkPcs
  <2> QED
    BY <1>6, <2>1
<1>8. JobOk(f, NoJob)
  BY <1>0, <1>1, <1>6, NoJobOk
<1>9. x # y
  BY <1>0, <1>1
<1> HIDE DEF x, y
<1>10. /\ DOMAIN walk' = Walks /\ walk'[x] = branch /\ walk'[y] = NoWalk
       /\ \A w \in Walks : w # x /\ w # y => walk'[w] = walk[w]
  BY <1>1, <1>3, <1>9
<1>11. DOMAIN job' = Jobs /\ job'[f] = NoJob /\ \A i \in Jobs : i # f => job'[i] = job[i]
  BY <1>0, <1>1, <1>2
<1>12. \A i \in Jobs : JobOk(i, job'[i])
  BY <1>8, <1>11 DEF IInv, Whole
<1>13. \A w \in Walks : WalkOk(w, walk'[w])
  BY <1>5, <1>7, <1>10 DEF IInv, Whole
<1>14. job'["main"].pc = "racing"
  BY <1>0, <1>2, <1>11
<1>15. ASSUME NEW w \in Walks PROVE WaitedFor(w, walk'[w], job')
  <2>1. CASE w = x
    BY <1>0, <1>1, <1>14, <2>1 DEF WaitedFor
  <2>2. CASE w = y
    BY <1>6, <1>10, <2>2 DEF WaitedFor, Busy
  <2>3. CASE w # x /\ w # y
    <3>1. walk'[w] = walk[w] /\ WaitedFor(w, walk[w], job) /\ w[1] \in Jobs
      BY <1>10, <2>3, WalkAddress DEF IInv, Whole
    <3>2. CASE w[1] = f
      <4>1. ~Busy(walk[w])
        BY <1>0, <1>2, <3>2, NoWalksOf
      <4> QED
        BY <3>1, <4>1 DEF WaitedFor
    <3>3. CASE w[1] # f
      <4>1. job'[w[1]] = job[w[1]]
        BY <1>11, <3>1, <3>3
      <4> QED
        BY <1>2, <1>14, <3>1, <4>1 DEF WaitedFor
    <3> QED
      BY <3>2, <3>3
  <2> QED
    BY <2>1, <2>2, <2>3
<1>16. DohLater(job')
  BY <1>14 DEF DohLater
<1>17. Whole(job', walk')
  BY <1>10, <1>11, <1>12, <1>13, <1>15, <1>16 DEF Whole
<1> QED
  BY <1>1, <1>2, <1>17, Keeps

LEMMA ReturnKeeps ==
  ASSUME IInv, NEW j \in Jobs, NEW b \in {"plain"} \cup Families, Return(j, b)
  PROVE  IInv'
<1> DEFINE x == <<j, b>>
           v == [job[j] EXCEPT !.pc = IF @ = "forwarding" THEN "forward" ELSE "connected",
                               !.trace = walk[x].trace]
           gone == [NoJob EXCEPT !.pc = "dropped"]
           lost == [NoWalk EXCEPT !.pc = "dropped"]
           u == [walk[x] EXCEPT !.pc = "open"]
           drops(i) == i # j /\ b \in Families /\ job[i].pc \notin {"idle", "done", "failed"}
           loses(w) == w # x /\ b \in Families /\ walk[w].pc \notin {"idle", "open", "failed"}
<1>0. "main" \in Jobs /\ "main" \notin Families /\ "plain" \notin Families
  BY DEF Jobs, Families
<1>1. /\ JobOk(j, job[j]) /\ job[j] \in JobRecs /\ ConfigOk
      /\ DOMAIN job = Jobs /\ DOMAIN walk = Walks
      /\ x \in Walks /\ x[1] = j /\ x[2] = b
  BY JobFacts
<1>2. walk[x].pc = "up" /\ walk[x].frames = <<>> /\ UNCHANGED <<config, request>>
  BY DEF Return
<1>3. walk' = [w \in Walks |-> IF w = x THEN u ELSE IF loses(w) THEN lost ELSE walk[w]]
  BY <1>1 DEF Return
<1>4. job' = [i \in Jobs |-> IF i = j THEN v ELSE IF drops(i) THEN gone ELSE job[i]]
  BY <1>1 DEF Return
<1>5. WalkOk(x, u) /\ walk[x].trace \in Seq(Deeds) /\ walk[x].trace = WalkRoute(x)
  <2>1. Laid(StackOf(x[1]), WalkRoute(x), WalkEnd(x)) /\ WalkSound(walk[x], StackOf(x[1]), WalkRoute(x))
    BY <1>1, WalkFacts
  <2>2. WalkSound(u, StackOf(x[1]), WalkRoute(x)) /\ walk[x].trace = WalkRoute(x)
    BY <1>2, <2>1, ReturnStep
  <2> HIDE DEF x
  <2> QED
    BY <2>1, <2>2 DEF WalkOk, WalkSound, WalkType
<1>6. WaitedFor(x, walk[x], job) /\ Busy(walk[x])
  BY <1>1, <1>2 DEF IInv, Whole, Busy
<1>7. \/ b = "plain" /\ job[j].pc \in {"connecting", "forwarding"}
      \/ b \in Families /\ j = "main" /\ job["main"].pc = "racing"
  BY <1>1, <1>6 DEF WaitedFor
<1>8. /\ v \in JobRecs /\ v.pos = job[j].pos /\ v.trace = walk[x].trace
      /\ v.pc = IF job[j].pc = "forwarding" THEN "forward" ELSE "connected"
  BY <1>1, <1>5 DEF JobRecs, JobPcs
<1> HIDE DEF v, u
<1>9. JobOk(j, v)
  <2>1. job[j].pc = "forwarding" => Forwarding(j)
    BY <1>1 DEF JobOk
  <2>2. job[j].pc # "forwarding" => ~Forwarding(j)
    BY <1>1, <1>7 DEF JobOk
  <2>3. Carried(j, v.trace)
    <3>1. b # "plain" => Races(j)
      BY <1>1, <1>7 DEF JobOk
    <3>2. v.trace = WalkRoute(<<j, b>>)
      BY <1>5, <1>8
    <3> QED
      BY <3>1, <3>2 DEF Carried
  <2>4. job[j].pos \in 1 .. Len(StackOf(j))
    BY <1>1 DEF JobOk
  <2> QED
    BY <1>8, <2>1, <2>2, <2>3, <2>4 DEF JobOk, JobRecs
<1>10. gone.pc = "dropped" /\ lost.pc = "dropped"
  BY DEF NoJob, NoWalk
<1>11. ASSUME NEW i \in Jobs PROVE JobOk(i, job'[i])
  <2>1. CASE i = j
    BY <1>4, <1>9, <2>1
  <2>2. CASE i # j /\ drops(i)
    <3>1. JobOk(i, gone)
      BY <1>1, NoJobOk
    <3> QED
      BY <1>4, <2>2, <3>1
  <2>3. CASE i # j /\ ~drops(i)
    BY <1>4, <2>3 DEF IInv, Whole
  <2> QED
    BY <2>1, <2>2, <2>3
<1>12. ASSUME NEW w \in Walks PROVE WalkOk(w, walk'[w])
  <2>1. CASE w = x
    BY <1>3, <1>5, <2>1
  <2>2. CASE w # x /\ loses(w)
    <3>1. WalkOk(w, lost)
      BY AtRest DEF WalkOk, WalkPcs
    <3> QED
      BY <1>3, <2>2, <3>1
  <2>3. CASE w # x /\ ~loses(w)
    BY <1>3, <2>3 DEF IInv, Whole
  <2> QED
    BY <2>1, <2>2, <2>3
<1> HIDE DEF gone, lost
<1>13. ASSUME NEW w \in Walks PROVE WaitedFor(w, walk'[w], job')
  <2>0. WaitedFor(w, walk[w], job) /\ w[1] \in Jobs
    BY WalkAddress DEF IInv, Whole
  <2>1. CASE w = x
    <3>1. walk'[w] = u /\ u.pc = "open"
      BY <1>1, <1>3, <1>5, <2>1 DEF u, WalkOk, WalkSound, WalkType
    <3> QED
      BY <3>1 DEF WaitedFor, Busy
  <2>2. CASE w # x /\ b \in Families
    <3>1. ~Busy(walk'[w])
      BY <1>3, <1>10, <2>2 DEF Busy
    <3> QED
      BY <3>1 DEF WaitedFor
  <2>3. CASE w # x /\ b \notin Families
    <3>1. walk'[w] = walk[w] /\ b = "plain" /\ job[j].pc \in {"connecting", "forwarding"}
      BY <1>3, <1>7, <2>3
    <3>2. CASE w[1] = j
      <4>1. w[2] # "plain"
        <5>1. w = <<w[1], w[2]>>
          BY DEF Walks
        <5> QED
          BY <2>3, <3>1, <3>2, <5>1
      <4>2. ~Busy(walk[w])
        BY <2>0, <3>1, <3>2, <4>1 DEF WaitedFor
      <4> QED
        BY <3>1, <4>2 DEF WaitedFor
    <3>3. CASE w[1] # j
      <4>1. job'[w[1]] = job[w[1]]
        BY <1>4, <2>0, <2>3, <3>3
      <4> QED
        BY <2>0, <3>1, <3>3, <4>1 DEF WaitedFor
    <3> QED
      BY <3>2, <3>3
  <2> QED
    BY <2>1, <2>2, <2>3
<1>14. DohLater(job')
  <2>0. DohLater(job)
    BY DEF IInv, Whole
  <2>1. CASE j = "main"
    <3>1. job'["main"].pc \in {"forward", "connected"}
      BY <1>0, <1>4, <1>8, <2>1
    <3> QED
      BY <3>1 DEF DohLater
  <2>2. CASE j # "main"
    <3>1. j \in Families /\ b = "plain" /\ job[j].pc # "idle"
      BY <1>7, <2>2 DEF Jobs
    <3>2. job["main"].pc \notin {"idle", "descend"}
      BY <2>0, <3>1 DEF DohLater
    <3>3. job'["main"] = job["main"]
      BY <1>0, <1>4, <2>2, <3>1
    <3> QED
      BY <3>2, <3>3 DEF DohLater
  <2> QED
    BY <2>1, <2>2
<1>15. DOMAIN job' = Jobs /\ DOMAIN walk' = Walks
  BY <1>3, <1>4
<1>16. Whole(job', walk')
  BY <1>11, <1>12, <1>13, <1>14, <1>15 DEF Whole
<1> QED
  BY <1>1, <1>2, <1>16, Keeps
\* What is sent at the end of a job are its last words.
LEMMA LastDeedsAre ==
  ASSUME ConfigOk, NEW j \in Jobs
  PROVE  /\ LastWords(j) \in Seq(Deeds)
         /\ ~Forwarding(j) => LastWords(j) = LastDeeds(j)
         /\ Forwarding(j) => LastWords(j) = <<Sent(j, "forward", Len(config.proxies))>>
<1>1. Host(j) = RealHost(j)
  BY DEF Host, RealHost
<1>2. \A did, at : Sent(j, did, at) = Said(j, did, at)
  BY <1>1, Zenon DEF Sent, Said
<1>3. RealHost(j) \in Addresses
  BY DEF RealHost, Addresses
<1>4. \A did \in {"tls", "send", "forward"}, at \in 0 .. MaxProxies : Said(j, did, at) \in Deeds
  BY <1>3, DeedsAre DEF Said
<1>5. 0 \in 0 .. MaxProxies /\ Len(config.proxies) \in 0 .. MaxProxies
  BY ChainAssumption, ConfigFacts
<1>6. /\ Said(j, "forward", Len(config.proxies)) \in Deeds
      /\ Said(j, "send", 0) \in Deeds /\ Said(j, "tls", 0) \in Deeds
  BY <1>4, <1>5
<1>7. Forwarding(j) => Scheme(j) = "http"
  BY DEF Forwarding
<1> HIDE DEF Said
<1>8. LastWords(j) \in Seq(Deeds)
  BY <1>6 DEF LastWords
<1> QED
  BY <1>2, <1>7, <1>8 DEF LastWords, LastDeeds

LEMMA FinishKeeps ==
  ASSUME IInv, NEW j \in Jobs, Finish(j)
  PROVE  IInv'
<1> DEFINE all == job[j].trace \o LastDeeds(j)
           v == [job[j] EXCEPT !.pc = "done", !.trace = all]
<1>1. JobOk(j, job[j]) /\ job[j] \in JobRecs /\ ConfigOk /\ DOMAIN job = Jobs
  BY JobFacts
<1>2. job[j].pc = "connected" /\ UNCHANGED <<config, request, walk>> /\ job' = [job EXCEPT ![j] = v]
  BY <1>1 DEF Finish
<1>3. ~Forwarding(j) /\ job[j].pos \in 1 .. Len(StackOf(j)) /\ Carried(j, job[j].trace)
  BY <1>1, <1>2 DEF JobOk
<1>4. job[j].trace \in Seq(Deeds) /\ LastDeeds(j) \in Seq(Deeds) /\ LastDeeds(j) = LastWords(j)
  BY <1>1, <1>3, LastDeedsAre DEF JobRecs
<1>5. all \in Seq(Deeds)
  BY <1>4, ConcatProperties
<1>6. Arrived(j, all)
  BY <1>3, <1>4 DEF Carried, Arrived
<1> HIDE DEF all
<1>7. v \in JobRecs /\ v.pc = "done" /\ v.pos = job[j].pos /\ v.trace = all
  BY <1>1, <1>5 DEF JobRecs, JobPcs
<1> HIDE DEF v
<1>8. JobOk(j, v)
  BY <1>3, <1>6, <1>7 DEF JobOk, JobRecs
<1>9. \A w \in Walks : w[1] = j => ~Busy(walk[w])
  BY <1>2, NoWalksOf
<1> QED
  BY <1>2, <1>7, <1>8, <1>9, JobAlone

LEMMA ForwardKeeps ==
  ASSUME IInv, NEW j \in Jobs, Forward(j)
  PROVE  IInv'
<1> DEFINE t == job[j].trace
           last == Sent(j, "forward", Len(config.proxies))
           all == Append(t, last)
           v == [job[j] EXCEPT !.pc = "done", !.trace = all]
<1>1. JobOk(j, job[j]) /\ job[j] \in JobRecs /\ ConfigOk /\ DOMAIN job = Jobs
  BY JobFacts
<1>2. job[j].pc = "forward" /\ UNCHANGED <<config, request, walk>> /\ job' = [job EXCEPT ![j] = v]
  BY <1>1 DEF Forward
<1>3. Forwarding(j) /\ job[j].pos \in 1 .. Len(StackOf(j)) /\ Carried(j, t)
  BY <1>1, <1>2 DEF JobOk
<1>4. t \in Seq(Deeds) /\ <<last>> = LastWords(j) /\ <<last>> \in Seq(Deeds)
  BY <1>1, <1>3, LastDeedsAre DEF JobRecs
<1>5. last \in Deeds
  <2> DEFINE one == <<last>>
  <2>1. one \in Seq(Deeds) /\ Len(one) = 1 /\ one[1] = last
    BY <1>4
  <2> HIDE DEF one
  <2>2. one[1] \in Deeds
    BY <2>1
  <2> QED
    BY <2>1, <2>2
<1> HIDE DEF t, last
<1>6. all \in Seq(Deeds) /\ all = t \o <<last>>
  BY <1>4, <1>5, AppendProperties, AppendIsConcat
<1>7. Arrived(j, all)
  BY <1>3, <1>4, <1>6 DEF Carried, Arrived
<1> HIDE DEF all
<1>8. v \in JobRecs /\ v.pc = "done" /\ v.pos = job[j].pos /\ v.trace = all
  BY <1>1, <1>6 DEF JobRecs, JobPcs
<1> HIDE DEF v
<1>9. JobOk(j, v)
  BY <1>3, <1>7, <1>8 DEF JobOk, JobRecs
<1>10. \A w \in Walks : w[1] = j => ~Busy(walk[w])
  BY <1>2, NoWalksOf
<1> QED
  BY <1>2, <1>8, <1>9, <1>10, JobAlone

LEMMA JobFailsKeeps ==
  ASSUME IInv, NEW j \in Jobs, JobFails(j)
  PROVE  IInv'
<1> DEFINE v == [job[j] EXCEPT !.pc = "failed"]
<1>1. JobOk(j, job[j]) /\ job[j] \in JobRecs /\ ConfigOk /\ DOMAIN job = Jobs
  BY JobFacts
<1>2. /\ UNCHANGED <<config, request, walk>> /\ job' = [job EXCEPT ![j] = v]
      /\ \/ job[j].pc \in {"connected", "forward"}
         \/ job[j].pc \in {"connecting", "forwarding"} /\ walk[<<j, "plain">>].pc = "failed"
  BY <1>1 DEF JobFails
<1>3. v \in JobRecs /\ v.pc = "failed" /\ v.pos = job[j].pos
  BY <1>1 DEF JobRecs, JobPcs
<1> HIDE DEF v
<1>4. JobOk(j, v)
  BY <1>1, <1>2, <1>3 DEF JobOk, JobRecs
<1>5. ASSUME NEW w \in Walks, w[1] = j PROVE ~Busy(walk[w])
  <2>1. CASE job[j].pc \in {"connected", "forward"}
    BY <1>5, <2>1, NoWalksOf
  <2>2. CASE job[j].pc \in {"connecting", "forwarding"} /\ walk[<<j, "plain">>].pc = "failed"
    <3>1. w = <<j, w[2]>>
      BY <1>5 DEF Walks
    <3>2. CASE w[2] = "plain"
      BY <2>2, <3>1, <3>2 DEF Busy
    <3>3. CASE w[2] # "plain"
      <4>1. WaitedFor(w, walk[w], job)
        BY DEF IInv, Whole
      <4> QED
        BY <1>5, <2>2, <3>3, <4>1 DEF WaitedFor
    <3> QED
      BY <3>2, <3>3
  <2> QED
    BY <1>2, <2>1, <2>2
<1> QED
  BY <1>2, <1>3, <1>4, <1>5, JobAlone

----------------------------------------------------------------------------
(***************************************************************************)
(* The theorems.                                                           *)
(***************************************************************************)
LEMMA InitIInv == Init => IInv
<1> SUFFICES ASSUME Init PROVE IInv
  OBVIOUS
<1>1. ConfigOk
  BY DEF Init, ConfigOk
<1>2. job = [j \in Jobs |-> NoJob] /\ walk = [w \in Walks |-> NoWalk]
  BY DEF Init
<1>3. NoJob.pc = "idle" /\ NoWalk.pc = "idle"
      /\ [NoJob EXCEPT !.pc = "idle"] = NoJob /\ [NoWalk EXCEPT !.pc = "idle"] = NoWalk
  BY DEF NoJob, NoWalk
<1>4. \A j \in Jobs : JobOk(j, NoJob)
  BY <1>1, <1>3, NoJobOk
<1>5. \A w \in Walks : WalkOk(w, NoWalk)
  <2>1. \A w \in Walks : WalkOk(w, [NoWalk EXCEPT !.pc = "idle"])
    BY AtRest DEF WalkOk, WalkPcs
  <2> QED
    BY <1>3, <2>1
<1> HIDE DEF NoJob, NoWalk
<1>6. /\ DOMAIN job = Jobs /\ DOMAIN walk = Walks
      /\ \A j \in Jobs : job[j] = NoJob
      /\ \A w \in Walks : walk[w] = NoWalk
  <2>1. DOMAIN job = Jobs
    BY <1>2, Zenon
  <2>2. DOMAIN walk = Walks
    BY <1>2, Zenon
  <2>3. \A j \in Jobs : job[j] = NoJob
    BY <1>2, Zenon
  <2>4. \A w \in Walks : walk[w] = NoWalk
    BY <1>2, Zenon
  <2> QED
    BY <2>1, <2>2, <2>3, <2>4
<1>7. \A w \in Walks : WaitedFor(w, walk[w], job)
  <2>1. ~Busy(NoWalk)
    BY <1>3 DEF Busy
  <2>2. \A w \in Walks : WaitedFor(w, NoWalk, job)
    BY <2>1, Zenon DEF WaitedFor
  <2> QED
    BY <1>6, <2>2, Zenon
<1>8. DohLater(job)
  <2>1. \A f \in Families : f \in Jobs
    BY DEF Jobs
  <2>2. \A f \in Families : job[f].pc = "idle"
    BY <1>3, <1>6, <2>1, Zenon
  <2> QED
    BY <2>2, Zenon DEF DohLater
<1>9. \A j \in Jobs : JobOk(j, job[j])
  BY <1>4, <1>6, Zenon
<1>10. \A w \in Walks : WalkOk(w, walk[w])
  BY <1>5, <1>6, Zenon
<1>11. DOMAIN job = Jobs /\ DOMAIN walk = Walks
  BY <1>6
<1> QED
  BY <1>1, <1>7, <1>8, <1>9, <1>10, <1>11, Zenon DEF IInv, Whole

LEMMA StutterIInv == ASSUME IInv, UNCHANGED vars PROVE IInv'
<1>1. UNCHANGED <<config, request, job, walk>>
  BY DEF vars
<1>2. Whole(job', walk') /\ ConfigOk
  BY <1>1 DEF IInv
<1> QED
  BY <1>1, <1>2, Keeps

LEMMA NextIInv == IInv /\ [Next]_vars => IInv'
<1> SUFFICES ASSUME IInv, [Next]_vars PROVE IInv'
  OBVIOUS
<1>1. CASE ArriveTunnel
  BY <1>1, ArriveTunnelKeeps
<1>2. CASE ArriveRequest
  BY <1>2, ArriveRequestKeeps
<1>3. CASE FallBack
  BY <1>3, FallBackKeeps
<1>4. ASSUME NEW j \in Jobs, Descend(j) \/ Finish(j) \/ Forward(j) \/ JobFails(j) PROVE IInv'
  BY <1>4, DescendKeeps, FinishKeeps, ForwardKeeps, JobFailsKeeps
<1>5. ASSUME NEW f \in Families, Resolved(f) PROVE IInv'
  BY <1>5, ResolvedKeeps
<1>6. ASSUME NEW w \in Walks, Dial(w) \/ Down(w) \/ Up(w) \/ WalkFails(w) PROVE IInv'
  BY <1>6, DialKeeps, DownKeeps, UpKeeps, WalkFailsKeeps
<1>7. ASSUME NEW j \in Jobs, NEW b \in {"plain"} \cup Families, Return(j, b) PROVE IInv'
  BY <1>7, ReturnKeeps
<1>8. CASE UNCHANGED vars
  BY <1>8, StutterIInv
<1> QED
  BY <1>1, <1>2, <1>3, <1>4, <1>5, <1>6, <1>7, <1>8 DEF Next

\* The inductive invariant holds of every behaviour.
THEOREM ChainInvariant == Spec => []IInv
  BY InitIInv, NextIInv, PTL DEF Spec

LEMMA TypeFromIInv == IInv => TypeOK
<1> SUFFICES ASSUME IInv PROVE TypeOK
  OBVIOUS
<1>1. config \in Configs /\ request \in Requests
  BY DEF IInv, ConfigOk
<1>2. ASSUME NEW j \in Jobs
      PROVE  job[j].pc \in JobPcs /\ job[j].pos \in 1 .. Len(StackOf(j)) /\ job[j].trace \in Seq(Deeds)
  BY DEF IInv, Whole, JobOk
<1>3. ASSUME NEW w \in Walks
      PROVE  walk[w].pc \in WalkPcs /\ walk[w].pos \in 1 .. Len(StackOf(w[1])) /\ walk[w].trace \in Seq(Deeds)
  <2>1. Laid(StackOf(w[1]), WalkRoute(w), WalkEnd(w)) /\ WalkSound(walk[w], StackOf(w[1]), WalkRoute(w))
        /\ w[1] \in Jobs
    BY WalkFacts
  <2>2. WalkType(walk[w])
    BY <2>1 DEF WalkSound
  <2>3. Len(WalkRoute(w)) \in 1 .. Len(StackOf(w[1])) /\ 1 \in 1 .. Len(StackOf(w[1]))
        /\ Len(WalkRoute(w)) \in Nat /\ Len(StackOf(w[1])) \in Nat
    <3>1. ConfigOk
      BY DEF IInv
    <3> QED
      BY <2>1, <3>1, StackLength DEF Laid
  <2>4. CASE walk[w].pc = "down"
    <3>1. walk[w].pos \in 1 .. Len(WalkRoute(w))
      BY <2>1, <2>4 DEF WalkSound
    <3>2. walk[w].pos \in 1 .. Len(StackOf(w[1]))
      BY <2>3, <3>1
    <3> QED
      BY <2>2, <3>2 DEF WalkType
  <2>5. CASE walk[w].pc # "down"
    <3>1. walk[w].pos = 1
      BY <2>1, <2>5 DEF WalkSound
    <3> QED
      BY <2>2, <2>3, <3>1 DEF WalkType
  <2> QED
    BY <2>4, <2>5
<1> QED
  BY <1>1, <1>2, <1>3 DEF TypeOK, JobPcs, WalkPcs

LEMMA PrefixIs ==
  ASSUME NEW S, NEW t \in Seq(S), NEW r \in Seq(S), Len(t) <= Len(r), Travelled(t, r)
  PROVE  IsPrefix(t, r)
<1> DEFINE n == Len(t)
<1>1. n \in Nat /\ Len(r) \in Nat /\ n \in Int /\ 1 \in Int
  OBVIOUS
<1>2. \A i \in 1 .. n : t[i] \in S /\ r[i] \in S /\ t[i] = r[i]
  BY <1>1 DEF Travelled
<1>3. /\ SubSeq(t, 1, n) \in Seq(S) /\ Len(SubSeq(t, 1, n)) = IF 1 <= n THEN n - 1 + 1 ELSE 0
      /\ \A i \in 1 .. n - 1 + 1 : SubSeq(t, 1, n)[i] = t[1 + i - 1]
  BY <1>1, <1>2, SubSeqProperties
<1>4. /\ SubSeq(r, 1, n) \in Seq(S) /\ Len(SubSeq(r, 1, n)) = IF 1 <= n THEN n - 1 + 1 ELSE 0
      /\ \A i \in 1 .. n - 1 + 1 : SubSeq(r, 1, n)[i] = r[1 + i - 1]
  BY <1>1, <1>2, SubSeqProperties
<1> HIDE DEF n
<1>5. (IF 1 <= n THEN n - 1 + 1 ELSE 0) = n /\ \A i \in 1 .. n : i \in 1 .. n - 1 + 1 /\ 1 + i - 1 = i
  BY <1>1
<1>6. \A i \in 1 .. n : SubSeq(t, 1, n)[i] = SubSeq(r, 1, n)[i]
  BY <1>2, <1>3, <1>4, <1>5
<1>7. SubSeq(t, 1, n) = SubSeq(r, 1, n)
  BY <1>3, <1>4, <1>5, <1>6, SeqEqual
<1> QED
  BY <1>7 DEF IsPrefix, n

LEMMA HopsFromIInv == IInv => HopsInOrder
<1> SUFFICES ASSUME IInv PROVE HopsInOrder
  OBVIOUS
<1>1. TypeOK
  BY TypeFromIInv
<1>2. ASSUME NEW w \in Walks
      PROVE  /\ IsPrefix(walk[w].trace, WalkRoute(w))
             /\ walk[w].pc = "open" => walk[w].trace = WalkRoute(w)
  <2> DEFINE t == walk[w].trace
             r == WalkRoute(w)
  <2>1. Laid(StackOf(w[1]), r, WalkEnd(w)) /\ WalkSound(walk[w], StackOf(w[1]), r)
    BY WalkFacts
  <2>2. r \in Seq(Deeds) /\ t \in Seq(Deeds) /\ Len(r) \in Nat
    BY <2>1 DEF WalkSound, WalkType, Laid
  <2>3. walk[w].pc = "open" => t = r
    BY <2>1 DEF WalkSound
  <2>4. Len(t) <= Len(r) /\ Travelled(t, r)
    <3>1. CASE walk[w].pc = "up"
      <4>1. Len(t) \in 1 .. Len(r) /\ Travelled(t, r)
        BY <2>1, <3>1 DEF WalkSound
      <4> QED
        BY <2>2, <4>1
    <3>2. CASE walk[w].pc = "open"
      BY <2>2, <2>3, <3>2 DEF Travelled
    <3>3. CASE walk[w].pc \notin {"up", "open"}
      <4>1. t = <<>>
        BY <2>1, <3>3 DEF WalkSound
      <4> HIDE DEF t, r
      <4> QED
        BY <2>2, <4>1 DEF Travelled
    <3> QED
      BY <3>1, <3>2, <3>3
  <2> HIDE DEF t, r
  <2>5. IsPrefix(t, r)
    BY <2>2, <2>4, PrefixIs
  <2> QED
    BY <2>3, <2>5 DEF t, r
<1> QED
  BY <1>1, <1>2 DEF HopsInOrder

\* However many proxies with however many layers are configured: a connection
\* passes each once and in order, to the destination it is for, and what follows
\* is fragmented exactly if the configuration says so.
THEOREM PassesInOrder == Spec => []HopsInOrder
  BY ChainInvariant, HopsFromIInv, PTL

LEMMA ArrivesFromIInv == IInv => RequestArrives
<1> SUFFICES ASSUME IInv, NEW j \in Jobs, job[j].pc = "done"
             PROVE  LET n == Len(config.proxies)
                    IN  \/ /\ Forwarding(j)
                           /\ job[j].trace = Route(n - 1, Server(n)) \o Layers(n) \o LastWords(j)
                        \/ /\ ~Forwarding(j)
                           /\ \E dest \in AskedFor(j) :
                                job[j].trace = Route(n, dest) \o Fragmented(j, dest) \o LastWords(j)
  BY DEF RequestArrives
<1> DEFINE n == Len(config.proxies)
<1>1. Arrived(j, job[j].trace)
  BY DEF IInv, Whole, JobOk
<1>2. PICK b \in {"plain"} \cup Families :
        (b # "plain" => Races(j)) /\ job[j].trace = WalkRoute(<<j, b>>) \o LastWords(j)
  BY <1>1 DEF Arrived
<1>3. WalkDest(<<j, b>>) \in AskedFor(j)
  <2>1. CASE b = "plain"
    BY <2>1 DEF WalkDest, Dest, AskedFor
  <2>2. CASE b # "plain"
    <3>1. b \in Families /\ Races(j)
      BY <1>2, <2>2
    <3>2. j = "main" /\ config.doh /\ ~request.literal
      BY <3>1 DEF Races
    <3>3. WalkDest(<<j, b>>) = Address(b)
      BY <2>2 DEF WalkDest
    <3> QED
      BY <3>1, <3>2, <3>3 DEF AskedFor
  <2> QED
    BY <2>1, <2>2
<1>4. WalkRoute(<<j, b>>) = IF Forwarding(j) THEN Route(n - 1, Server(n)) \o Layers(n)
                            ELSE Route(n, WalkDest(<<j, b>>)) \o Fragmented(j, WalkDest(<<j, b>>))
  BY DEF WalkRoute
<1> QED
  BY <1>2, <1>3, <1>4, Zenon

\* ... and a request that is answered went that whole way, on the connection of
\* whichever branch won, before TLS and the request were said to the real host.
THEOREM ArrivesBehindChain == Spec => []RequestArrives
  BY ChainInvariant, ArrivesFromIInv, PTL
=============================================================================
