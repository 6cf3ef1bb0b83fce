-------------------------- MODULE SharedCacheProofs --------------------------
(***************************************************************************)
(* Proofs about the cache of DoH answers and those who ask through it.     *)
(*                                                                         *)
(* For any number of datagrams, clients, ids and questions, any cache and  *)
(* any channel, each reply of the relay is the one its client asked for,   *)
(* goes to that client, at most once, and says nothing older than a        *)
(* lifetime; and the cache holds what it should.  A reply is right because *)
(* the query it came from was answered (Answers, kept by doh_query) and    *)
(* because that query no longer changes (Right).  It is the only one       *)
(* because the tasks of the replies in the channel, at the socket and      *)
(* behind it are all different.                                            *)
(*                                                                         *)
(* For any number of calls next to the relay, over the same cache, the two *)
(* do not harm each other: the replies stay right, and a call connects     *)
(* only to addresses of its own host and family, lets the name out only    *)
(* after both families have failed, warns truly, and ends with one         *)
(* connection or none.  A call stands in one of five ways (CallSound),     *)
(* each of which says how far its branches, their queries and their        *)
(* sockets have come.  That an address is the right one rests on           *)
(* doh_query's own invariant: the body of a query that is done answers its *)
(* question, whoever cached it.                                            *)
(***************************************************************************)
EXTENDS SharedCache, SequenceTheorems, FiniteSetTheorems, TLAPS

----------------------------------------------------------------------------
(***************************************************************************)
(* What doh_query keeps of its cache and of each query, step by step, for  *)
(* any number of queries at once.  DohQuery has no specification of its    *)
(* own: its callers, the relay and the races below, cite the lemmas for    *)
(* the steps they take.                                                    *)
(***************************************************************************)
Query == [pc : Phases, id : Ids \cup {CacheId}, question : Questions \cup {NoQuestion},
          since : 0 .. MaxTime, body : Body \cup {NoBody}]

\* A body answers a query: with its id, for its question, and not with what
\* was said more than a lifetime before the query was made.
Answers(b, q) ==
  /\ b \in Body
  /\ b.id = q.id /\ b.question = q.question /\ b.kind # "short"
  /\ b.at + Ttl >= q.since

\* What is true of a query at the time n.
Sound(q, n) ==
  /\ q \in Query /\ q.since <= n
  /\ q.pc \in {"lookup", "asking", "answered"} => q.question \in Questions
  /\ q.pc = "answered" =>
       /\ q.body \in Body
       /\ q.body.id = CacheId /\ q.body.question = q.question /\ q.body.at = n
  /\ q.pc = "done" => Answers(q.body, q)

QueriesSound ==
  /\ now \in 0 .. MaxTime
  /\ query \in [Callers -> Query]
  /\ \A t \in Callers : Sound(query[t], now)

\* An entry has the answer to its key, as it came and since it came.
EntrySound(e) ==
  e.body.question = e.key /\ e.body.id = CacheId /\ e.body.at = e.born

OneEach(c) == \A i, j \in 1 .. Len(c) : c[i].key = c[j].key => i = j

EntriesSound ==
  /\ cache \in Seq(Entry) /\ Len(cache) <= CacheCap
  /\ OneEach(cache)
  /\ \A i \in 1 .. Len(cache) : EntrySound(cache[i])

DohInv == QueriesSound /\ EntriesSound

LEMMA DohInvTypes == DohInv => DohTypeOK /\ CacheSound
BY DEF DohInv, QueriesSound, EntriesSound, DohTypeOK, CacheSound, Query, OneEach, EntrySound

----------------------------------------------------------------------------
LEMMA NoQuerySound == 0 \in 0 .. MaxTime /\ Sound(NoQuery, 0)
BY DohAssumption DEF Sound, NoQuery, NoBody, Query, Phases

LEMMA DohInitInv == DohInit => DohInv
<1> SUFFICES ASSUME DohInit PROVE DohInv
  OBVIOUS
<1>1. QueriesSound
  BY NoQuerySound DEF DohInit, QueriesSound, Sound
<1>2. EntriesSound
  BY DohAssumption DEF DohInit, EntriesSound, OneEach
<1> QED
  BY <1>1, <1>2 DEF DohInv

\* What becomes of one query is sound at the same time: it is asked, ...
LEMMA AskedSound ==
  ASSUME now \in 0 .. MaxTime, NEW id \in Ids \cup {CacheId}, NEW question \in Questions
  PROVE  Sound(Asked(id, question), now)
BY DEF Sound, Asked, Query, Phases

\* ... has missed the cache, has failed, is left, ...
LEMMA PlainlySound ==
  ASSUME NEW n, NEW q, Sound(q, n)
  PROVE  /\ q.pc = "lookup" => Sound([q EXCEPT !.pc = "asking"], n)
         /\ Sound([q EXCEPT !.pc = "failed"], n)
         /\ Sound(Left(q), n)
BY DEF Sound, Left, Query, Phases

\* ... is answered, ...
Answered(q, kind) ==
  [q EXCEPT !.pc = "answered",
            !.body = [id |-> CacheId, question |-> q.question, kind |-> kind, at |-> now]]

LEMMA AnsweredSound ==
  ASSUME now \in 0 .. MaxTime, NEW q, Sound(q, now), q.pc = "asking", NEW kind \in Kinds
  PROVE  Sound(Answered(q, kind), now)
<1> DEFINE b == [id |-> CacheId, question |-> q.question, kind |-> kind, at |-> now]
           r == [q EXCEPT !.pc = "answered", !.body = b]
<1>1. q \in Query
  BY DEF Sound
<1>2. b \in Body
  BY <1>1 DEF Body, Sound
<1>3. /\ r \in Query /\ r.pc = "answered" /\ r.body = b
      /\ r.question = q.question /\ r.since = q.since
  BY <1>1, <1>2 DEF Query, Phases
<1>4. Answered(q, kind) = r
  BY DEF Answered
<1>5. b.id = CacheId /\ b.question = q.question /\ b.at = now
  OBVIOUS
<1> HIDE DEF b, r
<1> QED
  BY <1>1, <1>2, <1>3, <1>4, <1>5 DEF Sound

\* ... or has an outcome.  With the id put back, a body that answers the
\* question answers the query.
Completed(q, b) ==
  IF b.kind = "short" THEN [q EXCEPT !.pc = "failed"]
  ELSE [q EXCEPT !.pc = "done", !.body = [b EXCEPT !.id = q.id]]

LEMMA CompletedSound ==
  ASSUME NEW n, NEW q, Sound(q, n), NEW b \in Body,
         b.question = q.question, b.at + Ttl >= q.since
  PROVE  Sound(Completed(q, b), n)
<1>1. q \in Query
  BY DEF Sound
<1>2. CASE b.kind = "short"
  BY <1>2, PlainlySound DEF Completed
<1>3. CASE b.kind # "short"
  <2> DEFINE c == [b EXCEPT !.id = q.id]
             r == [q EXCEPT !.pc = "done", !.body = c]
  <2>1. c \in Body /\ c.id = q.id /\ c.question = b.question /\ c.kind = b.kind /\ c.at = b.at
    BY <1>1 DEF Body, Query
  <2>2. /\ r \in Query /\ r.pc = "done" /\ r.body = c /\ r.id = q.id
        /\ r.question = q.question /\ r.since = q.since
    BY <1>1, <2>1 DEF Query, Phases
  <2>3. Completed(q, b) = r
    BY <1>3 DEF Completed
  <2> HIDE DEF c, r
  <2> QED
    BY <1>1, <1>3, <2>1, <2>2, <2>3 DEF Sound, Answers
<1> QED
  BY <1>2, <1>3

\* A hit is an entry that has lived no longer than Ttl: its body will do.
LEMMA HitAnswers ==
  ASSUME now \in 0 .. MaxTime, EntriesSound, NEW q, Sound(q, now), NEW i \in Hits(q.question)
  PROVE  /\ cache[i].body \in Body
         /\ cache[i].body.question = q.question /\ cache[i].body.at + Ttl >= q.since
<1>1. i \in 1 .. Len(cache) /\ cache[i].key = q.question /\ now <= cache[i].born + Ttl
  BY DEF Hits, Live
<1>2. cache[i] \in Entry /\ EntrySound(cache[i])
  BY <1>1 DEF EntriesSound
<1> QED
  BY <1>1, <1>2, DohAssumption DEF Entry, EntrySound, Sound, Query

\* One query changes, to one that is sound.
LEMMA QueryChanges ==
  ASSUME DohInv, NEW t \in Callers, NEW q, Sound(q, now),
         query' = [query EXCEPT ![t] = q], now' = now
  PROVE  QueriesSound'
BY DEF DohInv, QueriesSound, Sound

LEMMA AskStep ==
  ASSUME DohInv, NEW t \in Callers, NEW id \in Ids, NEW question \in Questions,
         Ask(t, id, question), UNCHANGED <<cache, now>>
  PROVE  DohInv'
<1>1. Sound(Asked(id, question), now)
  BY AskedSound DEF DohInv, QueriesSound
<1>2. QueriesSound'
  BY <1>1, QueryChanges DEF Ask
<1> QED
  BY <1>2 DEF DohInv, EntriesSound

LEMMA LeaveStep ==
  ASSUME DohInv, NEW t \in Callers, Leave(t), UNCHANGED <<cache, now>>
  PROVE  DohInv'
<1>1. Sound(Left(query[t]), now)
  BY PlainlySound DEF DohInv, QueriesSound
<1>2. query' = [query EXCEPT ![t] = Left(query[t])]
  BY DEF Leave
<1>3. QueriesSound'
  BY <1>1, <1>2, QueryChanges
<1> QED
  BY <1>3 DEF DohInv, EntriesSound

LEMMA LookupStep ==
  ASSUME DohInv, NEW t \in Callers, Lookup(t)
  PROVE  DohInv'
<1>1. /\ query[t] \in Query /\ Sound(query[t], now) /\ query[t].pc = "lookup"
      /\ now \in 0 .. MaxTime /\ EntriesSound
  BY DEF DohInv, QueriesSound, Lookup, At
<1>2. UNCHANGED <<cache, now>>
  BY DEF Lookup
<1>3. QueriesSound'
  <2>1. CASE \E i \in Hits(query[t].question) : query' = [query EXCEPT ![t] = Outcome(t, cache[i].body)]
    <3>1. PICK i \in Hits(query[t].question) : query' = [query EXCEPT ![t] = Outcome(t, cache[i].body)]
      BY <2>1
    <3>2. Sound(Completed(query[t], cache[i].body), now)
      BY <1>1, HitAnswers, CompletedSound
    <3>3. Sound(Outcome(t, cache[i].body), now)
      BY <3>2 DEF Outcome, Completed
    <3> QED
      BY <1>2, <3>1, <3>3, QueryChanges
  <2>2. CASE query' = [query EXCEPT ![t].pc = "asking"]
    BY <1>1, <1>2, <2>2, PlainlySound, QueryChanges
  <2> QED
    BY <2>1, <2>2 DEF Lookup
<1> QED
  BY <1>2, <1>3 DEF DohInv, EntriesSound

LEMMA AnswerStep ==
  ASSUME DohInv, NEW t \in Callers, NEW kind \in Kinds, Answer(t, kind)
  PROVE  DohInv'
<1>1. query[t] \in Query /\ Sound(query[t], now) /\ query[t].pc = "asking" /\ now \in 0 .. MaxTime
  BY DEF DohInv, QueriesSound, Answer, At
<1>2. Sound(Answered(query[t], kind), now)
  BY <1>1, AnsweredSound
<1>3. query' = [query EXCEPT ![t] = Answered(query[t], kind)] /\ UNCHANGED <<cache, now>>
  BY <1>1 DEF Answer, Answered, DohInv, QueriesSound, Query
<1>4. QueriesSound'
  BY <1>2, <1>3, QueryChanges
<1> QED
  BY <1>3, <1>4 DEF DohInv, EntriesSound

LEMMA AnswerFailsStep ==
  ASSUME DohInv, NEW t \in Callers, AnswerFails(t)
  PROVE  DohInv'
<1>1. Sound([query[t] EXCEPT !.pc = "failed"], now)
  BY PlainlySound DEF DohInv, QueriesSound
<1>2. QueriesSound'
  BY <1>1, QueryChanges DEF AnswerFails
<1> QED
  BY <1>2 DEF AnswerFails, DohInv, EntriesSound

----------------------------------------------------------------------------
LEMMA WithoutFacts ==
  ASSUME NEW S, NEW c \in Seq(S), NEW i \in 1 .. Len(c)
  PROVE  /\ Without(c, i) \in Seq(S)
         /\ Len(Without(c, i)) = Len(c) - 1
         /\ \A j \in 1 .. Len(c) - 1 : Without(c, i)[j] = IF j < i THEN c[j] ELSE c[j + 1]
<1> DEFINE front == SubSeq(c, 1, i - 1)
           back == SubSeq(c, i + 1, Len(c))
<1>1. Len(c) \in Nat /\ i \in Nat /\ \A j \in 1 .. Len(c) : c[j] \in S
  BY LenProperties
<1>2. /\ front \in Seq(S) /\ Len(front) = i - 1
      /\ \A j \in 1 .. i - 1 : front[j] = c[j]
  <2>1. \A j \in 1 .. i - 1 : c[j] \in S
    BY <1>1
  <2>2. i - 1 \in Int /\ 1 \in Int
    BY <1>1
  <2> HIDE DEF front
  <2>3. /\ front \in Seq(S) /\ Len(front) = IF 1 <= i - 1 THEN i - 1 - 1 + 1 ELSE 0
        /\ \A j \in 1 .. i - 1 - 1 + 1 : front[j] = c[1 + j - 1]
    BY <2>1, <2>2, SubSeqProperties DEF front
  <2> QED
    BY <1>1, <2>3
<1>3. /\ back \in Seq(S) /\ Len(back) = Len(c) - i
      /\ \A j \in 1 .. Len(c) - i : back[j] = c[i + j]
  <2>1. \A j \in i + 1 .. Len(c) : c[j] \in S
    BY <1>1
  <2>2. i + 1 \in Int /\ Len(c) \in Int
    BY <1>1
  <2> HIDE DEF back
  <2>3. /\ back \in Seq(S) /\ Len(back) = IF i + 1 <= Len(c) THEN Len(c) - (i + 1) + 1 ELSE 0
        /\ \A j \in 1 .. Len(c) - (i + 1) + 1 : back[j] = c[i + 1 + j - 1]
    BY <2>1, <2>2, SubSeqProperties DEF back
  <2> QED
    BY <1>1, <2>3
<1> HIDE DEF front, back
<1>4. /\ front \o back \in Seq(S) /\ Len(front \o back) = Len(front) + Len(back)
      /\ \A j \in 1 .. Len(front) + Len(back) :
           (front \o back)[j] = IF j <= Len(front) THEN front[j] ELSE back[j - Len(front)]
  BY <1>2, <1>3, ConcatProperties
<1>5. Without(c, i) = front \o back
  BY DEF Without, front, back
<1>6. Len(front) + Len(back) = Len(c) - 1
  BY <1>1, <1>2, <1>3
<1>7. ASSUME NEW j \in 1 .. Len(c) - 1
      PROVE  (front \o back)[j] = IF j < i THEN c[j] ELSE c[j + 1]
  <2>1. (front \o back)[j] = IF j <= i - 1 THEN front[j] ELSE back[j - (i - 1)]
    BY <1>2, <1>4, <1>6
  <2>2. CASE j < i
    <3>1. j <= i - 1 /\ j \in 1 .. i - 1
      BY <1>1, <2>2
    <3> QED
      BY <1>2, <2>1, <2>2, <3>1
  <2>3. CASE ~(j < i)
    <3>1. ~(j <= i - 1) /\ j - (i - 1) \in 1 .. Len(c) - i /\ i + (j - (i - 1)) = j + 1
      BY <1>1, <2>3
    <3> QED
      BY <1>3, <2>1, <2>3, <3>1
  <2> QED
    BY <2>2, <2>3
<1> QED
  BY <1>4, <1>5, <1>6, <1>7

\* An insertion leaves one entry for a key, and no more than fit.
LEMMA InsertedFacts ==
  ASSUME NEW c \in Seq(Entry), Len(c) <= CacheCap, OneEach(c), NEW e \in Entry
  PROVE  /\ Inserted(c, e) \in Seq(Entry)
         /\ Len(Inserted(c, e)) <= CacheCap
         /\ OneEach(Inserted(c, e))
         /\ \A i \in 1 .. Len(Inserted(c, e)) :
              Inserted(c, e)[i] = e \/ \E j \in 1 .. Len(c) : Inserted(c, e)[i] = c[j]
<1> DEFINE same == {i \in 1 .. Len(c) : c[i].key = e.key}
           rest == IF same = {} THEN c ELSE Without(c, CHOOSE i \in same : TRUE)
           all == Append(rest, e)
<1>1. Len(c) \in Nat
  BY LenProperties
<1>2. /\ rest \in Seq(Entry) /\ Len(rest) \in Nat /\ Len(rest) <= Len(c)
      /\ \A j \in 1 .. Len(rest) : rest[j].key # e.key /\ \E k \in 1 .. Len(c) : rest[j] = c[k]
      /\ OneEach(rest)
  <2>1. CASE same = {}
    BY <1>1, <2>1
  <2>2. CASE same # {}
    <3> DEFINE i == CHOOSE i \in same : TRUE
    <3>1. i \in 1 .. Len(c) /\ c[i].key = e.key
      BY <2>2
    <3>2. rest = Without(c, i)
      BY <2>2
    <3> HIDE DEF i, rest, same
    <3>3. /\ Without(c, i) \in Seq(Entry)
          /\ Len(Without(c, i)) = Len(c) - 1
          /\ \A j \in 1 .. Len(c) - 1 : Without(c, i)[j] = IF j < i THEN c[j] ELSE c[j + 1]
      BY <3>1, WithoutFacts
    <3>4. \A j \in 1 .. Len(rest) : \E k \in 1 .. Len(c) : rest[j] = c[k] /\ k = IF j < i THEN j ELSE j + 1
      <4> SUFFICES ASSUME NEW j \in 1 .. Len(rest)
                   PROVE  \E k \in 1 .. Len(c) : rest[j] = c[k] /\ k = IF j < i THEN j ELSE j + 1
        OBVIOUS
      <4> DEFINE k == IF j < i THEN j ELSE j + 1
      <4>1. k \in 1 .. Len(c) /\ rest[j] = c[k]
        BY <1>1, <3>1, <3>2, <3>3
      <4> QED
        BY <4>1
    <3>5. \A j \in 1 .. Len(rest) : rest[j].key # e.key
      BY <1>1, <3>1, <3>4 DEF OneEach
    <3>6. OneEach(rest)
      BY <1>1, <3>1, <3>2, <3>3, <3>4, SMTT(30) DEF OneEach
    <3> QED
      BY <1>1, <3>2, <3>3, <3>4, <3>5, <3>6
  <2> QED
    BY <2>1, <2>2
<1> HIDE DEF rest, same
<1>3. /\ all \in Seq(Entry) /\ Len(all) = Len(rest) + 1
      /\ \A j \in 1 .. Len(rest) + 1 : all[j] = IF j = Len(rest) + 1 THEN e ELSE rest[j]
  BY <1>2, AppendProperties
<1> HIDE DEF all
<1>4. OneEach(all) /\ \A j \in 1 .. Len(all) : all[j] = e \/ \E k \in 1 .. Len(c) : all[j] = c[k]
  <2>1. ASSUME NEW j \in 1 .. Len(all)
        PROVE  \/ j = Len(rest) + 1 /\ all[j] = e
               \/ j \in 1 .. Len(rest) /\ all[j] = rest[j]
    BY <1>2, <1>3
  <2>2. ASSUME NEW i \in 1 .. Len(all), NEW j \in 1 .. Len(all), all[i].key = all[j].key
        PROVE  i = j
    BY <1>2, <2>1, <2>2 DEF OneEach
  <2>3. OneEach(all)
    BY <2>2 DEF OneEach
  <2> QED
    BY <1>2, <2>1, <2>3
<1>5. Inserted(c, e) = IF Len(all) > CacheCap THEN Tail(all) ELSE all
  BY DEF Inserted, all, rest, same
<1>6. CASE Len(all) > CacheCap
  <2>1. /\ Tail(all) \in Seq(Entry) /\ Len(Tail(all)) = Len(all) - 1
        /\ \A j \in 1 .. Len(Tail(all)) : Tail(all)[j] = all[j + 1]
    <3>1. all # <<>>
      BY <1>2, <1>3
    <3> QED
      BY <1>3, <3>1, HeadTailProperties
  <2>2. \A j \in 1 .. Len(Tail(all)) : j + 1 \in 1 .. Len(all)
    BY <1>2, <1>3, <2>1
  <2>3. OneEach(Tail(all))
    <3>1. ASSUME NEW i \in 1 .. Len(Tail(all)), NEW j \in 1 .. Len(Tail(all)),
                 Tail(all)[i].key = Tail(all)[j].key
          PROVE  i = j
      <4>1. all[i + 1].key = all[j + 1].key
        BY <2>1, <3>1
      <4>2. i + 1 = j + 1
        BY <1>4, <2>2, <4>1 DEF OneEach
      <4> QED
        BY <4>2
    <3> QED
      BY <3>1 DEF OneEach
  <2>4. Len(Tail(all)) <= CacheCap
    BY <1>1, <1>2, <1>3, <2>1, DohAssumption
  <2> QED
    BY <1>4, <1>5, <1>6, <2>1, <2>2, <2>3, <2>4
<1>7. CASE ~(Len(all) > CacheCap)
  BY <1>2, <1>3, <1>4, <1>5, <1>7, DohAssumption
<1> QED
  BY <1>6, <1>7

\* What is answered goes into the cache as it should, and is the query's outcome.
LEMMA StoredSound ==
  ASSUME now \in 0 .. MaxTime, EntriesSound, NEW q, Sound(q, now), q.pc = "answered",
         cache' = Inserted(cache, [key |-> q.question, body |-> q.body, born |-> now])
  PROVE  EntriesSound' /\ Sound(Completed(q, q.body), now)
<1>0. PICK e : e = [key |-> q.question, body |-> q.body, born |-> now]
  OBVIOUS
<1>1. /\ q \in Query /\ q.question \in Questions /\ q.body \in Body
      /\ q.body.id = CacheId /\ q.body.question = q.question /\ q.body.at = now
  BY DEF Sound
<1>2. e \in Entry /\ EntrySound(e)
  BY <1>0, <1>1 DEF Entry, EntrySound
<1>3. q.body.at + Ttl >= q.since
  BY <1>1, DohAssumption DEF Sound, Query
<1>4. Sound(Completed(q, q.body), now)
  BY <1>1, <1>3, CompletedSound
<1>5. EntriesSound'
  <2>1. cache' = Inserted(cache, e)
    BY <1>0
  <2>2. cache \in Seq(Entry) /\ Len(cache) <= CacheCap /\ OneEach(cache)
    BY DEF EntriesSound
  <2> DEFINE d == Inserted(cache, e)
  <2>3. /\ d \in Seq(Entry) /\ Len(d) <= CacheCap /\ OneEach(d)
        /\ \A i \in 1 .. Len(d) : d[i] = e \/ \E j \in 1 .. Len(cache) : d[i] = cache[j]
    BY ONLY <1>2, <2>2, InsertedFacts
  <2> HIDE DEF d
  <2>4. \A i \in 1 .. Len(d) : EntrySound(d[i])
    BY <1>2, <2>3 DEF EntriesSound
  <2>5. cache' = d
    BY <2>1 DEF d
  <2> QED
    BY <2>3, <2>4, <2>5 DEF EntriesSound, OneEach
<1> QED
  BY <1>4, <1>5

LEMMA StoreStep ==
  ASSUME DohInv, NEW t \in Callers, Store(t)
  PROVE  DohInv'
<1>1. /\ Sound(query[t], now) /\ query[t].pc = "answered"
      /\ now \in 0 .. MaxTime /\ EntriesSound
  BY DEF DohInv, QueriesSound, Store, At
<1>2. EntriesSound' /\ Sound(Completed(query[t], query[t].body), now)
  BY <1>1, StoredSound DEF Store
<1>3. query' = [query EXCEPT ![t] = Completed(query[t], query[t].body)] /\ now' = now
  BY DEF Store, Outcome, Completed
<1>4. QueriesSound'
  BY <1>2, <1>3, QueryChanges
<1> QED
  BY <1>2, <1>4 DEF DohInv

LEMMA QueryStepInv ==
  ASSUME DohInv, NEW t \in Callers, QueryStep(t)
  PROVE  DohInv'
BY LookupStep, AnswerStep, AnswerFailsStep, StoreStep DEF QueryStep

\* Time passes only when no answer is on its way into the cache.
LEMMA TickStep ==
  ASSUME DohInv, Tick
  PROVE  DohInv'
<1>1. now' = now + 1 /\ now' \in 0 .. MaxTime /\ UNCHANGED <<cache, query>>
  BY DohAssumption DEF Tick, DohInv, QueriesSound
<1>2. ASSUME NEW t \in Callers PROVE Sound(query[t], now')
  <2>1. Sound(query[t], now) /\ query[t].pc # "answered" /\ query[t] \in Query
    BY DEF Tick, At, DohInv, QueriesSound
  <2>2. query[t].since <= now'
    BY <1>1, <2>1 DEF Sound, Query, DohInv, QueriesSound
  <2> QED
    BY <2>1, <2>2 DEF Sound
<1>3. QueriesSound'
  BY <1>1, <1>2 DEF DohInv, QueriesSound
<1> QED
  BY <1>1, <1>3 DEF DohInv, EntriesSound

----------------------------------------------------------------------------
(***************************************************************************)
(* The relay.                                                              *)
(***************************************************************************)
\* A reply of a task that has ended, as its datagram called for.
Right(r) ==
  /\ r \in Reply
  /\ At(r.by, "ended") /\ r.to = from[r.by]
  /\ Answers(r.body, query[r.by])

AllRight(s) == \A i \in 1 .. Len(s) : Right(s[i])
Once(s) == \A i, j \in 1 .. Len(s) : s[i].by = s[j].by => i = j
Apart(s, u) == \A i \in 1 .. Len(s), j \in 1 .. Len(u) : s[i].by # u[j].by

Typed ==
  /\ from \in [Callers -> Clients \cup {NoClient}]
  /\ chan \in Seq(Reply) /\ Len(chan) <= ChanCap
  /\ out \in Seq(Reply) /\ Len(out) <= 1
  /\ sent \in Seq(Reply)

RepliesRight ==
  /\ AllRight(chan) /\ AllRight(out) /\ AllRight(sent)
  /\ Once(chan) /\ Once(out) /\ Once(sent)
  /\ Apart(chan, out) /\ Apart(chan, sent) /\ Apart(out, sent)

\* A task works for a client.
Owned == \A t \in Callers : ~At(t, "idle") => from[t] \in Clients

RInv == DohInv /\ Typed /\ Owned /\ RepliesRight

LEMMA Lens ==
  ASSUME Typed
  PROVE  Len(chan) \in Nat /\ Len(out) \in {0, 1} /\ Len(sent) \in Nat /\ ChanCap \in Nat
<1>1. Len(chan) \in Nat /\ Len(out) \in Nat /\ Len(sent) \in Nat
  BY LenProperties DEF Typed
<1>2. Len(out) <= 1
  BY DEF Typed
<1> QED
  BY <1>1, <1>2, RelayAssumption

LEMMA RelayInitInv == Init => RInv
<1> SUFFICES ASSUME Init PROVE RInv
  OBVIOUS
<1>1. DohInv
  BY DohInitInv DEF Init
<1>2. Typed /\ RepliesRight
  BY RelayAssumption DEF Init, Typed, RepliesRight, AllRight, Once, Apart
<1>3. Owned
  BY DEF Init, DohInit, NoQuery, Owned, At
<1> QED
  BY <1>1, <1>2, <1>3 DEF RInv

----------------------------------------------------------------------------
\* Steps that leave the replies where they are, and ended tasks as they are.
LEMMA RepliesKept ==
  ASSUME RepliesRight, Typed, UNCHANGED <<chan, out, sent>>,
         \A t \in Callers : At(t, "ended") => query'[t] = query[t] /\ from'[t] = from[t]
  PROVE  RepliesRight'
<1>1. ASSUME NEW r, Right(r) PROVE Right(r)'
  BY <1>1 DEF Right, At, Reply, Answers
<1>2. AllRight(chan)' /\ AllRight(out)' /\ AllRight(sent)'
  BY <1>1 DEF RepliesRight, AllRight
<1> QED
  BY <1>2 DEF RepliesRight, Once, Apart

LEMMA ReceiveStep ==
  ASSUME RInv, NEW t \in Callers, NEW c \in Clients, NEW id \in Ids, NEW question \in Questions,
         Receive(t, c, id, question)
  PROVE  RInv'
<1>1. DohInv'
  BY AskStep DEF RInv, Receive
<1>2. At(t, "idle") /\ query \in [Callers -> Query] /\ from \in [Callers -> Clients \cup {NoClient}]
  BY DEF Receive, Ask, RInv, DohInv, QueriesSound, Typed
<1>3. \A u \in Callers : u # t => query'[u] = query[u] /\ from'[u] = from[u]
  BY <1>2 DEF Receive, Ask
<1>4. from'[t] = c /\ Typed'
  BY <1>2 DEF Receive, RInv, Typed
<1>5. Owned'
  BY <1>3, <1>4 DEF RInv, Owned, At
<1>6. RepliesRight'
  BY <1>2, <1>3, RepliesKept DEF RInv, Receive, At
<1> QED
  BY <1>1, <1>4, <1>5, <1>6 DEF RInv

\* A query that is not done does not concern the replies.
LEMMA QueryChange ==
  ASSUME RInv, DohInv', NEW t \in Callers, ~At(t, "idle"), ~At(t, "ended"),
         \A u \in Callers : u # t => query'[u] = query[u],
         UNCHANGED relayVars
  PROVE  RInv'
<1>1. Typed' /\ from' = from
  BY DEF RInv, Typed, relayVars
<1>2. Owned'
  BY <1>1 DEF RInv, Owned, At
<1>3. RepliesRight'
  BY <1>1, RepliesKept DEF RInv, relayVars
<1> QED
  BY <1>1, <1>2, <1>3 DEF RInv

LEMMA QueryingStep ==
  ASSUME RInv, NEW t \in Callers, QueryStep(t), UNCHANGED relayVars
  PROVE  RInv'
<1>1. DohInv' /\ query \in [Callers -> Query]
  BY QueryStepInv DEF RInv, DohInv, QueriesSound
<1>2. ~At(t, "idle") /\ ~At(t, "ended")
  BY DEF QueryStep, Lookup, Answer, AnswerFails, Store, At
<1>3. \A u \in Callers : u # t => query'[u] = query[u]
  BY <1>1 DEF QueryStep, Lookup, Answer, AnswerFails, Store
<1> QED
  BY <1>1, <1>2, <1>3, QueryChange

LEMMA GiveUpStep ==
  ASSUME RInv, NEW t \in Callers, GiveUp(t)
  PROVE  RInv'
<1>1. DohInv' /\ query \in [Callers -> Query]
  BY LeaveStep DEF GiveUp, RInv, DohInv, QueriesSound
<1>2. \A u \in Callers : u # t => query'[u] = query[u]
  BY <1>1 DEF GiveUp, Leave
<1> QED
  BY <1>1, <1>2, QueryChange DEF GiveUp, At

\* A reply enters the channel: that of a task which had none.
LEMMA PushStep ==
  ASSUME RInv, NEW t \in Callers, Push(t)
  PROVE  RInv'
<1>0. PICK r : r = [to |-> from[t], body |-> query[t].body, by |-> t]
  OBVIOUS
<1>1. DohInv' /\ query \in [Callers -> Query] /\ At(t, "done")
  BY LeaveStep DEF Push, RInv, DohInv, QueriesSound
<1>2. /\ query' = [query EXCEPT ![t] = Left(query[t])]
      /\ chan' = Append(chan, r) /\ UNCHANGED <<cache, now, from, out, sent>>
  BY <1>0 DEF Push, Leave
<1>3. /\ \A u \in Callers : u # t => query'[u] = query[u]
      /\ query'[t].pc = "ended" /\ query'[t].id = query[t].id
      /\ query'[t].question = query[t].question /\ query'[t].since = query[t].since
  BY <1>1, <1>2 DEF Left, Query
<1>4. Answers(r.body, query[t]) /\ from[t] \in Clients
  BY <1>0, <1>1 DEF RInv, DohInv, QueriesSound, Sound, Owned, At
<1>5. r \in Reply /\ Right(r)'
  <2>1. r \in Reply /\ r.by = t /\ r.to = from[t]
    BY <1>0, <1>4 DEF Reply, Answers
  <2>2. Answers(r.body, query'[t])
    BY <1>3, <1>4 DEF Answers
  <2> QED
    BY <1>2, <1>3, <2>1, <2>2 DEF Right, Reply, At, Answers
<1>6. ASSUME NEW x, Right(x) PROVE Right(x)' /\ x.by # t
  BY <1>1, <1>2, <1>3, <1>6 DEF Right, Reply, Answers, At
<1>7. /\ chan' \in Seq(Reply) /\ Len(chan') = Len(chan) + 1
      /\ \A i \in 1 .. Len(chan) + 1 : chan'[i] = IF i = Len(chan) + 1 THEN r ELSE chan[i]
  BY <1>2, <1>5, AppendProperties DEF RInv, Typed
<1>8. r.by = t
  BY <1>0
<1>9. Len(chan) \in Nat /\ Len(chan) < ChanCap /\ ChanCap \in Nat
  BY Lens DEF Push, RInv
<1>10. Typed'
  BY <1>2, <1>7, <1>9 DEF RInv, Typed
<1>11. Owned'
  BY <1>1, <1>2, <1>3 DEF RInv, Owned, At
<1>12. ASSUME NEW i \in 1 .. Len(chan')
       PROVE  \/ i = Len(chan) + 1 /\ chan'[i] = r
              \/ i \in 1 .. Len(chan) /\ chan'[i] = chan[i] /\ Right(chan[i])
  BY <1>7, <1>9 DEF RInv, RepliesRight, AllRight
<1>13. AllRight(chan)' /\ AllRight(out)' /\ AllRight(sent)'
  <2>1. AllRight(chan)'
    <3>1. ASSUME NEW i \in 1 .. Len(chan') PROVE Right(chan[i])'
      <4>1. chan'[i] = r \/ Right(chan'[i])
        BY <1>12
      <4>2. CASE chan'[i] = r
        BY <1>5, <4>2 DEF Right
      <4>3. CASE Right(chan'[i])
        BY <1>6, <4>3 DEF Right
      <4> QED
        BY <4>1, <4>2, <4>3
    <3> QED
      BY <3>1 DEF AllRight
  <2>2. AllRight(out)'
    BY <1>2, <1>6 DEF RInv, RepliesRight, AllRight
  <2>3. AllRight(sent)'
    BY <1>2, <1>6 DEF RInv, RepliesRight, AllRight
  <2> QED
    BY <2>1, <2>2, <2>3
<1>14. Once(chan)'
  BY <1>6, <1>8, <1>12 DEF RInv, RepliesRight, Once
<1>15. Apart(chan, out)' /\ Apart(chan, sent)'
  BY <1>2, <1>6, <1>8, <1>12 DEF RInv, RepliesRight, AllRight, Apart
<1>16. RepliesRight'
  BY <1>2, <1>13, <1>14, <1>15 DEF RInv, RepliesRight, Once, Apart
<1> QED
  BY <1>1, <1>10, <1>11, <1>16 DEF RInv

\* The front of the channel goes to the socket ...
LEMMA TakeReplyStep ==
  ASSUME RInv, TakeReply
  PROVE  RInv'
<1>1. /\ chan # <<>> /\ out = <<>> /\ out' = <<Head(chan)>> /\ chan' = Tail(chan)
      /\ UNCHANGED <<cache, now, query, from, sent>>
  BY DEF TakeReply, Selecting, dohVars
<1>2. DohInv' /\ Owned'
  BY <1>1 DEF RInv, DohInv, QueriesSound, EntriesSound, Owned, At
<1>3. /\ Len(chan) \in Nat \ {0} /\ Head(chan) = chan[1] /\ chan[1] \in Reply
      /\ chan' \in Seq(Reply) /\ Len(chan') = Len(chan) - 1
      /\ \A i \in 1 .. Len(chan') : chan'[i] = chan[i + 1] /\ i + 1 \in 1 .. Len(chan)
  <2>1. chan \in Seq(Reply)
    BY DEF RInv, Typed
  <2>2. Len(chan) \in Nat \ {0}
    BY <1>1, <2>1, EmptySeq
  <2>3. /\ chan' \in Seq(Reply) /\ Len(chan') = Len(chan) - 1
        /\ \A i \in 1 .. Len(chan') : chan'[i] = chan[i + 1]
    BY <1>1, <2>1, HeadTailProperties
  <2>4. Head(chan) = chan[1] /\ chan[1] \in Reply
    BY <2>1, <2>2, ElementOfSeq
  <2> QED
    BY <2>2, <2>3, <2>4
<1>4. out' \in Seq(Reply) /\ Len(out') = 1 /\ out'[1] = chan[1]
  BY <1>1, <1>3
<1>5. Typed'
  BY <1>1, <1>3, <1>4, Lens DEF RInv, Typed
<1>6. ASSUME NEW x, Right(x) PROVE Right(x)'
  BY <1>1, <1>6 DEF Right, At
<1>7. AllRight(chan)' /\ AllRight(out)' /\ AllRight(sent)'
  BY <1>1, <1>3, <1>4, <1>6 DEF RInv, RepliesRight, AllRight
<1>8. Once(chan)' /\ Once(out)' /\ Once(sent)'
  <2>1. ASSUME NEW i \in 1 .. Len(chan'), NEW j \in 1 .. Len(chan'), chan'[i].by = chan'[j].by
        PROVE  i + 1 = j + 1
    <3>1. i + 1 \in 1 .. Len(chan) /\ j + 1 \in 1 .. Len(chan) /\ chan[i + 1].by = chan[j + 1].by
      BY <1>3, <2>1
    <3>2. Once(chan)
      BY DEF RInv, RepliesRight
    <3> QED
      BY <3>1, <3>2 DEF Once
  <2> QED
    BY <1>1, <1>4, <2>1 DEF RInv, RepliesRight, Once
<1>9. Apart(chan, out)'
  <2>1. ASSUME NEW i \in 1 .. Len(chan') PROVE chan'[i].by # chan[1].by
    <3>1. i + 1 # 1 /\ 1 \in 1 .. Len(chan)
      BY <1>3
    <3> QED
      BY <1>3, <3>1 DEF RInv, RepliesRight, Once
  <2> QED
    BY <1>4, <2>1 DEF Apart
<1>10. Apart(chan, sent)' /\ Apart(out, sent)'
  BY <1>1, <1>3, <1>4 DEF RInv, RepliesRight, Apart
<1> QED
  BY <1>2, <1>5, <1>7, <1>8, <1>9, <1>10 DEF RInv, RepliesRight

\* ... and has been sent.
LEMMA SendToStep ==
  ASSUME RInv, SendTo
  PROVE  RInv'
<1>1. /\ out # <<>> /\ out' = <<>> /\ sent' = sent \o out
      /\ UNCHANGED <<cache, now, query, from, chan>>
  BY DEF SendTo, dohVars
<1>2. DohInv' /\ Owned'
  BY <1>1 DEF RInv, DohInv, QueriesSound, EntriesSound, Owned, At
<1>3. /\ sent' \in Seq(Reply) /\ Len(sent') = Len(sent) + Len(out)
      /\ \A i \in 1 .. Len(sent) + Len(out) :
           sent'[i] = IF i <= Len(sent) THEN sent[i] ELSE out[i - Len(sent)]
  BY <1>1, ConcatProperties DEF RInv, Typed
<1>4. out' \in Seq(Reply) /\ Len(out') = 0
  BY <1>1
<1>5. Typed'
  BY <1>1, <1>3, <1>4 DEF RInv, Typed
<1>6. ASSUME NEW x, Right(x) PROVE Right(x)'
  BY <1>1, <1>6 DEF Right, At
<1>7. ASSUME NEW i \in 1 .. Len(sent')
      PROVE  \/ i \in 1 .. Len(sent) /\ sent'[i] = sent[i]
             \/ i - Len(sent) \in 1 .. Len(out) /\ sent'[i] = out[i - Len(sent)]
  BY <1>3, Lens DEF RInv
<1>8. AllRight(chan)' /\ AllRight(out)' /\ AllRight(sent)'
  BY <1>1, <1>4, <1>6, <1>7 DEF RInv, RepliesRight, AllRight
<1>9. Once(sent)'
  <2>1. ASSUME NEW i \in 1 .. Len(sent'), NEW j \in 1 .. Len(sent'), sent'[i].by = sent'[j].by
        PROVE  i = j \/ i - Len(sent) = j - Len(sent)
    <3> DEFINE io == i - Len(sent)
               jo == j - Len(sent)
    <3>1. \/ i \in 1 .. Len(sent) /\ sent'[i] = sent[i]
          \/ io \in 1 .. Len(out) /\ sent'[i] = out[io]
      BY <1>7
    <3>2. \/ j \in 1 .. Len(sent) /\ sent'[j] = sent[j]
          \/ jo \in 1 .. Len(out) /\ sent'[j] = out[jo]
      BY <1>7
    <3>3. Once(sent) /\ Once(out) /\ Apart(out, sent)
      BY DEF RInv, RepliesRight
    <3> HIDE DEF io, jo
    <3>4. i = j \/ io = jo
      BY <2>1, <3>1, <3>2, <3>3 DEF Once, Apart
    <3> QED
      BY <3>4 DEF io, jo
  <2>2. ASSUME NEW i \in 1 .. Len(sent'), NEW j \in 1 .. Len(sent'), sent'[i].by = sent'[j].by
        PROVE  i = j
    BY <2>1, <2>2, Lens DEF RInv
  <2> QED
    BY <2>2 DEF Once
<1>10. Apart(chan, sent)'
  BY <1>1, <1>7 DEF RInv, RepliesRight, Apart
<1>11. Once(chan)' /\ Once(out)' /\ Apart(chan, out)' /\ Apart(out, sent)'
  BY <1>1, <1>4 DEF RInv, RepliesRight, Once, Apart
<1> QED
  BY <1>2, <1>5, <1>8, <1>9, <1>10, <1>11 DEF RInv, RepliesRight

LEMMA RelayStepInv == RInv /\ [Next]_vars => RInv'
<1> SUFFICES ASSUME RInv, [Next]_vars PROVE RInv'
  OBVIOUS
<1>1. CASE \E t \in Callers, c \in Clients, id \in Ids, question \in Questions : Receive(t, c, id, question)
  BY <1>1, ReceiveStep
<1>2. CASE \E t \in Callers : QueryStep(t) /\ UNCHANGED relayVars
  BY <1>2, QueryingStep
<1>3. CASE \E t \in Callers : Push(t) \/ GiveUp(t)
  BY <1>3, PushStep, GiveUpStep
<1>4. CASE TakeReply \/ SendTo
  BY <1>4, TakeReplyStep, SendToStep
<1>5. CASE Tick /\ UNCHANGED relayVars
  <2>1. DohInv' /\ UNCHANGED <<query, from, chan, out, sent>>
    BY <1>5, TickStep DEF RInv, Tick, relayVars
  <2>2. Typed' /\ Owned' /\ RepliesRight'
    BY <2>1, RepliesKept DEF RInv, Typed, Owned, At
  <2> QED
    BY <2>1, <2>2 DEF RInv
<1>6. CASE UNCHANGED vars
  <2>1. UNCHANGED <<cache, now, query, from, chan, out, sent>>
    BY <1>6 DEF vars, dohVars, relayVars
  <2>2. DohInv' /\ Typed' /\ Owned'
    BY <2>1 DEF RInv, DohInv, QueriesSound, EntriesSound, Typed, Owned, At
  <2>3. RepliesRight'
    BY <2>1, RepliesKept DEF RInv
  <2> QED
    BY <2>2, <2>3 DEF RInv
<1> QED
  BY <1>1, <1>2, <1>3, <1>4, <1>5, <1>6 DEF Next, Step

\* What the relay keeps of its queries, its cache and its replies.
THEOREM RelayInvariant == Spec => []RInv
BY RelayInitInv, RelayStepInv, PTL DEF Spec

----------------------------------------------------------------------------
\* Where a reply of Replies comes from.
LEMMA Origin ==
  ASSUME RInv
  PROVE  /\ Len(Replies) = Len(chan) + Len(out) + Len(sent)
         /\ \A i \in 1 .. Len(Replies) :
              \/ i \in 1 .. Len(chan) /\ Replies[i] = chan[i]
              \/ i - Len(chan) \in 1 .. Len(out) /\ Replies[i] = out[i - Len(chan)]
              \/ /\ i - Len(chan) - Len(out) \in 1 .. Len(sent)
                 /\ Replies[i] = sent[i - Len(chan) - Len(out)]
<1> DEFINE front == chan \o out
<1>1. Len(chan) \in Nat /\ Len(out) \in Nat /\ Len(sent) \in Nat
  BY Lens DEF RInv
<1>2. /\ front \in Seq(Reply) /\ Len(front) = Len(chan) + Len(out)
      /\ \A i \in 1 .. Len(chan) + Len(out) :
           front[i] = IF i <= Len(chan) THEN chan[i] ELSE out[i - Len(chan)]
  BY ConcatProperties DEF RInv, Typed
<1>3. Replies = front \o sent
  BY DEF Replies
<1> HIDE DEF front
<1>4. /\ Len(Replies) = Len(front) + Len(sent)
      /\ \A i \in 1 .. Len(front) + Len(sent) :
           Replies[i] = IF i <= Len(front) THEN front[i] ELSE sent[i - Len(front)]
  BY <1>2, <1>3, ConcatProperties, ZenonT(40) DEF RInv, Typed
<1>5. ASSUME NEW i \in 1 .. Len(Replies)
      PROVE  \/ i \in 1 .. Len(chan) /\ Replies[i] = chan[i]
             \/ i - Len(chan) \in 1 .. Len(out) /\ Replies[i] = out[i - Len(chan)]
             \/ /\ i - Len(chan) - Len(out) \in 1 .. Len(sent)
                /\ Replies[i] = sent[i - Len(chan) - Len(out)]
  <2>1. CASE i <= Len(chan)
    BY <1>1, <1>2, <1>4, <2>1
  <2>2. CASE Len(chan) < i /\ i <= Len(chan) + Len(out)
    BY <1>1, <1>2, <1>4, <2>2
  <2>3. CASE Len(chan) + Len(out) < i
    <3>1. i - Len(front) = i - Len(chan) - Len(out)
      BY <1>1, <1>2
    <3> QED
      BY <1>1, <1>2, <1>4, <2>3, <3>1
  <2> QED
    BY <1>1, <1>4, <2>1, <2>2, <2>3
<1> QED
  BY <1>1, <1>2, <1>4, <1>5

LEMMA RepliesAreRight ==
  ASSUME RInv, NEW i \in 1 .. Len(Replies)
  PROVE  Right(Replies[i])
BY Origin DEF RInv, RepliesRight, AllRight

\* The cache holds, for any number of overlapping queries, answers as they
\* came, each under its question, one for a question, and no more than fit.
THEOREM CacheKept == Spec => []CacheSound
<1>1. RInv => CacheSound
  BY DohInvTypes DEF RInv
<1> QED
  BY <1>1, RelayInvariant, PTL

\* Each reply is the answer to its datagram and goes to the client it came from.
THEOREM RepliesRightly == Spec => []RightReply
<1>1. RInv => RightReply
  BY RepliesAreRight DEF Right, Answers, RightReply
<1> QED
  BY <1>1, RelayInvariant, PTL

\* No datagram is answered twice.
THEOREM RepliesOnce == Spec => []OneReply
<1>1. ASSUME RInv, NEW i \in 1 .. Len(Replies), NEW j \in 1 .. Len(Replies),
             Replies[i].by = Replies[j].by
      PROVE  i = j
  <2>1. \/ i = j \/ i - Len(chan) = j - Len(chan)
        \/ i - Len(chan) - Len(out) = j - Len(chan) - Len(out)
    <3> DEFINE io == i - Len(chan)
               is == i - Len(chan) - Len(out)
               jo == j - Len(chan)
               js == j - Len(chan) - Len(out)
    <3>1. \/ i \in 1 .. Len(chan) /\ Replies[i] = chan[i]
          \/ io \in 1 .. Len(out) /\ Replies[i] = out[io]
          \/ is \in 1 .. Len(sent) /\ Replies[i] = sent[is]
      BY <1>1, Origin
    <3>2. \/ j \in 1 .. Len(chan) /\ Replies[j] = chan[j]
          \/ jo \in 1 .. Len(out) /\ Replies[j] = out[jo]
          \/ js \in 1 .. Len(sent) /\ Replies[j] = sent[js]
      BY <1>1, Origin
    <3>3. /\ Once(chan) /\ Once(out) /\ Once(sent)
          /\ Apart(chan, out) /\ Apart(chan, sent) /\ Apart(out, sent)
      BY <1>1 DEF RInv, RepliesRight
    <3> HIDE DEF io, is, jo, js
    <3>4. i = j \/ io = jo \/ is = js
      <4>1. CASE i \in 1 .. Len(chan) /\ Replies[i] = chan[i]
        BY <1>1, <3>2, <3>3, <4>1 DEF Once, Apart
      <4>2. CASE io \in 1 .. Len(out) /\ Replies[i] = out[io]
        BY <1>1, <3>2, <3>3, <4>2 DEF Once, Apart
      <4>3. CASE is \in 1 .. Len(sent) /\ Replies[i] = sent[is]
        BY <1>1, <3>2, <3>3, <4>3 DEF Once, Apart
      <4> QED
        BY <3>1, <4>1, <4>2, <4>3
    <3> QED
      BY <3>4 DEF io, is, jo, js
  <2> QED
    BY <1>1, <2>1, Origin, Lens DEF RInv
<1>2. RInv => OneReply
  BY <1>1 DEF OneReply
<1> QED
  BY <1>2, RelayInvariant, PTL

\* No client is told what was said longer than a lifetime before it asked.
THEOREM RepliesFresh == Spec => []FreshReply
<1>1. RInv => FreshReply
  BY RepliesAreRight DEF Right, Answers, FreshReply
<1> QED
  BY <1>1, RelayInvariant, PTL

----------------------------------------------------------------------------
(***************************************************************************)
(* The races of connections next to the relay.                             *)
(***************************************************************************)
Fams == {"AAAA", "A"}
Branches == Conns \X Fams

----------------------------------------------------------------------------
\* How far a branch has come, with its query and its socket.
Unstarted(b, q, s) == b = Races!Idle /\ q.pc \in {"idle", "ended"} /\ s = Races!NoSocket

Resolving(b, q, s, to) ==
  /\ b.pc = "resolving" /\ b.failed = TRUE /\ b.why = "nothing"
  /\ q.pc \notin {"idle", "ended"} /\ q.question = to
  /\ s = Races!NoSocket

Connecting(b, q, s, to) ==
  /\ b.pc = "connecting" /\ b.failed = FALSE /\ b.why = "nothing"
  /\ q.pc = "ended"
  /\ s = [state |-> "opening", to |-> to]

Closed(s, to) == s = Races!NoSocket \/ s = [state |-> "closed", to |-> to]

Failed(b, q, s, to) ==
  /\ b.pc = "failed"
  /\ \/ b.why \in {"query", "parse"} /\ b.failed = TRUE
     \/ b.why \in {"no address", "connect"} /\ b.failed = FALSE
  /\ q.pc = "ended" /\ Closed(s, to)

DroppedBranch(b, q, s, to) ==
  /\ b.pc = "dropped" /\ b.failed \in BOOLEAN /\ b.why = "nothing"
  /\ q.pc = "ended" /\ Closed(s, to)

Won(b, q, s, to) ==
  /\ b.pc = "won" /\ b.failed = FALSE /\ b.why = "nothing"
  /\ q.pc = "ended"
  /\ s = [state |-> "open", to |-> to]

----------------------------------------------------------------------------
\* A call that has not begun; that races; that went on by name after both
\* branches failed, or was to a literal address; that ended by its race.
NotBegun(c) ==
  /\ call[c] = [pc |-> "idle", host |-> "none"] /\ warned[c] = FALSE
  /\ sock[<<c, "plain">>] = Races!NoSocket
  /\ \A f \in Fams : Unstarted(branch[<<c, f>>], raceQuery[<<c, f>>], sock[<<c, f>>])

To(c, f) == <<call[c].host, f>>

Racing(c) ==
  /\ call[c].pc = "racing" /\ call[c].host \in Names /\ warned[c] = FALSE
  /\ sock[<<c, "plain">>] = Races!NoSocket
  /\ \A f \in Fams :
       \/ Resolving(branch[<<c, f>>], raceQuery[<<c, f>>], sock[<<c, f>>], To(c, f))
       \/ Connecting(branch[<<c, f>>], raceQuery[<<c, f>>], sock[<<c, f>>], To(c, f))
       \/ Failed(branch[<<c, f>>], raceQuery[<<c, f>>], sock[<<c, f>>], To(c, f))
  /\ \E f \in Fams : branch[<<c, f>>].pc # "failed"

PlainSocket(c) ==
  \/ call[c].pc = "plain" /\ sock[<<c, "plain">>] = [state |-> "opening", to |-> To(c, "plain")]
  \/ call[c].pc = "done" /\ sock[<<c, "plain">>] = [state |-> "open", to |-> To(c, "plain")]
  \/ call[c].pc \in {"error", "dropped"} /\ sock[<<c, "plain">>] = [state |-> "closed", to |-> To(c, "plain")]

Direct(c) ==
  /\ call[c].host \in Literals /\ warned[c] = FALSE /\ PlainSocket(c)
  /\ \A f \in Fams : Unstarted(branch[<<c, f>>], raceQuery[<<c, f>>], sock[<<c, f>>])

FellBack(c) ==
  /\ call[c].host \in Names /\ PlainSocket(c)
  /\ \A f \in Fams : Failed(branch[<<c, f>>], raceQuery[<<c, f>>], sock[<<c, f>>], To(c, f))
  /\ warned[c] = TRUE <=> \E f \in Fams : branch[<<c, f>>].failed = TRUE

Raced(c) ==
  /\ call[c].host \in Names /\ call[c].pc \in {"done", "dropped"} /\ warned[c] = FALSE
  /\ sock[<<c, "plain">>] = Races!NoSocket
  /\ \A f \in Fams :
       \/ Won(branch[<<c, f>>], raceQuery[<<c, f>>], sock[<<c, f>>], To(c, f)) /\ call[c].pc = "done"
       \/ Failed(branch[<<c, f>>], raceQuery[<<c, f>>], sock[<<c, f>>], To(c, f))
       \/ DroppedBranch(branch[<<c, f>>], raceQuery[<<c, f>>], sock[<<c, f>>], To(c, f))
  /\ call[c].pc = "done" => \E f \in Fams : \A g \in Fams : branch[<<c, g>>].pc = "won" <=> g = f

CallSound(c) == NotBegun(c) \/ Racing(c) \/ Direct(c) \/ FellBack(c) \/ Raced(c)

\* What doh_query keeps of the queries of the races.
RaceQueriesSound ==
  /\ raceQuery \in [Branches -> Query]
  /\ \A t \in Branches : Sound(raceQuery[t], now)

BranchRec == [pc : {"idle", "resolving", "connecting", "won", "failed", "dropped"}, failed : BOOLEAN,
              why : {"nothing", "query", "parse", "no address", "connect"}]

Socket == [state : {"none", "opening", "open", "closed"},
           to : ((Names \cup Literals) \X Races!Slots) \cup {Races!Nowhere}]

RacesTyped ==
  /\ call \in [Conns -> [pc : {"idle", "racing", "plain", "done", "error", "dropped"},
                         host : Names \cup Literals \cup {"none"}]]
  /\ branch \in [Branches -> BranchRec]
  /\ sock \in [Conns \X Races!Slots -> Socket]
  /\ warned \in [Conns -> BOOLEAN]

CallsSound == RacesTyped /\ \A c \in Conns : CallSound(c)
RacesInv == RaceQueriesSound /\ CallsSound

SInv == RInv /\ RacesInv

----------------------------------------------------------------------------
LEMMA RaceSets ==
  /\ Races!Families = Fams /\ Races!Attempts = Branches /\ Races!Slots = Fams \cup {"plain"}
  /\ \A f \in Fams : /\ Races!Other(f) \in Fams /\ Races!Other(f) # f
                     /\ \A g \in Fams : g = f \/ g = Races!Other(f)
<1>1. Races!Families = Fams /\ Races!Attempts = Branches /\ Races!Slots = Fams \cup {"plain"}
  BY DEF Races!Families, Races!Attempts, Races!Slots, Fams, Branches
<1>2. ASSUME NEW f \in Fams
      PROVE  /\ Races!Other(f) \in Fams /\ Races!Other(f) # f
             /\ \A g \in Fams : g = f \/ g = Races!Other(f)
  BY DEF Races!Families, Races!Other, Fams
<1> QED
  BY <1>1, <1>2

\* Where a call stands tells which of the five it is.
LEMMA Standing ==
  ASSUME NEW c \in Conns, CallSound(c)
  PROVE  /\ call[c].pc = "idle" => NotBegun(c)
         /\ call[c].pc = "racing" => Racing(c)
         /\ call[c].pc = "plain" => /\ Direct(c) \/ FellBack(c)
                                    /\ sock[<<c, "plain">>] = [state |-> "opening", to |-> To(c, "plain")]
<1>1. /\ NotBegun(c) => call[c].pc = "idle"
      /\ Racing(c) => call[c].pc = "racing"
      /\ Raced(c) => call[c].pc \in {"done", "dropped"}
  BY DEF NotBegun, Racing, Raced
<1>2. PlainSocket(c) =>
        /\ call[c].pc \in {"plain", "done", "error", "dropped"}
        /\ call[c].pc = "plain" => sock[<<c, "plain">>] = [state |-> "opening", to |-> To(c, "plain")]
  BY DEF PlainSocket
<1>3. Direct(c) \/ FellBack(c) => PlainSocket(c)
  BY DEF Direct, FellBack
<1> QED
  BY <1>1, <1>2, <1>3 DEF CallSound

\* The other calls are left as they are.
OthersKept(c) ==
  \A d \in Conns : d # c =>
    /\ call'[d] = call[d] /\ warned'[d] = warned[d] /\ sock'[<<d, "plain">>] = sock[<<d, "plain">>]
    /\ \A f \in Fams : /\ branch'[<<d, f>>] = branch[<<d, f>>]
                       /\ raceQuery'[<<d, f>>] = raceQuery[<<d, f>>]
                       /\ sock'[<<d, f>>] = sock[<<d, f>>]

LEMMA CallKept ==
  ASSUME NEW d \in Conns, CallSound(d),
         call'[d] = call[d], warned'[d] = warned[d], sock'[<<d, "plain">>] = sock[<<d, "plain">>],
         \A f \in Fams : /\ branch'[<<d, f>>] = branch[<<d, f>>]
                         /\ raceQuery'[<<d, f>>] = raceQuery[<<d, f>>]
                         /\ sock'[<<d, f>>] = sock[<<d, f>>]
  PROVE  CallSound(d)'
<1>1. NotBegun(d) => NotBegun(d)'
  BY DEF NotBegun, Unstarted, Races!Idle, Races!NoSocket, Races!Nowhere
<1>2. Racing(d) => Racing(d)'
  BY DEF Racing, To, Races!NoSocket, Races!Nowhere
<1>3. PlainSocket(d) => PlainSocket(d)'
  BY DEF PlainSocket, To
<1>4. Direct(d) => Direct(d)'
  BY <1>3 DEF Direct, Unstarted, Races!Idle, Races!NoSocket, Races!Nowhere
<1>5. FellBack(d) => FellBack(d)'
  BY <1>3 DEF FellBack, To
<1>6. Raced(d) => Raced(d)'
  BY DEF Raced, To, Races!NoSocket, Races!Nowhere
<1> QED
  BY <1>1, <1>2, <1>4, <1>5, <1>6 DEF CallSound

LEMMA OneCall ==
  ASSUME CallsSound, RacesTyped', NEW c \in Conns, OthersKept(c), CallSound(c)'
  PROVE  CallsSound'
<1>1. ASSUME NEW d \in Conns, d # c PROVE CallSound(d)'
  BY <1>1, CallKept DEF CallsSound, OthersKept
<1> QED
  BY <1>1 DEF CallsSound

----------------------------------------------------------------------------
\* The queries of the races keep what those of the relay keep.
LEMMA RaceQueryChanges ==
  ASSUME RaceQueriesSound, NEW t \in Branches, NEW q, Sound(q, now),
         raceQuery' = [raceQuery EXCEPT ![t] = q], now' = now
  PROVE  RaceQueriesSound'
BY DEF RaceQueriesSound, Sound

LEMMA RaceQueryStep ==
  ASSUME DohInv, RaceQueriesSound, NEW t \in Branches, Races!QueryStep(t)
  PROVE  /\ EntriesSound' /\ RaceQueriesSound' /\ now' = now
         /\ \A u \in Branches : u # t => raceQuery'[u] = raceQuery[u]
         /\ raceQuery'[t].pc \notin {"idle", "ended"}
         /\ raceQuery'[t].question = raceQuery[t].question
<1> DEFINE q == raceQuery[t]
<1>1. now \in 0 .. MaxTime /\ EntriesSound /\ q \in Query /\ Sound(q, now)
  BY DEF DohInv, QueriesSound, RaceQueriesSound
<1>2. PICK r : /\ raceQuery' = [raceQuery EXCEPT ![t] = r]
               /\ Sound(r, now) /\ r.pc \notin {"idle", "ended"} /\ r.question = q.question
               /\ EntriesSound' /\ now' = now
  <2>1. CASE Races!Lookup(t)
    <3>1. q.pc = "lookup" /\ UNCHANGED <<cache, now>>
      BY <2>1 DEF Races!Lookup, Races!At
    <3>2. EntriesSound'
      BY <1>1, <3>1 DEF EntriesSound
    <3>3. CASE \E i \in Races!Hits(q.question) :
                 raceQuery' = [raceQuery EXCEPT ![t] = Races!Outcome(t, cache[i].body)]
      <4>1. PICK i \in Races!Hits(q.question) :
                   raceQuery' = [raceQuery EXCEPT ![t] = Races!Outcome(t, cache[i].body)]
        BY <3>3
      <4>2. i \in Hits(q.question)
        BY DEF Races!Hits, Races!Live, Hits, Live
      <4>3. Sound(Completed(q, cache[i].body), now)
        BY <1>1, <4>2, HitAnswers, CompletedSound
      <4>4. Races!Outcome(t, cache[i].body) = Completed(q, cache[i].body)
        BY DEF Races!Outcome, Completed
      <4>5. Completed(q, cache[i].body).pc \notin {"idle", "ended"}
            /\ Completed(q, cache[i].body).question = q.question
        BY <1>1 DEF Completed, Query
      <4> QED
        BY <3>1, <3>2, <4>1, <4>3, <4>4, <4>5
    <3>4. CASE raceQuery' = [raceQuery EXCEPT ![t].pc = "asking"]
      <4>1. Sound([q EXCEPT !.pc = "asking"], now)
        BY <1>1, <3>1, PlainlySound
      <4> QED
        BY <1>1, <3>1, <3>2, <3>4, <4>1 DEF Query
    <3> QED
      BY <2>1, <3>3, <3>4 DEF Races!Lookup
  <2>2. CASE \E kind \in Kinds : Races!Answer(t, kind)
    <3>1. PICK kind \in Kinds : Races!Answer(t, kind)
      BY <2>2
    <3>2. q.pc = "asking" /\ UNCHANGED <<cache, now>>
      BY <3>1 DEF Races!Answer, Races!At
    <3>3. Sound(Answered(q, kind), now) /\ EntriesSound'
      BY <1>1, <3>2, AnsweredSound DEF EntriesSound
    <3>4. raceQuery' = [raceQuery EXCEPT ![t] = Answered(q, kind)]
      BY <1>1, <3>1 DEF Races!Answer, Answered, RaceQueriesSound, Query
    <3>5. Answered(q, kind).pc = "answered" /\ Answered(q, kind).question = q.question
      BY <1>1 DEF Answered, Query
    <3> QED
      BY <3>2, <3>3, <3>4, <3>5
  <2>3. CASE Races!AnswerFails(t)
    <3>1. UNCHANGED <<cache, now>> /\ raceQuery' = [raceQuery EXCEPT ![t] = [q EXCEPT !.pc = "failed"]]
      BY <2>3 DEF Races!AnswerFails
    <3>2. Sound([q EXCEPT !.pc = "failed"], now) /\ EntriesSound'
      BY <1>1, <3>1, PlainlySound DEF EntriesSound
    <3> QED
      BY <1>1, <3>1, <3>2 DEF Query
  <2>4. CASE Races!Store(t)
    <3>1. /\ q.pc = "answered" /\ now' = now
          /\ cache' = Races!Inserted(cache, [key |-> q.question, body |-> q.body, born |-> now])
          /\ raceQuery' = [raceQuery EXCEPT ![t] = Races!Outcome(t, q.body)]
      BY <2>4 DEF Races!Store, Races!At
    <3>2. cache' = Inserted(cache, [key |-> q.question, body |-> q.body, born |-> now])
      BY <3>1 DEF Races!Inserted, Inserted, Races!Without, Without
    <3>3. EntriesSound' /\ Sound(Completed(q, q.body), now)
      BY <1>1, <3>1, <3>2, StoredSound
    <3>4. Races!Outcome(t, q.body) = Completed(q, q.body)
      BY DEF Races!Outcome, Completed
    <3>5. Completed(q, q.body).pc \notin {"idle", "ended"} /\ Completed(q, q.body).question = q.question
      BY <1>1 DEF Completed, Query
    <3> QED
      BY <3>1, <3>3, <3>4, <3>5
  <2> QED
    BY <2>1, <2>2, <2>3, <2>4 DEF Races!QueryStep
<1>3. RaceQueriesSound'
  BY <1>2, RaceQueryChanges
<1> QED
  BY <1>2, <1>3 DEF RaceQueriesSound

----------------------------------------------------------------------------
\* The steps of one branch, with its query and its socket.
LEMMA Starts ==
  ASSUME NEW to
  PROVE Resolving([Races!Idle EXCEPT !.pc = "resolving"], Asked(CacheId, to), Races!NoSocket, to)
<1>1. PICK b : b = [Races!Idle EXCEPT !.pc = "resolving"]
  OBVIOUS
<1>2. b.pc = "resolving"
  BY <1>1 DEF Races!Idle
<1>3. b.failed = TRUE
  BY <1>1 DEF Races!Idle
<1>4. b.why = "nothing"
  BY <1>1 DEF Races!Idle
<1>5. Asked(CacheId, to).pc = "lookup"
  BY DEF Asked
<1>6. Asked(CacheId, to).question = to
  BY DEF Asked
<1> QED
  BY <1>1, <1>2, <1>3, <1>4, <1>5, <1>6 DEF Resolving

LEMMA Connects ==
  ASSUME NEW b \in BranchRec, NEW q \in Query, NEW s, NEW to, Resolving(b, q, s, to)
  PROVE  Connecting([b EXCEPT !.pc = "connecting", !.failed = FALSE], Left(q), [state |-> "opening", to |-> to], to)
BY DEF Resolving, Connecting, Left, Query, BranchRec

LEMMA Fails ==
  ASSUME NEW b \in BranchRec, NEW why, NEW q \in Query, q.pc = "ended", NEW s, NEW to, Closed(s, to),
         \/ why \in {"query", "parse"} /\ b.failed = TRUE
         \/ why \in {"no address", "connect"} /\ b.failed = FALSE
  PROVE  Failed([b EXCEPT !.pc = "failed", !.why = why], q, s, to)
BY DEF Failed, BranchRec

LEMMA Sockets ==
  ASSUME NEW to
  PROVE  /\ [[state |-> "opening", to |-> to] EXCEPT !.state = "open"] = [state |-> "open", to |-> to]
         /\ Races!Dropped([state |-> "opening", to |-> to]) = [state |-> "closed", to |-> to]
         /\ Races!Dropped([state |-> "closed", to |-> to]) = [state |-> "closed", to |-> to]
         /\ Races!Dropped(Races!NoSocket) = Races!NoSocket
<1>1. [[state |-> "opening", to |-> to] EXCEPT !.state = "open"] = [state |-> "open", to |-> to]
  OBVIOUS
<1>2. Races!Dropped([state |-> "opening", to |-> to]) = [state |-> "closed", to |-> to]
  BY DEF Races!Dropped
<1>3. Races!Dropped([state |-> "closed", to |-> to]) = [state |-> "closed", to |-> to]
  BY DEF Races!Dropped
<1>4. Races!Dropped(Races!NoSocket) = Races!NoSocket
  BY DEF Races!Dropped, Races!NoSocket
<1> QED
  BY <1>1, <1>2, <1>3, <1>4

LEMMA ClosedStays ==
  ASSUME NEW s, NEW to, Closed(s, to) \/ s = [state |-> "opening", to |-> to]
  PROVE  Closed(Races!Dropped(s), to)
BY Sockets DEF Closed

LEMMA SocketTypes ==
  ASSUME NEW host \in Names \cup Literals, NEW slot \in Races!Slots
  PROVE  /\ \A x \in {"opening", "open", "closed"} : [state |-> x, to |-> <<host, slot>>] \in Socket
         /\ \A s \in Socket : Races!Dropped(s) \in Socket
<1>1. \A s \in Socket : Races!Dropped(s) \in Socket
  BY DEF Races!Dropped, Socket
<1>2. \A x \in {"opening", "open", "closed"} : [state |-> x, to |-> <<host, slot>>] \in Socket
  BY DEF Socket
<1> QED
  BY <1>1, <1>2

LEMMA Wins ==
  ASSUME NEW b \in BranchRec, NEW q, NEW s, NEW to, Connecting(b, q, s, to)
  PROVE  Won([b EXCEPT !.pc = "won"], q, [s EXCEPT !.state = "open"], to)
<1>1. [s EXCEPT !.state = "open"] = [state |-> "open", to |-> to]
  BY Sockets DEF Connecting
<1> QED
  BY <1>1 DEF Connecting, Won, BranchRec

LEMMA Drops ==
  ASSUME NEW b \in BranchRec, NEW q \in Query, NEW s, NEW to, Resolving(b, q, s, to) \/ Connecting(b, q, s, to)
  PROVE  DroppedBranch([b EXCEPT !.pc = "dropped"], Left(q), Races!Dropped(s), to)
<1>1. Closed(Races!Dropped(s), to)
  BY ClosedStays DEF Closed, Resolving, Connecting
<1>2. Left(q).pc = "ended"
  BY DEF Left, Query
<1>3. b.failed \in BOOLEAN /\ b.why = "nothing"
  BY DEF Resolving, Connecting, BranchRec
<1> QED
  BY <1>1, <1>2, <1>3 DEF DroppedBranch, BranchRec

LEMMA StaysFailed ==
  ASSUME NEW b \in BranchRec, NEW q \in Query, NEW s, NEW to, Failed(b, q, s, to)
  PROVE  Failed(b, Left(q), Races!Dropped(s), to)
<1>1. Closed(Races!Dropped(s), to)
  BY ClosedStays DEF Failed
<1>2. Left(q).pc = "ended"
  BY DEF Left, Query
<1> QED
  BY <1>1, <1>2 DEF Failed
----------------------------------------------------------------------------
LEMMA ConnectDirectlyStep ==
  ASSUME DohInv, RacesInv, NEW c \in Conns, NEW host \in Names \cup Literals,
         Races!ConnectDirectly(c, host)
  PROVE  RacesInv' /\ EntriesSound'
<1>1. /\ host \in Literals /\ call[c].pc = "idle"
      /\ call' = [call EXCEPT ![c] = [pc |-> "plain", host |-> host]]
      /\ sock' = [sock EXCEPT ![<<c, "plain">>] = [state |-> "opening", to |-> <<host, "plain">>]]
      /\ UNCHANGED <<cache, now, raceQuery, branch, warned>>
  BY DEF Races!ConnectDirectly, Races!Opening
<1>2. NotBegun(c) /\ RacesTyped
  BY <1>1, Standing DEF RacesInv, CallsSound
<1>3. RacesTyped'
  BY <1>1, <1>2, RaceSets DEF RacesTyped, Socket
<1>4. OthersKept(c) /\ \A f \in Fams : sock'[<<c, f>>] = sock[<<c, f>>]
  BY <1>1, <1>2, RaceSets DEF RacesTyped, OthersKept, Fams
<1>5. /\ call'[c] = [pc |-> "plain", host |-> host]
      /\ sock'[<<c, "plain">>] = [state |-> "opening", to |-> <<host, "plain">>]
  BY <1>1, <1>2, RaceSets DEF RacesTyped
<1>6. Direct(c)'
  BY <1>1, <1>2, <1>4, <1>5 DEF Direct, PlainSocket, To, NotBegun, Unstarted, Races!Idle, Races!NoSocket, Races!Nowhere
<1>7. CallsSound'
  BY <1>3, <1>4, <1>6, OneCall DEF RacesInv, CallSound
<1> QED
  BY <1>1, <1>7 DEF RacesInv, RaceQueriesSound, DohInv, EntriesSound

LEMMA RaceStep ==
  ASSUME DohInv, RacesInv, NEW c \in Conns, NEW host \in Names \cup Literals, Races!Race(c, host)
  PROVE  RacesInv' /\ EntriesSound'
<1>1. /\ host \in Names /\ call[c].pc = "idle"
      /\ call' = [call EXCEPT ![c] = [pc |-> "racing", host |-> host]]
      /\ branch' = [t \in Branches |-> IF t[1] = c THEN [Races!Idle EXCEPT !.pc = "resolving"] ELSE branch[t]]
      /\ raceQuery' = [t \in Branches |-> IF t[1] = c THEN Asked(CacheId, <<host, t[2]>>) ELSE raceQuery[t]]
      /\ UNCHANGED <<cache, now, sock, warned>>
  BY RaceSets DEF Races!Race, Races!Asked, Asked, Races!NoBody, NoBody
<1>2. NotBegun(c) /\ RacesTyped
  BY <1>1, Standing DEF RacesInv, CallsSound
<1>3. RacesTyped'
  <2>1. [Races!Idle EXCEPT !.pc = "resolving"] \in BranchRec
    BY DEF Races!Idle, BranchRec
  <2>2. branch' \in [Branches -> BranchRec]
    BY <1>1, <1>2, <2>1 DEF RacesTyped
  <2> QED
    BY <1>1, <1>2, <2>2 DEF RacesTyped
<1>4. OthersKept(c)
  BY <1>1, <1>2 DEF RacesTyped, OthersKept, Branches
<1>5. /\ call'[c] = [pc |-> "racing", host |-> host]
      /\ \A f \in Fams : /\ branch'[<<c, f>>] = [Races!Idle EXCEPT !.pc = "resolving"]
                         /\ raceQuery'[<<c, f>>] = Asked(CacheId, <<host, f>>)
  BY <1>1, <1>2 DEF RacesTyped, Branches
<1>6. ASSUME NEW f \in Fams
      PROVE  Resolving(branch'[<<c, f>>], raceQuery'[<<c, f>>], sock'[<<c, f>>], To(c, f)')
  <2>1. sock'[<<c, f>>] = Races!NoSocket
    BY <1>1, <1>2 DEF NotBegun, Unstarted
  <2>2. To(c, f)' = <<host, f>>
    BY <1>5 DEF To
  <2> QED
    BY <1>5, <2>1, <2>2, Starts
<1>7. Racing(c)'
  <2>1. sock'[<<c, "plain">>] = Races!NoSocket /\ warned'[c] = FALSE
    BY <1>1, <1>2 DEF NotBegun
  <2>2. branch'[<<c, "A">>].pc # "failed"
    BY <1>6 DEF Resolving, Fams
  <2> QED
    BY <1>1, <1>5, <1>6, <2>1, <2>2 DEF Racing, Fams, Races!NoSocket, Races!Nowhere
<1>8. CallsSound'
  BY <1>3, <1>4, <1>7, OneCall DEF RacesInv, CallSound
<1>9. ASSUME NEW t \in Branches PROVE Sound(raceQuery'[t], now)
  <2>1. CASE t[1] = c
    <3>1. <<host, t[2]>> \in Questions
      BY <1>1, SharedAssumption, RaceSets DEF Branches
    <3> QED
      BY <1>1, <2>1, <3>1, AskedSound DEF DohInv, QueriesSound
  <2>2. CASE t[1] # c
    BY <1>1, <2>2 DEF RacesInv, RaceQueriesSound
  <2> QED
    BY <2>1, <2>2
<1>10. RaceQueriesSound'
  BY <1>1, <1>9 DEF RaceQueriesSound, Sound
<1> QED
  BY <1>1, <1>8, <1>10 DEF RacesInv, DohInv, EntriesSound

\* A branch of a race ends with an error.
LEMMA BranchFailsStep ==
  ASSUME RacesInv, NEW c \in Conns, NEW f \in Fams, NEW b \in BranchRec, NEW why,
         call[c].pc = "racing", branch[<<c, f>>].pc # "failed",
         Races!BranchFails(c, f, b, why),
         \/ why \in {"query", "parse"} /\ b.failed = TRUE
         \/ why \in {"no address", "connect"} /\ b.failed = FALSE,
         Closed(Races!Dropped(sock[<<c, f>>]), To(c, f)),
         raceQuery'[<<c, f>>] \in Query, raceQuery'[<<c, f>>].pc = "ended",
         \A t \in Branches : t # <<c, f>> => raceQuery'[t] = raceQuery[t]
  PROVE  CallsSound'
<1> DEFINE g == Races!Other(f)
<1>1. Racing(c) /\ RacesTyped
  BY Standing DEF RacesInv, CallsSound
<1>2. g \in Fams /\ g # f /\ \A h \in Fams : h = f \/ h = g
  BY RaceSets
<1> HIDE DEF g
<1>3. PICK a : a = [b EXCEPT !.pc = "failed", !.why = why]
  OBVIOUS
<1>4. branch' = [branch EXCEPT ![<<c, f>>] = a] /\ branch' \in [Branches -> BranchRec]
  <2>1. a \in BranchRec
    BY <1>3 DEF BranchRec
  <2> QED
    BY <1>1, <1>3, <2>1 DEF Races!BranchFails, RacesTyped
<1>5. raceQuery'[<<c, g>>] = raceQuery[<<c, g>>]
  BY <1>2 DEF Branches
<1>6. /\ branch'[<<c, f>>] = a /\ branch'[<<c, g>>] = branch[<<c, g>>]
      /\ \A d \in Conns, h \in Fams : d # c => branch'[<<d, h>>] = branch[<<d, h>>]
  BY <1>1, <1>2, <1>4 DEF RacesTyped, Branches
<1>7. Failed(a, raceQuery'[<<c, f>>], Races!Dropped(sock[<<c, f>>]), To(c, f)) /\ a.failed = b.failed
  BY <1>3, Fails DEF BranchRec
<1>8. Failed(branch[<<c, g>>], raceQuery[<<c, g>>], sock[<<c, g>>], To(c, g)) \/ branch[<<c, g>>].pc # "failed"
  BY <1>1, <1>2 DEF Racing, Resolving, Connecting
<1>9. CASE branch[<<c, g>>].pc = "failed"
  <2>1. /\ call' = [call EXCEPT ![c].pc = "plain"]
        /\ warned' = [warned EXCEPT ![c] = b.failed \/ branch[<<c, g>>].failed]
        /\ sock' = [sock EXCEPT ![<<c, f>>] = Races!Dropped(sock[<<c, f>>]),
                                ![<<c, "plain">>] = [state |-> "opening", to |-> <<call[c].host, "plain">>]]
    BY <1>9 DEF Races!BranchFails, Races!FallsBack, Races!Warns, Races!Fallback, Races!Opening, g
  <2>2. /\ Failed(branch[<<c, g>>], raceQuery[<<c, g>>], sock[<<c, g>>], To(c, g))
        /\ call[c].host \in Names /\ <<c, f>> # <<c, "plain">>
    BY <1>1, <1>8, <1>9 DEF Racing, Fams
  <2>3. /\ sock'[<<c, f>>] = Races!Dropped(sock[<<c, f>>]) /\ sock'[<<c, g>>] = sock[<<c, g>>]
        /\ sock'[<<c, "plain">>] = [state |-> "opening", to |-> <<call[c].host, "plain">>]
        /\ \A d \in Conns, h \in Races!Slots : d # c => sock'[<<d, h>>] = sock[<<d, h>>]
    BY <1>1, <1>2, <2>1, RaceSets DEF RacesTyped, Fams
  <2>4. /\ call'[c].pc = "plain" /\ call'[c].host = call[c].host
        /\ \A d \in Conns : d # c => call'[d] = call[d] /\ warned'[d] = warned[d]
    BY <1>1, <2>1 DEF RacesTyped
  <2>5. warned'[c] = (b.failed \/ branch[<<c, g>>].failed)
    BY <1>1, <2>1 DEF RacesTyped
  <2>6. b.failed \in BOOLEAN /\ branch[<<c, g>>].failed \in BOOLEAN
    BY <2>2 DEF Failed, BranchRec
  <2>7. warned' \in [Conns -> BOOLEAN]
    BY <1>1, <2>1 DEF RacesTyped
  <2>8. RacesTyped'
    <3>1. PICK host \in Names \cup Literals : host = call[c].host
      BY <2>2
    <3>2. PICK s \in Socket : s = [state |-> "opening", to |-> <<call[c].host, "plain">>]
      <4>1. "plain" \in Races!Slots
        BY RaceSets
      <4>2. [state |-> "opening", to |-> <<host, "plain">>] \in Socket
        BY <4>1, SocketTypes
      <4> QED
        BY <3>1, <4>2
    <3>3. PICK d \in Socket : d = Races!Dropped(sock[<<c, f>>])
      <4>1. <<c, f>> \in Conns \X Races!Slots
        BY RaceSets
      <4>2. sock[<<c, f>>] \in Socket
        BY <1>1, <4>1 DEF RacesTyped
      <4> QED
        BY <2>2, <4>2, SocketTypes, RaceSets
    <3>4. sock' = [sock EXCEPT ![<<c, f>>] = d, ![<<c, "plain">>] = s]
      BY <2>1, <3>2, <3>3
    <3>5. sock' \in [Conns \X Races!Slots -> Socket]
      BY <1>1, <3>4 DEF RacesTyped
    <3>6. call' \in [Conns -> [pc : {"idle", "racing", "plain", "done", "error", "dropped"},
                               host : Names \cup Literals \cup {"none"}]]
      BY <1>1, <2>1 DEF RacesTyped
    <3> QED
      BY <1>4, <2>7, <3>5, <3>6, Zenon DEF RacesTyped
  <2>9. OthersKept(c)
    BY <1>6, <2>3, <2>4, RaceSets, ZenonT(40) DEF OthersKept, Branches
  <2>10. FellBack(c)'
    <3>1. PlainSocket(c)'
      BY <2>3, <2>4 DEF PlainSocket, To
    <3>2. \A h \in Fams : To(c, h)' = To(c, h)
      BY <2>4 DEF To
    <3>3. \A h \in Fams : Failed(branch'[<<c, h>>], raceQuery'[<<c, h>>], sock'[<<c, h>>], To(c, h)')
      BY <1>2, <1>5, <1>6, <1>7, <2>2, <2>3, <3>2
    <3>4. warned'[c] = TRUE <=> \E h \in Fams : branch'[<<c, h>>].failed = TRUE
      BY <1>2, <1>6, <1>7, <2>5, <2>6
    <3> QED
      BY <2>2, <2>4, <3>1, <3>3, <3>4 DEF FellBack
  <2> QED
    BY <2>8, <2>9, <2>10, OneCall DEF RacesInv, CallSound
<1>10. CASE branch[<<c, g>>].pc # "failed"
  <2>1. /\ UNCHANGED <<call, warned>>
        /\ sock' = [sock EXCEPT ![<<c, f>>] = Races!Dropped(sock[<<c, f>>])]
    BY <1>10 DEF Races!BranchFails, Races!FallsBack, g
  <2>2. /\ sock'[<<c, f>>] = Races!Dropped(sock[<<c, f>>]) /\ sock'[<<c, g>>] = sock[<<c, g>>]
        /\ sock'[<<c, "plain">>] = sock[<<c, "plain">>]
        /\ \A d \in Conns, h \in Races!Slots : d # c => sock'[<<d, h>>] = sock[<<d, h>>]
    BY <1>1, <1>2, <2>1, RaceSets DEF RacesTyped, Fams
  <2>3. RacesTyped'
    <3>1. sock' \in [Conns \X Races!Slots -> Socket]
      BY <1>1, <2>1, SocketTypes, RaceSets DEF RacesTyped, Racing
    <3> QED
      BY <1>1, <1>4, <2>1, <3>1 DEF RacesTyped
  <2>4. OthersKept(c)
    BY <1>6, <2>1, <2>2, RaceSets DEF OthersKept, Branches
  <2>5. Racing(c)'
    <3>1. \A h \in Fams : To(c, h)' = To(c, h)
      BY <2>1 DEF To
    <3>2. Failed(branch'[<<c, f>>], raceQuery'[<<c, f>>], sock'[<<c, f>>], To(c, f)')
      BY <1>6, <1>7, <2>2, <3>1
    <3>3. \/ Resolving(branch'[<<c, g>>], raceQuery'[<<c, g>>], sock'[<<c, g>>], To(c, g)')
          \/ Connecting(branch'[<<c, g>>], raceQuery'[<<c, g>>], sock'[<<c, g>>], To(c, g)')
          \/ Failed(branch'[<<c, g>>], raceQuery'[<<c, g>>], sock'[<<c, g>>], To(c, g)')
      BY <1>1, <1>2, <1>5, <1>6, <2>2, <3>1 DEF Racing
    <3> QED
      BY <1>1, <1>2, <1>6, <1>10, <2>1, <2>2, <3>2, <3>3 DEF Racing, Races!NoSocket, Races!Nowhere
  <2> QED
    BY <2>3, <2>4, <2>5, OneCall DEF RacesInv, CallSound
<1> QED
  BY <1>9, <1>10

\* A branch that is under way is one of a racing call.
LEMMA UnderWay ==
  ASSUME RacesInv, NEW c \in Conns, NEW f \in Fams
  PROVE  /\ branch[<<c, f>>].pc = "resolving" =>
              /\ Racing(c)
              /\ Resolving(branch[<<c, f>>], raceQuery[<<c, f>>], sock[<<c, f>>], To(c, f))
         /\ branch[<<c, f>>].pc = "connecting" =>
              /\ Racing(c)
              /\ Connecting(branch[<<c, f>>], raceQuery[<<c, f>>], sock[<<c, f>>], To(c, f))
<1>1. CallSound(c)
  BY DEF RacesInv, CallsSound
<1>2. NotBegun(c) \/ Direct(c) => branch[<<c, f>>].pc = "idle"
  BY DEF NotBegun, Direct, Unstarted, Races!Idle
<1>3. FellBack(c) => branch[<<c, f>>].pc = "failed"
  BY DEF FellBack, Failed
<1>4. Raced(c) => branch[<<c, f>>].pc \in {"won", "failed", "dropped"}
  BY DEF Raced, Won, Failed, DroppedBranch
<1>5. Racing(c) =>
        \/ Resolving(branch[<<c, f>>], raceQuery[<<c, f>>], sock[<<c, f>>], To(c, f))
        \/ Connecting(branch[<<c, f>>], raceQuery[<<c, f>>], sock[<<c, f>>], To(c, f))
        \/ Failed(branch[<<c, f>>], raceQuery[<<c, f>>], sock[<<c, f>>], To(c, f))
  BY DEF Racing
<1> QED
  BY <1>1, <1>2, <1>3, <1>4, <1>5 DEF CallSound, Resolving, Connecting, Failed

LEMMA RaceQueryingStep ==
  ASSUME DohInv, RacesInv, NEW t \in Branches, Races!Querying(t)
  PROVE  RacesInv' /\ EntriesSound'
<1>1. PICK c \in Conns, f \in Fams : t = <<c, f>>
  BY DEF Branches
<1>2. /\ branch[t].pc = "resolving" /\ Races!QueryStep(t)
      /\ UNCHANGED <<call, branch, sock, warned>>
  BY DEF Races!Querying, Races!eyeVars
<1>3. /\ EntriesSound' /\ RaceQueriesSound'
      /\ \A u \in Branches : u # t => raceQuery'[u] = raceQuery[u]
      /\ raceQuery'[t].pc \notin {"idle", "ended"}
      /\ raceQuery'[t].question = raceQuery[t].question
  BY <1>2, RaceQueryStep DEF RacesInv
<1>4. Racing(c) /\ Resolving(branch[t], raceQuery[t], sock[t], To(c, f))
  BY <1>1, <1>2, UnderWay
<1>5. OthersKept(c)
  BY <1>1, <1>2, <1>3 DEF OthersKept, Branches
<1>6. RacesTyped'
  BY <1>2 DEF RacesInv, CallsSound, RacesTyped
<1>7. Racing(c)'
  <2>1. \A h \in Fams : To(c, h)' = To(c, h)
    BY <1>2 DEF To
  <2>2. ASSUME NEW h \in Fams
        PROVE  \/ Resolving(branch'[<<c, h>>], raceQuery'[<<c, h>>], sock'[<<c, h>>], To(c, h)')
               \/ Connecting(branch'[<<c, h>>], raceQuery'[<<c, h>>], sock'[<<c, h>>], To(c, h)')
               \/ Failed(branch'[<<c, h>>], raceQuery'[<<c, h>>], sock'[<<c, h>>], To(c, h)')
    <3>1. CASE h = f
      BY <1>1, <1>2, <1>3, <1>4, <2>1, <3>1 DEF Resolving
    <3>2. CASE h # f
      <4>1. raceQuery'[<<c, h>>] = raceQuery[<<c, h>>]
        BY <1>1, <1>3, <3>2 DEF Branches
      <4> QED
        BY <1>2, <1>4, <2>1, <4>1 DEF Racing
    <3> QED
      BY <3>1, <3>2
  <2> QED
    BY <1>2, <1>4, <2>2 DEF Racing, Races!NoSocket, Races!Nowhere
<1>8. CallsSound'
  BY <1>5, <1>6, <1>7, OneCall DEF RacesInv, CallSound
<1> QED
  BY <1>3, <1>8 DEF RacesInv

LEMMA ConnectFailsStep ==
  ASSUME DohInv, RacesInv, NEW c \in Conns, NEW f \in Fams, Races!ConnectFails(c, f)
  PROVE  RacesInv' /\ EntriesSound'
<1> DEFINE b == branch[<<c, f>>]
<1>1. /\ call[c].pc = "racing" /\ b.pc = "connecting"
      /\ Races!BranchFails(c, f, b, "connect") /\ UNCHANGED <<cache, now, raceQuery>>
  BY DEF Races!ConnectFails
<1>2. Connecting(b, raceQuery[<<c, f>>], sock[<<c, f>>], To(c, f))
  BY <1>1, UnderWay
<1>3. b \in BranchRec /\ raceQuery[<<c, f>>] \in Query
  BY DEF RacesInv, CallsSound, RacesTyped, RaceQueriesSound, Branches
<1>4. Closed(Races!Dropped(sock[<<c, f>>]), To(c, f))
  BY <1>2, ClosedStays DEF Connecting
<1>5. b.failed = FALSE /\ raceQuery[<<c, f>>].pc = "ended"
  BY <1>2 DEF Connecting
<1> HIDE DEF b
<1>6. CallsSound'
  BY <1>1, <1>3, <1>4, <1>5, BranchFailsStep DEF b
<1> QED
  BY <1>1, <1>6 DEF RacesInv, RaceQueriesSound, DohInv, EntriesSound

\* The query of a branch is left.
LEMMA RaceLeaveStep ==
  ASSUME RaceQueriesSound, NEW t \in Branches,
         raceQuery' = [raceQuery EXCEPT ![t] = Left(raceQuery[t])], now' = now
  PROVE  /\ RaceQueriesSound'
         /\ raceQuery'[t] \in Query /\ raceQuery'[t].pc = "ended"
         /\ \A u \in Branches : u # t => raceQuery'[u] = raceQuery[u]
<1>1. Sound(Left(raceQuery[t]), now) /\ raceQuery[t] \in Query
  BY PlainlySound DEF RaceQueriesSound
<1>2. RaceQueriesSound'
  BY <1>1, RaceQueryChanges
<1>3. raceQuery'[t] = Left(raceQuery[t]) /\ Left(raceQuery[t]).pc = "ended"
  BY <1>1 DEF RaceQueriesSound, Left, Query
<1> QED
  BY <1>1, <1>2, <1>3 DEF RaceQueriesSound

LEMMA ResolveStep ==
  ASSUME DohInv, RacesInv, NEW c \in Conns, NEW f \in Fams, Races!Resolve(c, f)
  PROVE  RacesInv' /\ EntriesSound'
<1> DEFINE b == branch[<<c, f>>]
           told == raceQuery[<<c, f>>]
<1>1. /\ call[c].pc = "racing" /\ b.pc = "resolving"
      /\ raceQuery' = [raceQuery EXCEPT ![<<c, f>>] = Left(told)]
      /\ UNCHANGED <<cache, now>>
  BY DEF Races!Resolve, Races!Leave, Races!Left, Left, Races!NoBody, NoBody
<1>2. Racing(c) /\ RacesTyped /\ Resolving(b, told, sock[<<c, f>>], To(c, f))
  BY <1>1, UnderWay DEF RacesInv, CallsSound
<1>3. <<c, f>> \in Branches /\ b \in BranchRec /\ told \in Query /\ Sound(told, now)
  BY <1>2 DEF RacesTyped, RacesInv, RaceQueriesSound, Branches
<1>4. /\ RaceQueriesSound'
      /\ raceQuery'[<<c, f>>] \in Query /\ raceQuery'[<<c, f>>].pc = "ended"
      /\ \A u \in Branches : u # <<c, f>> => raceQuery'[u] = raceQuery[u]
  BY <1>1, <1>3, RaceLeaveStep DEF RacesInv
<1>5. Closed(Races!Dropped(sock[<<c, f>>]), To(c, f))
  BY <1>2, ClosedStays DEF Resolving, Closed
<1>6. b.failed = TRUE /\ b.why = "nothing" /\ sock[<<c, f>>] = Races!NoSocket
  BY <1>2 DEF Resolving
<1> SUFFICES CallsSound'
  BY <1>1, <1>4 DEF RacesInv, DohInv, EntriesSound
<1>7. ASSUME NEW a \in BranchRec, NEW why, Races!BranchFails(c, f, a, why),
             \/ why \in {"query", "parse"} /\ a.failed = TRUE
             \/ why \in {"no address", "connect"} /\ a.failed = FALSE
      PROVE  CallsSound'
  BY <1>1, <1>4, <1>5, <1>7, BranchFailsStep
<1>8. CASE Races!BranchFails(c, f, b, "query") \/ Races!BranchFails(c, f, b, "parse")
  BY <1>3, <1>6, <1>7, <1>8
<1>9. CASE Races!BranchFails(c, f, [b EXCEPT !.failed = FALSE], "no address")
  <2>1. PICK a : a = [b EXCEPT !.failed = FALSE]
    OBVIOUS
  <2>2. a \in BranchRec /\ a.failed = FALSE
    BY <1>3, <2>1 DEF BranchRec
  <2> QED
    BY <1>7, <1>9, <2>1, <2>2
<1>10. CASE /\ told.pc = "done"
           /\ branch' = [branch EXCEPT ![<<c, f>>].pc = "connecting", ![<<c, f>>].failed = FALSE]
           /\ sock' = [sock EXCEPT ![<<c, f>>] = Races!Opening(Races!Address(told.body))]
           /\ UNCHANGED <<call, warned>>
  <2>1. told.body.question = To(c, f)
    BY <1>2, <1>3, <1>10 DEF Sound, Answers, Resolving
  <2>2. sock' = [sock EXCEPT ![<<c, f>>] = [state |-> "opening", to |-> To(c, f)]]
    BY <1>10, <2>1 DEF Races!Opening, Races!Address
  <2>3. PICK a : a = [b EXCEPT !.pc = "connecting", !.failed = FALSE]
    OBVIOUS
  <2>4. branch' = [branch EXCEPT ![<<c, f>>] = a] /\ a \in BranchRec
    BY <1>2, <1>3, <1>10, <2>3 DEF RacesTyped, BranchRec
  <2>5. Connecting(a, Left(told), [state |-> "opening", to |-> To(c, f)], To(c, f))
    BY <1>2, <1>3, <2>3, Connects
  <2>6. /\ branch' \in [Branches -> BranchRec] /\ branch'[<<c, f>>] = a
        /\ \A u \in Branches : u # <<c, f>> => branch'[u] = branch[u]
    BY <1>2, <1>3, <2>4 DEF RacesTyped
  <2>7. raceQuery'[<<c, f>>] = Left(told)
    BY <1>1, <1>3 DEF RacesInv, RaceQueriesSound
  <2>8. /\ sock'[<<c, f>>] = [state |-> "opening", to |-> To(c, f)]
        /\ \A d \in Conns, h \in Races!Slots : <<d, h>> # <<c, f>> => sock'[<<d, h>>] = sock[<<d, h>>]
    BY <1>2, <2>2, RaceSets DEF RacesTyped
  <2>9. RacesTyped'
    <3>1. sock' \in [Conns \X Races!Slots -> Socket]
      BY <1>2, <2>2, SocketTypes, RaceSets DEF RacesTyped, Racing, To
    <3> QED
      BY <1>2, <1>10, <2>6, <3>1 DEF RacesTyped
  <2>10. OthersKept(c)
    BY <1>4, <1>10, <2>6, <2>8, RaceSets DEF OthersKept, Branches
  <2>11. Racing(c)'
    <3>1. \A h \in Fams : To(c, h)' = To(c, h)
      BY <1>10 DEF To
    <3>2. Connecting(branch'[<<c, f>>], raceQuery'[<<c, f>>], sock'[<<c, f>>], To(c, f)')
      BY <2>5, <2>6, <2>7, <2>8, <3>1
    <3>3. ASSUME NEW h \in Fams, h # f
          PROVE  \/ Resolving(branch'[<<c, h>>], raceQuery'[<<c, h>>], sock'[<<c, h>>], To(c, h)')
                 \/ Connecting(branch'[<<c, h>>], raceQuery'[<<c, h>>], sock'[<<c, h>>], To(c, h)')
                 \/ Failed(branch'[<<c, h>>], raceQuery'[<<c, h>>], sock'[<<c, h>>], To(c, h)')
      <4>1. /\ branch'[<<c, h>>] = branch[<<c, h>>] /\ raceQuery'[<<c, h>>] = raceQuery[<<c, h>>]
            /\ sock'[<<c, h>>] = sock[<<c, h>>]
        BY <1>4, <2>6, <2>8, <3>3, RaceSets DEF Branches
      <4> QED
        BY <1>2, <3>1, <4>1 DEF Racing
    <3>4. sock'[<<c, "plain">>] = sock[<<c, "plain">>]
      BY <2>8, RaceSets DEF Fams
    <3>5. branch'[<<c, f>>].pc # "failed"
      BY <3>2 DEF Connecting
    <3> QED
      BY <1>2, <1>10, <3>2, <3>3, <3>4, <3>5 DEF Racing, Races!NoSocket, Races!Nowhere
  <2> QED
    BY <2>9, <2>10, <2>11, OneCall DEF RacesInv, CallSound
<1> QED
  BY <1>8, <1>9, <1>10 DEF Races!Resolve

\* The loser of a race is dropped where it stands.
LEMMA WinStep ==
  ASSUME DohInv, RacesInv, NEW c \in Conns, NEW f \in Fams, Races!Win(c, f)
  PROVE  RacesInv' /\ EntriesSound'
<1> DEFINE g == Races!Other(f)
<1>1. g \in Fams /\ g # f /\ \A h \in Fams : h = f \/ h = g
  BY RaceSets
<1>2. /\ call[c].pc = "racing" /\ branch[<<c, f>>].pc = "connecting"
      /\ call' = [call EXCEPT ![c].pc = "done"]
      /\ branch' = [branch EXCEPT ![<<c, f>>].pc = "won",
                                  ![<<c, g>>].pc = IF @ = "failed" THEN @ ELSE "dropped"]
      /\ sock' = [sock EXCEPT ![<<c, f>>].state = "open", ![<<c, g>>] = Races!Dropped(@)]
      /\ raceQuery' = [raceQuery EXCEPT ![<<c, g>>] = Left(raceQuery[<<c, g>>])]
      /\ UNCHANGED <<cache, now, warned>>
  BY DEF Races!Win, Races!Left, Left, Races!NoBody, NoBody
<1> HIDE DEF g
<1>3. RacesTyped /\ Racing(c) /\ Connecting(branch[<<c, f>>], raceQuery[<<c, f>>], sock[<<c, f>>], To(c, f))
  BY <1>2, UnderWay DEF RacesInv, CallsSound
<1>4. /\ <<c, f>> \in Branches /\ <<c, g>> \in Branches /\ <<c, f>> # <<c, g>>
      /\ <<c, f>> \in Conns \X Races!Slots /\ <<c, g>> \in Conns \X Races!Slots
      /\ branch[<<c, f>>] \in BranchRec /\ branch[<<c, g>>] \in BranchRec
      /\ raceQuery[<<c, g>>] \in Query
      /\ sock[<<c, f>>] \in Socket /\ sock[<<c, g>>] \in Socket
  BY <1>1, <1>3, RaceSets DEF RacesTyped, RacesInv, RaceQueriesSound, Branches
<1>5. /\ RaceQueriesSound'
      /\ raceQuery'[<<c, g>>] = Left(raceQuery[<<c, g>>])
      /\ \A u \in Branches : u # <<c, g>> => raceQuery'[u] = raceQuery[u]
  BY <1>2, <1>4, RaceLeaveStep DEF RacesInv, RaceQueriesSound
<1> SUFFICES CallsSound'
  BY <1>2, <1>5 DEF RacesInv, DohInv, EntriesSound
<1>6. PICK a : a = [branch[<<c, f>>] EXCEPT !.pc = "won"]
  OBVIOUS
<1>7. PICK l : l = [branch[<<c, g>>] EXCEPT !.pc = IF @ = "failed" THEN @ ELSE "dropped"]
  OBVIOUS
<1>8. a \in BranchRec /\ l \in BranchRec
  BY <1>4, <1>6, <1>7 DEF BranchRec
<1>9. branch' = [branch EXCEPT ![<<c, f>>] = a, ![<<c, g>>] = l]
  BY <1>2, <1>3, <1>4, <1>6, <1>7 DEF RacesTyped
<1>10. /\ branch' \in [Branches -> BranchRec] /\ branch'[<<c, f>>] = a /\ branch'[<<c, g>>] = l
       /\ \A u \in Branches : u # <<c, f>> /\ u # <<c, g>> => branch'[u] = branch[u]
  BY <1>3, <1>4, <1>8, <1>9 DEF RacesTyped
<1>11. /\ sock'[<<c, f>>] = [sock[<<c, f>>] EXCEPT !.state = "open"]
       /\ sock'[<<c, g>>] = Races!Dropped(sock[<<c, g>>])
       /\ \A u \in Conns \X Races!Slots : u # <<c, f>> /\ u # <<c, g>> => sock'[u] = sock[u]
  BY <1>2, <1>3, <1>4 DEF RacesTyped
<1>12. Won(a, raceQuery'[<<c, f>>], sock'[<<c, f>>], To(c, f))
  BY <1>3, <1>4, <1>5, <1>6, <1>11, Wins
<1>13. \/ Failed(l, raceQuery'[<<c, g>>], sock'[<<c, g>>], To(c, g))
       \/ DroppedBranch(l, raceQuery'[<<c, g>>], sock'[<<c, g>>], To(c, g))
  <2>1. CASE Failed(branch[<<c, g>>], raceQuery[<<c, g>>], sock[<<c, g>>], To(c, g))
    <3>1. l = branch[<<c, g>>]
      BY <1>4, <1>7, <2>1 DEF Failed, BranchRec
    <3> QED
      BY <1>4, <1>5, <1>11, <2>1, <3>1, StaysFailed
  <2>2. CASE \/ Resolving(branch[<<c, g>>], raceQuery[<<c, g>>], sock[<<c, g>>], To(c, g))
             \/ Connecting(branch[<<c, g>>], raceQuery[<<c, g>>], sock[<<c, g>>], To(c, g))
    <3>1. l = [branch[<<c, g>>] EXCEPT !.pc = "dropped"]
      BY <1>4, <1>7, <2>2 DEF Resolving, Connecting, BranchRec
    <3> QED
      BY <1>4, <1>5, <1>11, <2>2, <3>1, Drops
  <2> QED
    BY <1>1, <1>3, <2>1, <2>2 DEF Racing
<1>14. call'[c].pc = "done" /\ call'[c].host = call[c].host /\ \A d \in Conns : d # c => call'[d] = call[d]
  BY <1>2, <1>3 DEF RacesTyped
<1>15. RacesTyped'
  <2>1. /\ [sock[<<c, f>>] EXCEPT !.state = "open"] \in Socket
        /\ Races!Dropped(sock[<<c, g>>]) \in Socket
    BY <1>4 DEF Socket, Races!Dropped
  <2>2. sock' \in [Conns \X Races!Slots -> Socket]
    BY <1>2, <1>3, <1>4, <2>1 DEF RacesTyped
  <2> QED
    BY <1>2, <1>3, <1>10, <2>2, ZenonT(40) DEF RacesTyped
<1>16. OthersKept(c)
  BY <1>2, <1>5, <1>10, <1>11, <1>14, RaceSets DEF OthersKept, Branches
<1>17. Raced(c)'
  <2>1. \A h \in Fams : To(c, h)' = To(c, h)
    BY <1>14 DEF To
  <2>2. sock'[<<c, "plain">>] = sock[<<c, "plain">>] /\ warned'[c] = warned[c]
    BY <1>1, <1>2, <1>11, RaceSets DEF Fams
  <2>3. a.pc = "won" /\ l.pc # "won"
    BY <1>12, <1>13 DEF Won, Failed, DroppedBranch
  <2>4. \A h \in Fams : branch'[<<c, h>>].pc = "won" <=> h = f
    BY <1>1, <1>10, <2>3
  <2>5. ASSUME NEW h \in Fams
        PROVE  \/ Won(branch'[<<c, h>>], raceQuery'[<<c, h>>], sock'[<<c, h>>], To(c, h)')
               \/ Failed(branch'[<<c, h>>], raceQuery'[<<c, h>>], sock'[<<c, h>>], To(c, h)')
               \/ DroppedBranch(branch'[<<c, h>>], raceQuery'[<<c, h>>], sock'[<<c, h>>], To(c, h)')
    BY <1>1, <1>10, <1>12, <1>13, <2>1
  <2> QED
    BY <1>3, <1>14, <2>2, <2>4, <2>5 DEF Racing, Raced, Races!NoSocket, Races!Nowhere
<1> QED
  BY <1>15, <1>16, <1>17, OneCall DEF RacesInv, CallSound

\* The plain connection of a call comes to an end, its branches being at theirs.
LEMMA PlainClosesOrOpens ==
  ASSUME RacesInv, RacesTyped', NEW c \in Conns, OthersKept(c), call[c].pc = "plain",
         call'[c].host = call[c].host,
         \/ /\ call'[c].pc = "done"
            /\ sock'[<<c, "plain">>] = [state |-> "open", to |-> To(c, "plain")]
         \/ /\ call'[c].pc \in {"error", "dropped"}
            /\ sock'[<<c, "plain">>] = [state |-> "closed", to |-> To(c, "plain")],
         warned'[c] = warned[c], \A f \in Fams : branch'[<<c, f>>] = branch[<<c, f>>],
         Direct(c) =>
           \A f \in Fams : Unstarted(branch[<<c, f>>], raceQuery'[<<c, f>>], sock'[<<c, f>>]),
         FellBack(c) =>
           \A f \in Fams : Failed(branch[<<c, f>>], raceQuery'[<<c, f>>], sock'[<<c, f>>], To(c, f))
  PROVE  CallsSound'
<1>1. Direct(c) \/ FellBack(c)
  BY Standing DEF RacesInv, CallsSound
<1>2. \A h : To(c, h)' = To(c, h)
  BY DEF To
<1>3. PlainSocket(c)'
  BY <1>2 DEF PlainSocket
<1>4. ASSUME Direct(c) PROVE Direct(c)'
  <2>1. \A f \in Fams : Unstarted(branch'[<<c, f>>], raceQuery'[<<c, f>>], sock'[<<c, f>>])
    BY <1>4
  <2>2. call'[c].host \in Literals /\ warned'[c] = FALSE
    BY <1>4 DEF Direct
  <2> QED
    BY <1>3, <2>1, <2>2 DEF Direct, Unstarted, Races!Idle, Races!NoSocket, Races!Nowhere
<1>5. ASSUME FellBack(c) PROVE FellBack(c)'
  <2>1. \A f \in Fams : Failed(branch'[<<c, f>>], raceQuery'[<<c, f>>], sock'[<<c, f>>], To(c, f)')
    BY <1>2, <1>5
  <2>2. call'[c].host \in Names
    BY <1>5 DEF FellBack
  <2>3. warned'[c] = TRUE <=> \E f \in Fams : branch'[<<c, f>>].failed = TRUE
    BY <1>5 DEF FellBack
  <2> QED
    BY <1>3, <2>1, <2>2, <2>3 DEF FellBack
<1> QED
  BY <1>1, <1>4, <1>5, OneCall DEF RacesInv, CallSound

LEMMA PlainEndsStep ==
  ASSUME DohInv, RacesInv, NEW c \in Conns, NEW ok \in BOOLEAN, Races!PlainEnds(c, ok)
  PROVE  RacesInv' /\ EntriesSound'
<1>1. PICK end, state :
        /\ end = IF ok THEN "done" ELSE "error"
        /\ state = IF ok THEN "open" ELSE "closed"
  OBVIOUS
<1>2. /\ call[c].pc = "plain" /\ call' = [call EXCEPT ![c].pc = end]
      /\ sock' = [sock EXCEPT ![<<c, "plain">>].state = state]
      /\ UNCHANGED <<cache, now, raceQuery, branch, warned>>
  BY <1>1 DEF Races!PlainEnds
<1>3. /\ RacesTyped
      /\ Direct(c) \/ FellBack(c)
      /\ sock[<<c, "plain">>] = [state |-> "opening", to |-> To(c, "plain")]
  BY <1>2, Standing DEF RacesInv, CallsSound
<1>4. \/ end = "done" /\ state = "open"
      \/ end = "error" /\ state = "closed"
  BY <1>1
<1>5. <<c, "plain">> \in Conns \X Races!Slots /\ \A f \in Fams : <<c, f>> \in Conns \X Races!Slots /\ f # "plain"
  BY RaceSets DEF Fams
<1>6. PICK s : s = [sock[<<c, "plain">>] EXCEPT !.state = state]
  OBVIOUS
<1>7. s = [state |-> state, to |-> To(c, "plain")]
  BY ONLY <1>3, <1>6
<1>8. s \in Socket
  BY ONLY <1>3, <1>4, <1>5, <1>6 DEF RacesTyped, Socket
<1>9. sock' = [sock EXCEPT ![<<c, "plain">>] = s]
  BY <1>2, <1>6
<1>10. /\ sock' \in [Conns \X Races!Slots -> Socket] /\ sock'[<<c, "plain">>] = s
       /\ \A u \in Conns \X Races!Slots : u # <<c, "plain">> => sock'[u] = sock[u]
  BY <1>3, <1>5, <1>8, <1>9 DEF RacesTyped
<1>11. \A f \in Fams : sock'[<<c, f>>] = sock[<<c, f>>]
  BY <1>5, <1>10
<1>12. PICK a : a = [call[c] EXCEPT !.pc = end]
  OBVIOUS
<1>13. /\ a.pc = end /\ a.host = call[c].host
       /\ a \in [pc : {"idle", "racing", "plain", "done", "error", "dropped"},
                 host : Names \cup Literals \cup {"none"}]
  BY ONLY <1>3, <1>4, <1>12, c \in Conns DEF RacesTyped
<1>14. call' = [call EXCEPT ![c] = a]
  BY <1>2, <1>12
<1>15. /\ call' \in [Conns -> [pc : {"idle", "racing", "plain", "done", "error", "dropped"},
                               host : Names \cup Literals \cup {"none"}]]
       /\ call'[c] = a /\ \A d \in Conns : d # c => call'[d] = call[d]
  BY ONLY <1>3, <1>13, <1>14, c \in Conns DEF RacesTyped
<1>16. RacesTyped'
  BY ONLY <1>2, <1>3, <1>10, <1>15 DEF RacesTyped
<1>17. OthersKept(c)
  BY <1>2, <1>10, <1>15, RaceSets DEF OthersKept
<1>18. /\ Direct(c) =>
            \A f \in Fams : Unstarted(branch[<<c, f>>], raceQuery'[<<c, f>>], sock'[<<c, f>>])
       /\ FellBack(c) =>
            \A f \in Fams : Failed(branch[<<c, f>>], raceQuery'[<<c, f>>], sock'[<<c, f>>], To(c, f))
  BY <1>2, <1>11 DEF Direct, FellBack
<1>19. CallsSound'
  BY <1>2, <1>4, <1>7, <1>10, <1>13, <1>15, <1>16, <1>17, <1>18, PlainClosesOrOpens
<1> QED
  BY <1>2, <1>19 DEF RacesInv, RaceQueriesSound, DohInv, EntriesSound

\* The client goes away: whatever the call has under way is dropped.
LEMMA AbandonStep ==
  ASSUME DohInv, RacesInv, NEW c \in Conns, Races!Abandon(c)
  PROVE  RacesInv' /\ EntriesSound'
<1>1. /\ call[c].pc \in {"racing", "plain"}
      /\ call' = [call EXCEPT ![c].pc = "dropped"]
      /\ branch' = [t \in Branches |->
                      IF t[1] = c /\ branch[t].pc \in {"resolving", "connecting"}
                      THEN [branch[t] EXCEPT !.pc = "dropped"] ELSE branch[t]]
      /\ sock' = [s \in Conns \X Races!Slots |-> IF s[1] = c THEN Races!Dropped(sock[s]) ELSE sock[s]]
      /\ raceQuery' = [t \in Branches |-> IF t[1] = c THEN Left(raceQuery[t]) ELSE raceQuery[t]]
      /\ UNCHANGED <<cache, now, warned>>
  BY RaceSets DEF Races!Abandon, Races!Left, Left, Races!NoBody, NoBody
<1>2. RacesTyped /\ CallSound(c) /\ raceQuery \in [Branches -> Query]
  BY DEF RacesInv, CallsSound, RaceQueriesSound
<1>3. \A f \in Fams : /\ <<c, f>> \in Branches /\ <<c, f>> \in Conns \X Races!Slots
                      /\ branch[<<c, f>>] \in BranchRec /\ raceQuery[<<c, f>>] \in Query
                      /\ sock[<<c, f>>] \in Socket
  BY <1>2, RaceSets DEF RacesTyped, Branches
<1>4. RaceQueriesSound'
  <2>1. ASSUME NEW t \in Branches PROVE Sound(raceQuery'[t], now)
    BY <1>1, PlainlySound DEF RacesInv, RaceQueriesSound
  <2> QED
    BY <1>1, <2>1 DEF RaceQueriesSound, Sound
<1> SUFFICES CallsSound'
  BY <1>1, <1>4 DEF RacesInv, DohInv, EntriesSound
<1>5. PICK a : a = [call[c] EXCEPT !.pc = "dropped"]
  OBVIOUS
<1>6. /\ a.pc = "dropped" /\ a.host = call[c].host
      /\ a \in [pc : {"idle", "racing", "plain", "done", "error", "dropped"},
                host : Names \cup Literals \cup {"none"}]
  BY ONLY <1>2, <1>5, c \in Conns DEF RacesTyped
<1>7. call' = [call EXCEPT ![c] = a]
  BY <1>1, <1>5
<1>8. /\ call' \in [Conns -> [pc : {"idle", "racing", "plain", "done", "error", "dropped"},
                              host : Names \cup Literals \cup {"none"}]]
      /\ call'[c] = a /\ \A d \in Conns : d # c => call'[d] = call[d]
  BY ONLY <1>2, <1>6, <1>7, c \in Conns DEF RacesTyped
<1>9. branch' \in [Branches -> BranchRec]
  <2>1. ASSUME NEW t \in Branches
        PROVE  branch[t] \in BranchRec /\ [branch[t] EXCEPT !.pc = "dropped"] \in BranchRec
    BY ONLY <1>2, t \in Branches DEF RacesTyped, BranchRec
  <2> QED
    BY <1>1, <2>1
<1>10. sock' \in [Conns \X Races!Slots -> Socket]
  <2>1. \A s \in Socket : Races!Dropped(s) \in Socket
    BY DEF Races!Dropped, Socket
  <2>2. sock \in [Conns \X Races!Slots -> Socket]
    BY <1>2 DEF RacesTyped
  <2> QED
    BY <1>1, <2>1, <2>2
<1>11. RacesTyped'
  BY <1>1, <1>2, <1>8, <1>9, <1>10 DEF RacesTyped
<1>12. /\ sock'[<<c, "plain">>] = Races!Dropped(sock[<<c, "plain">>])
       /\ \A f \in Fams : /\ sock'[<<c, f>>] = Races!Dropped(sock[<<c, f>>])
                          /\ raceQuery'[<<c, f>>] = Left(raceQuery[<<c, f>>])
                          /\ branch'[<<c, f>>] = IF branch[<<c, f>>].pc \in {"resolving", "connecting"}
                                                 THEN [branch[<<c, f>>] EXCEPT !.pc = "dropped"]
                                                 ELSE branch[<<c, f>>]
  BY <1>1, <1>3, RaceSets
<1>13. OthersKept(c)
  BY <1>1, <1>8, RaceSets DEF OthersKept, Branches
<1>14. \A h : To(c, h)' = To(c, h)
  BY <1>6, <1>8 DEF To
<1>15. ASSUME NEW f \in Fams, Failed(branch[<<c, f>>], raceQuery[<<c, f>>], sock[<<c, f>>], To(c, f))
       PROVE  /\ Failed(branch[<<c, f>>], raceQuery'[<<c, f>>], sock'[<<c, f>>], To(c, f))
              /\ branch'[<<c, f>>] = branch[<<c, f>>]
  <2>1. branch[<<c, f>>].pc = "failed"
    BY <1>15 DEF Failed
  <2>2. branch'[<<c, f>>] = branch[<<c, f>>]
    BY <1>12, <2>1
  <2> QED
    BY <1>3, <1>12, <1>15, <2>2, StaysFailed
<1>16. CASE call[c].pc = "racing"
  <2>1. Racing(c)
    BY <1>2, <1>16, Standing
  <2>2. ASSUME NEW f \in Fams
        PROVE  \/ Failed(branch'[<<c, f>>], raceQuery'[<<c, f>>], sock'[<<c, f>>], To(c, f)')
               \/ DroppedBranch(branch'[<<c, f>>], raceQuery'[<<c, f>>], sock'[<<c, f>>], To(c, f)')
    <3>1. CASE Failed(branch[<<c, f>>], raceQuery[<<c, f>>], sock[<<c, f>>], To(c, f))
      BY <1>14, <1>15, <3>1
    <3>2. CASE \/ Resolving(branch[<<c, f>>], raceQuery[<<c, f>>], sock[<<c, f>>], To(c, f))
               \/ Connecting(branch[<<c, f>>], raceQuery[<<c, f>>], sock[<<c, f>>], To(c, f))
      <4>1. branch[<<c, f>>].pc \in {"resolving", "connecting"}
        BY <3>2 DEF Resolving, Connecting
      <4>2. branch'[<<c, f>>] = [branch[<<c, f>>] EXCEPT !.pc = "dropped"]
        BY <1>12, <4>1
      <4> QED
        BY <1>3, <1>12, <1>14, <3>2, <4>2, Drops
    <3> QED
      BY <2>1, <3>1, <3>2 DEF Racing
  <2>3. sock'[<<c, "plain">>] = Races!NoSocket
    BY <1>12, <2>1, Sockets DEF Racing
  <2>4. call'[c].pc = "dropped" /\ call'[c].host \in Names /\ warned'[c] = FALSE
    BY <1>1, <1>6, <1>8, <2>1 DEF Racing
  <2>5. Raced(c)'
    BY <2>2, <2>3, <2>4 DEF Raced, Races!NoSocket, Races!Nowhere
  <2> QED
    BY <1>11, <1>13, <2>5, OneCall DEF RacesInv, CallSound
<1>17. CASE call[c].pc = "plain"
  <2>1. sock[<<c, "plain">>] = [state |-> "opening", to |-> To(c, "plain")]
    BY <1>2, <1>17, Standing
  <2>2. sock'[<<c, "plain">>] = [state |-> "closed", to |-> To(c, "plain")]
    BY <1>12, <2>1, Sockets
  <2>3. ASSUME NEW f \in Fams, Direct(c) \/ FellBack(c) PROVE branch'[<<c, f>>] = branch[<<c, f>>]
    <3>0. Races!Idle.pc = "idle"
      BY DEF Races!Idle
    <3>1. branch[<<c, f>>].pc \in {"idle", "failed"}
      BY <2>3, <3>0 DEF Direct, FellBack, Unstarted, Failed
    <3> QED
      BY <1>12, <3>1
  <2>4. \A f \in Fams : branch'[<<c, f>>] = branch[<<c, f>>]
    BY <1>2, <1>17, <2>3, Standing
  <2>5. FellBack(c) =>
          \A f \in Fams : Failed(branch[<<c, f>>], raceQuery'[<<c, f>>], sock'[<<c, f>>], To(c, f))
    BY <1>15 DEF FellBack
  <2>6. ASSUME Direct(c), NEW f \in Fams
        PROVE  Unstarted(branch[<<c, f>>], raceQuery'[<<c, f>>], sock'[<<c, f>>])
    <3>1. Unstarted(branch[<<c, f>>], raceQuery[<<c, f>>], sock[<<c, f>>])
      BY <2>6 DEF Direct
    <3>2. Left(raceQuery[<<c, f>>]).pc = "ended"
      BY <1>3 DEF Left, Query
    <3> QED
      <4>1. sock'[<<c, f>>] = Races!Dropped(sock[<<c, f>>]) /\ raceQuery'[<<c, f>>] = Left(raceQuery[<<c, f>>])
        BY <1>12
      <4>2. branch[<<c, f>>] = Races!Idle /\ sock[<<c, f>>] = Races!NoSocket
        BY <3>1 DEF Unstarted
      <4>3. Races!Dropped(Races!NoSocket) = Races!NoSocket
        BY Sockets
      <4> QED
        BY ONLY <3>2, <4>1, <4>2, <4>3 DEF Unstarted
  <2>7. call'[c].pc = "dropped" /\ call'[c].host = call[c].host /\ warned'[c] = warned[c]
    BY <1>1, <1>6, <1>8
  <2> QED
    BY <1>11, <1>13, <1>17, <2>2, <2>4, <2>5, <2>6, <2>7, PlainClosesOrOpens
<1> QED
  BY <1>1, <1>16, <1>17

LEMMA RacesStepInv ==
  ASSUME DohInv, RacesInv, Races!Next
  PROVE  RacesInv' /\ EntriesSound'
<1>1. CASE \E c \in Conns, host \in Names \cup Literals : Races!ConnectDirectly(c, host) \/ Races!Race(c, host)
  BY <1>1, ConnectDirectlyStep, RaceStep
<1>2. CASE \E t \in Races!Attempts : Races!Querying(t)
  BY <1>2, RaceQueryingStep, RaceSets
<1>3. CASE \E c \in Conns, f \in Races!Families :
             Races!Resolve(c, f) \/ Races!ConnectFails(c, f) \/ Races!Win(c, f)
  BY <1>3, ResolveStep, ConnectFailsStep, WinStep, RaceSets
<1>4. CASE \E c \in Conns, ok \in BOOLEAN : Races!PlainEnds(c, ok)
  BY <1>4, PlainEndsStep
<1>5. CASE \E c \in Conns : Races!Abandon(c)
  BY <1>5, AbandonStep
<1> QED
  BY <1>1, <1>2, <1>3, <1>4, <1>5 DEF Races!Next

\* Time passes for the queries of the races as for those of the relay.
LEMMA RacesTick ==
  ASSUME DohInv, RaceQueriesSound, Races!Tick
  PROVE  RaceQueriesSound'
<1>1. now' = now + 1 /\ now \in 0 .. MaxTime /\ now' \in 0 .. MaxTime /\ raceQuery' = raceQuery
  BY DohAssumption DEF Races!Tick, DohInv, QueriesSound
<1>2. ASSUME NEW t \in Branches PROVE Sound(raceQuery[t], now')
  <2>1. Sound(raceQuery[t], now) /\ raceQuery[t].pc # "answered" /\ raceQuery[t] \in Query
    BY RaceSets DEF Races!Tick, Races!At, RaceQueriesSound
  <2>2. raceQuery[t].since <= now'
    BY <1>1, <2>1 DEF Sound, Query
  <2> QED
    BY <2>1, <2>2 DEF Sound
<1> QED
  BY <1>1, <1>2 DEF RaceQueriesSound

LEMMA CallsKept ==
  ASSUME CallsSound, UNCHANGED racesOwn
  PROVE  CallsSound'
<1>1. UNCHANGED <<raceQuery, call, branch, sock, warned>>
  BY DEF racesOwn
<1>2. RacesTyped'
  BY <1>1 DEF CallsSound, RacesTyped
<1>3. ASSUME NEW c \in Conns PROVE CallSound(c)'
  BY <1>1, CallKept DEF CallsSound
<1> QED
  BY <1>2, <1>3 DEF CallsSound

LEMMA SharedInitInv == SharedInit => SInv
<1> SUFFICES ASSUME SharedInit PROVE SInv
  OBVIOUS
<1>1. RInv
  BY RelayInitInv DEF SharedInit
<1>2. /\ call = [c \in Conns |-> [pc |-> "idle", host |-> "none"]]
      /\ branch = [t \in Branches |-> Races!Idle]
      /\ sock = [s \in Conns \X Races!Slots |-> Races!NoSocket]
      /\ warned = [c \in Conns |-> FALSE]
      /\ raceQuery = [t \in Branches |-> NoQuery] /\ now = 0
  BY RaceSets DEF SharedInit, Races!Init, Races!DohInit, Races!NoQuery, NoQuery, Races!NoBody, NoBody
<1>3. RaceQueriesSound
  BY <1>2, NoQuerySound DEF RaceQueriesSound, Sound
<1>4. RacesTyped
  <2>1. Races!Idle \in BranchRec
    BY DEF Races!Idle, BranchRec
  <2>2. Races!NoSocket \in Socket
    BY DEF Races!NoSocket, Socket
  <2> QED
    BY <1>2, <2>1, <2>2 DEF RacesTyped
<1>5. ASSUME NEW c \in Conns PROVE NotBegun(c)
  <2>1. ASSUME NEW f \in Fams
        PROVE  /\ branch[<<c, f>>] = Races!Idle /\ raceQuery[<<c, f>>] = NoQuery
               /\ sock[<<c, f>>] = Races!NoSocket
    BY <1>2, RaceSets DEF Branches
  <2>2. NoQuery.pc = "idle"
    BY DEF NoQuery
  <2>3. sock[<<c, "plain">>] = Races!NoSocket
    BY <1>2, RaceSets
  <2> QED
    BY <1>2, <2>1, <2>2, <2>3 DEF NotBegun, Unstarted
<1> QED
  BY <1>1, <1>3, <1>4, <1>5 DEF SInv, RacesInv, CallsSound, CallSound

LEMMA SharedStepInv == SInv /\ [SharedNext]_sharedVars => SInv'
<1> SUFFICES ASSUME SInv, [SharedNext]_sharedVars PROVE SInv'
  OBVIOUS
<1>1. RInv /\ RacesInv /\ DohInv
  BY DEF SInv, RInv
<1>2. ASSUME UNCHANGED <<now, racesOwn>> PROVE RacesInv'
  <2>1. CallsSound'
    BY <1>1, <1>2, CallsKept DEF RacesInv
  <2>2. UNCHANGED <<now, raceQuery>>
    BY <1>2 DEF racesOwn
  <2> QED
    BY <1>1, <2>1, <2>2 DEF RacesInv, RaceQueriesSound
<1>3. CASE RelayStep
  <2>1. RInv'
    BY <1>1, <1>3, RelayStepInv DEF RelayStep, Next
  <2> QED
    BY <1>2, <1>3, <2>1 DEF RelayStep, SInv
<1>4. CASE RacesStep
  <2>1. RacesInv' /\ EntriesSound'
    BY <1>1, <1>4, RacesStepInv DEF RacesStep
  <2>2. UNCHANGED <<now, query, from, chan, out, sent>>
    BY <1>4 DEF RacesStep, relayVars
  <2>3. DohInv'
    BY <1>1, <2>1, <2>2 DEF DohInv, QueriesSound
  <2>4. RepliesRight'
    BY <1>1, <2>2, RepliesKept DEF RInv
  <2>5. Typed' /\ Owned'
    BY <1>1, <2>2 DEF RInv, Typed, Owned, At
  <2> QED
    BY <2>1, <2>3, <2>4, <2>5 DEF SInv, RInv
<1>5. CASE TimePasses
  <2>1. RInv'
    BY <1>1, <1>5, RelayStepInv DEF TimePasses, Next
  <2>2. RaceQueriesSound'
    BY <1>1, <1>5, RacesTick DEF TimePasses, RacesInv
  <2>3. CallsSound'
    BY <1>1, <1>5, CallsKept DEF TimePasses, RacesInv, Races!Tick, racesOwn
  <2> QED
    BY <2>1, <2>2, <2>3 DEF SInv, RacesInv
<1>6. CASE UNCHANGED sharedVars
  <2>1. UNCHANGED vars /\ UNCHANGED <<now, racesOwn>>
    BY <1>6 DEF sharedVars, vars, dohVars
  <2> QED
    BY <1>1, <1>2, <2>1, RelayStepInv DEF SInv
<1> QED
  BY <1>3, <1>4, <1>5, <1>6 DEF SharedNext

\* What the relay and the races keep of their queries, calls and replies, while
\* each fills the cache the other one reads.
THEOREM SharedInvariant == SharedSpec => []SInv
BY SharedInitInv, SharedStepInv, PTL DEF SharedSpec

----------------------------------------------------------------------------
\* The relay's replies are right, and none is too old, with the races at work.
THEOREM RelayStaysUnmixed == SharedSpec => []RelayUnmixed
<1>1. ASSUME SInv PROVE RelayUnmixed
  <2>1. TypeOK
    BY <1>1, DohInvTypes DEF SInv, RInv, Typed, TypeOK
  <2>2. RightReply /\ FreshReply
    BY <1>1, RepliesAreRight DEF SInv, Right, Answers, RightReply, FreshReply
  <2> QED
    BY <2>1, <2>2 DEF RelayUnmixed
<1> QED
  BY <1>1, SharedInvariant, PTL

\* The cache holds what it should, whichever of the two filled it.
THEOREM SharedCacheKept == SharedSpec => []CacheSound
<1>1. SInv => CacheSound
  BY DohInvTypes DEF SInv, RInv
<1> QED
  BY <1>1, SharedInvariant, PTL

\* The socket of a branch, as far as the branch has come.
LEMMA SocketOfABranch ==
  ASSUME NEW b, NEW q, NEW s, NEW to
  PROVE  /\ Unstarted(b, q, s) \/ Resolving(b, q, s, to) => s = Races!NoSocket
         /\ Connecting(b, q, s, to) => s = [state |-> "opening", to |-> to]
         /\ Failed(b, q, s, to) \/ DroppedBranch(b, q, s, to) => Closed(s, to)
         /\ Won(b, q, s, to) => s = [state |-> "open", to |-> to]
<1>1. Unstarted(b, q, s) \/ Resolving(b, q, s, to) => s = Races!NoSocket
  BY DEF Unstarted, Resolving
<1>2. Connecting(b, q, s, to) => s = [state |-> "opening", to |-> to]
  BY DEF Connecting
<1>3. Failed(b, q, s, to) \/ DroppedBranch(b, q, s, to) => Closed(s, to)
  BY DEF Failed, DroppedBranch
<1>4. Won(b, q, s, to) => s = [state |-> "open", to |-> to]
  BY DEF Won
<1> QED
  BY <1>1, <1>2, <1>3, <1>4

LEMMA ClosedSocket ==
  ASSUME NEW s, NEW to, Closed(s, to)
  PROVE  s.state \in {"none", "closed"} /\ (s = Races!NoSocket \/ s.to = to)
<1>1. Races!NoSocket.state = "none"
  BY DEF Races!NoSocket
<1> QED
  BY <1>1 DEF Closed

\* Where the plain connection of a call goes to, and what it costs.
LEMMA PlainOfACall ==
  ASSUME SInv, NEW c \in Conns
  PROVE  \/ sock[<<c, "plain">>].to[1] \notin Names /\ warned[c] = FALSE
         \/ sock[<<c, "plain">>].to[1] \in Names /\ FellBack(c)
<1>1. CallSound(c)
  BY DEF SInv, RacesInv, CallsSound
<1>2. sock[<<c, "plain">>] = Races!NoSocket => sock[<<c, "plain">>].to[1] \notin Names
  BY SharedAssumption DEF Races!NoSocket
<1>3. PlainSocket(c) => sock[<<c, "plain">>].to[1] = call[c].host
  BY DEF PlainSocket, To
<1>4. NotBegun(c) \/ Racing(c) \/ Raced(c) =>
        sock[<<c, "plain">>] = Races!NoSocket /\ warned[c] = FALSE
  BY DEF NotBegun, Racing, Raced
<1>5. Direct(c) => PlainSocket(c) /\ warned[c] = FALSE /\ call[c].host \notin Names
  BY SharedAssumption DEF Direct
<1>6. FellBack(c) => PlainSocket(c) /\ call[c].host \in Names
  BY DEF FellBack
<1> QED
  BY <1>1, <1>2, <1>3, <1>4, <1>5, <1>6 DEF CallSound

\* A name leaves in the clear only after both families have failed for good.
THEOREM NamesStayInside == SharedSpec => []NameKeptInside
<1>1. ASSUME SInv PROVE NameKeptInside
  <2>1. ASSUME NEW c \in Conns, FellBack(c), NEW f \in Fams
        PROVE  /\ branch[<<c, f>>].pc = "failed" /\ raceQuery[<<c, f>>].pc = "ended"
               /\ sock[<<c, f>>].state \in {"none", "closed"}
    <3>1. Failed(branch[<<c, f>>], raceQuery[<<c, f>>], sock[<<c, f>>], To(c, f))
      BY <2>1 DEF FellBack
    <3>2. branch[<<c, f>>].pc = "failed" /\ raceQuery[<<c, f>>].pc = "ended"
      BY <3>1 DEF Failed
    <3>3. sock[<<c, f>>].state \in {"none", "closed"}
      BY <3>1, SocketOfABranch, ClosedSocket
    <3> QED
      BY <3>2, <3>3
  <2> QED
    BY <1>1, <2>1, PlainOfACall, RaceSets DEF NameKeptInside, Races!NameKeptInside
<1> QED
  BY <1>1, SharedInvariant, PTL

\* A call that fell back warns exactly when a query of its own brought nothing.
THEOREM WarnsTruly == SharedSpec => []WarnedWhenDohFailed
<1>1. ASSUME SInv PROVE WarnedWhenDohFailed
  <2>1. ASSUME NEW c \in Conns, FellBack(c)
        PROVE  warned[c] = TRUE <=> \E f \in Fams : branch[<<c, f>>].why \in {"query", "parse"}
    <3>1. \A f \in Fams : branch[<<c, f>>].failed = TRUE <=> branch[<<c, f>>].why \in {"query", "parse"}
      BY <2>1 DEF FellBack, Failed
    <3> QED
      BY <2>1, <3>1 DEF FellBack
  <2>2. \A c \in Conns : warned[c] \in BOOLEAN
    BY <1>1 DEF SInv, RacesInv, CallsSound, RacesTyped
  <2> QED
    BY <1>1, <2>1, <2>2, PlainOfACall, RaceSets DEF WarnedWhenDohFailed, Races!WarnedWhenDohFailed
<1> QED
  BY <1>1, SharedInvariant, PTL

\* The socket of a family, in every state of its call.
LEMMA FamilySocket ==
  ASSUME SInv, NEW c \in Conns, NEW f \in Fams
  PROVE  sock[<<c, f>>] = Races!NoSocket \/ sock[<<c, f>>].to = <<call[c].host, f>>
<1>1. CallSound(c)
  BY DEF SInv, RacesInv, CallsSound
<1>2. ASSUME NEW b, NEW q, NEW s, NEW to,
             \/ Unstarted(b, q, s) \/ Resolving(b, q, s, to) \/ Connecting(b, q, s, to)
             \/ Failed(b, q, s, to) \/ DroppedBranch(b, q, s, to) \/ Won(b, q, s, to)
      PROVE  s = Races!NoSocket \/ s.to = to
  BY <1>2, SocketOfABranch, ClosedSocket
<1>3. \/ Unstarted(branch[<<c, f>>], raceQuery[<<c, f>>], sock[<<c, f>>])
      \/ Resolving(branch[<<c, f>>], raceQuery[<<c, f>>], sock[<<c, f>>], To(c, f))
      \/ Connecting(branch[<<c, f>>], raceQuery[<<c, f>>], sock[<<c, f>>], To(c, f))
      \/ Failed(branch[<<c, f>>], raceQuery[<<c, f>>], sock[<<c, f>>], To(c, f))
      \/ DroppedBranch(branch[<<c, f>>], raceQuery[<<c, f>>], sock[<<c, f>>], To(c, f))
      \/ Won(branch[<<c, f>>], raceQuery[<<c, f>>], sock[<<c, f>>], To(c, f))
  BY <1>1 DEF CallSound, NotBegun, Racing, Direct, FellBack, Raced
<1> QED
  BY <1>2, <1>3 DEF To

\* What a family is connected to is the call's own host, resolved for it.
THEOREM AddressesAreRight == SharedSpec => []RightAddress
<1>1. Races!NoSocket.state = "none"
  BY DEF Races!NoSocket
<1>2. SInv => RightAddress
  BY <1>1, FamilySocket, RaceSets DEF RightAddress, Races!RightAddress
<1> QED
  BY <1>2, SharedInvariant, PTL

LEMMA RacesTypes ==
  ASSUME SInv
  PROVE  Races!TypeOK
<1>1. Races!DohTypeOK
  <2>1. cache \in Seq(Entry) /\ now \in 0 .. MaxTime /\ raceQuery \in [Branches -> Query]
    BY DEF SInv, RInv, DohInv, QueriesSound, EntriesSound, RacesInv, RaceQueriesSound
  <2>2. Races!Entry = Entry
    BY DEF Races!Entry, Races!Body, Entry, Body
  <2>3. Query = [pc : Races!Phases, id : Ids \cup {CacheId}, question : Questions \cup {NoQuestion},
                 since : 0 .. MaxTime, body : Races!Body \cup {Races!NoBody}]
    BY DEF Query, Races!Phases, Phases, Races!Body, Body, Races!NoBody, NoBody
  <2> QED
    BY <2>1, <2>2, <2>3, RaceSets DEF Races!DohTypeOK
<1>2. RacesTyped
  BY DEF SInv, RacesInv, CallsSound
<1> QED
  BY <1>1, <1>2, RaceSets DEF Races!TypeOK, RacesTyped, BranchRec, Socket

\* The one connection of a call that returns one, and none otherwise.
LEMMA SocketsOfACall ==
  ASSUME SInv, NEW c \in Conns
  PROVE  /\ call[c].pc = "done" =>
              \E s \in Races!Slots : /\ sock[<<c, s>>].state = "open"
                                     /\ Races!LiveSockets(c) = {s}
         /\ call[c].pc \in {"idle", "error", "dropped"} => Races!LiveSockets(c) = {}
<1> DEFINE shut(s) == sock[<<c, s>>].state \notin {"opening", "open"}
<1>1. CallSound(c)
  BY DEF SInv, RacesInv, CallsSound
<1>2. Races!NoSocket.state = "none"
  BY DEF Races!NoSocket
<1>3. ASSUME NEW f \in Fams,
             \/ Unstarted(branch[<<c, f>>], raceQuery[<<c, f>>], sock[<<c, f>>])
             \/ Failed(branch[<<c, f>>], raceQuery[<<c, f>>], sock[<<c, f>>], To(c, f))
             \/ DroppedBranch(branch[<<c, f>>], raceQuery[<<c, f>>], sock[<<c, f>>], To(c, f))
      PROVE  shut(f)
  BY <1>2, <1>3, SocketOfABranch, ClosedSocket
<1>4. CASE NotBegun(c)
  <2>1. \A s \in Races!Slots : shut(s)
    BY <1>2, <1>3, <1>4, RaceSets DEF NotBegun
  <2>2. call[c].pc = "idle"
    BY <1>4 DEF NotBegun
  <2> QED
    BY <2>1, <2>2 DEF Races!LiveSockets
<1>5. CASE Racing(c)
  BY <1>5 DEF Racing
<1>6. CASE Direct(c) \/ FellBack(c)
  <2>1. PlainSocket(c) /\ \A f \in Fams : shut(f)
    BY <1>3, <1>6 DEF Direct, FellBack
  <2>2. call[c].pc = "done" => sock[<<c, "plain">>].state = "open"
    BY <2>1 DEF PlainSocket
  <2>3. call[c].pc \in {"idle", "error", "dropped"} => shut("plain")
    BY <2>1 DEF PlainSocket
  <2> QED
    BY <2>1, <2>2, <2>3, RaceSets DEF Races!LiveSockets
<1>7. CASE Raced(c)
  <2>1. shut("plain") /\ call[c].pc \in {"done", "dropped"}
    BY <1>2, <1>7 DEF Raced
  <2>2. ASSUME NEW f \in Fams
        PROVE  \/ Won(branch[<<c, f>>], raceQuery[<<c, f>>], sock[<<c, f>>], To(c, f)) /\ call[c].pc = "done"
               \/ branch[<<c, f>>].pc # "won" /\ shut(f)
    BY <1>3, <1>7 DEF Raced, Failed, DroppedBranch
  <2>3. CASE call[c].pc = "dropped"
    <3>1. \A f \in Fams : shut(f)
      BY <2>2, <2>3
    <3> QED
      BY <2>1, <2>3, <3>1, RaceSets DEF Races!LiveSockets
  <2>4. CASE call[c].pc = "done"
    <3>1. PICK f \in Fams : \A g \in Fams : branch[<<c, g>>].pc = "won" <=> g = f
      BY <1>7, <2>4 DEF Raced
    <3>2. sock[<<c, f>>].state = "open"
      <4>1. Won(branch[<<c, f>>], raceQuery[<<c, f>>], sock[<<c, f>>], To(c, f))
        BY <2>2, <3>1
      <4> QED
        BY <4>1, SocketOfABranch
    <3>3. \A g \in Fams : g # f => shut(g)
      BY <2>2, <3>1 DEF Won
    <3> QED
      BY <2>1, <2>4, <3>2, <3>3, RaceSets DEF Races!LiveSockets, Fams
  <2> QED
    BY <2>1, <2>3, <2>4
<1> QED
  BY <1>1, <1>4, <1>5, <1>6, <1>7 DEF CallSound

\* A call that returns a connection holds that one alone, and one that ends
\* otherwise holds none.
THEOREM HoldsOneConnection == SharedSpec => []OneConnection
<1>1. ASSUME SInv PROVE OneConnection
  <2>1. ASSUME NEW c \in Conns, call[c].pc = "done"
        PROVE  /\ Cardinality(Races!LiveSockets(c)) = 1
               /\ \A s \in Races!LiveSockets(c) : sock[<<c, s>>].state = "open"
    BY <1>1, <2>1, SocketsOfACall, FS_Singleton
  <2>2. ASSUME NEW c \in Conns, call[c].pc \in {"idle", "error", "dropped"}
        PROVE  Races!LiveSockets(c) = {}
    BY <1>1, <2>2, SocketsOfACall
  <2>3. Races!OneConnection
    <3>1. \A S : Races!Cardinality(S) = Cardinality(S)
      BY DEF Races!Cardinality, Cardinality
    <3> QED
      BY <2>1, <2>2, <3>1 DEF Races!OneConnection
  <2> QED
    BY <1>1, <2>3, RacesTypes DEF OneConnection
<1> QED
  BY <1>1, SharedInvariant, PTL
=============================================================================
