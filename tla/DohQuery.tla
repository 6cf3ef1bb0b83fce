------------------------------ MODULE DohQuery ------------------------------
(***************************************************************************)
(* doh_query (utils/dns.rs) and the answer cache in ProxyState: the one    *)
(* path by which names are resolved, shared by the DNS relay and by every  *)
(* connection that races its address families.                             *)
(*                                                                         *)
(* This module has the procedure and no specification of its own: callers  *)
(* start a query, take its steps, and read off its outcome.  Each action   *)
(* is the code between two awaits.  No lock guard is held across an await, *)
(* so an access to the cache is one step.                                  *)
(*                                                                         *)
(* A question stands for the bytes of a query behind its first two, an id  *)
(* for those two; the code puts CacheId in their place, so a cache key is  *)
(* a question.  A caller is one call of doh_query: it is not used again.   *)
(* (A query of less than two bytes, or without a DoH server in the         *)
(* configuration, fails before any of this.)                               *)
(*                                                                         *)
(* Upstream is the DoH server together with the proxies in between: it may *)
(* answer, fail, or keep silent for ever.                                  *)
(***************************************************************************)
EXTENDS Naturals, Sequences

CONSTANTS
  Callers,    \* the calls of doh_query
  Ids,        \* the ids of queries
  CacheId,    \* 0xabcd
  Questions,
  NoQuestion, \* where there is none
  Kinds,      \* what upstream may answer; "short" is a body below two bytes
  CacheCap,   \* capacity of the TtlCache (65535)
  Ttl,        \* lifetime of its entries (3600 s)
  MaxTime     \* bound: how far the clock runs

ASSUME DohAssumption ==
  /\ NoQuestion \notin Questions
  /\ CacheCap \in Nat \ {0} /\ Ttl \in Nat /\ MaxTime \in Nat

VARIABLES
  cache,  \* ProxyState.dns_cache: entries, the one inserted last at the end
  now,    \* the clock the cache's entries expire by
  query   \* for each caller, where it stands in doh_query

dohVars == <<cache, now, query>>

----------------------------------------------------------------------------
Body == [id : Ids \cup {CacheId}, question : Questions, kind : Kinds, at : 0 .. MaxTime]
Entry == [key : Questions, body : Body, born : 0 .. MaxTime]

NoBody == [id |-> CacheId, question |-> NoQuestion, kind |-> "short", at |-> 0]
NoQuery == [pc |-> "idle", id |-> CacheId, question |-> NoQuestion, since |-> 0, body |-> NoBody]
Phases == {"idle", "lookup", "asking", "answered", "done", "failed", "ended"}

\* The cache is the crate ttl_cache: an entry is there for its lifetime; a new
\* entry takes the place of the old one of its key, at the end; when there are
\* too many, the entry at the front goes.
Live(e) == now <= e.born + Ttl

\* (were the key, or the lifetime, not looked at)
HitsOfAnyKey(question) == {i \in 1 .. Len(cache) : Live(cache[i])}
HitsOfAnyAge(question) == {i \in 1 .. Len(cache) : cache[i].key = question}

Hits(question) == {i \in 1 .. Len(cache) : cache[i].key = question /\ Live(cache[i])}

Without(c, i) == SubSeq(c, 1, i - 1) \o SubSeq(c, i + 1, Len(c))

Inserted(c, e) ==
  LET same == {i \in 1 .. Len(c) : c[i].key = e.key}
      rest == IF same = {} THEN c ELSE Without(c, CHOOSE i \in same : TRUE)
      all == Append(rest, e)
  IN  IF Len(all) > CacheCap THEN Tail(all) ELSE all

DohInit ==
  /\ cache = <<>> /\ now = 0
  /\ query = [t \in Callers |-> NoQuery]

At(t, pc) == query[t].pc = pc

\* (were a cached answer returned as it is)
OutcomeUnpatched(t, body) ==
  IF body.kind = "short" THEN [query[t] EXCEPT !.pc = "failed"]
  ELSE [query[t] EXCEPT !.pc = "done", !.body = body]

\* The end of doh_query with a body: the caller's id is put back.  A body
\* without room for one is an error.
Outcome(t, body) ==
  IF body.kind = "short" THEN [query[t] EXCEPT !.pc = "failed"]
  ELSE [query[t] EXCEPT !.pc = "done", !.body = [body EXCEPT !.id = query[t].id]]

\* doh_query is called: the id is taken out of the query.
Asked(id, question) ==
  [pc |-> "lookup", id |-> id, question |-> question, since |-> now, body |-> NoBody]

Ask(t, id, question) ==
  /\ At(t, "idle")
  /\ query' = [query EXCEPT ![t] = Asked(id, question)]

\* The cache is read.  A hit is answered at once, a miss asks upstream.
Lookup(t) ==
  /\ At(t, "lookup")
  /\ \/ \E i \in Hits(query[t].question) :
          query' = [query EXCEPT ![t] = Outcome(t, cache[i].body)]
     \/ /\ Hits(query[t].question) = {}
        /\ query' = [query EXCEPT ![t].pc = "asking"]
  /\ UNCHANGED <<cache, now>>

\* Upstream answers with success, and its answer has been read to the end.
Answer(t, kind) ==
  /\ At(t, "asking")
  /\ query' = [query EXCEPT ![t].pc = "answered",
                            ![t].body = [id |-> CacheId, question |-> query[t].question,
                                         kind |-> kind, at |-> now]]
  /\ UNCHANGED <<cache, now>>

\* No connection, another status than success, or a body that breaks off.
AnswerFails(t) ==
  /\ At(t, "asking")
  /\ query' = [query EXCEPT ![t].pc = "failed"]
  /\ UNCHANGED <<cache, now>>

\* (were the answer patched before it is cached)
StorePatched(t) ==
  /\ At(t, "answered")
  /\ cache' = Inserted(cache, [key |-> query[t].question, born |-> now,
                               body |-> [query[t].body EXCEPT !.id = query[t].id]])
  /\ query' = [query EXCEPT ![t] = Outcome(t, query[t].body)]
  /\ UNCHANGED now

\* The answer is put into the cache as it came, and returned.
Store(t) ==
  /\ At(t, "answered")
  /\ cache' = Inserted(cache, [key |-> query[t].question, body |-> query[t].body, born |-> now])
  /\ query' = [query EXCEPT ![t] = Outcome(t, query[t].body)]
  /\ UNCHANGED now

\* The caller has taken the outcome, or has dropped the call.
Left(q) == [q EXCEPT !.pc = "ended", !.body = NoBody]
Leave(t) == query' = [query EXCEPT ![t] = Left(@)]

QueryStep(t) ==
  \/ Lookup(t)
  \/ \E kind \in Kinds : Answer(t, kind)
  \/ AnswerFails(t)
  \/ Store(t)

\* A unit of time passes.  Units are of the order of Ttl: none passes between
\* an answer and its way into the cache.
Tick ==
  /\ now < MaxTime
  /\ \A t \in Callers : ~At(t, "answered")
  /\ now' = now + 1
  /\ UNCHANGED <<cache, query>>

----------------------------------------------------------------------------
DohTypeOK ==
  /\ cache \in Seq(Entry)
  /\ now \in 0 .. MaxTime
  /\ query \in [Callers -> [pc : Phases, id : Ids \cup {CacheId},
                            question : Questions \cup {NoQuestion},
                            since : 0 .. MaxTime, body : Body \cup {NoBody}]]

\* What the cache may hold while queries for one question overlap, entries
\* expire and are evicted: answers as upstream gave them, each under the
\* question it answers, at most one for a question, no more than fit.
CacheSound ==
  /\ Len(cache) <= CacheCap
  /\ \A i, j \in 1 .. Len(cache) : cache[i].key = cache[j].key => i = j
  /\ \A i \in 1 .. Len(cache) :
       /\ cache[i].body.question = cache[i].key
       /\ cache[i].body.id = CacheId
=============================================================================
