--------------------------- MODULE HappyEyeballs ---------------------------
(***************************************************************************)
(* happy_eyeballs (outbound/mod.rs) and dns_resolve (utils/addr.rs): a     *)
(* connection to a name races two branches, one for each address family.   *)
(* A branch resolves the name over DoH and connects to the address it got. *)
(* select! takes the first branch that succeeds and drops the other one;   *)
(* when both have failed the name itself is handed to the outbound, which  *)
(* resolves it without DoH.                                                *)
(*                                                                         *)
(* Several calls run at once over one answer cache.  A socket stands for   *)
(* a connection attempt through the whole chain of proxies: what happens   *)
(* to it when its future is dropped is that it is closed.                  *)
(***************************************************************************)
EXTENDS Naturals, Sequences, FiniteSets

CONSTANTS
  Conns,      \* the calls of happy_eyeballs
  Names,      \* host names that are no addresses
  Literals,   \* host names that are
  Doh,        \* is a DoH server configured?
  Ids, CacheId, Questions, NoQuestion, Kinds, CacheCap, Ttl, MaxTime  \* see DohQuery

VARIABLES
  cache, now, query,  \* see DohQuery
  call,      \* each call: [pc, host]
  branch,    \* each branch: [pc, failed, why], failed being doh_failed_v6 or _v4
  sock,      \* each branch's socket, and the one of the connection without DoH
  warned     \* has the warning been printed?

Families == {"AAAA", "A"}
Attempts == Conns \X Families
Slots == Families \cup {"plain"}

\* A question is the name with the type of the records asked for.
INSTANCE DohQuery WITH Callers <- Attempts

eyeVars == <<call, branch, sock, warned>>

----------------------------------------------------------------------------
Nowhere == <<"nowhere", "none">>
NoSocket == [state |-> "none", to |-> Nowhere]
Idle == [pc |-> "idle", failed |-> TRUE, why |-> "nothing"]

\* The address upstream gave in a body, as the question it answers.
Address(body) == body.question

Other(f) == CHOOSE g \in Families : g # f

Init ==
  /\ DohInit
  /\ call = [c \in Conns |-> [pc |-> "idle", host |-> "none"]]
  /\ branch = [t \in Attempts |-> Idle]
  /\ sock = [s \in Conns \X Slots |-> NoSocket]
  /\ warned = [c \in Conns |-> FALSE]

Opening(to) == [state |-> "opening", to |-> to]
Dropped(s) == IF s.state \in {"opening", "open"} THEN [s EXCEPT !.state = "closed"] ELSE s

\* A literal address, or any host without DoH, is connected to as it is.
ConnectDirectly(c, host) ==
  /\ call[c].pc = "idle"
  /\ ~Doh \/ host \in Literals
  /\ call' = [call EXCEPT ![c] = [pc |-> "plain", host |-> host]]
  /\ sock' = [sock EXCEPT ![<<c, "plain">>] = Opening(<<host, "plain">>)]
  /\ UNCHANGED <<cache, now, query, branch, warned>>

\* Both branches start by asking for their own record type.
Race(c, host) ==
  /\ call[c].pc = "idle"
  /\ Doh /\ host \in Names
  /\ call' = [call EXCEPT ![c] = [pc |-> "racing", host |-> host]]
  /\ branch' = [t \in Attempts |-> IF t[1] = c THEN [Idle EXCEPT !.pc = "resolving"] ELSE branch[t]]
  /\ query' = [t \in Attempts |-> IF t[1] = c THEN Asked(CacheId, <<host, t[2]>>) ELSE query[t]]
  /\ UNCHANGED <<cache, now, sock, warned>>

\* (were the first failure enough, or no number of them)
FallsBackAtOnce(c, f) == TRUE
NeverFallsBack(c, f) == FALSE

\* With its failure, does a branch leave select! without another?
FallsBack(c, f) == branch[<<c, Other(f)>>].pc = "failed"

\* (were it due only if both queries failed)
WarnsOfBoth(b, other) == b.failed /\ other.failed

\* Is the warning due?
Warns(b, other) == b.failed \/ other.failed

\* What is connected to instead.
Fallback(c, f) == <<call[c].host, "plain">>

\* A branch ends with an error.  If it is the last one, select! has only its
\* else branch left: the warning if a query failed, and the plain connection.
BranchFails(c, f, after, why) ==
  /\ branch' = [branch EXCEPT ![<<c, f>>] = [after EXCEPT !.pc = "failed", !.why = why]]
  /\ IF FallsBack(c, f)
     THEN /\ call' = [call EXCEPT ![c].pc = "plain"]
          /\ warned' = [warned EXCEPT ![c] = Warns(after, branch[<<c, Other(f)>>])]
          /\ sock' = [sock EXCEPT ![<<c, f>>] = Dropped(@), ![<<c, "plain">>] = Opening(Fallback(c, f))]
     ELSE /\ sock' = [sock EXCEPT ![<<c, f>>] = Dropped(@)]
          /\ UNCHANGED <<call, warned>>

\* dns_resolve returns, or its error ends the branch.  An answer that is no
\* DNS message is an error of dns_resolve, an answer without address is not.
Resolve(c, f) ==
  /\ call[c].pc = "racing" /\ branch[<<c, f>>].pc = "resolving"
  /\ LET told == query[<<c, f>>]
         b == branch[<<c, f>>]
     IN  \/ told.pc = "failed" /\ BranchFails(c, f, b, "query")
         \/ /\ told.pc = "done" /\ told.body.kind = "garbled"
            /\ BranchFails(c, f, b, "parse")
         \/ /\ told.pc = "done" /\ told.body.kind = "empty"
            /\ BranchFails(c, f, [b EXCEPT !.failed = FALSE], "no address")
         \/ /\ told.pc = "done" /\ told.body.kind = "addr"
            /\ branch' = [branch EXCEPT ![<<c, f>>].pc = "connecting", ![<<c, f>>].failed = FALSE]
            /\ sock' = [sock EXCEPT ![<<c, f>>] = Opening(Address(told.body))]
            /\ UNCHANGED <<call, warned>>
  /\ Leave(<<c, f>>)
  /\ UNCHANGED <<cache, now>>

ConnectFails(c, f) ==
  /\ call[c].pc = "racing" /\ branch[<<c, f>>].pc = "connecting"
  /\ BranchFails(c, f, branch[<<c, f>>], "connect")
  /\ UNCHANGED <<cache, now, query>>

\* (were the branches tasks of their own, which outlive select!)
WinLeavesLoser(c, f) ==
  /\ call[c].pc = "racing" /\ branch[<<c, f>>].pc = "connecting"
  /\ call' = [call EXCEPT ![c].pc = "done"]
  /\ branch' = [branch EXCEPT ![<<c, f>>].pc = "won"]
  /\ sock' = [sock EXCEPT ![<<c, f>>].state = "open"]
  /\ UNCHANGED <<cache, now, query, warned>>

\* The first branch to connect wins: the other is dropped where it stands,
\* with its query or its socket.
Win(c, f) ==
  /\ call[c].pc = "racing" /\ branch[<<c, f>>].pc = "connecting"
  /\ call' = [call EXCEPT ![c].pc = "done"]
  /\ branch' = [branch EXCEPT ![<<c, f>>].pc = "won",
                              ![<<c, Other(f)>>].pc = IF @ = "failed" THEN @ ELSE "dropped"]
  /\ sock' = [sock EXCEPT ![<<c, f>>].state = "open", ![<<c, Other(f)>>] = Dropped(@)]
  /\ query' = [query EXCEPT ![<<c, Other(f)>>] = Left(@)]
  /\ UNCHANGED <<cache, now, warned>>

\* The connection by name, or to a literal address.
PlainEnds(c, ok) ==
  /\ call[c].pc = "plain"
  /\ call' = [call EXCEPT ![c].pc = IF ok THEN "done" ELSE "error"]
  /\ sock' = [sock EXCEPT ![<<c, "plain">>].state = IF ok THEN "open" ELSE "closed"]
  /\ UNCHANGED <<cache, now, query, branch, warned>>

\* The client goes away, and the server drops the call it was waiting for.
Abandon(c) ==
  /\ call[c].pc \in {"racing", "plain"}
  /\ call' = [call EXCEPT ![c].pc = "dropped"]
  /\ branch' = [t \in Attempts |->
                  IF t[1] = c /\ branch[t].pc \in {"resolving", "connecting"}
                  THEN [branch[t] EXCEPT !.pc = "dropped"] ELSE branch[t]]
  /\ sock' = [s \in Conns \X Slots |-> IF s[1] = c THEN Dropped(sock[s]) ELSE sock[s]]
  /\ query' = [t \in Attempts |-> IF t[1] = c THEN Left(query[t]) ELSE query[t]]
  /\ UNCHANGED <<cache, now, warned>>

\* A branch runs its query until it is dropped.
Querying(t) ==
  /\ branch[t].pc = "resolving"
  /\ QueryStep(t)
  /\ UNCHANGED eyeVars

\* What the program does by itself in a race: that upstream answers a query, or
\* that an attempt to connect ends, is nothing it sees to (it sets no timeout).
Polled(c, f) ==
  \/ branch[<<c, f>>].pc = "resolving" /\ (Lookup(<<c, f>>) \/ Store(<<c, f>>)) /\ UNCHANGED eyeVars
  \/ Resolve(c, f)

\* (The clock, and the specification, are in SharedCache.)
Next ==
  \/ \E c \in Conns, host \in Names \cup Literals : ConnectDirectly(c, host) \/ Race(c, host)
  \/ \E t \in Attempts : Querying(t)
  \/ \E c \in Conns, f \in Families : Resolve(c, f) \/ ConnectFails(c, f) \/ Win(c, f)
  \/ \E c \in Conns, ok \in BOOLEAN : PlainEnds(c, ok)
  \/ \E c \in Conns : Abandon(c)

----------------------------------------------------------------------------
TypeOK ==
  /\ DohTypeOK
  /\ call \in [Conns -> [pc : {"idle", "racing", "plain", "done", "error", "dropped"},
                         host : Names \cup Literals \cup {"none"}]]
  /\ branch \in [Attempts -> [pc : {"idle", "resolving", "connecting", "won", "failed", "dropped"},
                              failed : BOOLEAN,
                              why : {"nothing", "query", "parse", "no address", "connect"}]]
  /\ sock \in [Conns \X Slots ->
                 [state : {"none", "opening", "open", "closed"},
                  to : ((Names \cup Literals) \X Slots) \cup {Nowhere}]]
  /\ warned \in [Conns -> BOOLEAN]

LiveSockets(c) == {s \in Slots : sock[<<c, s>>].state \in {"opening", "open"}}

\* However the branches, the drop of the loser and the client's leaving
\* interleave, a call that returns a connection holds exactly that one, and a
\* call that ends otherwise holds none: no attempt is left open behind it.
OneConnection ==
  \A c \in Conns :
    /\ call[c].pc = "done" =>
         /\ Cardinality(LiveSockets(c)) = 1
         /\ \A s \in LiveSockets(c) : sock[<<c, s>>].state = "open"
    /\ call[c].pc \in {"idle", "error", "dropped"} => LiveSockets(c) = {}

\* With DoH, a name leaves the program in the clear only after both families
\* have failed, and never while a branch still has a query or a socket.
NameKeptInside ==
  \A c \in Conns :
    Doh /\ sock[<<c, "plain">>].to[1] \in Names =>
      \A f \in Families :
        /\ branch[<<c, f>>].pc = "failed"
        /\ query[<<c, f>>].pc = "ended"
        /\ sock[<<c, f>>].state \in {"none", "closed"}

\* An address is connected to only for the name and the family it was
\* resolved for, whichever call filled the cache.
RightAddress ==
  \A c \in Conns, f \in Families :
    sock[<<c, f>>].state # "none" => sock[<<c, f>>].to = <<call[c].host, f>>

\* The warning tells the truth: a call that fell back warns exactly when one of
\* its two queries brought no DNS message.
WarnedWhenDohFailed ==
  \A c \in Conns :
    warned[c] <=> /\ sock[<<c, "plain">>].to[1] \in Names /\ Doh
                  /\ \E f \in Families : branch[<<c, f>>].why \in {"query", "parse"}

\* A call comes to an end if nothing outside keeps it waiting: no query that
\* is never answered, no connection that is neither made nor refused.  A single
\* hanging branch is enough to keep a call whose other branch has failed.
WorldEnds(c) ==
  /\ \A f \in Families : []<>(~At(<<c, f>>, "asking")) /\ []<>(branch[<<c, f>>].pc # "connecting")
  /\ []<>(call[c].pc # "plain")

CallsEnd ==
  \A c \in Conns :
    WorldEnds(c) => (call[c].pc = "racing" ~> call[c].pc \in {"done", "error", "dropped"})
=============================================================================
