---------------------------- MODULE SharedCache ----------------------------
(***************************************************************************)
(* The DNS relay and the races of connections over the one cache of        *)
(* ProxyState.  An answer that either of them caches is served to the      *)
(* other: the relay's clients ask with ids of their own, dns_resolve with  *)
(* 0xabcd, and a client may ask for the very question of a race.           *)
(***************************************************************************)
EXTENDS DnsRelay

CONSTANTS Conns, Names, Literals   \* see HappyEyeballs

VARIABLES raceQuery, call, branch, sock, warned

racesOwn == <<raceQuery, call, branch, sock, warned>>
sharedVars == <<vars, racesOwn>>

Races == INSTANCE HappyEyeballs WITH query <- raceQuery, Doh <- TRUE

\* The races ask questions of the kind the relay's clients ask.  A host is a
\* name or a literal address, never both, and none is the mark of no host.
ASSUME SharedAssumption ==
  /\ Names \X Races!Families \subseteq Questions
  /\ Names \cap Literals = {}
  /\ Races!Nowhere[1] \notin Names

SharedInit == Init /\ Races!Init

\* A step of one leaves the other where it is; the clock is common to both.
RelayStep ==
  /\ UNCHANGED <<now, racesOwn>>
  /\ Step

RacesStep ==
  /\ UNCHANGED <<now, query, relayVars>>
  /\ Races!Next

TimePasses ==
  /\ Tick /\ Races!Tick
  /\ UNCHANGED <<relayVars, call, branch, sock, warned>>

SharedNext == RelayStep \/ RacesStep \/ TimePasses

SharedSpec == SharedInit /\ [][SharedNext]_sharedVars

(***************************************************************************)
(* Fairness.  A runnable branch of a race is polled.  Nothing is needed of *)
(* the relay, of upstream or of the servers connected to.                  *)
(***************************************************************************)
BranchRuns(c, f) == Races!Polled(c, f) /\ UNCHANGED <<now, query, relayVars>>

SharedFairSpec ==
  SharedSpec /\ \A c \in Conns, f \in Races!Families : WF_sharedVars(BranchRuns(c, f))

----------------------------------------------------------------------------
\* A client of the relay gets the answer to its question with its own id, and
\* none older than the lifetime of an entry, although races fill the cache.
RelayUnmixed == TypeOK /\ RightReply /\ FreshReply

\* However the branches, the drop of the loser and the client's leaving
\* interleave, a call that returns a connection holds exactly that one, and a
\* call that ends otherwise holds none.
OneConnection == Races!TypeOK /\ Races!OneConnection

\* With DoH, a name leaves the program in the clear only after both families
\* have failed, although the relay's clients fill the cache.
NameKeptInside == Races!NameKeptInside

\* An address is connected to only for the name and the family it was resolved
\* for, whichever client of the relay filled the cache.
RightAddress == Races!RightAddress

\* The warning tells the truth: a call that fell back warns exactly when one of
\* its two queries brought no DNS message.
WarnedWhenDohFailed == Races!WarnedWhenDohFailed

\* A call comes to an end if nothing outside keeps it waiting, whatever the
\* relay does to the cache meanwhile.
CallsEnd == Races!CallsEnd
=============================================================================
