------------------------------ MODULE DnsRelay ------------------------------
(***************************************************************************)
(* The DNS relay (inbound/dns.rs): one loop per UDP socket that spawns a   *)
(* task for each datagram it receives, and sends the replies the tasks     *)
(* put into a bounded channel.  A task runs doh_query and ends; when the   *)
(* query fails its client gets no reply.  A caller of DohQuery is such a   *)
(* task, one for each datagram.                                            *)
(*                                                                         *)
(* Clients are addresses.  A client may send a query twice, and several    *)
(* clients may use one id.  A reply is a body with its destination; "by"   *)
(* (history) is the task that made it.  The channel is never closed: the   *)
(* loop itself holds a sender.                                             *)
(***************************************************************************)
EXTENDS DohQuery

CONSTANTS
  Clients,
  ChanCap     \* capacity of the mpsc channel (1024)

ASSUME RelayAssumption == ChanCap \in Nat \ {0}

VARIABLES
  from,   \* the client each task works for
  chan,   \* the channel
  out,    \* the reply the loop is sending: a sequence of at most one
  sent    \* history: the replies handed to the socket

relayVars == <<from, chan, out, sent>>
vars == <<dohVars, relayVars>>

NoClient == "nobody"

Init ==
  /\ DohInit
  /\ from = [t \in Callers |-> NoClient]
  /\ chan = <<>> /\ out = <<>> /\ sent = <<>>

\* The loop stands in its select! whenever it is not sending a reply.
Selecting == out = <<>>

\* The loop receives a datagram and spawns a task for it.
Receive(t, c, id, question) ==
  /\ Selecting
  /\ Ask(t, id, question)
  /\ from' = [from EXCEPT ![t] = c]
  /\ UNCHANGED <<cache, now, chan, out, sent>>

\* run: the query is done, and there is room in the channel.
Push(t) ==
  /\ At(t, "done")
  /\ Len(chan) < ChanCap
  /\ chan' = Append(chan, [to |-> from[t], body |-> query[t].body, by |-> t])
  /\ Leave(t)
  /\ UNCHANGED <<cache, now, from, out, sent>>

\* run: the query has failed, and with it the task.
GiveUp(t) ==
  /\ At(t, "failed")
  /\ Leave(t)
  /\ UNCHANGED <<cache, now, relayVars>>

\* (were the reply left in the channel until it is sent)
TakeCopy ==
  /\ Selecting /\ chan # <<>>
  /\ out' = <<Head(chan)>>
  /\ UNCHANGED <<dohVars, from, chan, sent>>

\* (were sending part of the branch, which select! may drop between two awaits)
TakeOrDrop ==
  /\ Selecting /\ chan # <<>>
  /\ out' \in {<<>>, <<Head(chan)>>}
  /\ chan' = Tail(chan)
  /\ UNCHANGED <<dohVars, from, sent>>

\* The loop takes a reply from the channel ...
TakeReply ==
  /\ Selecting /\ chan # <<>>
  /\ out' = <<Head(chan)>>
  /\ chan' = Tail(chan)
  /\ UNCHANGED <<dohVars, from, sent>>

\* ... and send_to completes.  (An error is ignored, as a lost datagram is.)
SendTo ==
  /\ out # <<>>
  /\ sent' = sent \o out
  /\ out' = <<>>
  /\ UNCHANGED <<dohVars, from, chan>>

Step ==
  \/ \E t \in Callers, c \in Clients, id \in Ids, question \in Questions :
       Receive(t, c, id, question)
  \/ \E t \in Callers : QueryStep(t) /\ UNCHANGED relayVars
  \/ \E t \in Callers : Push(t) \/ GiveUp(t)
  \/ TakeReply \/ SendTo

Next == Step \/ (Tick /\ UNCHANGED relayVars)

Spec == Init /\ [][Next]_vars

(***************************************************************************)
(* Fairness.  A runnable task runs.  The channel queues its senders in     *)
(* order, and select! checks its branches in random order, so that neither *)
(* a sender nor the receiving branch is passed over for ever.  Nothing     *)
(* obliges a client to ask or upstream to answer.                          *)
(***************************************************************************)
Fairness ==
  /\ \A t \in Callers :
       /\ WF_vars((Lookup(t) \/ Store(t)) /\ UNCHANGED relayVars)
       /\ SF_vars(Push(t)) /\ WF_vars(GiveUp(t))
  /\ SF_vars(TakeReply) /\ WF_vars(SendTo)

FairSpec == Spec /\ Fairness

----------------------------------------------------------------------------
Reply == [to : Clients, body : Body, by : Callers]

TypeOK ==
  /\ DohTypeOK
  /\ from \in [Callers -> Clients \cup {NoClient}]
  /\ chan \in Seq(Reply) /\ Len(chan) <= ChanCap
  /\ out \in Seq(Reply) /\ Len(out) <= 1
  /\ sent \in Seq(Reply)

Replies == chan \o out \o sent

\* Whatever queries overlap and whoever filled the cache, a reply goes to the
\* client of the datagram it is made for, with that datagram's id and for its
\* question, and is long enough to be a message.
RightReply ==
  \A i \in 1 .. Len(Replies) :
    LET r == Replies[i]
    IN  /\ r.to = from[r.by]
        /\ r.body.id = query[r.by].id
        /\ r.body.question = query[r.by].question
        /\ r.body.kind # "short"

\* A datagram is answered at most once.
OneReply ==
  \A i, j \in 1 .. Len(Replies) : Replies[i].by = Replies[j].by => i = j

\* No client is told what upstream said longer than Ttl before it asked,
\* however late the task looks into the cache and whoever stored the answer.
FreshReply ==
  \A i \in 1 .. Len(Replies) :
    Replies[i].body.at + Ttl >= query[Replies[i].by].since

\* An answer that has arrived reaches the socket, or is too short to be sent:
\* tasks waiting for room in the channel and the loop do not block each other.
AnswersLeave ==
  \A t \in Callers :
    At(t, "answered") /\ query[t].body.kind # "short"
      ~> \E i \in 1 .. Len(sent) : sent[i].by = t
=============================================================================
