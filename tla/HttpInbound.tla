---------------------------- MODULE HttpInbound ----------------------------
(***************************************************************************)
(* One client of the HTTP inbound and the connections to servers that its  *)
(* requests open: handle of inbound/http/mod.rs, connect::run, and         *)
(* http_proxy_ and proxy_upgrade of outbound/mod.rs (HttpProxy::http_proxy *)
(* keeps its connection the same way).                                     *)
(*                                                                         *)
(* The requests of a client are handled one after the other by the task    *)
(* that serves its connection (hyper, external).  When the client leaves,  *)
(* that task drops the call it is in.  A connection to a server belongs to *)
(* the call, then to a task: to one that exchanges messages on it, and     *)
(* ends in its own time when nobody waits for the answer any more, or to   *)
(* one that copies bytes once both sides have left HTTP.                   *)
(***************************************************************************)
EXTENDS Naturals

CONSTANT MaxRequests  \* bound: the requests a client makes

ASSUME MaxRequestsAssumption == MaxRequests \in Nat

Requests == 1 .. MaxRequests

VARIABLES
  client,  \* is the client still there?
  serves,  \* what the task that serves the client does
  turn,    \* number of the current request; 0 before the first
  kind,    \* what each request was
  status,  \* the response being written
  link,    \* the connection to the server, of each request ...
  holder,  \* ... and who keeps it open
  task     \* the task that waits for the end of HTTP and copies

vars == <<client, serves, turn, kind, status, link, holder, task>>

Kinds == {"connect", "plain", "upgrade"}

Init ==
  /\ client = "here" /\ serves = "reading" /\ turn = 0 /\ status = "none"
  /\ kind = [i \in Requests |-> "none"]
  /\ link = [i \in Requests |-> "none"]
  /\ holder = [i \in Requests |-> "none"]
  /\ task = [i \in Requests |-> "none"]

----------------------------------------------------------------------------
Request(k) ==
  /\ client = "here" /\ serves = "reading" /\ turn < MaxRequests
  /\ turn' = turn + 1
  /\ kind' = [kind EXCEPT ![turn'] = k]
  /\ serves' = "connecting"
  /\ UNCHANGED <<client, status, link, holder, task>>

\* The call returns: a response is written.
Respond(s) == status' = s /\ serves' = "writing"

\* handle answers every error with 502 and keeps the connection.
ConnectFails ==
  /\ serves = "connecting"
  /\ Respond("502")
  /\ UNCHANGED <<client, turn, kind, link, holder, task>>

\* (were the server connected to by the task)
GrantedAtOnce ==
  /\ serves = "connecting" /\ kind[turn] = "connect"
  /\ task' = [task EXCEPT ![turn] = "waiting"]
  /\ Respond("200")
  /\ UNCHANGED <<client, turn, kind, link, holder>>

\* connect::run: the task that will copy takes the connection; the client is
\* told.
Granted ==
  /\ serves = "connecting" /\ kind[turn] = "connect"
  /\ link' = [link EXCEPT ![turn] = "open"]
  /\ holder' = [holder EXCEPT ![turn] = "task"]
  /\ task' = [task EXCEPT ![turn] = "waiting"]
  /\ Respond("200")
  /\ UNCHANGED <<client, turn, kind>>

\* http_proxy_: the connection goes to the task that exchanges messages, and
\* the call waits for the head of the answer.
Connected ==
  /\ serves = "connecting" /\ kind[turn] # "connect"
  /\ link' = [link EXCEPT ![turn] = "open"]
  /\ holder' = [holder EXCEPT ![turn] = "exchange"]
  /\ serves' = "exchanging"
  /\ UNCHANGED <<client, turn, kind, status, task>>

Closed(i) == link' = [link EXCEPT ![i] = "closed"] /\ holder' = [holder EXCEPT ![i] = "none"]

\* An error comes back instead of an answer.
ExchangeFails ==
  /\ serves = "exchanging"
  /\ Respond("502")
  /\ UNCHANGED <<client, turn, kind, link, holder, task>>

Answered ==
  /\ serves = "exchanging"
  /\ Respond("ok")
  /\ UNCHANGED <<client, turn, kind, link, holder, task>>

\* The server leaves HTTP; a task of its own waits for both sides to do so.
\* (A server answers 101 to a request for an upgrade only.)
Switched ==
  /\ serves = "exchanging" /\ kind[turn] = "upgrade" /\ link[turn] = "open"
  /\ holder' = [holder EXCEPT ![turn] = "task"]
  /\ task' = [task EXCEPT ![turn] = "waiting"]
  /\ Respond("101")
  /\ UNCHANGED <<client, turn, kind, link>>

----------------------------------------------------------------------------
\* (were the end of HTTP seen in the answer to CONNECT only)
LeavesByConnect(s) == s = "200"

Leaves(s) == s \in {"101", "200"}

\* The response has been written.
Written ==
  /\ client = "here" /\ serves = "writing"
  /\ status' = "none"
  /\ serves' = IF Leaves(status) THEN "upgraded" ELSE "reading"
  /\ UNCHANGED <<client, turn, kind, link, holder, task>>

\* The server breaks off within the body, and with it the client's connection.
BodyBreaks ==
  /\ serves = "writing" /\ status = "ok"
  /\ status' = "none" /\ serves' = "closed"
  /\ UNCHANGED <<client, turn, kind, link, holder, task>>

ClientLeaves ==
  /\ client = "here"
  /\ client' = "gone"
  /\ UNCHANGED <<serves, turn, kind, status, link, holder, task>>

\* The task that serves the client finds it gone, and drops the call or the body.
Dropped ==
  /\ client = "gone" /\ serves \notin {"upgraded", "closed"}
  /\ serves' = "closed" /\ status' = "none"
  /\ UNCHANGED <<client, turn, kind, link, holder, task>>

----------------------------------------------------------------------------
\* The sender is dropped with the call that got an answer, an error or nothing,
\* and the body when it has been written or nobody wants it.
Unused(i) ==
  holder[i] = "exchange" /\ ~(i = turn /\ (serves = "exchanging" \/ status = "ok"))

\* The task that exchanges messages was spawned and ends by itself: because the
\* server closes or breaks the connection, or because it finds itself unused.
ExchangeEnds(i) ==
  /\ holder[i] = "exchange"
  /\ Closed(i)
  /\ UNCHANGED <<client, serves, turn, kind, status, task>>

----------------------------------------------------------------------------
\* (were it to copy from what it has)
CopyAtOnce(i) ==
  /\ task[i] = "waiting"
  /\ task' = [task EXCEPT ![i] = "copying"]
  /\ UNCHANGED <<client, serves, turn, kind, status, link, holder>>

\* hyper::upgrade::on resolves once the response has been written ...
Copy(i) ==
  /\ task[i] = "waiting" /\ serves = "upgraded"
  /\ task' = [task EXCEPT ![i] = "copying"]
  /\ UNCHANGED <<client, serves, turn, kind, status, link, holder>>

\* (were its failure noticed in a tunnel only)
GiveUpTunnel(i) ==
  /\ task[i] = "waiting" /\ serves = "closed" /\ kind[i] = "connect"
  /\ task' = [task EXCEPT ![i] = "ended"]
  /\ Closed(i)
  /\ UNCHANGED <<client, serves, turn, kind, status>>

\* ... and fails when it never will be.
GiveUp(i) ==
  /\ task[i] = "waiting" /\ serves = "closed"
  /\ task' = [task EXCEPT ![i] = "ended"]
  /\ Closed(i)
  /\ UNCHANGED <<client, serves, turn, kind, status>>

\* Either side ends the tunnel (see Tunnel): both connections are dropped.
CopyEnds(i) ==
  /\ task[i] = "copying"
  /\ task' = [task EXCEPT ![i] = "ended"]
  /\ serves' = "closed"
  /\ Closed(i)
  /\ UNCHANGED <<client, turn, kind, status>>

Next ==
  \/ \E k \in Kinds : Request(k)
  \/ ConnectFails \/ Granted \/ Connected \/ ExchangeFails \/ Answered \/ Switched
  \/ Written \/ BodyBreaks \/ ClientLeaves \/ Dropped
  \/ \E i \in Requests : ExchangeEnds(i) \/ Copy(i) \/ GiveUp(i) \/ CopyEnds(i)

Spec == Init /\ [][Next]_vars

(***************************************************************************)
(* Fairness.  Tasks that can run do, that of an exchange which nobody uses *)
(* among them: it closes its connection.  A server told the end of a       *)
(* tunnel ends it too.  Nothing bounds the time a server takes to connect  *)
(* or to answer, and a client need not ask, read or leave.                 *)
(***************************************************************************)
Fairness ==
  /\ WF_vars(Dropped)
  /\ \A i \in Requests :
       /\ WF_vars(Unused(i) /\ ExchangeEnds(i))
       /\ WF_vars(Copy(i)) /\ WF_vars(GiveUp(i))
       /\ WF_vars(client = "gone" /\ CopyEnds(i))

FairSpec == Spec /\ Fairness

----------------------------------------------------------------------------
TypeOK ==
  /\ client \in {"here", "gone"}
  /\ serves \in {"reading", "connecting", "exchanging", "writing", "upgraded", "closed"}
  /\ turn \in 0 .. MaxRequests
  /\ kind \in [Requests -> Kinds \cup {"none"}]
  /\ status \in {"none", "ok", "101", "200", "502"}
  /\ link \in [Requests -> {"none", "open", "closed"}]
  /\ holder \in [Requests -> {"none", "exchange", "task"}]
  /\ task \in [Requests -> {"none", "waiting", "copying", "ended"}]

\* A client is told that it has a tunnel, or that its protocol is switched,
\* only with a connection to the server at hand, kept by a task.
ToldWhenOpen ==
  Leaves(status) => link[turn] = "open" /\ holder[turn] = "task" /\ task[turn] = "waiting"

\* Bytes are copied on behalf of the last request only, and never while HTTP
\* is still spoken on the client's connection: the two would read each other's
\* bytes.
CopiesAfterHttp ==
  \A i \in Requests : task[i] = "copying" => i = turn /\ serves = "upgraded"

\* What earlier requests leave behind is at most the task of an exchange, which
\* ends by itself: a connection that a task of connect::run or proxy_upgrade has
\* is the current request's, however requests that fail, succeed or switch
\* follow each other, and a task that has none has ended.
NoTunnelBehind ==
  /\ TypeOK
  /\ \A i \in Requests :
       /\ link[i] = "open" => holder[i] = "exchange" \/ i = turn
       /\ task[i] \in {"waiting", "copying"} => link[i] = "open" /\ holder[i] = "task"

\* When the client has left, wherever its request stood, or has gone on to its
\* next request, the connection made for this one does not stay.
NoOrphan == \A i \in Requests : (client = "gone" \/ i < turn) ~> link[i] # "open"
=============================================================================
