------------------------- MODULE HttpInboundProofs -------------------------
(***************************************************************************)
(* Proofs that, however many requests a client makes, it is told of a      *)
(* tunnel only when there is one, bytes are copied only when HTTP is over  *)
(* on the client's connection, and no earlier request has a tunnel.        *)
(*                                                                         *)
(* The last two speak of requests long past.  What such a request may      *)
(* leave is the task of its exchange, at any point of its end (Linked,     *)
(* Alone) -- which depends on what the current one holds at each place of  *)
(* the task that serves it (Holds).                                        *)
(***************************************************************************)
EXTENDS HttpInbound, TLAPS

\* A connection is open as long as somebody holds it, and a task that has not
\* ended holds the one it is for.
Linked ==
  \A i \in Requests :
    /\ link[i] = "open" <=> holder[i] # "none"
    /\ holder[i] = "task" <=> task[i] \in {"waiting", "copying"}

\* Only the current request has such a task.
Alone == \A i \in Requests : holder[i] = "task" => i = turn

\* The requests to come have left no trace.
Untouched ==
  \A i \in Requests : turn < i => link[i] = "none" /\ holder[i] = "none" /\ task[i] = "none"

Busy == serves \in {"connecting", "exchanging", "writing", "upgraded"}

Kept(l, h, t) == link[turn] = l /\ holder[turn] = h /\ task[turn] = t

\* What the current request has, by where it stands.
Holds ==
  /\ Busy => turn \in Requests
  /\ status = "none" <=> serves # "writing"
  /\ serves \in {"reading", "connecting", "exchanging"} /\ turn \in Requests => task[turn] = "none"
  /\ serves = "connecting" => Kept("none", "none", "none")
  /\ status \in {"ok", "502"} => task[turn] = "none"
  /\ Leaves(status) => Kept("open", "task", "waiting")
  /\ serves # "upgraded" /\ turn \in Requests => task[turn] # "copying"

IInv == TypeOK /\ Linked /\ Alone /\ Untouched /\ Holds

----------------------------------------------------------------------------
LEMMA TurnFacts ==
  ASSUME IInv
  PROVE  /\ MaxRequests \in Nat /\ turn \in Nat /\ Requests = 1 .. MaxRequests
         /\ turn # 0 => turn \in Requests
         /\ Busy => turn \in Requests
BY MaxRequestsAssumption DEF IInv, TypeOK, Requests, Holds

LEMMA InitInv == Init => IInv
BY MaxRequestsAssumption DEF Init, IInv, TypeOK, Linked, Alone, Untouched, Holds, Busy, Kept, Leaves, Requests, Kinds

\* The next request finds no task of the last one.
LEMMA RequestStep ==
  ASSUME IInv, NEW k \in Kinds, Request(k)
  PROVE  IInv'
<1>1. turn' = turn + 1 /\ turn' \in Requests /\ turn < turn'
  BY TurnFacts DEF Request
<1>2. Kept("none", "none", "none")'
  BY <1>1 DEF Request, Kept, IInv, Untouched
<1>3. TypeOK'
  BY <1>1, TurnFacts DEF Request, IInv, TypeOK
<1>4. Linked'
  BY DEF Request, IInv, Linked
<1>5. Alone'
  <2>1. \A i \in Requests : holder[i] # "task"
    BY DEF Request, IInv, Linked, Alone, Holds
  <2> QED
    BY <2>1 DEF Request, Alone
<1>6. Untouched'
  BY <1>1, TurnFacts DEF Request, IInv, Untouched, Requests
<1>7. Holds'
  BY <1>1, <1>2 DEF Request, IInv, Holds, Busy, Kept, Leaves
<1> QED
  BY <1>3, <1>4, <1>5, <1>6, <1>7 DEF IInv

\* Every other step concerns one request, which has begun, alone.
OneOnly(r) ==
  /\ turn' = turn /\ kind' = kind
  /\ \A i \in Requests : i # r => link'[i] = link[i] /\ holder'[i] = holder[i] /\ task'[i] = task[i]

LEMMA OneStep ==
  ASSUME IInv, NEW r \in Requests, r <= turn, OneOnly(r), TypeOK',
         link'[r] = "open" <=> holder'[r] # "none",
         holder'[r] = "task" <=> task'[r] \in {"waiting", "copying"},
         holder'[r] = "task" => r = turn
  PROVE  Linked' /\ Alone' /\ Untouched'
<1>1. Linked' /\ Alone'
  BY DEF IInv, OneOnly, Linked, Alone
<1>2. Untouched'
  BY TurnFacts DEF IInv, OneOnly, Untouched, Requests
<1> QED
  BY <1>1, <1>2

\* The call makes its connection, or hears of an error, an answer, a switch.
LEMMA CallStep ==
  ASSUME IInv, ConnectFails \/ Granted \/ Connected \/ ExchangeFails \/ Answered \/ Switched
  PROVE  IInv'
<1> USE DEF ConnectFails, Granted, Connected, ExchangeFails, Answered, Switched, Respond
<1>1. turn \in Requests /\ turn <= turn /\ OneOnly(turn)
  BY TurnFacts DEF IInv, TypeOK, Holds, Busy, OneOnly
<1>2. TypeOK'
  BY <1>1 DEF IInv, TypeOK
<1>3. Holds'
  BY <1>1, <1>2 DEF IInv, TypeOK, Linked, Holds, Busy, Kept, Leaves
<1>4. /\ link'[turn] = "open" <=> holder'[turn] # "none"
      /\ holder'[turn] = "task" <=> task'[turn] \in {"waiting", "copying"}
  BY <1>1 DEF IInv, TypeOK, Linked, Holds, Kept
<1> QED
  BY <1>1, <1>2, <1>3, <1>4, OneStep DEF IInv

\* The response is written, or it and the connection break off.
LEMMA ResponseStep ==
  ASSUME IInv, Written \/ BodyBreaks \/ ClientLeaves \/ Dropped
  PROVE  IInv'
<1> USE DEF Written, BodyBreaks, ClientLeaves, Dropped
<1>1. UNCHANGED <<turn, kind, link, holder, task>>
  OBVIOUS
<1>2. TypeOK'
  BY DEF IInv, TypeOK
<1>3. Linked' /\ Alone' /\ Untouched'
  BY <1>1 DEF IInv, Linked, Alone, Untouched
<1>4. Holds'
  BY <1>1, <1>2, TurnFacts DEF IInv, TypeOK, Holds, Busy, Kept, Leaves
<1> QED
  BY <1>2, <1>3, <1>4 DEF IInv

\* The task that exchanges messages ends, of whatever request.
LEMMA ExchangeStep ==
  ASSUME IInv, NEW i \in Requests, ExchangeEnds(i)
  PROVE  IInv'
<1> USE DEF ExchangeEnds, Closed
<1>1. i <= turn
  BY TurnFacts DEF IInv, Untouched, Requests
<1>2. OneOnly(i) /\ task' = task /\ task[i] \notin {"waiting", "copying"}
  BY DEF IInv, TypeOK, Linked, OneOnly
<1>3. TypeOK'
  BY DEF IInv, TypeOK
<1>4. Holds'
  BY <1>2, TurnFacts DEF IInv, TypeOK, Holds, Busy, Kept, Leaves
<1>5. link'[i] = "closed" /\ holder'[i] = "none"
  BY DEF IInv, TypeOK
<1> QED
  BY <1>1, <1>2, <1>3, <1>4, <1>5, OneStep DEF IInv

\* The task that waits for the end of HTTP, and copies.
LEMMA TaskStep ==
  ASSUME IInv, NEW i \in Requests, Copy(i) \/ GiveUp(i) \/ CopyEnds(i)
  PROVE  IInv'
<1> USE DEF Copy, GiveUp, CopyEnds, Closed
<1>1. i = turn /\ i <= turn
  BY TurnFacts DEF IInv, Linked, Alone
<1>2. OneOnly(i)
  BY <1>1 DEF IInv, TypeOK, OneOnly
<1>3. TypeOK'
  BY <1>1 DEF IInv, TypeOK
<1>4. Holds'
  BY <1>1, <1>3 DEF IInv, TypeOK, Holds, Busy, Kept, Leaves
<1>5. /\ link'[i] = "open" <=> holder'[i] # "none"
      /\ holder'[i] = "task" <=> task'[i] \in {"waiting", "copying"}
  BY DEF IInv, TypeOK, Linked
<1> QED
  BY <1>1, <1>2, <1>3, <1>4, <1>5, OneStep DEF IInv

LEMMA StepInv == IInv /\ [Next]_vars => IInv'
<1> SUFFICES ASSUME IInv, [Next]_vars PROVE IInv'
  OBVIOUS
<1>1. CASE \E k \in Kinds : Request(k)
  BY <1>1, RequestStep
<1>2. CASE ConnectFails \/ Granted \/ Connected \/ ExchangeFails \/ Answered \/ Switched
  BY <1>2, CallStep
<1>3. CASE Written \/ BodyBreaks \/ ClientLeaves \/ Dropped
  BY <1>3, ResponseStep
<1>4. CASE \E i \in Requests : ExchangeEnds(i) \/ Copy(i) \/ GiveUp(i) \/ CopyEnds(i)
  BY <1>4, ExchangeStep, TaskStep
<1>5. CASE UNCHANGED vars
  BY <1>5 DEF vars, IInv, TypeOK, Linked, Alone, Untouched, Holds, Busy, Kept, Leaves
<1> QED
  BY <1>1, <1>2, <1>3, <1>4, <1>5 DEF Next

\* What the requests of a client may leave behind while the task of an exchange
\* ends by itself (http_proxy_), and what the current one has.
THEOREM Lifetimes == Spec => []IInv
BY InitInv, StepInv, PTL DEF Spec

----------------------------------------------------------------------------
\* A client reads of a tunnel, or of another protocol, only when a task keeps
\* the connection it is to be tunnelled through.
THEOREM ToldTruly == Spec => []ToldWhenOpen
<1>1. IInv => ToldWhenOpen
  BY DEF IInv, Holds, Kept, ToldWhenOpen
<1> QED
  BY <1>1, Lifetimes, PTL

\* No task copies bytes of a connection that HTTP is still spoken on.
THEOREM CopyingApart == Spec => []CopiesAfterHttp
<1>1. IInv => CopiesAfterHttp
  BY DEF IInv, Linked, Alone, Holds, CopiesAfterHttp
<1> QED
  BY <1>1, Lifetimes, PTL

\* Of an earlier request there is at most the task of an exchange: whatever
\* connect::run or proxy_upgrade spawned for it has ended.
THEOREM TunnelsEndFirst == Spec => []NoTunnelBehind
<1>1. IInv => NoTunnelBehind
  BY DEF IInv, TypeOK, Linked, Alone, NoTunnelBehind
<1> QED
  BY <1>1, Lifetimes, PTL
=============================================================================
