------------------------------- MODULE Tunnel -------------------------------
(***************************************************************************)
(* A tunnel: copy_bidirectional, as run of inbound/tproxy.rs and           *)
(* inbound/http/connect.rs call it, between a client's connection and a    *)
(* FragmentLayer.  One task copies in both directions; this is the caller  *)
(* that FragmentLayer leaves open.                                         *)
(*                                                                         *)
(* Each direction is a loop that reads into a buffer, writes the buffer    *)
(* out, flushes when there is nothing to read, and shuts its destination   *)
(* down at the end of its source.  A direction may be left at any of its   *)
(* reads and writes (a peer is slow, or the task has used up its budget):  *)
(* the order in which the task polls the two is left open.  When both have *)
(* ended, or one fails, both connections are dropped.                      *)
(*                                                                         *)
(* Bytes of the client are those of FragmentLayer's stream; of the bytes   *)
(* of the server only their number matters.                                *)
(***************************************************************************)
EXTENDS FragmentLayer

CONSTANTS
  Pieces,   \* how many bytes of the client may arrive at once
  MaxDown,  \* bound: how many bytes the server sends
  DownCap   \* size of the buffer towards the client (8 KiB)

ASSUME TunnelAssumption == Pieces \subseteq Nat \ {0} /\ MaxDown \in Nat /\ DownCap \in Nat \ {0}

VARIABLES
  sent,     \* how many bytes of the client have arrived
  ceof,     \* has the client closed its side?
  up,       \* the direction to the server: copying, closing it, or done
  read,     \* how many bytes that direction has read; it has written "taken"
  upEof,    \* its read_done
  dirty,    \* its need_flush
  given,    \* how many bytes the server has sent
  seof,     \* has the server closed its side?
  down,     \* the direction to the client
  fetched,  \* how many bytes that direction has read ...
  passed,   \* ... and written
  downEof,  \* its read_done
  broken    \* has copying failed elsewhere than in the layer?

peers == <<sent, ceof, given, seof>>
upward == <<up, read, upEof, dirty>>
downward == <<down, fetched, passed, downEof>>
tunnelVars == <<vars, peers, upward, downward, broken>>

----------------------------------------------------------------------------
TunnelInit ==
  /\ Init
  /\ sent = 0 /\ ceof = FALSE /\ given = 0 /\ seof = FALSE
  /\ up = "copy" /\ read = 0 /\ upEof = FALSE /\ dirty = FALSE
  /\ down = "copy" /\ fetched = 0 /\ passed = 0 /\ downEof = FALSE
  /\ broken = FALSE

Over == failed \/ broken \/ (up = "done" /\ down = "done")

\* The task is between two calls of the layer.
Turn == Idle /\ ~Over

\* The peers send and close as they like.
ClientSends(n) ==
  /\ ~ceof /\ sent + n <= MaxStream
  /\ sent' = sent + n
  /\ UNCHANGED <<vars, ceof, given, seof, upward, downward, broken>>

ClientCloses ==
  /\ ~ceof
  /\ ceof' = TRUE
  /\ UNCHANGED <<vars, sent, given, seof, upward, downward, broken>>

ServerSends ==
  /\ ~seof /\ given < MaxDown
  /\ given' = given + 1
  /\ UNCHANGED <<vars, sent, ceof, seof, upward, downward, broken>>

ServerCloses ==
  /\ ~seof
  /\ seof' = TRUE
  /\ UNCHANGED <<vars, sent, ceof, given, upward, downward, broken>>

----------------------------------------------------------------------------
\* Towards the server: what has arrived is read ...
UpRead ==
  /\ Turn /\ up = "copy" /\ ~upEof
  /\ read < sent
  /\ read' = sent
  /\ UNCHANGED <<vars, peers, up, upEof, dirty, downward, broken>>

UpEnd ==
  /\ Turn /\ up = "copy" /\ ~upEof
  /\ read = sent /\ ceof
  /\ upEof' = TRUE
  /\ UNCHANGED <<vars, peers, up, read, dirty, downward, broken>>

\* ... what has been read is written ...
UpWrite ==
  /\ Turn /\ up = "copy" /\ read > taken
  /\ CallWrite(read - taken)
  /\ UNCHANGED <<peers, upward, downward, broken>>

\* ... and what has been written is flushed once there is nothing more to
\* read, and in any case at the end.
UpFlush ==
  /\ Turn /\ up = "copy" /\ read = taken
  /\ dirty \/ upEof
  /\ CallFlush
  /\ UNCHANGED <<peers, upward, downward, broken>>

\* (were the end of the client's bytes passed on at once)
CloseUnflushed == Turn /\ (up = "close" \/ (up = "copy" /\ upEof))

ClosesUp == Turn /\ up = "close"

UpClose ==
  /\ ClosesUp
  /\ CallShutdown
  /\ up' = "done"
  /\ UNCHANGED <<peers, read, upEof, dirty, downward, broken>>

----------------------------------------------------------------------------
\* The read of the transport that ends a poll_read: bytes, the end, or nothing
\* yet.
Fetch ==
  \/ UNCHANGED <<fetched, downEof>>
  \/ fetched' \in (fetched + 1) .. given /\ UNCHANGED downEof
  \/ fetched = given /\ seof /\ downEof' = TRUE /\ UNCHANGED fetched

\* (were the layer read only when there is something to read)
ReadsWhenReady == Turn /\ down = "copy" /\ ~downEof /\ (fetched < given \/ seof)

\* Towards the client: the layer is polled whenever the buffer has room.
ReadsDown == Turn /\ down = "copy" /\ ~downEof /\ fetched - passed < DownCap

DownRead ==
  /\ ReadsDown
  /\ CallRead
  /\ IF op' = "none" THEN Fetch ELSE UNCHANGED <<fetched, downEof>>
  /\ UNCHANGED <<peers, upward, down, passed, broken>>

DownWrite ==
  /\ Turn /\ passed < fetched
  /\ passed' = fetched
  /\ UNCHANGED <<vars, peers, upward, down, fetched, downEof, broken>>

DownClose ==
  /\ Turn /\ down = "copy" /\ downEof /\ passed = fetched
  /\ down' = "done"
  /\ UNCHANGED <<vars, peers, upward, fetched, passed, downEof, broken>>

\* A read of either side or a write to the client fails.
Break ==
  /\ Turn
  /\ broken' = TRUE
  /\ UNCHANGED <<vars, peers, upward, downward>>

----------------------------------------------------------------------------
(***************************************************************************)
(* The steps of the layer while the task is inside of it, with what the    *)
(* task makes of the end of a poll.                                        *)
(***************************************************************************)
Alone(A) == A /\ UNCHANGED <<peers, upward, downward, broken>>

InLayer ==
  \/ Alone(NewChunk) \/ Alone(FlushByte) \/ Alone(WriteByte) \/ Alone(EndMessage)
  \/ Alone(EndRaw) \/ Alone(TimerElapse) \/ Alone(TransportError)
  \/ \E k \in 1 .. MaxStream : Alone(RawWrite(k))

\* A write was taken, and calls for a flush.
WriteReturns ==
  /\ Absorb \/ \E k \in 1 .. MaxStream : WriteThrough(k)
  /\ dirty' = TRUE
  /\ UNCHANGED <<peers, up, read, upEof, downward, broken>>

\* A flush has completed: the task's own, after which the end of the bytes is
\* passed on, or the one that poll_write or poll_read begins with.
FlushReturns ==
  /\ LastFlush
  /\ dirty' = (dirty /\ op # "flush")
  /\ up' = IF op = "flush" /\ upEof THEN "close" ELSE up
  /\ IF op = "read" THEN Fetch ELSE UNCHANGED <<fetched, downEof>>
  /\ UNCHANGED <<peers, read, upEof, down, passed, broken>>

\* The transport makes the layer wait.  poll_read does not wait for its flush.
Waits ==
  /\ TransportPending
  /\ IF op = "read" THEN Fetch ELSE UNCHANGED <<fetched, downEof>>
  /\ UNCHANGED <<peers, upward, down, passed, broken>>

TunnelNext ==
  \/ \E n \in Pieces : ClientSends(n)
  \/ ClientCloses \/ ServerSends \/ ServerCloses
  \/ UpRead \/ UpEnd \/ UpWrite \/ UpFlush \/ UpClose
  \/ DownRead \/ DownWrite \/ DownClose \/ Break
  \/ InLayer \/ WriteReturns \/ FlushReturns \/ Waits

TunnelSpec == TunnelInit /\ [][TunnelNext]_tunnelVars

(***************************************************************************)
(* Fairness.  A woken task polls both directions, so that neither is       *)
(* passed over for ever; the transport is not blocked for ever (see        *)
(* FragmentLayer), and one that has been shut down refuses what is written *)
(* to it.  Nothing obliges the peers to send, and the client to read.      *)
(***************************************************************************)
UpStep == UpRead \/ UpEnd \/ UpWrite \/ UpFlush \/ UpClose

TransportWrites == Alone(WriteByte) \/ (\E k \in 1 .. MaxStream : Alone(RawWrite(k))) \/ WriteReturns

TunnelFairness ==
  /\ SF_tunnelVars(UpStep)
  /\ SF_tunnelVars(DownRead \/ DownClose) /\ SF_tunnelVars(DownRead /\ downEof')
  /\ WF_tunnelVars(Alone(NewChunk \/ EndMessage \/ EndRaw)) /\ WF_tunnelVars(Alone(TimerElapse))
  /\ SF_tunnelVars(TransportWrites) /\ SF_tunnelVars(Alone(FlushByte) \/ FlushReturns)
  /\ SF_tunnelVars(shut /\ pc \in {"raw", "byte"} /\ Alone(TransportError))

TunnelFairSpec == TunnelSpec /\ TunnelFairness

----------------------------------------------------------------------------
TunnelTypeOK ==
  /\ TypeOK
  /\ sent \in 0 .. MaxStream /\ read \in 0 .. MaxStream
  /\ given \in 0 .. MaxDown /\ fetched \in 0 .. MaxDown /\ passed \in 0 .. MaxDown
  /\ {up, down} \subseteq {"copy", "close", "done"}
  /\ {ceof, upEof, dirty, seof, downEof, broken} \subseteq BOOLEAN

\* What the client has sent is the beginning of what may be a ClientHello.
Unfinished == rec.handshake /\ (taken < 6 \/ (rec.hello /\ taken < HeaderLen))

\* The server is told the end of the client's bytes only behind the last of
\* them: whatever the directions did before, all of them have left the layer
\* then -- but for a record the client left unfinished, which is lost.
CloseIsLast ==
  [][shut' /\ ~shut =>
       /\ ceof /\ taken = sent
       /\ taken = 0 \/ Unfinished \/ (st = "SendingData" /\ unflushed = 0)]_tunnelVars

\* poll_read lets go of a flush the transport would not complete; the task,
\* whose own flush was answered while the layer waited, knows of none.
FlushForgotten == st = "SendingData" /\ unflushed > 0 /\ ~dirty

\* That is the fate of bytes the timer sent off only: whichever direction's
\* polls sent a ClientHello, its last byte is flushed before the task rests.
HelloFlushed ==
  /\ TunnelTypeOK
  /\ pc = "idle" /\ fragmented => ~FlushForgotten

\* A client's bytes arrive although it sends nothing more and waits: from
\* whatever point, the tunnel comes to have passed on all it was sent.  Needed
\* are a client that reads what it is sent, and a server that has not closed
\* its own side: the timer of the layer is polled by the other direction only.
ClientReads == []<>(passed = fetched)

AllPassedOn ==
  /\ taken = sent
  /\ sent > 0 => st = "SendingData" /\ (unflushed = 0 \/ FlushForgotten)

BytesArrive == ClientReads => []<>(AllPassedOn \/ Over \/ shut \/ (downEof /\ ~dirty))

\* When both peers have closed, the tunnel comes to its end.
EndsWithPeers == ClientReads => (ceof /\ seof ~> Over)
=============================================================================
