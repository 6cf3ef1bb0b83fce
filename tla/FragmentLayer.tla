--------------------------- MODULE FragmentLayer ---------------------------
(***************************************************************************)
(* The write side of FragmentLayer<RW> (outbound/layer/fragment.rs): a     *)
(* stream wrapper that holds back the first TLS record its caller writes,  *)
(* and, when that record is a ClientHello, sends every byte of it as a TLS *)
(* record of its own, each byte flushed before the next one is written.    *)
(*                                                                         *)
(* A poll of the layer is synchronous, but it calls the wrapped transport  *)
(* any number of times and each of these calls may succeed, return Pending *)
(* or fail.  One action is one call of the transport, or the code between  *)
(* two of them; "pc" says where the poll in progress stands and "op" which *)
(* of poll_write, poll_flush and poll_read the caller is inside of.        *)
(*                                                                         *)
(* The i-th byte the caller writes is Src(i): the properties tell bytes    *)
(* apart by their place in the caller's stream.  Of their values only      *)
(* three matter to the code, and "rec" holds these: whether byte 1 is 0x16 *)
(* (a handshake record), whether byte 6 is 0x01 (a ClientHello), and the   *)
(* length in bytes 4 and 5.  The layer only ever buffers a prefix of the   *)
(* stream, so Buffer.inner is represented by its length, blen.             *)
(***************************************************************************)
EXTENDS Naturals, Sequences

CONSTANTS
  MaxRecord,    \* bound: the largest length the first record's header announces
  MaxStream,    \* bound: how many bytes the caller writes
  ShortWrites,  \* may the transport take fewer bytes than it is offered?
  Trailing      \* may bytes of a later record be written with the first one?

ASSUME FragmentAssumption ==
  /\ MaxRecord \in Nat
  /\ MaxStream \in Nat
  /\ ShortWrites \in BOOLEAN
  /\ Trailing \in BOOLEAN

VARIABLES
  rec,         \* what the caller's first record looks like
  st,          \* State: the variant of the enum
  blen,        \* length of Buffer.inner of the state
  bptr,        \* Buffer.ptr of the state
  chunk,       \* the chunk of SendingMessage
  timer,       \* Option<Sleep>: none, armed, or armed and elapsed
  op,          \* the poll function in progress
  want,        \* number of bytes offered to the poll_write in progress
  pc,          \* where the poll in progress stands
  taken,       \* bytes poll_write has answered for: its caller will not resend them
  wire,        \* bytes the transport has taken, in order
  shut,        \* has the transport's write side been shut down?
  failed,      \* has a poll returned an error (and the caller dropped the stream)?
  fragmented,  \* history: the layer entered SendingMessage
  extra,       \* history: ... holding bytes behind the record
  short,       \* history: a write of the raw buffer was taken in part
  unflushed    \* history: bytes the transport took since its last complete flush

layer == <<st, blen, bptr, chunk>>
call == <<op, want, pc>>
history == <<fragmented, extra, short>>
vars == <<rec, layer, timer, call, taken, wire, shut, failed, history, unflushed>>

----------------------------------------------------------------------------
Waiting == {"WaitingHeader", "WaitingMessage"}
SendingBuffer == {"SendingMessage", "SendingRawBuffer"}

Src(i) == <<"src", i>>      \* the i-th byte of the caller's stream
LenByte(v) == <<"len", v>>  \* a length byte the layer wrote, of value v

\* Header.len: the record's five header bytes are counted in.
HeaderLen == rec.len + 5

\* The bytes first .. last of the caller's stream.
Stream(first, last) == [i \in 1 .. (last + 1 - first) |-> Src(first + i - 1)]

MsgMaxSize == 1
ChunkHeaderLen == 5

\* (were the original length bytes copied along)
RecordHeaderWhole(size) == Stream(1, 5)

\* A record header with the type and version of the original one.
RecordHeader(size) ==
  <<Src(1), Src(2), Src(3), LenByte(size \div 256), LenByte(size % 256)>>

\* The TLS record made for the bytes behind offset p of the buffer: at most
\* MsgMaxSize of them.
ChunkAt(p) ==
  LET size == IF p + MsgMaxSize > HeaderLen THEN HeaderLen - p ELSE MsgMaxSize
  IN  RecordHeader(size) \o Stream(p + 1, p + size)

NoChunk == [inner |-> <<>>, ptr |-> 0]
ChunkSent == chunk.ptr >= Len(chunk.inner)

\* How many of n offered bytes the transport may take.
Accepts(n) == IF ShortWrites THEN 1 .. n ELSE {n}

\* The poll in progress returns.
Return == op' = "none" /\ want' = 0 /\ pc' = "idle"

\* Where poll_flush starts in state s.
FlushEntry(s) ==
  CASE s = "SendingMessage" -> "msg"
    [] s = "SendingRawBuffer" -> "raw"
    [] OTHER -> "last"

----------------------------------------------------------------------------
Init ==
  /\ rec \in [handshake : BOOLEAN, hello : BOOLEAN, len : 0 .. MaxRecord]
  /\ st = "WaitingHeader" /\ blen = 0 /\ bptr = 0 /\ chunk = NoChunk
  /\ timer = "none"
  /\ op = "none" /\ want = 0 /\ pc = "idle"
  /\ taken = 0 /\ wire = <<>>
  /\ shut = FALSE /\ failed = FALSE
  /\ fragmented = FALSE /\ extra = FALSE /\ short = FALSE
  /\ unflushed = 0

(***************************************************************************)
(* The caller.  copy_bidirectional and hyper's connection task own the     *)
(* stream, so polls never overlap; the write, flush and read side may be   *)
(* polled in any order, and a write that returned Pending may be followed  *)
(* by polls of the others.  A stream on which a poll failed is dropped.    *)
(***************************************************************************)
Idle == pc = "idle" /\ ~failed

\* A caller that does not pipeline sends nothing behind its ClientHello
\* until it has read an answer, so not before the layer has sent it.
MayWrite(n) ==
  Trailing \/ st \notin Waiting \/ taken + n <= HeaderLen

\* (were a pending buffer left to poll_flush)
CallWriteUnflushed(n) ==
  /\ Idle /\ ~shut
  /\ taken + n <= MaxStream
  /\ MayWrite(n)
  /\ op' = "write" /\ want' = n /\ pc' = "body"
  /\ UNCHANGED <<rec, layer, timer, taken, wire, shut, failed, history, unflushed>>

\* poll_write: a pending buffer is flushed first.
CallWrite(n) ==
  /\ Idle /\ ~shut
  /\ taken + n <= MaxStream
  /\ MayWrite(n)
  /\ op' = "write" /\ want' = n
  /\ pc' = IF st \in SendingBuffer THEN FlushEntry(st) ELSE "body"
  /\ UNCHANGED <<rec, layer, timer, taken, wire, shut, failed, history, unflushed>>

\* poll_flush.
CallFlush ==
  /\ Idle
  /\ op' = "flush" /\ want' = 0
  /\ pc' = FlushEntry(st)
  /\ UNCHANGED <<rec, layer, timer, taken, wire, shut, failed, history, unflushed>>

\* try_into_raw_send: the record is given up on; the buffer is sent as it is.
IntoRawSend ==
  /\ st' = "SendingRawBuffer" /\ bptr' = 0
  /\ UNCHANGED <<blen, chunk>>

\* poll_read: while the layer waits for the rest of a record, reading arms the
\* timer, or finds it elapsed.  A buffer that is ready to go is flushed before
\* the transport is read, whether or not the flush completes.
CallRead ==
  /\ Idle
  /\ \/ /\ st \in Waiting /\ timer # "elapsed"
        /\ timer' = "armed"
        /\ UNCHANGED layer
     \/ /\ st \in Waiting /\ timer = "elapsed"
        /\ timer' = "none"
        /\ IntoRawSend
     \/ /\ st \notin Waiting
        /\ timer' = "none"
        /\ UNCHANGED layer
  /\ IF st' \in SendingBuffer
     THEN op' = "read" /\ want' = 0 /\ pc' = FlushEntry(st')
     ELSE UNCHANGED call
  /\ UNCHANGED <<rec, taken, wire, shut, failed, history, unflushed>>

\* (were it to wait until the layer is empty)
CallShutdownWhenEmpty ==
  /\ Idle /\ ~shut /\ blen = 0
  /\ shut' = TRUE
  /\ UNCHANGED <<rec, layer, timer, call, taken, wire, failed, history, unflushed>>

\* poll_shutdown: passed on to the transport, whatever the layer still holds.
CallShutdown ==
  /\ Idle /\ ~shut
  /\ shut' = TRUE
  /\ UNCHANGED <<rec, layer, timer, call, taken, wire, failed, history, unflushed>>

\* One second passes since the timer was armed.
TimerElapse ==
  /\ timer = "armed"
  /\ timer' = "elapsed"
  /\ UNCHANGED <<rec, layer, call, taken, wire, shut, failed, history, unflushed>>

----------------------------------------------------------------------------
(***************************************************************************)
(* poll_flush, SendingMessage: the outer loop makes chunks, the inner one  *)
(* sends the current chunk byte by byte.                                   *)
(***************************************************************************)
InMessage == pc = "msg" /\ HeaderLen > bptr

\* (were the chunk's header counted as payload, or its payload not at all)
AdvanceWithHeader == bptr + Len(chunk.inner)
AdvanceUnderflow == bptr - ChunkHeaderLen - MsgMaxSize

\* Buffer.ptr once the chunk is sent.
Advance == bptr + Len(chunk.inner) - ChunkHeaderLen

NewChunk ==
  /\ InMessage
  /\ ChunkSent
  /\ bptr' = IF chunk = NoChunk THEN bptr ELSE Advance
  /\ chunk' = [inner |-> ChunkAt(bptr'), ptr |-> 0]
  /\ UNCHANGED <<rec, st, blen, timer, call, taken, wire, shut, failed, history, unflushed>>

\* The transport's flush completes: the byte before has left.
FlushByte ==
  /\ InMessage
  /\ ~ChunkSent
  /\ unflushed' = 0
  /\ pc' = "byte"
  /\ UNCHANGED <<rec, layer, timer, op, want, taken, wire, shut, failed, history>>

\* (were the flush before the inner loop)
WriteByteUnflushed ==
  /\ pc = "byte" /\ ~shut
  /\ wire' = Append(wire, chunk.inner[chunk.ptr + 1])
  /\ chunk' = [chunk EXCEPT !.ptr = @ + 1]
  /\ unflushed' = unflushed + 1
  /\ pc' = IF chunk.ptr + 1 < Len(chunk.inner) THEN "byte" ELSE "msg"
  /\ UNCHANGED <<rec, st, blen, bptr, timer, op, want, taken, shut, failed, history>>

\* The transport takes one byte of the chunk.
WriteByte ==
  /\ pc = "byte" /\ ~shut
  /\ wire' = Append(wire, chunk.inner[chunk.ptr + 1])
  /\ chunk' = [chunk EXCEPT !.ptr = @ + 1]
  /\ unflushed' = unflushed + 1
  /\ pc' = "msg"
  /\ UNCHANGED <<rec, st, blen, bptr, timer, op, want, taken, shut, failed, history>>

\* The whole record is sent; what the buffer holds behind it is sent raw.
EndMessage ==
  /\ pc = "msg" /\ HeaderLen <= bptr
  /\ st' = "SendingRawBuffer"
  /\ chunk' = NoChunk
  /\ pc' = "raw"
  /\ UNCHANGED <<rec, blen, bptr, timer, op, want, taken, wire, shut, failed, history, unflushed>>

(***************************************************************************)
(* poll_flush, SendingRawBuffer: the loop runs until ptr has reached the   *)
(* end of the buffer, and offers the transport the whole of buf.inner in   *)
(* every iteration, wherever ptr stands.  (A transport that takes nothing  *)
(* sends the loop round again with nothing changed.)                       *)
(***************************************************************************)
RawWrite(k) ==
  /\ pc = "raw" /\ ~shut
  /\ blen > bptr
  /\ k \in Accepts(blen)
  /\ wire' = wire \o Stream(1, k)
  /\ bptr' = bptr + k
  /\ short' = (short \/ k < blen)
  /\ unflushed' = unflushed + k
  /\ UNCHANGED <<rec, st, blen, chunk, timer, call, taken, shut, failed, fragmented, extra>>

EndRaw ==
  /\ pc = "raw" /\ blen <= bptr
  /\ st' = "SendingData"
  /\ blen' = 0 /\ bptr' = 0
  /\ pc' = "last"
  /\ UNCHANGED <<rec, chunk, timer, op, want, taken, wire, shut, failed, history, unflushed>>

\* (were poll_flush done once its own buffer is empty)
LastFlushSkipped ==
  /\ pc = "last"
  /\ IF op = "write" THEN pc' = "body" /\ UNCHANGED <<op, want>> ELSE Return
  /\ UNCHANGED <<rec, layer, timer, taken, wire, shut, failed, history, unflushed>>

\* The flush of the transport that ends poll_flush completes.  A poll_write
\* goes on to its body; a poll_read reads the transport and returns.
LastFlush ==
  /\ pc = "last"
  /\ unflushed' = 0
  /\ IF op = "write" THEN pc' = "body" /\ UNCHANGED <<op, want>> ELSE Return
  /\ UNCHANGED <<rec, layer, timer, taken, wire, shut, failed, history>>

----------------------------------------------------------------------------
(***************************************************************************)
(* The body of poll_write.                                                 *)
(***************************************************************************)
\* The state the layer is in once its buffer holds b bytes.
Recognise(b) ==
  CASE st = "WaitingHeader" /\ ~rec.handshake -> "SendingRawBuffer"
    [] st = "WaitingHeader" /\ rec.handshake /\ b < 6 -> "WaitingHeader"
    [] st = "WaitingHeader" /\ rec.handshake /\ b >= 6 /\ ~rec.hello -> "SendingRawBuffer"
    [] st = "WaitingHeader" /\ rec.handshake /\ b >= 6 /\ rec.hello ->
         IF b >= HeaderLen THEN "SendingMessage" ELSE "WaitingMessage"
    [] st = "WaitingMessage" ->
         IF b >= HeaderLen THEN "SendingMessage" ELSE "WaitingMessage"
    [] OTHER -> st

\* Before the handshake has ended poll_write answers for all bytes offered;
\* the waiting states keep them.
Absorb ==
  /\ pc = "body" /\ st # "SendingData"
  /\ blen' = IF st \in Waiting THEN blen + want ELSE blen
  /\ st' = Recognise(blen')
  /\ bptr' = IF st' \in {"WaitingMessage", "SendingMessage"} THEN 5 ELSE 0
  /\ fragmented' = (fragmented \/ st' = "SendingMessage")
  /\ extra' = (extra \/ (st' = "SendingMessage" /\ blen' > HeaderLen))
  /\ taken' = taken + want
  /\ Return
  /\ UNCHANGED <<rec, chunk, timer, wire, shut, failed, short, unflushed>>

\* Afterwards the layer is transparent.
WriteThrough(k) ==
  /\ pc = "body" /\ st = "SendingData"
  /\ k \in Accepts(want)
  /\ wire' = wire \o Stream(taken + 1, taken + k)
  /\ taken' = taken + k
  /\ unflushed' = unflushed + k
  /\ Return
  /\ UNCHANGED <<rec, layer, timer, shut, failed, history>>

----------------------------------------------------------------------------
(***************************************************************************)
(* A call of the transport that does not succeed.  Pending ends the poll;  *)
(* the next one resumes from the layer's state.  An error ends the stream; *)
(* so does a byte of a chunk of which the transport takes nothing.         *)
(***************************************************************************)
CallingTransport ==
  \/ InMessage /\ ~ChunkSent
  \/ pc = "byte"
  \/ pc = "raw" /\ blen > bptr
  \/ pc = "last"
  \/ pc = "body" /\ st = "SendingData"

TransportPending ==
  /\ CallingTransport
  /\ Return
  /\ UNCHANGED <<rec, layer, timer, taken, wire, shut, failed, history, unflushed>>

TransportError ==
  /\ CallingTransport
  /\ Return
  /\ failed' = TRUE
  /\ UNCHANGED <<rec, layer, timer, taken, wire, shut, history, unflushed>>

Next ==
  \/ \E n \in 1 .. MaxStream : CallWrite(n)
  \/ CallFlush \/ CallRead \/ CallShutdown \/ TimerElapse
  \/ NewChunk \/ FlushByte \/ WriteByte \/ EndMessage
  \/ \E k \in 1 .. MaxStream : RawWrite(k)
  \/ EndRaw \/ LastFlush
  \/ Absorb
  \/ \E k \in 1 .. MaxStream : WriteThrough(k)
  \/ TransportPending \/ TransportError

Spec == Init /\ [][Next]_vars

----------------------------------------------------------------------------
(***************************************************************************)
(* Fairness.  The task that owns the stream (copy_bidirectional, or the    *)
(* connection task of hyper) polls the reading side whenever it is woken,  *)
(* and the timer wakes it; the transport is not blocked forever, so each   *)
(* kind of call that is made again and again succeeds again and again.     *)
(* Nothing obliges the caller to write, to flush or to shut down.          *)
(***************************************************************************)
Fairness ==
  /\ SF_vars(CallRead)
  /\ WF_vars(TimerElapse)
  /\ WF_vars(NewChunk) /\ WF_vars(EndMessage) /\ WF_vars(EndRaw) /\ WF_vars(Absorb)
  /\ SF_vars(FlushByte) /\ SF_vars(WriteByte) /\ SF_vars(LastFlush)
  /\ SF_vars(\E k \in 1 .. MaxStream : RawWrite(k))
  /\ SF_vars(\E k \in 1 .. MaxStream : WriteThrough(k))

FairSpec == Spec /\ Fairness

----------------------------------------------------------------------------
\* The values the variables take.
TypeOK ==
  /\ rec \in [handshake : BOOLEAN, hello : BOOLEAN, len : 0 .. MaxRecord]
  /\ st \in Waiting \cup SendingBuffer \cup {"SendingData"}
  /\ blen \in Nat /\ bptr \in Nat
  /\ chunk \in [inner : Seq({"src", "len"} \X Nat), ptr : Nat]
  /\ timer \in {"none", "armed", "elapsed"}
  /\ op \in {"none", "write", "flush", "read"}
  /\ want \in 0 .. MaxStream
  /\ pc \in {"idle", "msg", "byte", "raw", "last", "body"}
  /\ taken \in Nat
  /\ wire \in Seq({"src", "len"} \X Nat)
  /\ shut \in BOOLEAN /\ failed \in BOOLEAN
  /\ fragmented \in BOOLEAN /\ extra \in BOOLEAN /\ short \in BOOLEAN
  /\ unflushed \in Nat

(***************************************************************************)
(* What the wire should carry.  Each byte of the payload becomes a record  *)
(* of FragmentSize bytes; the bytes behind the record follow unchanged.    *)
(***************************************************************************)
FragmentSize == ChunkHeaderLen + MsgMaxSize
FragmentsLen == IF fragmented THEN FragmentSize * rec.len ELSE 0

\* The k-th byte of the sequence of records that carries the payload.
FragmentByte(k) ==
  LET n == (k - 1) \div FragmentSize
      r == (k - 1) % FragmentSize
  IN  <<Src(1), Src(2), Src(3), LenByte(0), LenByte(1), Src(HeaderLen - rec.len + n + 1)>>[r + 1]

ExpectedByte(k) ==
  IF k <= FragmentsLen THEN FragmentByte(k)
  ELSE IF fragmented THEN Src(k - FragmentsLen + HeaderLen)
  ELSE Src(k)

\* A raw write that was taken in part, or bytes behind the record in the
\* buffer when it was recognised: the two cases in which poll_flush, offering
\* the whole of buf.inner again, repeats bytes (poll_flush of fragment.rs).
Repeats == short \/ extra

\* However the polls of the two directions interleave, wherever the transport
\* returns Pending and whenever the timer fires, the k-th byte on the wire is
\* the k-th byte of the fragments followed by the rest of the stream; the
\* fragments themselves are right even when the raw buffer is repeated.
InOrder ==
  \A k \in 1 .. Len(wire) :
    k <= FragmentsLen \/ ~Repeats => wire[k] = ExpectedByte(k)

\* Every byte poll_write has answered for is in the buffer until the buffer is
\* sent, and on the wire from then on: none is dropped, none is counted twice.
NothingLost ==
  /\ st # "SendingData" => blen = taken
  /\ st \in Waiting => wire = <<>>
  /\ st = "SendingData" /\ ~Repeats =>
       Len(wire) = FragmentsLen + (IF fragmented THEN taken - HeaderLen ELSE taken)

\* Two bytes of a ClientHello are never in flight together: the transport's
\* flush has completed between any two of them, so that each one leaves in a
\* segment of its own (the flush in the inner loop of poll_flush).
OneByteInFlight ==
  st = "SendingMessage" => unflushed <= 1

\* README.md line 53 says the program is "designed to send the TLS ClientHello
\* in fragments": once the layer has recognised a ClientHello (with a payload),
\* the length bytes of its original record header never reach the wire.
HelloOnlyInFragments ==
  fragmented /\ rec.len > 0 => \A k \in 1 .. Len(wire) : wire[k] \notin {Src(4), Src(5)}

=============================================================================
