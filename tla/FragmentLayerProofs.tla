------------------------ MODULE FragmentLayerProofs ------------------------
(***************************************************************************)
(* Proofs that FragmentLayer keeps TypeOK, InOrder, NothingLost and        *)
(* OneByteInFlight, for records and streams of any length, with a          *)
(* transport that takes writes whole or in part; and that it implements    *)
(* the safety of BytePipe where it takes them whole and the caller does    *)
(* not pipeline.  Proofs about Tunnel, which drives the layer, come last.  *)
(*                                                                         *)
(* None of the three safety properties is inductive.  What makes them so   *)
(* is the bookkeeping between the buffer, the chunk and the wire: in       *)
(* SendingMessage the wire has six bytes for each payload byte that ptr    *)
(* has passed, and as many more as the chunk's own ptr says (Sending);     *)
(* in SendingRawBuffer the raw buffer has not been touched or has been     *)
(* sent whole (Raw); afterwards the wire has exactly what poll_write       *)
(* answered for (Through).                                                 *)
(***************************************************************************)
EXTENDS Tunnel, FragmentPipe, FiniteSetTheorems, SequenceTheorems, TLAPS

\* Nothing has left the layer, and nothing was decided, while it waits.
Held ==
  st \in Waiting =>
    /\ wire = <<>> /\ unflushed = 0 /\ chunk = NoChunk
    /\ ~fragmented /\ ~extra /\ ~short

\* The chunk that is being sent is that of the payload byte at ptr.
Sending ==
  st = "SendingMessage" =>
    /\ fragmented /\ ~short
    /\ HeaderLen <= blen /\ (~extra => blen = HeaderLen)
    /\ bptr \in 5 .. HeaderLen
    /\ \/ chunk = NoChunk /\ bptr = 5 /\ wire = <<>>
       \/ /\ chunk.inner = ChunkAt(bptr)
          /\ chunk.ptr \in 0 .. Len(chunk.inner)
          /\ Len(wire) = 6 * (bptr - 5) + chunk.ptr
          /\ bptr = HeaderLen => chunk.ptr = 0

\* The raw buffer is sent from its start, or there is nothing left to send.
Raw ==
  st = "SendingRawBuffer" =>
    /\ chunk = NoChunk
    /\ fragmented =>
         /\ Len(wire) >= 6 * rec.len
         /\ HeaderLen <= blen
         /\ ~extra => blen = HeaderLen /\ bptr = HeaderLen /\ Len(wire) = 6 * rec.len
    /\ ~fragmented /\ ~short =>
         \/ bptr = 0 /\ wire = <<>>
         \/ bptr = blen /\ Len(wire) = blen

\* Transparent: the wire has what poll_write answered for.
Through ==
  st = "SendingData" =>
    /\ fragmented => Len(wire) >= 6 * rec.len /\ HeaderLen <= taken
    /\ fragmented /\ ~Repeats => Len(wire) = 6 * rec.len + (taken - HeaderLen)
    /\ ~fragmented /\ ~Repeats => Len(wire) = taken

\* The buffer has what poll_write answered for until it is sent.
Counted == st # "SendingData" => blen = taken

\* Where a poll may stand in each state.
Place ==
  /\ pc \in {"msg", "byte"} => st = "SendingMessage"
  /\ pc = "byte" => HeaderLen > bptr /\ ~ChunkSent
  /\ pc = "raw" => st = "SendingRawBuffer"
  /\ pc \in {"last", "body"} => st \notin SendingBuffer

\* A byte of a chunk is written only after the flush of the one before.
Flushed ==
  /\ st = "SendingMessage" => unflushed <= 1
  /\ pc = "byte" => unflushed = 0

IInv ==
  /\ TypeOK /\ InOrder
  /\ Held /\ Sending /\ Raw /\ Through /\ Counted /\ Place /\ Flushed

----------------------------------------------------------------------------
Byte == {"src", "len"} \X Nat

\* Pieces of the caller's stream are sequences of bytes, and their i-th byte
\* is the stream's (the slices of buf.inner that are written).
LEMMA StreamFacts ==
  ASSUME NEW a \in Nat \ {0}, NEW b \in Nat, a <= b + 1
  PROVE  /\ Stream(a, b) \in Seq(Byte)
         /\ Len(Stream(a, b)) = b + 1 - a
         /\ \A i \in 1 .. (b + 1 - a) : Stream(a, b)[i] = Src(a + i - 1)
<1>1. b + 1 - a \in Nat
  OBVIOUS
<1>2. \A i \in 1 .. (b + 1 - a) : Src(a + i - 1) \in Byte
  BY DEF Src, Byte
<1> QED
  BY <1>1, <1>2 DEF Stream

LEMMA SingleByte ==
  ASSUME NEW a \in Nat \ {0}
  PROVE  Stream(a, a) = <<Src(a)>>
<1>1. a + 1 - a = 1 /\ a + 1 - 1 = a
  OBVIOUS
<1> QED
  BY <1>1 DEF Stream

\* Where the bytes of a concatenation come from.
LEMMA ConcatFacts ==
  ASSUME NEW s \in Seq(Byte), NEW t \in Seq(Byte)
  PROVE  /\ s \o t \in Seq(Byte)
         /\ Len(s \o t) = Len(s) + Len(t)
         /\ \A i \in 1 .. Len(s) : (s \o t)[i] = s[i]
         /\ \A i \in 1 .. Len(t) : (s \o t)[Len(s) + i] = t[i]
  OBVIOUS

LEMMA ElementFacts ==
  ASSUME NEW s \in Seq(Byte), NEW i \in 1 .. Len(s)
  PROVE  s[i] \in Byte
  OBVIOUS

\* The bytes of the k-th fragment, by their place in it: the arithmetic of
\* FragmentByte undone.
LEMMA FragmentByteAt ==
  ASSUME NEW n \in Nat, NEW r \in 0 .. 5
  PROVE  /\ (6 * n + r + 1 - 1) \div 6 = n
         /\ (6 * n + r + 1 - 1) % 6 = r
  BY SMT

LEMMA SixBound ==
  ASSUME NEW m \in Nat, NEW n \in Nat, m < n, NEW r \in 0 .. 5
  PROVE  6 * m + r + 1 <= 6 * n
  OBVIOUS

\* The chunk made for the payload byte behind offset p carries that byte in a
\* record of its own; behind the last byte the chunk has no payload.
LEMMA ChunkFacts ==
  ASSUME TypeOK, NEW p \in 5 .. HeaderLen
  PROVE  /\ ChunkAt(p) \in Seq(Byte)
         /\ p < HeaderLen =>
              /\ Len(ChunkAt(p)) = 6
              /\ \A r \in 0 .. 5 : ChunkAt(p)[r + 1] = FragmentByte(6 * (p - 5) + r + 1)
<1>1. rec.len \in Nat /\ HeaderLen \in Nat /\ HeaderLen = rec.len + 5 /\ p \in Nat
  BY FragmentAssumption DEF TypeOK, HeaderLen
<1>2. ASSUME NEW n \in {0, 1}
      PROVE  /\ RecordHeader(n) = <<Src(1), Src(2), Src(3), LenByte(0), LenByte(n)>>
             /\ RecordHeader(n) \in Seq(Byte) /\ Len(RecordHeader(n)) = 5
  <2>1. n \div 256 = 0 /\ n % 256 = n
    BY SMT
  <2> QED
    BY <2>1 DEF RecordHeader, Src, LenByte, Byte
<1>3. CASE p = HeaderLen
  <2>1. HeaderLen - p = 0 /\ p + 0 = p /\ p + 1 > HeaderLen
    BY <1>1, <1>3
  <2>2. ChunkAt(p) = RecordHeader(0) \o Stream(p + 1, p)
    BY <2>1 DEF ChunkAt, MsgMaxSize
  <2>3. Stream(p + 1, p) \in Seq(Byte)
    BY <1>1, StreamFacts
  <2>4. ChunkAt(p) \in Seq(Byte)
    BY <1>2, <2>2, <2>3
  <2> QED
    BY <1>1, <1>3, <2>4
<1>4. CASE p < HeaderLen
  <2>0. ~(p + 1 > HeaderLen)
    BY <1>1, <1>4
  <2>1. ChunkAt(p) = RecordHeader(1) \o Stream(p + 1, p + 1)
    BY <2>0, Zenon DEF ChunkAt, MsgMaxSize
  <2>2. /\ Stream(p + 1, p + 1) = <<Src(p + 1)>>
        /\ <<Src(p + 1)>> \in Seq(Byte) /\ Len(<<Src(p + 1)>>) = 1
    BY <1>1, SingleByte DEF Src, Byte
  <2>3. /\ ChunkAt(p) \in Seq(Byte) /\ Len(ChunkAt(p)) = 5 + 1
        /\ \A i \in 1 .. 5 : ChunkAt(p)[i] = RecordHeader(1)[i]
        /\ \A i \in 1 .. 1 : ChunkAt(p)[5 + i] = <<Src(p + 1)>>[i]
    <3> DEFINE h == RecordHeader(1)
               t == <<Src(p + 1)>>
    <3>1. h \in Seq(Byte) /\ t \in Seq(Byte) /\ Len(h) = 5 /\ Len(t) = 1 /\ ChunkAt(p) = h \o t
      BY <1>2, <2>1, <2>2
    <3> HIDE DEF h, t
    <3>2. /\ h \o t \in Seq(Byte) /\ Len(h \o t) = Len(h) + Len(t)
          /\ \A i \in 1 .. Len(h) : (h \o t)[i] = h[i]
          /\ \A i \in 1 .. Len(t) : (h \o t)[Len(h) + i] = t[i]
      BY <3>1, ConcatFacts
    <3>3. /\ ChunkAt(p) \in Seq(Byte) /\ Len(ChunkAt(p)) = 5 + 1
          /\ \A i \in 1 .. 5 : ChunkAt(p)[i] = h[i]
          /\ \A i \in 1 .. 1 : ChunkAt(p)[5 + i] = t[i]
      BY <3>1, <3>2
    <3> QED
      BY <3>3 DEF h, t
  <2>4. ChunkAt(p) \in Seq(Byte) /\ Len(ChunkAt(p)) = 6
    BY <2>3
  <2>5. ASSUME NEW r \in 0 .. 5
        PROVE  ChunkAt(p)[r + 1] = FragmentByte(6 * (p - 5) + r + 1)
    <3>1. ChunkAt(p)[r + 1] =
            <<Src(1), Src(2), Src(3), LenByte(0), LenByte(1), Src(p + 1)>>[r + 1]
      BY <1>2, <2>3
    <3>2. p - 5 \in Nat
      BY <1>1
    <3>3. HeaderLen - rec.len + (p - 5) + 1 = p + 1
      BY <1>1
    <3> QED
      BY <3>1, <3>2, <3>3, FragmentByteAt DEF FragmentByte, FragmentSize, ChunkHeaderLen, MsgMaxSize
  <2> QED
    BY <1>4, <2>4, <2>5
<1> QED
  BY <1>1, <1>3, <1>4

----------------------------------------------------------------------------
(***************************************************************************)
(* Steps that leave the buffer and the wire alone: they move only the poll *)
(* in progress, the timer and the ends of the stream.                      *)
(***************************************************************************)
data == <<rec, st, blen, bptr, chunk, taken, wire, fragmented, extra, short>>

LEMMA WireKept ==
  ASSUME InOrder, UNCHANGED <<rec, wire, fragmented, extra, short>>
  PROVE  InOrder'
  BY DEF InOrder, Repeats, ExpectedByte, FragmentsLen, FragmentByte, HeaderLen

LEMMA DataKept ==
  ASSUME IInv, UNCHANGED data
  PROVE  /\ InOrder' /\ Held' = (st \in Waiting =>
               /\ wire = <<>> /\ unflushed' = 0 /\ chunk = NoChunk
               /\ ~fragmented /\ ~extra /\ ~short)
         /\ Sending' /\ Raw' /\ Through' /\ Counted'
<1>1. InOrder'
  BY WireKept DEF IInv, data
<1>2. Sending'
  <2>1. ChunkAt(bptr)' = ChunkAt(bptr) /\ HeaderLen' = HeaderLen
    <3>1. rec' = rec /\ bptr' = bptr
      BY DEF data
    <3>2. HeaderLen' = HeaderLen
      BY <3>1 DEF HeaderLen
    <3> QED
      BY <3>1, <3>2, ZenonT(60) DEF ChunkAt, RecordHeader, Stream
  <2> QED
    BY <2>1 DEF IInv, Sending, data, NoChunk
<1>3. Raw' /\ Through' /\ Counted'
  BY DEF IInv, Raw, Through, Counted, data, HeaderLen, NoChunk, Repeats
<1> QED
  BY <1>1, <1>2, <1>3 DEF Held, data

LEMMA TypeKept ==
  ASSUME TypeOK, UNCHANGED data,
         timer' \in {"none", "armed", "elapsed"},
         op' \in {"none", "write", "flush", "read"}, want' \in 0 .. MaxStream,
         pc' \in {"idle", "msg", "byte", "raw", "last", "body"},
         shut' \in BOOLEAN, failed' \in BOOLEAN, unflushed' \in Nat
  PROVE  TypeOK'
  BY Zenon DEF TypeOK, data, Waiting, SendingBuffer

LEMMA CallWriteStep ==
  ASSUME IInv, NEW n \in 1 .. MaxStream, CallWrite(n)
  PROVE  IInv'
<1> USE DEF CallWrite, Idle, layer, history
<1>1. UNCHANGED data /\ unflushed' = unflushed
  BY DEF data
<1>2. TypeOK'
  <2>1. want' \in 0 .. MaxStream
    BY FragmentAssumption
  <2> QED
    BY <1>1, <2>1, TypeKept, Zenon DEF IInv, TypeOK, FlushEntry
<1>3. Place' /\ Flushed'
  BY DEF IInv, Place, Flushed, FlushEntry, SendingBuffer, Waiting, TypeOK
<1> QED
  BY <1>1, <1>2, <1>3, DataKept DEF IInv, Held

LEMMA CallFlushStep ==
  ASSUME IInv, CallFlush
  PROVE  IInv'
<1> USE DEF CallFlush, Idle, layer, history
<1>1. UNCHANGED data /\ unflushed' = unflushed
  BY DEF data
<1>2. TypeOK'
  <2>1. 0 \in 0 .. MaxStream
    BY FragmentAssumption
  <2> QED
    BY <1>1, <2>1, TypeKept, Zenon DEF IInv, TypeOK, FlushEntry
<1>3. Place' /\ Flushed'
  BY DEF IInv, Place, Flushed, FlushEntry, SendingBuffer, Waiting, TypeOK
<1> QED
  BY <1>1, <1>2, <1>3, DataKept DEF IInv, Held

\* Returning from a poll, the end of the stream, and the timer.
LEMMA OtherCallStep ==
  ASSUME IInv, CallShutdown \/ TimerElapse \/ TransportPending \/ TransportError
  PROVE  IInv'
<1> USE DEF CallShutdown, TimerElapse, TransportPending, TransportError, Return, layer, history, call
<1>1. UNCHANGED data /\ unflushed' = unflushed
  BY DEF data
<1>2. pc' = "idle" \/ pc' = pc
  OBVIOUS
<1>3. TypeOK'
  <2>1. 0 \in 0 .. MaxStream
    BY FragmentAssumption
  <2>2. shut' \in BOOLEAN /\ failed' \in BOOLEAN
    BY Zenon DEF IInv, TypeOK
  <2> QED
    BY <1>1, <1>2, <2>1, <2>2, TypeKept DEF IInv, TypeOK
<1>4. Place' /\ Flushed'
  BY <1>1, <1>2 DEF IInv, Place, Flushed, ChunkSent, HeaderLen, data
<1> QED
  BY <1>1, <1>3, <1>4, DataKept DEF IInv, Held

LEMMA FlushStep ==
  ASSUME IInv, FlushByte \/ LastFlush
  PROVE  IInv'
<1> USE DEF FlushByte, LastFlush, InMessage, Return, layer, history
<1>1. UNCHANGED data /\ unflushed' = 0
  BY DEF data
<1>2. TypeOK'
  <2>1. 0 \in 0 .. MaxStream
    BY FragmentAssumption
  <2>2. shut' \in BOOLEAN /\ failed' \in BOOLEAN
    BY Zenon DEF IInv, TypeOK
  <2> QED
    BY <1>1, <2>1, <2>2, TypeKept DEF IInv, TypeOK
<1>3. Place' /\ Flushed'
  BY DEF IInv, Place, Flushed, ChunkSent, HeaderLen, SendingBuffer
<1> QED
  BY <1>1, <1>2, <1>3, DataKept DEF IInv, Held

----------------------------------------------------------------------------
(***************************************************************************)
(* Steps that change the buffer's state and leave the wire alone.          *)
(***************************************************************************)
\* The waiting buffer is given up to be sent raw, from its start.
LEMMA RawSendStep ==
  ASSUME IInv, st \in Waiting, IntoRawSend, pc = "idle",
         UNCHANGED <<rec, taken, wire, shut, failed, history, unflushed>>,
         timer' \in {"none", "armed", "elapsed"},
         op' = "read", want' = 0, pc' = "raw"
  PROVE  IInv'
<1> USE DEF IntoRawSend, history, Waiting, SendingBuffer
<1>1. TypeOK'
  <2>1. st' \in {"WaitingHeader", "WaitingMessage"}
                  \cup {"SendingMessage", "SendingRawBuffer"} \cup {"SendingData"}
    OBVIOUS
  <2>2. 0 \in 0 .. MaxStream /\ bptr' \in Nat
    BY FragmentAssumption
  <2> QED
    BY <2>1, <2>2, Zenon DEF IInv, TypeOK
<1>2. InOrder'
  BY WireKept DEF IInv
<1>3. Held' /\ Sending' /\ Through' /\ Place' /\ Flushed'
  BY DEF Held, Sending, Through, Place, Flushed
<1>4. Raw'
  BY DEF IInv, Held, Raw, NoChunk
<1>5. Counted'
  BY DEF IInv, Counted
<1> QED
  BY <1>1, <1>2, <1>3, <1>4, <1>5 DEF IInv

LEMMA CallReadStep ==
  ASSUME IInv, CallRead
  PROVE  IInv'
<1> USE DEF CallRead, Idle
<1>1. CASE st \in Waiting /\ timer = "elapsed"
  <2>1. st' = "SendingRawBuffer" /\ st' \in SendingBuffer /\ IntoRawSend
    BY <1>1 DEF IntoRawSend, SendingBuffer
  <2>2. op' = "read" /\ want' = 0 /\ pc' = "raw"
    BY <2>1 DEF FlushEntry
  <2> QED
    BY <1>1, <2>1, <2>2, RawSendStep
<1>2. CASE ~(st \in Waiting /\ timer = "elapsed")
  <2>1. /\ UNCHANGED layer /\ timer' \in {"none", "armed", "elapsed"}
        /\ UNCHANGED data /\ unflushed' = unflushed
    BY <1>2 DEF layer, data, history
  <2>2. \/ op' = "read" /\ want' = 0 /\ pc' = FlushEntry(st) /\ st \in SendingBuffer
        \/ UNCHANGED call
    BY <2>1 DEF layer
  <2>3. TypeOK'
    <3>1. 0 \in 0 .. MaxStream
      BY FragmentAssumption
    <3>2. /\ op' \in {"none", "write", "flush", "read"} /\ want' \in 0 .. MaxStream
          /\ pc' \in {"idle", "msg", "byte", "raw", "last", "body"}
      BY <2>2, <3>1 DEF IInv, TypeOK, FlushEntry, call
    <3>3. shut' \in BOOLEAN /\ failed' \in BOOLEAN
      BY Zenon DEF IInv, TypeOK
    <3> QED
      BY <2>1, <3>2, <3>3, TypeKept DEF IInv, TypeOK
  <2>4. Place' /\ Flushed'
    BY <2>1, <2>2 DEF IInv, Place, Flushed, FlushEntry, SendingBuffer, layer, call, ChunkSent, HeaderLen
  <2> QED
    BY <2>1, <2>3, <2>4, DataKept DEF IInv, Held
<1> QED
  BY <1>1, <1>2

LEMMA ChunkStep ==
  ASSUME rec' = rec
  PROVE  ChunkAt(bptr)' = ChunkAt(bptr')
<1>1. HeaderLen' = HeaderLen
  BY DEF HeaderLen
<1> QED
  BY <1>1, ZenonT(40) DEF ChunkAt, RecordHeader, Stream, MsgMaxSize, Src, LenByte

\* ptr moves on by the payload byte that was sent, and the next chunk is made.
LEMMA NewChunkStep ==
  ASSUME IInv, NewChunk
  PROVE  IInv'
<1> USE DEF NewChunk, Advance, InMessage, history, call
<1>1. /\ st = "SendingMessage" /\ bptr \in 5 .. HeaderLen /\ HeaderLen > bptr
      /\ rec.len \in Nat /\ HeaderLen \in Nat /\ HeaderLen' = HeaderLen
  BY FragmentAssumption, SMTT(30) DEF IInv, Place, Sending, TypeOK, HeaderLen
<1>2. /\ bptr' \in 5 .. HeaderLen
      /\ Len(wire) = 6 * (bptr' - 5)
  <2>1. CASE chunk = NoChunk
    <3>1. bptr = 5 /\ wire = <<>> /\ bptr' = bptr
      <4>1. chunk.inner # ChunkAt(bptr)
        <5>1. Len(ChunkAt(bptr)) = 6
          BY <1>1, ChunkFacts DEF IInv
        <5> QED
          BY <2>1, <5>1 DEF NoChunk
      <4> QED
        BY <1>1, <2>1, <4>1 DEF IInv, Sending
    <3> QED
      BY <1>1, <3>1
  <2>2. CASE chunk # NoChunk
    <3>1. /\ chunk.inner = ChunkAt(bptr) /\ chunk.ptr \in 0 .. Len(chunk.inner)
          /\ Len(wire) = 6 * (bptr - 5) + chunk.ptr
      BY <1>1, <2>2 DEF IInv, Sending
    <3>2. Len(ChunkAt(bptr)) = 6
      BY <1>1, ChunkFacts DEF IInv
    <3>3. chunk.ptr = 6 /\ bptr' = bptr + 6 - 5
      BY <2>2, <3>1, <3>2 DEF ChunkSent, ChunkHeaderLen
    <3> QED
      BY <1>1, <3>1, <3>3
  <2> QED
    BY <2>1, <2>2
<1>3. ChunkAt(bptr)' = ChunkAt(bptr') /\ ChunkAt(bptr') \in Seq(Byte)
  <2>1. ChunkAt(bptr)' = ChunkAt(bptr')
    BY ChunkStep
  <2> QED
    BY <1>2, <2>1, ChunkFacts DEF IInv
<1>4. chunk' = [inner |-> ChunkAt(bptr'), ptr |-> 0]
  OBVIOUS
<1>5. TypeOK'
  <2>1. chunk' \in [inner : Seq({"src", "len"} \X Nat), ptr : Nat] /\ bptr' \in Nat
    BY <1>1, <1>2, <1>3, <1>4 DEF Byte
  <2>2. UNCHANGED <<rec, st, blen>> /\ UNCHANGED <<timer, op, want, pc>>
    OBVIOUS
  <2>3. UNCHANGED <<taken, wire, shut, failed>> /\ UNCHANGED <<fragmented, extra, short, unflushed>>
    OBVIOUS
  <2> QED
    BY <2>1, <2>2, <2>3 DEF IInv, TypeOK
<1>6. InOrder'
  BY WireKept DEF IInv
<1>7. Sending'
  <2>1. chunk'.inner = ChunkAt(bptr)' /\ chunk'.ptr = 0 /\ 0 \in 0 .. Len(chunk'.inner)
    BY <1>3, <1>4
  <2>2. Len(wire') = 6 * (bptr' - 5) + chunk'.ptr
    BY <1>2, <2>1
  <2>3. bptr' \in 5 .. HeaderLen'
    BY <1>1, <1>2
  <2>4. fragmented' /\ ~short' /\ HeaderLen' <= blen' /\ (~extra' => blen' = HeaderLen')
    BY <1>1 DEF IInv, Sending
  <2> QED
    BY <2>1, <2>2, <2>3, <2>4 DEF Sending
<1>8. Held' /\ Raw' /\ Through'
  BY <1>1 DEF Held, Raw, Through, Waiting
<1>9. Counted' /\ Place' /\ Flushed'
  BY <1>1 DEF IInv, Counted, Place, Flushed
<1> QED
  BY <1>5, <1>6, <1>7, <1>8, <1>9 DEF IInv

\* The end of the fragments: what is left of the buffer is to be sent raw.
LEMMA EndMessageStep ==
  ASSUME IInv, EndMessage
  PROVE  IInv'
<1> USE DEF EndMessage, history
<1>1. /\ st = "SendingMessage" /\ bptr = HeaderLen /\ fragmented
      /\ rec.len \in Nat /\ HeaderLen = rec.len + 5 /\ HeaderLen' = HeaderLen
  BY FragmentAssumption DEF IInv, Place, Sending, TypeOK, HeaderLen
<1>2. Len(wire) = 6 * rec.len
  BY <1>1 DEF IInv, Sending
<1>3. TypeOK'
  <2>1. chunk' \in [inner : Seq({"src", "len"} \X Nat), ptr : Nat]
    BY DEF NoChunk
  <2>2. UNCHANGED <<rec, blen, bptr>> /\ UNCHANGED <<timer, op, want>>
    OBVIOUS
  <2>3. UNCHANGED <<taken, wire, shut, failed>> /\ UNCHANGED <<fragmented, extra, short, unflushed>>
    OBVIOUS
  <2>4. st' \in Waiting \cup SendingBuffer \cup {"SendingData"} /\ pc' = "raw"
    BY DEF SendingBuffer
  <2> QED
    BY <2>1, <2>2, <2>3, <2>4 DEF IInv, TypeOK, Waiting, SendingBuffer
<1>4. InOrder'
  BY WireKept DEF IInv
<1>5. Raw'
  BY <1>1, <1>2 DEF IInv, Sending, Raw
<1>6. Held' /\ Sending' /\ Through'
  BY DEF Held, Sending, Through, Waiting
<1>7. Counted' /\ Place' /\ Flushed'
  BY <1>1 DEF IInv, Counted, Place, Flushed
<1> QED
  BY <1>3, <1>4, <1>5, <1>6, <1>7 DEF IInv

\* The buffer is sent: the layer is transparent from here on.
LEMMA EndRawStep ==
  ASSUME IInv, EndRaw
  PROVE  IInv'
<1> USE DEF EndRaw, history
<1>1. /\ st = "SendingRawBuffer" /\ blen = taken /\ HeaderLen' = HeaderLen
      /\ rec.len \in Nat /\ HeaderLen = rec.len + 5
  BY FragmentAssumption DEF IInv, Place, TypeOK, HeaderLen, Counted
<1>2. TypeOK'
  <2>1. UNCHANGED <<rec, chunk>> /\ UNCHANGED <<timer, op, want>>
    OBVIOUS
  <2>2. UNCHANGED <<taken, wire, shut, failed>> /\ UNCHANGED <<fragmented, extra, short, unflushed>>
    OBVIOUS
  <2>3. blen' \in Nat /\ bptr' \in Nat
    OBVIOUS
  <2> QED
    BY <2>1, <2>2, <2>3 DEF IInv, TypeOK, Waiting, SendingBuffer
<1>3. InOrder'
  BY WireKept DEF IInv
<1>4. Through'
  <2>1. blen \in Nat /\ bptr \in Nat
    BY DEF IInv, TypeOK
  <2>2. CASE fragmented
    BY <1>1, <2>1, <2>2 DEF IInv, Raw, Through, Repeats
  <2>3. CASE ~fragmented
    <3>1. ~short => Len(wire) = blen
      <4>1. ~short /\ bptr = 0 /\ wire = <<>> => blen = 0
        BY <2>1
      <4> QED
        BY <1>1, <2>1, <2>3, <4>1 DEF IInv, Raw
    <3> QED
      BY <1>1, <2>3, <3>1 DEF Through, Repeats
  <2> QED
    BY <2>2, <2>3
<1>5. Held' /\ Sending' /\ Raw'
  BY DEF Held, Sending, Raw, Waiting
<1>6. Counted' /\ Place' /\ Flushed'
  BY <1>1 DEF IInv, Counted, Place, Flushed, SendingBuffer
<1> QED
  BY <1>2, <1>3, <1>4, <1>5, <1>6 DEF IInv

\* The first record is complete, or recognised as something else, or waited for.
LEMMA AbsorbStep ==
  ASSUME IInv, Absorb
  PROVE  IInv'
<1> USE DEF Absorb, Return
<1>1. /\ st \in Waiting /\ blen = taken /\ blen' = blen + want /\ taken' = taken + want
      /\ wire = <<>> /\ chunk = NoChunk /\ unflushed = 0
      /\ ~fragmented /\ ~extra /\ ~short
  BY DEF IInv, TypeOK, Place, Counted, Held, Waiting, SendingBuffer
<1>2. /\ rec.len \in Nat /\ HeaderLen = rec.len + 5 /\ HeaderLen' = HeaderLen
      /\ want \in Nat /\ taken \in Nat
  BY FragmentAssumption DEF IInv, TypeOK, HeaderLen
<1>3. /\ st' \in {"WaitingHeader", "WaitingMessage", "SendingMessage", "SendingRawBuffer"}
      /\ st' = "SendingMessage" => blen' >= HeaderLen
  BY <1>1 DEF Recognise, Waiting
<1>4. TypeOK'
  <2>1. UNCHANGED <<rec, chunk, timer>> /\ UNCHANGED <<wire, shut, failed, short, unflushed>>
    OBVIOUS
  <2>2. fragmented' \in BOOLEAN /\ extra' \in BOOLEAN
    BY Zenon
  <2>3. blen' \in Nat /\ bptr' \in Nat /\ taken' \in Nat /\ 0 \in 0 .. MaxStream
    BY <1>1, <1>2, FragmentAssumption
  <2> QED
    BY <1>3, <2>1, <2>2, <2>3 DEF IInv, TypeOK, Waiting, SendingBuffer
<1>5. InOrder'
  <2>1. wire' = <<>>
    BY <1>1
  <2> QED
    BY <2>1 DEF InOrder
<1>6. Held'
  BY <1>1, <1>3 DEF Held, Waiting
<1>7. Sending'
  <2>1. st' = "SendingMessage" => fragmented' /\ (extra' <=> blen' > HeaderLen) /\ bptr' = 5
    BY <1>1
  <2> QED
    BY <1>1, <1>2, <1>3, <2>1 DEF Sending
<1>8. Raw' /\ Through'
  BY <1>1, <1>3 DEF Raw, Through
<1>9. Counted' /\ Place' /\ Flushed'
  BY <1>1, <1>3 DEF Counted, Place, Flushed
<1> QED
  BY <1>4, <1>5, <1>6, <1>7, <1>8, <1>9 DEF IInv

----------------------------------------------------------------------------
(***************************************************************************)
(* Steps that write: the bytes they add are the ones due next.             *)
(***************************************************************************)
LEMMA ExpectedKept ==
  ASSUME UNCHANGED <<rec, fragmented>>
  PROVE  /\ FragmentsLen' = FragmentsLen
         /\ \A k \in Nat : ExpectedByte(k)' = ExpectedByte(k)
  BY DEF FragmentsLen, ExpectedByte, FragmentByte, HeaderLen, FragmentSize, ChunkHeaderLen, MsgMaxSize

LEMMA SixPerByte ==
  ASSUME TypeOK
  PROVE  /\ rec.len \in Nat /\ HeaderLen = rec.len + 5 /\ HeaderLen \in Nat
         /\ fragmented => FragmentsLen = 6 * rec.len
         /\ ~fragmented => FragmentsLen = 0
  BY FragmentAssumption DEF TypeOK, FragmentsLen, FragmentSize, ChunkHeaderLen, MsgMaxSize, HeaderLen

\* Adding to the wire the bytes that are due, or anything at all once bytes
\* are repeated and the fragments are complete, keeps the order.
LEMMA Appended ==
  ASSUME TypeOK, InOrder, UNCHANGED <<rec, fragmented, extra>>, short => short',
         NEW t \in Seq(Byte), wire' = wire \o t,
         \A i \in 1 .. Len(t) :
           Len(wire) + i <= FragmentsLen \/ ~Repeats' => t[i] = ExpectedByte(Len(wire) + i)
  PROVE  InOrder'
<1>1. /\ Len(wire') = Len(wire) + Len(t)
      /\ \A i \in 1 .. Len(wire) : wire'[i] = wire[i]
      /\ \A i \in 1 .. Len(t) : wire'[Len(wire) + i] = t[i]
  BY ConcatFacts DEF TypeOK, Byte
<1>2. Len(wire) \in Nat /\ Len(t) \in Nat
  BY DEF TypeOK
<1> SUFFICES ASSUME NEW k \in 1 .. Len(wire'), k <= FragmentsLen' \/ ~Repeats'
             PROVE  wire'[k] = ExpectedByte(k)'
  BY DEF InOrder
<1>3. ExpectedByte(k)' = ExpectedByte(k) /\ FragmentsLen' = FragmentsLen
  BY ExpectedKept
<1>4. ~Repeats' => ~Repeats
  BY DEF Repeats
<1>5. CASE k \in 1 .. Len(wire)
  BY <1>1, <1>3, <1>4, <1>5 DEF InOrder
<1>6. CASE k \notin 1 .. Len(wire)
  <2>1. PICK i \in 1 .. Len(t) : k = Len(wire) + i
    <3>1. k - Len(wire) \in 1 .. Len(t) /\ k = Len(wire) + (k - Len(wire))
      BY <1>1, <1>2, <1>6
    <3> QED
      BY <3>1
  <2> QED
    BY <1>1, <1>3, <2>1
<1> QED
  BY <1>5, <1>6

LEMMA WriteByteStep ==
  ASSUME IInv, WriteByte
  PROVE  IInv'
<1> USE DEF WriteByte, history
<1>1. /\ st = "SendingMessage" /\ HeaderLen > bptr /\ ~ChunkSent
      /\ fragmented /\ ~short /\ bptr \in 5 .. HeaderLen /\ unflushed = 0
      /\ rec.len \in Nat /\ HeaderLen = rec.len + 5 /\ FragmentsLen = 6 * rec.len
  BY SixPerByte DEF IInv, Place, Sending, Flushed
<1>2. /\ chunk.inner = ChunkAt(bptr) /\ chunk.ptr \in 0 .. 5
      /\ Len(wire) = 6 * (bptr - 5) + chunk.ptr
      /\ Len(ChunkAt(bptr)) = 6
      /\ ChunkAt(bptr)[chunk.ptr + 1] = FragmentByte(6 * (bptr - 5) + chunk.ptr + 1)
  <2>1. chunk # NoChunk
    BY <1>1 DEF NoChunk, ChunkSent
  <2>2. /\ chunk.inner = ChunkAt(bptr) /\ chunk.ptr \in 0 .. Len(chunk.inner)
        /\ Len(wire) = 6 * (bptr - 5) + chunk.ptr
    BY <1>1, <2>1 DEF IInv, Sending
  <2>3. /\ Len(ChunkAt(bptr)) = 6
        /\ \A r \in 0 .. 5 : ChunkAt(bptr)[r + 1] = FragmentByte(6 * (bptr - 5) + r + 1)
    BY <1>1, ChunkFacts DEF IInv
  <2>4. chunk.ptr \in 0 .. 5
    BY <1>1, <2>2, <2>3 DEF ChunkSent
  <2> QED
    BY <2>2, <2>3, <2>4
<1> DEFINE b == chunk.inner[chunk.ptr + 1]
<1>3. b \in Byte /\ b = FragmentByte(Len(wire) + 1) /\ Len(wire) + 1 <= FragmentsLen
  <2>1. b \in Byte
    <3>1. ChunkAt(bptr) \in Seq(Byte)
      BY <1>1, ChunkFacts DEF IInv
    <3>2. chunk.ptr + 1 \in 1 .. Len(ChunkAt(bptr))
      BY <1>2
    <3>3. ChunkAt(bptr)[chunk.ptr + 1] \in Byte
      BY <3>1, <3>2, ElementFacts
    <3> QED
      BY <1>2, <3>3
  <2>2. Len(wire) + 1 = 6 * (bptr - 5) + chunk.ptr + 1
    BY <1>1, <1>2
  <2>3. b = FragmentByte(Len(wire) + 1)
    BY <1>2, <2>2, Zenon
  <2>4. Len(wire) + 1 <= FragmentsLen
    <3>1. bptr - 5 \in Nat /\ bptr - 5 < rec.len
      BY <1>1
    <3> QED
      BY <1>1, <1>2, <2>2, <3>1, SixBound
  <2> QED
    BY <2>1, <2>3, <2>4
<1> HIDE DEF b
<1>4. wire' = wire \o <<b>> /\ wire' = Append(wire, b) /\ Len(wire') = Len(wire) + 1 /\ wire' \in Seq(Byte)
  <2>1. wire \in Seq(Byte) /\ wire' = Append(wire, b)
    BY DEF IInv, TypeOK, Byte, b
  <2> QED
    BY <1>3, <2>1
<1>5. InOrder'
  <2>1. <<b>> \in Seq(Byte) /\ Len(<<b>>) = 1 /\ <<b>>[1] = b
    BY <1>3
  <2>2. b = ExpectedByte(Len(wire) + 1)
    BY <1>3 DEF ExpectedByte
  <2>3. \A i \in 1 .. Len(<<b>>) : <<b>>[i] = ExpectedByte(Len(wire) + i)
    BY <2>1, <2>2
  <2> QED
    BY <1>4, <2>1, <2>3, Appended DEF IInv
<1>6. chunk' = [inner |-> ChunkAt(bptr), ptr |-> chunk.ptr + 1]
  <2>1. chunk = [inner |-> chunk.inner, ptr |-> chunk.ptr]
    BY DEF IInv, TypeOK
  <2> QED
    BY <1>2, <2>1
<1>7. TypeOK'
  <2>1. UNCHANGED <<rec, st, blen, bptr>> /\ UNCHANGED <<timer, op, want>>
    OBVIOUS
  <2>2. UNCHANGED <<taken, shut, failed, fragmented, extra, short>> /\ pc' = "msg"
    OBVIOUS
  <2>3. unflushed' \in Nat /\ chunk.ptr + 1 \in Nat
    BY <1>1, <1>2, SMTT(30)
  <2>4. chunk' \in [inner : Seq({"src", "len"} \X Nat), ptr : Nat]
    <3>1. ChunkAt(bptr) \in Seq(Byte)
      BY <1>1, ChunkFacts DEF IInv
    <3>2. [inner |-> ChunkAt(bptr), ptr |-> chunk.ptr + 1] \in [inner : Seq(Byte), ptr : Nat]
      BY <2>3, <3>1
    <3> QED
      BY <1>6, <3>2, Zenon DEF Byte
  <2>5. wire' \in Seq({"src", "len"} \X Nat)
    BY <1>4 DEF Byte
  <2> QED
    BY <2>1, <2>2, <2>3, <2>4, <2>5 DEF IInv, TypeOK
<1>8. Sending'
  <2>1. /\ chunk'.inner = ChunkAt(bptr)' /\ chunk'.ptr = chunk.ptr + 1
    <3>1. ChunkAt(bptr)' = ChunkAt(bptr')
      BY ChunkStep
    <3> QED
      BY <1>6, <3>1
  <2>2. chunk'.ptr \in 0 .. Len(chunk'.inner)
    <3>1. chunk'.inner = ChunkAt(bptr) /\ chunk'.ptr = chunk.ptr + 1
      BY <1>6
    <3>2. chunk.ptr + 1 \in 0 .. Len(ChunkAt(bptr))
      BY <1>2
    <3> QED
      BY <3>1, <3>2, Zenon
  <2>3. Len(wire') = 6 * (bptr' - 5) + chunk'.ptr
    BY <1>1, <1>2, <1>4, <2>1, SMTT(30)
  <2>4. HeaderLen' = HeaderLen /\ bptr' # HeaderLen
    BY <1>1 DEF HeaderLen
  <2> QED
    BY <1>1, <2>1, <2>2, <2>3, <2>4 DEF IInv, Sending
<1>9. Held' /\ Raw' /\ Through' /\ Counted' /\ Place' /\ Flushed'
  BY <1>1 DEF IInv, Held, Raw, Through, Counted, Place, Flushed, Waiting
<1> QED
  BY <1>5, <1>7, <1>8, <1>9 DEF IInv

\* poll_flush offers the whole buffer: the first offer of an untouched buffer
\* that is taken whole is the only one that is right, and it is the last.
LEMMA RawWriteStep ==
  ASSUME IInv, NEW k \in 1 .. MaxStream, RawWrite(k)
  PROVE  IInv'
<1> USE DEF RawWrite, call
<1>1. /\ st = "SendingRawBuffer" /\ blen > bptr /\ blen \in Nat /\ bptr \in Nat
      /\ k \in Nat \ {0} /\ k <= blen
      /\ rec.len \in Nat /\ HeaderLen = rec.len + 5 /\ HeaderLen' = HeaderLen
  BY SixPerByte DEF IInv, Place, TypeOK, Accepts, HeaderLen
<1>2. /\ Stream(1, k) \in Seq(Byte) /\ Len(Stream(1, k)) = k
      /\ \A i \in 1 .. k : Stream(1, k)[i] = Src(i)
  <2>1. 1 \in Nat \ {0} /\ k \in Nat /\ 1 <= k + 1 /\ k + 1 - 1 = k
    BY <1>1
  <2>2. /\ Stream(1, k) \in Seq(Byte) /\ Len(Stream(1, k)) = k + 1 - 1
        /\ \A i \in 1 .. (k + 1 - 1) : Stream(1, k)[i] = Src(1 + i - 1)
    BY <2>1, StreamFacts
  <2>3. \A i \in 1 .. k : 1 + i - 1 = i
    BY <2>1
  <2> QED
    BY <2>1, <2>2, <2>3
<1>3. /\ wire \in Seq(Byte) /\ wire' = wire \o Stream(1, k)
      /\ wire' \in Seq(Byte) /\ Len(wire') = Len(wire) + k /\ Len(wire) \in Nat
  <2>1. wire \in Seq(Byte) /\ wire' = wire \o Stream(1, k)
    BY DEF IInv, TypeOK, Byte
  <2> QED
    BY <1>2, <2>1, ConcatFacts
\* A fragmented record leaves nothing to be sent raw, unless bytes came with it.
<1>4. fragmented => Repeats'
  BY <1>1 DEF IInv, Raw, Repeats
<1>5. /\ ~short' => ~short /\ k = blen
      /\ ~fragmented /\ ~short' => bptr = 0 /\ wire = <<>>
  <2>1. ~short' => ~short /\ ~(k < blen)
    BY Zenon
  <2> QED
    BY <1>1, <2>1 DEF IInv, Raw
<1>6. TypeOK'
  <2>1. UNCHANGED <<rec, st, blen, chunk>> /\ UNCHANGED <<timer, op, want, pc>>
    OBVIOUS
  <2>2. UNCHANGED <<taken, shut, failed, fragmented, extra>>
    OBVIOUS
  <2>3. unflushed' \in Nat /\ bptr' \in Nat
    BY <1>1 DEF IInv, TypeOK
  <2>4. short' \in BOOLEAN
    BY Zenon
  <2>5. wire' \in Seq({"src", "len"} \X Nat)
    BY <1>3 DEF Byte
  <2> QED
    BY <2>1, <2>2, <2>3, <2>4, <2>5 DEF IInv, TypeOK
<1>7. InOrder'
  <2>1. ASSUME NEW i \in 1 .. k, Len(wire) + i <= FragmentsLen \/ ~Repeats'
        PROVE  Stream(1, k)[i] = ExpectedByte(Len(wire) + i)
    <3>1. CASE fragmented
      <4>1. Len(wire) >= FragmentsLen
        BY <1>1, <3>1, SixPerByte DEF IInv, Raw
      <4>2. FragmentsLen \in Nat
        BY <1>1, <3>1, SixPerByte DEF IInv
      <4>3. ~(Len(wire) + i <= FragmentsLen)
        BY <1>1, <1>3, <4>1, <4>2
      <4> QED
        BY <1>4, <2>1, <3>1, <4>3, Zenon
    <3>2. CASE ~fragmented
      <4>1. FragmentsLen = 0 /\ ~Repeats'
        BY <1>1, <1>3, <2>1, <3>2, SixPerByte DEF IInv
      <4>2. Len(wire) = 0 /\ Len(wire) + i = i /\ i \in Nat \ {0}
        <5>1. wire = <<>>
          BY <1>5, <3>2, <4>1 DEF Repeats
        <5> QED
          BY <1>1, <5>1
      <4>3. ExpectedByte(i) = Src(i)
        <5>1. ~(i <= FragmentsLen)
          BY <4>1, <4>2
        <5> QED
          BY <3>2, <5>1, Zenon DEF ExpectedByte
      <4> QED
        BY <1>2, <4>2, <4>3
    <3> QED
      BY <3>1, <3>2
  <2> QED
    BY <1>2, <1>3, <2>1, Appended DEF IInv
<1>8. Raw'
  <2>1. CASE fragmented
    BY <1>1, <1>3, <1>4, <2>1 DEF IInv, Raw, Repeats
  <2>2. CASE ~fragmented
    <3>1. ~short' => bptr' = blen /\ Len(wire') = blen
      BY <1>1, <1>3, <1>5, <2>2
    <3> QED
      BY <1>1, <2>2, <3>1 DEF IInv, Raw
  <2> QED
    BY <2>1, <2>2
<1>9. Held' /\ Sending' /\ Through' /\ Counted' /\ Place' /\ Flushed'
  BY <1>1 DEF IInv, Held, Sending, Through, Counted, Place, Flushed, Waiting
<1> QED
  BY <1>6, <1>7, <1>8, <1>9 DEF IInv

LEMMA BehindFragments ==
  ASSUME NEW f \in Nat, NEW w \in Nat, NEW n \in Nat, NEW l \in Nat, l <= n,
         NEW i \in Nat \ {0}, w = f + (n - l)
  PROVE  w + i > f /\ (w + i) - f + l = n + i
  OBVIOUS

LEMMA MovedOn ==
  ASSUME NEW f \in Nat, NEW w \in Nat, NEW n \in Nat, NEW l \in Nat, NEW k \in Nat
  PROVE  /\ w >= f => w + k >= f
         /\ l <= n => l <= n + k
         /\ w = f + (n - l) => w + k = f + ((n + k) - l)
  OBVIOUS

LEMMA WriteThroughStep ==
  ASSUME IInv, NEW k \in 1 .. MaxStream, WriteThrough(k)
  PROVE  IInv'
<1>0. /\ UNCHANGED <<rec, st, blen, bptr, chunk, timer>>
      /\ UNCHANGED <<shut, failed, fragmented, extra, short>>
      /\ op' = "none" /\ want' = 0 /\ pc' = "idle"
      /\ st = "SendingData" /\ taken' = taken + k /\ unflushed' = unflushed + k
      /\ wire' = wire \o Stream(taken + 1, taken + k)
  BY DEF WriteThrough, Return, layer, history
<1>1. /\ st = "SendingData" /\ k \in Nat \ {0} /\ taken \in Nat
      /\ rec.len \in Nat /\ HeaderLen = rec.len + 5 /\ HeaderLen' = HeaderLen
      /\ FragmentsLen \in Nat
      /\ fragmented => FragmentsLen = 6 * rec.len
      /\ ~fragmented => FragmentsLen = 0
  <2>1. k \in Nat \ {0} /\ taken \in Nat
    BY DEF IInv, TypeOK
  <2>2. HeaderLen' = HeaderLen
    BY <1>0 DEF HeaderLen
  <2>3. /\ rec.len \in Nat /\ HeaderLen = rec.len + 5
        /\ fragmented => FragmentsLen = 6 * rec.len
        /\ ~fragmented => FragmentsLen = 0
    BY SixPerByte DEF IInv
  <2> QED
    BY <1>0, <2>1, <2>2, <2>3
<1> DEFINE t == Stream(taken + 1, taken + k)
<1>2. /\ t \in Seq(Byte) /\ Len(t) = k
      /\ \A i \in 1 .. k : t[i] = Src(taken + i)
  <2>1. /\ taken + 1 \in Nat \ {0} /\ taken + k \in Nat /\ taken + 1 <= (taken + k) + 1
        /\ (taken + k) + 1 - (taken + 1) = k
    BY <1>1
  <2>2. /\ Stream(taken + 1, taken + k) \in Seq(Byte)
        /\ Len(Stream(taken + 1, taken + k)) = (taken + k) + 1 - (taken + 1)
        /\ \A i \in 1 .. ((taken + k) + 1 - (taken + 1)) :
             Stream(taken + 1, taken + k)[i] = Src((taken + 1) + i - 1)
    BY <2>1, StreamFacts
  <2>3. \A i \in 1 .. k : (taken + 1) + i - 1 = taken + i
    BY <1>1
  <2> QED
    BY <2>1, <2>2, <2>3
<1> HIDE DEF t
<1>3. /\ wire \in Seq(Byte) /\ wire' = wire \o t
      /\ wire' \in Seq(Byte) /\ Len(wire') = Len(wire) + k /\ Len(wire) \in Nat
  <2>1. wire \in Seq(Byte) /\ wire' = wire \o t
    BY <1>0 DEF IInv, TypeOK, Byte, t
  <2> QED
    <3>1. wire \o t \in Seq(Byte) /\ Len(wire \o t) = Len(wire) + Len(t)
      BY <1>2, <2>1, ConcatFacts
    <3>2. Len(wire) \in Nat
      BY <2>1
    <3> QED
      BY <1>2, <2>1, <3>1, <3>2, Zenon
<1>4. /\ fragmented => Len(wire) >= FragmentsLen /\ HeaderLen <= taken
      /\ fragmented /\ ~Repeats => Len(wire) = FragmentsLen + (taken - HeaderLen)
      /\ ~fragmented /\ ~Repeats => Len(wire) = taken
  BY <1>1 DEF IInv, Through
<1>5. TypeOK'
  <2>1. unflushed' \in Nat /\ taken' \in Nat /\ 0 \in 0 .. MaxStream
    BY <1>0, <1>1, FragmentAssumption DEF IInv, TypeOK
  <2>2. wire' \in Seq({"src", "len"} \X Nat)
    BY <1>3 DEF Byte
  <2> QED
    BY <1>0, <2>1, <2>2 DEF IInv, TypeOK
<1>6. InOrder'
  <2>1. Repeats' = Repeats
    BY <1>0 DEF Repeats
  <2>2. ASSUME NEW i \in 1 .. k, Len(wire) + i <= FragmentsLen \/ ~Repeats'
        PROVE  t[i] = ExpectedByte(Len(wire) + i)
    <3>1. t[i] = Src(taken + i) /\ i \in Nat \ {0}
      BY <1>1, <1>2
    <3>2. CASE fragmented
      <4>1. /\ Len(wire) + i > FragmentsLen
            /\ (Len(wire) + i) - FragmentsLen + HeaderLen = taken + i
        <5>1. Len(wire) = FragmentsLen + (taken - HeaderLen) \/ Len(wire) + i <= FragmentsLen
          BY <1>4, <2>1, <2>2, <3>2, Zenon
        <5>2. Len(wire) \in Nat /\ HeaderLen \in Nat /\ Len(wire) >= FragmentsLen /\ HeaderLen <= taken
          BY <1>1, <1>3, <1>4, <3>2
        <5>3. Len(wire) = FragmentsLen + (taken - HeaderLen)
          BY <1>1, <3>1, <5>1, <5>2
        <5> QED
          <6>1. FragmentsLen \in Nat /\ taken \in Nat /\ i \in Nat \ {0}
            BY <1>1, <3>1
          <6> QED
            BY <5>2, <5>3, <6>1, BehindFragments
      <4>2. ~(Len(wire) + i <= FragmentsLen)
        BY <1>1, <1>3, <3>1, <3>2, <4>1
      <4> QED
        BY <3>1, <3>2, <4>1, <4>2, Zenon DEF ExpectedByte
    <3>3. CASE ~fragmented
      <4>1. ~(Len(wire) + i <= FragmentsLen) /\ Len(wire) + i = taken + i
        <5>1. FragmentsLen = 0 /\ Len(wire) + i > 0
          BY <1>1, <1>3, <3>1, <3>3
        <5>2. Len(wire) = taken
          <6>1. ~Repeats
            BY <1>3, <2>1, <2>2, <3>1, <5>1
          <6> QED
            BY <1>4, <3>3, <6>1
        <5> QED
          BY <1>1, <3>1, <5>1, <5>2
      <4> QED
        BY <3>1, <3>3, <4>1, Zenon DEF ExpectedByte
    <3> QED
      BY <3>2, <3>3
  <2> QED
    BY <1>0, <1>2, <1>3, <2>2, Appended DEF IInv
<1>7. Through'
  <2>1. (Repeats' <=> Repeats) /\ (fragmented' <=> fragmented)
    BY <1>0 DEF Repeats
  <2>2. fragmented =>
          /\ Len(wire') >= 6 * rec.len /\ HeaderLen <= taken'
          /\ ~Repeats => Len(wire') = 6 * rec.len + (taken' - HeaderLen)
    <3>1. SUFFICES ASSUME fragmented
                   PROVE  /\ Len(wire') >= FragmentsLen /\ HeaderLen <= taken'
                          /\ ~Repeats => Len(wire') = FragmentsLen + (taken' - HeaderLen)
      BY <1>1
    <3>2. Len(wire') = Len(wire) + k /\ taken' = taken + k /\ HeaderLen \in Nat
      BY <1>0, <1>1, <1>3, SMTT(30)
    <3>3. Len(wire) >= FragmentsLen /\ HeaderLen <= taken
      BY <1>4, <3>1
    <3>4. ~Repeats => Len(wire) = FragmentsLen + (taken - HeaderLen)
      BY <1>4, <3>1
    <3>5. /\ Len(wire) \in Nat /\ FragmentsLen \in Nat /\ taken \in Nat /\ HeaderLen \in Nat
          /\ k \in Nat
      BY <1>1, <1>3, <3>2
    <3> QED
      BY <3>2, <3>3, <3>4, <3>5, MovedOn
  <2>3. ~fragmented /\ ~Repeats => Len(wire') = taken'
    BY <1>0, <1>1, <1>3, <1>4
  <2>4. rec' = rec /\ HeaderLen' = HeaderLen
    BY <1>0, <1>1
  <2> QED
    BY <2>1, <2>2, <2>3, <2>4, Zenon DEF Through
<1>8. Held' /\ Sending' /\ Raw' /\ Counted' /\ Place' /\ Flushed'
  BY <1>0, <1>1 DEF Held, Sending, Raw, Counted, Place, Flushed, Waiting, SendingBuffer
<1> QED
  BY <1>5, <1>6, <1>7, <1>8 DEF IInv

----------------------------------------------------------------------------
LEMMA InitInv == Init => IInv
<1> SUFFICES ASSUME Init PROVE IInv
  OBVIOUS
<1>1. TypeOK
  <2>1. 0 \in 0 .. MaxStream
    BY FragmentAssumption
  <2>2. /\ wire \in Seq({"src", "len"} \X Nat)
        /\ chunk \in [inner : Seq({"src", "len"} \X Nat), ptr : Nat]
    BY DEF Init, NoChunk
  <2>3. /\ shut \in BOOLEAN /\ failed \in BOOLEAN
        /\ fragmented \in BOOLEAN /\ extra \in BOOLEAN /\ short \in BOOLEAN
    BY Zenon DEF Init
  <2>4. blen \in Nat /\ bptr \in Nat /\ taken \in Nat /\ unflushed \in Nat
    BY DEF Init
  <2> QED
    BY <2>1, <2>2, <2>3, <2>4, Zenon DEF Init, TypeOK, Waiting, SendingBuffer
<1>2. InOrder
  BY DEF Init, InOrder
<1>3. Held /\ Sending /\ Raw /\ Through /\ Counted /\ Place /\ Flushed
  BY DEF Init, Held, Sending, Raw, Through, Counted, Place, Flushed
<1> QED
  BY <1>1, <1>2, <1>3 DEF IInv

LEMMA StepInv == IInv /\ [Next]_vars => IInv'
<1> SUFFICES ASSUME IInv, [Next]_vars PROVE IInv'
  OBVIOUS
<1>1. ASSUME NEW n \in 1 .. MaxStream, CallWrite(n) PROVE IInv'
  BY <1>1, CallWriteStep
<1>2. CASE CallFlush
  BY <1>2, CallFlushStep
<1>3. CASE CallRead
  BY <1>3, CallReadStep
<1>4. CASE CallShutdown \/ TimerElapse \/ TransportPending \/ TransportError
  BY <1>4, OtherCallStep
<1>5. CASE NewChunk
  BY <1>5, NewChunkStep
<1>6. CASE FlushByte \/ LastFlush
  BY <1>6, FlushStep
<1>7. CASE WriteByte
  BY <1>7, WriteByteStep
<1>8. CASE EndMessage
  BY <1>8, EndMessageStep
<1>9. ASSUME NEW k \in 1 .. MaxStream, RawWrite(k) PROVE IInv'
  BY <1>9, RawWriteStep
<1>10. CASE EndRaw
  BY <1>10, EndRawStep
<1>11. CASE Absorb
  BY <1>11, AbsorbStep
<1>12. ASSUME NEW k \in 1 .. MaxStream, WriteThrough(k) PROVE IInv'
  BY <1>12, WriteThroughStep
<1>13. CASE UNCHANGED vars
  <2>1. /\ UNCHANGED data /\ UNCHANGED <<timer, op, want, pc>>
        /\ UNCHANGED <<shut, failed, unflushed>>
    BY <1>13 DEF vars, layer, call, history, data
  <2>2. TypeOK'
    BY <2>1 DEF IInv, TypeOK, data
  <2>3. Place' /\ Flushed'
    BY <2>1 DEF IInv, Place, Flushed, ChunkSent, HeaderLen, data
  <2> QED
    BY <2>1, <2>2, <2>3, DataKept DEF IInv, Held
<1> QED
  BY <1>1, <1>2, <1>3, <1>4, <1>5, <1>6, <1>7, <1>8, <1>9, <1>10, <1>11, <1>12, <1>13, Zenon DEF Next

\* The bookkeeping of the layer is sound, whatever the lengths and the transport.
THEOREM Bookkeeping == Spec => []IInv
BY InitInv, StepInv, PTL DEF Spec

\* The variables keep their types: no offset of poll_flush leaves its range.
THEOREM TypeCorrect == Spec => []TypeOK
<1>1. IInv => TypeOK
  BY DEF IInv
<1> QED
  BY <1>1, Bookkeeping, PTL

\* The wire carries the fragments of the ClientHello, then the rest of the
\* caller's stream, byte for byte; whatever poll_flush repeats of a raw buffer,
\* it repeats it behind the fragments.
THEOREM OrderKept == Spec => []InOrder
<1>1. IInv => InOrder
  BY DEF IInv
<1> QED
  BY <1>1, Bookkeeping, PTL

\* Every byte poll_write answered for is held or has been sent.
THEOREM NoByteLost == Spec => []NothingLost
<1>1. IInv => NothingLost
  <2> SUFFICES ASSUME IInv PROVE NothingLost
    OBVIOUS
  <2>1. /\ fragmented => FragmentsLen = 6 * rec.len
        /\ ~fragmented => FragmentsLen = 0
        /\ taken \in Nat
    BY SixPerByte DEF IInv, TypeOK
  <2> QED
    BY <2>1 DEF IInv, NothingLost, Counted, Held, Through
<1> QED
  BY <1>1, Bookkeeping, PTL

\* Each byte of a fragment leaves before the next one is written.
THEOREM ByteByByte == Spec => []OneByteInFlight
<1>1. IInv => OneByteInFlight
  BY DEF IInv, Flushed, OneByteInFlight
<1> QED
  BY <1>1, Bookkeeping, PTL

----------------------------------------------------------------------------
(***************************************************************************)
(* The layer implements BytePipe: what remains is to read the payload off  *)
(* the wire.  Its k-th byte is at place PayloadAt(k), and there are        *)
(* PayloadLen of them.                                                     *)
(***************************************************************************)
PayloadLen ==
  IF fragmented
  THEN IF Len(wire) <= 6 * rec.len THEN Len(wire) \div 6 ELSE Len(wire) - 5 * rec.len
  ELSE IF Len(wire) <= 5 THEN 0 ELSE Len(wire) - 5

PayloadAt(k) ==
  IF fragmented THEN IF k <= rec.len THEN 6 * k ELSE k + 5 * rec.len ELSE k + 5

\* A write under way was offered while the stream was open, and a caller that
\* does not pipeline offers nothing behind the first record.
Calls ==
  /\ pc = "idle" <=> op = "none"
  /\ pc = "body" => op = "write"
  /\ failed => pc = "idle"
  /\ op = "write" => ~shut /\ want \in 1 .. MaxStream /\ taken + want <= MaxStream
  /\ op = "write" /\ st \in Waiting => taken + want <= HeaderLen
  /\ taken <= MaxStream

PipeInv == IInv /\ Calls /\ ~Repeats

\* What a TLS peer has read.
Known ==
  /\ Payload = [k \in 1 .. PayloadLen |-> 5 + k]
  /\ PayloadLen \in Nat
  /\ PayloadLen > 0 => 5 + PayloadLen <= taken

\* An increasing enumeration of a set of numbers gives each its rank.
LEMMA Enumerated ==
  ASSUME NEW P \in SUBSET Nat, NEW n \in Nat, NEW f \in [1 .. n -> P],
         \A k, m \in 1 .. n : k < m => f[k] < f[m],
         \A i \in P : \E k \in 1 .. n : i = f[k]
  PROVE  /\ Cardinality(P) = n
         /\ \A k \in 1 .. n : Cardinality({j \in P : j <= f[k]}) = k
<1>1. \A k \in 1 .. n : f[k] \in Nat
  OBVIOUS
<1>2. \A k, m \in 1 .. n : f[k] = f[m] => k = m
  <2> SUFFICES ASSUME NEW k \in 1 .. n, NEW m \in 1 .. n, f[k] = f[m], k # m PROVE FALSE
    OBVIOUS
  <2>1. k < m \/ m < k
    OBVIOUS
  <2> QED
    BY <2>1, <1>1
<1>3. f \in Bijection(1 .. n, P)
  BY <1>2 DEF Bijection, Injection, Surjection, IsInjective
<1>4. Cardinality(P) = n
  <2>1. IsFiniteSet(1 .. n) /\ Cardinality(1 .. n) = n
    BY FS_Interval
  <2>2. ExistsBijection(1 .. n, P)
    BY <1>3 DEF ExistsBijection
  <2> QED
    BY <2>1, <2>2, FS_Bijection
<1>5. ASSUME NEW k \in 1 .. n PROVE Cardinality({j \in P : j <= f[k]}) = k
  <2> DEFINE Q == {j \in P : j <= f[k]}
             g == [m \in 1 .. k |-> f[m]]
  <2>1. \A m \in 1 .. k : m \in 1 .. n /\ f[m] <= f[k]
    <3> TAKE m \in 1 .. k
    <3>1. m \in 1 .. n
      OBVIOUS
    <3>2. m = k \/ m < k
      OBVIOUS
    <3> QED
      BY <3>1, <3>2, <1>1
  <2>2. g \in [1 .. k -> Q]
    BY <2>1
  <2>3. \A i \in Q : \E m \in 1 .. k : i = g[m]
    <3> TAKE i \in Q
    <3>1. PICK m \in 1 .. n : i = f[m]
      OBVIOUS
    <3>2. ~(k < m)
      BY <3>1, <1>1
    <3>3. m \in 1 .. k
      BY <3>2
    <3> QED
      BY <3>1, <3>3
  <2>4. \A l, m \in 1 .. k : g[l] = g[m] => l = m
    BY <2>1, <1>2
  <2>5. g \in Bijection(1 .. k, Q)
    <3> HIDE DEF g, Q
    <3> QED
      BY <2>2, <2>3, <2>4 DEF Bijection, Injection, Surjection, IsInjective
  <2>6. IsFiniteSet(1 .. k) /\ Cardinality(1 .. k) = k
    BY FS_Interval
  <2>7. ExistsBijection(1 .. k, Q)
    BY <2>5 DEF ExistsBijection
  <2>8. Cardinality(Q) = k
    <3> HIDE DEF Q
    <3> QED
      BY <2>6, <2>7, FS_Bijection
  <2> QED
    BY <2>8
<1> QED
  BY <1>4, <1>5

\* The bytes of a fragment that are payload.
LEMMA FragmentPayload ==
  ASSUME IInv, NEW i \in Nat \ {0}, i <= 6 * rec.len
  PROVE  /\ IsPayload(FragmentByte(i)) => \E k \in 1 .. rec.len : i = 6 * k
         /\ \A k \in 1 .. rec.len : i = 6 * k => FragmentByte(i) = Src(5 + k)
<1> DEFINE n == (i - 1) \div 6
           r == (i - 1) % 6
<1>1. n \in Nat /\ r \in 0 .. 5 /\ i = 6 * n + r + 1
  OBVIOUS
<1>2. rec.len \in Nat /\ HeaderLen - rec.len = 5
  BY FragmentAssumption DEF IInv, TypeOK, HeaderLen
<1>3. FragmentByte(i) = <<Src(1), Src(2), Src(3), LenByte(0), LenByte(1), Src(5 + n + 1)>>[r + 1]
  BY <1>2 DEF FragmentByte, FragmentSize, ChunkHeaderLen, MsgMaxSize
<1> HIDE DEF n, r
<1>4. IsPayload(FragmentByte(i)) => r = 5
  <2> SUFFICES ASSUME r \in 0 .. 4 PROVE ~IsPayload(FragmentByte(i))
    BY <1>1
  <2>1. FragmentByte(i) \in {Src(1), Src(2), Src(3), LenByte(0), LenByte(1)}
    BY <1>3
  <2> QED
    BY <2>1 DEF IsPayload, Src, LenByte
<1>5. r = 5 => FragmentByte(i) = Src(n + 6)
  BY <1>1, <1>3
<1>6. r = 5 => i = 6 * (n + 1) /\ n + 1 \in 1 .. rec.len
  BY <1>1, <1>2
<1>7. ASSUME NEW k \in 1 .. rec.len, i = 6 * k PROVE r = 5 /\ n = k - 1
  BY <1>1, <1>2, <1>7
<1> QED
  BY <1>1, <1>4, <1>5, <1>6, <1>7

\* The payload's places, and the bytes there.
LEMMA PlacesAre ==
  ASSUME PipeInv
  PROVE  /\ PayloadLen \in Nat
         /\ \A k \in 1 .. PayloadLen : PayloadAt(k) \in PayloadPlaces /\ wire[PayloadAt(k)][2] = 5 + k
         /\ \A i \in PayloadPlaces : \E k \in 1 .. PayloadLen : i = PayloadAt(k)
<1>1. rec.len \in Nat /\ HeaderLen = rec.len + 5 /\ Len(wire) \in Nat /\ fragmented \in BOOLEAN
  BY FragmentAssumption DEF PipeInv, IInv, TypeOK, HeaderLen
<1>2. DOMAIN wire = 1 .. Len(wire)
  BY DEF PipeInv, IInv, TypeOK
<1>3. /\ fragmented => FragmentsLen = 6 * rec.len
      /\ ~fragmented => FragmentsLen = 0
  BY SixPerByte DEF PipeInv, IInv, TypeOK
<1>4. \A i \in 1 .. Len(wire) : wire[i] = ExpectedByte(i)
  BY DEF PipeInv, IInv, InOrder
<1>5. \A j \in Nat : Src(j)[2] = j /\ (IsPayload(Src(j)) <=> j > 5)
  BY DEF Src, IsPayload
<1>6. CASE ~fragmented
  <2>1. \A i \in 1 .. Len(wire) : wire[i] = Src(i)
    BY <1>1, <1>3, <1>4, <1>6 DEF ExpectedByte
  <2>2. PayloadPlaces = {i \in 1 .. Len(wire) : i > 5}
    BY <2>1, <1>1, <1>2, <1>5 DEF PayloadPlaces
  <2>3. PayloadLen = IF Len(wire) <= 5 THEN 0 ELSE Len(wire) - 5
    BY <1>6 DEF PayloadLen
  <2>4. \A k : PayloadAt(k) = k + 5
    BY <1>6 DEF PayloadAt
  <2>5. \A k \in 1 .. PayloadLen : k + 5 \in 1 .. Len(wire) /\ k + 5 > 5
    BY <2>3, <1>1
  <2>6. \A i \in PayloadPlaces : i - 5 \in 1 .. PayloadLen /\ i = (i - 5) + 5
    BY <2>2, <2>3, <1>1
  <2>7. \A k \in 1 .. PayloadLen : wire[k + 5][2] = 5 + k
    BY <2>5, <2>1, <1>5
  <2>8. ASSUME NEW k \in 1 .. PayloadLen
        PROVE PayloadAt(k) \in PayloadPlaces /\ wire[PayloadAt(k)][2] = 5 + k
    <3>1. PayloadAt(k) = k + 5
      BY <2>4
    <3> QED
      BY <3>1, <2>2, <2>5, <2>7
  <2>9. ASSUME NEW i \in PayloadPlaces
        PROVE \E k \in 1 .. PayloadLen : i = PayloadAt(k)
    <3>1. PayloadAt(i - 5) = (i - 5) + 5
      BY <2>4
    <3> QED
      BY <3>1, <2>6
  <2>10. PayloadLen \in Nat
    BY <2>3, <1>1
  <2> QED
    BY <2>8, <2>9, <2>10
<1>7. CASE fragmented
  <2> DEFINE F == 6 * rec.len
  <2>1. \A i \in 1 .. Len(wire) : wire[i] = IF i <= F THEN FragmentByte(i) ELSE Src(i - F + (rec.len + 5))
    BY <1>1, <1>3, <1>4, <1>7 DEF ExpectedByte
  <2>2. PayloadLen = IF Len(wire) <= F THEN Len(wire) \div 6 ELSE Len(wire) - 5 * rec.len
    BY <1>7 DEF PayloadLen
  <2>3. \A k : PayloadAt(k) = IF k <= rec.len THEN 6 * k ELSE k + 5 * rec.len
    BY <1>7 DEF PayloadAt
  <2>4. ASSUME NEW k \in 1 .. PayloadLen
        PROVE PayloadAt(k) \in PayloadPlaces /\ wire[PayloadAt(k)][2] = 5 + k
    <3>1. CASE k <= rec.len
      <4>1. PayloadAt(k) = 6 * k
        BY <3>1, <2>3
      <4>2. 6 * k \in 1 .. Len(wire) /\ 6 * k \in Nat \ {0} /\ 6 * k <= F
        BY <3>1, <2>2, <1>1
      <4>3. wire[6 * k] = FragmentByte(6 * k)
        BY <4>2, <2>1
      <4>4. k \in 1 .. rec.len
        BY <3>1, <1>1, <2>2
      <4>5. FragmentByte(6 * k) = Src(5 + k)
        BY <4>2, <4>4, FragmentPayload DEF PipeInv
      <4>6. 5 + k \in Nat /\ 5 + k > 5
        BY <4>4, <1>1
      <4> QED
        BY <4>1, <4>2, <4>3, <4>5, <4>6, <1>2, <1>5 DEF PayloadPlaces
    <3>2. CASE ~(k <= rec.len)
      <4>1. PayloadAt(k) = k + 5 * rec.len
        BY <3>2, <2>3
      <4>2. PICK n \in Nat, l \in Nat : n = Len(wire) /\ l = rec.len
        BY <1>1
      <4>3. k \in Nat /\ k > l /\ k <= n - 5 * l
        BY <3>2, <4>2, <2>2, <1>1
      <4>4. /\ k + 5 * l \in 1 .. n /\ ~(k + 5 * l <= 6 * l)
            /\ (k + 5 * l) - 6 * l + (l + 5) = 5 + k
            /\ 5 + k \in Nat /\ 5 + k > 5
        BY ONLY n \in Nat, l \in Nat, <4>3
      <4>5. wire[k + 5 * rec.len] = Src(5 + k)
        BY <4>2, <4>4, <2>1
      <4> QED
        BY <4>1, <4>2, <4>4, <4>5, <1>2, <1>5 DEF PayloadPlaces
    <3> QED
      BY <3>1, <3>2
  <2>5. ASSUME NEW i \in PayloadPlaces
        PROVE \E k \in 1 .. PayloadLen : i = PayloadAt(k)
    <3>1. i \in 1 .. Len(wire) /\ IsPayload(wire[i])
      BY <1>2 DEF PayloadPlaces
    <3>2. CASE i <= F
      <4>1. i \in Nat \ {0} /\ IsPayload(FragmentByte(i))
        BY <3>1, <3>2, <2>1, <1>1
      <4>2. PICK k \in 1 .. rec.len : i = 6 * k
        BY <3>2, <4>1, FragmentPayload DEF PipeInv
      <4>3. k \in 1 .. PayloadLen
        BY <4>2, <3>1, <2>2, <1>1, SMTT(30)
      <4>4. PayloadAt(k) = 6 * k
        BY <2>3, <1>1
      <4> QED
        BY <4>2, <4>3, <4>4
    <3>3. CASE ~(i <= F)
      <4>1. i - 5 * rec.len \in 1 .. PayloadLen /\ ~(i - 5 * rec.len <= rec.len)
        BY <3>1, <3>3, <2>2, <1>1, SMTT(30)
      <4>2. PayloadAt(i - 5 * rec.len) = i
        BY <4>1, <2>3, <3>1, <1>1
      <4> QED
        BY <4>1, <4>2
    <3> QED
      BY <3>2, <3>3
  <2>6. PayloadLen \in Nat
    BY <2>2, <1>1
  <2> QED
    BY <2>4, <2>5, <2>6
<1> QED
  BY <1>1, <1>6, <1>7

\* A TLS peer reads the caller's payload, byte for byte, and never more than
\* poll_write has answered for.
LEMMA PayloadKnown ==
  ASSUME PipeInv
  PROVE  Known
<1>1. PayloadLen \in Nat
  BY PlacesAre
<1>2. Len(wire) \in Nat /\ DOMAIN wire = 1 .. Len(wire)
  BY DEF PipeInv, IInv, TypeOK
<1>3. \A k \in 1 .. PayloadLen : PayloadAt(k) \in PayloadPlaces /\ wire[PayloadAt(k)][2] = 5 + k
  BY PlacesAre
<1>4. PayloadPlaces \in SUBSET Nat
  BY <1>2 DEF PayloadPlaces
<1>5. PICK n \in Nat : n = PayloadLen
  BY <1>1
<1>6. PICK P \in SUBSET Nat : P = PayloadPlaces
  BY <1>4
<1>7. PICK at : at = [k \in 1 .. n |-> PayloadAt(k)]
  OBVIOUS
<1>8. \A k \in 1 .. n : at[k] = PayloadAt(k)
  BY <1>7
<1>9. at \in [1 .. n -> P]
  BY <1>3, <1>5, <1>6, <1>7
<1>10. \A k, m \in 1 .. n : k < m => at[k] < at[m]
  <2>1. rec.len \in Nat /\ fragmented \in BOOLEAN
    BY FragmentAssumption DEF PipeInv, IInv, TypeOK
  <2> QED
    BY <2>1, <1>8 DEF PayloadAt
<1>11. \A i \in P : \E k \in 1 .. n : i = at[k]
  BY <1>5, <1>6, <1>8, PlacesAre
<1>12. /\ Cardinality(P) = n
       /\ \A k \in 1 .. n : Cardinality({j \in P : j <= at[k]}) = k
  BY <1>9, <1>10, <1>11, Enumerated
<1>13. ASSUME NEW k \in 1 .. n
       PROVE  wire[CHOOSE i \in P : PayloadUpTo(i) = k][2] = 5 + k
  <2>1. at[k] \in P /\ PayloadUpTo(at[k]) = k
    BY <1>6, <1>9, <1>12 DEF PayloadUpTo
  <2>2. ASSUME NEW i \in P, PayloadUpTo(i) = k PROVE i = at[k]
    <3>1. PICK m \in 1 .. n : i = at[m]
      BY <1>11
    <3>2. PayloadUpTo(i) = m
      BY <1>6, <1>12, <3>1 DEF PayloadUpTo
    <3> QED
      BY <2>2, <3>1, <3>2
  <2>3. (CHOOSE i \in P : PayloadUpTo(i) = k) = at[k]
    BY <2>1, <2>2
  <2> QED
    BY <2>3, <1>3, <1>5, <1>8
<1>14. Payload = [k \in 1 .. n |-> 5 + k]
  <2>1. Payload = [k \in 1 .. n |-> wire[CHOOSE i \in P : PayloadUpTo(i) = k][2]]
    BY <1>6, <1>12 DEF Payload
  <2> QED
    BY <2>1, <1>13
<1>15. PayloadLen > 0 => 5 + PayloadLen <= taken
  <2>1. /\ rec.len \in Nat /\ HeaderLen = rec.len + 5 /\ taken \in Nat /\ blen \in Nat /\ bptr \in Nat
        /\ st \in Waiting \cup SendingBuffer \cup {"SendingData"} /\ fragmented \in BOOLEAN
    BY FragmentAssumption DEF PipeInv, IInv, TypeOK, HeaderLen
  <2>2. CASE st \in Waiting
    <3>1. Len(wire) = 0
      BY <2>2 DEF PipeInv, IInv, Held
    <3> QED
      BY <2>1, <3>1 DEF PayloadLen
  <2>3. CASE st = "SendingMessage"
    <3>1. fragmented /\ HeaderLen <= taken
      BY <2>3, <2>1 DEF PipeInv, IInv, Sending, Counted
    <3>2. Len(wire) <= 6 * rec.len
      <4>1. CASE wire = <<>>
        BY <4>1, <2>1
      <4>2. CASE wire # <<>>
        <5>1. /\ bptr \in 5 .. HeaderLen /\ chunk.inner = ChunkAt(bptr) /\ chunk.ptr \in 0 .. Len(chunk.inner)
              /\ Len(wire) = 6 * (bptr - 5) + chunk.ptr /\ (bptr = HeaderLen => chunk.ptr = 0)
          BY <2>3, <4>2 DEF PipeInv, IInv, Sending
        <5>2. bptr < HeaderLen => Len(ChunkAt(bptr)) = 6
          BY <5>1, ChunkFacts DEF PipeInv, IInv
        <5>3. chunk.ptr \in Nat
          BY DEF PipeInv, IInv, TypeOK
        <5>4. bptr < HeaderLen => chunk.ptr <= 6
          <6>1. ASSUME bptr < HeaderLen PROVE chunk.ptr \in 0 .. 6
            BY <5>1, <5>2, <6>1
          <6> QED
            BY <5>3, <6>1
        <5>5. PICK n0 \in Nat, b \in Nat, c \in Nat, l \in Nat :
                n0 = Len(wire) /\ b = bptr /\ c = chunk.ptr /\ l = rec.len
          BY <1>2, <2>1, <5>3
        <5>6. n0 = 6 * (b - 5) + c /\ b \in 5 .. l + 5 /\ (b = l + 5 => c = 0) /\ (b < l + 5 => c <= 6)
          BY <2>1, <5>1, <5>4, <5>5
        <5>7. n0 <= 6 * l
          BY ONLY <5>6, n0 \in Nat, b \in Nat, c \in Nat, l \in Nat
        <5> QED
          BY <5>5, <5>7
      <4> QED
        BY <4>1, <4>2
    <3> QED
      BY <1>2, <2>1, <3>1, <3>2 DEF PayloadLen
  <2>4. CASE st = "SendingRawBuffer"
    <3>1. blen = taken /\ (fragmented => HeaderLen <= taken /\ Len(wire) = 6 * rec.len)
          /\ (~fragmented => Len(wire) = 0 \/ Len(wire) = taken)
      BY <2>4, <2>1 DEF PipeInv, IInv, Raw, Counted, Repeats
    <3>2. PICK n0 \in Nat, l \in Nat, t \in Nat : n0 = Len(wire) /\ l = rec.len /\ t = taken
      BY <1>2, <2>1
    <3>3. CASE fragmented
      <4>1. l + 5 <= t /\ n0 = 6 * l
        BY <3>1, <3>2, <3>3, <2>1
      <4>2. PayloadLen = IF n0 <= 6 * l THEN n0 \div 6 ELSE n0 - 5 * l
        BY <3>2, <3>3 DEF PayloadLen
      <4> QED
        BY <3>2, <4>1, <4>2
    <3>4. CASE ~fragmented
      <4>1. n0 = 0 \/ n0 = t
        BY <3>1, <3>2, <3>4
      <4>2. PayloadLen = IF n0 <= 5 THEN 0 ELSE n0 - 5
        BY <3>2, <3>4 DEF PayloadLen
      <4> QED
        BY <3>2, <4>1, <4>2
    <3> QED
      BY <3>3, <3>4
  <2>5. CASE st = "SendingData"
    <3>1. /\ fragmented => HeaderLen <= taken /\ Len(wire) = 6 * rec.len + (taken - HeaderLen)
          /\ ~fragmented => Len(wire) = taken
      BY <2>5, <2>1 DEF PipeInv, IInv, Through
    <3>2. PICK n0 \in Nat, l \in Nat, t \in Nat : n0 = Len(wire) /\ l = rec.len /\ t = taken
      BY <1>2, <2>1
    <3>3. CASE fragmented
      <4>1. l + 5 <= t /\ n0 = 6 * l + (t - (l + 5))
        BY <3>1, <3>2, <3>3, <2>1
      <4>2. PayloadLen = IF n0 <= 6 * l THEN n0 \div 6 ELSE n0 - 5 * l
        BY <3>2, <3>3 DEF PayloadLen
      <4> QED
        BY <3>2, <4>1, <4>2
    <3>4. CASE ~fragmented
      BY <1>2, <2>1, <3>1, <3>4 DEF PayloadLen
    <3> QED
      BY <3>3, <3>4
  <2> QED
    BY <2>1, <2>2, <2>3, <2>4, <2>5 DEF SendingBuffer
<1> QED
  BY <1>1, <1>5, <1>14, <1>15 DEF Known

\* With whole writes, and nothing behind the ClientHello, each step keeps the
\* calls in order and poll_flush repeats nothing.
LEMMA CallsStep ==
  ASSUME ~ShortWrites, ~Trailing, PipeInv, [Next]_vars
  PROVE  Calls' /\ ~Repeats'
<1>1. /\ taken \in Nat /\ want \in 0 .. MaxStream /\ MaxStream \in Nat /\ rec.len \in Nat
      /\ HeaderLen = rec.len + 5 /\ blen \in Nat /\ bptr \in Nat
  BY FragmentAssumption DEF PipeInv, IInv, TypeOK, HeaderLen
<1>2. HeaderLen' = HeaderLen
  <2>1. rec' = rec
    BY DEF Next, vars, CallWrite, CallFlush, CallRead, CallShutdown, TimerElapse, NewChunk, FlushByte, WriteByte,
           EndMessage, RawWrite, EndRaw, LastFlush, Absorb, WriteThrough, TransportPending, TransportError
  <2> QED
    BY <2>1 DEF HeaderLen
<1>3. Calls /\ ~Repeats /\ Place /\ Counted /\ Held
  BY DEF PipeInv, IInv
<1>4. ASSUME NEW n \in 1 .. MaxStream, CallWrite(n) PROVE Calls' /\ ~Repeats'
  <2>1. /\ ~shut /\ ~failed /\ taken + n <= MaxStream /\ (st \in Waiting => taken + n <= HeaderLen)
        /\ op' = "write" /\ want' = n /\ pc' # "idle" /\ UNCHANGED <<shut, failed, taken, st, history>>
    BY <1>4 DEF CallWrite, Idle, MayWrite, FlushEntry, layer
  <2> QED
    BY <1>1, <1>2, <1>3, <2>1 DEF Calls, Repeats, history
<1>5. CASE CallFlush
  <2>1. op' = "flush" /\ pc' \in {"msg", "raw", "last"} /\ ~failed /\ UNCHANGED <<failed, taken, history>>
    BY <1>5 DEF CallFlush, Idle, FlushEntry
  <2> QED
    BY <1>3, <2>1 DEF Calls, Repeats, history
<1>6. CASE CallRead
  <2>1. ~failed /\ pc = "idle" /\ UNCHANGED <<failed, taken, history>>
    BY <1>6 DEF CallRead, Idle
  <2>2. \/ op' = "read" /\ pc' \in {"msg", "raw", "last"}
        \/ op' = op /\ pc' = pc
    BY <1>6 DEF CallRead, FlushEntry, call
  <2>3. op = "none"
    BY <1>3, <2>1 DEF Calls
  <2> QED
    BY <1>3, <2>1, <2>2, <2>3 DEF Calls, Repeats, history
<1>7. CASE CallShutdown
  <2>1. pc = "idle" /\ UNCHANGED <<pc, op, failed, taken, history>>
    BY <1>7 DEF CallShutdown, Idle, call
  <2>2. op = "none"
    BY <1>3, <2>1 DEF Calls
  <2> QED
    BY <1>3, <2>1, <2>2 DEF Calls, Repeats, history
<1>8. CASE TimerElapse \/ UNCHANGED vars
  <2>1. UNCHANGED <<pc, op, want, st, shut, failed, taken, history>>
    BY <1>8 DEF TimerElapse, vars, call, layer
  <2> QED
    BY <1>2, <1>3, <2>1 DEF Calls, Repeats, history
<1>9. CASE NewChunk \/ FlushByte \/ WriteByte \/ EndMessage \/ EndRaw
  <2>1. /\ UNCHANGED <<op, want, shut, failed, taken, history>>
        /\ pc \in {"msg", "byte", "raw"} /\ pc' \in {"msg", "byte", "raw", "last"}
    BY <1>9 DEF NewChunk, FlushByte, WriteByte, EndMessage, EndRaw, InMessage, call
  <2>2. st \in Waiting \/ st' \notin Waiting
    BY <1>9 DEF NewChunk, FlushByte, WriteByte, EndMessage, EndRaw, Waiting, layer
  <2> QED
    BY <1>2, <1>3, <2>1, <2>2 DEF Calls, Repeats, history
<1>10. ASSUME NEW k \in 1 .. MaxStream, RawWrite(k) PROVE Calls' /\ ~Repeats'
  <2>1. /\ UNCHANGED <<pc, op, want, st, shut, failed, taken, extra>>
        /\ short' = (short \/ k < blen) /\ k = blen
    BY <1>10 DEF RawWrite, Accepts, call
  <2>2. ~(k < blen)
    BY <1>1, <2>1
  <2> QED
    BY <1>2, <1>3, <2>1, <2>2 DEF Calls, Repeats
<1>11. CASE LastFlush
  <2>1. /\ pc = "last" /\ UNCHANGED <<st, shut, failed, taken, history>>
        /\ \/ op = "write" /\ pc' = "body" /\ op' = op /\ want' = want
           \/ pc' = "idle" /\ op' = "none"
    BY <1>11 DEF LastFlush, Return, layer
  <2> QED
    BY <1>2, <1>3, <2>1 DEF Calls, Repeats, history
<1>12. CASE Absorb
  <2>1. /\ pc = "body" /\ op = "write"
        /\ pc' = "idle" /\ op' = "none" /\ UNCHANGED <<failed, short>> /\ taken' = taken + want
    BY <1>3, <1>12 DEF Absorb, Return, Calls
  <2>2. ~failed /\ taken' <= MaxStream
    BY <1>1, <1>3, <2>1 DEF Calls
  <2>3. st \in Waiting
    BY <1>3, <1>12, <2>1 DEF Absorb, Place, PipeInv, IInv, TypeOK
  <2>4. blen' <= HeaderLen
    BY <1>1, <1>3, <1>12, <2>1, <2>3 DEF Absorb, Calls, Counted, Waiting
  <2>5. ~(blen' > HeaderLen)
    BY <1>1, <1>12, <2>3, <2>4 DEF Absorb
  <2>6. extra' = (extra \/ (st' = "SendingMessage" /\ blen' > HeaderLen))
    BY <1>12 DEF Absorb
  <2> QED
    BY <1>3, <2>1, <2>2, <2>5, <2>6 DEF Calls, Repeats
<1>13. ASSUME NEW k \in 1 .. MaxStream, WriteThrough(k) PROVE Calls' /\ ~Repeats'
  <2>1. /\ pc = "body" /\ op = "write" /\ k = want
        /\ pc' = "idle" /\ op' = "none" /\ UNCHANGED <<failed, history>> /\ taken' = taken + k
    BY <1>3, <1>13 DEF WriteThrough, Return, Calls, Accepts
  <2>2. ~failed /\ taken' <= MaxStream
    BY <1>1, <1>3, <2>1 DEF Calls
  <2> QED
    BY <1>3, <2>1, <2>2 DEF Calls, Repeats, history
<1>14. CASE TransportPending \/ TransportError
  <2>1. pc' = "idle" /\ op' = "none" /\ UNCHANGED <<taken, history>>
    BY <1>14 DEF TransportPending, TransportError, Return
  <2> QED
    BY <1>3, <2>1 DEF Calls, Repeats, history
<1> QED
  BY <1>4, <1>5, <1>6, <1>7, <1>8, <1>9, <1>10, <1>11, <1>12, <1>13, <1>14, Zenon DEF Next

\* What the peer has read only grows.
LEMMA PayloadGrows ==
  ASSUME PipeInv, PipeInv', [Next]_vars
  PROVE  /\ PayloadLen <= PayloadLen'
         /\ taken <= taken'
         /\ \/ UNCHANGED <<taken, wire, fragmented>>
            \/ ~(shut \/ failed) /\ ~(shut' \/ failed')
<1>1. /\ rec.len \in Nat /\ rec'.len = rec.len /\ taken \in Nat /\ blen \in Nat /\ want \in Nat
      /\ wire \in Seq(Byte) /\ wire' \in Seq(Byte) /\ fragmented \in BOOLEAN /\ fragmented' \in BOOLEAN
  <2>1. rec' = rec
    BY DEF Next, vars, CallWrite, CallFlush, CallRead, CallShutdown, TimerElapse, NewChunk, FlushByte, WriteByte,
           EndMessage, RawWrite, EndRaw, LastFlush, Absorb, WriteThrough, TransportPending, TransportError
  <2> QED
    BY <2>1, FragmentAssumption DEF PipeInv, IInv, TypeOK, Byte
<1>2. Calls /\ Place /\ Held
  BY DEF PipeInv, IInv
<1>3. ASSUME taken <= taken', Len(wire) <= Len(wire'),
             Len(wire) = 0 \/ fragmented' = fragmented
      PROVE  PayloadLen <= PayloadLen'
  <2>1. PICK n \in Nat, m \in Nat, l \in Nat : n = Len(wire) /\ m = Len(wire') /\ l = rec.len
    BY <1>1
  <2>2. PayloadLen = IF fragmented THEN IF n <= 6 * l THEN n \div 6 ELSE n - 5 * l
                     ELSE IF n <= 5 THEN 0 ELSE n - 5
    BY <2>1 DEF PayloadLen
  <2>3. PayloadLen' = IF fragmented' THEN IF m <= 6 * l THEN m \div 6 ELSE m - 5 * l
                      ELSE IF m <= 5 THEN 0 ELSE m - 5
    BY <1>1, <2>1 DEF PayloadLen
  <2>4. n <= m /\ (n = 0 \/ fragmented' = fragmented)
    BY <1>3, <2>1
  <2>5. PICK p : p = PayloadLen
    OBVIOUS
  <2>6. PICK q : q = PayloadLen'
    OBVIOUS
  <2>7. p <= q
    <3>1. CASE n = 0
      BY <3>1, <2>2, <2>3, <2>5, <2>6
    <3>2. CASE n # 0 /\ fragmented
      <4>1. p = IF n <= 6 * l THEN n \div 6 ELSE n - 5 * l
        BY <3>2, <2>2, <2>5
      <4>2. q = IF m <= 6 * l THEN m \div 6 ELSE m - 5 * l
        BY <3>2, <2>3, <2>4, <2>6
      <4> QED
        BY ONLY <4>1, <4>2, <2>4, n \in Nat, m \in Nat, l \in Nat
    <3>3. CASE n # 0 /\ ~fragmented
      BY <3>3, <2>2, <2>3, <2>4, <2>5, <2>6
    <3> QED
      BY <3>1, <3>2, <3>3
  <2> QED
    BY <2>5, <2>6, <2>7
<1>4. CASE UNCHANGED <<taken, wire, fragmented>>
  BY <1>1, <1>3, <1>4
<1>5. CASE WriteByte
  <2>1. wire' = Append(wire, chunk.inner[chunk.ptr + 1]) /\ ~shut /\ pc = "byte"
        /\ UNCHANGED <<taken, shut, failed, fragmented>>
    BY <1>5 DEF WriteByte, history
  <2>2. ~failed
    BY <1>2, <2>1 DEF Calls
  <2>3. Len(wire') = Len(wire) + 1
    BY <1>1, <2>1
  <2> QED
    BY <1>1, <1>3, <2>1, <2>2, <2>3
<1>6. ASSUME NEW k \in 1 .. MaxStream, RawWrite(k)
      PROVE /\ PayloadLen <= PayloadLen' /\ taken <= taken'
            /\ ~(shut \/ failed) /\ ~(shut' \/ failed')
  <2>1. wire' = wire \o Stream(1, k) /\ ~shut /\ pc = "raw" /\ UNCHANGED <<taken, shut, failed, fragmented>>
    BY <1>6 DEF RawWrite
  <2>2. ~failed
    BY <1>2, <2>1 DEF Calls
  <2>3. Len(wire) <= Len(wire')
    <3>1. k \in Nat /\ 1 \in Nat \ {0}
      OBVIOUS
    <3>2. Stream(1, k) \in Seq(Byte)
      BY <3>1, StreamFacts
    <3> QED
      BY <1>1, <2>1, <3>2, ConcatFacts
  <2> QED
    BY <1>1, <1>3, <2>1, <2>2, <2>3
<1>7. ASSUME NEW k \in 1 .. MaxStream, WriteThrough(k)
      PROVE /\ PayloadLen <= PayloadLen' /\ taken <= taken'
            /\ ~(shut \/ failed) /\ ~(shut' \/ failed')
  <2>1. wire' = wire \o Stream(taken + 1, taken + k) /\ pc = "body" /\ taken' = taken + k
        /\ UNCHANGED <<shut, failed, fragmented>>
    BY <1>7 DEF WriteThrough, history
  <2>2. ~failed /\ ~shut
    BY <1>2, <2>1 DEF Calls
  <2>3. Len(wire) <= Len(wire')
    <3>1. taken + k \in Nat /\ taken + 1 \in Nat \ {0} /\ taken + 1 <= taken + k + 1
      BY <1>1
    <3>2. Stream(taken + 1, taken + k) \in Seq(Byte)
      BY <3>1, StreamFacts
    <3> QED
      BY <1>1, <2>1, <3>2, ConcatFacts
  <2> QED
    BY <1>1, <1>3, <2>1, <2>2, <2>3
<1>8. CASE Absorb
  <2>1. wire' = wire /\ taken' = taken + want /\ UNCHANGED <<shut, failed>> /\ pc = "body" /\ st # "SendingData"
    BY <1>8 DEF Absorb
  <2>2. ~failed /\ ~shut
    BY <1>2, <2>1 DEF Calls
  <2>3. wire = <<>>
    BY <1>2, <2>1 DEF Place, Held, PipeInv, IInv, TypeOK
  <2> QED
    BY <1>1, <1>3, <2>1, <2>2, <2>3
<1>9. CASE ~WriteByte /\ ~Absorb /\ ~(\E k \in 1 .. MaxStream : RawWrite(k)) /\ ~(\E k \in 1 .. MaxStream : WriteThrough(k))
  <2>1. UNCHANGED <<taken, wire, fragmented>>
    BY <1>9 DEF Next, vars, history, CallWrite, CallFlush, CallRead, CallShutdown, TimerElapse, NewChunk, FlushByte,
           EndMessage, EndRaw, LastFlush, TransportPending, TransportError
  <2> QED
    BY <2>1, <1>4
<1> QED
  BY <1>5, <1>6, <1>7, <1>8, <1>9

\* A sequence that goes on as another one begins is the two in a row.
LEMMA Joined ==
  ASSUME NEW a \in Seq(Nat), NEW b \in Seq(Nat), NEW c \in Seq(Nat),
         Len(b) = Len(a) + Len(c),
         \A i \in 1 .. Len(a) : b[i] = a[i],
         \A i \in 1 .. Len(c) : b[Len(a) + i] = c[i]
  PROVE  b = a \o c
<1>1. a \o c \in Seq(Nat) /\ Len(a \o c) = Len(a) + Len(c)
  OBVIOUS
<1>2. ASSUME NEW i \in 1 .. Len(b) PROVE b[i] = (a \o c)[i]
  <2>1. CASE i <= Len(a)
    BY <2>1
  <2>2. CASE ~(i <= Len(a))
    <3>1. i - Len(a) \in 1 .. Len(c) /\ Len(a) + (i - Len(a)) = i
      BY <2>2
    <3>2. b[i] = c[i - Len(a)]
      BY <3>1
    <3>3. (a \o c)[i] = c[i - Len(a)]
      BY <3>1
    <3> QED
      BY <3>2, <3>3
  <2> QED
    BY <2>1, <2>2
<1>3. PICK t : t = a \o c
  OBVIOUS
<1>4. t \in Seq(Nat) /\ Len(b) = Len(t) /\ \A i \in 1 .. Len(b) : b[i] = t[i]
  BY <1>1, <1>2, <1>3
<1>5. b = t
  BY <1>4, SeqEqual, Zenon
<1> QED
  BY <1>3, <1>5

\* The places in the caller's stream of n payload bytes behind place d.
Places(d, n) == [k \in 1 .. n |-> d + k]

LEMMA PlacesFacts ==
  ASSUME NEW d \in Nat, NEW n \in Nat
  PROVE  /\ Places(d, n) \in Seq(Nat)
         /\ Len(Places(d, n)) = n
         /\ \A i \in 1 .. n : Places(d, n)[i] = d + i
<1>1. \A k \in 1 .. n : d + k \in Nat
  OBVIOUS
<1> QED
  BY <1>1, SMTT(30) DEF Places

\* The next q bytes of the payload, behind the first p.
LEMMA PlacesMore ==
  ASSUME NEW p \in Nat, NEW q \in Nat
  PROVE  Places(5, p + q) = Places(5, p) \o Places(5 + p, q)
<1>1. PICK a, b, c : a = Places(5, p) /\ b = Places(5, p + q) /\ c = Places(5 + p, q)
  OBVIOUS
<1> 5 \in Nat /\ p + q \in Nat /\ 5 + p \in Nat
  OBVIOUS
<1>2. a \in Seq(Nat) /\ Len(a) = p /\ \A i \in 1 .. p : a[i] = 5 + i
  BY <1>1, PlacesFacts, Zenon
<1>3. b \in Seq(Nat) /\ Len(b) = p + q /\ \A i \in 1 .. p + q : b[i] = 5 + i
  BY <1>1, PlacesFacts, Zenon
<1>4. c \in Seq(Nat) /\ Len(c) = q /\ \A i \in 1 .. q : c[i] = 5 + p + i
  BY <1>1, PlacesFacts, Zenon
<1>5. Len(b) = Len(a) + Len(c)
  BY ONLY <1>2, <1>3, <1>4
<1>6. \A i \in 1 .. Len(a) : b[i] = a[i]
  BY ONLY <1>2, <1>3, p \in Nat, q \in Nat
<1>7. \A i \in 1 .. Len(c) : b[Len(a) + i] = c[i]
  BY ONLY <1>2, <1>3, <1>4, p \in Nat, q \in Nat
<1>8. b = a \o c
  BY <1>2, <1>3, <1>4, <1>5, <1>6, <1>7, Joined, Zenon
<1> QED
  BY <1>1, <1>8, Zenon

\* Each step of the layer is one of the pipe.
LEMMA PipeStep ==
  ASSUME PipeInv, PipeInv', Known, Known', [Next]_vars
  PROVE  [Pipe!Next]_(Pipe!vars)
<1> DEFINE closed == shut \/ failed
<1>1. /\ PayloadLen <= PayloadLen' /\ taken <= taken'
      /\ \/ UNCHANGED <<taken, wire, fragmented>>
         \/ ~closed /\ ~closed'
  BY PayloadGrows
<1>2. taken \in Nat /\ taken' \in Nat /\ MaxStream \in Nat /\ taken' <= MaxStream /\ closed \in BOOLEAN /\ closed' \in BOOLEAN
  BY FragmentAssumption DEF PipeInv, IInv, TypeOK, Calls
<1>3. CASE UNCHANGED <<taken, wire, fragmented>>
  <2>1. Payload' = Payload
    BY <1>3 DEF Payload, PayloadPlaces, PayloadUpTo, IsPayload
  <2>2. closed => closed'
    BY DEF Next, vars, history, CallWrite, CallFlush, CallRead, CallShutdown, TimerElapse, NewChunk, FlushByte, WriteByte,
           EndMessage, RawWrite, EndRaw, LastFlush, Absorb, WriteThrough, TransportPending, TransportError
  <2>3. CASE closed' = closed
    BY <1>3, <2>1, <2>3 DEF Pipe!vars
  <2>4. CASE ~closed /\ closed'
    <3>1. closed' = TRUE
      BY <2>4
    <3> QED
      BY <1>3, <2>1, <2>4, <3>1 DEF Pipe!Next, Pipe!Close
  <2> QED
    BY <1>2, <2>2, <2>3, <2>4
<1>4. CASE ~closed /\ ~closed'
  <2>1. PICK p \in Nat, r \in Nat : p = PayloadLen /\ r = PayloadLen'
    BY DEF Known
  <2>2. PICK q \in Nat : r = p + q
    <3>1. p <= r
      BY <1>1, <2>1
    <3>2. r - p \in Nat /\ r = p + (r - p)
      BY <3>1
    <3> QED
      BY <3>2
  <2>3. Payload = [k \in 1 .. p |-> 5 + k] /\ Payload' = [k \in 1 .. p + q |-> 5 + k]
    BY <2>1, <2>2 DEF Known
  <2>4. Len(Payload) = p /\ Payload' = Payload \o [i \in 1 .. q |-> 5 + Len(Payload) + i]
    <3>1. Payload = Places(5, p) /\ Payload' = Places(5, p + q)
      BY <2>3, Zenon DEF Places
    <3>2. Len(Places(5, p)) = p
      BY PlacesFacts
    <3>3. Payload' = Payload \o Places(5 + p, q)
      BY <3>1, PlacesMore
    <3> QED
      BY <3>1, <3>2, <3>3, Zenon DEF Places
  <2>5. q > 0 => 5 + p + q <= taken'
    BY <2>1, <2>2 DEF Known
  <2>6. PICK n \in Nat : taken' = taken + n
    <3>1. PICK t \in Nat, u \in Nat : t = taken /\ u = taken' /\ t <= u
      BY <1>1, <1>2
    <3>2. t <= u
      BY <3>1
    <3>3. u - t \in Nat /\ u = t + (u - t)
      BY <3>2
    <3> QED
      BY <3>1, <3>3
  <2>7. n > 0 => n \in 1 .. MaxStream /\ Pipe!Accept(n)
    BY <1>2, <2>6 DEF Pipe!Accept
  <2>8. q > 0 => q \in 1 .. MaxStream /\ Pipe!Deliver(q)
    BY <1>2, <2>4, <2>5 DEF Pipe!Deliver
  <2>9. n = 0 => taken' = taken
    BY <1>2, <2>6
  <2>10. q = 0 => Payload' = Payload
    BY <2>3
  <2>11. UNCHANGED closed
    BY <1>4, <1>2
  <2>12. CASE n = 0 /\ q = 0
    BY <2>9, <2>10, <2>11, <2>12 DEF Pipe!vars
  <2>13. CASE n > 0 \/ q > 0
    <3>1. Pipe!Transfer
      BY <1>4, <2>7, <2>8, <2>9, <2>10, <2>11, <2>13 DEF Pipe!Transfer
    <3> QED
      BY <3>1 DEF Pipe!Next
  <2> QED
    BY <2>12, <2>13
<1> QED
  BY <1>1, <1>3, <1>4

\* The layer starts as the pipe does.
LEMMA InitPipe == Init => PipeInv /\ Pipe!Init
<1> SUFFICES ASSUME Init PROVE PipeInv /\ Pipe!Init
  OBVIOUS
<1>1. IInv
  BY InitInv
<1>2. Calls /\ ~Repeats
  BY FragmentAssumption DEF Init, Calls, Repeats
<1>3. PipeInv
  BY <1>1, <1>2 DEF PipeInv
<1>4. Payload = <<>>
  <2>1. PayloadPlaces = {}
    BY DEF Init, PayloadPlaces
  <2>2. Cardinality(PayloadPlaces) = 0
    BY <2>1, FS_EmptySet
  <2> QED
    BY <2>2 DEF Payload
<1>5. taken = 0 /\ (shut \/ failed) = FALSE
  BY DEF Init
<1> QED
  BY <1>3, <1>4, <1>5 DEF Pipe!Init

\* What the mapping to the pipe rests on is kept by each step.
LEMMA PipeInvStep ==
  ASSUME ~ShortWrites, ~Trailing, PipeInv, [Next]_vars
  PROVE  PipeInv'
<1>1. IInv'
  BY StepInv DEF PipeInv
<1> QED
  BY <1>1, CallsStep DEF PipeInv

\* On a transport that takes writes whole, for a caller that does not
\* pipeline, the layer is a pipe.
THEOREM LayerIsPipe ==
  ASSUME ~ShortWrites, ~Trailing
  PROVE  Spec => Pipe!SafeSpec
<1>1. Init => PipeInv /\ Pipe!Init
  BY InitPipe
<1>2. PipeInv /\ [Next]_vars => PipeInv'
  BY PipeInvStep
<1>3. Spec => []PipeInv
  BY <1>1, <1>2, PTL DEF Spec
<1>4. PipeInv => Known
  BY PayloadKnown
<1>5. Spec => []Known
  BY <1>3, <1>4, PTL
<1>6. PipeInv /\ PipeInv' /\ Known /\ Known' /\ [Next]_vars => [Pipe!Next]_(Pipe!vars)
  BY PipeStep
<1> QED
  BY <1>1, <1>3, <1>5, <1>6, PTL DEF Spec, Pipe!SafeSpec

----------------------------------------------------------------------------
(***************************************************************************)
(* A tunnel: it uses its FragmentLayer as that module has it, so that the  *)
(* theorems above hold in it; the server is told the end of the client's   *)
(* bytes only behind the last of them; and no ClientHello stays            *)
(* unflushed.                                                              *)
(*                                                                         *)
(* CloseIsLast speaks of a step; what makes it true is what each step up   *)
(* to it keeps: the copying task never runs ahead of its own reads         *)
(* (InStep), the layer waits only with an unfinished record (Unsettled),   *)
(* and between the task's last flush and its shutdown nothing is written   *)
(* (Closing).  HelloFlushed needs that need_flush outlives the flushes the *)
(* layer makes by itself (StillDirty).                                     *)
(***************************************************************************)
\* Which poll is in progress, by where it stands.
Polls ==
  /\ pc = "idle" <=> op = "none"
  /\ pc = "body" => op = "write"
  /\ op \notin {"write"} => want = 0

\* What the task has written it has read, and what it has read was sent.
InStep ==
  /\ taken + want <= read /\ read <= sent
  /\ upEof => ceof /\ read = sent
  /\ up # "copy" => upEof
  /\ op \in {"write", "flush"} => up = "copy"
  /\ op = "flush" => read = taken

\* The layer waits for the rest of a record only if there is a rest.
Unsettled ==
  /\ st = "WaitingHeader" => taken = 0 \/ (rec.handshake /\ taken < 6)
  /\ st = "WaitingMessage" => rec.handshake /\ rec.hello /\ taken < HeaderLen

\* All the client sent has left the layer, but for an unfinished record.
PassedOn == taken = 0 \/ Unfinished \/ (st = "SendingData" /\ unflushed = 0)

Closing == up = "close" => read = taken /\ PassedOn

\* The task knows of every ClientHello that is not flushed to its end.
StillDirty == fragmented /\ (st \in SendingBuffer \/ unflushed > 0) => dirty

\* The direction to the client.
Downward == passed <= fetched /\ fetched <= given

TInv ==
  /\ IInv /\ TunnelTypeOK
  /\ Polls /\ InStep /\ Unsettled /\ Closing /\ StillDirty /\ Downward

----------------------------------------------------------------------------
LEMMA Types ==
  ASSUME TInv
  PROVE  /\ MaxStream \in Nat /\ MaxDown \in Nat
         /\ taken \in Nat /\ want \in Nat /\ unflushed \in Nat /\ blen \in Nat
         /\ rec.len \in Nat /\ HeaderLen = rec.len + 5
         /\ sent \in 0 .. MaxStream /\ read \in 0 .. MaxStream
         /\ given \in 0 .. MaxDown /\ fetched \in 0 .. MaxDown /\ passed \in 0 .. MaxDown
         /\ op \in {"none", "write", "flush", "read"}
BY FragmentAssumption, TunnelAssumption, SixPerByte DEF TInv, IInv, TypeOK, TunnelTypeOK

\* A step the layer does not notice keeps what is said of the layer alone.
LEMMA LayerAside ==
  ASSUME TInv, UNCHANGED vars
  PROVE  /\ IInv' /\ Polls' /\ Unsettled'
         /\ UNCHANGED <<rec, st, taken, want, op, unflushed, fragmented>>
         /\ PassedOn' = PassedOn
<1>1. IInv'
  BY StepInv DEF TInv
<1>2. UNCHANGED <<rec, st, pc, taken, want, op, unflushed, fragmented>>
  BY DEF vars, layer, call, history
<1> QED
  BY <1>1, <1>2 DEF TInv, Polls, Unsettled, PassedOn, Unfinished, HeaderLen

\* The peers, the reads and writes of the client's side, and a failure there.
LEMMA PeerStep ==
  ASSUME TInv,
         \/ \E n \in Pieces : ClientSends(n)
         \/ ClientCloses \/ ServerSends \/ ServerCloses \/ Break
  PROVE  TInv'
<1>1. UNCHANGED vars
  BY DEF ClientSends, ClientCloses, ServerSends, ServerCloses, Break
<1>2. UNCHANGED <<up, read, upEof, dirty, down, fetched, passed, downEof>>
  BY DEF ClientSends, ClientCloses, ServerSends, ServerCloses, Break, upward, downward
<1>3. /\ sent' \in 0 .. MaxStream /\ sent <= sent' /\ (ceof => sent' = sent /\ ceof')
      /\ given' \in 0 .. MaxDown /\ given <= given'
  <2>1. CASE \E n \in Pieces : ClientSends(n)
    BY <2>1, Types, TunnelAssumption DEF ClientSends
  <2>2. CASE ServerSends
    BY <2>2, Types DEF ServerSends
  <2>3. CASE ClientCloses \/ ServerCloses \/ Break
    <3>1. sent' = sent /\ given' = given
      BY <2>3 DEF ClientCloses, ServerCloses, Break, peers
    <3>2. ceof' = TRUE \/ ceof' = ceof
      BY <2>3 DEF ClientCloses, ServerCloses, Break, peers
    <3> QED
      BY <3>1, <3>2, Types
  <2> QED
    BY <2>1, <2>2, <2>3
<1>4. {ceof', seof', broken'} \subseteq BOOLEAN
  <2>1. ceof \in BOOLEAN /\ seof \in BOOLEAN /\ broken \in BOOLEAN
    BY Zenon DEF TInv, TunnelTypeOK
  <2> QED
    BY <2>1, Zenon DEF ClientSends, ClientCloses, ServerSends, ServerCloses, Break, peers
<1>7. TunnelTypeOK'
  BY <1>1, <1>2, <1>3, <1>4, LayerAside DEF TInv, IInv, TunnelTypeOK
<1>5. InStep' /\ Downward'
  BY <1>1, <1>2, <1>3, LayerAside, Types DEF TInv, InStep, Downward
<1>6. Closing' /\ StillDirty'
  BY <1>1, <1>2, LayerAside DEF TInv, Closing, StillDirty
<1> QED
  BY <1>1, <1>5, <1>6, <1>7, LayerAside DEF TInv

LEMMA CopyStep ==
  ASSUME TInv, UpRead \/ UpEnd \/ DownWrite \/ DownClose
  PROVE  TInv'
<1> USE DEF UpRead, UpEnd, DownWrite, DownClose
<1>1. UNCHANGED vars /\ UNCHANGED <<up, dirty, sent, ceof, given, seof, broken, fetched>>
  BY DEF upward, downward, peers
<1>2. op = "none" /\ (upEof => UNCHANGED <<read, upEof>>)
  <2>1. pc = "idle"
    BY Zenon DEF Turn, Idle
  <2> QED
    BY <2>1, Zenon DEF TInv, Polls, upward
<1>3. /\ read' \in 0 .. MaxStream /\ read <= read' /\ read' <= sent
      /\ upEof' => ceof /\ read' = sent
  <2>1. CASE UpRead
    BY <2>1, Types DEF TInv, InStep
  <2>2. CASE UpEnd \/ DownWrite \/ DownClose
    <3>1. read' = read
      BY <2>2 DEF upward
    <3>2. upEof' = upEof \/ (read = sent /\ ceof)
      BY <2>2 DEF upward
    <3> QED
      BY <3>1, <3>2, Types DEF TInv, InStep
  <2> QED
    BY <2>1, <2>2
<1>4. passed' \in 0 .. MaxDown /\ passed' <= fetched
  <2>1. passed' = fetched \/ passed' = passed
    BY Zenon DEF downward
  <2> QED
    BY <2>1, Types DEF TInv, Downward
<1>5. {upEof', downEof'} \subseteq BOOLEAN /\ down' \in {"copy", "close", "done"}
  <2>1. upEof \in BOOLEAN /\ downEof \in BOOLEAN /\ down \in {"copy", "close", "done"}
    BY Zenon DEF TInv, TunnelTypeOK
  <2> QED
    BY <2>1, Zenon DEF upward, downward
<1>6. TunnelTypeOK'
  BY <1>1, <1>3, <1>4, <1>5, LayerAside DEF TInv, IInv, TunnelTypeOK
<1>7. InStep' /\ Downward'
  BY <1>1, <1>2, <1>3, <1>4, LayerAside, Types DEF TInv, InStep, Downward
<1>8. Closing' /\ StillDirty'
  BY <1>1, <1>2, LayerAside DEF TInv, InStep, Closing, StillDirty
<1> QED
  BY <1>1, <1>6, <1>7, <1>8, LayerAside DEF TInv

----------------------------------------------------------------------------
(***************************************************************************)
(* The task calls the layer.                                               *)
(***************************************************************************)
\* What the task offers to poll_write is at least a byte and no more than the
\* stream has: a call the layer's model allows.
LEMMA Offered ==
  ASSUME TInv, read > taken
  PROVE  read - taken \in 1 .. MaxStream
BY Types

LEMMA UpWriteStep ==
  ASSUME TInv, UpWrite
  PROVE  TInv'
<1> USE DEF UpWrite, CallWrite, Idle
<1>1. IInv'
  BY Offered, StepInv DEF TInv, Next
<1>2. /\ UNCHANGED <<rec, st, taken, unflushed, fragmented>>
      /\ UNCHANGED <<sent, ceof, given, seof, up, read, upEof, dirty>>
      /\ UNCHANGED <<down, fetched, passed, downEof, broken>>
  BY DEF layer, history, peers, upward, downward
<1>3. op' = "write" /\ want' = read - taken /\ pc' # "idle"
  BY DEF FlushEntry
<1>4. up = "copy" /\ read > taken
  OBVIOUS
<1>5. TunnelTypeOK' /\ Polls' /\ Downward'
  BY <1>1, <1>2, <1>3 DEF TInv, IInv, TunnelTypeOK, Polls, Downward
<1>6. InStep'
  BY <1>2, <1>3, <1>4, Types DEF TInv, InStep
<1>7. Unsettled' /\ Closing' /\ StillDirty'
  BY <1>2, <1>4 DEF TInv, Unsettled, Closing, StillDirty, HeaderLen
<1> QED
  BY <1>1, <1>5, <1>6, <1>7 DEF TInv

LEMMA UpFlushStep ==
  ASSUME TInv, UpFlush
  PROVE  TInv'
<1> USE DEF UpFlush, CallFlush, Idle
<1>1. IInv'
  BY StepInv DEF TInv, Next
<1>2. /\ UNCHANGED <<rec, st, taken, unflushed, fragmented>>
      /\ UNCHANGED <<sent, ceof, given, seof, up, read, upEof, dirty>>
      /\ UNCHANGED <<down, fetched, passed, downEof, broken>>
  BY DEF layer, history, peers, upward, downward
<1>3. op' = "flush" /\ want' = 0 /\ pc' \notin {"idle", "body"}
  BY DEF FlushEntry
<1>4. up = "copy" /\ read = taken
  OBVIOUS
<1>5. TunnelTypeOK' /\ Polls' /\ Downward'
  BY <1>1, <1>2, <1>3 DEF TInv, IInv, TunnelTypeOK, Polls, Downward
<1>6. InStep'
  BY <1>2, <1>3, <1>4, Types DEF TInv, InStep
<1>7. Unsettled' /\ Closing' /\ StillDirty'
  BY <1>2, <1>4 DEF TInv, Unsettled, Closing, StillDirty, HeaderLen
<1> QED
  BY <1>1, <1>5, <1>6, <1>7 DEF TInv

LEMMA UpCloseStep ==
  ASSUME TInv, UpClose
  PROVE  TInv'
<1> USE DEF UpClose, ClosesUp, CallShutdown
<1>1. IInv'
  BY StepInv DEF TInv, Next
<1>2. /\ UNCHANGED <<rec, st, pc, op, want, taken, unflushed, fragmented>>
      /\ UNCHANGED <<sent, ceof, given, seof, read, upEof, dirty>>
      /\ UNCHANGED <<down, fetched, passed, downEof, broken>>
  BY DEF layer, history, call, peers, downward
<1>3. up = "close" /\ up' = "done"
  OBVIOUS
<1>4. TunnelTypeOK' /\ Polls' /\ Downward'
  BY <1>1, <1>2, <1>3 DEF TInv, IInv, TunnelTypeOK, Polls, Downward
<1>5. InStep' /\ Unsettled' /\ Closing' /\ StillDirty'
  BY <1>2, <1>3, Types DEF TInv, InStep, Unsettled, Closing, StillDirty, HeaderLen
<1> QED
  BY <1>1, <1>4, <1>5 DEF TInv

----------------------------------------------------------------------------
(***************************************************************************)
(* The task is inside of the layer.                                        *)
(***************************************************************************)
\* The read of the transport at the end of a poll_read.
LEMMA Fetching ==
  ASSUME TInv, Fetch \/ UNCHANGED <<fetched, downEof>>, UNCHANGED <<given, passed>>
  PROVE  /\ fetched' \in 0 .. MaxDown /\ downEof' \in BOOLEAN /\ Downward'
<1>1. downEof' \in BOOLEAN
  <2>1. downEof \in BOOLEAN
    BY Zenon DEF TInv, TunnelTypeOK
  <2> QED
    BY <2>1, Zenon DEF Fetch
<1>2. fetched' = fetched \/ fetched' \in (fetched + 1) .. given
  BY DEF Fetch
<1> QED
  BY <1>1, <1>2, Types DEF TInv, Downward

\* What a step of the layer has to do to keep what the tunnel relies on, if it
\* takes no bytes of the task: no state of the record is entered anew, and what
\* is unflushed now was in the buffer or unflushed before.
Tame ==
  /\ UNCHANGED <<rec, taken, fragmented>>
  /\ (op' = op /\ want' = want) \/ (op' \in {"none", "read"} /\ want' = 0)
  /\ (pc' = "idle" <=> op' = "none") /\ (pc' = "body" => op' = "write")
  /\ st' \in Waiting => st' = st
  /\ st' \in SendingBuffer => st \in SendingBuffer \/ ~fragmented
  /\ unflushed' > 0 => unflushed > 0 \/ st \in SendingBuffer
  /\ st = "SendingData" => st' = st /\ (unflushed = 0 => unflushed' = 0)

LEMMA TameStep ==
  ASSUME TInv, IInv', Tame,
         UNCHANGED <<sent, ceof, given, seof, up, read, upEof, dirty, down, passed, broken>>,
         Fetch \/ UNCHANGED <<fetched, downEof>>
  PROVE  TInv'
<1>1. TunnelTypeOK' /\ Downward'
  BY Fetching, Types DEF TInv, IInv, TunnelTypeOK
<1>2. Polls'
  BY Types DEF TInv, Polls, Tame
<1>3. InStep'
  BY Types DEF TInv, InStep, Tame
<1>4. Unsettled'
  BY DEF TInv, Unsettled, Tame, Waiting, HeaderLen
<1>5. Closing'
  <2> SUFFICES ASSUME up = "close" PROVE PassedOn'
    BY DEF TInv, Closing, Tame
  <2>1. PassedOn
    BY DEF TInv, Closing
  <2> QED
    BY <2>1 DEF PassedOn, Unfinished, Tame, HeaderLen
<1>6. StillDirty'
  BY Types DEF TInv, StillDirty, Tame
<1> QED
  BY <1>1, <1>2, <1>3, <1>4, <1>5, <1>6 DEF TInv

\* The loops of poll_flush, the timer, and an error.
LEMMA InLayerStep ==
  ASSUME TInv, InLayer
  PROVE  TInv'
<1>1. UNCHANGED <<sent, ceof, given, seof, up, read, upEof, dirty, down, fetched, passed, downEof, broken>>
  BY DEF InLayer, Alone, peers, upward, downward
<1>2. IInv'
  BY StepInv DEF TInv, InLayer, Alone, Next
<1>3. Tame
  <2>0. /\ Polls /\ Place
        /\ \/ NewChunk \/ FlushByte \/ WriteByte \/ EndMessage \/ EndRaw \/ TimerElapse
           \/ TransportError \/ \E k \in 1 .. MaxStream : RawWrite(k)
    BY DEF TInv, IInv, InLayer, Alone
  <2> USE <2>0 DEF NewChunk, FlushByte, WriteByte, EndMessage, EndRaw, TimerElapse,
                   TransportError, RawWrite
  <2>1. UNCHANGED <<rec, taken, fragmented>>
    BY DEF layer, history
  <2>2. /\ (op' = op /\ want' = want) \/ (op' \in {"none", "read"} /\ want' = 0)
        /\ (pc' = "idle" <=> op' = "none") /\ (pc' = "body" => op' = "write")
    BY DEF call, Return, InMessage, Polls
  <2>3. /\ st' \in Waiting => st' = st
        /\ st' \in SendingBuffer => st \in SendingBuffer
        /\ st = "SendingData" => st' = st
    BY DEF layer, Place, Waiting, SendingBuffer
  <2>4. /\ unflushed' > 0 => unflushed > 0 \/ st \in SendingBuffer
        /\ st = "SendingData" => (unflushed = 0 => unflushed' = 0)
    BY Types DEF InMessage, Place, SendingBuffer
  <2> QED
    BY <2>1, <2>2, <2>3, <2>4 DEF Tame
<1> QED
  BY <1>1, <1>2, <1>3, TameStep

LEMMA DownReadStep ==
  ASSUME TInv, DownRead
  PROVE  TInv'
<1>1. CallRead /\ UNCHANGED <<sent, ceof, given, seof, up, read, upEof, dirty, down, passed, broken>>
  BY DEF DownRead, peers, upward
<1>2. Fetch \/ UNCHANGED <<fetched, downEof>>
  BY DEF DownRead
<1>3. IInv'
  BY <1>1, StepInv DEF TInv, Next
<1>4. Tame
  <2>1. /\ UNCHANGED <<rec, taken, fragmented, unflushed>>
        /\ st' = st \/ (st \in Waiting /\ st' = "SendingRawBuffer" /\ ~fragmented)
    BY <1>1 DEF CallRead, IntoRawSend, layer, history, TInv, IInv, Held
  <2>2. \/ UNCHANGED <<op, want, pc>>
        \/ op' = "read" /\ want' = 0 /\ pc' \in {"msg", "raw", "last"}
    BY <1>1 DEF CallRead, call, FlushEntry
  <2> QED
    BY <2>1, <2>2, Types DEF Tame, TInv, Polls, Waiting
<1> QED
  BY <1>1, <1>2, <1>3, <1>4, TameStep

LEMMA WaitsStep ==
  ASSUME TInv, Waits
  PROVE  TInv'
<1>1. TransportPending /\ UNCHANGED <<sent, ceof, given, seof, up, read, upEof, dirty, down, passed, broken>>
  BY DEF Waits, peers, upward
<1>2. Fetch \/ UNCHANGED <<fetched, downEof>>
  BY DEF Waits
<1>3. IInv'
  BY <1>1, StepInv DEF TInv, Next
<1>4. Tame
  BY <1>1, Types DEF TransportPending, Return, layer, history, Tame
<1> QED
  BY <1>1, <1>2, <1>3, <1>4, TameStep

\* A flush has completed.  If it is the task's own, everything it has read has
\* left the layer, but for an unfinished record, and its end may follow.
LEMMA FlushReturnsStep ==
  ASSUME TInv, FlushReturns
  PROVE  TInv'
<1>1. LastFlush /\ UNCHANGED <<sent, ceof, given, seof, read, upEof, down, passed, broken>>
  BY DEF FlushReturns, peers
<1>2. Fetch \/ UNCHANGED <<fetched, downEof>>
  BY DEF FlushReturns
<1>3. IInv'
  BY <1>1, StepInv DEF TInv, Next
<1>4. /\ UNCHANGED <<rec, st, taken, fragmented>> /\ unflushed' = 0
      /\ pc = "last" /\ st \notin SendingBuffer
  BY <1>1 DEF LastFlush, layer, history, TInv, IInv, Place
<1>5. CASE op # "flush"
  <2>1. up' = up
    BY <1>5 DEF FlushReturns
  <2>2. dirty' = dirty
    <3>1. dirty \in BOOLEAN
      BY Zenon DEF TInv, TunnelTypeOK
    <3> QED
      BY <1>5, <3>1, Zenon DEF FlushReturns
  <2>3. Tame
    BY <1>1, <1>4 DEF LastFlush, Return, Tame, Waiting
  <2> QED
    BY <1>1, <1>2, <1>3, <2>1, <2>2, <2>3, TameStep
<1>6. CASE op = "flush"
  <2>1. /\ read = taken /\ up = "copy" /\ op' = "none" /\ want' = 0 /\ pc' = "idle"
        /\ up' = IF upEof THEN "close" ELSE up
    BY <1>1, <1>6 DEF LastFlush, Return, TInv, InStep, FlushReturns
  <2>2. dirty' \in BOOLEAN
    <3>1. dirty \in BOOLEAN
      BY Zenon DEF TInv, TunnelTypeOK
    <3> QED
      BY <3>1, Zenon DEF FlushReturns
  <2>3. TunnelTypeOK' /\ Downward'
    BY <1>1, <1>2, <1>3, <2>1, <2>2, Fetching, Types DEF TInv, IInv, TunnelTypeOK
  <2>4. Polls' /\ InStep' /\ Unsettled'
    BY <1>1, <1>4, <2>1, Types DEF TInv, Polls, InStep, Unsettled, HeaderLen
  <2>5. PassedOn'
    <3>1. st \in Waiting \cup {"SendingData"}
      BY <1>4 DEF TInv, IInv, TypeOK
    <3> QED
      BY <1>4, <3>1, Types DEF TInv, Unsettled, PassedOn, Unfinished, Waiting, HeaderLen
  <2>6. Closing' /\ StillDirty'
    BY <1>1, <1>4, <2>1, <2>5 DEF Closing, StillDirty
  <2> QED
    BY <1>3, <2>3, <2>4, <2>6 DEF TInv
<1> QED
  BY <1>5, <1>6

\* poll_write answers.  What it takes is counted from here on, and need_flush
\* is set.
LEMMA WriteReturnsStep ==
  ASSUME TInv, WriteReturns
  PROVE  TInv'
<1>1. /\ UNCHANGED <<sent, ceof, given, seof, up, read, upEof, down, fetched, passed, downEof, broken>>
      /\ dirty' = TRUE
  BY DEF WriteReturns, peers, downward
<1>2. IInv'
  BY StepInv DEF TInv, WriteReturns, Next
<1>3. op' = "none" /\ want' = 0 /\ pc' = "idle" /\ rec' = rec
  BY DEF WriteReturns, Absorb, WriteThrough, Return
<1>4. pc = "body" /\ op = "write" /\ up = "copy"
  BY DEF WriteReturns, Absorb, WriteThrough, TInv, Polls, InStep
<1>5. taken' \in Nat /\ taken' <= read
  <2>1. CASE Absorb
    BY <2>1, Types DEF Absorb, TInv, InStep
  <2>2. CASE \E k \in 1 .. MaxStream : WriteThrough(k)
    <3>1. PICK k \in 1 .. MaxStream : k \in Accepts(want) /\ taken' = taken + k
      BY <2>2, Zenon DEF WriteThrough
    <3>2. k <= want
      BY <3>1, Types DEF Accepts
    <3>3. taken + want <= read /\ taken \in Nat /\ want \in Nat /\ read \in Nat /\ k \in Nat
      BY Types DEF TInv, InStep
    <3> QED
      BY <3>1, <3>2, <3>3
  <2> QED
    BY <2>1, <2>2 DEF WriteReturns
<1>6. Unsettled'
  <2>1. CASE Absorb
    <3>1. st \in Waiting /\ blen = taken
      BY <1>4, <2>1 DEF Absorb, TInv, IInv, TypeOK, Place, Counted, SendingBuffer
    <3>2. blen' = taken' /\ st' = Recognise(taken')
      BY <2>1, <3>1 DEF Absorb
    <3>3. HeaderLen' = HeaderLen /\ taken' \in Nat /\ HeaderLen \in Nat
      BY <1>3, <1>5, Types DEF HeaderLen
    <3> QED
      BY <1>3, <3>1, <3>2, <3>3 DEF Recognise, Waiting, TInv, Unsettled
  <2>2. CASE \E k \in 1 .. MaxStream : WriteThrough(k)
    BY <2>2 DEF WriteThrough, layer, Unsettled
  <2> QED
    BY <2>1, <2>2 DEF WriteReturns
<1>7. TunnelTypeOK'
  BY <1>1, <1>2 DEF TInv, IInv, TunnelTypeOK
<1>8. Polls' /\ InStep' /\ Closing' /\ StillDirty' /\ Downward'
  BY <1>1, <1>3, <1>4, <1>5, Types DEF TInv, Polls, InStep, Closing, StillDirty, Downward
<1> QED
  BY <1>2, <1>6, <1>7, <1>8 DEF TInv

----------------------------------------------------------------------------
LEMMA TunnelInitInv == TunnelInit => TInv
<1> SUFFICES ASSUME TunnelInit PROVE TInv
  OBVIOUS
<1>1. Init /\ IInv
  BY InitInv DEF TunnelInit
<1>2. 0 \in 0 .. MaxStream /\ 0 \in 0 .. MaxDown
  BY FragmentAssumption, TunnelAssumption
<1>3. TunnelTypeOK
  BY <1>1, <1>2 DEF TunnelInit, IInv, TunnelTypeOK
<1>4. Polls /\ InStep /\ Unsettled /\ Closing /\ Downward
  BY <1>1 DEF TunnelInit, Init, Polls, InStep, Unsettled, Closing, Downward
<1>5. StillDirty
  BY <1>1 DEF Init, StillDirty
<1> QED
  BY <1>1, <1>3, <1>4, <1>5 DEF TInv

LEMMA TunnelStepInv == TInv /\ [TunnelNext]_tunnelVars => TInv'
<1> SUFFICES ASSUME TInv, [TunnelNext]_tunnelVars PROVE TInv'
  OBVIOUS
<1>1. CASE (\E n \in Pieces : ClientSends(n)) \/ ClientCloses \/ ServerSends \/ ServerCloses \/ Break
  BY <1>1, PeerStep
<1>2. CASE UpRead \/ UpEnd \/ DownWrite \/ DownClose
  BY <1>2, CopyStep
<1>3. CASE UpWrite
  BY <1>3, UpWriteStep
<1>4. CASE UpFlush
  BY <1>4, UpFlushStep
<1>5. CASE UpClose
  BY <1>5, UpCloseStep
<1>6. CASE DownRead
  BY <1>6, DownReadStep
<1>7. CASE InLayer
  BY <1>7, InLayerStep
<1>8. CASE WriteReturns
  BY <1>8, WriteReturnsStep
<1>9. CASE FlushReturns
  BY <1>9, FlushReturnsStep
<1>10. CASE Waits
  BY <1>10, WaitsStep
<1>11. CASE UNCHANGED tunnelVars
  <2>1. UNCHANGED vars
    BY <1>11 DEF tunnelVars
  <2>2. /\ UNCHANGED <<sent, ceof, given, seof, up, read, upEof, dirty>>
        /\ UNCHANGED <<down, fetched, passed, downEof, broken>>
    BY <1>11 DEF tunnelVars, peers, upward, downward
  <2>3. TunnelTypeOK' /\ InStep' /\ Downward'
    BY <2>1, <2>2, LayerAside DEF TInv, IInv, TunnelTypeOK, InStep, Downward
  <2>4. Closing' /\ StillDirty'
    BY <2>1, <2>2, LayerAside DEF TInv, Closing, StillDirty
  <2> QED
    BY <2>1, <2>3, <2>4, LayerAside DEF TInv
<1> QED
  BY <1>1, <1>2, <1>3, <1>4, <1>5, <1>6, <1>7, <1>8, <1>9, <1>10, <1>11, Zenon DEF TunnelNext

\* What the copying task relies on and keeps, whatever it does next.
THEOREM TunnelInvariant == TunnelSpec => []TInv
BY TunnelInitInv, TunnelStepInv, PTL DEF TunnelSpec

\* The tunnel's steps are steps of the layer, or leave it alone, so that what is
\* proved of the layer can be used of it in the tunnel.
LEMMA TunnelIsLayer == TunnelSpec => Spec
<1>1. TunnelInit => Init
  BY DEF TunnelInit
<1>2. TInv /\ [TunnelNext]_tunnelVars => [Next]_vars
  <2> SUFFICES ASSUME TInv, [TunnelNext]_tunnelVars PROVE Next \/ UNCHANGED vars
    OBVIOUS
  <2>1. CASE (\E n \in Pieces : ClientSends(n)) \/ ClientCloses \/ ServerSends \/ ServerCloses \/ Break
    BY <2>1 DEF ClientSends, ClientCloses, ServerSends, ServerCloses, Break
  <2>2. CASE UpRead \/ UpEnd \/ DownWrite \/ DownClose
    BY <2>2 DEF UpRead, UpEnd, DownWrite, DownClose
  <2>3. CASE UpWrite
    BY <2>3, Offered DEF UpWrite, Next
  <2>4. CASE UpFlush \/ UpClose \/ DownRead
    BY <2>4 DEF UpFlush, UpClose, DownRead, Next
  <2>5. CASE InLayer
    BY <2>5 DEF InLayer, Alone, Next
  <2>6. CASE WriteReturns \/ FlushReturns \/ Waits
    BY <2>6 DEF WriteReturns, FlushReturns, Waits, Next
  <2>7. CASE UNCHANGED tunnelVars
    BY <2>7 DEF tunnelVars
  <2> QED
    BY <2>1, <2>2, <2>3, <2>4, <2>5, <2>6, <2>7, Zenon DEF TunnelNext
<1> QED
  BY <1>1, <1>2, TunnelInvariant, PTL DEF TunnelSpec, Spec

\* So the client's bytes reach the wire in a tunnel as they do from the layer:
\* in order, none lost, and those of a ClientHello one by one.
THEOREM TunnelWire == TunnelSpec => [](InOrder /\ NothingLost /\ OneByteInFlight)
BY TunnelIsLayer, OrderKept, NoByteLost, ByteByByte, PTL

\* The server is told the end of the client's bytes behind the last of them.
THEOREM TunnelClose == TunnelSpec => CloseIsLast
<1>1. TInv /\ [TunnelNext]_tunnelVars =>
        [shut' /\ ~shut =>
           /\ ceof /\ taken = sent
           /\ taken = 0 \/ Unfinished \/ (st = "SendingData" /\ unflushed = 0)]_tunnelVars
  <2> SUFFICES ASSUME TInv, TunnelNext, shut' /\ ~shut
               PROVE  ceof /\ taken = sent /\ PassedOn
    BY DEF PassedOn
  <2>1. shut' # shut
    OBVIOUS
  <2>2. UpClose
    BY <2>1 DEF TunnelNext, ClientSends, ClientCloses, ServerSends, ServerCloses, UpRead, UpEnd,
      UpWrite, CallWrite, UpFlush, CallFlush, DownRead, CallRead, DownWrite, DownClose, Break,
      InLayer, Alone, NewChunk, FlushByte, WriteByte, EndMessage, EndRaw, RawWrite, TimerElapse,
      TransportError, WriteReturns, Absorb, WriteThrough, FlushReturns, LastFlush, Waits,
      TransportPending, vars
  <2>3. up = "close"
    BY <2>2 DEF UpClose, ClosesUp
  <2> QED
    BY <2>3 DEF TInv, InStep, Closing
<1> QED
  BY <1>1, TunnelInvariant, PTL DEF TunnelSpec, CloseIsLast

\* Whichever direction's polls sent a ClientHello, and however often the
\* transport made them wait, its last byte does not stay unflushed unknown.
THEOREM TunnelFlush == TunnelSpec => []HelloFlushed
<1>1. TInv => HelloFlushed
  BY Types DEF TInv, StillDirty, HelloFlushed, FlushForgotten
<1> QED
  BY <1>1, TunnelInvariant, PTL

=============================================================================
