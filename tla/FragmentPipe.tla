---------------------------- MODULE FragmentPipe ----------------------------
(***************************************************************************)
(* FragmentLayer implements BytePipe, when the transport takes writes      *)
(* whole and the caller sends nothing behind its ClientHello before it is  *)
(* answered.  The mapping reads the payload off the wire the way a TLS     *)
(* peer does: record headers, the caller's own or one the layer made,      *)
(* are dropped.                                                            *)
(***************************************************************************)
EXTENDS FragmentLayer, FiniteSets

IsPayload(b) == b[1] = "src" /\ b[2] > 5

\* Where the payload is on the wire; how much of it there is up to place i.
PayloadPlaces == {i \in DOMAIN wire : IsPayload(wire[i])}
PayloadUpTo(i) == Cardinality({j \in PayloadPlaces : j <= i})

\* The places in the caller's stream of the payload bytes, as they come.
Payload ==
  [k \in 1 .. Cardinality(PayloadPlaces) |->
     wire[CHOOSE i \in PayloadPlaces : PayloadUpTo(i) = k][2]]

Pipe == INSTANCE BytePipe
          WITH Skip <- 5,
               accepted <- taken, out <- Payload, closed <- (shut \/ failed)

\* The layer is a pipe: what poll_write has answered for is delivered in order
\* and exactly once, and is delivered even if the caller only reads from then
\* on (the timer and the flush of poll_read), until the stream ends.
ImplementsPipe == Pipe!Spec

=============================================================================
