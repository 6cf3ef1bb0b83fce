------------------------------ MODULE BytePipe ------------------------------
(***************************************************************************)
(* What a stream layer owes the two ends of a connection: the payload its  *)
(* caller handed over comes out of the transport complete, in order, once, *)
(* and without waiting for the caller to do anything else -- until the     *)
(* stream is closed.  Payload bytes are the caller's bytes behind the      *)
(* first Skip ones, which the layer may rewrite (a record header).         *)
(***************************************************************************)
EXTENDS Naturals, Sequences

CONSTANTS
  MaxStream,  \* bound: how many bytes the caller writes
  Skip        \* how many bytes precede the payload

VARIABLES
  accepted,   \* how many bytes the caller was told are taken care of
  out,        \* the places in the caller's stream of the payload delivered
  closed      \* has the stream failed, or its write side been shut down?

vars == <<accepted, out, closed>>

Init == accepted = 0 /\ out = <<>> /\ closed = FALSE

Accept(n) ==
  /\ accepted + n <= MaxStream
  /\ accepted' = accepted + n

\* The next n bytes of the payload are delivered.
Deliver(n) ==
  /\ Skip + Len(out) + n <= accepted'
  /\ out' = out \o [i \in 1 .. n |-> Skip + Len(out) + i]

Transfer ==
  /\ ~closed
  /\ \/ \E n \in 1 .. MaxStream : Accept(n) /\ UNCHANGED out
     \/ UNCHANGED accepted /\ \E n \in 1 .. MaxStream : Deliver(n)
     \/ \E n, m \in 1 .. MaxStream : Accept(n) /\ Deliver(m)
  /\ UNCHANGED closed

Close == ~closed /\ closed' = TRUE /\ UNCHANGED <<accepted, out>>

Next == Transfer \/ Close

\* What is owed is delivered without further input.
Settle == ~closed /\ UNCHANGED <<accepted, closed>> /\ \E n \in 1 .. MaxStream : Deliver(n)

SafeSpec == Init /\ [][Next]_vars

Spec == SafeSpec /\ WF_vars(Settle)
=============================================================================
