------------------------------ MODULE DropOldest ------------------------------
(***************************************************************************)
(* What the runtime library promises of its span buffer, independently of  *)
(* how it is laid out: a FIFO queue of at most Cap spans, in which a push  *)
(* at the limit discards the span at the front.  The Exporter module uses  *)
(* the operators; SpanQueue and SpanRing are state machines about them.    *)
(***************************************************************************)
EXTENDS Naturals, Sequences

CONSTANT Cap    \* ringBufferCapacity, 1000 in export.go

ASSUME CapAssumption == Cap \in Nat \ {0}

IsFull(q) == Len(q) = Cap

\* The spans a push discards: the oldest one, and only at the limit.
Discarded(q) == IF IsFull(q) THEN {Head(q)} ELSE {}

\* The queue after a push of e.
Pushed(q, e) == Append(IF IsFull(q) THEN Tail(q) ELSE q, e)

===============================================================================
