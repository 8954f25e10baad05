----------------------------- MODULE SpanDelivery ------------------------------
(***************************************************************************)
(* What the exporter promises of the spans it accepts, without saying how. *)
(* Spans are numbered in the order they are accepted.  An accepted span is *)
(* held until the server has it, or until it is discarded because at least *)
(* Cap spans were held; an exporter that has stopped answers for nothing.  *)
(***************************************************************************)
EXTENDS Naturals, FiniteSets

CONSTANT Cap

VARIABLES
  accepted,   \* how many spans were accepted
  held,       \* the spans the exporter answers for
  stored,     \* the spans the server received, once or more
  discarded   \* the spans given up at the limit

vars == <<accepted, held, stored, discarded>>

Init ==
  /\ accepted = 0
  /\ held = {} /\ stored = {} /\ discarded = {}

Accept ==
  /\ accepted' = accepted + 1
  /\ held' = held \cup {accepted + 1}
  /\ UNCHANGED <<stored, discarded>>

\* Accept one more span at the limit, giving up another.
AcceptDiscarding(s) ==
  /\ s \in held
  /\ Cardinality(held) >= Cap
  /\ accepted' = accepted + 1
  /\ held' = (held \ {s}) \cup {accepted + 1}
  /\ discarded' = discarded \cup {s}
  /\ UNCHANGED stored

\* Give a span up because more than the limit are held.
Discard(s) ==
  /\ s \in held
  /\ Cardinality(held) > Cap
  /\ held' = held \ {s}
  /\ discarded' = discarded \cup {s}
  /\ UNCHANGED <<accepted, stored>>

\* The server receives spans that were accepted at some time, possibly again.
Receive(S) ==
  /\ stored' = stored \cup S
  /\ UNCHANGED <<accepted, held, discarded>>

\* Spans the server has need not be held any longer.
Release(S) ==
  /\ S \subseteq stored
  /\ held' = held \ S
  /\ UNCHANGED <<accepted, stored, discarded>>

Next ==
  \/ Accept
  \/ \E s \in held : AcceptDiscarding(s) \/ Discard(s)
  \/ \E S \in SUBSET (1 .. accepted) : Receive(S) \/ Release(S)

Spec == Init /\ [][Next]_vars
===============================================================================
