---------------------------- MODULE Exporter_proofs ----------------------------
(***************************************************************************)
(* What is proved of Exporter, for every capacity, batch size, number of   *)
(* attempts, number of spans and number of failures: its state is          *)
(* well-typed, no span vanishes between the goroutines, no wake-up of the  *)
(* loop is lost, and a stopped loop has flushed what it was given.         *)
(***************************************************************************)
EXTENDS Exporter, FiniteSetTheorems, SequenceTheorems, TLAPS

-------------------------------------------------------------------------------
(* Sequences and the sets of their elements.                                     *)

LEMMA ToSetEmpty == ToSet(<<>>) = {}
  BY DEF ToSet

LEMMA ToSetAppend ==
  ASSUME NEW S, NEW q \in Seq(S), NEW e \in S
  PROVE  /\ Append(q, e) \in Seq(S)
         /\ Len(Append(q, e)) = Len(q) + 1
         /\ ToSet(Append(q, e)) = ToSet(q) \cup {e}
<1>1. /\ Append(q, e) \in Seq(S)
      /\ Len(Append(q, e)) = Len(q) + 1
      /\ DOMAIN Append(q, e) = 1 .. Len(q) + 1
      /\ \A i \in 1 .. Len(q) : Append(q, e)[i] = q[i]
      /\ Append(q, e)[Len(q) + 1] = e
  BY AppendProperties
<1>2. Len(q) \in Nat /\ DOMAIN q = 1 .. Len(q)
  OBVIOUS
<1>3. ToSet(Append(q, e)) = ToSet(q) \cup {e}
  BY <1>1, <1>2 DEF ToSet
<1> QED
  BY <1>1, <1>3

LEMMA ToSetHeadTail ==
  ASSUME NEW S, NEW q \in Seq(S), q # <<>>
  PROVE  /\ Head(q) \in S /\ Tail(q) \in Seq(S)
         /\ Len(Tail(q)) = Len(q) - 1
         /\ ToSet(q) = {Head(q)} \cup ToSet(Tail(q))
<1>1. Len(q) \in Nat \ {0} /\ DOMAIN q = 1 .. Len(q)
  BY EmptySeq
<1>2. /\ Head(q) = q[1] /\ Head(q) \in S
      /\ Tail(q) \in Seq(S)
      /\ Len(Tail(q)) = Len(q) - 1
      /\ \A i \in 1 .. Len(q) - 1 : Tail(q)[i] = q[i + 1]
  BY <1>1, HeadTailProperties
<1>3. DOMAIN Tail(q) = 1 .. Len(q) - 1
  BY <1>2
<1>4. ASSUME NEW x \in ToSet(q) PROVE x \in {Head(q)} \cup ToSet(Tail(q))
  <2>1. PICK i \in 1 .. Len(q) : x = q[i]
    BY <1>1 DEF ToSet
  <2>2. CASE i = 1
    BY <2>1, <2>2, <1>2
  <2>3. CASE i # 1
    <3>1. i - 1 \in 1 .. Len(q) - 1 /\ Tail(q)[i - 1] = q[i]
      BY <1>1, <1>2, <2>1, <2>3
    <3> QED
      BY <3>1, <1>3, <2>1 DEF ToSet
  <2> QED
    BY <2>2, <2>3
<1>5. ASSUME NEW x \in {Head(q)} \cup ToSet(Tail(q)) PROVE x \in ToSet(q)
  <2>1. CASE x = Head(q)
    BY <2>1, <1>1, <1>2 DEF ToSet
  <2>2. CASE x \in ToSet(Tail(q))
    <3>1. PICK i \in 1 .. Len(q) - 1 : x = Tail(q)[i]
      BY <1>3, <2>2 DEF ToSet
    <3>2. i + 1 \in 1 .. Len(q) /\ x = q[i + 1]
      BY <1>1, <1>2, <3>1
    <3> QED
      BY <3>2, <1>1 DEF ToSet
  <2> QED
    BY <2>1, <2>2
<1> QED
  BY <1>2, <1>4, <1>5

\* A push keeps the queue within its capacity and accounts for every span: what is not in
\* the queue afterwards was discarded (spanRing.push).
LEMMA PushedProperties ==
  ASSUME NEW S, NEW q \in Seq(S), Len(q) <= Cap, NEW e \in S
  PROVE  /\ Pushed(q, e) \in Seq(S)
         /\ Len(Pushed(q, e)) <= Cap
         /\ Discarded(q) \subseteq S
         /\ ToSet(q) \cup {e} \subseteq ToSet(Pushed(q, e)) \cup Discarded(q)
<1>0. Cap \in Nat \ {0} /\ Len(q) \in Nat
  BY CapAssumption
<1>1. CASE IsFull(q)
  <2>1. q # <<>> /\ Len(q) = Cap
    BY <1>0, <1>1 DEF IsFull
  <2>2. /\ Head(q) \in S /\ Tail(q) \in Seq(S) /\ Len(Tail(q)) = Cap - 1
        /\ ToSet(q) = {Head(q)} \cup ToSet(Tail(q))
    BY <2>1, ToSetHeadTail
  <2>3. Pushed(q, e) = Append(Tail(q), e) /\ Discarded(q) = {Head(q)}
    BY <1>1 DEF Pushed, Discarded
  <2> DEFINE t == Tail(q)
  <2>4. /\ Append(t, e) \in Seq(S)
        /\ Len(Append(t, e)) = Len(t) + 1
        /\ ToSet(Append(t, e)) = ToSet(t) \cup {e}
    <3>1. t \in Seq(S)
      BY <2>2
    <3> HIDE DEF t
    <3> QED
      BY <3>1, ToSetAppend
  <2>5. Len(Append(Tail(q), e)) <= Cap
    BY <1>0, <2>2, <2>4
  <2> QED
    BY <2>2, <2>3, <2>4, <2>5
<1>2. CASE ~IsFull(q)
  <2>1. Pushed(q, e) = Append(q, e) /\ Discarded(q) = {}
    BY <1>2 DEF Pushed, Discarded
  <2>2. /\ Append(q, e) \in Seq(S)
        /\ Len(Append(q, e)) = Len(q) + 1
        /\ ToSet(Append(q, e)) = ToSet(q) \cup {e}
    BY ToSetAppend
  <2>3. Len(q) + 1 <= Cap
    BY <1>0, <1>2 DEF IsFull
  <2> QED
    BY <2>1, <2>2, <2>3
<1> QED
  BY <1>1, <1>2
-------------------------------------------------------------------------------
(* The inductive invariant.                                                      *)

\* Where the loop is decides which of its variables are in use.
ControlInv ==
  /\ waking <= born
  /\ bornAtStop <= born
  /\ pc = "post" => attempt < Attempts
  /\ pc \notin {"post", "repush"} => batch = <<>>
  /\ pc = "repush" => failed
  /\ cause = "stop" => stop
  /\ pc = "done" => cause = "stop"

\* The loop forgets a batch only after the server has handled it.
HandledIsStored == (pc = "post" /\ handled) => ToSet(batch) \subseteq Stored

\* While a batch is posted, a span that arrives finds a wake-up too.
WakeupKept == (pc = "post" /\ ring # <<>>) => notify \/ waking > 0

\* The batch of the last pass is all that is left of the spans pushed before close(stop).
LastBatch ==
  (cause = "stop" /\ pc = "post") => 1 .. bornAtStop \subseteq ToSet(batch) \cup Stored \cup discarded

IInv ==
  /\ TypeOK /\ ControlInv
  /\ HandledIsStored /\ NothingVanishes
  /\ WakeupKept /\ WakeupNotLost
  /\ LastBatch /\ FlushedOnStop

-------------------------------------------------------------------------------
(* What the actions do to the spans.                                             *)

LEMMA PushRingProperties ==
  ASSUME TypeOK, NEW s \in Span, PushRing(s)
  PROVE  /\ ring' \in Seq(Span) /\ Len(ring') <= Cap
         /\ discarded' \subseteq Span
         /\ discarded \subseteq discarded'
         /\ ToSet(ring) \cup {s} \subseteq ToSet(ring') \cup discarded'
<1>1. ring \in Seq(Span) /\ Len(ring) <= Cap /\ discarded \subseteq Span
  BY DEF TypeOK
<1>2. ring' = Pushed(ring, s) /\ discarded' = discarded \cup Discarded(ring)
  BY DEF PushRing
<1> QED
  BY <1>1, <1>2, PushedProperties

LEMMA CountedProperties ==
  ASSUME TypeOK, NEW spans, copies' = Counted(spans)
  PROVE  /\ copies' \in [Span -> Nat]
         /\ Stored \subseteq Stored'
         /\ ToSet(spans) \cap Span \subseteq Stored'
<1>1. copies \in [Span -> Nat]
  BY DEF TypeOK
<1>2. copies' \in [Span -> Nat]
  BY <1>1 DEF Counted
<1>3. \A s \in Span : copies'[s] = copies[s] + (IF s \in ToSet(spans) THEN 1 ELSE 0)
  BY DEF Counted
<1> QED
  BY <1>1, <1>2, <1>3 DEF Stored

LEMMA ToSetInSpan ==
  ASSUME NEW q \in Seq(Span)
  PROVE  ToSet(q) \subseteq Span
BY DEF ToSet

\* What the server received, it keeps; what was discarded stays discarded.
LEMMA NothingIsTakenBack ==
  ASSUME IInv, [Next]_vars
  PROVE  Stored \subseteq Stored' /\ discarded \subseteq discarded'
<1> USE DEF IInv
<1>1. CASE Handle
  BY <1>1, CountedProperties DEF Handle, queueVars
<1>2. CASE HandleLate
  <2>1. PICK r \in late : copies' = Counted(r.spans)
    BY <1>2 DEF HandleLate
  <2> QED
    BY <1>2, <2>1, CountedProperties DEF HandleLate, queueVars
<1>3. CASE copies' = copies /\ discarded \subseteq discarded'
  BY <1>3 DEF Stored
<1>4. CASE UNCHANGED vars
  BY <1>3, <1>4 DEF vars, netVars, queueVars
<1>5. CASE Enqueue
  BY <1>3, <1>5 DEF Enqueue, netVars, PushRing
<1>6. CASE Loop
  BY <1>3, <1>6 DEF Loop, Select, DrainOne, Drained, PostSucceeds, PostFails, RepushOne, Repushed,
                    PushRing, netVars, queueVars
<1>7. CASE Notify \/ Shutdown
  BY <1>3, <1>7 DEF Notify, Shutdown, netVars, queueVars
<1> QED
  BY <1>1, <1>2, <1>4, <1>5, <1>6, <1>7 DEF Next

-------------------------------------------------------------------------------
(* Every step keeps the invariant.                                               *)

LEMMA InitInv == Init => IInv
<1> SUFFICES ASSUME Init PROVE IInv
  OBVIOUS
<1> USE ExporterAssumption, CapAssumption DEF Init
<1>1. TypeOK
  <2>1. <<>> \in Seq(Span) /\ Len(<<>>) = 0
    BY EmptySeq
  <2>2. copies \in [Span -> Nat]
    OBVIOUS
  <2>3. /\ attempt \in 0 .. Attempts
        /\ born \in 0 .. MaxSpans /\ bornAtStop \in 0 .. MaxSpans /\ waking \in 0 .. MaxSpans
        /\ failures \in 0 .. MaxFailures
        /\ ring \in Seq(Span) /\ Len(ring) <= Cap
    BY <2>1
  <2>4. /\ pending \in Seq(Span) /\ batch \in Seq(Span)
        /\ late \subseteq Request /\ discarded \subseteq Span
    BY <2>1
  <2> QED
    BY <2>2, <2>3, <2>4 DEF TypeOK, Cause
<1>2. NothingVanishes
  BY DEF NothingVanishes
<1> QED
  BY <1>1, <1>2 DEF IInv, ControlInv, HandledIsStored, WakeupKept, WakeupNotLost, LastBatch,
                    FlushedOnStop

LEMMA TypeStep ==
  ASSUME IInv, [Next]_vars
  PROVE  TypeOK' /\ ControlInv'
<1> USE ExporterAssumption, CapAssumption
<1> USE DEF IInv, TypeOK, ControlInv, Cause
<1>1. CASE Enqueue
  <2>1. born + 1 \in Span
    BY <1>1 DEF Enqueue, Span
  <2>2. /\ ring' \in Seq(Span) /\ Len(ring') <= Cap
        /\ discarded' \subseteq Span
    BY <1>1, <2>1, PushRingProperties DEF Enqueue
  <2> QED
    BY <1>1, <2>2 DEF Enqueue, stopVars, loopVars, netVars
<1>2. CASE Notify
  BY <1>2 DEF Notify, queueVars, stopVars, loopVars, netVars
<1>3. CASE Shutdown
  BY <1>3 DEF Shutdown, queueVars, wakeVars, loopVars, netVars
<1>4. ASSUME NEW c \in Cause, Select(c) PROVE TypeOK' /\ ControlInv'
  BY <1>4 DEF Select, queueVars, stopVars, netVars
<1>5. CASE DrainOne
  <2>1. /\ Head(ring) \in Span /\ Tail(ring) \in Seq(Span)
        /\ Len(Tail(ring)) = Len(ring) - 1
    BY <1>5, ToSetHeadTail DEF DrainOne
  <2>2. ring' \in Seq(Span) /\ Len(ring') <= Cap
    BY <1>5, <2>1 DEF DrainOne
  <2>3. pending' \in Seq(Span)
    BY <1>5, <2>1, ToSetAppend DEF DrainOne
  <2> QED
    BY <1>5, <2>2, <2>3 DEF DrainOne, wakeVars, stopVars, netVars
<1>6. CASE Drained
  <2>1. <<>> \in Seq(Span)
    BY EmptySeq
  <2>2. CASE /\ batch' = pending /\ pending' = <<>>
             /\ pc' = "post" /\ attempt' = 0 /\ handled' = FALSE
    <3>1. TypeOK'
      <4>1. batch' \in Seq(Span) /\ pending' \in Seq(Span)
        BY <2>1, <2>2
      <4>2. attempt' \in 0 .. Attempts
        BY <2>2
      <4>4. handled' \in BOOLEAN
        BY <2>2, Zenon
      <4>3. pc' \in {"select", "drain", "post", "repush", "done"}
        BY <2>2
      <4> QED
        BY <1>6, <4>1, <4>2, <4>3, <4>4 DEF Drained, queueVars, wakeVars, stopVars, netVars
    <3>2. ControlInv'
      BY <1>6, <2>2 DEF Drained, queueVars, wakeVars, stopVars, netVars
    <3> QED
      BY <3>1, <3>2
  <2>3. CASE UNCHANGED <<batch, pending, attempt, handled>> /\ NextPass
    BY <1>6, <2>3 DEF Drained, NextPass, queueVars, wakeVars, stopVars, netVars
  <2> QED
    BY <1>6, <2>2, <2>3 DEF Drained
<1>7. CASE PostSucceeds
  <2>1. <<>> \in Seq(Span)
    BY EmptySeq
  <2> QED
    BY <1>7, <2>1 DEF PostSucceeds, NextPass, queueVars, wakeVars, stopVars, netVars
<1>8. CASE PostFails
  <2>1. failures + 1 \in 1 .. MaxFailures
    BY <1>8 DEF PostFails
  <2>2. Orphans \subseteq Request
    BY <2>1 DEF Orphans, Request
  <2>3. late' \subseteq Request
    BY <1>8, <2>2 DEF PostFails
  <2>4. /\ attempt' \in 1 .. Attempts
        /\ \/ pc' = "post" /\ attempt' < Attempts /\ failed' = FALSE
           \/ pc' = "repush" /\ failed' = TRUE
    <3>1. attempt' = attempt + 1 /\ attempt + 1 \in 1 .. Attempts
      BY <1>8 DEF PostFails
    <3>2. CASE attempt + 1 = Attempts
      <4>1. ~(attempt + 1 < Attempts)
        BY <3>1, <3>2
      <4>2. pc' = "repush" /\ failed' = TRUE
        BY <1>8, <3>2, <4>1, Zenon DEF PostFails, AfterFailure
      <4> QED
        BY <3>1, <4>2
    <3>3. CASE attempt + 1 # Attempts
      <4>1. attempt + 1 < Attempts
        BY <3>1, <3>3
      <4>2. pc' = "post" /\ failed' = FALSE
        BY <1>8, <3>3, <4>1 DEF PostFails, AfterFailure
      <4> QED
        BY <3>1, <4>1, <4>2
    <3> QED
      BY <3>2, <3>3
  <2>5. TypeOK'
    <3>1. pc' \in {"select", "drain", "post", "repush", "done"} /\ failed' \in BOOLEAN
      BY <2>4
    <3>2. attempt' \in 0 .. Attempts /\ failures' \in 0 .. MaxFailures
      BY <1>8, <2>1, <2>4 DEF PostFails
    <3>3. handled' \in BOOLEAN
      BY <1>8 DEF PostFails
    <3> QED
      BY <1>8, <2>3, <3>1, <3>2, <3>3 DEF PostFails, queueVars, wakeVars, stopVars
  <2>6. ControlInv'
    BY <1>8, <2>4 DEF PostFails, wakeVars, stopVars
  <2> QED
    BY <2>5, <2>6
<1>9. CASE RepushOne
  <2>1. Head(batch) \in Span /\ Tail(batch) \in Seq(Span)
    BY <1>9, ToSetHeadTail DEF RepushOne
  <2>2. /\ ring' \in Seq(Span) /\ Len(ring') <= Cap
        /\ discarded' \subseteq Span
    BY <1>9, <2>1, PushRingProperties DEF RepushOne
  <2> QED
    BY <1>9, <2>1, <2>2 DEF RepushOne, wakeVars, stopVars, netVars
<1>10. CASE Repushed
  BY <1>10 DEF Repushed, NextPass, queueVars, wakeVars, stopVars, netVars
<1>11. CASE Handle
  <2>1. copies' \in [Span -> Nat]
    BY <1>11, CountedProperties DEF Handle
  <2> QED
    BY <1>11, <2>1 DEF Handle, queueVars, wakeVars, stopVars
<1>12. CASE HandleLate
  <2>1. PICK r \in late : late' = late \ {r} /\ copies' = Counted(r.spans)
    BY <1>12 DEF HandleLate
  <2>2. copies' \in [Span -> Nat]
    BY <2>1, CountedProperties
  <2> QED
    BY <1>12, <2>1, <2>2 DEF HandleLate, queueVars, wakeVars, stopVars, loopVars
<1>13. CASE UNCHANGED vars
  BY <1>13 DEF vars, queueVars, wakeVars, stopVars, loopVars, netVars
<1> QED
  BY <1>1, <1>2, <1>3, <1>4, <1>5, <1>6, <1>7, <1>8, <1>9, <1>10, <1>11, <1>12, <1>13
  DEF Next, Loop

LEMMA HandledStep ==
  ASSUME IInv, [Next]_vars
  PROVE  HandledIsStored'
<1>0. /\ TypeOK /\ HandledIsStored
      /\ Stored \subseteq Stored'
  BY NothingIsTakenBack DEF IInv
<1>1. CASE Handle
  <2>1. batch' = batch /\ ToSet(batch) \subseteq Span
    BY <1>0, <1>1, ToSetInSpan DEF Handle, TypeOK
  <2>2. ToSet(batch) \cap Span \subseteq Stored'
    BY <1>0, <1>1, CountedProperties DEF Handle
  <2> QED
    BY <2>1, <2>2 DEF HandledIsStored
<1>2. CASE UNCHANGED <<pc, batch, handled>>
  BY <1>0, <1>2 DEF HandledIsStored
<1>3. CASE pc' # "post" \/ handled' = FALSE
  BY <1>3 DEF HandledIsStored
<1>4. CASE Enqueue \/ Notify \/ Shutdown \/ HandleLate \/ UNCHANGED vars
  BY <1>2, <1>4 DEF Enqueue, Notify, Shutdown, HandleLate, vars, loopVars
<1>5. CASE Loop
  BY <1>2, <1>3, <1>5 DEF Loop, Select, DrainOne, Drained, PostSucceeds, PostFails, RepushOne,
                          Repushed, NextPass
<1> QED
  BY <1>1, <1>4, <1>5 DEF Next

\* No step loses sight of a span, the one that hands pending to flush included.
LEMMA SpansStep ==
  ASSUME IInv, [Next]_vars
  PROVE  NothingVanishes'
<1> DEFINE Kept == Held \cup Stored \cup discarded
<1>0. /\ TypeOK /\ ControlInv /\ HandledIsStored
      /\ Stored \subseteq Stored' /\ discarded \subseteq discarded'
      /\ 1 .. born \subseteq Kept
  BY NothingIsTakenBack DEF IInv, NothingVanishes
<1>1. CASE born' = born /\ Held \subseteq Kept'
  BY <1>0, <1>1 DEF NothingVanishes
<1>2. CASE UNCHANGED <<ring, pending, batch, born>>
  BY <1>1, <1>2 DEF Held
<1>3. CASE Enqueue
  <2>0. born' = born + 1 /\ PushRing(born + 1) /\ UNCHANGED <<pending, batch>>
    BY <1>3 DEF Enqueue, loopVars
  <2>1. born + 1 \in Span
    BY <1>0, <1>3, ExporterAssumption DEF Enqueue, Span, TypeOK
  <2>2. ToSet(ring) \cup {born + 1} \subseteq ToSet(ring') \cup discarded'
    BY <1>0, <2>0, <2>1, PushRingProperties
  <2>3. 1 .. born' \subseteq 1 .. born \cup {born + 1}
    BY <1>0, <2>0 DEF TypeOK
  <2> QED
    BY <1>0, <2>0, <2>2, <2>3 DEF NothingVanishes, Held
<1>4. CASE Notify \/ Shutdown \/ Handle \/ HandleLate \/ UNCHANGED vars
  BY <1>2, <1>4 DEF Notify, Shutdown, Handle, HandleLate, vars, queueVars, loopVars
<1>5. CASE DrainOne
  <2>1. /\ Head(ring) \in Span
        /\ ToSet(ring) = {Head(ring)} \cup ToSet(Tail(ring))
    BY <1>0, <1>5, ToSetHeadTail DEF DrainOne, TypeOK
  <2>2. ToSet(pending') = ToSet(pending) \cup {Head(ring)}
    BY <1>0, <1>5, <2>1, ToSetAppend DEF DrainOne, TypeOK
  <2>3. Held \subseteq Held'
    BY <1>5, <2>1, <2>2 DEF DrainOne, Held
  <2> QED
    BY <1>1, <1>5, <2>3 DEF DrainOne
<1>6. CASE Drained
  <2>1. CASE batch' = pending /\ pending' = <<>>
    <3>1. batch = <<>> /\ UNCHANGED <<ring, born>>
      BY <1>0, <1>6 DEF Drained, ControlInv, queueVars
    <3>2. Held \subseteq Held'
      BY <2>1, <3>1, ToSetEmpty DEF Held
    <3> QED
      BY <1>1, <3>1, <3>2
  <2>2. CASE UNCHANGED <<batch, pending>>
    BY <1>2, <1>6, <2>2 DEF Drained, queueVars
  <2> QED
    BY <1>6, <2>1, <2>2 DEF Drained
<1>7. CASE PostSucceeds
  <2>1. ToSet(batch) \subseteq Stored
    BY <1>0, <1>7 DEF PostSucceeds, AnswerOK, HandledIsStored
  <2> QED
    BY <1>0, <1>1, <1>7, <2>1 DEF PostSucceeds, queueVars, Held
<1>8. CASE RepushOne
  <2>1. /\ Head(batch) \in Span
        /\ ToSet(batch) = {Head(batch)} \cup ToSet(Tail(batch))
    BY <1>0, <1>8, ToSetHeadTail DEF RepushOne, TypeOK
  <2>2. ToSet(ring) \cup {Head(batch)} \subseteq ToSet(ring') \cup discarded'
    BY <1>0, <1>8, <2>1, PushRingProperties DEF RepushOne
  <2>3. Held \subseteq Kept'
    BY <1>0, <1>8, <2>1, <2>2 DEF RepushOne, Held
  <2> QED
    BY <1>1, <1>8, <2>3 DEF RepushOne
<1>9. CASE (\E c \in Cause : Select(c)) \/ PostFails \/ Repushed
  BY <1>2, <1>9 DEF Select, PostFails, Repushed, queueVars
<1> QED
  BY <1>3, <1>4, <1>5, <1>6, <1>7, <1>8, <1>9 DEF Next, Loop

\* No step loses a wake-up: the loop goes back to its select over an empty ring, or with
\* the token of what arrived since.
LEMMA WakeupStep ==
  ASSUME IInv, [Next]_vars
  PROVE  WakeupKept' /\ WakeupNotLost'
<1>0. /\ waking \in Nat /\ notify \in BOOLEAN
      /\ ControlInv /\ WakeupKept /\ WakeupNotLost
  BY DEF IInv, TypeOK
<1> USE DEF WakeupKept, WakeupNotLost
<1>1. CASE Enqueue
  <2>1. waking' > 0
    BY <1>0, <1>1 DEF Enqueue
  <2> QED
    BY <2>1
<1>2. CASE Notify
  BY <1>2 DEF Notify
<1>3. CASE UNCHANGED <<pc, ring, notify, waking, failed>>
  BY <1>0, <1>3
<1>4. CASE Shutdown \/ Handle \/ HandleLate \/ UNCHANGED vars
  BY <1>3, <1>4 DEF Shutdown, Handle, HandleLate, vars, queueVars, wakeVars, loopVars
<1>5. CASE pc' \notin {"select", "post"}
  BY <1>5
<1>6. CASE (\E c \in Cause : Select(c)) \/ DrainOne \/ RepushOne
  BY <1>0, <1>5, <1>6 DEF Select, DrainOne, RepushOne
<1>7. CASE Drained
  BY <1>7 DEF Drained, DrainEnds, queueVars
<1>8. CASE PostSucceeds
  BY <1>0, <1>8 DEF PostSucceeds, NextPass, queueVars, wakeVars
<1>9. CASE PostFails
  BY <1>0, <1>9 DEF PostFails, AfterFailure, queueVars, wakeVars
<1>10. CASE Repushed
  BY <1>0, <1>10 DEF Repushed, NextPass, ControlInv, queueVars, wakeVars
<1> QED
  BY <1>1, <1>2, <1>4, <1>6, <1>7, <1>8, <1>9, <1>10 DEF Next, Loop

\* The last pass of the loop takes with it what was pushed before close(stop).
LEMMA FlushStep ==
  ASSUME IInv, [Next]_vars
  PROVE  LastBatch' /\ FlushedOnStop'
<1>0. /\ TypeOK /\ ControlInv /\ HandledIsStored /\ NothingVanishes
      /\ LastBatch /\ FlushedOnStop
      /\ Stored \subseteq Stored' /\ discarded \subseteq discarded'
  BY NothingIsTakenBack DEF IInv
<1> USE DEF LastBatch, FlushedOnStop
<1>1. CASE /\ UNCHANGED <<pc, cause, batch, failed>>
           /\ bornAtStop' = bornAtStop
  BY <1>0, <1>1
<1>2. CASE Enqueue \/ Notify \/ Handle \/ HandleLate \/ DrainOne \/ UNCHANGED vars
  BY <1>1, <1>2 DEF Enqueue, Notify, Handle, HandleLate, DrainOne, vars, stopVars, loopVars
<1>3. CASE pc' \notin {"post", "done"}
  BY <1>3
<1>4. CASE (\E c \in Cause : Select(c)) \/ RepushOne
  BY <1>0, <1>3, <1>4, <1>1 DEF Select, RepushOne
<1>5. CASE Shutdown
  <2>1. ~stop /\ cause # "stop" /\ pc # "done" /\ UNCHANGED <<pc, cause>>
    BY <1>0, <1>5 DEF Shutdown, ControlInv, loopVars
  <2> QED
    BY <1>0, <2>1
<1>6. CASE Drained
  <2>1. /\ batch = <<>> /\ ToSet(ring) = {} /\ ToSet(batch) = {}
        /\ bornAtStop' = bornAtStop
    BY <1>0, <1>6, ToSetEmpty DEF Drained, DrainEnds, ControlInv, stopVars
  <2>2. 1 .. bornAtStop \subseteq ToSet(pending) \cup Stored \cup discarded
    BY <1>0, <2>1 DEF NothingVanishes, Held, ControlInv, TypeOK
  <2>3. CASE batch' = pending /\ pc' = "post"
    BY <1>0, <2>1, <2>2, <2>3
  <2>4. CASE ~MustFlush /\ NextPass
    <3>1. pc' = "done" => cause = "stop"
      BY <2>4 DEF NextPass
    <3>2. cause = "stop" => ToSet(pending) = {}
      BY <2>4, ToSetEmpty DEF MustFlush
    <3>3. pc' # "post"
      BY <2>4 DEF NextPass
    <3> QED
      BY <1>0, <2>1, <2>2, <3>1, <3>2, <3>3
  <2> QED
    BY <1>6, <2>3, <2>4 DEF Drained
<1>7. CASE PostSucceeds
  <2>1. ToSet(batch) \subseteq Stored
    BY <1>0, <1>7 DEF PostSucceeds, AnswerOK, HandledIsStored
  <2>2. /\ pc = "post" /\ bornAtStop' = bornAtStop
        /\ pc' = IF cause = "stop" THEN "done" ELSE "select"
    BY <1>7 DEF PostSucceeds, NextPass, stopVars
  <2> QED
    BY <1>0, <2>1, <2>2
<1>8. CASE PostFails
  BY <1>0, <1>8 DEF PostFails, AfterFailure, stopVars
<1>9. CASE Repushed
  <2>1. pc' # "post" /\ failed'
    BY <1>0, <1>9 DEF Repushed, NextPass, ControlInv
  <2> QED
    BY <2>1
<1> QED
  BY <1>2, <1>4, <1>5, <1>6, <1>7, <1>8, <1>9 DEF Next, Loop

-------------------------------------------------------------------------------
(* A span is held once.                                                          *)

\* Appending a new element to a sequence without repetitions keeps it so.
LEMMA InjectiveAppend ==
  ASSUME NEW S, NEW q \in Seq(S), IsInjective(q), NEW e \in S, e \notin ToSet(q)
  PROVE  IsInjective(Append(q, e))
<1> DEFINE a == Append(q, e)
           n == Len(q)
<1>1. /\ n \in Nat /\ DOMAIN q = 1 .. n
      /\ DOMAIN a = 1 .. n + 1
      /\ \A i \in 1 .. n : a[i] = q[i]
      /\ a[n + 1] = e
  BY AppendProperties
<1>2. \A i \in 1 .. n : q[i] # e
  BY <1>1 DEF ToSet
<1>3. \A i, j \in 1 .. n : q[i] = q[j] => i = j
  BY <1>1 DEF IsInjective
<1> HIDE DEF a, n
<1>4. ASSUME NEW i \in 1 .. n + 1, NEW j \in 1 .. n + 1, a[i] = a[j]
      PROVE  i = j
  <2>1. CASE i = n + 1 /\ j = n + 1
    BY <2>1
  <2>2. CASE i = n + 1 /\ j # n + 1
    <3>1. j \in 1 .. n
      BY <1>1, <2>2
    <3> QED
      BY <1>1, <1>2, <1>4, <2>2, <3>1
  <2>3. CASE i # n + 1 /\ j = n + 1
    <3>1. i \in 1 .. n
      BY <1>1, <2>3
    <3> QED
      BY <1>1, <1>2, <1>4, <2>3, <3>1
  <2>4. CASE i # n + 1 /\ j # n + 1
    <3>1. i \in 1 .. n /\ j \in 1 .. n
      BY <1>1, <2>4
    <3> QED
      BY <1>1, <1>3, <1>4, <3>1
  <2> QED
    BY <2>1, <2>2, <2>3, <2>4
<1>5. IsInjective(a)
  BY <1>1, <1>4 DEF IsInjective
<1> QED
  BY <1>5 DEF a

\* The rest of a sequence without repetitions has none, its head included.
LEMMA InjectiveTail ==
  ASSUME NEW S, NEW q \in Seq(S), q # <<>>, IsInjective(q)
  PROVE  IsInjective(Tail(q)) /\ Head(q) \notin ToSet(Tail(q))
<1> DEFINE t == Tail(q)
           n == Len(q)
<1>1. /\ n \in Nat \ {0} /\ DOMAIN q = 1 .. n
      /\ Head(q) = q[1]
      /\ t \in Seq(S) /\ Len(t) = n - 1
      /\ \A i \in 1 .. n - 1 : t[i] = q[i + 1]
  BY EmptySeq, HeadTailProperties
<1>2. DOMAIN t = 1 .. n - 1
  BY <1>1
<1>3. \A i, j \in 1 .. n : q[i] = q[j] => i = j
  BY <1>1 DEF IsInjective
<1> HIDE DEF t, n
<1>4. IsInjective(t)
  <2>1. ASSUME NEW i \in 1 .. n - 1, NEW j \in 1 .. n - 1, t[i] = t[j]
        PROVE  i = j
    <3>1. i + 1 \in 1 .. n /\ j + 1 \in 1 .. n /\ q[i + 1] = q[j + 1]
      BY <1>1, <2>1
    <3> QED
      BY <1>3, <3>1
  <2> QED
    BY <1>2, <2>1 DEF IsInjective
<1>5. Head(q) \notin ToSet(t)
  <2>1. ASSUME NEW i \in 1 .. n - 1, t[i] = q[1]
        PROVE  FALSE
    <3>1. i + 1 \in 1 .. n /\ 1 \in 1 .. n /\ q[i + 1] = q[1] /\ i + 1 # 1
      BY <1>1, <2>1
    <3> QED
      BY <1>3, <3>1
  <2> QED
    BY <1>1, <1>2, <2>1 DEF ToSet
<1> QED
  BY <1>4, <1>5 DEF t

\* A push of a new span trades what it discards for that span (spanRing.push).
LEMMA PushedExchanges ==
  ASSUME NEW S, NEW q \in Seq(S), Len(q) <= Cap, NEW e \in S,
         IsInjective(q), e \notin ToSet(q)
  PROVE  /\ IsInjective(Pushed(q, e))
         /\ Discarded(q) \subseteq ToSet(q)
         /\ ToSet(Pushed(q, e)) = (ToSet(q) \ Discarded(q)) \cup {e}
<1>0. Cap \in Nat \ {0} /\ Len(q) \in Nat
  BY CapAssumption
<1>1. CASE IsFull(q)
  <2> DEFINE t == Tail(q)
             h == Head(q)
  <2>1. q # <<>>
    BY <1>0, <1>1 DEF IsFull
  <2>2. h \in S /\ t \in Seq(S) /\ ToSet(q) = {h} \cup ToSet(t)
    BY <2>1, ToSetHeadTail
  <2>3. IsInjective(t) /\ h \notin ToSet(t)
    BY <2>1, InjectiveTail
  <2>4. Pushed(q, e) = Append(t, e) /\ Discarded(q) = {h}
    BY <1>1 DEF Pushed, Discarded
  <2> HIDE DEF t, h
  <2>5. e \notin ToSet(t)
    BY <2>2
  <2>6. IsInjective(Append(t, e)) /\ ToSet(Append(t, e)) = ToSet(t) \cup {e}
    BY <2>2, <2>3, <2>5, InjectiveAppend, ToSetAppend
  <2> QED
    BY <2>2, <2>3, <2>4, <2>6
<1>2. CASE ~IsFull(q)
  <2>1. Pushed(q, e) = Append(q, e) /\ Discarded(q) = {}
    BY <1>2 DEF Pushed, Discarded
  <2>2. IsInjective(Append(q, e)) /\ ToSet(Append(q, e)) = ToSet(q) \cup {e}
    BY InjectiveAppend, ToSetAppend
  <2> QED
    BY <2>1, <2>2
<1> QED
  BY <1>1, <1>2

\* As many spans are in a sequence without repetitions as it is long.
LEMMA InjectiveCardinality ==
  ASSUME NEW S, NEW q \in Seq(S), IsInjective(q)
  PROVE  IsFiniteSet(ToSet(q)) /\ Cardinality(ToSet(q)) = Len(q)
<1>1. Len(q) \in Nat /\ DOMAIN q = 1 .. Len(q) /\ q \in [1 .. Len(q) -> S]
  OBVIOUS
<1>2. q \in Bijection(1 .. Len(q), ToSet(q))
  <2>1. q \in [1 .. Len(q) -> ToSet(q)]
    BY <1>1 DEF ToSet
  <2>2. \A x \in ToSet(q) : \E i \in 1 .. Len(q) : q[i] = x
    BY <1>1 DEF ToSet
  <2> QED
    BY <2>1, <2>2 DEF Bijection, Injection, Surjection
<1>3. ExistsBijection(1 .. Len(q), ToSet(q))
  BY <1>2 DEF ExistsBijection
<1> QED
  BY <1>1, <1>3, FS_CountingElements, FS_NatBijection

-------------------------------------------------------------------------------
(* Who holds a span, and what copies of it are still to come.                    *)

\* A span is in one of the three sequences, once.
HeldOnce ==
  /\ IsInjective(ring) /\ IsInjective(pending) /\ IsInjective(batch)
  /\ ToSet(ring) \cap ToSet(pending) = {}
  /\ ToSet(ring) \cap ToSet(batch) = {}
  /\ ToSet(pending) \cap ToSet(batch) = {}

\* Nobody has a span before it is pushed.
OnlyBorn ==
  /\ Held \subseteq 1 .. born
  /\ Stored \subseteq 1 .. born
  /\ \A r \in late : ToSet(r.spans) \subseteq 1 .. born

\* The batch while the server may still handle its request for the first time.
Outgoing == IF pc = "post" /\ handled THEN {} ELSE ToSet(batch)

\* The spans of which the loop may yet make the server a copy.
Live == ToSet(ring) \cup ToSet(pending) \cup Outgoing

\* The abandoned requests that may yet make the server a copy of s.
Owed(s) == {r \in late : s \in ToSet(r.spans)}

LateKnown == IsFiniteSet(late) /\ \A r \in late : r.id <= failures

\* The copies of a span the server has and may yet get exceed one only by failed attempts.
Paid ==
  \A s \in Span :
    copies[s] + Cardinality(Owed(s)) + (IF s \in Live THEN 1 ELSE 0) <= 1 + failures

CountInv == HeldOnce /\ OnlyBorn /\ LateKnown /\ Paid

LEMMA InitCount == Init => CountInv
<1> SUFFICES ASSUME Init PROVE CountInv
  OBVIOUS
<1> USE DEF Init
<1>1. ToSet(ring) = {} /\ ToSet(pending) = {} /\ ToSet(batch) = {} /\ Stored = {}
  BY ToSetEmpty DEF Stored
<1>2. HeldOnce
  BY <1>1 DEF HeldOnce, IsInjective
<1>3. OnlyBorn
  BY <1>1 DEF OnlyBorn, Held
<1>4. LateKnown
  BY FS_EmptySet DEF LateKnown
<1>5. ASSUME NEW s \in Span
      PROVE  copies[s] + Cardinality(Owed(s)) + (IF s \in Live THEN 1 ELSE 0) <= 1 + failures
  <2>1. Owed(s) = {} /\ Live = {}
    BY <1>1 DEF Owed, Live, Outgoing
  <2> QED
    BY <2>1, FS_EmptySet
<1> QED
  BY <1>2, <1>3, <1>4, <1>5 DEF CountInv, Paid

\* Spans move from one sequence to the next, and none is left in both.
LEMMA HeldStep ==
  ASSUME IInv, HeldOnce, OnlyBorn, [Next]_vars
  PROVE  HeldOnce'
<1>0. TypeOK /\ ControlInv
  BY DEF IInv
<1> USE DEF HeldOnce
<1>1. CASE UNCHANGED <<ring, pending, batch>>
  BY <1>1
<1>2. CASE Enqueue
  <2> DEFINE e == born + 1
  <2>1. PushRing(e) /\ UNCHANGED <<pending, batch>> /\ e \in Span
    BY <1>0, <1>2, ExporterAssumption DEF Enqueue, loopVars, Span, TypeOK
  <2>2. e \notin ToSet(ring) /\ e \notin ToSet(pending) /\ e \notin ToSet(batch)
    BY <1>0 DEF OnlyBorn, Held, TypeOK
  <2> HIDE DEF e
  <2>3. /\ IsInjective(ring')
        /\ ToSet(ring') = (ToSet(ring) \ Discarded(ring)) \cup {e}
    BY <1>0, <2>1, <2>2, PushedExchanges DEF PushRing, TypeOK
  <2> QED
    BY <2>1, <2>2, <2>3
<1>3. CASE DrainOne
  <2> DEFINE h == Head(ring)
  <2>1. /\ ring' = Tail(ring) /\ ring # <<>> /\ ring \in Seq(Span) /\ pending \in Seq(Span)
        /\ pending' = Append(pending, h) /\ batch' = batch
    BY <1>0, <1>3 DEF DrainOne, TypeOK
  <2>2. h \in Span /\ ToSet(ring) = {h} \cup ToSet(ring')
    BY <2>1, ToSetHeadTail
  <2>3. IsInjective(ring') /\ h \notin ToSet(ring')
    BY <2>1, InjectiveTail
  <2> HIDE DEF h
  <2>4. h \notin ToSet(pending)
    BY <2>2
  <2>5. IsInjective(pending') /\ ToSet(pending') = ToSet(pending) \cup {h}
    BY <2>1, <2>2, <2>4, InjectiveAppend, ToSetAppend
  <2> QED
    BY <2>1, <2>2, <2>3, <2>5
<1>4. CASE Drained
  <2>1. ring' = ring /\ batch = <<>>
    BY <1>0, <1>4 DEF Drained, queueVars, ControlInv
  <2>2. CASE batch' = pending /\ pending' = <<>>
    BY <2>1, <2>2, ToSetEmpty
  <2> QED
    BY <1>1, <1>4, <2>1, <2>2 DEF Drained
<1>5. CASE PostSucceeds
  <2>1. batch' = <<>> /\ UNCHANGED <<ring, pending>>
    BY <1>5 DEF PostSucceeds, queueVars
  <2>2. IsInjective(batch')
    BY <2>1 DEF IsInjective
  <2> QED
    BY <2>1, <2>2, ToSetEmpty
<1>6. CASE RepushOne
  <2> DEFINE h == Head(batch)
  <2>1. /\ PushRing(h) /\ batch' = Tail(batch) /\ batch # <<>> /\ batch \in Seq(Span)
        /\ pending' = pending
    BY <1>0, <1>6 DEF RepushOne, TypeOK
  <2>2. h \in Span /\ ToSet(batch) = {h} \cup ToSet(batch')
    BY <2>1, ToSetHeadTail
  <2>3. IsInjective(batch') /\ h \notin ToSet(batch')
    BY <2>1, InjectiveTail
  <2> HIDE DEF h
  <2>4. h \notin ToSet(ring)
    BY <2>2
  <2>5. IsInjective(ring') /\ ToSet(ring') = (ToSet(ring) \ Discarded(ring)) \cup {h}
    BY <1>0, <2>1, <2>2, <2>4, PushedExchanges DEF PushRing, TypeOK
  <2> QED
    BY <2>1, <2>2, <2>3, <2>5
<1>7. CASE Notify \/ Shutdown \/ Handle \/ HandleLate \/ UNCHANGED vars
  BY <1>1, <1>7 DEF Notify, Shutdown, Handle, HandleLate, vars, queueVars, loopVars
<1>8. CASE (\E c \in Cause : Select(c)) \/ PostFails \/ Repushed
  BY <1>1, <1>8 DEF Select, PostFails, Repushed, queueVars
<1> QED
  BY <1>2, <1>3, <1>4, <1>5, <1>6, <1>7, <1>8 DEF Next, Loop

\* Which spans are held after a step: a push adds its span for what the ring discards, a
\* span pushed back leaves the batch for the ring, and a posted batch is let go.
LEMMA HeldMoves ==
  ASSUME IInv, HeldOnce, OnlyBorn
  PROVE  /\ Enqueue => Held' = (Held \ Discarded(ring)) \cup {born + 1}
         /\ RepushOne => Held' = Held \ Discarded(ring)
         /\ PostSucceeds => Held' = Held \ ToSet(batch)
         /\ DrainOne \/ Drained => Held' = Held
<1>0. TypeOK /\ ControlInv
  BY DEF IInv
<1> USE DEF HeldOnce, Held
<1>1. ASSUME Enqueue
      PROVE  Held' = (Held \ Discarded(ring)) \cup {born + 1}
  <2> DEFINE e == born + 1
  <2>1. PushRing(e) /\ UNCHANGED <<pending, batch>> /\ e \in Span
    BY <1>0, <1>1, ExporterAssumption DEF Enqueue, loopVars, Span, TypeOK
  <2>2. e \notin ToSet(ring) /\ e \notin ToSet(pending) /\ e \notin ToSet(batch)
    BY <1>0 DEF OnlyBorn, TypeOK
  <2> HIDE DEF e
  <2>3. /\ Discarded(ring) \subseteq ToSet(ring)
        /\ ToSet(ring') = (ToSet(ring) \ Discarded(ring)) \cup {e}
    BY <1>0, <2>1, <2>2, PushedExchanges DEF PushRing, TypeOK
  <2>4. Held' = (Held \ Discarded(ring)) \cup {e}
    BY <2>1, <2>2, <2>3
  <2> QED
    BY <2>4 DEF e
<1>2. ASSUME RepushOne
      PROVE  Held' = Held \ Discarded(ring)
  <2> DEFINE h == Head(batch)
  <2>1. /\ PushRing(h) /\ batch' = Tail(batch) /\ batch # <<>> /\ batch \in Seq(Span)
        /\ pending' = pending
    BY <1>0, <1>2 DEF RepushOne, TypeOK
  <2>2. h \in Span /\ ToSet(batch) = {h} \cup ToSet(batch')
    BY <2>1, ToSetHeadTail
  <2> HIDE DEF h
  <2>3. h \notin ToSet(ring)
    BY <2>2
  <2>4. /\ Discarded(ring) \subseteq ToSet(ring)
        /\ ToSet(ring') = (ToSet(ring) \ Discarded(ring)) \cup {h}
    BY <1>0, <2>1, <2>2, <2>3, PushedExchanges DEF PushRing, TypeOK
  <2> QED
    BY <2>1, <2>2, <2>3, <2>4
<1>3. ASSUME PostSucceeds
      PROVE  Held' = Held \ ToSet(batch)
  <2>1. batch' = <<>> /\ UNCHANGED <<ring, pending>>
    BY <1>3 DEF PostSucceeds, queueVars
  <2> QED
    BY <2>1, ToSetEmpty
<1>4. ASSUME DrainOne
      PROVE  Held' = Held
  <2> DEFINE h == Head(ring)
  <2>1. /\ ring' = Tail(ring) /\ ring # <<>> /\ ring \in Seq(Span) /\ pending \in Seq(Span)
        /\ pending' = Append(pending, h) /\ batch' = batch
    BY <1>0, <1>4 DEF DrainOne, TypeOK
  <2>2. h \in Span /\ ToSet(ring) = {h} \cup ToSet(ring')
    BY <2>1, ToSetHeadTail
  <2> HIDE DEF h
  <2>3. ToSet(pending') = ToSet(pending) \cup {h}
    BY <2>1, <2>2, ToSetAppend
  <2> QED
    BY <2>1, <2>2, <2>3
<1>5. ASSUME Drained
      PROVE  Held' = Held
  <2>1. ring' = ring /\ batch = <<>>
    BY <1>0, <1>5 DEF Drained, queueVars, ControlInv
  <2>2. CASE batch' = pending /\ pending' = <<>>
    BY <2>1, <2>2, ToSetEmpty
  <2>3. CASE UNCHANGED <<batch, pending>>
    BY <2>1, <2>3
  <2> QED
    BY <1>5, <2>2, <2>3 DEF Drained
<1> QED
  BY <1>1, <1>2, <1>3, <1>4, <1>5

\* Nothing a step does brings in a span that was not pushed.
LEMMA BornStep ==
  ASSUME IInv, HeldOnce, OnlyBorn, [Next]_vars
  PROVE  OnlyBorn'
<1>0. TypeOK /\ ControlInv
  BY DEF IInv
<1>1. CASE born' = born /\ Held' \subseteq Held /\ Stored' = Stored /\ late' = late
  BY <1>1 DEF OnlyBorn
<1>2. CASE Enqueue
  <2>1. /\ Held' \subseteq Held \cup {born + 1}
        /\ born' = born + 1 /\ Stored' = Stored /\ late' = late
    BY <1>2, HeldMoves DEF Enqueue, netVars, Stored
  <2>2. 1 .. born \cup {born + 1} \subseteq 1 .. born'
    BY <1>0, <2>1 DEF TypeOK
  <2> QED
    BY <2>1, <2>2 DEF OnlyBorn
<1>3. CASE DrainOne \/ Drained \/ PostSucceeds \/ RepushOne
  <2>1. Held' \subseteq Held
    BY <1>3, HeldMoves
  <2>2. born' = born /\ Stored' = Stored /\ late' = late
    BY <1>3 DEF DrainOne, Drained, PostSucceeds, RepushOne, netVars, Stored
  <2> QED
    BY <1>1, <2>1, <2>2
<1>4. CASE PostFails
  <2>1. UNCHANGED <<ring, pending, batch, born, copies>>
    BY <1>4 DEF PostFails, queueVars
  <2>2. Held' = Held /\ Stored' = Stored
    BY <2>1 DEF Held, Stored
  <2>3. ASSUME NEW r \in late' PROVE ToSet(r.spans) \subseteq 1 .. born
    <3>1. r \in late \/ r \in Orphans
      BY <1>4 DEF PostFails
    <3>2. r \in Orphans => r.spans = batch
      BY DEF Orphans
    <3> QED
      BY <3>1, <3>2 DEF OnlyBorn, Held
  <2> QED
    BY <2>1, <2>2, <2>3 DEF OnlyBorn
<1>5. CASE Handle
  <2>1. /\ copies' = Counted(batch)
        /\ UNCHANGED <<ring, pending, batch, born, late>>
    BY <1>5 DEF Handle, queueVars
  <2>2. Stored' \subseteq Stored \cup ToSet(batch)
    BY <1>0, <2>1 DEF Stored, Counted, TypeOK
  <2> QED
    BY <2>1, <2>2 DEF OnlyBorn, Held
<1>6. CASE HandleLate
  <2>1. PICK r \in late : late' = late \ {r} /\ copies' = Counted(r.spans)
    BY <1>6 DEF HandleLate
  <2>2. UNCHANGED <<ring, pending, batch, born>>
    BY <1>6 DEF HandleLate, queueVars, loopVars
  <2>3. Stored' \subseteq Stored \cup ToSet(r.spans)
    BY <1>0, <2>1 DEF Stored, Counted, TypeOK
  <2> QED
    BY <2>1, <2>2, <2>3 DEF OnlyBorn, Held
<1>7. CASE UNCHANGED <<ring, pending, batch, born, copies, late>>
  BY <1>1, <1>7 DEF Held, Stored
<1>8. CASE Notify \/ Shutdown \/ UNCHANGED vars
  BY <1>7, <1>8 DEF Notify, Shutdown, vars, queueVars, loopVars, netVars
<1>9. CASE (\E c \in Cause : Select(c)) \/ Repushed
  BY <1>7, <1>9 DEF Select, Repushed, queueVars, netVars
<1> QED
  BY <1>2, <1>3, <1>4, <1>5, <1>6, <1>8, <1>9 DEF Next, Loop

\* Only a failed attempt leaves a request behind, and that request is a new one.
LEMMA LateStep ==
  ASSUME IInv, LateKnown, [Next]_vars
  PROVE  LateKnown'
<1>0. TypeOK
  BY DEF IInv
<1> USE DEF LateKnown
<1>1. CASE PostFails
  <2>1. PICK L \in SUBSET Orphans : late' = late \cup L
    BY <1>1 DEF PostFails
  <2>2. failures' = failures + 1 /\ failures \in Nat
    BY <1>0, <1>1 DEF PostFails, TypeOK
  <2>3. L = {} \/ L = {[id |-> failures + 1, spans |-> batch]}
    BY <2>1 DEF Orphans
  <2>4. CASE L = {}
    BY <1>0, <2>1, <2>2, <2>4 DEF TypeOK, Request
  <2>5. CASE L = {[id |-> failures + 1, spans |-> batch]}
    <3>1. IsFiniteSet(late')
      BY <2>1, <2>5, FS_AddElement
    <3> QED
      BY <1>0, <2>1, <2>2, <2>5, <3>1 DEF TypeOK, Request
  <2> QED
    BY <2>3, <2>4, <2>5
<1>2. CASE HandleLate
  <2>1. PICK r \in late : late' = late \ {r}
    BY <1>2 DEF HandleLate
  <2>2. IsFiniteSet(late') /\ failures' = failures
    BY <1>2, <2>1, FS_RemoveElement DEF HandleLate
  <2> QED
    BY <2>1, <2>2
<1>3. CASE UNCHANGED <<late, failures>>
  BY <1>3
<1>4. CASE Enqueue \/ Notify \/ Shutdown \/ Handle \/ UNCHANGED vars
  BY <1>3, <1>4 DEF Enqueue, Notify, Shutdown, Handle, vars, netVars
<1>5. CASE (\E c \in Cause : Select(c)) \/ DrainOne \/ Drained \/ PostSucceeds \/ RepushOne \/ Repushed
  BY <1>3, <1>5 DEF Select, DrainOne, Drained, PostSucceeds, RepushOne, Repushed, netVars
<1> QED
  BY <1>1, <1>2, <1>4, <1>5 DEF Next, Loop

\* Which spans the loop may send after a step: a handled batch is no longer one to be
\* copied, and becomes one again when its attempt fails.
LEMMA LiveMoves ==
  ASSUME IInv, HeldOnce, OnlyBorn
  PROVE  /\ Enqueue => Live' \subseteq Live \cup {born + 1}
         /\ DrainOne \/ Drained \/ PostSucceeds \/ RepushOne => Live' \subseteq Live
         /\ Handle => Live' = Live \ ToSet(batch)
<1>0. TypeOK /\ ControlInv
  BY DEF IInv
<1> USE DEF Live, Outgoing
<1>1. ASSUME Enqueue PROVE Live' \subseteq Live \cup {born + 1}
  <2>1. PushRing(born + 1) /\ UNCHANGED <<pending, batch, pc, handled>> /\ born + 1 \in Span
    BY <1>0, <1>1, ExporterAssumption DEF Enqueue, loopVars, Span, TypeOK
  <2>2. born + 1 \notin ToSet(ring)
    BY <1>0 DEF OnlyBorn, Held, TypeOK
  <2>3. ToSet(ring') \subseteq ToSet(ring) \cup {born + 1}
    BY <1>0, <2>1, <2>2, PushedExchanges DEF PushRing, TypeOK, HeldOnce
  <2> QED
    BY <2>1, <2>3
<1>2. ASSUME DrainOne PROVE Live' \subseteq Live
  <2>1. /\ ring # <<>> /\ ring \in Seq(Span) /\ pending \in Seq(Span)
        /\ ring' = Tail(ring) /\ pending' = Append(pending, Head(ring))
        /\ UNCHANGED <<batch, pc, handled>>
    BY <1>0, <1>2 DEF DrainOne, TypeOK
  <2>2. Head(ring) \in Span /\ ToSet(ring) = {Head(ring)} \cup ToSet(ring')
    BY <2>1, ToSetHeadTail
  <2>3. ToSet(pending') = ToSet(pending) \cup {Head(ring)}
    BY <2>1, <2>2, ToSetAppend
  <2> QED
    BY <2>1, <2>2, <2>3
<1>3. ASSUME Drained PROVE Live' \subseteq Live
  <2>1. ring' = ring /\ batch = <<>> /\ pc = "drain"
    BY <1>0, <1>3 DEF Drained, queueVars, ControlInv
  <2>2. CASE batch' = pending /\ pending' = <<>>
    BY <2>1, <2>2, ToSetEmpty
  <2>3. CASE UNCHANGED <<batch, pending>>
    BY <2>1, <2>3, ToSetEmpty
  <2> QED
    BY <1>3, <2>2, <2>3 DEF Drained
<1>4. ASSUME PostSucceeds PROVE Live' \subseteq Live
  <2>1. batch' = <<>> /\ UNCHANGED <<ring, pending>>
    BY <1>4 DEF PostSucceeds, queueVars
  <2> QED
    BY <2>1, ToSetEmpty
<1>5. ASSUME RepushOne PROVE Live' \subseteq Live
  <2>1. /\ PushRing(Head(batch)) /\ batch' = Tail(batch) /\ batch # <<>> /\ batch \in Seq(Span)
        /\ UNCHANGED <<pending, pc>> /\ pc = "repush"
    BY <1>0, <1>5 DEF RepushOne, TypeOK
  <2>2. Head(batch) \in Span /\ ToSet(batch) = {Head(batch)} \cup ToSet(batch')
    BY <2>1, ToSetHeadTail
  <2>3. ToSet(ring') \subseteq ToSet(ring) \cup {Head(batch)}
    <3>1. Head(batch) \notin ToSet(ring)
      BY <2>2 DEF HeldOnce
    <3> QED
      BY <1>0, <2>1, <2>2, <3>1, PushedExchanges DEF PushRing, TypeOK, HeldOnce
  <2> QED
    BY <2>1, <2>2, <2>3
<1>6. ASSUME Handle PROVE Live' = Live \ ToSet(batch)
  <2>1. /\ pc = "post" /\ ~handled /\ handled'
        /\ UNCHANGED <<ring, pending, batch, pc>>
    BY <1>6 DEF Handle, queueVars
  <2> QED
    BY <2>1 DEF HeldOnce
<1> QED
  BY <1>1, <1>2, <1>3, <1>4, <1>5, <1>6

\* A span is copied by the attempt that has it live or by an abandoned request it is owed
\* by; a new copy is owed only when an attempt fails.
LEMMA PaidStep ==
  ASSUME IInv, CountInv, [Next]_vars
  PROVE  Paid'
<1>0. TypeOK /\ HeldOnce /\ OnlyBorn /\ LateKnown /\ Paid
  BY DEF IInv, CountInv
<1>1. /\ copies \in [Span -> Nat] /\ failures \in Nat /\ born \in Nat
      /\ ring \in Seq(Span) /\ pending \in Seq(Span) /\ batch \in Seq(Span)
  BY <1>0 DEF TypeOK
<1>2. \A s \in Span : IsFiniteSet(Owed(s)) /\ Cardinality(Owed(s)) \in Nat
  BY <1>0, FS_Subset, FS_CardinalityType DEF LateKnown, Owed
<1> DEFINE Due(s) == copies[s] + Cardinality(Owed(s)) + (IF s \in Live THEN 1 ELSE 0)
<1> SUFFICES ASSUME NEW s \in Span PROVE Due(s)' <= 1 + failures'
  BY DEF Paid
<1>3. Due(s) <= 1 + failures
  BY <1>0 DEF Paid
<1>4. CASE UNCHANGED <<copies, late, failures>> /\ (s \in Live' => s \in Live)
  <2>1. Owed(s)' = Owed(s)
    BY <1>4 DEF Owed
  <2> QED
    BY <1>1, <1>2, <1>3, <1>4, <2>1
<1>5. CASE UNCHANGED <<ring, pending, batch, pc, handled, copies, late, failures>>
  BY <1>4, <1>5 DEF Live, Outgoing
<1>6. CASE Enqueue
  <2>1. UNCHANGED <<copies, late, failures>> /\ Live' \subseteq Live \cup {born + 1}
    BY <1>0, <1>6, LiveMoves DEF Enqueue, netVars
  <2>2. CASE s # born + 1
    BY <1>4, <2>1, <2>2
  <2>3. CASE s = born + 1
    <3>1. copies'[s] = 0 /\ Owed(s)' = {}
      BY <1>0, <1>1, <2>1, <2>3 DEF OnlyBorn, Stored, Owed
    <3>2. Cardinality(Owed(s)') = 0 /\ failures' = failures
      BY <2>1, <3>1, FS_EmptySet
    <3> QED
      BY <1>1, <3>1, <3>2
  <2> QED
    BY <2>2, <2>3
<1>7. CASE DrainOne \/ Drained \/ PostSucceeds \/ RepushOne
  <2>1. Live' \subseteq Live
    BY <1>0, <1>7, LiveMoves
  <2>2. UNCHANGED <<copies, late, failures>>
    BY <1>7 DEF DrainOne, Drained, PostSucceeds, RepushOne, netVars
  <2> QED
    BY <1>4, <2>1, <2>2
<1>8. CASE PostFails
  <2>1. PICK L \in SUBSET Orphans : late' = late \cup L
    BY <1>8 DEF PostFails
  <2>2. /\ pc = "post" /\ failures' = failures + 1 /\ ~handled'
        /\ UNCHANGED <<ring, pending, batch, copies>>
    BY <1>8 DEF PostFails, queueVars
  <2>3. CASE L = {}
    <3>1. Owed(s)' = Owed(s)
      BY <2>1, <2>3 DEF Owed
    <3> QED
      BY <1>1, <1>2, <1>3, <2>2, <3>1
  <2>4. CASE L # {}
    <3> DEFINE r == [id |-> failures + 1, spans |-> batch]
    <3>1. ~handled /\ L = {r} /\ r.id = failures + 1 /\ r.spans = batch
      BY <2>1, <2>4 DEF Orphans
    <3>2. Live' = Live
      BY <2>2, <3>1 DEF Live, Outgoing
    <3> HIDE DEF r
    <3>3. CASE s \in ToSet(batch)
      <4>1. Owed(s)' = Owed(s) \cup {r}
        BY <2>1, <3>1, <3>3 DEF Owed
      <4>2. r \notin Owed(s)
        BY <1>0, <1>1, <3>1 DEF Owed, LateKnown
      <4>3. Cardinality(Owed(s)') = Cardinality(Owed(s)) + 1
        BY <1>2, <4>1, <4>2, FS_AddElement
      <4> QED
        BY <1>1, <1>2, <1>3, <2>2, <3>2, <4>3
    <3>4. CASE s \notin ToSet(batch)
      <4>1. Owed(s)' = Owed(s)
        BY <2>1, <3>1, <3>4 DEF Owed
      <4> QED
        BY <1>1, <1>2, <1>3, <2>2, <3>2, <4>1
    <3> QED
      BY <3>3, <3>4
  <2> QED
    BY <2>3, <2>4
<1>9. CASE Handle
  <2>1. /\ pc = "post" /\ ~handled
        /\ copies' = Counted(batch) /\ UNCHANGED <<late, failures>>
    BY <1>9 DEF Handle
  <2>2. Live' = Live \ ToSet(batch) /\ ToSet(batch) \subseteq Live
    BY <1>0, <1>9, <2>1, LiveMoves DEF Live, Outgoing
  <2>3. Owed(s)' = Owed(s) /\ failures' = failures
    BY <2>1 DEF Owed
  <2>4. copies'[s] = copies[s] + (IF s \in ToSet(batch) THEN 1 ELSE 0)
    BY <2>1 DEF Counted
  <2> QED
    BY <1>1, <1>2, <1>3, <2>2, <2>3, <2>4
<1>10. CASE HandleLate
  <2>1. PICK r \in late : late' = late \ {r} /\ copies' = Counted(r.spans)
    BY <1>10 DEF HandleLate
  <2>2. failures' = failures /\ Live' = Live
    BY <1>10 DEF HandleLate, queueVars, loopVars, Live, Outgoing
  <2>3. copies'[s] = copies[s] + (IF s \in ToSet(r.spans) THEN 1 ELSE 0)
    BY <2>1 DEF Counted
  <2>4. CASE s \in ToSet(r.spans)
    <3>1. Owed(s)' = Owed(s) \ {r} /\ r \in Owed(s)
      BY <2>1, <2>4 DEF Owed
    <3>2. Cardinality(Owed(s)') = Cardinality(Owed(s)) - 1
      BY <1>2, <3>1, FS_RemoveElement
    <3> QED
      BY <1>1, <1>2, <1>3, <2>2, <2>3, <2>4, <3>2
  <2>5. CASE s \notin ToSet(r.spans)
    <3>1. Owed(s)' = Owed(s)
      BY <2>1, <2>5 DEF Owed
    <3> QED
      BY <1>1, <1>2, <1>3, <2>2, <2>3, <2>5, <3>1
  <2> QED
    BY <2>4, <2>5
<1>11. CASE Notify \/ Shutdown \/ UNCHANGED vars
  BY <1>5, <1>11 DEF Notify, Shutdown, vars, queueVars, loopVars, netVars
<1>12. CASE (\E c \in Cause : Select(c)) \/ Repushed
  <2>1. UNCHANGED <<ring, pending, batch, handled, copies, late, failures>>
    BY <1>12 DEF Select, Repushed, queueVars, netVars
  <2>2. pc # "post" /\ pc' # "post"
    BY <1>12 DEF Select, Repushed, NextPass
  <2> QED
    BY <1>4, <2>1, <2>2 DEF Live, Outgoing
<1> QED
  BY <1>6, <1>7, <1>8, <1>9, <1>10, <1>11, <1>12 DEF Next, Loop

-------------------------------------------------------------------------------
(* The exporter implements SpanDelivery.                                         *)

\* A push that discards finds Cap spans in the ring, so as many are held.
LEMMA FullRingHeld ==
  ASSUME IInv, HeldOnce, OnlyBorn, IsFull(ring)
  PROVE  /\ Discarded(ring) = {Head(ring)} /\ Head(ring) \in Held
         /\ IsFiniteSet(Held) /\ Cardinality(Held) >= Cap
         /\ \A s \in Held \ ToSet(ring) : Cardinality(Held) > Cap
<1>1. /\ ring \in Seq(Span) /\ Len(ring) = Cap /\ Cap \in Nat \ {0} /\ born \in Nat
      /\ IsInjective(ring) /\ Held \subseteq 1 .. born /\ ToSet(ring) \subseteq Held
  BY CapAssumption DEF IInv, TypeOK, HeldOnce, OnlyBorn, IsFull, Held
<1>2. Discarded(ring) = {Head(ring)} /\ Head(ring) \in Held
  <2>1. ring # <<>>
    BY <1>1
  <2> QED
    BY <1>1, <2>1, ToSetHeadTail DEF Discarded, IsFull
<1>3. IsFiniteSet(Held)
  <2>1. IsFiniteSet(1 .. born)
    BY <1>1, FS_Interval
  <2> QED
    BY <1>1, <2>1, FS_Subset
<1>4. IsFiniteSet(ToSet(ring)) /\ Cardinality(ToSet(ring)) = Cap
  BY <1>1, InjectiveCardinality
<1>5. Cardinality(Held) >= Cap /\ Cardinality(Held) \in Nat
  <2>1. Cardinality(ToSet(ring)) <= Cardinality(Held)
    BY <1>1, <1>3, FS_Subset
  <2> QED
    BY <1>1, <1>3, <1>4, <2>1, FS_CardinalityType
<1>6. ASSUME NEW s \in Held \ ToSet(ring)
      PROVE  Cardinality(Held) > Cap
  <2>1. Held # ToSet(ring)
    BY <1>6
  <2>2. Cardinality(Held) # Cardinality(ToSet(ring))
    BY <1>1, <1>3, <2>1, FS_Subset
  <2> QED
    BY <1>1, <1>4, <1>5, <2>2
<1> QED
  BY <1>2, <1>3, <1>5, <1>6

LEMMA InitRefines == Init => Delivery!Init
<1> SUFFICES ASSUME Init PROVE Delivery!Init
  OBVIOUS
<1>1. Held = {} /\ Stored = {}
  BY ToSetEmpty DEF Init, Held, Stored
<1> QED
  BY <1>1 DEF Init, Delivery!Init

\* Every step is a step of SpanDelivery or leaves what it speaks of alone.
LEMMA NextRefines ==
  ASSUME IInv, CountInv, [Next]_vars
  PROVE  [Delivery!Next]_(Delivery!vars)
<1>0. /\ TypeOK /\ ControlInv /\ HandledIsStored
      /\ HeldOnce /\ OnlyBorn
  BY DEF IInv, CountInv
<1> USE DEF Delivery!Next, Delivery!vars
<1>1. CASE UNCHANGED <<born, discarded, copies>> /\ Held' = Held
  BY <1>1 DEF Stored
<1>2. CASE UNCHANGED <<ring, pending, batch, born, discarded, copies>>
  BY <1>1, <1>2 DEF Held
<1>3. CASE Enqueue
  <2>1. /\ born' = born + 1 /\ discarded' = discarded \cup Discarded(ring)
        /\ Stored' = Stored
        /\ Held' = (Held \ Discarded(ring)) \cup {born + 1}
    BY <1>0, <1>3, HeldMoves DEF Enqueue, PushRing, netVars, Stored
  <2>2. CASE IsFull(ring)
    <3>1. /\ Discarded(ring) = {Head(ring)} /\ Head(ring) \in Held
          /\ Cardinality(Held) >= Cap
      BY <1>0, <2>2, FullRingHeld
    <3>2. Delivery!AcceptDiscarding(Head(ring))
      BY <2>1, <3>1 DEF Delivery!AcceptDiscarding, Delivery!Cardinality, Cardinality
    <3> QED
      BY <3>1, <3>2
  <2>3. CASE ~IsFull(ring)
    <3>1. Delivery!Accept
      BY <2>1, <2>3 DEF Delivery!Accept, Discarded
    <3> QED
      BY <3>1
  <2> QED
    BY <2>2, <2>3
<1>4. CASE RepushOne
  <2>1. /\ born' = born /\ discarded' = discarded \cup Discarded(ring)
        /\ Stored' = Stored
        /\ Held' = Held \ Discarded(ring)
    BY <1>0, <1>4, HeldMoves DEF RepushOne, PushRing, netVars, Stored
  <2>2. CASE IsFull(ring)
    <3>1. Head(batch) \in Held \ ToSet(ring)
      <4>1. Head(batch) \in ToSet(batch)
        BY <1>0, <1>4, ToSetHeadTail DEF RepushOne, TypeOK
      <4> QED
        BY <1>0, <4>1 DEF HeldOnce, Held
    <3>2. /\ Discarded(ring) = {Head(ring)} /\ Head(ring) \in Held
          /\ Cardinality(Held) > Cap
      BY <1>0, <2>2, <3>1, FullRingHeld
    <3>3. Delivery!Discard(Head(ring))
      BY <2>1, <3>2 DEF Delivery!Discard, Delivery!Cardinality, Cardinality
    <3> QED
      BY <3>2, <3>3
  <2>3. CASE ~IsFull(ring)
    BY <2>1, <2>3 DEF Discarded
  <2> QED
    BY <2>2, <2>3
<1>5. CASE DrainOne \/ Drained
  <2>1. Held' = Held
    BY <1>0, <1>5, HeldMoves
  <2> QED
    BY <1>1, <1>5, <2>1 DEF DrainOne, Drained, queueVars, netVars
<1>6. CASE PostSucceeds
  <2>1. Held' = Held \ ToSet(batch)
    BY <1>0, <1>6, HeldMoves
  <2>2. ToSet(batch) \subseteq Stored /\ ToSet(batch) \subseteq 1 .. born
    BY <1>0, <1>6 DEF PostSucceeds, AnswerOK, HandledIsStored, OnlyBorn, Held
  <2>3. Delivery!Release(ToSet(batch))
    BY <1>6, <2>1, <2>2 DEF Delivery!Release, PostSucceeds, queueVars, netVars, Stored
  <2> QED
    BY <2>2, <2>3
<1>7. ASSUME NEW q, ToSet(q) \subseteq 1 .. born, copies' = Counted(q),
             UNCHANGED <<ring, pending, batch, born, discarded>>
      PROVE  Delivery!Next
  <2>1. Held' = Held
    BY <1>7 DEF Held
  <2>2. Stored' = Stored \cup ToSet(q)
    <3>1. \A s \in Span : copies'[s] = copies[s] + (IF s \in ToSet(q) THEN 1 ELSE 0)
      BY <1>7 DEF Counted
    <3>2. ToSet(q) \subseteq Span /\ copies \in [Span -> Nat]
      BY <1>0, <1>7, ExporterAssumption DEF TypeOK, Span
    <3> QED
      BY <3>1, <3>2 DEF Stored
  <2>3. Delivery!Receive(ToSet(q))
    BY <1>7, <2>1, <2>2 DEF Delivery!Receive
  <2> QED
    BY <1>7, <2>3
<1>8. CASE Handle
  <2>1. ToSet(batch) \subseteq 1 .. born
    BY <1>0 DEF OnlyBorn, Held
  <2> QED
    BY <1>7, <1>8, <2>1 DEF Handle, queueVars
<1>9. CASE HandleLate
  <2>1. PICK r \in late : copies' = Counted(r.spans)
    BY <1>9 DEF HandleLate
  <2>2. ToSet(r.spans) \subseteq 1 .. born
    BY <1>0 DEF OnlyBorn
  <2> QED
    BY <1>7, <1>9, <2>1, <2>2 DEF HandleLate, queueVars, loopVars
<1>10. CASE Notify \/ Shutdown \/ UNCHANGED vars
  BY <1>2, <1>10 DEF Notify, Shutdown, vars, queueVars, loopVars, netVars
<1>11. CASE (\E c \in Cause : Select(c)) \/ PostFails \/ Repushed
  BY <1>2, <1>11 DEF Select, PostFails, Repushed, queueVars, netVars
<1> QED
  BY <1>3, <1>4, <1>5, <1>6, <1>8, <1>9, <1>10, <1>11 DEF Next, Loop

-------------------------------------------------------------------------------
(* The theorems, for every capacity, batch size, number of attempts, of spans    *)
(* and of failures.                                                              *)

LEMMA ExporterInvariant == Spec => [](IInv /\ CountInv)
<1>1. Init => IInv /\ CountInv
  BY InitInv, InitCount
<1>2. IInv /\ [Next]_vars => IInv'
  BY TypeStep, HandledStep, SpansStep, WakeupStep, FlushStep DEF IInv
<1>3. IInv /\ CountInv /\ [Next]_vars => CountInv'
  BY HeldStep, BornStep, LateStep, PaidStep DEF CountInv
<1> QED
  BY <1>1, <1>2, <1>3, PTL DEF Spec

\* The state of an exporter is well-typed, its ring never holds more than Cap spans, and no
\* span vanishes between enqueue, drainRing, flush and postBatch.
THEOREM ExporterSafe == Spec => [](TypeOK /\ NothingVanishes)
<1>1. IInv => TypeOK /\ NothingVanishes
  BY DEF IInv
<1> QED
  BY <1>1, ExporterInvariant, PTL

\* The loop never sleeps in its select over a ring that nobody will wake it for (the send
\* of enqueue is skipped when a token is there; flush sends none).
THEOREM WakeupsKept == Spec => []WakeupNotLost
<1>1. IInv => WakeupNotLost
  BY DEF IInv
<1> QED
  BY <1>1, ExporterInvariant, PTL

\* A loop that has stopped has flushed what was pushed before shutdown closed stop, unless
\* its last POST failed.
THEOREM ShutdownFlushes == Spec => []FlushedOnStop
<1>1. IInv => FlushedOnStop
  BY DEF IInv
<1> QED
  BY <1>1, ExporterInvariant, PTL

\* The server never has more copies of a span than one and the failed attempts: retries,
\* push-backs and requests handled late send a span again only after a failure.
THEOREM DuplicatesPaid == Spec => []CopiesPaidByFailures
<1>1. IInv /\ CountInv => CopiesPaidByFailures
  <2> SUFFICES ASSUME IInv, CountInv, NEW s \in Span
               PROVE  copies[s] <= 1 + failures
    BY DEF CopiesPaidByFailures
  <2>1. copies[s] \in Nat /\ failures \in Nat
    BY DEF IInv, TypeOK
  <2>2. Cardinality(Owed(s)) \in Nat
    BY FS_Subset, FS_CardinalityType DEF CountInv, LateKnown, Owed
  <2>3. copies[s] + Cardinality(Owed(s)) + (IF s \in Live THEN 1 ELSE 0) <= 1 + failures
    BY DEF CountInv, Paid
  <2> QED
    BY <2>1, <2>2, <2>3
<1> QED
  BY <1>1, ExporterInvariant, PTL

\* The exporter implements SpanDelivery: every step of its producers, its loop, the network
\* and the server accepts, receives, releases or discards spans as that module allows, and
\* a span is discarded only while at least Cap are held.
THEOREM ExporterDelivers == Spec => ImplementsDelivery
BY ExporterInvariant, InitRefines, NextRefines, PTL DEF Spec, ImplementsDelivery, Delivery!Spec
===============================================================================
