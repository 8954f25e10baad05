------------------------------- MODULE Exporter --------------------------------
(***************************************************************************)
(* One exporter of go/lib/debugviz/export.go: the goroutines that enqueue  *)
(* finished spans, the ring they share with the export loop, the loop      *)
(* itself, the HTTP attempts it makes, and a trace server that may be slow *)
(* or down, or whose answers may be lost.                                  *)
(*                                                                         *)
(* Spans are numbered in the order their push takes the ring's mutex, so   *)
(* `born' counts the pushes and s < t means that s is older than t.        *)
(***************************************************************************)
EXTENDS DropOldest, FiniteSets, SequencesExt

CONSTANTS
  BatchSize,     \* Config.BatchSize after normalizeConfig
  Attempts,      \* the bound of postBatch's loop: 4 in the source
  MaxSpans,      \* bound: spans enqueued in a behaviour
  MaxFailures    \* bound: attempts that fail in a behaviour (an outage ends)

ASSUME ExporterAssumption ==
  /\ BatchSize \in Nat \ {0}
  /\ Attempts \in Nat \ {0}
  /\ MaxSpans \in Nat
  /\ MaxFailures \in Nat

VARIABLES
  ring,       \* e.ring, as the queue that SpanRing implements
  notify,     \* a token sits in e.notify (capacity 1)
  stop,       \* e.stop is closed
  pc,         \* where the loop is
  cause,      \* the case its select took
  pending,    \* e.pending
  batch,      \* flush's local batch; while re-pushing, what is left of it
  attempt,    \* postBatch's loop counter
  handled,    \* the server has handled the request of the current attempt
  failed,     \* the latest pass of the loop ended with a failed postBatch
  late,       \* requests the client gave up on that the server may yet handle
  \* history, for the properties
  born,       \* spans pushed so far
  waking,     \* enqueue calls between their push and their send on notify
  discarded,  \* spans the ring dropped
  copies,     \* how often the server handled each span
  failures,   \* failed attempts so far
  bornAtStop  \* born when stop was closed

queueVars == <<ring, discarded>>
wakeVars == <<notify, waking>>
stopVars == <<stop, bornAtStop>>
loopVars == <<pc, cause, pending, batch, attempt, handled, failed>>
netVars == <<late, copies, failures>>

vars == <<queueVars, wakeVars, stopVars, loopVars, netVars, born>>

Span == 1 .. MaxSpans

Cause == {"stop", "notify", "tick"}

\* One request body: the spans of a batch, tagged by the failure that orphaned it.
Request == [id : 1 .. MaxFailures, spans : Seq(Span)]

TypeOK ==
  /\ ring \in Seq(Span) /\ Len(ring) <= Cap
  /\ pending \in Seq(Span)
  /\ batch \in Seq(Span)
  /\ pc \in {"select", "drain", "post", "repush", "done"}
  /\ cause \in Cause
  /\ attempt \in 0 .. Attempts
  /\ notify \in BOOLEAN /\ stop \in BOOLEAN /\ handled \in BOOLEAN /\ failed \in BOOLEAN
  /\ late \subseteq Request
  /\ born \in 0 .. MaxSpans /\ bornAtStop \in 0 .. MaxSpans
  /\ waking \in 0 .. MaxSpans
  /\ discarded \subseteq Span
  /\ copies \in [Span -> Nat]
  /\ failures \in 0 .. MaxFailures

Init ==
  /\ ring = <<>> /\ pending = <<>> /\ batch = <<>>
  /\ notify = FALSE /\ stop = FALSE
  /\ pc = "select" /\ cause = "tick"
  /\ attempt = 0 /\ handled = FALSE /\ failed = FALSE
  /\ late = {}
  /\ born = 0 /\ waking = 0 /\ bornAtStop = 0
  /\ discarded = {}
  /\ copies = [s \in Span |-> 0]
  /\ failures = 0

-------------------------------------------------------------------------------
(* The program's goroutines: endSpan calls enqueue, Configure calls shutdown.    *)

\* ring.push(s), which discards at the limit.
PushRing(s) ==
  /\ ring' = Pushed(ring, s)
  /\ discarded' = discarded \cup Discarded(ring)

\* enqueue, first half.  It may still run after the loop has stopped: endSpan read
\* globalExport before Configure replaced it.
Enqueue ==
  /\ born < MaxSpans
  /\ born' = born + 1
  /\ PushRing(born + 1)
  /\ waking' = waking + 1
  /\ UNCHANGED <<notify, stopVars, loopVars, netVars>>

\* enqueue, second half: a send that is skipped when the token is already there.
Notify ==
  /\ waking > 0
  /\ waking' = waking - 1
  /\ notify' = TRUE
  /\ UNCHANGED <<queueVars, stopVars, loopVars, netVars, born>>

\* shutdown, first half: close(e.stop).  Its second half, wg.Wait, ends when pc = "done".
Shutdown ==
  /\ ~stop
  /\ stop' = TRUE
  /\ bornAtStop' = born
  /\ UNCHANGED <<queueVars, wakeVars, loopVars, netVars, born>>

-------------------------------------------------------------------------------
(* The export loop.                                                              *)

\* select: any ready case may be taken.  The ticker can always be ready.
Select(c) ==
  /\ pc = "select"
  /\ \/ c = "stop" /\ stop /\ UNCHANGED notify
     \/ c = "notify" /\ notify /\ notify' = FALSE
     \/ c = "tick" /\ UNCHANGED notify
  /\ pc' = "drain"
  /\ cause' = c
  /\ failed' = FALSE
  /\ UNCHANGED <<queueVars, waking, stopVars, pending, batch, attempt, handled, netVars, born>>

\* One turn of drainRing's loop.
DrainOne ==
  /\ pc = "drain"
  /\ ring # <<>>
  /\ pending' = Append(pending, Head(ring))
  /\ ring' = Tail(ring)
  /\ UNCHANGED <<discarded, wakeVars, stopVars, pc, cause, batch, attempt, handled, failed,
                 netVars, born>>

\* Mutant: draining stops as soon as a batch is full.
DrainEndsAtFullBatch == ring = <<>> \/ Len(pending) >= BatchSize

\* drainRing ends when a pop finds the ring empty.
DrainEnds == ring = <<>>

\* Mutants: the last pass, or a tick, flushes only a full batch.
MustFlushStopFull == pending # <<>> /\ (cause # "tick" => Len(pending) >= BatchSize)
MustFlushTickFull == pending # <<>> /\ (cause # "stop" => Len(pending) >= BatchSize)

\* Does this pass post what it drained?  flush returns early on an empty pending.
MustFlush == pending # <<>> /\ (cause = "notify" => Len(pending) >= BatchSize)

\* Mutant: the stop case forgets its return.
NextPassNeverDone == pc' = "select"

\* Where the loop goes when a pass is over.
NextPass == pc' = IF cause = "stop" THEN "done" ELSE "select"

\* drainRing has ended: flush takes pending as its batch, or the pass is over.
Drained ==
  /\ pc = "drain"
  /\ DrainEnds
  /\ \/ /\ MustFlush
        /\ batch' = pending
        /\ pending' = <<>>
        /\ pc' = "post"
        /\ attempt' = 0
        /\ handled' = FALSE
     \/ /\ ~MustFlush
        /\ NextPass
        /\ UNCHANGED <<batch, pending, attempt, handled>>
  /\ UNCHANGED <<queueVars, wakeVars, stopVars, cause, failed, netVars, born>>

\* Mutant: any answer, whatever its status, ends the retries.
AnswerOKAny == TRUE

\* The answer of the current attempt is a 2xx: the server has handled the request.
AnswerOK == handled

\* Mutant: postBatch forgets to return nil, and the delivered batch is pushed back.
PostSucceedsRepushes ==
  /\ pc = "post" /\ AnswerOK
  /\ pc' = "repush"
  /\ UNCHANGED <<queueVars, wakeVars, stopVars, cause, pending, batch, attempt, handled, failed,
                 netVars, born>>

\* postBatch returns nil.
PostSucceeds ==
  /\ pc = "post"
  /\ AnswerOK
  /\ NextPass
  /\ batch' = <<>>
  /\ UNCHANGED <<queueVars, wakeVars, stopVars, cause, pending, attempt, handled, failed,
                 netVars, born>>

\* The request that may survive an attempt its client abandons.
Orphans == IF handled THEN {} ELSE {[id |-> failures + 1, spans |-> batch]}

\* Mutant: flush ignores the error of postBatch.
AfterFailureGivesUp(n) == IF n < Attempts THEN "post" ELSE "select"

\* After the n-th failed attempt: try again, or let flush push the batch back.
AfterFailure(n) == IF n < Attempts THEN "post" ELSE "repush"

\* An attempt fails: no connection, a timeout, a reset, or a status outside 2xx.  An
\* unhandled request is lost, or reaches the server later.
PostFails ==
  /\ pc = "post"
  /\ failures < MaxFailures
  /\ failures' = failures + 1
  /\ \E L \in SUBSET Orphans : late' = late \cup L
  /\ attempt' = attempt + 1
  /\ handled' = FALSE
  /\ pc' = AfterFailure(attempt + 1)
  /\ failed' = (attempt + 1 = Attempts)
  /\ UNCHANGED <<queueVars, wakeVars, stopVars, cause, pending, batch, copies, born>>

\* flush pushes one span of the failed batch back; nothing is sent on notify.
RepushOne ==
  /\ pc = "repush"
  /\ batch # <<>>
  /\ PushRing(Head(batch))
  /\ batch' = Tail(batch)
  /\ UNCHANGED <<wakeVars, stopVars, pc, cause, pending, attempt, handled, failed, netVars, born>>

Repushed ==
  /\ pc = "repush"
  /\ batch = <<>>
  /\ NextPass
  /\ UNCHANGED <<queueVars, wakeVars, stopVars, cause, pending, batch, attempt, handled, failed,
                 netVars, born>>

-------------------------------------------------------------------------------
(* The trace server.                                                             *)

Counted(spans) == [s \in Span |-> copies[s] + (IF s \in ToSet(spans) THEN 1 ELSE 0)]

\* The server handles the request of the current attempt.
Handle ==
  /\ pc = "post"
  /\ ~handled
  /\ handled' = TRUE
  /\ copies' = Counted(batch)
  /\ UNCHANGED <<queueVars, wakeVars, stopVars, pc, cause, pending, batch, attempt, failed,
                 late, failures, born>>

\* The server handles a request its client has given up on.
HandleLate ==
  /\ \E r \in late : late' = late \ {r} /\ copies' = Counted(r.spans)
  /\ UNCHANGED <<queueVars, wakeVars, stopVars, loopVars, failures, born>>

-------------------------------------------------------------------------------
Loop ==
  \/ \E c \in Cause : Select(c)
  \/ DrainOne \/ Drained \/ PostSucceeds \/ PostFails \/ RepushOne \/ Repushed

Next == Enqueue \/ Notify \/ Shutdown \/ Loop \/ Handle \/ HandleLate

Spec == Init /\ [][Next]_vars

\* The Go scheduler runs every goroutine, the ticker fires, select chooses at random among
\* its ready cases (so a closed stop is not passed over for ever), a request is handled
\* unless its attempt fails, and MaxFailures makes every outage end.
Fairness ==
  /\ WF_vars(Notify)
  /\ WF_vars(Select("tick"))
  /\ SF_vars(Select("stop"))
  /\ WF_vars(DrainOne) /\ WF_vars(Drained)
  /\ WF_vars(Handle) /\ WF_vars(PostSucceeds)
  /\ WF_vars(RepushOne) /\ WF_vars(Repushed)

FairSpec == Spec /\ Fairness

-------------------------------------------------------------------------------
(* Properties.                                                                   *)

Stored == {s \in Span : copies[s] > 0}

\* The spans some goroutine of the exporter still answers for.
Held == ToSet(ring) \cup ToSet(pending) \cup ToSet(batch)

\* No span vanishes: every span that was pushed is in the ring, in pending, in the batch
\* being posted or pushed back, was received by the server, or was dropped by a full ring.
\* (flush empties pending before the POST, and the batch lives in a local variable.)
NothingVanishes == 1 .. born \subseteq Held \cup Stored \cup discarded

\* A span that arrives while the loop drains is not forgotten: when the loop is back in
\* its select, a non-empty ring means that a token is or will be in notify, or that the
\* pass failed, in which case only the ticker wakes the loop.
WakeupNotLost == (pc = "select" /\ ring # <<>>) => notify \/ waking > 0 \/ failed

\* Shutdown flushes: when the loop has stopped, every span pushed before close(stop) has
\* been received or dropped, unless the last POST failed.
FlushedOnStop == (pc = "done" /\ ~failed) => 1 .. bornAtStop \subseteq Stored \cup discarded

\* Duplicates are paid for: the server sees a span once, plus once per failed attempt.
CopiesPaidByFailures == \A s \in Span : copies[s] <= 1 + failures

\* The ring gives up the oldest span it could: what a push discards is older than all that
\* is left in the ring.  (A batch pushed back breaks this: debugviz_test.go:149.)
DropsOldest ==
  [][\A s \in discarded' \ discarded, t \in ToSet(ring') : s < t]_vars

\* The exporter keeps the promise of SpanDelivery.
Delivery == INSTANCE SpanDelivery WITH
  accepted <- born, held <- Held, stored <- Stored, discarded <- discarded

ImplementsDelivery == Delivery!Spec

\* Unless the exporter is shut down, a span that was pushed is received or dropped in the
\* end, however long the outage: the ticker retries what a failed flush pushed back.
EventuallyDelivered ==
  \A s \in Span : (s <= born) ~> (s \in Stored \cup discarded \/ stop)

\* Configure does not hang in wg.Wait: a loop told to stop stops.
StopsEventually == stop ~> (pc = "done")
===============================================================================
