-------------------------------- MODULE Runtime --------------------------------
(***************************************************************************)
(* The process-wide state of go/lib/debugviz: Configure replacing the      *)
(* global exporter while the program's goroutines start and end spans.     *)
(* Configure holds globalMu for writing from its first line to its last,   *)
(* the wait for the old export loop included; isEnabled, currentExporter   *)
(* and currentSampleRate take it for reading, one read at a time.          *)
(*                                                                         *)
(* Exporters are numbered in the order newExporter creates them; what one  *)
(* does with the spans it gets is Exporter's subject.  Here no ring        *)
(* overflows and a running loop posts its spans in the end, as when the    *)
(* server answers again; a loop told to stop drains the ring, flushes once *)
(* more, which takes its time and may fail, and returns.                   *)
(***************************************************************************)
EXTENDS Naturals, FiniteSets

CONSTANTS
  Spans,          \* the spans the program starts
  Settings,       \* the configurations it tries: a subset of {"off", "good", "bad"}
  MaxConfigures   \* bound: calls of Configure

ASSUME RuntimeAssumption ==
  /\ Settings \subseteq {"off", "good", "bad"}
  /\ MaxConfigures \in Nat

VARIABLES
  phase,      \* where the Configure call that holds globalMu is; "free": nobody holds it
  setting,    \* its configuration: off; on with a good URL; on with a URL of slashes only
  on,         \* globalOn
  exp,        \* globalExport, 0 for nil
  created,    \* exporters created so far
  closed,     \* exporters whose stop channel is closed
  running,    \* exporters whose loop runs
  leaving,    \* of those, the loops in the flush of their last pass: the ring is drained
  failed,     \* exporters whose last flush failed
  erred,      \* the latest Configure returned an error
  calls,      \* calls of Configure so far
  state,      \* each span: what became of it
  via         \* the exporter the span's endSpan read, 0 for nil

configVars == <<phase, setting, on, exp, created, closed, erred, calls>>
loopVars == <<running, leaving, failed>>
vars == <<configVars, loopVars, state, via>>

Exporters == 1 .. MaxConfigures

\* A queued span is in its exporter's ring, a flushing one in the batch of its last flush.
Fates == {"new", "unrecorded", "open", "ending", "queued", "flushing", "posted", "dropped"}

TypeOK ==
  /\ phase \in {"free", "close", "wait", "start", "panicked"}
  /\ setting \in {"off", "good", "bad"}
  /\ on \in BOOLEAN /\ erred \in BOOLEAN
  /\ calls \in 0 .. MaxConfigures
  /\ created \in 0 .. calls
  /\ exp \in 0 .. created
  /\ closed \subseteq 1 .. created
  /\ running \subseteq 1 .. created
  /\ leaving \subseteq running \cap closed
  /\ failed \subseteq 1 .. created
  /\ state \in [Spans -> Fates]
  /\ via \in [Spans -> 0 .. created]

Init ==
  /\ phase = "free" /\ setting = "off"
  /\ on = FALSE /\ exp = 0 /\ created = 0
  /\ closed = {} /\ running = {} /\ leaving = {} /\ failed = {} /\ erred = FALSE /\ calls = 0
  /\ state = [s \in Spans |-> "new"]
  /\ via = [s \in Spans |-> 0]

-------------------------------------------------------------------------------
(* Configure.                                                                    *)

\* Is there an exporter to shut down?
ShutdownFirst == exp # 0

\* Take globalMu, store the configuration and globalOn.  A present exporter is shut down
\* first, whatever the new setting.
Configure(c) ==
  /\ phase = "free"
  /\ calls < MaxConfigures
  /\ calls' = calls + 1
  /\ setting' = c
  /\ on' = (c # "off")
  /\ phase' = IF ShutdownFirst THEN "close" ELSE "start"
  /\ UNCHANGED <<exp, created, closed, erred, loopVars, state, via>>

\* Mutant: shutdown waits without closing the channel.
CloseStopForgets ==
  /\ phase = "close"
  /\ phase' = "wait"
  /\ UNCHANGED <<setting, on, exp, created, closed, erred, calls, loopVars, state, via>>

\* shutdown: close(e.stop).  Closing a closed channel panics, and the process ends.
CloseStop ==
  /\ phase = "close"
  /\ phase' = IF exp \in closed THEN "panicked" ELSE "wait"
  /\ closed' = closed \cup {exp}
  /\ UNCHANGED <<setting, on, exp, created, erred, calls, loopVars, state, via>>

\* Mutant: shutdown does not wait for the loop.
LoopGoneAssumed == TRUE

LoopGone == exp \notin running

\* shutdown: wg.Wait.
Waited ==
  /\ phase = "wait"
  /\ LoopGone
  /\ phase' = "start"
  /\ UNCHANGED <<setting, on, exp, created, closed, erred, calls, loopVars, state, via>>

\* Mutant: turning the runtime off leaves the stopped exporter installed.
FinishOffKeeps ==
  /\ phase = "start" /\ setting = "off"
  /\ phase' = "free" /\ erred' = FALSE
  /\ UNCHANGED <<exp, setting, on, created, closed, calls, loopVars, state, via>>

\* Configure(Enabled: false) ends: globalExport = nil.
FinishOff ==
  /\ phase = "start"
  /\ setting = "off"
  /\ exp' = 0
  /\ phase' = "free"
  /\ erred' = FALSE
  /\ UNCHANGED <<setting, on, created, closed, calls, loopVars, state, via>>

\* Mutant: the new exporter is started and not installed.
InstalledOld == exp

\* What globalExport becomes once newExporter has returned one.
Installed == created + 1

\* newExporter starts a loop, and globalExport is replaced.
FinishGood ==
  /\ phase = "start"
  /\ setting = "good"
  /\ created' = created + 1
  /\ exp' = Installed
  /\ running' = running \cup {created + 1}
  /\ phase' = "free"
  /\ erred' = FALSE
  /\ UNCHANGED <<setting, on, closed, calls, leaving, failed, state, via>>

\* spansEndpoint rejects the URL: Configure returns its error with globalOn already set and
\* the stopped exporter, if there was one, still installed.
FinishBad ==
  /\ phase = "start"
  /\ setting = "bad"
  /\ phase' = "free"
  /\ erred' = TRUE
  /\ UNCHANGED <<setting, on, exp, created, closed, calls, loopVars, state, via>>

-------------------------------------------------------------------------------
(* Spans.                                                                        *)

Become(s, what) == state' = [state EXCEPT ![s] = what]

\* StartSpan or startRootSpan: one read of globalOn.
StartSpan(s) ==
  /\ phase = "free"
  /\ state[s] = "new"
  /\ Become(s, IF on THEN "open" ELSE "unrecorded")
  /\ UNCHANGED <<configVars, loopVars, via>>

\* endSpan, first half: one read of globalExport.
EndSpan(s) ==
  /\ phase = "free"
  /\ state[s] = "open"
  /\ Become(s, IF exp = 0 THEN "dropped" ELSE "ending")
  /\ via' = [via EXCEPT ![s] = exp]
  /\ UNCHANGED <<configVars, loopVars>>

\* endSpan, second half: enqueue on the exporter it read, running or not.
Enqueue(s) ==
  /\ state[s] = "ending"
  /\ Become(s, "queued")
  /\ UNCHANGED <<configVars, loopVars, via>>

-------------------------------------------------------------------------------
(* The export loops.                                                             *)

\* The spans of exporter g that have one fate get another.
Turn(g, from, to) ==
  state' = [s \in Spans |-> IF state[s] = from /\ via[s] = g THEN to ELSE state[s]]

Queued(g) == {s \in Spans : state[s] = "queued" /\ via[s] = g}
Flushing(g) == {s \in Spans : state[s] = "flushing" /\ via[s] = g}

\* A pass of a loop that goes on: what is queued is posted.
PostQueued(g) ==
  /\ g \in running \ leaving
  /\ Queued(g) # {}
  /\ Turn(g, "queued", "posted")
  /\ UNCHANGED <<configVars, loopVars, via>>

\* Mutant: the last pass flushes what is pending without draining the ring first.
LoopDrainsNothing(g) ==
  /\ g \in (running \cap closed) \ leaving
  /\ leaving' = leaving \cup {g}
  /\ UNCHANGED <<configVars, running, failed, state, via>>

\* The stop case begins: drainRing empties the ring, and flush takes what it found.
LoopDrains(g) ==
  /\ g \in (running \cap closed) \ leaving
  /\ leaving' = leaving \cup {g}
  /\ Turn(g, "queued", "flushing")
  /\ UNCHANGED <<configVars, running, failed, via>>

\* The last flush is over, and the loop returns.  When every attempt has failed, flush has
\* pushed its batch back; nobody reads the ring any more, nor what was pushed to it since
\* the drain.
LoopStops(g) ==
  /\ g \in leaving
  /\ leaving' = leaving \ {g}
  /\ running' = running \ {g}
  /\ \/ Turn(g, "flushing", "posted") /\ UNCHANGED failed
     \/ Flushing(g) # {} /\ Turn(g, "flushing", "queued") /\ failed' = failed \cup {g}
  /\ UNCHANGED <<configVars, via>>

-------------------------------------------------------------------------------
Holder == CloseStop \/ Waited \/ FinishOff \/ FinishGood \/ FinishBad

Next ==
  \/ \E c \in Settings : Configure(c)
  \/ Holder
  \/ \E s \in Spans : StartSpan(s) \/ EndSpan(s) \/ Enqueue(s)
  \/ \E g \in Exporters : PostQueued(g) \/ LoopDrains(g) \/ LoopStops(g)

Spec == Init /\ [][Next]_vars

\* Goroutines that have begun Configure or endSpan go on, and so do the export loops, whose
\* flush ends after four attempts of five seconds each at the latest.  The program need not
\* call Configure, nor start or end a span.
FairSpec ==
  /\ Spec
  /\ WF_vars(Holder)
  /\ \A s \in Spans : WF_vars(Enqueue(s))
  /\ \A g \in Exporters :
       WF_vars(PostQueued(g)) /\ WF_vars(LoopDrains(g)) /\ WF_vars(LoopStops(g))

-------------------------------------------------------------------------------
(* Properties.                                                                   *)

\* At most one export loop runs, and it is the installed exporter's: two loops would post
\* the spans of one process in an order of their own.
OneLoop == running \subseteq {exp}

\* Enabled: false exports nothing (README.md:381): once Configure has returned with the
\* runtime off, no loop runs and endSpan finds no exporter.
OffMeansQuiet == (phase = "free" /\ ~on) => running = {} /\ exp = 0

\* While the runtime is on, finished spans have a running exporter to go to, unless the
\* latest Configure failed.
OnMeansLive == (phase = "free" /\ on /\ ~erred) => exp \in running \ closed

\* close(e.stop) panics only on the exporter a failed Configure left installed.
PanicsOnlyAfterError == phase = "panicked" => erred

\* What a shutdown may cost.  A span in the ring of a loop that has not begun its last flush
\* is posted, unless that flush fails; a span on its way to an exporter that nobody shuts
\* down is posted: with the one Configure at start that config.go:34 asks for, all of them.
\* Nothing is promised of a span enqueued later, though the loop may still run: one that
\* reaches the ring during the last flush (export.go:67) is never read.  What a ring loses by
\* overflow is Exporter's NothingVanishes.
LostOnlyToShutdown ==
  \A s \in Spans :
    /\ (state[s] = "queued" /\ via[s] \in running \ leaving)
         ~> (state[s] = "posted" \/ via[s] \in failed)
    /\ (state[s] = "ending") ~> (state[s] = "posted" \/ via[s] \in closed)

\* Configure returns or panics: the loop it waits for never waits for globalMu.
ConfigureReturns == (phase # "free") ~> (phase \in {"free", "panicked"})
===============================================================================
