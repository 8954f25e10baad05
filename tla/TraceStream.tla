------------------------------ MODULE TraceStream ------------------------------
(***************************************************************************)
(* The page's side of the live trace: the hook useTraceStream of           *)
(* web/src/hooks/useTraceStream.ts against the server of module            *)
(* TraceStore, whose POSTs are one step here, with one span each.  Three   *)
(* kinds of answer reach the page in any order: socket messages, which     *)
(* keep their order, the details of a selected trace, and lists.           *)
(*                                                                         *)
(* Of a span the model keeps its trace and its id.  The timeline is a set: *)
(* both handlers sort it by start_us.                                      *)
(***************************************************************************)
EXTENDS Naturals, Sequences, FiniteSets

CONSTANTS
  Trace, SpanId,  \* trace and span identifiers
  NoTrace,        \* activeTraceId before the first trace
  MaxTraces,      \* MAX_TRACES of the server
  MaxPosts,       \* bound: spans that reach the server
  MaxPicks        \* bound: clicks on the trace history

ASSUME StreamAssumption ==
  /\ NoTrace \notin Trace
  /\ IsFiniteSet(SpanId)
  /\ MaxTraces \in Nat \ {0}
  /\ MaxPosts \in Nat /\ MaxPicks \in Nat

VARIABLES
  \* the server
  order,         \* the stored traces, newest first
  stored,        \* ids of the spans stored, per trace
  \* the connection
  socket,        \* "none" until the graph is there, then connecting, open, closed
  wire,          \* messages sent and not received
  details,       \* requests of selectTrace not answered yet
  lists,         \* requests of refreshSummaries not answered yet
  \* the page
  active,        \* activeTraceId
  spans,         \* the spans shown
  spansByTrace,  \* ids of the spans received, per trace
  summaries,     \* the rows of the trace history
  \* history, for the properties
  posts, picks,  \* spans posted and clicks, so far
  switches,      \* calls of setActiveTraceId so far
  shownFor,      \* the switch that `spans' answers, 0 for none or after a failure
  asked, listed, \* lists asked for so far, and the latest one that was applied
  fresh          \* stored traces that began while the page was subscribed

serverVars == <<order, stored, fresh, posts>>
timelineVars == <<active, spans, spansByTrace, switches, shownFor, details, picks>>
listVars == <<summaries, lists, asked, listed>>
vars == <<serverVars, socket, wire, timelineVars, listVars>>

Span == [trace : Trace, id : SpanId]
Row == [trace : Trace, count : Nat]
Detail == [switch : Nat, trace : Trace, answered : BOOLEAN, ids : SUBSET SpanId]
List == [number : Nat, answered : BOOLEAN, rows : Seq(Row)]

TypeOK ==
  /\ order \in Seq(Trace) /\ Len(order) <= MaxTraces
  /\ stored \in [Trace -> SUBSET SpanId]
  /\ socket \in {"none", "connecting", "open", "closed"}
  /\ wire \in Seq(Span)
  /\ details \subseteq Detail
  /\ lists \subseteq List
  /\ active \in Trace \cup {NoTrace}
  /\ spans \subseteq Span
  /\ spansByTrace \in [Trace -> SUBSET SpanId]
  /\ summaries \in Seq(Row)
  /\ posts \in 0 .. MaxPosts /\ picks \in 0 .. MaxPicks
  /\ switches \in Nat /\ shownFor \in Nat /\ asked \in Nat /\ listed \in Nat
  /\ fresh \subseteq Trace

Init ==
  /\ order = <<>> /\ stored = [t \in Trace |-> {}]
  /\ socket = "none" /\ wire = <<>>
  /\ details = {} /\ lists = {}
  /\ active = NoTrace /\ spans = {} /\ spansByTrace = [t \in Trace |-> {}]
  /\ summaries = <<>>
  /\ posts = 0 /\ picks = 0
  /\ switches = 0 /\ shownFor = 0
  /\ asked = 0 /\ listed = 0
  /\ fresh = {}

SpansOf(t, ids) == [trace : {t}, id : ids]

-------------------------------------------------------------------------------
(* The server.                                                                   *)

\* What GET /api/traces answers.
Rows == [i \in DOMAIN order |-> [trace |-> order[i], count |-> Cardinality(stored[order[i]])]]

\* The trace that a new one pushes out.
Evicted == IF Len(order) = MaxTraces THEN {order[MaxTraces]} ELSE {}

\* How many of the listed traces stay.
Kept == IF Evicted = {} THEN Len(order) ELSE MaxTraces - 1

\* hub.publish: to a socket that is subscribed.
Published(t, id) ==
  IF socket = "open" THEN Append(wire, [trace |-> t, id |-> id]) ELSE wire

\* POST /api/traces/spans with the first span of a trace the store does not have.
IngestNew(t, id) ==
  /\ posts < MaxPosts
  /\ stored[t] = {}
  /\ order' = <<t>> \o SubSeq(order, 1, Kept)
  /\ stored' = [u \in Trace |-> IF u = t THEN {id} ELSE IF u \in Evicted THEN {} ELSE stored[u]]
  /\ fresh' = IF socket = "open" THEN (fresh \ Evicted) \cup {t} ELSE fresh \ (Evicted \cup {t})
  /\ wire' = Published(t, id)
  /\ posts' = posts + 1
  /\ UNCHANGED <<socket, timelineVars, listVars>>

\* The same with a further span of a trace, or with one delivered again.
IngestKnown(t, id) ==
  /\ posts < MaxPosts
  /\ stored[t] # {}
  /\ stored' = [stored EXCEPT ![t] = @ \cup {id}]
  /\ wire' = Published(t, id)
  /\ posts' = posts + 1
  /\ UNCHANGED <<order, fresh, socket, timelineVars, listVars>>

\* GET /api/traces/:id of a trace the store has; for another the request fails with 404.
GetTrace(r) ==
  /\ r \in details /\ ~r.answered
  /\ stored[r.trace] # {}
  /\ details' = (details \ {r}) \cup {[r EXCEPT !.answered = TRUE, !.ids = stored[r.trace]]}
  /\ UNCHANGED <<serverVars, socket, wire, active, spans, spansByTrace, switches, shownFor, picks,
                 listVars>>

\* GET /api/traces.
GetTraces(r) ==
  /\ r \in lists /\ ~r.answered
  /\ lists' = (lists \ {r}) \cup {[r EXCEPT !.answered = TRUE, !.rows = Rows]}
  /\ UNCHANGED <<serverVars, socket, wire, timelineVars, summaries, asked, listed>>

-------------------------------------------------------------------------------
(* The socket.                                                                   *)

\* refreshSummaries, up to its await.
AskList == lists \cup {[number |-> asked + 1, answered |-> FALSE, rows |-> <<>>]}

\* The graph has been loaded: the effect asks for the list and opens the socket, once.
Enable ==
  /\ socket = "none"
  /\ socket' = "connecting"
  /\ lists' = AskList /\ asked' = asked + 1
  /\ UNCHANGED <<serverVars, wire, timelineVars, summaries, listed>>

\* The server accepts the socket and subscribes it.
Subscribe ==
  /\ socket = "connecting"
  /\ socket' = "open"
  /\ UNCHANGED <<serverVars, wire, timelineVars, listVars>>

\* The connection ends; messages on their way are lost, and the hook does not open another.
Close ==
  /\ socket \in {"connecting", "open"}
  /\ socket' = "closed"
  /\ wire' = <<>>
  /\ UNCHANGED <<serverVars, timelineVars, listVars>>

\* Mutant: the Map entry is started anew by each message.
ReceivedForgets(m) == {m.id}

\* The spans received of a message's trace, with this one.
Received(m) == spansByTrace[m.trace] \cup {m.id}

\* Mutant: a message extends what is shown, whatever trace that is.
TimelineMerges(m) == spans \cup {m}

\* Mutant: a message is shown alone.
TimelineAlone(m) == {m}

\* Mutant: a message of another trace does not disturb the one that is shown.
TimelineKept(m) == IF active \in {NoTrace, m.trace} THEN SpansOf(m.trace, Received(m)) ELSE spans

\* setSpans([...bucket.values()]).
Timeline(m) == SpansOf(m.trace, Received(m))

\* Mutant: a message does not refresh the list.
OnMessageNoRefresh ==
  /\ wire # <<>>
  /\ LET m == Head(wire) IN
       /\ spansByTrace' = [spansByTrace EXCEPT ![m.trace] = Received(m)]
       /\ active' = m.trace
       /\ spans' = Timeline(m)
  /\ switches' = switches + 1 /\ shownFor' = switches + 1
  /\ wire' = Tail(wire)
  /\ UNCHANGED <<serverVars, socket, details, picks, listVars>>

\* onmessage: the span's trace becomes the active one and shows what was received of it.
OnMessage ==
  /\ wire # <<>>
  /\ LET m == Head(wire) IN
       /\ spansByTrace' = [spansByTrace EXCEPT ![m.trace] = Received(m)]
       /\ active' = m.trace
       /\ spans' = Timeline(m)
  /\ switches' = switches + 1 /\ shownFor' = switches + 1
  /\ lists' = AskList /\ asked' = asked + 1
  /\ wire' = Tail(wire)
  /\ UNCHANGED <<serverVars, socket, details, picks, summaries, listed>>

-------------------------------------------------------------------------------
(* The requests.                                                                 *)

\* A click on a row of the history: selectTrace, up to its await.  Until the answer comes the
\* spans of the previous trace stay.
SelectTrace(t) ==
  /\ picks < MaxPicks
  /\ t \in {summaries[i].trace : i \in DOMAIN summaries}
  /\ active' = t
  /\ details' = details \cup
       {[switch |-> switches + 1, trace |-> t, answered |-> FALSE, ids |-> {}]}
  /\ switches' = switches + 1
  /\ picks' = picks + 1
  /\ UNCHANGED <<serverVars, socket, wire, spans, spansByTrace, shownFor, listVars>>

\* The rest of selectTrace: the answer is shown, whatever has become active in the meantime.
DetailArrives(r) ==
  /\ r \in details /\ r.answered
  /\ spans' = SpansOf(r.trace, r.ids)
  /\ shownFor' = r.switch
  /\ details' = details \ {r}
  /\ UNCHANGED <<serverVars, socket, wire, active, spansByTrace, switches, picks, listVars>>

\* The request fails, on its way, at the server or with 404: setSpans([]).
DetailFails(r) ==
  /\ r \in details
  /\ spans' = {}
  /\ shownFor' = 0
  /\ details' = details \ {r}
  /\ UNCHANGED <<serverVars, socket, wire, active, spansByTrace, switches, picks, listVars>>

\* The rest of refreshSummaries.
ListArrives(r) ==
  /\ r \in lists /\ r.answered
  /\ summaries' = r.rows
  /\ listed' = r.number
  /\ lists' = lists \ {r}
  /\ UNCHANGED <<serverVars, socket, wire, timelineVars, asked>>

\* A list that cannot be had changes nothing.
ListFails(r) ==
  /\ r \in lists
  /\ lists' = lists \ {r}
  /\ UNCHANGED <<serverVars, socket, wire, timelineVars, summaries, asked, listed>>

-------------------------------------------------------------------------------
Next ==
  \/ \E t \in Trace, id \in SpanId : IngestNew(t, id) \/ IngestKnown(t, id)
  \/ Enable \/ Subscribe \/ Close \/ OnMessage
  \/ \E t \in Trace : SelectTrace(t)
  \/ \E r \in details : GetTrace(r) \/ DetailArrives(r) \/ DetailFails(r)
  \/ \E r \in lists : GetTraces(r) \/ ListArrives(r) \/ ListFails(r)

\* The browser runs the handler of a message that has arrived.
Spec == Init /\ [][Next]_vars /\ WF_vars(OnMessage)

-------------------------------------------------------------------------------
(* Properties.                                                                   *)

InFlight(t) == {wire[i].id : i \in {j \in DOMAIN wire : wire[j].trace = t}}

Quiet == socket = "open" /\ wire = <<>> /\ \E t \in Trace : spansByTrace[t] # {}

\* The timeline under the heading of a trace holds spans of that trace: what the latest switch
\* to a trace brought is never mixed with another trace.  Only the answer to an older switch,
\* or the spans that stay until an answer comes, can be of another trace.
ShownBelongs == shownFor = switches => \A s \in spans : s.trace = active

\* While the socket lives, what the latest switch of the active trace put there, a message or
\* the answer to the latest click, is the whole of that trace as far as its messages have
\* arrived, if it began under the socket: no span slips between a snapshot of the store and
\* the messages before and after it, evicted and begun again meanwhile or not.
\* Nothing is said while the latest click is unanswered or has failed, nor once the answer to
\* an older click has come last: of the same trace, that takes the spans away which messages
\* have brought since (useTraceStream.ts:48; ShowsActiveTrace, which the page violates), until
\* the next message makes the trace whole again.
TimelineComplete ==
  /\ socket = "open" /\ active \in fresh /\ shownFor = switches
  => SpansOf(active, stored[active] \ InFlight(active)) \subseteq spans

\* The page's own Map misses nothing of a trace that began while it was subscribed.
LiveMissesNothing ==
  socket = "open" => \A t \in fresh : stored[t] \subseteq spansByTrace[t] \cup InFlight(t)

\* When a message has come, none is on its way, and the newest list asked for is the one shown,
\* the history is the server's list, counts included: each message asks for a list, and the
\* server stored the span before it sent the message.
HistoryIsFresh == Quiet /\ listed = asked => summaries = Rows

\* "path visible" (docs/MVP_PLAN.md:372): a span sent to the page comes to be shown, even when
\* answers to earlier clicks arrive around it, unless the socket closes first.
PathBecomesVisible ==
  \A t \in Trace, id \in SpanId :
    id \in InFlight(t) ~> ([trace |-> t, id |-> id] \in spans \/ socket = "closed")

\* "UI ... highlights the path of the active trace" (README.md:103): with no selection under
\* way, what is shown, and highlighted, belongs to the active trace; and it is the whole path
\* of a trace that began under the socket, when no message is on its way and the latest
\* selection to be answered did not fail.
ShowsActiveTrace ==
  details = {} =>
    /\ \A s \in spans : s.trace = active
    /\ (socket = "open" /\ wire = <<>> /\ active \in fresh /\ shownFor # 0)
         => SpansOf(active, stored[active]) \subseteq spans
===============================================================================
