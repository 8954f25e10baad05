------------------------------ MODULE TraceStore -------------------------------
(***************************************************************************)
(* The trace side of the debug server: TraceStore and TraceHub of          *)
(* server/src/trace/store.ts behind POST /api/traces/spans, POST           *)
(* /api/graph and the /ws socket.  A handler has no await between its      *)
(* first and its last line, so no other handler runs in between: a request *)
(* starts only when `todo' and `out' are empty.                            *)
(*                                                                         *)
(* Of a span the model keeps its trace, its id and the graph it was mapped *)
(* with: node_id is computed once, when the span arrives.                  *)
(***************************************************************************)
EXTENDS Naturals, Sequences, FiniteSets

CONSTANTS
  Trace, SpanId,   \* trace and span identifiers
  Client,          \* WebSocket clients
  MaxTraces,       \* MAX_TRACES: 50 in the source
  MaxBatch,        \* bound: spans of one POST
  MaxPosts,        \* bound: POSTs of spans
  MaxGraphs        \* bound: POSTs of a graph

ASSUME StoreAssumption ==
  /\ MaxTraces \in Nat \ {0}
  /\ MaxBatch \in Nat /\ MaxPosts \in Nat /\ MaxGraphs \in Nat

VARIABLES
  order,     \* TraceStore.order, newest first
  bucket,    \* TraceStore.traces; <<>> for a key the Map does not have
  graph,     \* the graph in AppState, as the number of uploads; 0 is null
  todo,      \* spans of the current POST not ingested yet
  out,       \* spans of the current POST not published yet
  subs,      \* TraceHub.subscribers
  view,      \* what each client knows: per trace and span id, the last message
  \* history, for the properties
  posts,     \* POSTs so far
  clock,     \* spans ingested so far
  firstSeen, \* clock when a trace last entered the store, 0 if it never did
  joined     \* clock when a client last subscribed

storeVars == <<order, bucket, clock, firstSeen>>
hubVars == <<subs, view, joined>>
vars == <<storeVars, hubVars, graph, todo, out, posts>>

GraphVersion == 0 .. MaxGraphs
StoredSpan == [trace : Trace, id : SpanId, graph : GraphVersion]
Nothing == MaxGraphs + 1   \* a client's entry for a span it was never sent

TypeOK ==
  /\ order \in Seq(Trace) /\ Len(order) <= MaxTraces
  /\ bucket \in [Trace -> Seq(StoredSpan)]
  /\ graph \in GraphVersion
  /\ todo \in Seq(StoredSpan) /\ out \in Seq(StoredSpan)
  /\ subs \subseteq Client
  /\ view \in [Client -> [Trace \X SpanId -> GraphVersion \cup {Nothing}]]
  /\ posts \in 0 .. MaxPosts
  /\ clock \in Nat
  /\ firstSeen \in [Trace -> 0 .. clock]
  /\ joined \in [Client -> 0 .. clock]

NoView == [k \in Trace \X SpanId |-> Nothing]

Init ==
  /\ order = <<>>
  /\ bucket = [t \in Trace |-> <<>>]
  /\ graph = 0
  /\ todo = <<>> /\ out = <<>>
  /\ subs = {}
  /\ view = [c \in Client |-> NoView]
  /\ posts = 0 /\ clock = 0
  /\ firstSeen = [t \in Trace |-> 0]
  /\ joined = [c \in Client |-> 0]

Idle == todo = <<>> /\ out = <<>>

-------------------------------------------------------------------------------
(* POST /api/traces/spans.                                                       *)

\* The batches a client may post, mapped with the current graph.
Batches == UNION {[1 .. n -> [trace : Trace, id : SpanId, graph : {graph}]] : n \in 1 .. MaxBatch}

\* A batch in which every span is valid; any other is answered 400 and changes nothing.
PostSpans(spans) ==
  /\ Idle
  /\ posts < MaxPosts
  /\ posts' = posts + 1
  /\ todo' = spans
  /\ out' = spans
  /\ UNCHANGED <<storeVars, hubVars, graph>>

\* Mutant: re-delivered spans are appended again.
UpsertAppends(b, s) == Append(b, s)

\* A span replaces the one with its id, or is added to the bucket.
Upsert(b, s) ==
  LET hits == {i \in DOMAIN b : b[i].id = s.id}
  IN  IF hits = {}
      THEN Append(b, s)
      ELSE [b EXCEPT ![CHOOSE i \in hits : \A j \in hits : i <= j] = s]

\* The trace that makes room for a new one.
Overflow == IF Len(order) = MaxTraces THEN {order[MaxTraces]} ELSE {}

\* Mutant: an evicted trace stays in the Map.
WithoutLeaks(b, S) == b

\* traces.delete of the evicted ids.
Without(b, S) == [t \in Trace |-> IF t \in S THEN <<>> ELSE b[t]]

\* Mutant: a new trace goes to the end of the list.
UnshiftedPushed(t) ==
  SubSeq(order, 1, IF Overflow = {} THEN Len(order) ELSE MaxTraces - 1) \o <<t>>

\* order.unshift, then order.pop while it is too long.
Unshifted(t) == <<t>> \o SubSeq(order, 1, IF Overflow = {} THEN Len(order) ELSE MaxTraces - 1)

\* ingest: the first span of a trace the store does not have.
IngestNew ==
  /\ todo # <<>>
  /\ LET s == Head(todo) IN
       /\ bucket[s.trace] = <<>>
       /\ bucket' = [Without(bucket, Overflow) EXCEPT ![s.trace] = <<s>>]
       /\ order' = Unshifted(s.trace)
       /\ firstSeen' = [firstSeen EXCEPT ![s.trace] = clock + 1]
  /\ clock' = clock + 1
  /\ todo' = Tail(todo)
  /\ UNCHANGED <<hubVars, graph, out, posts>>

\* ingest: one more span of a trace the store has.
IngestKnown ==
  /\ todo # <<>>
  /\ LET s == Head(todo) IN
       /\ bucket[s.trace] # <<>>
       /\ bucket' = [bucket EXCEPT ![s.trace] = Upsert(@, s)]
  /\ clock' = clock + 1
  /\ todo' = Tail(todo)
  /\ UNCHANGED <<order, firstSeen, hubVars, graph, out, posts>>

\* Mutant: only the first subscriber is told.
ReachedOne == IF subs = {} THEN {} ELSE {CHOOSE c \in subs : TRUE}

\* publish calls every subscriber.
Reached == subs

\* Publish one span of the batch, in the order of the batch.
Publish ==
  /\ todo = <<>> /\ out # <<>>
  /\ LET s == Head(out) IN
       view' = [c \in Client |->
                  IF c \in Reached THEN [view[c] EXCEPT ![<<s.trace, s.id>>] = s.graph] ELSE view[c]]
  /\ out' = Tail(out)
  /\ UNCHANGED <<storeVars, subs, joined, graph, todo, posts>>

-------------------------------------------------------------------------------
\* POST /api/graph: later spans are mapped with it, stored ones keep their node_id.
PostGraph ==
  /\ Idle
  /\ graph < MaxGraphs
  /\ graph' = graph + 1
  /\ UNCHANGED <<storeVars, hubVars, todo, out, posts>>

\* A client opens /ws with an empty view: nothing of the past is sent to it.
Subscribe(c) ==
  /\ Idle
  /\ c \notin subs
  /\ subs' = subs \cup {c}
  /\ view' = [view EXCEPT ![c] = NoView]
  /\ joined' = [joined EXCEPT ![c] = clock]
  /\ UNCHANGED <<storeVars, graph, todo, out, posts>>

\* The socket closes.
Unsubscribe(c) ==
  /\ Idle
  /\ c \in subs
  /\ subs' = subs \ {c}
  /\ UNCHANGED <<storeVars, view, joined, graph, todo, out, posts>>

Next ==
  \/ \E spans \in Batches : PostSpans(spans)
  \/ IngestNew \/ IngestKnown \/ Publish
  \/ PostGraph
  \/ \E c \in Client : Subscribe(c) \/ Unsubscribe(c)

Spec == Init /\ [][Next]_vars

-------------------------------------------------------------------------------
(* Properties.                                                                   *)

Listed == {order[i] : i \in DOMAIN order}

\* The list and the map agree: GET /api/traces names every trace GET /api/traces/:id has
\* and no other, each once, and an evicted trace leaves nothing behind in the Map.
StoreConsistent ==
  /\ \A i, j \in DOMAIN order : order[i] = order[j] => i = j
  /\ Listed = {t \in Trace : bucket[t] # <<>>}

\* A span delivered again replaces its earlier copy, so a retry of the exporter is not seen.
NoSpanTwice ==
  \A t \in Trace : \A i, j \in DOMAIN bucket[t] :
    bucket[t][i].id = bucket[t][j].id => i = j

\* "Recent traces (last 50)" (README.md:707): the store holds the MaxTraces traces that came
\* last, newest first; what was evicted is older than all of them.
KeepsTheLatest ==
  /\ \A i, j \in DOMAIN order : i < j => firstSeen[order[i]] > firstSeen[order[j]]
  /\ \A t \in Listed, u \in Trace \ Listed : firstSeen[u] < firstSeen[t]

\* The live stream and the store agree: between requests, a client that has been connected
\* since a stored trace began knows every span of it, with the node the store has for it.
ViewCoversStore ==
  Idle => \A c \in subs, t \in Listed :
            firstSeen[t] > joined[c] =>
              \A i \in DOMAIN bucket[t] :
                view[c][<<t, bucket[t][i].id>>] = bucket[t][i].graph
===============================================================================
