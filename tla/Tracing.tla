------------------------------- MODULE Tracing -------------------------------
(***************************************************************************)
(* Spans and the hooks that open them, go/lib/debugviz (span.go, http.go,  *)
(* http_gin.go, http_echo.go, grpc.go, cli.go, worker.go): each goroutine  *)
(* of the program is a stack of the calls it is in, a hook or a function   *)
(* with a span, and each call hands a context to the next.  Configure may  *)
(* turn the runtime on and off at any time, also between the two reads of  *)
(* isEnabled in a hook; what it does with the exporters is Runtime's       *)
(* subject.                                                                *)
(***************************************************************************)
EXTENDS Naturals, Sequences

CONSTANTS
  Goroutines,
  Servers,      \* those that begin on their own; the others are started with a context
  Hooks,        \* the hooks the program uses: a subset of {"http", "echo", "grpc", "job", "cli"}
  Rate,         \* the configured sample rate: "negative", "zero", "part" or "one"
  MaxSpans,     \* bound: spans of the program
  MaxDepth,     \* bound: calls a goroutine is in
  MaxToggles    \* bound: calls of Configure that turn the runtime on or off

ASSUME TracingAssumption ==
  /\ Servers \subseteq Goroutines
  /\ Hooks \subseteq {"http", "echo", "grpc", "job", "cli"}
  /\ Rate \in {"negative", "zero", "part", "one"}
  /\ MaxSpans \in Nat /\ MaxDepth \in Nat /\ MaxToggles \in Nat

VARIABLES
  on,           \* globalOn
  spans,        \* the spans created so far; a span is known by its number, 0 is nil
  stack,        \* the calls each goroutine is in, innermost last
  base,         \* the context each goroutine was started with
  exported,     \* what endSpan enqueued: spans as they were then
  ids,          \* trace ids made so far
  toggles,
  disturbed     \* goroutines that ran while the runtime was turned on or off
vars == <<on, spans, stack, base, exported, ids, toggles, disturbed>>

\* How a call ends; plain is an error that is no echo.HTTPError.
Results(kind) == {"ok", "error", "panic"} \cup (IF kind = "echo" THEN {"plain"} ELSE {})

\* The values of a context: the active span, and the trace id a hook put there.
NoTrace == <<>>
Background == [span |-> 0, trace |-> NoTrace]
Fresh == <<"new", ids + 1>>
Incoming(g) == <<"sent", g>>

\* The name of an entry point tells it from those around it.
Entry(g) == <<g, Len(stack[g]) + 1>>

\* A call: its context, the span its end callback ends, the span the hook writes to.
Call(kind, entry, ctx, own, sees, step) ==
  [kind |-> kind, entry |-> entry, ctx |-> ctx, own |-> own, sees |-> sees, step |-> step]
Top(g) == stack[g][Len(stack[g])]
Ctx(g) == IF stack[g] = <<>> THEN base[g] ELSE Top(g).ctx
Push(g, call) == stack' = [stack EXCEPT ![g] = Append(@, call)]
Replace(g, call) == stack' = [stack EXCEPT ![g] = [@ EXCEPT ![Len(@)] = call]]
Pop(g) == stack' = [stack EXCEPT ![g] = SubSeq(@, 1, Len(@) - 1)]
Running(g) == stack[g] # <<>> => Top(g).step = "running"
Room(g) ==
  /\ g \in Servers \/ base[g] # Background
  /\ Running(g) /\ Len(stack[g]) < MaxDepth

Init ==
  /\ on \in BOOLEAN
  /\ spans = <<>> /\ exported = {}
  /\ stack = [g \in Goroutines |-> <<>>]
  /\ base = [g \in Goroutines |-> Background]
  /\ ids = 0 /\ toggles = 0 /\ disturbed = {}

\* Configure, as far as isEnabled tells.
Toggle ==
  /\ toggles < MaxToggles
  /\ toggles' = toggles + 1
  /\ on' = ~on
  /\ disturbed' = disturbed \cup {g \in Goroutines : stack[g] # <<>> \/ base[g] # Background}
  /\ UNCHANGED <<spans, stack, base, exported, ids>>

-----------------------------------------------------------------------------
\* normalizeConfig: a rate that is not positive is 1.
Recorded == IF Rate = "part" THEN BOOLEAN ELSE {TRUE}

Span(g, trace, parent, entry, record) ==
  [by |-> g, trace |-> trace, parent |-> parent, name |-> entry, entry |-> entry,
   status |-> "ok", record |-> record, result |-> ""]

\* HTTPMiddleware and UnaryServerInterceptor read the trace id of the request or make one;
\* RunCLI starts from the background, RunJob from the context it is given.
HookCtx(g, kind, sent) ==
  CASE kind = "cli" -> Background
    [] kind = "job" -> Ctx(g)
    [] OTHER -> [Ctx(g) EXCEPT !.trace = IF sent THEN Incoming(g) ELSE Fresh]

\* The hook's own isEnabled; off, it only calls what it wraps, but echo's wrapper is itself
\* what is called, and looks for a span without asking whether the runtime is on.
Enter(g) ==
  /\ Room(g) /\ Len(spans) < MaxSpans
  /\ \E kind \in Hooks, sent \in BOOLEAN :
       \/ /\ on
          /\ Push(g, Call(kind, Entry(g), HookCtx(g, kind, sent), 0, 0, "starting"))
          /\ ids' = IF HookCtx(g, kind, sent).trace = Fresh THEN ids + 1 ELSE ids
       \/ /\ ~on
          /\ Push(g, Call(kind, <<>>, IF kind = "cli" THEN Background ELSE Ctx(g), 0,
                          IF kind = "echo" THEN Ctx(g).span ELSE 0, "running"))
          /\ UNCHANGED ids
  /\ UNCHANGED <<on, spans, base, exported, toggles, disturbed>>

\* Mutant: startRootSpan does not look for a trace id in the context.
RootTraceNew(ctx) == Fresh

RootTrace(ctx) == IF ctx.trace # NoTrace THEN ctx.trace ELSE Fresh

\* Mutant: the hook writes to the span of the context it was given.
SeenOuter(call, created) == call.ctx.span

\* SpanFromContext of the context startRootSpan returns.
Seen(call, created) == IF created = 0 THEN call.ctx.span ELSE created

\* startRootSpan, with an isEnabled of its own.
StartRoot(g) ==
  /\ stack[g] # <<>> /\ Top(g).step = "starting" /\ Len(spans) < MaxSpans
  /\ \/ /\ ~on /\ UNCHANGED <<spans, ids>>
        /\ Replace(g, [Top(g) EXCEPT !.step = "running", !.sees = Seen(Top(g), 0)])
     \/ /\ on
        /\ \E record \in Recorded :
             spans' = Append(spans, Span(g, RootTrace(Top(g).ctx), 0, Top(g).entry, record))
        /\ ids' = IF RootTrace(Top(g).ctx) = Fresh THEN ids + 1 ELSE ids
        /\ Replace(g, Call(Top(g).kind, Top(g).entry, [Top(g).ctx EXCEPT !.span = Len(spans) + 1],
                           Len(spans) + 1, Seen(Top(g), Len(spans) + 1), "running"))
  /\ UNCHANGED <<on, base, exported, toggles, disturbed>>

\* Mutant: a span is started below one that is not recorded.
QuietAlways(ctx) == ~on

\* StartSpan gives back its context and an end that does nothing.
Quiet(ctx) == ~on \/ (ctx.span # 0 /\ ~spans[ctx.span].record)

StartSpan(g) ==
  /\ Room(g) /\ Len(spans) < MaxSpans
  /\ LET ctx == Ctx(g)
         n == Len(spans) + 1
         trace == IF ctx.span # 0 THEN spans[ctx.span].trace ELSE Fresh
     IN  \/ /\ Quiet(ctx) /\ UNCHANGED <<spans, ids>>
            /\ Push(g, Call("span", <<>>, ctx, 0, 0, "running"))
         \/ /\ ~Quiet(ctx)
            /\ spans' = Append(spans, Span(g, trace, ctx.span, <<>>, TRUE))
            /\ ids' = IF ctx.span # 0 THEN ids ELSE ids + 1
            /\ Push(g, Call("span", <<>>, [ctx EXCEPT !.span = n], n, 0, "running"))
  /\ UNCHANGED <<on, base, exported, toggles, disturbed>>

\* A goroutine started with the context of another.
Spawn(g, h) ==
  /\ stack[g] # <<>> /\ Running(g)
  /\ stack[h] = <<>> /\ base[h] = Background /\ Ctx(g) # Background
  /\ base' = [base EXCEPT ![h] = Ctx(g)]
  /\ disturbed' = disturbed \cup (IF g \in disturbed THEN {h} ELSE {})
  /\ UNCHANGED <<on, spans, stack, exported, ids, toggles>>

-----------------------------------------------------------------------------
\* endSpan: currentExporter is nil when the runtime is off.
Exported(s, all) ==
  IF s # 0 /\ on THEN exported \cup {<<n, all[n]>> : n \in {k \in {s} : all[k].record}} ELSE exported

EndSpan(g) ==
  /\ stack[g] # <<>> /\ Top(g).kind = "span"
  /\ exported' = Exported(Top(g).own, spans)
  /\ Pop(g)
  /\ UNCHANGED <<on, spans, base, ids, toggles, disturbed>>

\* What each hook takes for an error.
Failed(result) == result = "error"

\* The hook writes to the span it sees, unless the handler panics, and ends its own.
Written(call, result) ==
  [n \in DOMAIN spans |->
     [spans[n] EXCEPT
        !.status = IF n = call.sees /\ Failed(result) THEN "error" ELSE @,
        !.name = IF n = call.sees /\ call.entry # <<>> /\ call.kind \in {"http", "echo"}
                    /\ result # "panic"
                 THEN call.entry ELSE @,
        !.result = IF n = call.own THEN result ELSE @]]

\* The deferred end comes last, and exports what the hook wrote.
Ended(call, result) == Exported(call.own, Written(call, result))

Return(g, result) ==
  /\ stack[g] # <<>> /\ Top(g).kind # "span" /\ Top(g).step = "running"
  /\ result \in Results(Top(g).kind)
  /\ spans' = Written(Top(g), result)
  /\ exported' = Ended(Top(g), result)
  /\ Pop(g)
  /\ UNCHANGED <<on, base, ids, toggles, disturbed>>

Next ==
  \/ Toggle
  \/ \E g \in Goroutines :
       \/ Enter(g) \/ StartRoot(g) \/ StartSpan(g) \/ EndSpan(g)
       \/ \E h \in Goroutines \ {g} : Spawn(g, h)
       \/ \E result \in {"ok", "error", "plain", "panic"} : Return(g, result)
Spec == Init /\ [][Next]_vars

-----------------------------------------------------------------------------
Traces == {NoTrace} \cup ({"new"} \X Nat) \cup ({"sent"} \X Goroutines)
Entries == {<<>>} \cup (Goroutines \X Nat)
Contexts == [span : Nat, trace : Traces]
SpanRecords ==
  [by : Goroutines, trace : Traces, parent : Nat, name : Entries, entry : Entries,
   status : {"ok", "error"}, record : BOOLEAN, result : {"", "ok", "error", "plain", "panic"}]
Calls ==
  [kind : Hooks \cup {"span"}, entry : Entries, ctx : Contexts, own : Nat, sees : Nat,
   step : {"starting", "running"}]

TypeOK ==
  /\ on \in BOOLEAN /\ toggles \in Nat /\ ids \in Nat /\ disturbed \subseteq Goroutines
  /\ spans \in Seq(SpanRecords)
  /\ stack \in [Goroutines -> Seq(Calls)]
  /\ base \in [Goroutines -> Contexts]

\* A child span belongs to the trace of its parent, and the parent is recorded: the tree
\* that a client draws has no hole, whatever was sampled, spawned or turned on and off.
\* Once everything has returned the parent is exported too, if nothing was turned off.
TreesWhole ==
  /\ \A n \in DOMAIN spans : LET p == spans[n].parent IN
       p # 0 => p < n /\ spans[p].record /\ spans[p].trace = spans[n].trace
  /\ toggles = 0 /\ on /\ (\A g \in Goroutines : stack[g] = <<>>) =>
       \A n \in DOMAIN spans : spans[n].record => \E e \in exported : e[1] = n

\* An exported entry span tells how its own call ended, under its own name, and never how
\* a call inside or around it did.
OwnStatus ==
  \A e \in exported : LET span == e[2] IN
    span.by \notin disturbed /\ span.entry # <<>> =>
      /\ span.name = span.entry
      /\ span.status = "error" <=> span.result = "error"

\* The trace id that a context carries for the hooks is that of its span: the spans of a
\* request, whoever opens them, are in the trace its header names.
OneTrace ==
  \A g \in Goroutines \ disturbed :
    Running(g) /\ Ctx(g).trace # NoTrace
      => Ctx(g).span # 0 /\ spans[Ctx(g).span].trace = Ctx(g).trace
=============================================================================
