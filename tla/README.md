# DebugViz in TLA+

DebugViz records the execution of a Go program and shows it on a graph of its code. A runtime
library (`go/lib/debugviz`) turns function calls into *spans* and exports them over HTTP; a debug
server (`server/`) stores the spans by trace, maps them to nodes of a graph and streams them to
browsers (`web/`); command-line tools scan a code base into the graph (`go/pkg/scanner`) and rewrite
it so that it calls the library (`go/pkg/codegen`).

This directory holds TLA+ models of that system, the TLC configurations that check them on small
instances, and TLAPS proofs of the properties that matter most. Paths below are relative to `src/`.

## 1. Inventory

| Component | State | Operations | Talks to | What is hard | What makes it correct |
|---|---|---|---|---|---|
| Ring buffer (`export.go`, `spanRing`) | `buf`, `head`, `tail`, `count` under a mutex | `push`, `pop` | exporter | indexes that go round, the limit | it is a FIFO queue that drops its oldest span at the limit |
| Exporter (`export.go`, `exporter`) | ring, `pending`, `notify` (capacity 1), `stop`, the batch being posted | `enqueue`, `loop`, `drainRing`, `flush`, `postBatch`, `shutdown` | program goroutines, server | producers run during drains and POSTs; lost answers; outages; shutdown | no span vanishes; none is forgotten; duplicates only for failed attempts; shutdown flushes and ends |
| Configuration (`config.go`) | `globalCfg`, `globalExport`, `globalOn`, `sourceRoot` under `globalMu` | `Configure`, `isEnabled`, `currentExporter` | exporter, spans | waits for a goroutine while holding the lock; spans in flight; failure half-way | one loop at most; off is quiet; on is live |
| Spans and hooks (`span.go`, `ids.go`, `http*.go`, `grpc.go`, `cli.go`, `worker.go`) | span in the context | `StartSpan`, `startRootSpan`, `endSpan`, one hook per kind of entry | configuration, exporter | two reads of the globals per hook; sampling; end functions that outlive their call | a trace is a tree with one root per entry; sampling is all or nothing |
| Trace store and hub (`server/src/trace/store.ts`) | `order`, `traces`, `subscribers` | `ingest`, `list`, `get`, `subscribe`, `publish` | routes, clients | eviction, re-delivery, late spans | list and map agree; each span once; the latest traces are kept; live clients know what is stored |
| Server state and routes (`state.ts`, `routes/*`) | `graph`, `mapper` | `POST /api/graph`, `POST /api/traces/spans`, GETs, `/ws` | store, mapper | the graph changes under stored spans | a span is mapped with the graph of its arrival |
| Span mapper (`protocol/src/span-mapper.ts`) | indexes built from a graph | `map` | server | first match wins, path templates | an entry span finds its entry, an inner one its function |
| Web hooks (`useTraceStream.ts`, `useGraph.ts`) | `summaries`, `activeTraceId`, `spans`, `spansByTrace` | `selectTrace`, `refreshSummaries`, `onmessage`, `reload` | server | awaits race with messages and with each other | the spans shown belong to the active trace |
| Wire (`go/pkg/codegen/wire`) | the source files | `Run`: resolve, analyse, rewrite, write | file system | several targets, errors half-way, second runs | every hook once; a second run changes nothing |
| Instrument (`go/pkg/codegen/instrument`) | the source files | `Run`: select, inject, write | file system | idempotence, errors half-way | each selected function once |
| Diff (`wire/diff.go`) | none | `lineDiff`, `collectHunks`, `hunkHeader` | command line | boundaries | the hunks turn the old text into the new one |
| Scanner and adapters (`go/pkg/scanner`) | graph under construction | package load, call graph, adapters | command line | identity of nodes, nested routers, duplicates | every route once, with its full path |
| Command line, start-up, validation, rendering, demos | - | - | - | - | not modelled (section 8) |

`PROJECT.json` lists the components with their status, and the places in the code that a test would
hardly reach ("hazards") with the properties that cover them.

## 2. Modules

```
DropOldest        operators of a queue that drops its oldest element
  SpanQueue       that queue as a state machine (abstract)
  SpanRing        the circular buffer                    implements SpanQueue
    SpanRing_proofs
  Exporter        loop, producers, POSTs, server         implements SpanDelivery
    Exporter_proofs
SpanDelivery      what an exporter promises (abstract)
Runtime           Configure against spans in flight
  Runtime_proofs
Tracing           hooks, spans and contexts of the program's goroutines
  Tracing_proofs
TraceStore        the server: store, hub, routes
  TraceStore_proofs
TraceStream       the page's live trace against that server
  TraceStream_proofs
GraphPoll         how the page comes by the graph
  GraphPoll_proofs
GoSource          a Go file as the generators see it, and as the compiler does
  Wire            targets, analysis and rewriting of "debugviz wire"
  Instrument      the same of "debugviz instrument"
    Codegen       a developer's tree under runs of both
      Codegen_proofs
Routes            HTTP routes found in a file, beside those it serves
Commands          CLI commands found in a file, beside those it has
  Entries         all entry points of a project, resolved and without duplicates
SpanMapper        the node a span belongs to
    Scan          a scan, step by step, and scanned again     (Entries, SpanMapper)
MC*               one model-checking instance per state machine
```

**SpanRing** has the ring's four fields; `Push`, `Pop` and `PopEmpty` are the critical sections of
`push` and `pop`. `taken` is the value the latest operation returned. A popped slot keeps its span, as
in Go.

**Exporter** uses the ring as the queue SpanRing is shown to implement. Spans are numbered in the
order their `push` takes the mutex. `Enqueue` and `Notify` are the two halves of `enqueue`, so that
other goroutines run between the push and the send. The loop is `Select` (any ready case, as Go's
`select` chooses), `DrainOne` and `Drained` (one `pop` per step), `PostSucceeds` and `PostFails` (one
attempt of `postBatch`), `RepushOne` and `Repushed`. Back-off and time-outs are the freedom of the
steps to be late. The server handles a request in one step (`Handle`), before or after the client has
given up on it (`HandleLate`); an attempt may fail whether or not it was handled, which covers refused
connections, time-outs, resets and answers outside 2xx. Duplicates therefore arise as in the code:
from a retry of something already handled. `Enqueue` may still happen after the loop has stopped,
because `endSpan` may hold an exporter that `Configure` has replaced.

**Runtime** has the four globals, and `phase` for the place of the one `Configure` call that can hold
`globalMu`: reads of the globals need `phase = "free"`. Starting a span reads `globalOn`; ending one
reads `globalExport` in one step and enqueues in another. An exporter here is a number with a closed
flag and a running flag, and no ring overflows. The last pass of a loop told to stop has two steps,
`LoopDrains` (`drainRing`) and `LoopStops` (the end of `flush`, which may fail, and the return), so that
spans can be enqueued on it in between; those, and all later ones, stay in a ring nobody reads.

**Tracing** has what Runtime leaves out: which span is whose parent, in which trace, with what status.
A goroutine is the stack of the calls it is in, a hook or a function with a span; each has a context
(the active span, and the trace id a hook put there), the span its deferred end will end, and the span
the hook writes to. A hook is two steps, `Enter` with its own `isEnabled` and `StartRoot` with that of
`startRootSpan`, and `Toggle` may come between them. `Spawn` gives a goroutine the context of another.
What the hooks do differently when the runtime is off, with an error and with a panic is in `HookCtx`,
`Enter`, `Failed` and `Written`. gin's hook is that of net/http with a status read from another place;
gRPC's is echo's without the name; both are hooks of the module but not of its run.

**TraceStore** has `order` and the Map of buckets. A handler has no `await` between its first and its
last line, so requests do not interleave; inside one, each span is ingested in a step of its own, then
each is published. A span is its trace, its id and the graph it was mapped with. `view` is what each
WebSocket client has been told since it connected.

**TraceStream** has the state of `useTraceStream` and a server whose POSTs carry one span and are one
step, as TraceStore's handlers are atomic. `wire` is the socket, in order; a selection and a list are
each split at their `await`: the request (`SelectTrace`, `AskList`), its handling (`GetTrace`,
`GetTraces`) and what the page does with the answer (`DetailArrives`, `DetailFails`, `ListArrives`,
`ListFails`). Answers overtake each other and the messages. A 404 is a request that can only fail. The
order by start time and the highlight sets are functions of `spans`, and left out. `socket` leaves
`"none"` once, when the graph is there; that it does so once is GraphPoll's `GraphStays`.

**GraphPoll** has the state of `useGraph`. `Start` is the timer or the first call of `reload`; each
poll is two requests, answered one by one (`Answer`, `Fail`) and taken together (`Loaded`, `Error`), as
`Promise.all` does. A graph is the number of its upload.

**GoSource, Wire, Instrument**: a file is its imports and functions, a statement the pattern the
generators look for (`k`), the debugviz functions it calls in order, the packages it mentions, and
whether a generator inserted it. `Builds` is the part of the compiler that the generators can upset:
imports are exactly the packages used, a router variable is declared above its use, `ctx, __dv_end :=`
declares something new, and `Process` still gets its arguments. Analysis and rewriting are functions of
a file and a configuration, one operator per function of the package.

**Codegen** has the tree on disk. A run of a command is its resolution (`StartWire`, `StartInstrument`,
which may refuse), one `RewriteTarget` per file, and `Complete`; `Interrupt` ends it anywhere, for a kill
and for a file that cannot be written, which then stays as it was. Runs follow each other in any order,
dry or not. Between runs the developer may change `debugviz.yaml`, put a line at the head of a function,
or add a call to main. `own` is the tree as it would be had no generator touched it.

**Routes, Commands, Entries**: what the adapters read off a source, by the variable names they go by, and
beside it what the program registers when it runs (`Served`, `CommandsOf`), which is external. A path is
the sequence of its pieces. Where the code ranges over a Go map, the result is a set of possible ones.

**SpanMapper** has the mapper as operators; where the answer depends on the order of nodes or the
spelling of a name it is a set. **Scan** runs the phases of `Scan` one by one (`AddPackages`,
`AddImportEdges`, `Discover`, `AddEntryPoints`, `AddCallGraph`, `Build`) and scans the same project again
(`Rescan`). Ids and the slugs in the ids of edges are made as in `graphids.go`, so they can collide. The
sort of the edges is by source and target only, so edges that tie may come in any order.

How state and actions correspond to the source, line by line, is the "map" of `PROJECT.json`.
Operators whose comment begins with "Mutant" are plausible bugs; each property is known to fail when
one of them replaces its original.

## 3. Runs

| Run | Module | What it shows |
|---|---|---|
| `span_ring` | MCSpanRing | the ring with 4 slots and 3 events implements the drop-oldest queue |
| `exporter` | MCExporter | safety, delivery and liveness of one exporter with an outage |
| `exporter_drops` | MCExporter | the first finding of section 6 |
| `runtime` | MCRuntime | three spans against three calls of Configure |
| `tracing` | MCTracing | nested hooks and spans in two goroutines while the runtime is turned on or off |
| `trace_store` | MCTraceStore | store and clients agree under re-delivery, eviction and graph uploads |
| `trace_stream` | MCTraceStream | timeline and history against messages, a click and late answers; what arrives is shown |
| `trace_stream_active` | MCTraceStream | the second finding of section 6 |
| `graph_poll` | MCGraphPoll | overlapping polls, uploads, a restart and a failed request |
| `codegen` | MCCodegen | both generators on 30 trees, cut short, repeated and mixed with edits |
| `codegen_build` | MCCodegen | the third finding of section 6 |
| `scan` | MCScan | some thousands of small projects scanned twice, against what they serve, run and call |

What each property says stands above its definition. The ones that carry most:

- `NothingVanishes`, `CopiesPaidByFailures`, `ImplementsDelivery`: every span pushed is in the ring, in
  `pending`, in the batch, at the server, or was dropped by a full ring; a second copy is paid for by a
  failed attempt; and it is dropped only while at least `Cap` spans are held.
- `WakeupNotLost`: the loop does not sleep over a non-empty ring unless a token is or will be there;
  after a failed flush only the ticker wakes it.
- `FlushedOnStop`, `StopsEventually`, `ConfigureReturns`: shutdown flushes what was pushed before it
  and does not hang, and neither does the `Configure` that waits for it with `globalMu` held.
- `LostOnlyToShutdown`: a span in the ring of a loop that has not begun its last flush is posted, unless
  that flush fails; a span on its way to an exporter nobody shuts down is posted. A span that comes while
  the last flush is under way (`export.go:67`) is lost, though the loop still runs.
- `OnMeansLive`, `OneLoop`: a Configure that returned nil left a live exporter, and never a second loop.
- `TreesWhole`, `OneTrace`, `OwnStatus`: a child span is in the trace of a parent that is recorded; the
  trace id a hook's context carries is that of its span; an exported entry span tells how its own call
  ended, not one inside or around it.
- `ViewCoversStore`: a client connected since a trace began knows every stored span of it with the
  node id the store has, re-deliveries after a graph upload included.
- `TimelineComplete`: as long as the timeline answers the latest switch of the active trace, be it a
  message or the latest click, a trace that began under the socket is shown with all its spans that have
  arrived. An older answer that comes last is outside of it: section 6 tells what that does.
- `HistoryIsFresh`: if the newest list asked for is the one shown, it is the server's.
- `GraphStays`, `GraphCatchesUp`: no failed poll or restart takes the graph away, and none leaves the
  page behind for ever.
- `ResumedEqualsOnePass`, `RerunWritesNothing`, `HookedOnce`, `WrittenKept`: whatever was cut short or
  refused before, once both generators have completed every file is what one pass of each makes of the
  developer's own; repeating a completed one writes nothing; nothing is hooked twice. Each statement of
  the developer's keeps its place, its kind, and the packages and calls in it (`Holds`), but for the three
  rewrites with which wire does lose code (section 6). The first two are stated of projects that are
  `Plain` (section 6).
  `ResumedEqualsOnePass` leaves out trees with a middleware above every router of its function, which
  wire writes into a function that returns its router without a variable (the project `Returned`): the
  tree no longer builds, so instrument refuses it in one order of the runs and not in the other.
- `TameKeepsBuild`: a file that built goes on building, for the projects of section 6.
- `RoutesFound`, `RoutesExact`, `CommandsFound`, `GraphFaithful`, `SameGraphAgain`, `SpansMapHome`: the
  entry points, nodes and edges of a graph are those of the program, a second scan gives the same graph,
  and spans of the running program map to where they belong, for the projects of section 6.

### Bounds

- Ring: 4 slots and 3 events make the indexes go round with every fill level.
- Exporter: `Cap = 2`, batches of 2, two attempts for the four of the code, three spans, three failed
  attempts. That is enough for a flush to fail completely, for the ring to fill during a POST, for a
  push-back to overflow it, for a late request after a success, and for a stop in each of these places.
  `MCExporterDrops` has a fourth span, so that a push-back meets a full ring of newer ones.
- Runtime: three calls of `Configure` give on-off-on, on-bad-on (the panic) and off-on-on; three spans
  are one that is early, one in flight and one that is late.
- Tracing: one goroutine that serves, one it starts; two spans and two calls deep are a parent and a
  child, a hook in a hook, a span in a hook and a hook in a span; one toggle falls between any two steps.
  The rate is "part", so that each root may or may not be recorded. echo, RunJob and RunCLI are the
  three hooks that differ in what they do when off, in the context they start from, and in what they
  write.
- TraceStore: two of three traces fit, batches of two can evict the trace they have just written, three
  POSTs allow delivery, eviction and re-delivery; one graph upload; two clients. Traces and span ids
  are symmetric.
- TraceStream: one of two traces fits, so that a picked trace can be evicted, and begin again, before
  its answer comes; three spans give a message before, during and after the selection. There is one
  click and no symmetry, for the liveness property; that two clicks overlap, and any number of anything,
  is covered by the proofs of the other four properties.
- GraphPoll: two polls that overlap, two graphs, one restart and one failure: an old answer after a new
  one, a pair across an upload, and a poll that fails half-way.
- Codegen: trees of three files, main, a router and a service, with main programs of each kind
  (listening, gRPC, cobra, worker, each also in a form the generator handles differently), a router of
  each framework, and configurations that name routers, globs, jobs or nothing. Two edits, so that a
  completed run can be followed by an edit, a run cut short and another edit. Runs are not bounded.
  Two trees have code that wire drops: an error branch with `log.Fatal`, and a further argument of `Process`.
  `Names` is the set of names the trees use; the proofs leave it open. Two trees are not `Plain`, one with
  a PersistentPreRun that calls Configure and one with a span written by hand below a new router.
- Scan: every chi function of up to three of ten statements that chi does not refuse, pairs of functions
  and of files, gin and echo functions of up to four statements, command trees of two commands and a
  root under one or two `AddCommand`s, urfave applications, every subset of six overlapping routes, graphs of up to two calls
  between functions of three packages (two of one slug), gRPC services and manual entries under four
  values of `--framework`. Two scans of each.

`MaxSpans`, `MaxFailures`, `MaxConfigures`, `MaxDepth`, `MaxToggles`, `MaxPosts`, `MaxBatch`,
`MaxGraphs`, `MaxPicks`, `MaxUploads`, `MaxRestarts`, `MaxEdits`, `MaxScans` and the set `Poll` bound the
runs and are not in the code. Deadlock checking is off in the runs whose bounds, or whose program, may
stop. The type invariants are theorems (section 4) and not repeated in the runs.

### Fairness

- Exporter: weak fairness of the loop's own steps and of `Notify` (the Go scheduler runs every
  goroutine), of the tick (a ticker fires for ever), of `Handle` and `PostSucceeds` (a request is
  answered unless its attempt fails), strong fairness of the stop case (`select` picks among ready
  cases at random). Failures need no fairness: `MaxFailures` says that an outage ends. `HandleLate` and
  `Shutdown` have none.
- Runtime: the goroutine in `Configure`, those between the halves of `endSpan`, and the loops go on: a
  last flush ends, for `postBatch` makes four attempts of at most five seconds each (`export.go:39`,
  `:115`). Nobody has to call `Configure` or to end a span.
- TraceStream: only that the browser runs the handler of a message that has arrived.
- GraphPoll: the timer goes on, a request is answered or fails, and its handler runs.
- Tracing, Codegen and Scan state no liveness: what a program, a developer or a user of the command line
  does next is up to them.

## 4. What is proved

The TLAPS theorems hold for every value of the constants, under the assumptions named in the modules
(capacities, batch sizes and attempt counts are positive; settings are among the three).

- `SpanRing_proofs`: `RingInvariant` and `RingImplementsQueue`. The inductive invariant is
  `IndexesAgree` with the types: `tail = (head + count) % Cap`, and the slots between hold spans. The
  refinement compares `Contents` before and after each step as sequences.
- `Exporter_proofs`: `ExporterSafe` (the types with the ring's bound, and `NothingVanishes`),
  `WakeupsKept` (`WakeupNotLost`) and `ShutdownFlushes` (`FlushedOnStop`). None is inductive alone.
  `ControlInv` ties the loop's variables to its place (the batch is empty outside of posting, the counter
  is below the limit while posting, a push-back means the pass failed). `HandledIsStored` says the loop
  forgets a batch only after the server handled it; `WakeupKept` covers spans that come during a POST;
  `LastBatch` says that in the stop pass the batch is all that is left of what was pushed before the close.
  `DuplicatesPaid` (`CopiesPaidByFailures`) counts: the copies the server has of a span, the abandoned
  requests that may still bring one, and one more if the loop may still post it, are no more than one and
  the failed attempts (`Paid`). It rests on `HeldOnce`, that ring, `pending` and batch share no span.
  `ExporterDelivers` is the refinement of SpanDelivery, `ImplementsDelivery`, step by step: a push that
  overflows is an `AcceptDiscarding` or, for a batch pushed back, a `Discard`; a request handled, late or
  not, is a `Receive`; the answer that lets the loop forget its batch is a `Release`.
- `Runtime_proofs`: `RuntimeSafe` (the types, `OneLoop`, `PanicsOnlyAfterError`), `OffIsQuiet`
  (`OffMeansQuiet`) and `OnIsLive` (`OnMeansLive`), inductive together with `HolderInv`, which says what
  `Configure` knows at each place while it holds the lock, above all that nothing runs when it creates a
  new exporter and that an exporter closed twice was left by a failed call.
- `TraceStore_proofs`: `StoreSafe` (the types with the list's bound, `StoreConsistent`),
  `RedeliveryReplaces` (`NoSpanTwice`) and `EvictsTheOldest` (`KeepsTheLatest`) are inductive together; the
  work is in `UnshiftedProperties` and `ListedAfterNew`, which say what is in the list after a new trace
  came. `StreamCoversStore` (`ViewCoversStore`) needs `ViewInv`: inside a POST, what a client lacks of a
  trace it saw begin is still to be published (`Told`), and what is to be published is in its newest
  version once it is ingested (`Fresh`).
- `TraceStream_proofs`: `StreamSafe` (the types, `TimelineComplete`), `OneTraceShown` (`ShownBelongs`),
  `MessagesKept` (`LiveMissesNothing`) and `ListStaysFresh` (`HistoryIsFresh`). `DetailInv` numbers the
  switches of the active trace and says of each answer under way what it lacks: if it answers the latest
  switch, only what is still on the wire. Of an answer to an older switch it says nothing, and neither do
  `StreamSafe` and `OneTraceShown` once such an answer has come last; `ListStaysFresh` leaves out an older
  list in the same way. `ListInv` does the same for lists. `BeforeOpen` is needed for
  the step that subscribes. That an ingested span is on the wire before anything else can happen to the
  page is `PublishedProperties`.
- `GraphPoll_proofs`: `PollSafe`, the types and `PairOfOnePoll`, and the action property `PollKeepsGraph`.
  `ServedLatest` says that the graph served is the latest upload or none, `AnswersNotOlder` that a poll is
  answered with nothing older than what was served when it began.
- `Tracing_proofs`: `TracingSafe` (the types, `TreesWhole`) and `TracesAgree` (`OneTrace`). The invariant
  follows the contexts: `Contexts_OK` says of every context that a call or a goroutine holds that it names
  a span that exists, and the trace of that span (`CtxGood`); `Linked` says the same of parents; `Kept`
  that, while nothing is toggled, a recorded span is exported or still to be ended by a call on some stack.
  The frames of a stack after a push, a pop and a replacement are lemmas of their own. `StatusIsOwn`
  (`OwnStatus`) needs to know who may write to a span: `Owners` says of each call that its span bears its
  entry and nobody wrote to it yet, `SeenByOwner` that no other hook sees it, both for goroutines that no
  toggle disturbed.
- `Codegen_proofs`: `HookedOnceAlways` (`HookedOnce`) and `DevelopersStatementsKept` (`WrittenKept`), for every
  set of trees, configurations and edits, and every order of runs, interruptions and edits. What is
  assumed of them (`CodegenAssumption`): the trees to start from are made by hand, that is no statement is
  marked as a generator's, none declares `__dv_end` and no call is wrapped twice in one hook, and the
  calls a developer adds to main later do not include `Configure`. The invariant compares each body with
  the developer's (`BodyGood`): `Carries` is an increasing map from the developer's statements onto those
  that are not generated, from which the ranks of `WrittenKept` follow by counting (`ImageCounts`).
  `Survives` says of each pair what is left of the developer's: all its packages and calls, or, of a
  PersistentPreRun and an Execute block, what wire wrote over it; the arguments that `Process` loses are
  the third exception of `WrittenKept`.
  That a function keeps one span is the hard part, for `isAlreadyInstrumented` reads three statements
  only: the span must stay among them, so `SpanPlaced` says that it is at most as far down as lines were
  put above it, and above everything wire inserts behind. wire breaks this where it strands a middleware
  at the head; that this never meets instrument is `NoneStranded`, as instrument begins only on trees that
  build and strands nothing. The proof has one lemma for an insertion anywhere (`Inserted`) with what it
  does to each promise, one for hooks put into calls where they stand (`Keeps`), and one per injection of
  the generators. That jobs are injected in turn is an induction over a recursive function, done with a
  set of numbers (`SetInduction`).

  `RerunKept` (`RerunWritesNothing`) is the idempotence of the two commands. It needs `RInv` beside the
  invariant above: of every target a running wire has visited, and of all of them once it has completed,
  `Wired` says that another analysis finds nothing, or only hooks no call of main can take
  (`WireUnderway`, `WireSettled`); `Instrumented` says the same of instrument. Three facts carry it. A
  rewritten file is settled (`WireSettles`, `InstrumentSettles`), and a settled file is rewritten to itself
  (`WiredStays`, `InstrumentedStays`). Neither command unsettles the other's work (`SpannedKeepsWired`,
  `WireKeepsInstrumented`): above the creation of a router, where spans are kept by `Neat`, wire inserts
  nothing; where it strands a middleware the file no longer builds, which is why `InstrumentSettled` ends
  with `HeadlessNow`. And no rewriting changes what the targets are (`SameTargets`), for the order in
  which wire finds routers depends only on what functions create.

  `ResumedKept` (`ResumedEqualsOnePass`) says what the completed commands leave. The developer's files
  have not been edited, so that each file has one of five forms (`Unwired`, `HalfWired`): the developer's,
  instrumented, wired, wired and then instrumented, or instrumented and then wired. `PInv` says that
  every file has one, and that a file no target names has one of the first two (`Underway`); each step
  of either command takes a form to a form (`WireAdvances`, `InstrumentAdvances`), and a form in which neither
  finds anything to do is what one pass of each makes of the developer's file (`Arrived`). The last two forms are the same file, as the two orders
  put the same statements at the same places and add the same imports (`MainCommutes`, `RouterCommutes`):
  main gets no span, and in another function the span goes to the head and the middleware behind the
  router, whichever comes first (`HeadCommutes`), unless a middleware is stranded at the head. The theorem
  is stated where none is, and `Headed` adds that the developer's own `Use` calls stand behind their
  routers too: instrument has run only on trees that build (`BuildsHeaded`).

## 5. What is only model-checked

- `TameKeepsBuild` of Codegen. It speaks of the packages and variables that every statement of a file uses,
  before and after each injection, and not only of the statements a command keeps, adds and looks for.
- All of Scan: its modules fold over sources with recursive operators and `SelectSeq`, which tlapm
  cannot expand.
- Liveness: `EventuallyDelivered`, `StopsEventually`, `LostOnlyToShutdown`, `ConfigureReturns`,
  `PathBecomesVisible`, `GraphCatchesUp`. Liveness under fairness is out of the prover's reach.

## 6. Findings

`exporter_drops` (`DropsOldest`): the ring drops its oldest span, as `TestExporterRingBufferDropsOldest`
(`debugviz_test.go:149`) says of it, but the exporter does not. `flush` pushes a failed batch back
*behind* the spans that arrived during the POST (`export.go:102`). When the ring is full, each of these
pushes discards the span at the head, which is newer than the one pushed. After an outage the buffer
holds the oldest spans and has lost newer ones, and what is left is posted out of order.

`trace_stream_active` (`ShowsActiveTrace`): the page is said to highlight the path of the active trace
(`README.md:103`). `selectTrace` shows its answer whatever became active during the await
(`useTraceStream.ts:48`). If a message of another trace came first, the late details replace that
trace's spans while its id stays in the heading, until the next message or click. `ShownBelongs` says
that only such an answer, or a selection not answered yet, leaves the spans of another trace there. If a
message of the *same* trace came first, the details, read before it, take its span away again: the trace
is under its own heading and not whole, also until the next message or click. That is the second half of
`ShowsActiveTrace`; with a selection that is unanswered or has failed it is what `TimelineComplete` leaves
out.

`codegen_build` (`KeepsBuild`): wire is said not to break `go build` (`docs/MVP_PLAN.md:722`). In a
function with two routers it takes the variable of the second (`analyze.go:369`) and puts the `Use`
after the creation of the first (`rewrite.go:285`), above the variable's declaration.

### Where a property holds only for some programs

Each condition under which `TameKeepsBuild` is stated is a way in which wire, without it, writes a file
that does not build:

- no service name anywhere: `os.Getenv` is inserted without an import of `os`;
- `strategy` names a hook whose call main lacks: the imports are added and stay unused;
- an `Execute` block replaced by `RunCLI` was the last use of an import, or Configure was written by
  hand, and `log` is imported without a use;
- a worker's `Process` takes no argument, or more than a context;
- a function creates several routers, or one it does not assign to a variable;
- three lines put above a span hide it, and the next run of instrument declares it again.

`RerunWritesNothing` and `ResumedEqualsOnePass` are stated of `Plain` projects, which rules out two ways in
which a second run writes a file again, although wire and instrument are said to be idempotent
(`docs/MVP_PLAN.md:640`, `:508`); TLC shows both on the trees of `MCCodegen` when `Plain` is left out:

- `injectCobraPreRun` replaces whatever main assigns to `PersistentPreRun` (`rewrite.go:401`). If that
  function called `debugviz.Configure`, the run has seen the call and inserts none, and removes it; the
  next run inserts one. The `Execute` block is replaced in the same way.
- A function starts a span by hand below the creation of a router. The middleware that wire inserts
  between the two pushes that span out of the three statements `isAlreadyInstrumented` looks at
  (`instrument/analyze.go:108`), so that an instrument run that had completed, and left the function
  alone, finds it anew.

`WrittenKept` has three exceptions, each of them code of the developer's that wire removes, and without
each of them TLC finds it violated:

- `injectCobraPreRun` puts `debugviz.CLICommandPreRun` in place of the function that main assigns to
  `PersistentPreRun` (`rewrite.go:399`): what that function did is gone.
- `injectCLIRun` puts an `if` of its own in place of the whole `Execute` block (`rewrite.go:380`), with
  `fmt.Fprintln(os.Stderr, err)` and `os.Exit(1)` for an error branch: only the `Execute` call is kept.
- `injectWorkerJob` calls `Process` with the context alone and drops its other arguments
  (`rewrite.go:553`), and so what these mention.

The properties of Scan are stated for the programs named above them (`Plain`, `Flat`, `Declares`, `Decided`):

- `RoutesFound`: routes registered with `r.Method("GET", ...)` are listed as `/GET`; `r.With(mw).Get`,
  `Mount`, and routes of a `Group` under another name are missed.
- `RoutesExact`: the body of `r.Route(...)` is walked once with its prefix and once again without, so its
  routes are listed a second time where nothing serves them (`GET /`, `GET /{id}` and `POST /` in the
  repository's own `testdata/demo_http.golden.json:6`, `:66`, `:76`), they hide a true route with that
  path, and its middleware is added to the router outside. In chi the routers of one function are still
  known in the next. A gin or echo router that is a parameter gets its middleware twice.
- `CommandsFound`: a command declared by `var`, or with `RunE`, is not found; one written in place in
  two `AddCommand` calls takes the id of another; one added twice keeps its last parent; names are shared
  by all functions of a project, up to a cycle of parents, on which the scan never ends (`cli.go:413`).
- `GraphFaithful`: two functions of one name in a file (methods of two types) are one node; two package
  paths that differ in `/`, `-` or `.` give edges one id, and one of them is lost; the calls of generic
  functions, and gRPC streams, are not found; a package of another module whose path begins with this one's counts as
  its own (`callgraph.go:116`).
- `SameGraphAgain`: a name declared in several packages, duplicates among the commands, middleware used
  twice and import edges with one id depend on the order of a Go map or of an unstable sort.
  `pkg.Type.Method`, which `FindFuncByName` documents (`scanctx.go:353`), never matches that type.
- `SpansMapHome`: a route with a trailing slash and one without are one to the mapper, and gin's `:id`
  matches nothing but itself; the span of a middleware is mapped to the function above its line.

`OwnStatus` and `OneTrace` leave out goroutines that ran while the runtime was turned on or off: a hook
that passed the first `isEnabled` and not the second writes to the span of the call around it. A panic is
exported with status ok; `EchoMiddleware` swallows the error of its handler (`http_echo.go:31`), and one that is no
`echo.HTTPError` leaves the status ok. A job inside a job, and a request inside a request without a
header, begin a trace of their own; each root is sampled by itself, so one trace id can be recorded in part.

## 7. Plan

What is left, in this order:

1. **Pipeline**: Exporter's deliveries into TraceStore into TraceStream, with late requests and eviction;
   abstract specification: at-least-once delivery of every span that was not dropped. Candidate for a
   finding: a trace revived after its eviction is partial (`README.md:708`).
2. **Diff** (`wire/diff.go`): operators checked against a reference (the hunks applied to the old text give
   the new one), with the counts of `hunkHeader`.
3. A proof of `TameKeepsBuild`, one injection at a time, along the steps `ApplyMainSteps` names.
4. **Entries**: the queues of workers, streams of gRPC services, and the inference of handler types.

## 8. What is not modelled, and why

- A body the server rejects with 400: the library only emits spans the schema accepts (line at least
  1, non-empty ids), so the retry of a rejected batch is not a behaviour of this system; in TraceStore
  an invalid batch changes nothing.
- Errors of `json.Marshal` and `http.NewRequest` in `postBatch`: they cannot occur for the batches and
  endpoints `newExporter` accepts.
- The server's restart in TraceStream: the page's part of it is `Close` and requests that fail, and the
  hook never connects again. `connected` and `loading` only decide what text is shown.
- Floating-point layout, 3D scene, styling, WASM: no protocol and no lasting state.
- Configuration from environment and YAML: assignments, without state of their own; a sample rate of 0
  means 1 (`config.go:141`, against `README.md:664`), as in Tracing's `Recorded`.
- Formatting, comments and the text of inserted code; matching of a glob against a path; loading and type
  checking of packages; the output formats of a scan.
- The diff of `wire --dry-run` (section 7); flag parsing, static files, JSON schemas, containers, demos and
  examples.
- Times, files and lines of spans in Tracing: SpanMapper has the file and the line as inputs.
