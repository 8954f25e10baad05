-------------------------------- MODULE Scan --------------------------------
(***************************************************************************)
(* One scan of a Go project, go/pkg/scanner (scanner.go, callgraph.go,     *)
(* graphids.go): packages, imports, entry points and calls become nodes    *)
(* and edges under ids made of their names, and the graph is sorted.  The  *)
(* same project may be scanned again: what comes out of a Go map may then  *)
(* come in another order.                                                  *)
(***************************************************************************)
EXTENDS Entries, SpanMapper

CONSTANTS Projects,     \* the projects scanned
          MaxScans      \* bounds the scans of one project
ASSUME MaxScansAssumption == MaxScans \in Nat \ {0}

VARIABLES project, phase, entries, nodes, edges, graph, before, scans
vars == <<project, phase, entries, nodes, edges, graph, before, scans>>

-----------------------------------------------------------------------------
(* Ids, graphids.go.  An id is its type, the pieces of its path and a name.  *)

\* strings.NewReplacer("/", "-", ".", "-"): the pieces are joined by dashes.
Dashed(pieces) == FoldLeft(LAMBDA s, piece : s \o "-" \o piece, "", pieces)
Slug(id) == <<id[1], Dashed(id[2]), id[3]>>

PackageID(pkg) == <<"pkg", pkg, "">>
FunctionID(f) == <<"func", f.file, f.name>>
MiddlewareID(f) == <<"mw", f.file, f.name>>

\* entryNodeID: the words of a command are joined by dashes in the id itself.
EntryID(e) == IF e.kind = "cli" THEN <<"cli", <<Dashed(e.path)>>, "">> ELSE <<e.kind, e.path, "">>

PackageNode(pkg) == [id |-> PackageID(pkg), type |-> "package"]
FileNode(file) == [id |-> <<"file", file, "">>, type |-> "file"]
FunctionNode(f) == [id |-> FunctionID(f), type |-> "function",
                    file |-> f.file, name |-> f.name, line |-> f.line]
MiddlewareNode(f) == [id |-> MiddlewareID(f), type |-> "middleware"]
EntryNode(e) == [id |-> EntryID(e), type |-> "entry_point", kind |-> e.kind, path |-> e.path]

Edge(type, source, target, mark) ==
    [type |-> type, source |-> source, target |-> target, mark |-> mark]
EdgeID(edge) == <<edge.type, Slug(edge.source), Slug(edge.target),
                  IF edge.type = "middleware_chain" THEN edge.mark ELSE "">>

\* The maps b.nodes and b.edges: an item is put under its id, or only if the id is free.
Replace(map, id, item) == (id :> item) @@ map
PutNew(map, id, item) == IF id \in DOMAIN map THEN map ELSE Replace(map, id, item)
PutNode(g, node) == [g EXCEPT !.nodes = PutNew(@, node.id, node)]
PutEdge(g, edge) == [g EXCEPT !.edges = Replace(@, EdgeID(edge), edge)]
PutNewEdge(g, edge) == [g EXCEPT !.edges = PutNew(@, EdgeID(edge), edge)]

-----------------------------------------------------------------------------
Init == /\ project \in Projects
        /\ phase = "start" /\ scans = 1
        /\ entries = <<>> /\ nodes = <<>> /\ edges = <<>>
        /\ graph = <<>> /\ before = <<>>

\* addPackage: a node for each package and for each file, tests only if asked for.
AddPackages ==
    /\ phase = "start"
    /\ nodes' = LET files == {f \in project.sources : ~f.test \/ project.tests}
                    all == {PackageNode(p) : p \in project.pkgs} \cup {FileNode(f.file) : f \in files}
                IN  [id \in {n.id : n \in all} |-> CHOOSE n \in all : n.id = id]
    /\ phase' = "packages"
    /\ UNCHANGED <<project, entries, edges, graph, before, scans>>

\* Mutant: a package that was not scanned gets no node.
ImportedScanned(g, import) ==
    PutNewEdge(g, Edge("imports", PackageID(import[1]), PackageID(import[2]), ""))

\* addImportEdges: an imported package gets a node if it has none.
Imported(g, import) ==
    PutNewEdge(PutNode(g, PackageNode(import[2])),
               Edge("imports", PackageID(import[1]), PackageID(import[2]), ""))

\* The imports of a package are a map: of two with one slug either may come first.
AddImportEdges ==
    /\ phase = "packages"
    /\ \E imports \in Orders(project.imported) :
         LET g == FoldLeft(Imported, [nodes |-> nodes, edges |-> edges], imports)
         IN  nodes' = g.nodes /\ edges' = g.edges
    /\ phase' = "imports"
    /\ UNCHANGED <<project, entries, graph, before, scans>>

\* A cycle among the commands keeps the scan busy for ever.
Discover ==
    /\ phase = "imports"
    /\ IF "cli" \in Selected(project) /\ Endless(Tree(project.source))
       THEN phase' = "stuck" /\ UNCHANGED entries
       ELSE /\ phase' = "entries"
            /\ \E found \in Discoveries(project) :
                 entries' \in EachOne([i \in DOMAIN found |-> Resolved(project, found[i])])
    /\ UNCHANGED <<project, nodes, edges, graph, before, scans>>

Handled(g, e, f) ==
    PutEdge(PutNode(g, FunctionNode(f)), Edge("entry_handles", EntryID(e), FunctionID(f), ""))
Chained(g, e, i) ==
    PutEdge(PutNode(g, MiddlewareNode(e.chain[i])),
            Edge("middleware_chain", EntryID(e), MiddlewareID(e.chain[i]), ToString(i)))

\* addHTTPEntryPoint and its siblings: an entry replaces one with its id.
Entered(g, e) ==
    FoldLeft(LAMBDA h, i : Chained(h, e, i),
             FoldLeft(LAMBDA h, f : Handled(h, e, f),
                      [g EXCEPT !.nodes = Replace(@, EntryID(e), EntryNode(e))], e.handler),
             [i \in DOMAIN e.chain |-> i])

AddEntryPoints ==
    /\ phase = "entries"
    /\ LET g == FoldLeft(Entered, [nodes |-> nodes, edges |-> edges], entries)
       IN  nodes' = g.nodes /\ edges' = g.edges
    /\ phase' = "calls"
    /\ UNCHANGED <<project, entries, graph, before, scans>>

\* recordCall: a call of a named function, both in packages whose path begins with the
\* module's; the call of a generic function names none.
Recorded(call) ==
    call.how # "generic" /\ {call.from.pkg, call.to.pkg} \subseteq project.inModule
Confidence(how) == CASE how = "interface" -> "interface"
                     [] how = "package" -> "unknown"
                     [] OTHER -> "static"

\* addCallGraph: the first call between two functions decides on the confidence.
Called(g, call) ==
    PutNewEdge(PutNode(PutNode(g, FunctionNode(call.from)), FunctionNode(call.to)),
               Edge("calls", FunctionID(call.from), FunctionID(call.to), Confidence(call.how)))

AddCallGraph ==
    /\ phase = "calls"
    /\ LET g == FoldLeft(Called, [nodes |-> nodes, edges |-> edges],
                         SelectSeq(project.calls, Recorded))
       IN  nodes' = g.nodes /\ edges' = g.edges
    /\ phase' = "build"
    /\ UNCHANGED <<project, entries, graph, before, scans>>

\* The edges that have another one between the same two nodes.
Tied(all) == {e \in all : \E f \in all \ {e} : f.source = e.source /\ f.target = e.target}

\* build: the nodes are sorted by type and id, the edges by source and target, and
\* sort.Slice leaves those that tie in any order: tie is one that comes first.
Build ==
    /\ phase = "build"
    /\ LET all == Range(edges)
       IN  \E tie \in IF Tied(all) = {} THEN {<<>>} ELSE {<<e>> : e \in Tied(all)} :
             graph' = [nodes |-> Range(nodes), edges |-> all, tie |-> tie]
    /\ phase' = "done"
    /\ UNCHANGED <<project, entries, nodes, edges, before, scans>>

Rescan ==
    /\ phase = "done" /\ scans < MaxScans
    /\ before' = graph /\ graph' = <<>> /\ scans' = scans + 1
    /\ entries' = <<>> /\ nodes' = <<>> /\ edges' = <<>> /\ phase' = "start"
    /\ UNCHANGED project

Next == \/ AddPackages \/ AddImportEdges \/ Discover \/ AddEntryPoints
        \/ AddCallGraph \/ Build \/ Rescan
Spec == Init /\ [][Next]_vars

-----------------------------------------------------------------------------
(* The HTTP routes of a program, against what it serves.                     *)

RECURSIVE Statements(_)
Statements(body) == UNION {{s} \cup Statements(s.body) : s \in ToSet(body)}
StatementsOf(file) == UNION {Statements(fn.body) : fn \in ToSet(file)}

Routers(fn) == {s.on : s \in {t \in ToSet(fn.body) : t.op = "new"}}
                 \cup {s.par : s \in {t \in ToSet(fn.body) : t.op = "group"}}
Listed(path) == {e \in ToSet(entries) : e.kind = "http" /\ e.path = path}
ServedPaths == UNION {{r.path : r \in Served(file)} : file \in ToSet(project.files)}

\* The programs whose routes are all found: no route is registered by Method, behind
\* With or under Mount; a nested function calls its parameter as the router outside is called;
\* and a function creates the routers it uses.
Plain(file) ==
    /\ \A s \in StatementsOf(file) : /\ s.op \notin {"method", "chain", "mount"}
                                     /\ s.op = "inline" => s.par = s.on
    /\ \A fn \in ToSet(file) : {s.on : s \in Statements(fn.body)} \subseteq Routers(fn) \cup {"http"}
\* Every path such a program serves is an entry point of the graph.
RoutesFound ==
    phase = "calls" =>
      \A file \in ToSet(project.files) : Plain(file) =>
        \A r \in Served(file) : Listed(r.path) # {}

\* The programs whose routes are found exactly, with their handlers and middleware: no
\* function is nested, a path is served once, and no two functions share a router's name.
Flat(file) ==
    /\ Plain(file)
    /\ \A s \in StatementsOf(file) : s.op \notin {"route", "inline"}
    /\ \A i, j \in DOMAIN file : Routers(file[i]) \cap Routers(file[j]) # {} => i = j
AllServed == UNION {Served(file) : file \in ToSet(project.files)}
\* The entry points of such a program are the routes it serves, each with the handler that
\* answers and the middleware it passes, in order.
RoutesExact ==
    /\ phase = "calls" /\ project.manual = <<>>
    /\ \A file \in ToSet(project.files) : Flat(file)
    /\ \A r, q \in AllServed : r.path = q.path => r = q
    => {[path |-> e.path, h |-> e.handler, chain |-> e.chain] :
           e \in {f \in ToSet(entries) : f.kind = "http"}}
         = {[path |-> r.path, h |-> [i \in DOMAIN r.h |-> r.h[i].f],
             chain |-> [i \in DOMAIN r.chain |-> r.chain[i].f]] : r \in AllServed}

-----------------------------------------------------------------------------
(* Commands, against the tree a program builds.                              *)

Defined(body) == {s \in ToSet(body) : s.op = "cmd"}
OwnNames(source) == \A i, j \in DOMAIN source :
    {s.id : s \in Defined(source[i])} \cap {s.id : s \in Defined(source[j])} # {} => i = j

\* The sources whose commands are all found, and only they: a name belongs to one
\* function, a command is declared with := and runs Run, a root runs nothing, and what is
\* written in place names no function and is added to its parent by one call.
Declares(body) ==
    /\ \A s \in Defined(body) : s.short /\ s.cmd.run \in {"none", "Run"}
    /\ \A s \in Defined(body) :
         LET at == {i \in DOMAIN body : body[i].op = "add" /\ Named(s.id) \in ToSet(body[i].args)}
         IN  Cardinality(at) <= 1 /\ (s.cmd.run # "none" => at # {})
    /\ \A s \in ToSet(body) : \A a \in ToSet(s.args) :
          s.op = "add" /\ IsInline(a) =>
            /\ a.h = <<>> /\ a.run # "RunE"
            /\ \A t \in ToSet(body) \ {s} : t.op = "add" /\ t.id = s.id =>
                 \A b \in ToSet(t.args) : ~IsInline(b)
    /\ Cardinality({i \in DOMAIN body : body[i].op = "app" /\ body[i].id = ""}) <= 1

\* The command tree of such a source is found exactly, each command under its path with what
\* it runs; and a scan gets stuck only on names that two functions share.
CommandsFound ==
    /\ phase = "stuck" => ~OwnNames(project.source)
    /\ phase = "calls" /\ project.manual = <<>> /\ OwnNames(project.source)
         /\ (\A body \in ToSet(project.source) : Declares(body))
       => {<<e.path, e.handler>> : e \in {f \in ToSet(entries) : f.kind = "cli"}}
            = UNION {{<<c[1], [i \in DOMAIN c[2] |-> c[2][i].f]>> : c \in CommandsOf(body)} :
                        body \in ToSet(project.source)}

-----------------------------------------------------------------------------
(* The graph.                                                                *)

Sites == {<<c.from, c.to>> : c \in {d \in ToSet(project.calls) : Recorded(d)}}
Callable == UNION {{s[1], s[2]} : s \in Sites}
Handling == {<<e, f>> \in ToSet(entries) \X UNION {ToSet(e.handler) : e \in ToSet(entries)} :
                <<f>> = e.handler}

\* What the imports, the calls and the handlers ask of the graph.
Wanted == {<<"imports", PackageID(i[1]), PackageID(i[2])>> : i \in project.imported}
            \cup {<<"calls", FunctionID(s[1]), FunctionID(s[2])>> : s \in Sites}
            \cup {<<"entry_handles", EntryID(h[1]), FunctionID(h[2])>> : h \in Handling}
SameSlugs(w, v) == w[1] = v[1] /\ Slug(w[2]) = Slug(v[2]) /\ Slug(w[3]) = Slug(v[3])

\* Edges join nodes, also those of packages that are not scanned; an import, a call or a
\* handler is missing only if another one with its slugs stands in its place; and a
\* function that alone has its name in its file has its node, at its line.
GraphFaithful ==
    phase = "done" =>
      LET joined == {<<e.type, e.source, e.target>> : e \in graph.edges}
      IN  /\ \A e \in graph.edges : {e.source, e.target} \subseteq {n.id : n \in graph.nodes}
          /\ \A w \in Wanted : \E v \in Wanted \cap joined :
               w = v \/ (w \notin joined /\ SameSlugs(w, v))
          /\ \A f \in Callable :
               (\A g \in Callable \cup {h[2] : h \in Handling} :
                    FunctionID(f) = FunctionID(g) => f.line = g.line)
               => FunctionNode(f) \in graph.nodes

\* The projects that leave no choice to the order of a map: a name that several packages
\* declare is declared where it is used; commands differ in more than dashes; a chain
\* passes no middleware twice; and no two imports have one slug.
Decided ==
    /\ \A j \in ToSet(project.jobs) : \A e \in ToSet(j.h) : e.k = "value" =>
         LET owners == {f.pkg : f \in {g \in ToSet(project.funcs) : g.name = e.f.name}}
         IN  e.f.pkg \in owners \/ Cardinality(owners) <= 1
    /\ \A m \in ToSet(project.manual) : m.name = ""
    /\ \A body \in ToSet(project.source) : Declares(body) /\ Len(project.source) = 1
    /\ \A e \in ToSet(entries) : IsInjective(e.chain)
    /\ \A i, j \in project.imported :
         Dashed(i[1]) = Dashed(j[1]) /\ Dashed(i[2]) = Dashed(j[2]) => i = j
\* Scanning such a project again gives the same graph, in the same order.
SameGraphAgain ==
    phase = "done" /\ scans > 1 /\ Decided => graph = before

-----------------------------------------------------------------------------
(* The spans of the running program.                                         *)

\* Of the routes that fit a request chi takes the one that is literal where they part.
Fits(path, request) == Len(path) = Len(request) /\ \A i \in DOMAIN path :
    path[i] = request[i] \/ (path[i] \in Braced /\ request[i] # "")
Closer(p, q) == \E i \in DOMAIN p \cap DOMAIN q :
    p[i] \notin Braced /\ q[i] \in Braced /\ \A k \in 1..(i - 1) : p[k] = q[k]
Answering(request) ==
    LET fit == {r \in AllServed : Fits(r.path, request)}
    IN  {r \in fit : \A q \in fit : ~Closer(q.path, r.path)}

RequestSpan(request) == [root |-> TRUE, kind |-> "http", entry |-> request,
                         file |-> <<"unknown", "go">>, line |-> 1, name |-> ""]
ChildSpan(f, line) == [root |-> FALSE, file |-> f.file, line |-> line, name |-> f.name]
IDs(set) == {n.id : n \in set}

\* The root span of a request maps to the entry point of the route that answered it, if no
\* route ends in a slash; and a span inside a function to the node of that function.
SpansMapHome ==
    phase = "done" =>
      /\ /\ \A file \in ToSet(project.files) : Flat(file)
         /\ \A r \in AllServed : r.path = <<"">> \/ Pieces(r.path) = r.path
         /\ \A r, q \in AllServed : r.path = q.path => r = q
         => \A request \in UNION {[1..n -> {"users", "me", "{id}", ""}] : n \in 1..2} :
              \A r \in Answering(request) :
                IDs(MapSpan(graph.nodes, RequestSpan(request))) = {EntryID(r)}
      /\ \A f \in ToSet(project.funcs) : FunctionNode(f) \in graph.nodes =>
           \A line \in {f.line, f.line + 5} :
             (\A g \in ToSet(project.funcs) : g.file = f.file => ~(g.line \in (f.line + 1)..line))
             => IDs(MapSpan(graph.nodes, ChildSpan(f, line))) = {FunctionID(f)}
=============================================================================
