------------------------------- MODULE Entries -------------------------------
(***************************************************************************)
(* The entry points of a project, go/pkg/scanner/adapters: which adapters  *)
(* run (registry.go), what those for gRPC, workers and debugviz.yaml find  *)
(* (grpc.go, worker.go, manual.go), how an expression is resolved to a     *)
(* function (scanctx.go), and how duplicates are dropped.                  *)
(*                                                                         *)
(* An entry names its handler by an expression until it is resolved: a     *)
(* function or method, a function literal, or a variable.                  *)
(***************************************************************************)
EXTENDS Routes, Commands

\* A declaration; recv is the type it is a method of, "" for a function.
Function(pkg, file, name, line) ==
    [pkg |-> pkg, file |-> file, name |-> name, line |-> line, recv |-> ""]
Method(pkg, file, recv, name, line) == [Function(pkg, file, name, line) EXCEPT !.recv = recv]

Ref(f) == [k |-> "func", f |-> f]
Literal(pkg, file) == Ref(Function(pkg, file, "<anonymous>", 1))
Variable(pkg, name) == [k |-> "value", f |-> Function(pkg, <<>>, name, 0)]

\* What is declared under a name in a package, in the order of the package's files.
Declared(project, pkg, name) ==
    SelectSeq(project.funcs, LAMBDA f : f.pkg = pkg /\ f.name = name)

\* Mutant: the packages are searched in the order of the map alone.
FindFuncNamedAnywhere(project, name, preferred) ==
    {Head(Declared(project, pkg, name)) :
        pkg \in {p \in project.pkgs : Declared(project, p, name) # <<>>}}

\* findFuncNamed: the preferred package first, then the others in the order of a map;
\* in a package the first declaration, be it a function or a method of any type.
FindFuncNamed(project, name, preferred) ==
    IF Declared(project, preferred, name) # <<>> THEN {Head(Declared(project, preferred, name))}
    ELSE {Head(Declared(project, pkg, name)) :
            pkg \in {p \in project.pkgs : Declared(project, p, name) # <<>>}}

\* ResolveFuncFromExpr: a variable is looked up as a function of that name.
Resolutions(project, expr) ==
    IF expr.k = "func" THEN {expr.f} ELSE FindFuncNamed(project, expr.f.name, expr.f.pkg)

\* FindFuncByName: in the first package, in the order of a map, whose path ends in what
\* stands before the last dot: a function, else any method, else whatever findFuncNamed
\* finds.  A method is written pkg.Type.Method, and no path ends in pkg.Type.
Lookups(project, item) ==
    UNION {LET all == Range(Declared(project, pkg, item.name))
               plain == {f \in all : f.recv = ""}
           IN  IF plain # {} THEN plain ELSE IF all # {} THEN all
               ELSE FindFuncNamed(project, item.name, pkg) :
             pkg \in {p \in project.pkgs : IsSuffix(item.pkg, p)}}

-----------------------------------------------------------------------------
Entry(kind, path, h) == [kind |-> kind, path |-> path, h |-> h, chain |-> <<>>]

\* Discover of grpc.go: a call of RegisterXServer stands for the unary methods of the
\* descriptor in the package it comes from.
Registered(project) ==
    FlattenSeq([i \in DOMAIN project.registers |->
      LET r == project.registers[i]
      IN  IF r.desc \notin DOMAIN project.descs THEN <<>>
          ELSE LET d == project.descs[r.desc]
               IN  [j \in DOMAIN d.methods |->
                      Entry("grpc", <<d.service, d.methods[j]>>,
                            IF d.methods[j] \in DOMAIN r.impl
                            THEN <<Ref(r.impl[d.methods[j]])>> ELSE <<>>)]])

\* discoverWorkerHandlerMethods: every method called Consume, Handle or Process.
HandlerNames == {"Consume", "Handle", "Process"}
HandlerMethods(project) ==
    LET methods == SelectSeq(project.funcs, LAMBDA f : f.recv # "" /\ f.name \in HandlerNames)
    IN  [i \in DOMAIN methods |->
            Entry("worker", <<methods[i].recv, methods[i].name>>, <<Ref(methods[i])>>)]

\* discoverRunJobCalls and discoverCronJobs: what they find is their calls.
Jobs(project) == [i \in DOMAIN project.jobs |->
                    Entry("worker", project.jobs[i].path, project.jobs[i].h)]

\* SelectDiscoverers: --framework auto, one adapter, or none.
Selected(project) == IF project.framework = "auto"
                     THEN project.imports \cup {"worker", "stdlib"}
                     ELSE {project.framework}

Http(project, fw) ==
    IF fw \notin Selected(project) THEN <<>>
    ELSE FlattenSeq([i \in DOMAIN project.files |->
            IF fw = "stdlib" THEN WalkStdlib(project.files[i]) ELSE WalkFile(fw, project.files[i])])

\* The entries of the manual file come last, its handlers looked up by name.
Manual(project) ==
    [i \in DOMAIN project.manual |->
        Entry(project.manual[i].kind, project.manual[i].path,
              IF project.manual[i].name = "" THEN <<>>
              ELSE <<[k |-> "manual", f |-> project.manual[i]]>>)]

\* autoDiscoverers: chi, gin, echo, gRPC, CLI, worker, net/http.
BeforeCLI(project) ==
    Http(project, "chi") \o Http(project, "gin") \o Http(project, "echo")
      \o (IF "grpc" \in Selected(project) THEN Registered(project) ELSE <<>>)
AfterCLI(project) ==
    (IF "worker" \in Selected(project) THEN HandlerMethods(project) \o Jobs(project) ELSE <<>>)
      \o Http(project, "stdlib") \o Manual(project)

-----------------------------------------------------------------------------
\* entryDedupeKey.
Key(entry) == <<entry.kind, entry.path>>
Known(kept, entry) == \E i \in DOMAIN kept : Key(kept[i]) = Key(entry)

\* dedupeEntries: the first entry with a key is kept.
Dedupe(s) == FoldLeft(LAMBDA kept, entry :
    IF Known(kept, entry) THEN kept ELSE Append(kept, entry), <<>>, s)

\* A set that comes out of a Go map: any two of its elements come in both orders.
Orders(set) == {SetToSeq(set), Reverse(SetToSeq(set))}

\* DiscoverEntries, before the handlers are resolved: the commands come in any order.
Discoveries(project) ==
    LET commands == IF "cli" \in Selected(project)
                    THEN {Entry("cli", c.path, c.h) : c \in CommandEntries(Tree(project.source))}
                    ELSE {}
    IN  {Dedupe(BeforeCLI(project) \o cli \o AfterCLI(project)) : cli \in Orders(commands)}

\* One element of each set, in all ways.
EachOne(sets) == FoldLeft(LAMBDA some, set : {Append(s, e) : s \in some, e \in set},
                          {<<>>}, sets)

\* What an expression may be resolved to: one function, or none.
Handlers(project, h) ==
    IF h = <<>> THEN {<<>>}
    ELSE LET found == IF h[1].k = "manual" THEN Lookups(project, h[1].f)
                      ELSE Resolutions(project, h[1])
         IN  IF found = {} THEN {<<>>} ELSE {<<f>> : f \in found}

\* The entry with its handler and middleware resolved; what is not is left out.
Resolved(project, e) ==
    {[kind |-> e.kind, path |-> e.path, handler |-> handler, chain |-> FlattenSeq(chain)] :
        handler \in Handlers(project, e.h),
        chain \in EachOne([i \in DOMAIN e.chain |-> Handlers(project, <<e.chain[i]>>)])}
=============================================================================
