------------------------------ MODULE Codegen ------------------------------
(***************************************************************************)
(* A developer's tree under "debugviz wire" and "debugviz instrument"      *)
(* (go/cmd/debugviz/main.go): runs of either command in any order, dry or  *)
(* not, cut short at any file, between edits of the sources and of         *)
(* debugviz.yaml.  Each file is rewritten and written before the next one  *)
(* is read, so a run that stops has written a prefix of its targets.       *)
(***************************************************************************)
EXTENDS Wire, Instrument

CONSTANTS Projects,      \* the trees and configurations to start from
          Walk,          \* the paths of a tree, in the order they are walked
          NewConfigs,    \* the configurations the developer may change to
          NewCalls,      \* the statements the developer may add to main
          Names,         \* the names of functions, variables and jobs
          MaxEdits

Paths == Elems(Walk)
Commands == {"wire", "instrument"}

\* The values these can take.
Stmts == [k : Kinds, top : BOOLEAN, on : Names, fw : Constructors, dv : Seq(Library),
          job : Names, args : Nat, uses : SUBSET Packages, gen : BOOLEAN]
Funcs == [name : Names, ctx : {"none", "blank", "named"}, param : BOOLEAN, skip : BOOLEAN,
          body : Seq(Stmts)]
Configs == [main : Paths \cup {""}, service : BOOLEAN, listen : BOOLEAN, routers : Seq(Paths),
            grpc : BOOLEAN, cli : BOOLEAN, jobs : Seq(Names), globbed : Seq(Paths),
            noCtx : BOOLEAN, include : SUBSET SUBSET Paths, exclude : SUBSET SUBSET Paths,
            entries : SUBSET SUBSET Paths]
Files == [imports : SUBSET Packages, skip : SUBSET {"wire", "http", "configure"},
          app : {"none", "bare", "named", "bad"}, mentions : BOOLEAN, funcs : Seq(Funcs)]

\* A call is not wrapped twice in the same hook.
HooksDiffer(s) == \A i, j \in DOMAIN s.dv : s.dv[i] = s.dv[j] => i = j
\* A body no generator has touched; the variable __dv_end is the generator's.
ByHand(body) == \A s \in Elems(body) :
                    ~s.gen /\ s.k \notin {"span", "defer"} /\ HooksDiffer(s)

ASSUME CodegenAssumption ==
    /\ {"", "r", "e"} \subseteq Names /\ Walk \in Seq(Paths)
    /\ \A project \in Projects :
         /\ project.files \in [Paths -> Files] /\ project.cfg \in Configs
         /\ \A p \in Paths : \A fn \in Elems(project.files[p].funcs) : ByHand(fn.body)
    /\ NewConfigs \subseteq Configs
    /\ \A s \in NewCalls : s \in Stmts /\ ByHand(<<s>>) /\ "Configure" \notin Elems(s.dv)

VARIABLES files,     \* the tree on disk
          cfg,       \* debugviz.yaml
          cmd,       \* the command running, "idle" between runs
          dry,       \* whether it runs with --dry-run
          todo,      \* the targets it has still to visit
          outcome,   \* how the last run ended
          own,       \* history: the tree had no generator touched it
          settled,   \* history: the commands complete since the last edit
          pushed,    \* history: lines put above each span by the developer
          edits

vars == <<files, cfg, cmd, dry, todo, outcome, own, settled, pushed, edits>>
ghosts == <<own, settled, pushed, edits>>

Init == /\ \E p \in Projects : files = p.files /\ own = p.files /\ cfg = p.cfg
        /\ cmd = "idle" /\ dry = FALSE /\ todo = <<>> /\ outcome = "none"
        /\ settled = {} /\ edits = 0 /\ pushed = [p \in Paths |-> 0]

Begin(c, d, targets) == /\ cmd' = c /\ dry' = d /\ todo' = targets
                        /\ UNCHANGED <<files, cfg, outcome, ghosts>>
End(result) == /\ cmd' = "idle" /\ outcome' = result /\ todo' = <<>>
               /\ UNCHANGED <<files, cfg, dry, own, pushed, edits>>

\* wire.Run: the configuration and every target are read before the first
\* file is rewritten.
StartWire(d) ==
    /\ cmd = "idle"
    /\ IF ResolveFails(files, cfg, Walk)
       THEN End("error") /\ UNCHANGED settled
       ELSE Begin("wire", d, Targets(files, cfg, Walk))

\* instrument.Run: the packages must load without error.
StartInstrument(d) ==
    /\ cmd = "idle"
    /\ IF \E p \in Paths : ~Builds(files[p])
       THEN End("error") /\ UNCHANGED settled
       ELSE Begin("instrument", d, AsTargets(Walk, FALSE))

Rewritten(t) ==
    IF cmd = "wire" THEN WireFile(files[t.path], cfg, t.isMain)
    ELSE IF ShouldInstrument(t.path, cfg) THEN InstrumentFile(files[t.path], cfg)
    ELSE files[t.path]

RewriteTarget ==
    /\ todo # <<>>
    /\ LET t == Head(todo)
       IN  IF cmd = "wire" /\ WireFails(files[t.path], cfg, t.isMain)
           THEN End("error") /\ UNCHANGED settled
           ELSE /\ files' = IF dry THEN files
                            ELSE [files EXCEPT ![t.path] = Rewritten(t)]
                /\ todo' = Tail(todo)
                /\ UNCHANGED <<cfg, cmd, dry, outcome, ghosts>>

Complete == /\ cmd # "idle" /\ todo = <<>>
            /\ End("ok")
            /\ settled' = IF dry THEN settled ELSE settled \cup {cmd}

\* The process is killed, or a file cannot be written.
Interrupt == cmd # "idle" /\ End("cut") /\ UNCHANGED settled

Edit == /\ cmd = "idle" /\ edits < MaxEdits
        /\ edits' = edits + 1 /\ settled' = {} /\ outcome' = "none"
        /\ UNCHANGED <<cmd, dry, todo>>

Reconfigure == /\ Edit
               /\ cfg' \in NewConfigs
               /\ UNCHANGED <<files, own, pushed>>

WithBody(tree, p, i, body) == [tree EXCEPT ![p].funcs[i].body = body]

\* A new statement at the head of a function.
AddLine == /\ Edit
           /\ \E p \in Paths : \E i \in DOMAIN files[p].funcs :
                LET Line(tree) == WithBody(tree, p, i, <<Stmt("other", {})>>
                                              \o tree[p].funcs[i].body)
                IN  /\ files' = Line(files) /\ own' = Line(own)
                    /\ pushed' = [pushed EXCEPT ![p] = @ + 1]
           /\ UNCHANGED cfg

\* A new call at the end of main, with the imports it needs.
AddCall == /\ Edit
           /\ \E s \in NewCalls :
                LET i == MainIndex(files["main"])
                    Call(tree) ==
                       [WithBody(tree, "main", i, Append(tree["main"].funcs[i].body, s))
                          EXCEPT !["main"].imports = @ \cup s.uses]
                IN  HasMain(files["main"]) /\ files' = Call(files) /\ own' = Call(own)
           /\ UNCHANGED <<cfg, pushed>>

Next == \/ \E d \in BOOLEAN : StartWire(d) \/ StartInstrument(d)
        \/ RewriteTarget \/ Complete \/ Interrupt
        \/ Reconfigure \/ AddLine \/ AddCall

Spec == Init /\ [][Next]_vars

-----------------------------------------------------------------------------
\* What the sources must look like for a run to leave nothing to the next one:
\* injectCLIRun replaces the developer's PersistentPreRun and Execute block
\* whatever they call (a Configure among it is missed by the next run), and a
\* span started below a new router is pushed out of the sight of
\* isAlreadyInstrumented by the middleware.
Replaceable(s) == /\ s.k = "prerun" => Elems(s.dv) \subseteq {"CLICommandPreRun"}
                  /\ s.k = "execute" => Elems(s.dv) \subseteq {"RunCLI"}
SpansFirst(body) == \A i, j \in DOMAIN body :
                        body[i].k = "manual" /\ body[j].k = "create" => i < j
Plain == \A p \in Paths : \A fn \in Elems(own[p].funcs) :
             /\ \A s \in Elems(fn.body) : Replaceable(s)
             /\ fn.name # "main" => SpansFirst(fn.body)
\* A command that has completed since the last edit has nothing left to do:
\* whatever ran, failed or was cut short in between, running it again leaves
\* every file as it is (docs/MVP_PLAN.md:640, :508 "Idempotent").
RerunWritesNothing == [][Plain /\ cmd \in settled => files' = files]_vars

\* A middleware stands above every router of its function: wire puts it there if
\* no router is assigned, and such a file no longer builds.
Stranded(body) == \E i \in DOMAIN body :
    body[i].k = "middleware" /\ \A j \in 1..(i - 1) : body[j].k # "create"

\* A run that was cut short or refused, a dry run and the other command leave
\* nothing behind that a later run trips over: once both have completed, every
\* file is what one pass of each makes of the developer's sources.
OnePass(p) ==
    LET targets == Elems(Targets(own, cfg, Walk))
        wired == IF \E t \in targets : t.path = p
                 THEN WireFile(own[p], cfg, \E t \in targets : t.path = p /\ t.isMain)
                 ELSE own[p]
    IN  IF ShouldInstrument(p, cfg) THEN InstrumentFile(wired, cfg) ELSE wired
ResumedEqualsOnePass ==
    /\ edits = 0 /\ settled = Commands /\ Plain
    /\ \A p \in Paths : \A fn \in Elems(files[p].funcs) : ~Stranded(fn.body)
    => \A p \in Paths : files[p] = OnePass(p)

\* However the runs and edits interleave, a call is wrapped in each hook at
\* most once, main is configured at most once by the generator, and a function
\* keeps one span as long as the developer puts fewer than three lines above it:
\* isAlreadyInstrumented looks no further.
HookedOnce ==
    \A p \in Paths : \A fn \in Elems(files[p].funcs) :
        /\ \A s \in Elems(fn.body) : HooksDiffer(s)
        /\ \A i \in DOMAIN fn.body : "Configure" \in Elems(fn.body[i].dv) /\ fn.body[i].gen
             => \A j \in DOMAIN fn.body : "Configure" \in Elems(fn.body[j].dv) => i = j
        /\ pushed[p] < 3 => \A i, j \in DOMAIN fn.body :
             fn.body[i].k = "span" /\ fn.body[j].k = "span" => i = j

\* The packages a statement mentioned and the library's calls in it are still there.
Holds(now, was) ==
    /\ was.uses \subseteq now.uses
    /\ \A n \in DOMAIN was.dv : n \in DOMAIN now.dv /\ now.dv[n] = was.dv[n]

\* What wire writes over a PersistentPreRun function (rewrite.go:399) and over an Execute
\* block, its error branch included (rewrite.go:380): of the developer's only the assignment,
\* or the command that is executed, is left.
Overwritten(s) ==
    /\ s.top /\ 1 \in DOMAIN s.dv
    /\ \/ s.k = "prerun" /\ s.dv[1] = "CLICommandPreRun"
       \/ s.k = "execute" /\ s.dv[1] = "RunCLI"

\* injectWorkerJob hands on the first argument of Process and drops the others (rewrite.go:553).
DropsArguments(s) == s.k = "process" /\ s.args > 1

\* Each statement of the developer's keeps its place and kind, in the order they were written,
\* through every mixture of runs, failures and edits; and what it mentions and calls stays in
\* it, with three exceptions, where wire does lose code: a PersistentPreRun function and an
\* Execute block that it has overwritten, and the further arguments of a Process call.
WrittenKept ==
    \A p \in Paths : \A i \in DOMAIN files[p].funcs :
        LET now == files[p].funcs[i].body
            was == own[p].funcs[i].body
        IN  /\ Cardinality(Ours(now)) = Len(was)
            /\ \A j \in Ours(now) :
                 LET old == was[Rank(now, j)]
                 IN  /\ Look(now[j]) = Look(old)
                     /\ Holds(now[j], old) \/ Overwritten(now[j]) \/ DropsArguments(old)

\* docs/MVP_PLAN.md:722: a run of either command leaves a file that built
\* building.
KeepsBuild ==
    [][\A p \in Paths : edits' = edits /\ Builds(files[p]) => Builds(files'[p])]_vars

\* What a project must look like for that to be true.
OtherUses(f, kinds) == UNION {s.uses : s \in {t \in UNION {Elems(fn.body) :
                                 fn \in Elems(f.funcs)} : t.k \notin kinds}}
TameMain(f) ==
    LET body == f.funcs[MainIndex(f)].body
        Own(k) == UNION {s.uses : s \in {t \in Elems(body) : t.k = k /\ ~t.gen}}
    IN  /\ cfg.listen => cfg.routers # <<>> \/ HasKind(body, "listen")
        /\ cfg.grpc => HasKind(body, "grpc")
        /\ HasKind(body, "execute") =>
             Own("execute") \cup Own("prerun") \cup {"log"} \subseteq
                 OtherUses(f, {"execute", "prerun"}) \cup {"context", "fmt", "os"}
                   \cup (IF HasConfigure(body) THEN {} ELSE {"log"})
        /\ \A s \in Elems(body) : s.k = "process" => s.args = 1
TameRouter(f) ==
    \A fn \in Elems(f.funcs) :
        Cardinality({i \in DOMAIN fn.body : fn.body[i].k \in {"create", "build"}})
            = Cardinality({i \in DOMAIN fn.body : fn.body[i].k = "create" /\ fn.body[i].top})
        /\ \A i, j \in DOMAIN fn.body :
             fn.body[i].k = "create" /\ fn.body[j].k = "create" => i = j
Tame(p) ==
    LET f == files[p]
    IN  /\ cfg.service \/ f.app = "named" \/ "os" \in OtherUses(f, {"execute"})
        /\ pushed[p] < 3
        /\ IF HasMain(f) THEN TameMain(f) ELSE TameRouter(f)

\* With a service name, a call for every strategy the configuration names, a
\* log call or a new Configure next to RunCLI, a Process that takes a context,
\* one router a function, and no span pushed down, a file that built goes on
\* building through any interleaving of the two commands.
TameKeepsBuild ==
    [][\A p \in Paths : edits' = edits /\ Builds(files[p]) /\ Tame(p)
          => Builds(files'[p])]_vars
=============================================================================
