-------------------------------- MODULE Wire --------------------------------
(***************************************************************************)
(* "debugviz wire" (go/pkg/codegen/wire): which files a run rewrites, the  *)
(* plan it makes for each and the file it produces.  The functions of the  *)
(* package are pure, so they are operators here; Codegen.tla runs them.    *)
(***************************************************************************)
EXTENDS GoSource

(***************************************************************************)
(* Configuration.  main is the wire.main path or ""; routers the           *)
(* router_files; globbed the main.go files the command-line patterns match.*)
(***************************************************************************)
HttpEnabled(cfg) == cfg.listen \/ cfg.routers # <<>>

\* serviceNameExpr: a string parameter of the function, else the annotation's
\* name, else the configured one, else a call of os.Getenv.
ServiceUses(cfg, app, local) ==
    IF local \/ app = "named" \/ cfg.service THEN {} ELSE {"os"}

(***************************************************************************)
(* analyzeMain: the hooks the main function lacks.                         *)
(***************************************************************************)
\* plan.jobs has a place for every configured job, with "" if nothing is to be done for it.
NoPlan == [hooks |-> {}, jobs |-> <<>>]
PlannedJobs(plan) == Elems(plan.jobs) \ {""}
HasChanges(plan) == plan.hooks # {} \/ PlannedJobs(plan) # {}

IsMain(fn) == fn.name = "main"
HasMain(f) == \E fn \in Elems(f.funcs) : IsMain(fn)
MainIndex(f) == FirstIndex(f.funcs, IsMain)

HasKind(body, k) == \E s \in Elems(body) : s.k = k
\* Mutant: Configure is looked for in the first statement of main only.
HasConfigureFirst(body) == body # <<>> /\ "Configure" \in Elems(body[1].dv)
HasConfigure(body) == Calls(body, "Configure")
HasHTTPWired(body) == Calls(body, "HTTPMiddleware")
HasGRPCWired(body) == Calls(body, "UnaryServerInterceptor")
                        \/ Calls(body, "StreamServerInterceptor")
HasCLIWired(body) == Calls(body, "RunCLI")
HasJobWired(body, job) ==
    \E s \in Elems(body) : "RunJob" \in Elems(s.dv) /\ s.job = job

When(hook, b) == IF b THEN {hook} ELSE {}

MainHooks(f, body, cfg) ==
    When("configure", "configure" \notin f.skip /\ ~HasConfigure(body))
    \cup When("listen", /\ cfg.routers = <<>> /\ "http" \notin f.skip
                        /\ cfg.listen \/ HasKind(body, "listen")
                        /\ ~HasHTTPWired(body))
    \cup When("grpc", /\ cfg.grpc \/ HasKind(body, "grpc")
                      /\ ~HasGRPCWired(body))
    \cup When("cli", /\ cfg.cli \/ HasKind(body, "execute")
                     /\ ~HasCLIWired(body))

AnalyzeMain(f, cfg) ==
    IF "wire" \in f.skip THEN NoPlan
    ELSE IF ~HasMain(f)
    THEN [hooks |-> {"configure"} \cup When("listen", HttpEnabled(cfg))
                       \cup When("grpc", cfg.grpc) \cup When("cli", cfg.cli),
          jobs |-> <<>>]
    ELSE LET body == f.funcs[MainIndex(f)].body
         IN  [hooks |-> MainHooks(f, body, cfg),
              jobs |-> [n \in DOMAIN cfg.jobs |->
                          IF HasJobWired(body, cfg.jobs[n]) THEN "" ELSE cfg.jobs[n]]]

(***************************************************************************)
(* applyPlan on main.  Each injection is a function of the body; an        *)
(* injection that finds nothing to wire is an error and nothing is written.*)
(***************************************************************************)
ConfigureStmt ==
    [Stmt("other", {"debugviz", "log"}) EXCEPT !.dv = <<"Configure">>, !.gen = TRUE]

\* Mutant: the hook takes the place of what it should wrap.
HookAlone(s, name, uses) == [s EXCEPT !.dv = <<name>>, !.uses = uses \cup {"debugviz"}]
Hook(s, name, uses) == [s EXCEPT !.dv = Append(@, name),
                                 !.uses = @ \cup uses \cup {"debugviz"}]

WrapListens(body, cfg, app) ==
    [i \in DOMAIN body |->
        IF body[i].k = "listen" /\ "HTTPMiddleware" \notin Elems(body[i].dv)
        THEN Hook(body[i], "HTTPMiddleware", ServiceUses(cfg, app, FALSE))
        ELSE body[i]]

InjectInterceptors(body) ==
    [i \in DOMAIN body |->
        IF body[i].k = "grpc" /\ "UnaryServerInterceptor" \notin Elems(body[i].dv)
        THEN Hook(Hook(body[i], "UnaryServerInterceptor", {}),
                  "StreamServerInterceptor", {})
        ELSE body[i]]

\* injectCobraPreRun replaces the first PersistentPreRun main assigns; the
\* first Execute block of main is then replaced whole, its error branch too.
\* Both keep the developer's place (gen), and lose what the developer had there.
InjectPreRun(body) ==
    LET IsPreRun(s) == s.k = "prerun" /\ s.top
    IN  IF \E s \in Elems(body) : IsPreRun(s)
        THEN [body EXCEPT ![FirstIndex(body, IsPreRun)] =
                [@ EXCEPT !.dv = <<"CLICommandPreRun">>, !.uses = {"debugviz"}]]
        ELSE body

IsExecute(s) == s.k = "execute" /\ s.top
CanRunCLI(body) == \E s \in Elems(body) : IsExecute(s) /\ "RunCLI" \notin Elems(s.dv)
RunByLibrary(s) == [s EXCEPT !.dv = <<"RunCLI">>,
                             !.uses = {"debugviz", "context", "fmt", "os"}]
InjectCLIRun(body) ==
    LET i == FirstIndex(body, LAMBDA s : IsExecute(s) /\ "RunCLI" \notin Elems(s.dv))
    IN  [InjectPreRun(body) EXCEPT ![i] = RunByLibrary(@)]

\* injectWorkerJob wraps every Process assignment that is not wrapped yet, and
\* calls Process with the context alone: InScope looks at args, what it took,
\* and what the other arguments mentioned is gone.
Unwrapped(s) == s.k = "process" /\ "RunJob" \notin Elems(s.dv)
ContextAlone(s) == [s EXCEPT !.uses = IF s.args > 1 THEN {} ELSE @]
CanRunJob(body) == \E s \in Elems(body) : Unwrapped(s)
InjectJob(body, job) ==
    [i \in DOMAIN body |->
        IF Unwrapped(body[i])
        THEN [Hook(ContextAlone(body[i]), "RunJob", {"context"}) EXCEPT !.job = job]
        ELSE body[i]]
\* The jobs are injected one after the other; the first to find no call fails.
JobBodies(body, jobs) ==
    LET after[n \in 0..Len(jobs)] ==
            IF n = 0 THEN body
            ELSE IF jobs[n] = "" THEN after[n - 1]
            ELSE InjectJob(after[n - 1], jobs[n])
    IN  after
CanRunJobs(body, jobs) ==
    \A n \in 1..Len(jobs) : jobs[n] # "" => CanRunJob(JobBodies(body, jobs)[n - 1])
InjectJobs(body, jobs) == JobBodies(body, jobs)[Len(jobs)]

ApplyMain(body, cfg, app, plan) ==
    LET b1 == IF "configure" \in plan.hooks THEN <<ConfigureStmt>> \o body ELSE body
        b2 == IF "listen" \in plan.hooks THEN WrapListens(b1, cfg, app) ELSE b1
        b3 == IF "grpc" \in plan.hooks THEN InjectInterceptors(b2) ELSE b2
        b4 == IF "cli" \in plan.hooks THEN InjectCLIRun(b3) ELSE b3
    IN  InjectJobs(b4, plan.jobs)

MainFails(f, plan) ==
    \/ ~HasMain(f)
    \/ LET body == f.funcs[MainIndex(f)].body
       IN  \/ "cli" \in plan.hooks /\ ~CanRunCLI(body)
           \/ ~CanRunJobs(body, plan.jobs)

(***************************************************************************)
(* analyzeRouter and inject{Chi,Gin,Echo}Middleware: the first function    *)
(* that creates a router and has no middleware gets one.                   *)
(***************************************************************************)
Framework(f) == IF "chi" \in f.imports THEN "chi"
                ELSE IF "gin" \in f.imports THEN "gin"
                ELSE IF "echo" \in f.imports THEN "echo" ELSE ""

Middleware(fw) == CASE fw = "chi" -> "ChiMiddleware"
                    [] fw = "gin" -> "GinMiddleware"
                    [] fw = "echo" -> "EchoMiddleware"

IsCreate(s, fw) == s.k \in {"create", "build"} /\ s.fw = fw
Creates(fn, fw) == \E s \in Elems(fn.body) : IsCreate(s, fw)
\* Mutant: every framework's middleware is looked for under chi's name.
HasMiddlewareOfChi(fn, fw) == Calls(fn.body, "ChiMiddleware")
HasMiddleware(fn, fw) == Calls(fn.body, Middleware(fw))
\* The analysis stops at the first function it would wire; a chi function
\* counts only if it has a string parameter.
EndsAnalysis(fn, fw) == Creates(fn, fw) /\ (fw = "chi" => fn.param)

AnalyzeRouter(f) ==
    LET fw == Framework(f)
    IN  IF "wire" \in f.skip \/ fw = "" THEN NoPlan
        ELSE [hooks |-> When(Middleware(fw),
                  ~\E i \in DOMAIN f.funcs :
                      /\ HasMiddleware(f.funcs[i], fw)
                      /\ \A j \in 1..(i - 1) : ~EndsAnalysis(f.funcs[j], fw)),
              jobs |-> <<>>]

\* The last assignment of a new router names the variable ("r" or "e" if none).
RouterIdent(body, fw) ==
    LET Assigns(s) == s.k = "create" /\ s.fw = fw
    IN  IF \E s \in Elems(body) : Assigns(s)
        THEN body[LastIndex(body, Assigns)].on
        ELSE IF fw = "echo" THEN "e" ELSE "r"

MiddlewareStmt(ident, fw, uses) ==
    [Stmt("middleware", {"debugviz"} \cup uses)
        EXCEPT !.on = ident, !.dv = <<Middleware(fw)>>, !.gen = TRUE]

\* After the last top-level Use of the variable, else after the first
\* top-level assignment of any new router, else first in the function.
InsertAfterRouterCreate(body, ident, fw, stmt) ==
    LET IsUse(s) == s.k \in {"use", "middleware"} /\ s.on = ident /\ s.top
        IsAssign(s) == s.k = "create" /\ s.fw = fw /\ s.top
        at == IF \E s \in Elems(body) : IsUse(s) THEN LastIndex(body, IsUse)
              ELSE IF \E s \in Elems(body) : IsAssign(s) THEN FirstIndex(body, IsAssign)
              ELSE 0
    IN  InsertAfter(body, at, stmt)

ToWire(fn, fw) == Creates(fn, fw) /\ ~HasMiddleware(fn, fw)
RouterFails(f) == ~\E fn \in Elems(f.funcs) : ToWire(fn, Framework(f))

InjectMiddleware(f, cfg) ==
    LET fw == Framework(f)
        i == FirstIndex(f.funcs, LAMBDA fn : ToWire(fn, fw))
        fn == f.funcs[i]
        ident == RouterIdent(fn.body, fw)
    IN  [f EXCEPT !.funcs[i].body =
            InsertAfterRouterCreate(fn.body, ident, fw,
                MiddlewareStmt(ident, fw, ServiceUses(cfg, f.app, fn.param)))]

(***************************************************************************)
(* rewriteFile: plan, apply, add the imports the plan calls for.           *)
(***************************************************************************)
\* Mutant: the context the RunCLI callback takes is not imported.
HookImportsNoContext(hook) ==
    IF hook = "cli" THEN {"log", "fmt", "os"} ELSE IF hook = "configure" THEN {"log"} ELSE {}
HookImports(hook) == CASE hook = "configure" -> {"log"}
                       [] hook = "listen" -> {"net/http"}
                       [] hook = "grpc" -> {"grpc"}
                       [] hook = "cli" -> {"log", "context", "fmt", "os"}
                       [] OTHER -> {}
NeededImports(plan) == {"debugviz"} \cup (UNION {HookImports(h) : h \in plan.hooks})
                          \cup When("context", PlannedJobs(plan) # {})

PlanOf(f, cfg, isMain) == IF isMain THEN AnalyzeMain(f, cfg) ELSE AnalyzeRouter(f)

WireFails(f, cfg, isMain) ==
    LET plan == PlanOf(f, cfg, isMain)
    IN  HasChanges(plan) /\ IF isMain THEN MainFails(f, plan) ELSE RouterFails(f)

WireFile(f, cfg, isMain) ==
    LET plan == PlanOf(f, cfg, isMain)
        wired == IF isMain
                 THEN [f EXCEPT !.funcs[MainIndex(f)].body =
                          ApplyMain(@, cfg, f.app, plan)]
                 ELSE InjectMiddleware(f, cfg)
    IN  IF ~HasChanges(plan) THEN f
        ELSE [wired EXCEPT !.imports = @ \cup NeededImports(plan)]

(***************************************************************************)
(* resolveTargets: main, then the configured routers, else the main.go     *)
(* files the patterns match, then the routers found by text when HTTP is   *)
(* on and none is configured.  walk is the order filepath.Walk meets them. *)
(***************************************************************************)
Only(s, kept) == [n \in 1..Cardinality(kept) |->
                     s[CHOOSE i \in kept : Cardinality({j \in kept : j <= i}) = n]]

IsDiscovered(f) == \/ f.mentions
                   \/ \E fn \in Elems(f.funcs), fw \in Frameworks : Creates(fn, fw)
Discovered(files, walk) ==
    Only(walk, {i \in DOMAIN walk : walk[i] # "main" /\ IsDiscovered(files[walk[i]])})

Dedupe(s) == Only(s, {i \in DOMAIN s : \A j \in 1..(i - 1) : s[j].path # s[i].path})

AsTargets(paths, isMain) ==
    [i \in DOMAIN paths |-> [path |-> paths[i], isMain |-> isMain]]

Targets(files, cfg, walk) ==
    LET named == AsTargets(IF cfg.main = "" THEN <<>> ELSE <<cfg.main>>, TRUE)
                     \o AsTargets(cfg.routers, FALSE)
        globbed == IF named = <<>> THEN AsTargets(cfg.globbed, TRUE) ELSE <<>>
        found == IF HttpEnabled(cfg) /\ cfg.routers = <<>>
                 THEN AsTargets(Discovered(files, walk), FALSE) ELSE <<>>
    IN  Dedupe(named \o globbed \o found)

\* A target that cannot be read, parsed or whose annotation is malformed
\* stops the run before anything is written; so does finding no target.
ResolveFails(files, cfg, walk) ==
    LET targets == Targets(files, cfg, walk)
    IN  targets = <<>> \/ \E t \in Elems(targets) : files[t.path].app = "bad"
=============================================================================
