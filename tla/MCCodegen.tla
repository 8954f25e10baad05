----------------------------- MODULE MCCodegen -----------------------------
(* Trees of a main file, a router file and a service file.                 *)
EXTENDS Codegen

Listen == Stmt("listen", {"net/http"})
Execute == Stmt("execute", {"fmt", "os"})
LoggedExecute == Stmt("execute", {"log"})
Nested(s) == [s EXCEPT !.top = FALSE]
Process(n) == [Stmt("process", {}) EXCEPT !.args = n]
Log == Stmt("other", {"log"})
Manual(name) == [Stmt("other", {"debugviz"}) EXCEPT !.dv = <<name>>]
Create(fw, on) == [Stmt("create", {fw}) EXCEPT !.fw = fw, !.on = on]
Use(on) == [Stmt("use", {}) EXCEPT !.on = on]

Source(body) == File(UNION {s.uses : s \in Elems(body)}, <<Func("main", body)>>)

Web == Source(<<Listen, Log>>)
TwoWebs == Source(<<Listen, Nested(Listen)>>)
Rpc == Source(<<Stmt("grpc", {"grpc"}), Log>>)
Cli == Source(<<Stmt("prerun", {}), Execute>>)
CliByHand == Source(<<Manual("Configure"), Execute>>)
CliSetUp == Source(<<[Stmt("prerun", {"debugviz"}) EXCEPT !.dv = <<"Configure">>], Execute>>)
NestedCli == Source(<<Nested(Execute)>>)
FatalCli == Source(<<LoggedExecute, Log>>)
LoggedWorker == Source(<<[Process(2) EXCEPT !.uses = {"log"}]>>)
Worker == Source(<<Process(1), Nested(Process(1))>>)
BareWorker == Source(<<Process(0)>>)
Silent == [Web EXCEPT !.skip = {"http"}]
Skipped == [Web EXCEPT !.skip = {"wire"}]
Annotated == [Web EXCEPT !.app = "named"]
Malformed == [Web EXCEPT !.app = "bad"]

Setup(fw, body) == File({fw}, <<[Func("setup", body) EXCEPT !.param = TRUE]>>)
Chi == Setup("chi", <<Create("chi", "r"), Use("r"), Stmt("other", {})>>)
Gin == Setup("gin", <<Stmt("other", {}), Create("gin", "g")>>)
Echo == File({"echo", "context"},
            <<[Func("helper", <<Stmt("other", {})>>) EXCEPT !.ctx = "blank"],
              [Func("setup", <<Create("echo", "e"), Use("e"), Use("e")>>)
                  EXCEPT !.ctx = "named"]>>)
TwoRouters == Setup("chi", <<Create("chi", "r"), Create("chi", "api")>>)
Returned == Setup("chi", <<[Stmt("build", {"chi"}) EXCEPT !.fw = "chi"]>>)
Mentioned == [File({"chi"}, <<Func("doc", <<Stmt("other", {"chi"})>>)>>)
                EXCEPT !.mentions = TRUE]

ByHandSpan == [Stmt("manual", {"debugviz"}) EXCEPT !.dv = <<"StartSpan">>]
Spanned == File({"gin", "context", "debugviz"},
    <<[Func("setup", <<Stmt("other", {}), ByHandSpan, Create("gin", "g"), Use("g")>>)
          EXCEPT !.ctx = "named"],
      [Func("poll", <<Stmt("build", {"gin"})>>) EXCEPT !.param = TRUE]>>)
SpannedLate == File({"gin", "context", "debugviz"},
    <<[Func("setup", <<Create("gin", "g"), Use("g"), ByHandSpan>>) EXCEPT !.ctx = "named"]>>)

Service == File({"context"},
    <<[Func("get", <<Stmt("other", {})>>) EXCEPT !.ctx = "blank"],
      Func("poll", <<Stmt("other", {})>>),
      [Func("skipped", <<Stmt("other", {})>>) EXCEPT !.ctx = "named", !.skip = TRUE]>>)

Yaml == [main |-> "main", service |-> TRUE, listen |-> FALSE, routers |-> <<>>,
         grpc |-> FALSE, cli |-> FALSE, jobs |-> <<>>, globbed |-> <<>>,
         noCtx |-> FALSE, include |-> {}, exclude |-> {}, entries |-> {}]
Anonymous == [Yaml EXCEPT !.service = FALSE]
Listening == [Yaml EXCEPT !.listen = TRUE]
Routed == [Yaml EXCEPT !.routers = <<"router">>, !.noCtx = TRUE]
RoutedOnly == [Yaml EXCEPT !.main = "", !.routers = <<"router", "router">>,
                           !.exclude = {{"svc"}}]
Globbed == [Yaml EXCEPT !.main = "", !.globbed = <<"main">>, !.listen = TRUE]
Jobs(js) == [Yaml EXCEPT !.jobs = js]

Tree(main, router) == [p \in {"main", "router", "svc"} |->
    CASE p = "main" -> main [] p = "router" -> router [] p = "svc" -> Service]
Project(main, router, c) == [files |-> Tree(main, router), cfg |-> c]

Good ==
    {Project(Web, Chi, c) : c \in {Listening, Routed, Globbed}}
    \cup {Project(Annotated, Chi, Anonymous)}
    \cup {Project(Web, r, Routed) : r \in {Gin, Echo}}
    \cup {Project(m, Gin, Yaml) : m \in {Rpc, Cli, Silent, Skipped}}
    \cup {Project(TwoWebs, Echo, Listening), Project(Worker, Chi, Jobs(<<"a">>)),
          Project(Web, Chi, RoutedOnly), Project(Cli, Chi, [Yaml EXCEPT !.cli = TRUE])}
Odd ==
    {Project(Web, Mentioned, Listening), Project(Malformed, Chi, Yaml),
     Project(NestedCli, Chi, Yaml), Project(Worker, Chi, Jobs(<<"a", "b">>)),
     Project(FatalCli, Gin, Yaml), Project(LoggedWorker, Chi, Jobs(<<"a">>)),
     Project(CliByHand, Chi, Yaml), Project(BareWorker, Chi, Jobs(<<"a">>)),
     Project(Web, TwoRouters, Routed), Project(Web, Returned, Routed), Project(Web, Chi, Anonymous),
     Project(Rpc, Gin, Listening), Project(Service, Chi, Yaml), Project(CliSetUp, Gin, Yaml),
     Project(Web, Spanned, Routed), Project(Web, SpannedLate, Routed)}
MCProjects == Good \cup Odd

MCWalk == <<"main", "router", "svc">>
MCNames == {"", "r", "e", "g", "api", "a", "b", "main", "setup", "helper", "doc", "get",
            "poll", "skipped"}
MCNewConfigs == {Routed, Jobs(<<"a">>)}
MCNewCalls == {Listen, Nested(Process(1))}
OneTree == {Project(Web, TwoRouters, Routed)}
=============================================================================
