------------------------------- MODULE MCScan -------------------------------
(* The projects scanned: every short chi program over a dozen statements, and *)
(* samples of the other frameworks, of commands and of call graphs.           *)
EXTENDS Scan

Pkg == <<"m", "api">>
File == <<"api", "api", "go">>
H == Ref(Function(Pkg, File, "List", 10))
Mw == Ref(Function(Pkg, File, "Auth", 20))

Empty == [framework |-> "auto", imports |-> {}, pkgs |-> {Pkg}, sources |-> {}, tests |-> FALSE,
          imported |-> {}, inModule |-> {Pkg}, funcs |-> <<>>, calls |-> <<>>, files |-> <<>>,
          registers |-> <<>>, descs |-> <<>>, jobs |-> <<>>, manual |-> <<>>, source |-> <<>>]
ProjectOf(fw, files) == [Empty EXCEPT !.imports = {fw}, !.files = files]

New(on) == [Stmt("new", on) EXCEPT !.ctor = "NewRouter"]
Get(on, path) == [Stmt("get", on) EXCEPT !.path = path, !.h = <<H>>]
Use(on) == [Stmt("use", on) EXCEPT !.h = <<Mw>>]
Nest(op, on, path, par, body) == [Stmt(op, on) EXCEPT !.path = path, !.par = par, !.body = body]

ChiStatements ==
    { Use("r"), Get("r", <<"">>), Get("r", <<"users">>),
      [Stmt("method", "r") EXCEPT !.path = <<"m">>, !.h = <<H>>],
      [Stmt("chain", "r") EXCEPT !.path = <<"c">>, !.h = <<Mw, H>>],
      Nest("route", "r", <<"api">>, "r", <<Use("r"), Get("r", <<"{id}">>)>>),
      Nest("route", "r", <<"api">>, "q", <<Get("q", <<"">>), Get("q", <<"me">>)>>),
      Nest("inline", "r", <<>>, "r", <<Use("r"), Get("r", <<"g">>)>>),
      Nest("inline", "r", <<>>, "q", <<Get("q", <<"g">>)>>),
      Nest("route", "r", <<"v1">>, "r", <<Nest("route", "r", <<"x">>, "r", <<Get("r", <<"">>)>>)>>) }

\* chi panics when Use comes after a route, or when a path is mounted twice.
Runs(body) == \A i, j \in DOMAIN body : i < j =>
    (body[j].op = "use" => body[i].op = "use") /\ (body[i].op = "route" => body[i].path # body[j].path)
Bodies == {body \in UNION {[1..n -> ChiStatements] : n \in 1..3} : Runs(body)}
Mounting == <<New("s"), Get("s", <<"deep">>), New("r"), Get("r", <<"">>),
              [Stmt("mount", "r") EXCEPT !.path = <<"sub">>, !.par = "s"]>>
Chi == {ProjectOf("chi", << <<Func({}, body)>> >>) :
          body \in {<<New("r")>> \o b : b \in Bodies} \cup {Mounting}}
\* Two functions of one file, each with its router; the second may take one instead.
Short == {Use("r"), Get("r", <<"">>), Get("r", <<"users">>),
          Nest("route", "r", <<"api">>, "r", <<Get("r", <<"{id}">>)>>)}
Shorts == {body \in UNION {[1..n -> Short] : n \in 1..2} : Runs(body)}
Renamed(body) == [i \in DOMAIN body |-> [body[i] EXCEPT !.on = "s"]]
Pairs == UNION {
    {ProjectOf("chi", << <<Func({}, <<New("r")>> \o b), Func({}, <<New("r")>> \o c)>> >>),
     ProjectOf("chi", << <<Func({}, <<New("r")>> \o b), Func({}, <<New("s")>> \o Renamed(c))>> >>),
     ProjectOf("chi", << <<Func({}, <<New("r")>> \o b), Func({"r"}, c)>> >>),
     ProjectOf("chi", << <<Func({}, <<New("r")>> \o b)>>, <<Func({}, <<New("r")>> \o c)>> >>)} :
         b, c \in Shorts}

\* gin and echo: a router created or taken, a group, and routes of both.
GroupOf(on, par) == [Stmt("group", on) EXCEPT !.path = <<"api">>, !.par = par]
GinStatements == {Use("r"), Get("r", <<"users", ":id">>), GroupOf("r", "g"), Use("g"), Get("g", <<"">>)}
GinBodies == {body \in UNION {[1..n -> GinStatements] : n \in 1..4} :
                \A i \in DOMAIN body : /\ body[i].on = "g" => \E j \in 1..(i - 1) : body[j].op = "group"
                                       /\ body[i].op = "group" => \A j \in 1..(i - 1) : body[j].op # "group"}
Gin == UNION {{ProjectOf(fw, << <<Func({}, <<[New("r") EXCEPT !.ctor = "New"]>> \o b)>> >>),
               ProjectOf(fw, << <<Func({"r"}, b)>> >>)} : fw \in {"gin", "echo"}, b \in GinBodies}

MuxOf(on, path) == [Stmt("handle", on) EXCEPT !.path = path, !.h = <<H>>]
Std == {ProjectOf("none", << <<Func({}, <<[New("m") EXCEPT !.ctor = "NewServeMux"], MuxOf("m", <<"a">>),
                                          MuxOf("http", <<"b">>)>>)>> >>)}
\* Commands: a root, two below it, one of which may be below the other.
Cmd(token, run) == Command(token, run, IF run = "none" THEN <<>> ELSE <<H>>, <<>>)
Placed == [Cmd("c", "Run") EXCEPT !.h = <<>>]
Adds == {Add("root", <<Named("a")>>), Add("root", <<Named("a"), Named("b")>>), Add("a", <<Named("b")>>),
         Add("root", <<Placed>>), Add("root", <<[Placed EXCEPT !.token = "d"]>>), Add("b", <<Placed>>)}
Mains == {<<Define("root", Cmd("root", r)), a, Define("b", Cmd("b", "Run"))>> \o adds :
            r \in {"none", "Run"},
            a \in {Define("a", Cmd("a", "Run")), Define("a", Cmd("a", "RunE")), Define("a", Cmd("a", "none")),
                   [Define("a", Cmd("a", "Run")) EXCEPT !.short = FALSE]},
            adds \in UNION {[1..n -> Adds] : n \in 1..2}}
Again == <<Define("a", Cmd("x", "Run")), Define("root", Cmd("y", "Run")), Add("a", <<Named("root")>>)>>
Apps == {<<App(id, <<Cmd("a", "Run"), [Cmd("b", "none") EXCEPT !.subs = <<Cmd("c", "Run")>>]>>)>> : id \in {"", "app1"}}
CLI == {[Empty EXCEPT !.imports = {"cli"}, !.source = source] :
          source \in {<<main>> : main \in Mains \cup Apps} \cup {<<main, Again>> : main \in Mains}}

\* Routes that overlap.
Overlaps == { <<"users">>, <<"users", "">>, <<"users", "me">>, <<"users", "{id}">>, <<"{name}">>,
              <<"{name}", "me">> }
Overlapping == {ProjectOf("chi", << <<Func({}, <<New("r")>>
                    \o SetToSeq({Get("r", path) : path \in paths}))>> >>) : paths \in SUBSET Overlaps}

\* Packages, imports, calls and jobs.
Store == <<"m", "a-b">>
Twin == <<"m", "a", "b">>
Fmt == <<"fmt">>
StoreFile == <<"a-b", "s", "go">>
List == Function(Pkg, File, "List", 10)
Auth == Function(Pkg, File, "Auth", 20)
Save == Method(Store, StoreFile, "DB", "Save", 10)
SaveAll == Method(Store, StoreFile, "Batch", "Save", 30)
Load == Function(Twin, <<"a", "b", "s", "go">>, "Load", 10)
LoadToo == Function(Store, StoreFile, "Load", 40)
Println == Function(Fmt, <<"fmt", "print", "go">>, "Println", 1)
Call(from, to, how) == [from |-> from, to |-> to, how |-> how]
CallsMade == {Call(List, Auth, "ident"), Call(List, Save, "method"), Call(List, SaveAll, "interface"),
          Call(Auth, Load, "package"), Call(Auth, LoadToo, "generic"), Call(List, Println, "package"),
          Call(SaveAll, LoadToo, "ident"), Call(Load, Load, "ident")}
Job(path, h) == [path |-> path, h |-> h]
JobsRun == { <<>>, <<Job(<<"sync">>, <<Variable(Pkg, "Load")>>)>>, <<Job(<<"sync">>, <<Variable(Store, "Load")>>)>>,
          <<Job(<<"DB", "Process">>, <<>>), Job(<<"sync">>, <<Variable(Pkg, "List")>>)>> }
Whole == [Empty EXCEPT !.pkgs = {Pkg, Store, Twin}, !.inModule = {Pkg, Store, Twin},
            !.sources = {[file |-> File, test |-> FALSE], [file |-> <<"api", "api_test", "go">>, test |-> TRUE]},
            !.funcs = <<List, Auth, Save, SaveAll, LoadToo, Load, Method(Store, StoreFile, "DB", "Process", 50)>>]
Graphs1 == {[Whole EXCEPT !.imported = imported, !.calls = calls, !.jobs = jobs, !.tests = (calls = <<>>)] :
              imported \in {{}, {<<Pkg, Fmt>>}, {<<Pkg, Store>>, <<Pkg, Fmt>>}, {<<Pkg, Store>>, <<Pkg, Twin>>}},
              calls \in UNION {[1..n -> CallsMade] : n \in 0..2}, jobs \in JobsRun}

\* gRPC services and the entries of debugviz.yaml, under each value of --framework.
Item(kind, path, pkg, name) == [kind |-> kind, path |-> path, pkg |-> pkg, name |-> name]
Manuals == { <<>>, <<Item("http", <<"a">>, <<"a", "b">>, "Load")>>, <<Item("grpc", <<"Users", "Get">>, <<"a-b">>, "Save")>>,
             <<Item("cli", <<"run">>, <<"api">>, "List"), Item("worker", <<"DB", "Process">>, <<"api">>, "")>> }
Services == {[Whole EXCEPT !.framework = fw, !.imports = {"grpc"}, !.manual = manual,
                !.descs = ("users" :> [service |-> "Users", methods |-> <<"Get", "Save">>]),
                !.registers = registers] :
              fw \in {"auto", "grpc", "stdlib", "none"}, manual \in Manuals,
              registers \in { <<[desc |-> "users", impl |-> ("Save" :> Save)]>>,
                              <<[desc |-> "other", impl |-> <<>>]>> }}

MCProjects == Chi \cup Pairs \cup Gin \cup Std \cup CLI \cup Overlapping \cup Graphs1 \cup Services
=============================================================================
