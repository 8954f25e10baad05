------------------------------ MODULE GoSource ------------------------------
(***************************************************************************)
(* A Go source file as the code generators of debugviz see it: the calls   *)
(* and assignments they look for, in order, and the packages each          *)
(* statement mentions.  Everything else a file holds is abstracted away.   *)
(***************************************************************************)
EXTENDS Naturals, Sequences, FiniteSets

Frameworks == {"chi", "gin", "echo"}
Constructors == Frameworks \cup {""}
Packages == Frameworks \cup
    {"debugviz", "log", "fmt", "os", "context", "net/http", "grpc"}
\* The patterns of statements, and the functions of go/lib/debugviz that generators call.
Kinds == {"listen", "grpc", "prerun", "execute", "process", "create", "build", "use",
          "middleware", "span", "defer", "manual", "other"}
Library == {"Configure", "HTTPMiddleware", "UnaryServerInterceptor", "StreamServerInterceptor",
            "CLICommandPreRun", "RunCLI", "RunJob", "ChiMiddleware", "GinMiddleware",
            "EchoMiddleware", "StartSpan"}

\* k     the pattern the statement matches, "other" when it matches none
\* top   whether it stands directly in the body of its function
\* on    the router variable it declares or calls
\* fw    the framework whose constructor it calls
\* dv    the debugviz functions it calls, in order
\* job   the job name of its RunJob call
\* args  the number of arguments of its Process call
\* uses  the packages it mentions
\* gen   whether a generator inserted it
Stmt(k, uses) == [k |-> k, top |-> TRUE, on |-> "", fw |-> "", dv |-> <<>>,
                  job |-> "", args |-> 1, uses |-> uses, gen |-> FALSE]

\* name    the function's name
\* ctx     its first parameter: a named or a blank context.Context, or none
\* param   whether it has a parameter of type string
\* skip    whether its doc comment opts out of instrumentation
Func(name, body) == [name |-> name, ctx |-> "none", param |-> FALSE,
                     skip |-> FALSE, body |-> body]

\* skip      the debugviz:wire opt-outs of the file
\* app       its debugviz:app annotation: "none", "bare", "named" or "bad"
\* mentions  whether its text names a router constructor outside its code
File(imports, funcs) == [imports |-> imports, skip |-> {}, app |-> "none",
                         mentions |-> FALSE, funcs |-> funcs]

Elems(s) == {s[i] : i \in DOMAIN s}
FirstIndex(s, P(_)) == CHOOSE i \in DOMAIN s :
                          P(s[i]) /\ \A j \in 1..(i - 1) : ~P(s[j])
LastIndex(s, P(_)) == CHOOSE i \in DOMAIN s :
                          P(s[i]) /\ \A j \in (i + 1)..Len(s) : ~P(s[j])
InsertAfter(s, i, e) == SubSeq(s, 1, i) \o <<e>> \o SubSeq(s, i + 1, Len(s))

Calls(body, name) == \E s \in Elems(body) : name \in Elems(s.dv)

(***************************************************************************)
(* The Go compiler's view: a package is imported exactly if it is used, a  *)
(* router variable is declared before it is used, "ctx, __dv_end :="       *)
(* declares something new, and Process still gets the arguments it takes.  *)
(***************************************************************************)
FuncUses(fn) == (UNION {s.uses : s \in Elems(fn.body)})
                    \cup (IF fn.ctx = "none" THEN {} ELSE {"context"})

InScope(body) ==
    /\ \A i \in DOMAIN body : body[i].k \in {"use", "middleware"} =>
         \E j \in 1..(i - 1) : body[j].k = "create" /\ body[j].on = body[i].on
    /\ \A i, j \in DOMAIN body : body[i].k = "span" /\ body[j].k = "span" => i = j
    /\ \A s \in Elems(body) : "RunJob" \in Elems(s.dv) => s.args = 1

Builds(f) == /\ f.imports = UNION {FuncUses(fn) : fn \in Elems(f.funcs)}
             /\ \A fn \in Elems(f.funcs) : InScope(fn.body)

\* What the developer wrote: the places no generator inserted, and the rank of one of them.
Ours(body) == {i \in DOMAIN body : ~body[i].gen}
Rank(body, i) == Cardinality({j \in Ours(body) : j <= i})
Look(s) == <<s.k, s.on, s.top>>
=============================================================================
