------------------------------- MODULE Routes -------------------------------
(***************************************************************************)
(* HTTP entry points, go/pkg/scanner/adapters/http.go and route_walker.go: *)
(* what the chi, gin, echo and net/http walkers read off a file, beside    *)
(* what the file registers when it runs.                                   *)
(*                                                                         *)
(* A path is the sequence of its pieces between slashes, so "/" is <<"">>  *)
(* and "/api/" is <<"api", "">>; a function is the set of its parameters   *)
(* and its statements, a file the sequence of its functions.               *)
(***************************************************************************)
EXTENDS Naturals, SequencesExt, TLC

\* op    the pattern:  new     on := ctor()          use     on.Use(h)
\*       get     on.Get(path, h)                     method  on.Method("GET", path, h)
\*       chain   on.With(h[1]).Get(path, h[2])       route   on.Route(path, func(par) { body })
\*       inline  on.Group(func(par) { body })        mount   on.Mount(path, par)
\*       group   par := on.Group(path)               handle  on.HandleFunc(path, h)
\* h     the functions it names; a call in their place names none
Stmt(op, on) == [op |-> op, on |-> on, path |-> <<>>, par |-> "", h |-> <<>>,
                 ctor |-> "", body |-> <<>>]
Func(params, body) == [params |-> params, body |-> body]

\* joinRoutePath: one slash between the two parts.
Join(prefix, path) == IF path = <<>> THEN prefix
                      ELSE IF prefix = <<>> THEN path
                      ELSE IF Last(prefix) = "" THEN Front(prefix) \o path
                      ELSE prefix \o path

NoFrame == [prefix |-> <<>>, chain |-> <<>>]
Child(frame, path) == [frame EXCEPT !.prefix = Join(@, path)]
Bind(frames, names, frame) == [n \in names |-> frame] @@ frames

Route(frame, path, h, chain) ==
    [kind |-> "http", method |-> "GET", path |-> Join(frame.prefix, path),
     h |-> h, chain |-> frame.chain \o chain]

-----------------------------------------------------------------------------
(* The walkers: w.frames are the routers in scope, w.found the entries.      *)

Constructors == [chi |-> {"NewRouter"}, gin |-> {"New", "Default"}, echo |-> {"New"}]

Found(w, route) == [w EXCEPT !.found = Append(@, route)]

\* Mutant: the frame of a nested function's parameter stays.
UnbindNot(w, before, name) == w

\* A frame bound to the parameter of a nested function is put back afterwards,
\* an empty one where there was none.
Unbind(w, before, name) ==
    [w EXCEPT !.frames = Bind(@, {name},
        IF name \in DOMAIN before THEN before[name] ELSE NoFrame)]

\* trackRouteCall and trackGinCall: a statement that calls a router in scope.
RECURSIVE TrackCall(_, _, _)
TrackCall(fw, w, s) ==
    IF s.on \notin DOMAIN w.frames THEN w
    ELSE LET frame == w.frames[s.on]
         IN  CASE s.op = "use" ->
                    [w EXCEPT !.frames = Bind(@, {s.on}, [frame EXCEPT !.chain = @ \o s.h])]
               [] s.op = "get" -> Found(w, Route(frame, s.path, s.h, <<>>))
               [] s.op = "method" -> Found(w, Route(frame, <<"GET">>, s.h, <<>>))
               [] s.op = "route" /\ fw = "chi" ->
                    Unbind(FoldLeft(LAMBDA v, t : TrackCall(fw, v, t),
                                    [w EXCEPT !.frames =
                                        Bind(@, {s.par}, Child(frame, s.path))],
                                    s.body),
                           w.frames, s.par)
               [] OTHER -> w

Assigns(s) == s.op \in {"new", "group"}

\* Mutant: a group starts without the middleware of its parent.
TrackAssignmentBare(fw, w, s) ==
    CASE s.op = "new" /\ s.ctor \in Constructors[fw] ->
           [w EXCEPT !.frames = Bind(@, {s.on}, NoFrame)]
      [] s.op = "group" /\ fw # "chi" /\ s.on \in DOMAIN w.frames ->
           [w EXCEPT !.frames = Bind(@, {s.par}, Child([w.frames[s.on] EXCEPT !.chain = <<>>], s.path))]
      [] OTHER -> w

\* trackRouterAssignments and trackGinAssignments.
TrackAssignment(fw, w, s) ==
    CASE s.op = "new" /\ s.ctor \in Constructors[fw] ->
           [w EXCEPT !.frames = Bind(@, {s.on}, NoFrame)]
      [] s.op = "group" /\ fw # "chi" /\ s.on \in DOMAIN w.frames ->
           [w EXCEPT !.frames = Bind(@, {s.par}, Child(w.frames[s.on], s.path))]
      [] OTHER -> w

\* Visit of a BlockStmt tracks the calls in the block ...
VisitedFirst(fw, w, body) ==
    FoldLeft(LAMBDA v, s : IF Assigns(s) THEN v ELSE TrackCall(fw, v, s), w, body)

\* ... and the walk goes on to each statement and to the function it nests.
RECURSIVE VisitBlock(_, _, _)
VisitBlock(fw, w, body) ==
    FoldLeft(LAMBDA v, s : IF Assigns(s) THEN TrackAssignment(fw, v, s)
                           ELSE VisitBlock(fw, TrackCall(fw, v, s), s.body),
             VisitedFirst(fw, w, body), body)

\* The chi walker carries its routers from function to function; those of gin
\* and echo bind the parameters of a function for the length of its body.
VisitFunc(fw, w, fn) ==
    IF fw = "chi" THEN VisitBlock(fw, w, fn.body)
    ELSE [VisitBlock(fw, [w EXCEPT !.frames = Bind(@, fn.params, NoFrame)], fn.body)
            EXCEPT !.frames = w.frames]

WalkFile(fw, file) ==
    FoldLeft(LAMBDA w, fn : VisitFunc(fw, w, fn), [frames |-> <<>>, found |-> <<>>], file).found

\* stdlibWalker: HandleFunc on the package http or on a mux seen so far.
VisitStdlib(w, s) ==
    CASE s.op = "new" /\ s.ctor = "NewServeMux" -> [w EXCEPT !.muxes = @ \cup {s.on}]
      [] s.op = "handle" /\ s.on \in w.muxes \cup {"http"} ->
           [w EXCEPT !.found = Append(@, Route(NoFrame, s.path, s.h, <<>>))]
      [] OTHER -> w
WalkStdlib(file) ==
    FoldLeft(LAMBDA w, fn : FoldLeft(VisitStdlib, w, fn.body),
             [muxes |-> {}, found |-> <<>>], file).found

-----------------------------------------------------------------------------
(* What the program registers: every function runs once, a router it takes   *)
(* as a parameter is a fresh one, and a mounted router is reached below the  *)
(* path and behind the middleware of its parent.                             *)

Mounted(body, name) ==
    LET at == {i \in DOMAIN body : body[i].op = "mount" /\ body[i].par = name}
        Used(on) == FlattenSeq([i \in DOMAIN body |->
            IF body[i].op = "use" /\ body[i].on = on THEN body[i].h ELSE <<>>])
    IN  IF at = {} THEN NoFrame
        ELSE LET m == body[CHOOSE i \in at : TRUE]
             IN  [prefix |-> m.path, chain |-> Used(m.on)]

Serve(r, s, path, h, chain) ==
    [r EXCEPT !.served = @ \cup {Route(r.frames[s.on], path, h, chain)}]

RECURSIVE Execute(_, _, _)
Execute(r, s, body) ==
    CASE s.op = "new" -> [r EXCEPT !.frames = Bind(@, {s.on}, Mounted(body, s.on))]
      [] s.op = "use" -> [r EXCEPT !.frames[s.on].chain = @ \o s.h]
      [] s.op \in {"get", "method", "handle"} -> Serve(r, s, s.path, s.h, <<>>)
      [] s.op = "chain" -> Serve(r, s, s.path, Tail(s.h), <<Head(s.h)>>)
      [] s.op = "group" ->
           [r EXCEPT !.frames = Bind(@, {s.par}, Child(r.frames[s.on], s.path))]
      [] s.op \in {"route", "inline"} ->
           [FoldLeft(LAMBDA q, t : Execute(q, t, s.body),
                     [r EXCEPT !.frames = Bind(@, {s.par}, Child(r.frames[s.on], s.path))],
                     s.body) EXCEPT !.frames = r.frames]
      [] s.op = "mount" -> r

ServedBy(fn) ==
    FoldLeft(LAMBDA r, s : Execute(r, s, fn.body),
             [frames |-> Bind([n \in {"http"} |-> NoFrame], fn.params, NoFrame), served |-> {}],
             fn.body).served
Served(file) == UNION {ServedBy(fn) : fn \in ToSet(file)}
=============================================================================
