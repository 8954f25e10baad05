------------------------------ MODULE Commands ------------------------------
(***************************************************************************)
(* CLI entry points, go/pkg/scanner/adapters/cli.go: the cobra and urfave  *)
(* command trees read off the sources by variable name, beside the tree    *)
(* the program builds.                                                     *)
(*                                                                         *)
(* A source is a sequence of functions, each a sequence of statements in   *)
(* the order ast.Inspect meets them.  A token is the first word of a Use   *)
(* or Name field, "" when the field is missing.                            *)
(***************************************************************************)
EXTENDS Naturals, SequencesExt, FiniteSets, TLC

\* op    cmd  id := &cobra.Command{...} (or var id = ... with :=, dcl FALSE)
\*       add  id.AddCommand(args...)    app  &cli.App{Commands: args}
\* args  the names of commands, or the commands themselves written in place
Command(token, run, h, subs) == [token |-> token, run |-> run, h |-> h, subs |-> subs]
Define(id, command) == [op |-> "cmd", id |-> id, short |-> TRUE, cmd |-> command, args |-> <<>>]
Add(id, args) == [op |-> "add", id |-> id, short |-> TRUE,
                  cmd |-> Command("", "none", <<>>, <<>>), args |-> args]
App(id, args) == [Add(id, args) EXCEPT !.op = "app"]

IsInline(arg) == "name" \notin DOMAIN arg
Named(id) == [name |-> id]

-----------------------------------------------------------------------------
(* The scanner: t.commands by identifier, t.parent their parents.            *)

NoTree == [commands |-> <<>>, parent |-> <<>>]

\* An identifier is a sequence: a variable's name, or its parent's identifier
\* and the position in the list it is written in.
Ident(name) == <<name>>

Put(t, id, command) == [t EXCEPT !.commands = (id :> command) @@ @]
Hang(t, id, parent) == [t EXCEPT !.parent = (id :> parent) @@ @]

\* parseCobraCommandArg and its caller: an argument that is neither a command
\* seen so far nor one written in place is passed over, and so is the field
\* RunE, for the Run of a command is the only one read.
CobraRun(c) == [c EXCEPT !.run = IF @ = "Run" THEN @ ELSE "none",
                         !.h = IF c.run = "Run" THEN @ ELSE <<>>]
AddArg(t, parent, i, arg) ==
    LET id == IF IsInline(arg) THEN Append(parent, i) ELSE Ident(arg.name)
    IN  IF IsInline(arg)
        THEN IF arg.token = "" THEN t
             ELSE Hang(Put(t, id, [CobraRun(arg) EXCEPT !.h = <<>>]), id, parent)
        ELSE IF id \in DOMAIN t.commands THEN Hang(t, id, parent) ELSE t

\* trackUrfaveCommandSlice, down to the subcommands.
RECURSIVE Slice(_, _, _)
Slice(t, parent, list) ==
    FoldLeft(LAMBDA u, i :
               LET c == list[i]
                   id == Append(parent, i)
               IN  IF c.token = "" THEN u
                   ELSE Slice(Hang(Put(u, id, c), id, parent), id, c.subs),
             t, [i \in DOMAIN list |-> i])

\* trackCobraAssignments, trackCobraAddCommand, trackUrfaveAssignments: a
\* package-level var is no AssignStmt, and an App is read once for its variable
\* and once as the composite literal it is.
TrackCommand(t, s) ==
    CASE s.op = "cmd" ->
           IF s.short THEN Slice(Put(t, Ident(s.id), CobraRun(s.cmd)), Ident(s.id), s.cmd.subs)
           ELSE t
      [] s.op = "add" ->
           IF Ident(s.id) \notin DOMAIN t.commands THEN t
           ELSE FoldLeft(LAMBDA u, i : AddArg(u, Ident(s.id), i, s.args[i]),
                         t, [i \in DOMAIN s.args |-> i])
      [] s.op = "app" ->
           Slice(IF s.id = "" THEN t ELSE Slice(t, Ident(s.id), s.args),
                 Ident("app"), s.args)

Tree(source) == FoldLeft(LAMBDA t, s : TrackCommand(t, s), NoTree, FlattenSeq(source))

Parent(t, id) == IF id \in DOMAIN t.parent THEN t.parent[id] ELSE <<>>

\* The first n identifiers the loop of commandPath visits, innermost first.
Climb(t, id) ==
    LET up[n \in Nat] ==
          IF n = 0 THEN <<id>>
          ELSE LET low == up[n - 1]
                   next == Parent(t, Last(low))
               IN  IF next \in DOMAIN t.commands THEN Append(low, next) ELSE low
    IN  up[Cardinality(DOMAIN t.commands)]

Runnable(t) == {id \in DOMAIN t.commands : t.commands[id].run # "none"}

\* commandPath never leaves a cycle of parents.
Endless(t) == \E id \in Runnable(t) : Len(Climb(t, id)) > Cardinality(DOMAIN t.commands)

\* Mutant: the token of a root that runs nothing stays.
CommandPathRooted(t, id) ==
    LET ids == Reverse(SelectSeq(Climb(t, id), LAMBDA c : t.commands[c].token # ""))
    IN  [i \in DOMAIN ids |-> t.commands[ids[i]].token]

\* commandPath: the tokens from the root down, without a root that runs nothing.
CommandPath(t, id) ==
    LET ids == Reverse(SelectSeq(Climb(t, id), LAMBDA c : t.commands[c].token # ""))
        path == [i \in DOMAIN ids |-> t.commands[ids[i]].token]
    IN  IF Len(path) > 1 /\ t.commands[ids[1]].run = "none" /\ Parent(t, ids[1]) = <<>>
        THEN Tail(path) ELSE path

\* buildCLIEntries ranges over a map: its entries come in any order.
CommandEntries(t) ==
    {[kind |-> "cli", path |-> CommandPath(t, id), h |-> t.commands[id].h] :
        id \in {c \in Runnable(t) : CommandPath(t, c) # <<>>}}

-----------------------------------------------------------------------------
(* The program: a name means a command within its function only; the tree of *)
(* commands below a command, as the pairs of a path of tokens and what runs.  *)

RECURSIVE Below(_, _)
Below(body, c) ==
    LET subs == FlattenSeq([i \in DOMAIN body |->
                    IF body[i].op = "add" /\ body[i].id = c THEN body[i].args ELSE <<>>])
        Def(name) == body[CHOOSE i \in DOMAIN body :
                            body[i].op = "cmd" /\ body[i].id = name].cmd
        Lead(cmd, rest) ==
            (IF cmd.run = "none" THEN {} ELSE {<<<<cmd.token>>, cmd.h>>})
               \cup {<< <<cmd.token>> \o r[1], r[2] >> : r \in rest}
    IN  UNION {IF IsInline(a) THEN Lead(a, {}) ELSE Lead(Def(a.name), Below(body, a.name)) :
                a \in ToSet(subs)}

RECURSIVE InApp(_)
InApp(list) == UNION {
    (IF c.run = "none" THEN {} ELSE {<< <<c.token>>, c.h >>})
      \cup {<< <<c.token>> \o r[1], r[2] >> : r \in InApp(c.subs)} : c \in ToSet(list)}

\* The commands that run something, named from below the root.
CommandsOf(body) ==
    LET added == {a.name : a \in {b \in UNION {ToSet(body[i].args) :
                          i \in {j \in DOMAIN body : body[j].op = "add"}} : ~IsInline(b)}}
        roots == {body[i].id : i \in {j \in DOMAIN body : body[j].op = "cmd"}} \ added
    IN  UNION {Below(body, r) : r \in roots}
          \cup UNION {InApp(body[i].args) : i \in {j \in DOMAIN body : body[j].op = "app"}}
=============================================================================
