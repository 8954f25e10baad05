----------------------------- MODULE Instrument -----------------------------
(***************************************************************************)
(* "debugviz instrument" (go/pkg/codegen/instrument): which files and      *)
(* functions get a span, and the statements put at the head of each.       *)
(***************************************************************************)
EXTENDS GoSource

\* cfg.include, cfg.exclude and cfg.entries are sets of patterns, a pattern
\* being the set of paths it matches.
MatchesAny(path, patterns) == \E p \in patterns : path \in p

\* shouldInstrumentFile: exclude wins; with no include list the entry
\* packages take its place; with neither every file is instrumented.
ShouldInstrument(path, cfg) ==
    /\ ~MatchesAny(path, cfg.exclude)
    /\ \/ cfg.include = {} /\ cfg.entries = {}
       \/ MatchesAny(path, cfg.include \cup cfg.entries)

\* Mutant: a span with a deferred end is not recognised.
IsAlreadyInstrumentedByHand(body) == \E i \in DOMAIN body : i <= 3 /\ body[i].k = "manual"

\* isAlreadyInstrumented looks at the first three statements only.
IsAlreadyInstrumented(body) ==
    \E i \in DOMAIN body : i <= 3 /\ body[i].k \in {"span", "defer", "manual"}

IsCandidate(fn, cfg) ==
    /\ fn.name \notin {"main", "init"} /\ ~fn.skip
    /\ ~IsAlreadyInstrumented(fn.body)
    /\ fn.ctx # "none" \/ cfg.noCtx

\* The span takes the context parameter, which a blank one is renamed for,
\* or a new context.Background().
SpanStmt(ctx) ==
    [Stmt("span", {"debugviz"} \cup (IF ctx = "none" THEN {"context"} ELSE {}))
        EXCEPT !.dv = <<"StartSpan">>, !.gen = TRUE]
DeferStmt == [Stmt("defer", {}) EXCEPT !.gen = TRUE]

InjectFunc(fn) ==
    [fn EXCEPT !.body = <<SpanStmt(fn.ctx), DeferStmt>> \o @,
               !.ctx = IF @ = "blank" THEN "named" ELSE @]

SpanImports(fns) ==
    {"debugviz"} \cup (IF \E fn \in fns : fn.ctx = "none" THEN {"context"} ELSE {})

InstrumentFile(f, cfg) ==
    LET candidates == {i \in DOMAIN f.funcs : IsCandidate(f.funcs[i], cfg)}
    IN  IF candidates = {} THEN f
        ELSE [f EXCEPT
                !.funcs = [i \in DOMAIN @ |->
                              IF i \in candidates THEN InjectFunc(@[i]) ELSE @[i]],
                !.imports = @ \cup SpanImports({f.funcs[i] : i \in candidates})]
=============================================================================
