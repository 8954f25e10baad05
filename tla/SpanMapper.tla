----------------------------- MODULE SpanMapper -----------------------------
(***************************************************************************)
(* Which node of the graph a span belongs to, protocol/src/span-mapper.ts. *)
(* What depends on the order of the graph's nodes, or on the spelling of   *)
(* two names, is a set of possible answers; none is the empty set.         *)
(***************************************************************************)
EXTENDS Naturals, SequencesExt

\* Pieces of a path that are written in braces.
Braced == {"{id}", "{name}"}

\* splitPath drops the empty pieces; matchHttpPath: a piece in braces takes any other.
Pieces(path) == SelectSeq(path, LAMBDA piece : piece # "")
MatchHttpPath(pattern, actual) ==
    LET p == Pieces(pattern)
        a == Pieces(actual)
    IN  Len(p) = Len(a) /\ \A i \in DOMAIN p : p[i] \in Braced \cup {a[i]}

\* The sort by id: "{" comes after every letter, a path before its extensions.
Before(p, q) ==
    \/ p # q /\ IsPrefix(p, q)
    \/ \E i \in DOMAIN p \cap DOMAIN q :
          /\ SubSeq(p, 1, i - 1) = SubSeq(q, 1, i - 1)
          /\ p[i] \notin Braced /\ q[i] \in Braced

\* Mutant: the last entry point that matches.
MapEntryLast(nodes, span) ==
    LET all == {n \in nodes : n.type = "entry_point" /\ n.kind = span.kind
                    /\ IF span.kind = "http" THEN MatchHttpPath(n.path, span.entry)
                       ELSE n.path = span.entry}
    IN  {n \in all : \A m \in all : ~Before(n.path, m.path)}

\* matchEntryPoint: the first entry point, in the order of the graph, that matches.
MapEntry(nodes, span) ==
    LET all == {n \in nodes : n.type = "entry_point" /\ n.kind = span.kind
                    /\ IF span.kind = "http" THEN MatchHttpPath(n.path, span.entry)
                       ELSE n.path = span.entry}
    IN  {n \in all : \A m \in all : ~Before(m.path, n.path)}

Functions(nodes) == {n \in nodes : n.type = "function"}
SameTail(f, g) == IsSuffix(f, g) \/ IsSuffix(g, f)

\* mapByFileLine: the function that starts last before the line, in the file or,
\* when the graph does not know it, in the files whose path ends alike.
MapByFileLine(nodes, span) ==
    LET inFile == {n \in Functions(nodes) : n.file = span.file}
        near == IF inFile # {} THEN inFile
                ELSE {n \in Functions(nodes) : SameTail(n.file, span.file)}
        above == {n \in near : n.line <= span.line}
    IN  {n \in above : \A m \in above : m.line <= n.line}

\* mapByName, of the last word of the span's name.
MapByName(nodes, span) ==
    LET named == {n \in Functions(nodes) : n.name = span.name}
        here == {n \in named : SameTail(n.file, span.file)}
    IN  IF here # {} THEN here ELSE named

MapSpan(nodes, span) ==
    LET entry == IF span.root THEN MapEntry(nodes, span) ELSE {}
        line == MapByFileLine(nodes, span)
    IN  IF entry # {} THEN entry ELSE IF line # {} THEN line ELSE MapByName(nodes, span)
=============================================================================
