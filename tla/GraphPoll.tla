------------------------------- MODULE GraphPoll -------------------------------
(***************************************************************************)
(* How the page comes by the graph: the hook useGraph of                   *)
(* web/src/hooks/useGraph.ts against the graph routes of the server.  A    *)
(* timer starts a poll whether or not the previous ones are over; a poll   *)
(* is two requests whose answers are taken together.                       *)
(*                                                                         *)
(* A graph is the number of its upload; 0 is null.                         *)
(***************************************************************************)
EXTENDS Naturals

CONSTANTS
  Poll,         \* polls that can be under way at the same time
  MaxUploads,   \* bound: POSTs of a graph
  MaxFailures,  \* bound: requests that fail for other reasons than a missing graph
  MaxRestarts   \* bound: restarts of the server without an initial graph

ASSUME PollAssumption == MaxUploads \in Nat /\ MaxFailures \in Nat /\ MaxRestarts \in Nat

VARIABLES
  served,    \* the graph in the server's AppState
  uploads,   \* graphs uploaded so far
  failures, restarts,
  request,   \* per poll and request: "none", "sent", "answered" or "failed"
  answer,    \* per poll and request: the graph it was answered with
  graph, meta, error,  \* the page: the graph, the one `meta' was counted on, whether an error shows
  \* history, for the properties
  begun,     \* per poll: the graph served when it began
  oldest     \* the graph served when the poll that the page shows began

serverVars == <<served, uploads, restarts>>
pageVars == <<graph, meta, error, oldest>>
vars == <<serverVars, failures, request, answer, begun, pageVars>>

What == {"graph", "meta"}   \* GET /api/graph and GET /api/graph/meta
Version == 0 .. MaxUploads

TypeOK ==
  /\ served \in Version /\ uploads \in Version
  /\ failures \in 0 .. MaxFailures /\ restarts \in 0 .. MaxRestarts
  /\ request \in [Poll -> [What -> {"none", "sent", "answered", "failed"}]]
  /\ answer \in [Poll -> [What -> Version]]
  /\ \A p \in Poll, w \in What : request[p][w] = "answered" => answer[p][w] # 0
  /\ graph \in Version /\ meta \in Version /\ oldest \in Version
  /\ error \in BOOLEAN
  /\ begun \in [Poll -> Version]

Init ==
  /\ served = 0 /\ uploads = 0 /\ failures = 0 /\ restarts = 0
  /\ request = [p \in Poll |-> [w \in What |-> "none"]]
  /\ answer = [p \in Poll |-> [w \in What |-> 0]]
  /\ graph = 0 /\ meta = 0 /\ error = FALSE
  /\ begun = [p \in Poll |-> 0] /\ oldest = 0

-------------------------------------------------------------------------------
\* POST /api/graph.
Upload ==
  /\ uploads < MaxUploads
  /\ uploads' = uploads + 1
  /\ served' = uploads + 1
  /\ UNCHANGED <<restarts, failures, request, answer, begun, pageVars>>

\* The server starts again: createAppState has no graph.
Restart ==
  /\ restarts < MaxRestarts
  /\ restarts' = restarts + 1
  /\ served' = 0
  /\ UNCHANGED <<uploads, failures, request, answer, begun, pageVars>>

\* GET /api/graph or /api/graph/meta: the graph that is there, or 404.
Answer(p, w) ==
  /\ request[p][w] = "sent"
  /\ request' = [request EXCEPT ![p][w] = IF served = 0 THEN "failed" ELSE "answered"]
  /\ answer' = [answer EXCEPT ![p][w] = served]
  /\ UNCHANGED <<serverVars, failures, begun, pageVars>>

\* The network or a dying server: no answer.
Fail(p, w) ==
  /\ request[p][w] = "sent"
  /\ failures < MaxFailures
  /\ failures' = failures + 1
  /\ request' = [request EXCEPT ![p][w] = "failed"]
  /\ UNCHANGED <<serverVars, answer, begun, pageVars>>

-------------------------------------------------------------------------------
Free(p) == [request EXCEPT ![p] = [w \in What |-> "none"]]

\* reload, up to its await; the timer does not wait for the polls under way.
Start(p) ==
  /\ request[p] = [w \in What |-> "none"]
  /\ request' = [request EXCEPT ![p] = [w \in What |-> "sent"]]
  /\ begun' = [begun EXCEPT ![p] = served]
  /\ UNCHANGED <<serverVars, failures, answer, pageVars>>

\* Mutant: only the first graph is taken.
LoadedOnce(p) ==
  /\ \A w \in What : request[p][w] = "answered"
  /\ graph' = IF graph = 0 THEN answer[p]["graph"] ELSE graph
  /\ meta' = IF graph = 0 THEN answer[p]["meta"] ELSE meta
  /\ error' = FALSE
  /\ oldest' = IF graph = 0 THEN begun[p] ELSE oldest
  /\ request' = Free(p)
  /\ UNCHANGED <<serverVars, failures, answer, begun>>

\* Mutant: the two answers are taken separately.
LoadedApart(p) ==
  /\ \A w \in What : request[p][w] \in {"answered", "failed"}
  /\ request[p]["graph"] = "answered"
  /\ graph' = answer[p]["graph"]
  /\ meta' = IF request[p]["meta"] = "answered" THEN answer[p]["meta"] ELSE meta
  /\ error' = FALSE
  /\ oldest' = begun[p]
  /\ request' = Free(p)
  /\ UNCHANGED <<serverVars, failures, answer, begun>>

\* Promise.all resolves: both answers are shown.
Loaded(p) ==
  /\ \A w \in What : request[p][w] = "answered"
  /\ graph' = answer[p]["graph"]
  /\ meta' = answer[p]["meta"]
  /\ error' = FALSE
  /\ oldest' = begun[p]
  /\ request' = Free(p)
  /\ UNCHANGED <<serverVars, failures, answer, begun>>

\* Mutant: an error takes the graph away.
ErrorClears(p) ==
  /\ \E w \in What : request[p][w] = "failed"
  /\ error' = TRUE
  /\ graph' = 0 /\ meta' = 0 /\ oldest' = 0
  /\ request' = Free(p)
  /\ UNCHANGED <<serverVars, failures, answer, begun>>

\* Promise.all rejects with the first failure: what was shown stays, and an error appears.
Error(p) ==
  /\ \E w \in What : request[p][w] = "failed"
  /\ error' = TRUE
  /\ request' = Free(p)
  /\ UNCHANGED <<serverVars, failures, answer, begun, graph, meta, oldest>>

Next ==
  \/ Upload \/ Restart
  \/ \E p \in Poll : Start(p) \/ Loaded(p) \/ Error(p)
  \/ \E p \in Poll, w \in What : Answer(p, w) \/ Fail(p, w)

\* The timer goes on for ever, requests are answered, and their handlers run.
Fairness ==
  \A p \in Poll :
    /\ WF_vars(Start(p)) /\ WF_vars(Loaded(p)) /\ WF_vars(Error(p))
    /\ \A w \in What : WF_vars(Answer(p, w))

Spec == Init /\ [][Next]_vars /\ Fairness

-------------------------------------------------------------------------------
(* Properties.                                                                   *)

\* A graph that has been loaded is never taken away, by no failed poll and by no restart: the
\* page keeps drawing, and `enabled' of useTraceStream does not go back and open a second socket.
GraphStays == [][graph # 0 => graph' # 0]_vars

\* The graph and its counts come from one poll: however polls overlap or fail half-way, both are
\* no older than the graph that was served when that poll began.
PairOfOnePoll == graph # 0 => (graph >= oldest /\ meta >= oldest /\ meta # 0)

\* The page cannot be stuck with an outdated graph, a half of a pair or an error: when the
\* server keeps serving a graph, the page comes to show it, with its counts and no error.
GraphCatchesUp ==
  (<>[](served # 0)) => <>[](graph = served /\ meta = served /\ ~error)
===============================================================================
