-------------------------- MODULE GraphPoll_proofs --------------------------
(***************************************************************************)
(* The page's graph and its counts come from one poll and are never taken  *)
(* away, for every set of polls, uploads, failures and restarts.           *)
(***************************************************************************)
EXTENDS GraphPoll, TLAPS

\* Uploads are numbered, and the graph served is the latest one or none.
ServedLatest == served # 0 => served = uploads

\* A poll is answered with nothing older than the graph that was served when it began.
AnswersNotOlder ==
  \A p \in Poll : /\ begun[p] <= uploads
                  /\ \A w \in What : request[p][w] = "answered" => answer[p][w] >= begun[p]

IInv == TypeOK /\ ServedLatest /\ AnswersNotOlder /\ PairOfOnePoll

\* Nothing is served, asked or shown.
LEMMA InitInvariant == Init => IInv
<1> SUFFICES ASSUME Init  PROVE IInv  OBVIOUS
<1>1. MaxUploads \in Nat /\ MaxFailures \in Nat /\ MaxRestarts \in Nat  BY PollAssumption
<1>2. 0 \in Version  BY <1>1 DEF Version
<1>3. request \in [Poll -> [What -> {"none", "sent", "answered", "failed"}]]  BY DEF Init
<1>4. answer \in [Poll -> [What -> Version]]  BY <1>2 DEF Init
<1>5. begun \in [Poll -> Version]  BY <1>2 DEF Init
<1>6. \A p \in Poll, w \in What : request[p][w] = "none"  BY DEF Init
<1>7. error \in BOOLEAN  BY Zenon DEF Init
<1>8. failures \in 0 .. MaxFailures /\ restarts \in 0 .. MaxRestarts  BY <1>1 DEF Init
<1>9. \A p \in Poll, w \in What : request[p][w] = "answered" => answer[p][w] # 0  BY <1>6
<1>10. served \in Version /\ uploads \in Version /\ graph \in Version /\ meta \in Version
       /\ oldest \in Version
  BY <1>2 DEF Init
<1>11. TypeOK  BY <1>3, <1>4, <1>5, <1>7, <1>8, <1>9, <1>10 DEF TypeOK
<1> QED  BY <1>6, <1>11 DEF Init, IInv, ServedLatest, AnswersNotOlder, PairOfOnePoll

\* An upload is numbered above all before it; a restart serves none.
LEMMA ServerInvariant == ASSUME IInv, Upload \/ Restart  PROVE IInv'
<1>1. /\ failures' = failures /\ request' = request /\ answer' = answer /\ begun' = begun
      /\ graph' = graph /\ meta' = meta /\ error' = error /\ oldest' = oldest
  BY DEF Upload, Restart, pageVars
<1>2. \/ uploads' = uploads + 1 /\ served' = uploads + 1 /\ restarts' = restarts
         /\ uploads < MaxUploads
      \/ uploads' = uploads /\ served' = 0 /\ restarts' = restarts + 1 /\ restarts < MaxRestarts
  BY DEF Upload, Restart
<1>3. served' \in Version /\ uploads' \in Version /\ restarts' \in 0 .. MaxRestarts
  BY <1>2, PollAssumption DEF IInv, TypeOK, Version
<1>4. uploads \in Nat /\ uploads' \in Nat /\ uploads' >= uploads
  BY <1>2 DEF IInv, TypeOK, Version
<1>5. TypeOK'  BY <1>1, <1>3 DEF IInv, TypeOK
<1>6. ServedLatest'  BY <1>2 DEF ServedLatest
<1>7. AnswersNotOlder'
  <2> SUFFICES ASSUME NEW p \in Poll  PROVE begun[p] <= uploads'
    BY <1>1 DEF IInv, AnswersNotOlder
  <2>1. begun[p] \in Version  BY DEF IInv, TypeOK
  <2>2. begun[p] \in Nat  BY <2>1 DEF Version
  <2> QED  BY <1>4, <2>2 DEF IInv, AnswersNotOlder
<1>8. PairOfOnePoll'  BY <1>1 DEF IInv, PairOfOnePoll
<1> QED  BY <1>5, <1>6, <1>7, <1>8 DEF IInv

\* An answer is the graph of the moment, which the poll cannot have begun after.
LEMMA AnswerInvariant ==
  ASSUME IInv, NEW p \in Poll, NEW w \in What, Answer(p, w)  PROVE IInv'
<1>1. /\ served' = served /\ uploads' = uploads /\ restarts' = restarts /\ failures' = failures
      /\ begun' = begun /\ graph' = graph /\ meta' = meta /\ error' = error /\ oldest' = oldest
  BY DEF Answer, serverVars, pageVars
<1>2. /\ request' = [request EXCEPT ![p][w] = IF served = 0 THEN "failed" ELSE "answered"]
      /\ answer' = [answer EXCEPT ![p][w] = served]
  BY DEF Answer
<1>3. request' \in [Poll -> [What -> {"none", "sent", "answered", "failed"}]]
  BY <1>2 DEF IInv, TypeOK
<1>4. answer' \in [Poll -> [What -> Version]]  BY <1>2 DEF IInv, TypeOK
<1>5. ASSUME NEW q \in Poll, NEW v \in What, request'[q][v] = "answered"
      PROVE  answer'[q][v] # 0 /\ answer'[q][v] >= begun[q]
  <2>1. CASE q = p /\ v = w
    <3>1. request'[q][v] = IF served = 0 THEN "failed" ELSE "answered"
      BY <1>2, <2>1 DEF IInv, TypeOK
    <3>2. answer'[q][v] = served  BY <1>2, <2>1 DEF IInv, TypeOK
    <3>3. served # 0 /\ served = uploads  BY <1>5, <3>1 DEF IInv, ServedLatest
    <3>4. begun[q] <= uploads /\ begun[q] \in Nat /\ uploads \in Nat
      BY DEF IInv, AnswersNotOlder, TypeOK, Version
    <3> QED  BY <3>2, <3>3, <3>4
  <2>2. CASE ~(q = p /\ v = w)
    <3>1. request'[q][v] = request[q][v] /\ answer'[q][v] = answer[q][v]
      BY <1>2, <2>2 DEF IInv, TypeOK
    <3> QED  BY <1>5, <3>1 DEF IInv, TypeOK, AnswersNotOlder
  <2> QED  BY <2>1, <2>2
<1>6. TypeOK'  BY <1>1, <1>3, <1>4, <1>5 DEF IInv, TypeOK
<1>7. AnswersNotOlder'  BY <1>1, <1>5 DEF IInv, AnswersNotOlder
<1> QED  BY <1>1, <1>6, <1>7 DEF IInv, ServedLatest, PairOfOnePoll

\* Requests that are sent, fail or are done with have no answer that counts.
LEMMA RequestInvariant ==
  ASSUME IInv, NEW p \in Poll,
         Start(p) \/ Error(p) \/ \E w \in What : Fail(p, w)
  PROVE  IInv'
<1>1. /\ served' = served /\ uploads' = uploads /\ restarts' = restarts /\ answer' = answer
      /\ graph' = graph /\ meta' = meta /\ oldest' = oldest
  BY DEF Start, Error, Fail, serverVars, pageVars
<1>2. error' \in BOOLEAN
  <2>1. error' = error \/ error' = TRUE  BY DEF Start, Error, Fail, pageVars
  <2> QED  BY <2>1, Zenon DEF IInv, TypeOK
<1>3. failures' \in 0 .. MaxFailures
  <2>1. failures' = failures \/ (failures < MaxFailures /\ failures' = failures + 1)
    BY DEF Start, Error, Fail
  <2> QED  BY <2>1, PollAssumption DEF IInv, TypeOK
<1>4. begun' \in [Poll -> Version] /\ \A q \in Poll : begun'[q] \in {begun[q], served}
  <2>1. begun' = begun \/ begun' = [begun EXCEPT ![p] = served]  BY DEF Start, Error, Fail
  <2> QED  BY <2>1 DEF IInv, TypeOK
<1>5. /\ request' \in [Poll -> [What -> {"none", "sent", "answered", "failed"}]]
      /\ \A q \in Poll, v \in What : request'[q][v] = "answered" =>
           request[q][v] = "answered" /\ begun'[q] = begun[q]
  <2>1. CASE Start(p)
    <3>1. /\ request' = [request EXCEPT ![p] = [w \in What |-> "sent"]]
          /\ begun' = [begun EXCEPT ![p] = served]
      BY <2>1 DEF Start
    <3> QED  BY <3>1 DEF IInv, TypeOK
  <2>2. CASE Error(p)
    <3>1. request' = [request EXCEPT ![p] = [w \in What |-> "none"]] /\ begun' = begun
      BY <2>2 DEF Error, Free
    <3> QED  BY <3>1 DEF IInv, TypeOK
  <2>3. CASE \E w \in What : Fail(p, w)
    <3>1. PICK w \in What : request' = [request EXCEPT ![p][w] = "failed"] /\ begun' = begun
      BY <2>3 DEF Fail
    <3> QED  BY <3>1 DEF IInv, TypeOK
  <2> QED  BY <2>1, <2>2, <2>3
<1>6. TypeOK'  BY <1>1, <1>2, <1>3, <1>4, <1>5 DEF IInv, TypeOK
<1>7. AnswersNotOlder'
  <2>1. served <= uploads  BY DEF IInv, ServedLatest, TypeOK, Version
  <2> QED  BY <1>1, <1>4, <1>5, <2>1 DEF IInv, AnswersNotOlder
<1> QED  BY <1>1, <1>6, <1>7 DEF IInv, ServedLatest, PairOfOnePoll

\* Both answers of one poll are shown.
LEMMA LoadedInvariant ==
  ASSUME IInv, NEW p \in Poll, Loaded(p)  PROVE IInv' /\ graph' # 0
<1>1. /\ served' = served /\ uploads' = uploads /\ restarts' = restarts /\ answer' = answer
      /\ failures' = failures /\ begun' = begun
      /\ graph' = answer[p]["graph"] /\ meta' = answer[p]["meta"] /\ error' = FALSE
      /\ oldest' = begun[p]
      /\ request' = [request EXCEPT ![p] = [w \in What |-> "none"]]
      /\ \A w \in What : request[p][w] = "answered"
  BY DEF Loaded, serverVars, Free
<1>2. "graph" \in What /\ "meta" \in What  BY DEF What
<1>3. /\ graph' \in Version /\ meta' \in Version /\ oldest' \in Version
      /\ graph' # 0 /\ meta' # 0 /\ graph' >= oldest' /\ meta' >= oldest'
  BY <1>1, <1>2 DEF IInv, TypeOK, AnswersNotOlder
<1>4. /\ request' \in [Poll -> [What -> {"none", "sent", "answered", "failed"}]]
      /\ \A q \in Poll, v \in What : request'[q][v] = "answered" => request[q][v] = "answered"
  BY <1>1 DEF IInv, TypeOK
<1>5. TypeOK'  BY <1>1, <1>3, <1>4 DEF IInv, TypeOK
<1>6. AnswersNotOlder'  BY <1>1, <1>4 DEF IInv, AnswersNotOlder
<1> QED  BY <1>1, <1>3, <1>5, <1>6 DEF IInv, ServedLatest, PairOfOnePoll

\* Each action keeps the invariant, and the graph that is shown.
LEMMA NextInvariant == IInv /\ [Next]_vars => IInv' /\ (graph # 0 => graph' # 0)
<1> SUFFICES ASSUME IInv, [Next]_vars  PROVE IInv' /\ (graph # 0 => graph' # 0)  OBVIOUS
<1>1. CASE Upload \/ Restart
  BY <1>1, ServerInvariant DEF Upload, Restart, pageVars
<1>2. CASE \E p \in Poll : Loaded(p)  BY <1>2, LoadedInvariant
<1>3. CASE \E p \in Poll : Start(p) \/ Error(p) \/ \E w \in What : Fail(p, w)
  <2>1. graph' = graph  BY <1>3 DEF Start, Error, Fail, pageVars
  <2> QED  BY <1>3, <2>1, RequestInvariant
<1>4. CASE \E p \in Poll, w \in What : Answer(p, w)
  <2>1. graph' = graph  BY <1>4 DEF Answer, pageVars
  <2> QED  BY <1>4, <2>1, AnswerInvariant
<1>5. CASE UNCHANGED vars
  BY <1>5 DEF vars, serverVars, pageVars, IInv, TypeOK, ServedLatest, AnswersNotOlder, PairOfOnePoll
<1> QED  BY <1>1, <1>2, <1>3, <1>4, <1>5 DEF Next

\* For every number of polls, uploads, failures and restarts: the graph and its counts are
\* of one poll, and no older than the graph served when it began.
THEOREM PollSafe == Spec => [](TypeOK /\ PairOfOnePoll)
<1>1. Init => IInv  BY InitInvariant
<1>2. IInv /\ [Next]_vars => IInv'  BY NextInvariant
<1>3. IInv => TypeOK /\ PairOfOnePoll  BY DEF IInv
<1> QED  BY <1>1, <1>2, <1>3, PTL DEF Spec

\* For every number of them: a graph that has been loaded is never taken away.
THEOREM PollKeepsGraph == Spec => GraphStays
<1>1. Init => IInv  BY InitInvariant
<1>2. IInv /\ [Next]_vars => IInv'  BY NextInvariant
<1>3. IInv /\ [Next]_vars => [graph # 0 => graph' # 0]_vars  BY NextInvariant
<1> QED  BY <1>1, <1>2, <1>3, PTL DEF Spec, GraphStays
=============================================================================
