--------------------------- MODULE TraceStream_proofs ---------------------------
(***************************************************************************)
(* What is proved of the page's trace stream, for every set of traces and  *)
(* span ids and every limit: the timeline is of one trace and complete,    *)
(* the page misses no message, and its newest list is the server's.        *)
(***************************************************************************)
EXTENDS TraceStream, SequenceTheorems, FiniteSetTheorems, TLAPS

\* Nothing has been received, and no trace is fresh, before the socket is open.
BeforeOpen ==
  socket \in {"none", "connecting"} =>
    wire = <<>> /\ fresh = {} /\ \A t \in Trace : spansByTrace[t] = {}

\* Switches are numbered in the order they are made; the answer to the latest one is to be of
\* the active trace, and complete but for what is on its way.
DetailInv ==
  /\ shownFor \in 0 .. switches
  /\ \A r \in details :
       /\ r.switch \in 1 .. switches
       /\ r.switch = switches => r.trace = active
       /\ (socket = "open" /\ r.switch = switches /\ r.answered /\ r.trace \in fresh) =>
            stored[r.trace] \subseteq r.ids \cup InFlight(r.trace)

\* Lists are numbered in the order they are asked for; the answer to the newest one is up to date.
ListInv ==
  /\ listed \in 0 .. asked
  /\ \A r \in lists :
       /\ r.number \in 1 .. asked
       /\ Quiet /\ r.number = asked /\ r.answered => r.rows = Rows

IInv ==
  /\ TypeOK /\ BeforeOpen /\ DetailInv /\ ListInv
  /\ ShownBelongs /\ TimelineComplete /\ LiveMissesNothing /\ HistoryIsFresh

-------------------------------------------------------------------------------
(* What is on its way when a message is added or taken.                          *)

LEMMA InFlightAppend ==
  ASSUME wire \in Seq(Span), NEW m \in Span, wire' = Append(wire, m), NEW t \in Trace
  PROVE  InFlight(t)' = InFlight(t) \cup (IF m.trace = t THEN {m.id} ELSE {})
<1>1. /\ Len(wire) \in Nat /\ DOMAIN wire = 1 .. Len(wire)
      /\ wire' \in Seq(Span) /\ DOMAIN wire' = 1 .. Len(wire) + 1
      /\ \A i \in 1 .. Len(wire) : wire'[i] = wire[i]
      /\ wire'[Len(wire) + 1] = m
  BY AppendProperties
<1>2. 1 .. Len(wire) + 1 = (1 .. Len(wire)) \cup {Len(wire) + 1}
  BY <1>1
<1>3. ASSUME NEW x \in InFlight(t)'
      PROVE  x \in InFlight(t) \cup (IF m.trace = t THEN {m.id} ELSE {})
  BY <1>1, <1>2 DEF InFlight
<1>4. ASSUME NEW x \in InFlight(t) PROVE x \in InFlight(t)'
  BY <1>1, <1>2 DEF InFlight
<1>5. m.trace = t => m.id \in InFlight(t)'
  BY <1>1, <1>2 DEF InFlight
<1> QED
  BY <1>3, <1>4, <1>5

LEMMA InFlightTail ==
  ASSUME wire \in Seq(Span), wire # <<>>, wire' = Tail(wire), NEW t \in Trace
  PROVE  InFlight(t) \subseteq
           InFlight(t)' \cup (IF Head(wire).trace = t THEN {Head(wire).id} ELSE {})
<1>1. /\ Len(wire) \in Nat /\ Len(wire) # 0 /\ DOMAIN wire = 1 .. Len(wire)
      /\ wire' \in Seq(Span) /\ Len(wire') = Len(wire) - 1
      /\ \A i \in 1 .. Len(wire) - 1 : wire'[i] = wire[i + 1]
      /\ Head(wire) = wire[1]
  BY HeadTailProperties, EmptySeq
<1>2. DOMAIN wire' = 1 .. Len(wire) - 1
  BY <1>1
<1>3. SUFFICES ASSUME NEW i \in 1 .. Len(wire), wire[i].trace = t
               PROVE  wire[i].id \in
                 InFlight(t)' \cup (IF wire[1].trace = t THEN {wire[1].id} ELSE {})
  BY <1>1 DEF InFlight
<1>4. CASE i = 1
  BY <1>3, <1>4
<1>5. CASE i # 1
  <2>1. i - 1 \in 1 .. Len(wire) - 1 /\ wire'[i - 1] = wire[i]
    BY <1>1, <1>3, <1>5
  <2> QED
    BY <1>2, <1>3, <2>1 DEF InFlight
<1> QED
  BY <1>4, <1>5

LEMMA InFlightSame ==
  ASSUME wire' = wire, NEW t
  PROVE  InFlight(t)' = InFlight(t)
BY DEF InFlight

LEMMA InFlightEmpty ==
  ASSUME wire = <<>>, NEW t
  PROVE  InFlight(t) = {}
BY DEF InFlight

LEMMA RowsTyped ==
  ASSUME TypeOK
  PROVE  Rows \in Seq(Row)
<1>1. /\ order \in Seq(Trace) /\ Len(order) \in Nat /\ DOMAIN order = 1 .. Len(order)
      /\ \A i \in 1 .. Len(order) : order[i] \in Trace /\ stored[order[i]] \subseteq SpanId
  BY DEF TypeOK
<1>2. ASSUME NEW i \in 1 .. Len(order) PROVE Cardinality(stored[order[i]]) \in Nat
  <2>1. IsFiniteSet(stored[order[i]])
    BY <1>1, StreamAssumption, FS_Subset
  <2> QED
    BY <2>1, FS_CardinalityType
<1>3. Rows \in [1 .. Len(order) -> Row]
  BY <1>1, <1>2 DEF Rows, Row
<1> QED
  BY <1>1, <1>3

LEMMA AskListProperties ==
  ASSUME TypeOK, ListInv, lists' = AskList, asked' = asked + 1
  PROVE  /\ lists' \subseteq List /\ asked' \in Nat
         /\ \A r \in lists' :
              r.number \in 1 .. asked' /\ (r.number = asked' => ~r.answered)
<1> DEFINE new == [number |-> asked + 1, answered |-> FALSE, rows |-> <<>>]
<1>1. asked \in Nat /\ lists \subseteq List
  BY DEF TypeOK
<1>2. new \in List /\ new.number = asked + 1 /\ new.answered = FALSE
  BY <1>1 DEF List
<1>3. lists' = lists \cup {new}
  BY DEF AskList
<1>4. \A r \in lists : r.number \in 1 .. asked
  BY DEF ListInv
<1> HIDE DEF new
<1> QED
  BY <1>1, <1>2, <1>3, <1>4

-------------------------------------------------------------------------------
LEMMA InitInvariant == Init => IInv
<1> SUFFICES ASSUME Init PROVE IInv
  OBVIOUS
<1>1. TypeOK
  BY StreamAssumption DEF Init, TypeOK
<1>2. BeforeOpen /\ DetailInv /\ ListInv
  BY DEF Init, BeforeOpen, DetailInv, ListInv
<1>3. ShownBelongs /\ TimelineComplete /\ LiveMissesNothing /\ HistoryIsFresh
  BY DEF Init, ShownBelongs, TimelineComplete, LiveMissesNothing, HistoryIsFresh, Quiet
<1> QED
  BY <1>1, <1>2, <1>3 DEF IInv

-------------------------------------------------------------------------------
(* The server's steps.                                                           *)

\* A span that is posted is on its way to a subscribed page.
LEMMA PublishedProperties ==
  ASSUME TypeOK, BeforeOpen, NEW t \in Trace, NEW id \in SpanId,
         wire' = Published(t, id), socket' = socket
  PROVE  /\ wire' \in Seq(Span)
         /\ socket = "open" => wire' # <<>>
         /\ socket = "open" =>
              \A u \in Trace : InFlight(u)' = InFlight(u) \cup (IF t = u THEN {id} ELSE {})
         /\ socket # "open" => wire' = wire
<1> DEFINE m == [trace |-> t, id |-> id]
<1>1. wire \in Seq(Span) /\ m \in Span /\ m.trace = t /\ m.id = id
  BY DEF TypeOK, Span
<1>2. CASE socket = "open"
  <2>1. wire' = Append(wire, m)
    BY <1>2 DEF Published
  <2> HIDE DEF m
  <2>2. wire' \in Seq(Span) /\ Len(wire') = Len(wire) + 1 /\ Len(wire) \in Nat
    BY <1>1, <2>1, AppendProperties
  <2>3. wire' # <<>>
    BY <2>2, EmptySeq
  <2>4. ASSUME NEW u \in Trace
        PROVE  InFlight(u)' = InFlight(u) \cup (IF t = u THEN {id} ELSE {})
    BY <1>1, <2>1, InFlightAppend
  <2> QED
    BY <1>2, <2>2, <2>3, <2>4
<1>3. CASE socket # "open"
  BY <1>1, <1>3 DEF Published
<1> QED
  BY <1>2, <1>3

\* When the server stores a span, all that is new of a fresh trace is on its way.
LEMMA IngestInvariant ==
  ASSUME IInv, NEW t \in Trace, NEW id \in SpanId,
         wire' = Published(t, id), TypeOK',
         UNCHANGED <<socket, timelineVars, listVars>>,
         socket # "open" => fresh' \subseteq fresh,
         socket = "open" => \A u \in fresh' :
           \/ u = t /\ stored'[u] = {id}
           \/ u \in fresh /\ stored'[u] \subseteq stored[u] \cup (IF u = t THEN {id} ELSE {})
  PROVE  IInv'
<1>0. TypeOK /\ BeforeOpen /\ DetailInv /\ ListInv
  BY DEF IInv
<1>1. /\ socket' = socket /\ active' = active /\ spans' = spans /\ spansByTrace' = spansByTrace
      /\ switches' = switches /\ shownFor' = shownFor /\ details' = details
      /\ lists' = lists /\ asked' = asked /\ listed' = listed /\ summaries' = summaries
  BY DEF timelineVars, listVars
<1>2. /\ socket = "open" => wire' # <<>>
      /\ socket = "open" =>
           \A u \in Trace : InFlight(u)' = InFlight(u) \cup (IF t = u THEN {id} ELSE {})
      /\ socket # "open" => wire' = wire
  BY <1>0, <1>1, PublishedProperties
<1>3. fresh' \subseteq Trace /\ fresh \subseteq Trace
  BY <1>0 DEF TypeOK
<1>4. ASSUME socket = "open", NEW u \in fresh'
      PROVE  \/ stored'[u] \subseteq InFlight(u)'
             \/ u \in fresh /\ stored'[u] \ InFlight(u)' \subseteq stored[u] \ InFlight(u)
  BY <1>2, <1>3, <1>4
<1>5. BeforeOpen'
  BY <1>0, <1>1, <1>2 DEF BeforeOpen
<1>6. ~Quiet'
  BY <1>1, <1>2 DEF Quiet
<1>7. ListInv' /\ HistoryIsFresh'
  <2>1. listed' \in 0 .. asked' /\ \A r \in lists' : r.number \in 1 .. asked'
    BY <1>0, <1>1 DEF ListInv
  <2> QED
    BY <1>6, <2>1 DEF ListInv, HistoryIsFresh
<1>8. ASSUME NEW r \in details', socket' = "open", r.switch = switches', r.answered,
             r.trace \in fresh'
      PROVE  stored'[r.trace] \subseteq r.ids \cup InFlight(r.trace)'
  <2>1. r \in details /\ socket = "open" /\ r.switch = switches
    BY <1>1, <1>8
  <2>2. r.trace \in fresh => stored[r.trace] \subseteq r.ids \cup InFlight(r.trace)
    BY <1>0, <1>8, <2>1 DEF DetailInv
  <2>3. \/ stored'[r.trace] \subseteq InFlight(r.trace)'
        \/ r.trace \in fresh
           /\ stored'[r.trace] \ InFlight(r.trace)' \subseteq stored[r.trace] \ InFlight(r.trace)
    BY <1>4, <1>8, <2>1
  <2> QED
    BY <2>2, <2>3
<1>9. DetailInv'
  <2>1. /\ shownFor' \in 0 .. switches'
        /\ \A r \in details' :
             r.switch \in 1 .. switches' /\ (r.switch = switches' => r.trace = active')
    BY <1>0, <1>1 DEF DetailInv
  <2> QED
    BY <1>8, <2>1 DEF DetailInv
<1>10. ShownBelongs'
  BY <1>1 DEF IInv, ShownBelongs
<1>11. TimelineComplete'
  <2>1. SUFFICES ASSUME socket = "open", NEW u \in fresh', u = active, shownFor = switches
                 PROVE  SpansOf(u, stored'[u] \ InFlight(u)') \subseteq spans
    BY <1>1, Zenon DEF TimelineComplete, SpansOf, InFlight
  <2>2. u \in fresh => SpansOf(u, stored[u] \ InFlight(u)) \subseteq spans
    BY <2>1 DEF IInv, TimelineComplete
  <2>3. CASE stored'[u] \subseteq InFlight(u)'
    BY <2>3 DEF SpansOf
  <2>4. CASE u \in fresh /\ stored'[u] \ InFlight(u)' \subseteq stored[u] \ InFlight(u)
    BY <2>2, <2>4 DEF SpansOf
  <2> QED
    BY <1>4, <2>1, <2>3, <2>4
<1>12. LiveMissesNothing'
  <2>1. SUFFICES ASSUME socket = "open", NEW u \in fresh'
                 PROVE  stored'[u] \subseteq spansByTrace[u] \cup InFlight(u)'
    BY <1>1, Zenon DEF LiveMissesNothing, InFlight
  <2>2. u \in fresh => stored[u] \subseteq spansByTrace[u] \cup InFlight(u)
    BY <2>1 DEF IInv, LiveMissesNothing
  <2>3. \/ stored'[u] \subseteq InFlight(u)'
        \/ u \in fresh /\ stored'[u] \ InFlight(u)' \subseteq stored[u] \ InFlight(u)
    BY <1>4, <2>1
  <2> QED
    BY <2>2, <2>3
<1> QED
  BY <1>5, <1>7, <1>9, <1>10, <1>11, <1>12 DEF IInv

LEMMA IngestNewInvariant ==
  ASSUME IInv, NEW t \in Trace, NEW id \in SpanId, IngestNew(t, id)
  PROVE  IInv'
<1>1. TypeOK /\ BeforeOpen
  BY DEF IInv
<1>2. /\ order \in Seq(Trace) /\ Len(order) \in Nat /\ Len(order) <= MaxTraces
      /\ MaxTraces \in Nat \ {0}
  BY <1>1, StreamAssumption DEF TypeOK
<1>3. Kept \in Nat /\ Kept <= Len(order) /\ Kept + 1 <= MaxTraces
  BY <1>2 DEF Kept, Evicted
<1>4. order' \in Seq(Trace) /\ Len(order') <= MaxTraces
  <2> DEFINE rest == SubSeq(order, 1, Kept)
  <2>1. rest \in Seq(Trace) /\ Len(rest) = Kept
    BY <1>2, <1>3, SubSeqProperties
  <2>2. order' = <<t>> \o rest
    BY DEF IngestNew
  <2> HIDE DEF rest
  <2>3. <<t>> \in Seq(Trace) /\ Len(<<t>>) = 1
    OBVIOUS
  <2>4. order' \in Seq(Trace) /\ Len(order') = 1 + Kept
    BY <2>1, <2>2, <2>3, ConcatProperties
  <2> QED
    BY <1>3, <2>4
<1>5. wire' = Published(t, id) /\ UNCHANGED <<socket, timelineVars, listVars>>
  BY DEF IngestNew
<1>6. wire' \in Seq(Span)
  BY <1>1, <1>5, PublishedProperties
<1>7. stored' \in [Trace -> SUBSET SpanId] /\ fresh' \subseteq Trace /\ posts' \in 0 .. MaxPosts
  BY <1>1, StreamAssumption DEF IngestNew, TypeOK
<1>8. TypeOK'
  BY <1>1, <1>4, <1>5, <1>6, <1>7 DEF TypeOK, timelineVars, listVars
<1>9. socket # "open" => fresh' \subseteq fresh
  BY DEF IngestNew
<1>10. socket = "open" => \A u \in fresh' :
           \/ u = t /\ stored'[u] = {id}
           \/ u \in fresh /\ stored'[u] \subseteq stored[u] \cup (IF u = t THEN {id} ELSE {})
  BY <1>1 DEF IngestNew, TypeOK
<1> QED
  BY <1>5, <1>8, <1>9, <1>10, IngestInvariant

LEMMA IngestKnownInvariant ==
  ASSUME IInv, NEW t \in Trace, NEW id \in SpanId, IngestKnown(t, id)
  PROVE  IInv'
<1>1. TypeOK /\ BeforeOpen
  BY DEF IInv
<1>2. wire' = Published(t, id) /\ UNCHANGED <<socket, timelineVars, listVars>>
  BY DEF IngestKnown
<1>3. wire' \in Seq(Span)
  BY <1>1, <1>2, PublishedProperties
<1>4. /\ stored' \in [Trace -> SUBSET SpanId] /\ posts' \in 0 .. MaxPosts
      /\ order' = order /\ fresh' = fresh
  BY <1>1, StreamAssumption DEF IngestKnown, TypeOK
<1>5. TypeOK'
  BY <1>1, <1>2, <1>3, <1>4 DEF TypeOK, timelineVars, listVars
<1>6. socket = "open" => \A u \in fresh' :
         u \in fresh /\ stored'[u] \subseteq stored[u] \cup (IF u = t THEN {id} ELSE {})
  BY <1>1 DEF IngestKnown, TypeOK
<1> QED
  BY <1>2, <1>4, <1>5, <1>6, IngestInvariant

-------------------------------------------------------------------------------
(* Steps that leave the timeline, or the lists, alone.                           *)

LEMMA TimelineSame ==
  ASSUME IInv, UNCHANGED <<serverVars, socket, wire, timelineVars>>
  PROVE  /\ BeforeOpen' /\ DetailInv' /\ ShownBelongs' /\ TimelineComplete' /\ LiveMissesNothing'
         /\ Rows' = Rows /\ Quiet' = Quiet
<1>1. /\ order' = order /\ stored' = stored /\ fresh' = fresh
      /\ socket' = socket /\ wire' = wire /\ active' = active /\ spans' = spans
      /\ spansByTrace' = spansByTrace /\ switches' = switches /\ shownFor' = shownFor
      /\ details' = details
  BY DEF serverVars, timelineVars
<1>2. BeforeOpen' /\ ShownBelongs' /\ Rows' = Rows /\ Quiet' = Quiet
  BY <1>1 DEF IInv, BeforeOpen, ShownBelongs, Rows, Quiet
<1>3. DetailInv'
  BY <1>1 DEF IInv, DetailInv, InFlight
<1>4. TimelineComplete'
  BY <1>1 DEF IInv, TimelineComplete, InFlight, SpansOf
<1>5. LiveMissesNothing'
  BY <1>1 DEF IInv, LiveMissesNothing, InFlight
<1> QED
  BY <1>2, <1>3, <1>4, <1>5

LEMMA ListsSame ==
  ASSUME IInv, UNCHANGED <<order, stored, socket, wire, spansByTrace, listVars>>
  PROVE  ListInv' /\ HistoryIsFresh'
<1>1. /\ lists' = lists /\ asked' = asked /\ listed' = listed /\ summaries' = summaries
      /\ Rows' = Rows /\ Quiet' = Quiet
  BY DEF listVars, Rows, Quiet
<1> QED
  BY <1>1 DEF IInv, ListInv, HistoryIsFresh

LEMMA StutterInvariant ==
  ASSUME IInv, UNCHANGED vars
  PROVE  IInv'
<1>1. UNCHANGED <<serverVars, socket, wire, timelineVars>>
      /\ UNCHANGED <<order, stored, socket, wire, spansByTrace, listVars>>
  BY DEF vars, serverVars, timelineVars
<1>2. TypeOK'
  BY <1>1 DEF IInv, TypeOK, serverVars, timelineVars, listVars
<1> QED
  BY <1>1, <1>2, TimelineSame, ListsSame DEF IInv

-------------------------------------------------------------------------------
(* The lists.                                                                    *)

LEMMA GetTracesInvariant ==
  ASSUME IInv, NEW r \in lists, GetTraces(r)
  PROVE  IInv'
<1> DEFINE new == [r EXCEPT !.answered = TRUE, !.rows = Rows]
<1>1. TypeOK /\ ListInv
  BY DEF IInv
<1>2. UNCHANGED <<serverVars, socket, wire, timelineVars>>
      /\ asked' = asked /\ listed' = listed /\ summaries' = summaries
  BY DEF GetTraces
<1>3. /\ BeforeOpen' /\ DetailInv' /\ ShownBelongs' /\ TimelineComplete' /\ LiveMissesNothing'
      /\ Rows' = Rows /\ Quiet' = Quiet
  BY <1>2, TimelineSame
<1>4. r \in List /\ Rows \in Seq(Row)
  BY <1>1, RowsTyped DEF TypeOK
<1>5. new \in List /\ new.number = r.number /\ new.rows = Rows
  BY <1>4 DEF List
<1>6. lists' = (lists \ {r}) \cup {new}
  BY DEF GetTraces
<1> HIDE DEF new
<1>7. lists' \subseteq List
  BY <1>1, <1>5, <1>6 DEF TypeOK
<1>8. TypeOK'
  BY <1>1, <1>2, <1>7 DEF TypeOK, serverVars, timelineVars
<1>9. ListInv'
  BY <1>1, <1>2, <1>3, <1>5, <1>6 DEF ListInv
<1>10. HistoryIsFresh'
  BY <1>2, <1>3 DEF IInv, HistoryIsFresh
<1> QED
  BY <1>3, <1>8, <1>9, <1>10 DEF IInv

LEMMA ListArrivesInvariant ==
  ASSUME IInv, NEW r \in lists, ListArrives(r)
  PROVE  IInv'
<1>1. TypeOK /\ ListInv
  BY DEF IInv
<1>2. UNCHANGED <<serverVars, socket, wire, timelineVars>>
      /\ asked' = asked /\ listed' = r.number /\ summaries' = r.rows /\ lists' = lists \ {r}
      /\ r.answered
  BY DEF ListArrives
<1>3. /\ BeforeOpen' /\ DetailInv' /\ ShownBelongs' /\ TimelineComplete' /\ LiveMissesNothing'
      /\ Rows' = Rows /\ Quiet' = Quiet
  BY <1>2, TimelineSame
<1>4. r \in List /\ r.number \in 1 .. asked /\ asked \in Nat
  BY <1>1 DEF TypeOK, ListInv
<1>5. r.rows \in Seq(Row) /\ r.number \in Nat
  BY <1>4 DEF List
<1>6. TypeOK'
  BY <1>1, <1>2, <1>5 DEF TypeOK, serverVars, timelineVars
<1>7. ListInv'
  BY <1>1, <1>2, <1>3, <1>4 DEF ListInv
<1>8. HistoryIsFresh'
  BY <1>1, <1>2, <1>3, <1>4 DEF HistoryIsFresh, ListInv
<1> QED
  BY <1>3, <1>6, <1>7, <1>8 DEF IInv

LEMMA ListFailsInvariant ==
  ASSUME IInv, NEW r \in lists, ListFails(r)
  PROVE  IInv'
<1>1. TypeOK /\ ListInv
  BY DEF IInv
<1>2. UNCHANGED <<serverVars, socket, wire, timelineVars>>
      /\ asked' = asked /\ listed' = listed /\ summaries' = summaries /\ lists' = lists \ {r}
  BY DEF ListFails
<1>3. /\ BeforeOpen' /\ DetailInv' /\ ShownBelongs' /\ TimelineComplete' /\ LiveMissesNothing'
      /\ Rows' = Rows /\ Quiet' = Quiet
  BY <1>2, TimelineSame
<1>4. TypeOK'
  BY <1>1, <1>2 DEF TypeOK, serverVars, timelineVars
<1>5. ListInv' /\ HistoryIsFresh'
  BY <1>1, <1>2, <1>3 DEF IInv, ListInv, HistoryIsFresh
<1> QED
  BY <1>3, <1>4, <1>5 DEF IInv

-------------------------------------------------------------------------------
(* The socket.                                                                   *)

LEMMA EnableInvariant ==
  ASSUME IInv, Enable
  PROVE  IInv'
<1>1. TypeOK /\ BeforeOpen /\ DetailInv /\ ListInv
  BY DEF IInv
<1>2. /\ socket = "none" /\ socket' = "connecting" /\ order' = order /\ stored' = stored
      /\ fresh' = fresh /\ posts' = posts /\ wire' = wire /\ active' = active /\ spans' = spans
      /\ spansByTrace' = spansByTrace /\ switches' = switches /\ shownFor' = shownFor
      /\ details' = details /\ picks' = picks /\ summaries' = summaries /\ listed' = listed
      /\ lists' = AskList /\ asked' = asked + 1
  BY DEF Enable, serverVars, timelineVars
<1>3. /\ lists' \subseteq List /\ asked' \in Nat
      /\ \A r \in lists' : r.number \in 1 .. asked' /\ (r.number = asked' => ~r.answered)
  BY <1>1, <1>2, AskListProperties
<1>4. TypeOK'
  BY <1>1, <1>2, <1>3 DEF TypeOK
<1>5. BeforeOpen'
  BY <1>1, <1>2 DEF BeforeOpen
<1>6. DetailInv'
  BY <1>1, <1>2 DEF DetailInv
<1>7. ListInv' /\ HistoryIsFresh'
  BY <1>1, <1>2, <1>3 DEF ListInv, HistoryIsFresh, Quiet, TypeOK
<1>8. ShownBelongs' /\ TimelineComplete' /\ LiveMissesNothing'
  BY <1>2 DEF IInv, ShownBelongs, TimelineComplete, LiveMissesNothing
<1> QED
  BY <1>4, <1>5, <1>6, <1>7, <1>8 DEF IInv

LEMMA SubscribeInvariant ==
  ASSUME IInv, Subscribe
  PROVE  IInv'
<1>1. TypeOK /\ BeforeOpen /\ DetailInv /\ ListInv
  BY DEF IInv
<1>2. /\ socket = "connecting" /\ socket' = "open" /\ order' = order /\ stored' = stored
      /\ fresh' = fresh /\ posts' = posts /\ wire' = wire /\ active' = active /\ spans' = spans
      /\ spansByTrace' = spansByTrace /\ switches' = switches /\ shownFor' = shownFor
      /\ details' = details /\ picks' = picks /\ summaries' = summaries /\ listed' = listed
      /\ lists' = lists /\ asked' = asked
  BY DEF Subscribe, serverVars, timelineVars, listVars
<1>3. wire' = <<>> /\ fresh' = {} /\ ~Quiet'
  BY <1>1, <1>2 DEF BeforeOpen, Quiet
<1>4. TypeOK'
  BY <1>1, <1>2 DEF TypeOK
<1>5. BeforeOpen'
  BY <1>2 DEF BeforeOpen
<1>6. DetailInv'
  BY <1>1, <1>2, <1>3 DEF DetailInv
<1>7. ListInv' /\ HistoryIsFresh'
  BY <1>1, <1>2, <1>3 DEF ListInv, HistoryIsFresh
<1>8. ShownBelongs' /\ TimelineComplete' /\ LiveMissesNothing'
  BY <1>2, <1>3 DEF IInv, ShownBelongs, TimelineComplete, LiveMissesNothing
<1> QED
  BY <1>4, <1>5, <1>6, <1>7, <1>8 DEF IInv

LEMMA CloseInvariant ==
  ASSUME IInv, Close
  PROVE  IInv'
<1>1. TypeOK /\ BeforeOpen /\ DetailInv /\ ListInv
  BY DEF IInv
<1>2. /\ socket' = "closed" /\ order' = order /\ stored' = stored
      /\ fresh' = fresh /\ posts' = posts /\ wire' = <<>> /\ active' = active /\ spans' = spans
      /\ spansByTrace' = spansByTrace /\ switches' = switches /\ shownFor' = shownFor
      /\ details' = details /\ picks' = picks /\ summaries' = summaries /\ listed' = listed
      /\ lists' = lists /\ asked' = asked
  BY DEF Close, serverVars, timelineVars, listVars
<1>3. TypeOK'
  BY <1>1, <1>2 DEF TypeOK
<1>4. BeforeOpen'
  BY <1>2 DEF BeforeOpen
<1>5. DetailInv'
  BY <1>1, <1>2 DEF DetailInv
<1>6. ListInv' /\ HistoryIsFresh'
  BY <1>1, <1>2 DEF ListInv, HistoryIsFresh, Quiet
<1>7. ShownBelongs' /\ TimelineComplete' /\ LiveMissesNothing'
  BY <1>2 DEF IInv, ShownBelongs, TimelineComplete, LiveMissesNothing
<1> QED
  BY <1>3, <1>4, <1>5, <1>6, <1>7 DEF IInv

LEMMA OnMessageInvariant ==
  ASSUME IInv, OnMessage
  PROVE  IInv'
<1> DEFINE m == Head(wire)
<1>1. TypeOK /\ BeforeOpen /\ DetailInv /\ ListInv
  BY DEF IInv
<1>2. wire \in Seq(Span) /\ wire # <<>> /\ wire' = Tail(wire)
  BY <1>1 DEF OnMessage, TypeOK
<1>3. m \in Span /\ wire' \in Seq(Span)
  BY <1>2, HeadTailProperties
<1>4. m.trace \in Trace /\ m.id \in SpanId
  BY <1>3 DEF Span
<1>5. \A u \in Trace :
        InFlight(u) \subseteq InFlight(u)' \cup (IF m.trace = u THEN {m.id} ELSE {})
  BY <1>2, InFlightTail
<1>6. /\ spansByTrace' = [spansByTrace EXCEPT ![m.trace] = spansByTrace[m.trace] \cup {m.id}]
      /\ active' = m.trace
      /\ spans' = SpansOf(m.trace, spansByTrace[m.trace] \cup {m.id})
  BY DEF OnMessage, Timeline, Received
<1>7. /\ switches' = switches + 1 /\ shownFor' = switches + 1
      /\ lists' = AskList /\ asked' = asked + 1
      /\ order' = order /\ stored' = stored /\ fresh' = fresh /\ posts' = posts
      /\ socket' = socket /\ details' = details /\ picks' = picks
      /\ summaries' = summaries /\ listed' = listed
  BY DEF OnMessage, serverVars
<1> HIDE DEF m
<1>8. /\ lists' \subseteq List /\ asked' \in Nat
      /\ \A r \in lists' : r.number \in 1 .. asked' /\ (r.number = asked' => ~r.answered)
  BY <1>1, <1>7, AskListProperties
<1>9. /\ spansByTrace' \in [Trace -> SUBSET SpanId]
      /\ spansByTrace'[m.trace] = spansByTrace[m.trace] \cup {m.id}
      /\ \A u \in Trace : u # m.trace => spansByTrace'[u] = spansByTrace[u]
  BY <1>1, <1>4, <1>6 DEF TypeOK
<1>10. spans' \subseteq Span
  BY <1>1, <1>4, <1>6 DEF TypeOK, Span, SpansOf
<1>11. TypeOK'
  <2>1. switches' \in Nat /\ shownFor' \in Nat /\ active' \in Trace \cup {NoTrace}
    BY <1>1, <1>4, <1>6, <1>7 DEF TypeOK
  <2>2. spansByTrace' \in [Trace -> SUBSET SpanId]
    BY <1>9
  <2> QED
    BY <1>1, <1>3, <1>7, <1>8, <1>10, <2>1, <2>2 DEF TypeOK
<1>12. socket \in {"open", "closed"}
  BY <1>1, <1>2 DEF TypeOK, BeforeOpen
<1>13. BeforeOpen'
  BY <1>7, <1>12 DEF BeforeOpen
<1>14. DetailInv'
  <2>1. switches \in Nat /\ \A r \in details : r.switch \in 1 .. switches
    BY <1>1 DEF DetailInv, TypeOK
  <2>2. \A r \in details' : r.switch \in 1 .. switches' /\ r.switch # switches'
    BY <1>7, <2>1
  <2> QED
    BY <1>7, <2>1, <2>2 DEF DetailInv
<1>15. ListInv' /\ HistoryIsFresh'
  <2>1. asked \in Nat /\ listed \in 0 .. asked
    BY <1>1 DEF ListInv, TypeOK
  <2> QED
    BY <1>7, <1>8, <2>1 DEF ListInv, HistoryIsFresh
<1>16. ShownBelongs'
  BY <1>6 DEF ShownBelongs, SpansOf
<1>17. ASSUME socket = "open", NEW u \in fresh'
       PROVE  stored'[u] \subseteq spansByTrace'[u] \cup InFlight(u)'
  <2>1. u \in Trace /\ u \in fresh
    BY <1>1, <1>7, <1>17 DEF TypeOK
  <2>2. stored[u] \subseteq spansByTrace[u] \cup InFlight(u)
    BY <1>17, <2>1 DEF IInv, LiveMissesNothing
  <2> QED
    BY <1>5, <1>7, <1>9, <2>1, <2>2
<1>18. LiveMissesNothing'
  BY <1>7, <1>17 DEF LiveMissesNothing
<1>19. TimelineComplete'
  <2>1. SUFFICES ASSUME socket = "open", NEW u \in fresh', u = active'
                 PROVE  SpansOf(u, stored'[u] \ InFlight(u)') \subseteq spans'
    BY <1>7, Zenon DEF TimelineComplete, SpansOf, InFlight
  <2>2. stored'[u] \ InFlight(u)' \subseteq spansByTrace[m.trace] \cup {m.id}
    BY <1>6, <1>9, <1>17, <2>1
  <2> QED
    BY <1>6, <2>1, <2>2 DEF SpansOf
<1> QED
  BY <1>11, <1>13, <1>14, <1>15, <1>16, <1>18, <1>19 DEF IInv

-------------------------------------------------------------------------------
(* The selection of a trace.                                                     *)

LEMMA SelectTraceInvariant ==
  ASSUME IInv, NEW t \in Trace, SelectTrace(t)
  PROVE  IInv'
<1> DEFINE new == [switch |-> switches + 1, trace |-> t, answered |-> FALSE, ids |-> {}]
<1>1. TypeOK /\ BeforeOpen /\ DetailInv /\ ListInv
  BY DEF IInv
<1>2. /\ order' = order /\ stored' = stored /\ fresh' = fresh /\ posts' = posts
      /\ socket' = socket /\ wire' = wire /\ spans' = spans /\ spansByTrace' = spansByTrace
      /\ shownFor' = shownFor /\ active' = t /\ switches' = switches + 1
      /\ UNCHANGED listVars
      /\ picks < MaxPicks /\ picks' = picks + 1
  BY DEF SelectTrace, serverVars
<1>3. details' = details \cup {new}
  BY DEF SelectTrace
<1>4. switches \in Nat
  BY <1>1 DEF TypeOK
<1>5. new \in Detail /\ new.switch = switches + 1 /\ new.trace = t /\ new.answered = FALSE
  BY <1>4 DEF Detail
<1> HIDE DEF new
<1>6. details' \subseteq Detail /\ switches' \in Nat /\ picks' \in 0 .. MaxPicks
  BY <1>1, <1>2, <1>3, <1>4, <1>5, StreamAssumption DEF TypeOK
<1>7. TypeOK'
  BY <1>1, <1>2, <1>6 DEF TypeOK, listVars
<1>8. BeforeOpen'
  BY <1>1, <1>2 DEF BeforeOpen
<1>9. ListInv' /\ HistoryIsFresh'
  BY <1>2, ListsSame
<1>10. DetailInv'
  <2>1. /\ shownFor \in 0 .. switches
        /\ \A r \in details : r.switch \in 1 .. switches
    BY <1>1 DEF DetailInv
  <2>2. \A r \in details' :
          /\ r.switch \in 1 .. switches'
          /\ r.switch = switches' => r.trace = active' /\ ~r.answered
    BY <1>2, <1>3, <1>4, <1>5, <2>1
  <2> QED
    BY <1>2, <1>4, <2>1, <2>2 DEF DetailInv
<1>11. shownFor' # switches'
  BY <1>1, <1>2, <1>4 DEF DetailInv
<1>12. ShownBelongs' /\ TimelineComplete'
  BY <1>11 DEF ShownBelongs, TimelineComplete
<1>13. LiveMissesNothing'
  BY <1>2 DEF IInv, LiveMissesNothing, InFlight
<1> QED
  BY <1>7, <1>8, <1>9, <1>10, <1>12, <1>13 DEF IInv

LEMMA GetTraceInvariant ==
  ASSUME IInv, NEW r \in details, GetTrace(r)
  PROVE  IInv'
<1> DEFINE new == [r EXCEPT !.answered = TRUE, !.ids = stored[r.trace]]
<1>1. TypeOK /\ BeforeOpen /\ DetailInv /\ ListInv
  BY DEF IInv
<1>2. /\ order' = order /\ stored' = stored /\ fresh' = fresh /\ posts' = posts
      /\ socket' = socket /\ wire' = wire /\ spans' = spans /\ spansByTrace' = spansByTrace
      /\ shownFor' = shownFor /\ active' = active /\ switches' = switches /\ picks' = picks
      /\ UNCHANGED listVars
  BY DEF GetTrace, serverVars
<1>3. details' = (details \ {r}) \cup {new}
  BY DEF GetTrace
<1>4. r \in Detail /\ r.trace \in Trace /\ stored[r.trace] \subseteq SpanId
  BY <1>1 DEF TypeOK, Detail
<1>5. /\ new \in Detail /\ new.switch = r.switch /\ new.trace = r.trace
      /\ new.ids = stored[r.trace]
  BY <1>4 DEF Detail
<1> HIDE DEF new
<1>6. TypeOK'
  <2>1. details' \subseteq Detail
    BY <1>1, <1>3, <1>5 DEF TypeOK
  <2> QED
    BY <1>1, <1>2, <2>1 DEF TypeOK, listVars
<1>7. BeforeOpen'
  BY <1>1, <1>2 DEF BeforeOpen
<1>8. ListInv' /\ HistoryIsFresh'
  BY <1>2, ListsSame
<1>9. DetailInv'
  <2>1. \A u : InFlight(u)' = InFlight(u)
    BY <1>2, InFlightSame
  <2>2. shownFor' \in 0 .. switches'
    BY <1>1, <1>2 DEF DetailInv
  <2>3. ASSUME NEW q \in details'
        PROVE  /\ q.switch \in 1 .. switches'
               /\ q.switch = switches' => q.trace = active'
               /\ (socket' = "open" /\ q.switch = switches' /\ q.answered /\ q.trace \in fresh')
                    => stored'[q.trace] \subseteq q.ids \cup InFlight(q.trace)
    <3>1. CASE q = new
      BY <1>1, <1>2, <1>5, <3>1 DEF DetailInv
    <3>2. CASE q # new
      <4>1. q \in details
        BY <1>3, <3>2
      <4> QED
        BY <1>1, <1>2, <4>1 DEF DetailInv
    <3> QED
      BY <3>1, <3>2
  <2> QED
    BY <1>2, <2>2, <2>3 DEF DetailInv, InFlight
<1>10. ShownBelongs'
  BY <1>2 DEF IInv, ShownBelongs
<1>11. TimelineComplete' /\ LiveMissesNothing'
  BY <1>2 DEF IInv, TimelineComplete, LiveMissesNothing, InFlight, SpansOf
<1> QED
  BY <1>6, <1>7, <1>8, <1>9, <1>10, <1>11 DEF IInv

LEMMA DetailArrivesInvariant ==
  ASSUME IInv, NEW r \in details, DetailArrives(r)
  PROVE  IInv'
<1>1. TypeOK /\ BeforeOpen /\ DetailInv /\ ListInv
  BY DEF IInv
<1>2. /\ order' = order /\ stored' = stored /\ fresh' = fresh /\ posts' = posts
      /\ socket' = socket /\ wire' = wire /\ spans' = SpansOf(r.trace, r.ids)
      /\ spansByTrace' = spansByTrace /\ details' = details \ {r} /\ r.answered
      /\ shownFor' = r.switch /\ active' = active /\ switches' = switches /\ picks' = picks
      /\ UNCHANGED listVars
  BY DEF DetailArrives, serverVars
<1>3. r \in Detail /\ r.trace \in Trace /\ r.ids \subseteq SpanId /\ r.switch \in Nat
  BY <1>1 DEF TypeOK, Detail
<1>4. TypeOK'
  <2>1. spans' \subseteq Span /\ details' \subseteq Detail
    BY <1>1, <1>2, <1>3 DEF TypeOK, Span, SpansOf
  <2> QED
    BY <1>1, <1>2, <1>3, <2>1 DEF TypeOK, listVars
<1>5. BeforeOpen'
  BY <1>1, <1>2 DEF BeforeOpen
<1>6. ListInv' /\ HistoryIsFresh'
  BY <1>2, ListsSame
<1>7. /\ r.switch \in 1 .. switches /\ switches \in Nat
      /\ r.switch = switches => r.trace = active
      /\ (socket = "open" /\ r.switch = switches /\ r.trace \in fresh) =>
           stored[r.trace] \subseteq r.ids \cup InFlight(r.trace)
  BY <1>1, <1>2 DEF DetailInv, TypeOK
<1>8. DetailInv'
  BY <1>1, <1>2, <1>7 DEF DetailInv, InFlight
<1>9. ShownBelongs'
  BY <1>2, <1>7 DEF ShownBelongs, SpansOf
<1>10. TimelineComplete'
  <2>1. SUFFICES ASSUME socket = "open", active \in fresh, r.switch = switches
                 PROVE  SpansOf(active, stored[active] \ InFlight(active)) \subseteq spans'
    BY <1>2, Zenon DEF TimelineComplete, SpansOf, InFlight
  <2>2. stored[active] \ InFlight(active) \subseteq r.ids /\ r.trace = active
    BY <1>7, <2>1
  <2> QED
    BY <1>2, <2>2 DEF SpansOf
<1>11. LiveMissesNothing'
  BY <1>2 DEF IInv, LiveMissesNothing, InFlight
<1> QED
  BY <1>4, <1>5, <1>6, <1>8, <1>9, <1>10, <1>11 DEF IInv

LEMMA DetailFailsInvariant ==
  ASSUME IInv, NEW r \in details, DetailFails(r)
  PROVE  IInv'
<1>1. TypeOK /\ BeforeOpen /\ DetailInv /\ ListInv
  BY DEF IInv
<1>2. /\ order' = order /\ stored' = stored /\ fresh' = fresh /\ posts' = posts
      /\ socket' = socket /\ wire' = wire /\ spans' = {}
      /\ spansByTrace' = spansByTrace /\ details' = details \ {r}
      /\ shownFor' = 0 /\ active' = active /\ switches' = switches /\ picks' = picks
      /\ UNCHANGED listVars
  BY DEF DetailFails, serverVars
<1>3. r.switch \in 1 .. switches /\ switches \in Nat
  BY <1>1 DEF DetailInv, TypeOK
<1>4. TypeOK'
  BY <1>1, <1>2 DEF TypeOK, listVars
<1>5. BeforeOpen'
  BY <1>1, <1>2 DEF BeforeOpen
<1>6. ListInv' /\ HistoryIsFresh'
  BY <1>2, ListsSame
<1>7. DetailInv'
  BY <1>1, <1>2, <1>3 DEF DetailInv, InFlight
<1>8. shownFor' # switches'
  BY <1>2, <1>3
<1>9. ShownBelongs' /\ TimelineComplete'
  BY <1>8 DEF ShownBelongs, TimelineComplete
<1>10. LiveMissesNothing'
  BY <1>2 DEF IInv, LiveMissesNothing, InFlight
<1> QED
  BY <1>4, <1>5, <1>6, <1>7, <1>9, <1>10 DEF IInv

-------------------------------------------------------------------------------
LEMMA NextInvariant == IInv /\ [Next]_vars => IInv'
<1> SUFFICES ASSUME IInv, [Next]_vars PROVE IInv'
  OBVIOUS
<1>1. CASE \E t \in Trace, id \in SpanId : IngestNew(t, id) \/ IngestKnown(t, id)
  BY <1>1, IngestNewInvariant, IngestKnownInvariant
<1>2. CASE Enable \/ Subscribe \/ Close \/ OnMessage
  BY <1>2, EnableInvariant, SubscribeInvariant, CloseInvariant, OnMessageInvariant
<1>3. CASE \E t \in Trace : SelectTrace(t)
  BY <1>3, SelectTraceInvariant
<1>4. CASE \E r \in details : GetTrace(r) \/ DetailArrives(r) \/ DetailFails(r)
  BY <1>4, GetTraceInvariant, DetailArrivesInvariant, DetailFailsInvariant
<1>5. CASE \E r \in lists : GetTraces(r) \/ ListArrives(r) \/ ListFails(r)
  BY <1>5, GetTracesInvariant, ListArrivesInvariant, ListFailsInvariant
<1>6. CASE UNCHANGED vars
  BY <1>6, StutterInvariant
<1> QED
  BY <1>1, <1>2, <1>3, <1>4, <1>5, <1>6 DEF Next

LEMMA StreamInvariant == Spec => []IInv
<1>1. Init => IInv
  BY InitInvariant
<1>2. IInv /\ [Next]_vars => IInv'
  BY NextInvariant
<1> QED
  BY <1>1, <1>2, PTL DEF Spec

\* In every interleaving of messages, answers, failures, evictions and clicks: if what is shown
\* answers the latest switch of the active trace, and that trace began under the page's socket,
\* none of its spans that have arrived is missing.  When the answer to an older click has come
\* last, of the same trace or another, nothing is claimed.
THEOREM StreamSafe == Spec => [](TypeOK /\ TimelineComplete)
<1>1. IInv => TypeOK /\ TimelineComplete
  BY DEF IInv
<1> QED
  BY StreamInvariant, <1>1, PTL

\* What the latest switch to a trace brought to the timeline is never mixed with another trace,
\* whichever messages and late answers come after it.
THEOREM OneTraceShown == Spec => []ShownBelongs
<1>1. IInv => ShownBelongs
  BY DEF IInv
<1> QED
  BY StreamInvariant, <1>1, PTL

\* Of a trace that began under the page's socket, every span the server holds is in the page's
\* Map or on its way, evicted and begun again meanwhile or not.
THEOREM MessagesKept == Spec => []LiveMissesNothing
<1>1. IInv => LiveMissesNothing
  BY DEF IInv
<1> QED
  BY StreamInvariant, <1>1, PTL

\* When no message is on its way and the newest list asked for is the one shown, the history
\* is the server's.  An older list that was answered last is not the one meant: the page shows
\* it until the next message.
THEOREM ListStaysFresh == Spec => []HistoryIsFresh
<1>1. IInv => HistoryIsFresh
  BY DEF IInv
<1> QED
  BY StreamInvariant, <1>1, PTL
===============================================================================
