--------------------------- MODULE TraceStore_proofs ----------------------------
(***************************************************************************)
(* What is proved of the trace store, for every set of traces, span ids    *)
(* and clients and for every limit: its list and its map agree, a span     *)
(* delivered again is stored once, eviction keeps the latest traces, and   *)
(* what a connected client was sent covers what the store has.             *)
(***************************************************************************)
EXTENDS TraceStore, SequenceTheorems, TLAPS

IInv == TypeOK /\ StoreConsistent /\ NoSpanTwice /\ KeepsTheLatest

-------------------------------------------------------------------------------
(* A new trace: the list moves one place and loses its last entry at the limit.  *)

\* How many entries of the list stay.
Kept == IF Len(order) = MaxTraces THEN MaxTraces - 1 ELSE Len(order)

LEMMA UnshiftedProperties ==
  ASSUME IInv, NEW t \in Trace
  PROVE  /\ Kept \in Nat /\ Kept <= Len(order) /\ Kept + 1 <= MaxTraces
         /\ Unshifted(t) \in Seq(Trace)
         /\ Len(Unshifted(t)) = Kept + 1
         /\ Unshifted(t)[1] = t
         /\ \A i \in 1 .. Kept : Unshifted(t)[i + 1] = order[i]
<1>1. /\ order \in Seq(Trace) /\ Len(order) \in Nat /\ Len(order) <= MaxTraces
      /\ MaxTraces \in Nat \ {0}
  BY StoreAssumption DEF IInv, TypeOK, StoreConsistent
<1>2. /\ Kept \in Nat /\ Kept <= Len(order) /\ Kept + 1 <= MaxTraces
  BY <1>1 DEF Kept
<1> DEFINE rest == SubSeq(order, 1, Kept)
<1>3. Unshifted(t) = <<t>> \o rest
  BY <1>1 DEF Unshifted, Overflow, Kept
<1>4. /\ rest \in Seq(Trace) /\ Len(rest) = Kept
      /\ \A i \in 1 .. Kept : rest[i] = order[i]
  BY <1>1, <1>2, SubSeqProperties
<1> HIDE DEF rest
<1>5. <<t>> \in Seq(Trace) /\ Len(<<t>>) = 1 /\ <<t>>[1] = t
  OBVIOUS
<1>6. /\ <<t>> \o rest \in Seq(Trace)
      /\ Len(<<t>> \o rest) = 1 + Len(rest)
      /\ \A i \in 1 .. 1 + Len(rest) :
           (<<t>> \o rest)[i] = IF i <= 1 THEN <<t>>[i] ELSE rest[i - 1]
  BY <1>4, <1>5, ConcatProperties
<1>7. (<<t>> \o rest)[1] = t
  BY <1>2, <1>4, <1>5, <1>6
<1>8. \A i \in 1 .. Kept : (<<t>> \o rest)[i + 1] = order[i]
  BY <1>2, <1>4, <1>6
<1> QED
  BY <1>2, <1>3, <1>4, <1>6, <1>7, <1>8

\* Which traces are listed after a new one came: the new one and the entries that stay.
LEMMA ListedAfterNew ==
  ASSUME IInv, NEW t \in Trace, t \notin Listed, order' = Unshifted(t)
  PROVE  /\ Listed' = {t} \cup (Listed \ Overflow)
         /\ Listed \ Overflow = {order[i] : i \in 1 .. Kept}
<1>1. /\ Kept \in Nat /\ Kept <= Len(order) /\ Kept + 1 <= MaxTraces
      /\ order' \in Seq(Trace)
      /\ Len(order') = Kept + 1
      /\ order'[1] = t
      /\ \A i \in 1 .. Kept : order'[i + 1] = order[i]
  BY UnshiftedProperties
<1>2. /\ order \in Seq(Trace) /\ Len(order) \in Nat /\ Len(order) <= MaxTraces
      /\ MaxTraces \in Nat \ {0}
      /\ \A i, j \in 1 .. Len(order) : order[i] = order[j] => i = j
      /\ Listed = {order[i] : i \in 1 .. Len(order)}
  BY StoreAssumption DEF IInv, TypeOK, StoreConsistent, Listed
<1>3. Listed \ Overflow = {order[i] : i \in 1 .. Kept}
  <2>1. CASE Len(order) = MaxTraces
    <3>1. Overflow = {order[MaxTraces]} /\ Kept = MaxTraces - 1
      BY <2>1 DEF Overflow, Kept
    <3>2. \A i \in 1 .. MaxTraces - 1 : order[i] # order[MaxTraces]
      BY <1>2, <2>1
    <3>3. 1 .. MaxTraces = (1 .. MaxTraces - 1) \cup {MaxTraces}
      BY <1>2
    <3> QED
      BY <1>2, <2>1, <3>1, <3>2, <3>3
  <2>2. CASE Len(order) # MaxTraces
    BY <1>2, <2>2 DEF Overflow, Kept
  <2> QED
    BY <2>1, <2>2
<1>4. Listed' = {order'[i] : i \in 1 .. Kept + 1}
  BY <1>1 DEF Listed
<1>5. ASSUME NEW x \in Listed' PROVE x = t \/ x \in {order[i] : i \in 1 .. Kept}
  <2>1. PICK i \in 1 .. Kept + 1 : x = order'[i]
    BY <1>4
  <2>2. CASE i = 1
    BY <1>1, <2>1, <2>2
  <2>3. CASE i # 1
    <3>1. i - 1 \in 1 .. Kept /\ (i - 1) + 1 = i
      BY <1>1, <2>1, <2>3
    <3>2. x = order[i - 1]
      BY <1>1, <2>1, <3>1
    <3> QED
      BY <3>1, <3>2
  <2> QED
    BY <2>2, <2>3
<1>6. t \in Listed'
  <2>1. 1 \in 1 .. Kept + 1
    BY <1>1
  <2> QED
    BY <1>1, <1>4, <2>1
<1>7. ASSUME NEW i \in 1 .. Kept PROVE order[i] \in Listed'
  <2>1. i + 1 \in 1 .. Kept + 1
    BY <1>1
  <2> QED
    BY <1>1, <1>4, <2>1
<1> QED
  BY <1>3, <1>5, <1>6, <1>7

LEMMA HeadTailOf ==
  ASSUME NEW S, NEW q \in Seq(S), q # <<>>
  PROVE  Head(q) \in S /\ Tail(q) \in Seq(S)
BY HeadTailProperties

\* A bucket with one entry per span id keeps it so, whatever span comes.
LEMMA UpsertProperties ==
  ASSUME NEW b \in Seq(StoredSpan), NEW s \in StoredSpan,
         \A i, j \in DOMAIN b : b[i].id = b[j].id => i = j
  PROVE  /\ Upsert(b, s) \in Seq(StoredSpan)
         /\ b # <<>> => Upsert(b, s) # <<>>
         /\ \A i, j \in DOMAIN Upsert(b, s) :
              Upsert(b, s)[i].id = Upsert(b, s)[j].id => i = j
<1> DEFINE hits == {i \in DOMAIN b : b[i].id = s.id}
<1>1. Len(b) \in Nat /\ DOMAIN b = 1 .. Len(b)
  OBVIOUS
<1>2. CASE hits = {}
  <2>1. Upsert(b, s) = Append(b, s)
    BY <1>2 DEF Upsert
  <2> DEFINE a == Append(b, s)
  <2>2. /\ a \in Seq(StoredSpan) /\ Len(a) = Len(b) + 1
        /\ DOMAIN a = 1 .. Len(b) + 1
        /\ \A i \in 1 .. Len(b) : a[i] = b[i]
        /\ a[Len(b) + 1] = s
    BY <1>1, AppendProperties
  <2> HIDE DEF a
  <2>3. ASSUME NEW i \in DOMAIN a, NEW j \in DOMAIN a, a[i].id = a[j].id
        PROVE  i = j
    <3>1. \A k \in 1 .. Len(b) : b[k].id # s.id
      BY <1>1, <1>2
    <3>2. CASE i = Len(b) + 1 /\ j = Len(b) + 1
      BY <3>2
    <3>3. CASE i = Len(b) + 1 /\ j \in 1 .. Len(b)
      BY <2>2, <2>3, <3>1, <3>3
    <3>4. CASE i \in 1 .. Len(b) /\ j = Len(b) + 1
      BY <2>2, <2>3, <3>1, <3>4
    <3>5. CASE i \in 1 .. Len(b) /\ j \in 1 .. Len(b)
      BY <1>1, <2>2, <2>3, <3>5
    <3> QED
      BY <1>1, <2>2, <3>2, <3>3, <3>4, <3>5
  <2>4. a # <<>>
    BY <1>1, <2>2, EmptySeq
  <2> QED
    BY <2>1, <2>2, <2>3, <2>4 DEF a
<1>3. CASE hits # {}
  <2> DEFINE k == CHOOSE i \in hits : \A j \in hits : i <= j
  <2>1. Upsert(b, s) = [b EXCEPT ![k] = s]
    BY <1>3 DEF Upsert
  <2>2. k \in hits
    <3>1. PICK i \in hits : TRUE
      BY <1>3
    <3>2. \A j \in hits : i = j /\ i <= j
      BY <1>1, <3>1
    <3> QED
      BY <3>1, <3>2
  <2> HIDE DEF k
  <2> DEFINE u == [b EXCEPT ![k] = s]
  <2>3. /\ k \in 1 .. Len(b) /\ b[k].id = s.id
        /\ u \in Seq(StoredSpan) /\ Len(u) = Len(b) /\ DOMAIN u = 1 .. Len(b)
        /\ \A i \in 1 .. Len(b) : u[i] = IF i = k THEN s ELSE b[i]
    BY <1>1, <2>2, ExceptSeq
  <2> HIDE DEF u
  <2>4. \A i \in 1 .. Len(b) : u[i].id = b[i].id
    BY <2>3
  <2>5. \A i, j \in DOMAIN u : u[i].id = u[j].id => i = j
    BY <1>1, <2>3, <2>4
  <2>6. b # <<>> => u # <<>>
    BY <1>1, <2>3
  <2> QED
    BY <2>1, <2>3, <2>5, <2>6 DEF u
<1> QED
  BY <1>2, <1>3

-------------------------------------------------------------------------------
LEMMA InitInv == Init => IInv
<1> SUFFICES ASSUME Init PROVE IInv
  OBVIOUS
<1> USE StoreAssumption DEF Init
<1>1. <<>> \in Seq(Trace) /\ <<>> \in Seq(StoredSpan) /\ Len(<<>>) = 0 /\ DOMAIN <<>> = {}
  BY EmptySeq
<1>2. view \in [Client -> [Trace \X SpanId -> GraphVersion \cup {Nothing}]]
  BY DEF NoView
<1>3. bucket \in [Trace -> Seq(StoredSpan)]
  BY <1>1
<1>4. /\ firstSeen \in [Trace -> 0 .. clock]
      /\ joined \in [Client -> 0 .. clock]
  OBVIOUS
<1>5. graph \in GraphVersion /\ posts \in 0 .. MaxPosts
  BY DEF GraphVersion
<1>6. TypeOK
  <2>1. order \in Seq(Trace) /\ Len(order) <= MaxTraces
    BY <1>1
  <2> QED
    BY <1>1, <1>2, <1>3, <1>4, <1>5, <2>1 DEF TypeOK
<1>7. StoreConsistent
  BY <1>1 DEF StoreConsistent, Listed
<1>8. NoSpanTwice
  BY <1>1 DEF NoSpanTwice
<1>9. KeepsTheLatest
  BY <1>1 DEF KeepsTheLatest, Listed
<1> QED
  BY <1>6, <1>7, <1>8, <1>9 DEF IInv

\* A step that leaves the store alone keeps what is true of it.
LEMMA StoreUntouched ==
  ASSUME IInv, UNCHANGED storeVars
  PROVE  StoreConsistent' /\ NoSpanTwice' /\ KeepsTheLatest'
BY DEF IInv, storeVars, StoreConsistent, NoSpanTwice, KeepsTheLatest, Listed

LEMMA KnownInv ==
  ASSUME IInv, IngestKnown
  PROVE  IInv'
<1> DEFINE s == Head(todo)
<1>0. TypeOK /\ todo \in Seq(StoredSpan) /\ todo # <<>>
  BY DEF IInv, IngestKnown, TypeOK
<1>1. /\ TypeOK /\ StoreConsistent /\ NoSpanTwice /\ KeepsTheLatest
      /\ s \in StoredSpan /\ s.trace \in Trace /\ Tail(todo) \in Seq(StoredSpan)
  <2>1. s \in StoredSpan /\ Tail(todo) \in Seq(StoredSpan)
    BY <1>0, HeadTailOf
  <2> HIDE DEF s
  <2>2. s.trace \in Trace
    BY <2>1 DEF StoredSpan
  <2> QED
    BY <2>1, <2>2 DEF IInv
<1> HIDE DEF s
<1>2. /\ bucket[s.trace] # <<>>
      /\ bucket' = [bucket EXCEPT ![s.trace] = Upsert(@, s)]
      /\ clock' = clock + 1 /\ todo' = Tail(todo)
      /\ UNCHANGED <<order, firstSeen, hubVars, graph, out, posts>>
  BY DEF IngestKnown, s
<1> DEFINE u == Upsert(bucket[s.trace], s)
<1>3. /\ u \in Seq(StoredSpan) /\ u # <<>>
      /\ \A i, j \in DOMAIN u : u[i].id = u[j].id => i = j
  BY <1>1, <1>2, UpsertProperties DEF TypeOK, NoSpanTwice
<1> HIDE DEF u
<1>4. /\ bucket' \in [Trace -> Seq(StoredSpan)]
      /\ \A t \in Trace : bucket'[t] = IF t = s.trace THEN u ELSE bucket[t]
  BY <1>1, <1>2, <1>3 DEF TypeOK, u
<1>5. firstSeen \in [Trace -> 0 .. clock'] /\ joined \in [Client -> 0 .. clock'] /\ clock' \in Nat
  BY <1>1, <1>2 DEF TypeOK
<1>6. TypeOK'
  BY <1>1, <1>2, <1>4, <1>5 DEF TypeOK, hubVars
<1>7. StoreConsistent'
  BY <1>1, <1>2, <1>3, <1>4 DEF StoreConsistent, Listed
<1>8. NoSpanTwice'
  BY <1>1, <1>3, <1>4 DEF NoSpanTwice
<1>9. KeepsTheLatest'
  BY <1>1, <1>2 DEF KeepsTheLatest, Listed
<1> QED
  BY <1>6, <1>7, <1>8, <1>9 DEF IInv

LEMMA NewInv ==
  ASSUME IInv, IngestNew
  PROVE  IInv'
<1> DEFINE s == Head(todo)
           t == s.trace
<1>0. TypeOK /\ todo \in Seq(StoredSpan) /\ todo # <<>>
  BY DEF IInv, IngestNew, TypeOK
<1>1. /\ TypeOK /\ StoreConsistent /\ NoSpanTwice /\ KeepsTheLatest
      /\ s \in StoredSpan /\ t \in Trace /\ Tail(todo) \in Seq(StoredSpan)
  <2>1. s \in StoredSpan /\ Tail(todo) \in Seq(StoredSpan)
    BY <1>0, HeadTailOf
  <2> HIDE DEF s
  <2>2. t \in Trace
    BY <2>1 DEF StoredSpan
  <2> QED
    BY <2>1, <2>2 DEF IInv
<1> HIDE DEF s
<1>14. /\ order \in Seq(Trace) /\ Len(order) \in Nat /\ DOMAIN order = 1 .. Len(order)
       /\ \A i, j \in 1 .. Len(order) : order[i] = order[j] => i = j
       /\ \A i \in 1 .. Len(order) : order[i] \in Listed /\ order[i] \in Trace
  BY <1>1 DEF TypeOK, StoreConsistent, Listed
<1>2. /\ bucket[t] = <<>>
      /\ bucket' = [Without(bucket, Overflow) EXCEPT ![t] = <<s>>]
      /\ order' = Unshifted(t)
      /\ firstSeen' = [firstSeen EXCEPT ![t] = clock + 1]
      /\ clock' = clock + 1 /\ todo' = Tail(todo)
      /\ UNCHANGED <<hubVars, graph, out, posts>>
  BY DEF IngestNew, s
<1> HIDE DEF t
<1>3. /\ <<s>> \in Seq(StoredSpan) /\ <<s>> # <<>> /\ <<>> \in Seq(StoredSpan)
      /\ DOMAIN <<s>> = {1} /\ DOMAIN <<>> = {}
  BY <1>1
<1>4. t \notin Listed
  BY <1>1, <1>2 DEF StoreConsistent
<1>5. /\ Kept \in Nat /\ Kept <= Len(order) /\ Kept + 1 <= MaxTraces
      /\ order' \in Seq(Trace) /\ Len(order') = Kept + 1
      /\ order'[1] = t
      /\ \A i \in 1 .. Kept : order'[i + 1] = order[i]
  BY <1>1, <1>2, UnshiftedProperties
<1>6. /\ Listed' = {t} \cup (Listed \ Overflow)
      /\ Listed \ Overflow = {order[i] : i \in 1 .. Kept}
  BY <1>1, <1>2, <1>4, ListedAfterNew
<1>7. /\ bucket' \in [Trace -> Seq(StoredSpan)]
      /\ \A x \in Trace : bucket'[x] = IF x = t THEN <<s>>
                                       ELSE IF x \in Overflow THEN <<>> ELSE bucket[x]
  BY <1>1, <1>2, <1>3 DEF TypeOK, Without
<1>8. /\ firstSeen' \in [Trace -> 0 .. clock'] /\ joined \in [Client -> 0 .. clock']
      /\ clock' \in Nat
      /\ firstSeen'[t] = clock + 1
      /\ \A x \in Trace : x # t => firstSeen'[x] = firstSeen[x] /\ firstSeen'[x] < clock + 1
  BY <1>1, <1>2 DEF TypeOK
<1>9. TypeOK'
  BY <1>1, <1>2, <1>5, <1>7, <1>8 DEF TypeOK, hubVars
<1>10. \A i \in 2 .. Kept + 1 : /\ i - 1 \in 1 .. Kept /\ i - 1 \in 1 .. Len(order)
                               /\ order'[i] = order[i - 1]
                               /\ order'[i] \in Listed /\ order'[i] # t
  <2>1. ASSUME NEW i \in 2 .. Kept + 1
        PROVE  /\ i - 1 \in 1 .. Kept /\ i - 1 \in 1 .. Len(order)
               /\ order'[i] = order[i - 1]
    <3>1. i - 1 \in 1 .. Kept /\ (i - 1) + 1 = i /\ i - 1 \in 1 .. Len(order)
      BY <1>5
    <3> QED
      BY <1>5, <3>1
  <2> QED
    BY <2>1, <1>4, <1>14
<1>11. StoreConsistent'
  <2>2. ASSUME NEW i \in 1 .. Kept + 1, NEW j \in 1 .. Kept + 1, order'[i] = order'[j]
        PROVE  i = j
    <3>1. CASE i = 1 \/ j = 1
      BY <1>5, <1>10, <2>2, <3>1
    <3>2. CASE i # 1 /\ j # 1
      <4>1. i \in 2 .. Kept + 1 /\ j \in 2 .. Kept + 1
        BY <1>5, <3>2
      <4>2. i - 1 = j - 1
        BY <1>10, <1>14, <2>2, <4>1
      <4> QED
        BY <4>1, <4>2
    <3> QED
      BY <3>1, <3>2
  <2>3. Listed' = {x \in Trace : bucket'[x] # <<>>}
    <3>1. Listed = {x \in Trace : bucket[x] # <<>>}
      BY <1>1 DEF StoreConsistent
    <3> QED
      BY <1>1, <1>3, <1>6, <1>7, <3>1
  <2>4. DOMAIN order' = 1 .. Kept + 1
    BY <1>5
  <2> QED
    BY <2>2, <2>3, <2>4 DEF StoreConsistent
<1>12. NoSpanTwice'
  BY <1>1, <1>3, <1>7 DEF NoSpanTwice
<1>13. KeepsTheLatest'
  <2>1. ASSUME NEW i \in 1 .. Kept + 1, NEW j \in 1 .. Kept + 1, i < j
        PROVE  firstSeen'[order'[i]] > firstSeen'[order'[j]]
    <3>1. j \in 2 .. Kept + 1
      BY <1>5, <2>1
    <3>2. /\ order'[j] \in Trace /\ order'[j] # t
      BY <1>1, <1>10, <3>1 DEF StoreConsistent
    <3>3. CASE i = 1
      BY <1>1, <1>5, <1>8, <3>2, <3>3 DEF TypeOK
    <3>4. CASE i # 1
      <4>1. i \in 2 .. Kept + 1
        BY <1>5, <3>4
      <4>2. order'[i] \in Trace /\ order'[i] # t
        BY <1>1, <1>10, <4>1 DEF StoreConsistent
      <4>3. i - 1 < j - 1
        BY <2>1, <3>1, <4>1
      <4>4. i - 1 \in DOMAIN order /\ j - 1 \in DOMAIN order
        BY <1>10, <1>14, <3>1, <4>1
      <4>5. firstSeen[order[i - 1]] > firstSeen[order[j - 1]]
        BY <1>1, <4>3, <4>4 DEF KeepsTheLatest
      <4> QED
        BY <1>8, <1>10, <3>1, <3>2, <4>1, <4>2, <4>5
    <3> QED
      BY <3>3, <3>4
  <2>2. ASSUME NEW x \in Listed', NEW y \in Trace \ Listed'
        PROVE  firstSeen'[y] < firstSeen'[x]
    <3>1. y # t /\ firstSeen'[y] = firstSeen[y] /\ firstSeen[y] < clock + 1
      BY <1>6, <1>8, <2>2
    <3>2. CASE x = t
      BY <1>8, <3>1, <3>2
    <3>3. CASE x # t
      <4>1. PICK i \in 1 .. Kept : x = order[i]
        BY <1>6, <2>2, <3>3
      <4>2. /\ x \in Listed /\ x \in Trace /\ firstSeen'[x] = firstSeen[x]
            /\ i \in DOMAIN order
        <5>1. i \in 1 .. Len(order)
          BY <1>5, <1>14
        <5> QED
          BY <1>8, <1>14, <3>3, <4>1, <5>1
      <4>3. CASE y \in Listed
        <5>1. y \in Overflow
          BY <1>6, <2>2, <4>3
        <5>2. Len(order) = MaxTraces /\ y = order[MaxTraces] /\ Kept = MaxTraces - 1
          BY <5>1 DEF Overflow, Kept
        <5>3. i < MaxTraces /\ MaxTraces \in DOMAIN order
          BY <1>1, <1>5, <5>2, StoreAssumption DEF TypeOK
        <5> QED
          BY <1>1, <3>1, <4>1, <4>2, <5>2, <5>3 DEF KeepsTheLatest
      <4>4. CASE y \notin Listed
        BY <1>1, <3>1, <4>2, <4>4 DEF KeepsTheLatest
      <4> QED
        BY <4>3, <4>4
    <3> QED
      BY <3>2, <3>3
  <2>3. DOMAIN order' = 1 .. Kept + 1
    BY <1>5
  <2> QED
    BY <2>1, <2>2, <2>3 DEF KeepsTheLatest
<1> QED
  BY <1>9, <1>11, <1>12, <1>13 DEF IInv

LEMMA OtherSteps ==
  ASSUME IInv,
         \/ \E spans \in Batches : PostSpans(spans)
         \/ Publish \/ PostGraph
         \/ \E c \in Client : Subscribe(c) \/ Unsubscribe(c)
         \/ UNCHANGED vars
  PROVE  IInv'
<1>1. TypeOK
  BY DEF IInv
<1>2. SUFFICES TypeOK' /\ UNCHANGED storeVars
  BY StoreUntouched DEF IInv
<1> USE StoreAssumption DEF storeVars
<1>3. ASSUME NEW spans \in Batches, PostSpans(spans) PROVE TypeOK' /\ UNCHANGED storeVars
  <2>1. PICK n \in 1 .. MaxBatch : spans \in [1 .. n -> [trace : Trace, id : SpanId, graph : {graph}]]
    BY DEF Batches
  <2>2. [trace : Trace, id : SpanId, graph : {graph}] \subseteq StoredSpan
    BY <1>1 DEF StoredSpan, TypeOK
  <2>3. n \in Nat /\ spans \in [1 .. n -> StoredSpan]
    BY <2>1, <2>2
  <2>4. todo' \in Seq(StoredSpan) /\ out' \in Seq(StoredSpan)
    BY <1>3, <2>3 DEF PostSpans
  <2>5. posts' \in 0 .. MaxPosts
    BY <1>1, <1>3 DEF PostSpans, TypeOK
  <2> QED
    BY <1>1, <1>3, <2>4, <2>5 DEF PostSpans, TypeOK, hubVars
<1>4. CASE Publish
  <2> DEFINE s == Head(out)
  <2>1. /\ s \in StoredSpan /\ Tail(out) \in Seq(StoredSpan)
    BY <1>1, <1>4, HeadTailOf DEF Publish, TypeOK
  <2>2. <<s.trace, s.id>> \in Trace \X SpanId /\ s.graph \in GraphVersion
    BY <2>1 DEF StoredSpan
  <2>3. view' \in [Client -> [Trace \X SpanId -> GraphVersion \cup {Nothing}]]
    BY <1>1, <1>4, <2>2 DEF Publish, TypeOK
  <2> QED
    BY <1>1, <1>4, <2>1, <2>3 DEF Publish, TypeOK
<1>5. CASE PostGraph
  <2>1. graph' \in GraphVersion
    BY <1>1, <1>5 DEF PostGraph, TypeOK, GraphVersion
  <2> QED
    BY <1>1, <1>5, <2>1 DEF PostGraph, TypeOK, hubVars
<1>6. ASSUME NEW c \in Client, Subscribe(c) PROVE TypeOK' /\ UNCHANGED storeVars
  <2> DEFINE Views == [Trace \X SpanId -> GraphVersion \cup {Nothing}]
  <2>1. NoView \in Views /\ view \in [Client -> Views]
    BY <1>1 DEF NoView, TypeOK
  <2> HIDE DEF Views
  <2>2. view' \in [Client -> Views]
    BY <1>6, <2>1 DEF Subscribe
  <2>3. joined' \in [Client -> 0 .. clock]
    BY <1>1, <1>6 DEF Subscribe, TypeOK
  <2> QED
    BY <1>1, <1>6, <2>2, <2>3 DEF Subscribe, TypeOK, Views
<1>7. ASSUME NEW c \in Client, Unsubscribe(c) PROVE TypeOK' /\ UNCHANGED storeVars
  BY <1>1, <1>7 DEF Unsubscribe, TypeOK
<1>8. CASE UNCHANGED vars
  BY <1>1, <1>8 DEF vars, TypeOK, hubVars
<1> QED
  BY <1>3, <1>4, <1>5, <1>6, <1>7, <1>8

-------------------------------------------------------------------------------
(* The live stream.  Between the first and the last line of the handler a span   *)
(* may be in the store and not yet published, or published with others still to  *)
(* come: what holds throughout is said of the keys the POST has yet to publish.  *)

Spans(q) == {q[k] : k \in DOMAIN q}

\* The spans of q as a client tells them apart.
Keys(q) == {<<s.trace, s.id>> : s \in Spans(q)}

\* The graph does not change under a POST of spans.
OutMapped == \A s \in Spans(out) : s.graph = graph

TodoInOut == Spans(todo) \subseteq Spans(out)

\* A stored span that is still to be published is the published version, or is still to be
\* ingested.
Fresh ==
  \A t \in Trace : \A b \in Spans(bucket[t]) :
    <<t, b.id>> \in Keys(out) => b.graph = graph \/ <<t, b.id>> \in Keys(todo)

\* A client knows what the store has of a trace that began after it subscribed, but for
\* what is still to be published.
Told ==
  \A c \in subs, t \in Trace : firstSeen[t] > joined[c] =>
    \A b \in Spans(bucket[t]) : <<t, b.id>> \in Keys(out) \/ view[c][<<t, b.id>>] = b.graph

ViewInv == OutMapped /\ TodoInOut /\ Fresh /\ Told

LEMMA SpansEmpty == Spans(<<>>) = {} /\ Keys(<<>>) = {}
BY DEF Spans, Keys

LEMMA SpansHeadTail ==
  ASSUME NEW S, NEW q \in Seq(S), q # <<>>
  PROVE  /\ Head(q) \in S
         /\ Spans(q) = {Head(q)} \cup Spans(Tail(q))
         /\ Keys(q) = {<<Head(q).trace, Head(q).id>>} \cup Keys(Tail(q))
<1>1. /\ Len(q) \in Nat \ {0} /\ DOMAIN q = 1 .. Len(q)
      /\ Head(q) = q[1] /\ Head(q) \in S
      /\ Tail(q) \in Seq(S) /\ Len(Tail(q)) = Len(q) - 1
      /\ \A i \in 1 .. Len(q) - 1 : Tail(q)[i] = q[i + 1]
  BY EmptySeq, HeadTailProperties
<1>2. DOMAIN Tail(q) = 1 .. Len(q) - 1
  BY <1>1
<1>3. ASSUME NEW x \in Spans(q) PROVE x \in {Head(q)} \cup Spans(Tail(q))
  <2>1. PICK i \in 1 .. Len(q) : x = q[i]
    BY <1>1 DEF Spans
  <2>2. CASE i = 1
    BY <1>1, <2>1, <2>2
  <2>3. CASE i # 1
    <3>1. i - 1 \in 1 .. Len(q) - 1 /\ Tail(q)[i - 1] = q[i]
      BY <1>1, <2>1, <2>3
    <3> QED
      BY <1>2, <2>1, <3>1 DEF Spans
  <2> QED
    BY <2>2, <2>3
<1>4. ASSUME NEW x \in Spans(Tail(q)) PROVE x \in Spans(q)
  <2>1. PICK i \in 1 .. Len(q) - 1 : x = Tail(q)[i]
    BY <1>2 DEF Spans
  <2>2. i + 1 \in 1 .. Len(q) /\ x = q[i + 1]
    BY <1>1, <2>1
  <2> QED
    BY <1>1, <2>2 DEF Spans
<1>5. Head(q) \in Spans(q)
  BY <1>1 DEF Spans
<1>6. Spans(q) = {Head(q)} \cup Spans(Tail(q))
  BY <1>3, <1>4, <1>5
<1> QED
  BY <1>1, <1>6 DEF Keys

\* What a bucket holds after a span came: that span, and entries of other spans.
LEMMA UpsertSpans ==
  ASSUME NEW b \in Seq(StoredSpan), NEW s \in StoredSpan,
         \A i, j \in DOMAIN b : b[i].id = b[j].id => i = j
  PROVE  \A x \in Spans(Upsert(b, s)) : x = s \/ (x \in Spans(b) /\ x.id # s.id)
<1> DEFINE hits == {i \in DOMAIN b : b[i].id = s.id}
<1>1. Len(b) \in Nat /\ DOMAIN b = 1 .. Len(b)
  OBVIOUS
<1>2. CASE hits = {}
  <2> DEFINE a == Append(b, s)
  <2>1. Upsert(b, s) = a
    BY <1>2 DEF Upsert
  <2>2. /\ DOMAIN a = 1 .. Len(b) + 1
        /\ \A i \in 1 .. Len(b) : a[i] = b[i]
        /\ a[Len(b) + 1] = s
    BY <1>1, AppendProperties
  <2> HIDE DEF a
  <2>3. ASSUME NEW i \in 1 .. Len(b) + 1 PROVE a[i] = s \/ (a[i] \in Spans(b) /\ a[i].id # s.id)
    <3>1. i \in 1 .. Len(b) \/ i = Len(b) + 1
      BY <1>1
    <3> QED
      BY <1>1, <1>2, <2>2, <3>1 DEF Spans
  <2>4. \A x \in Spans(a) : x = s \/ (x \in Spans(b) /\ x.id # s.id)
    BY <2>2, <2>3 DEF Spans
  <2> QED
    BY <2>1, <2>4
<1>3. CASE hits # {}
  <2> DEFINE k == CHOOSE i \in hits : \A j \in hits : i <= j
             u == [b EXCEPT ![k] = s]
  <2>1. Upsert(b, s) = u
    BY <1>3 DEF Upsert
  <2>2. k \in hits
    <3>1. PICK i \in hits : TRUE
      BY <1>3
    <3>2. \A j \in hits : i = j /\ i <= j
      BY <1>1, <3>1
    <3> QED
      BY <3>1, <3>2
  <2> HIDE DEF k
  <2>3. /\ k \in 1 .. Len(b) /\ b[k].id = s.id
        /\ DOMAIN u = 1 .. Len(b)
        /\ \A i \in 1 .. Len(b) : u[i] = IF i = k THEN s ELSE b[i]
    BY <1>1, <2>2, ExceptSeq
  <2> HIDE DEF u
  <2>4. ASSUME NEW i \in 1 .. Len(b) PROVE u[i] = s \/ (u[i] \in Spans(b) /\ u[i].id # s.id)
    BY <1>1, <2>3 DEF Spans
  <2>5. \A x \in Spans(u) : x = s \/ (x \in Spans(b) /\ x.id # s.id)
    BY <2>3, <2>4 DEF Spans
  <2> QED
    BY <2>1, <2>5
<1> QED
  BY <1>2, <1>3

\* What ingest leaves in the Map: the span it took, and entries of other spans, of traces
\* whose entry into the store it has not touched.
LEMMA IngestEntries ==
  ASSUME IInv, IngestNew \/ IngestKnown
  PROVE  \A t \in Trace : \A b \in Spans(bucket'[t]) :
           \/ t = Head(todo).trace /\ b = Head(todo)
           \/ /\ b \in Spans(bucket[t]) /\ firstSeen'[t] = firstSeen[t]
              /\ <<t, b.id>> # <<Head(todo).trace, Head(todo).id>>
<1> DEFINE s == Head(todo)
<1>1. TypeOK /\ NoSpanTwice
  BY DEF IInv
<1>2. s \in StoredSpan /\ s.trace \in Trace
  <2>1. s \in StoredSpan
    BY <1>1, HeadTailOf DEF IngestNew, IngestKnown, TypeOK
  <2> HIDE DEF s
  <2> QED
    BY <2>1 DEF StoredSpan
<1>3. CASE IngestNew
  <2>1. /\ bucket' = [Without(bucket, Overflow) EXCEPT ![s.trace] = <<s>>]
        /\ firstSeen' = [firstSeen EXCEPT ![s.trace] = clock + 1]
    BY <1>3 DEF IngestNew
  <2> HIDE DEF s
  <2>2. Spans(<<s>>) = {s}
    BY DEF Spans
  <2> SUFFICES ASSUME NEW t \in Trace, NEW b \in Spans(bucket'[t])
               PROVE  \/ t = s.trace /\ b = s
                      \/ /\ b \in Spans(bucket[t]) /\ firstSeen'[t] = firstSeen[t]
                         /\ <<t, b.id>> # <<s.trace, s.id>>
    BY DEF s
  <2>3. CASE t = s.trace
    <3>1. bucket'[t] = <<s>>
      BY <1>1, <1>2, <2>1, <2>3 DEF TypeOK, Without
    <3> QED
      BY <2>2, <2>3, <3>1
  <2>4. CASE t # s.trace
    <3>1. bucket'[t] = IF t \in Overflow THEN <<>> ELSE bucket[t]
      BY <1>1, <1>2, <2>1, <2>4 DEF TypeOK, Without
    <3>2. firstSeen'[t] = firstSeen[t]
      BY <1>1, <2>1, <2>4 DEF TypeOK
    <3> QED
      BY <2>4, <3>1, <3>2, SpansEmpty
  <2> QED
    BY <2>3, <2>4
<1>4. CASE IngestKnown
  <2>1. /\ bucket' = [bucket EXCEPT ![s.trace] = Upsert(@, s)]
        /\ firstSeen' = firstSeen
    BY <1>4 DEF IngestKnown
  <2> HIDE DEF s
  <2> SUFFICES ASSUME NEW t \in Trace, NEW b \in Spans(bucket'[t])
               PROVE  \/ t = s.trace /\ b = s
                      \/ /\ b \in Spans(bucket[t]) /\ firstSeen'[t] = firstSeen[t]
                         /\ <<t, b.id>> # <<s.trace, s.id>>
    BY DEF s
  <2>2. CASE t = s.trace
    <3>1. bucket'[t] = Upsert(bucket[t], s) /\ bucket[t] \in Seq(StoredSpan)
      BY <1>1, <1>2, <2>1, <2>2 DEF TypeOK
    <3>2. b = s \/ (b \in Spans(bucket[t]) /\ b.id # s.id)
      BY <1>1, <1>2, <3>1, UpsertSpans DEF NoSpanTwice
    <3> QED
      BY <2>1, <2>2, <3>2
  <2>3. CASE t # s.trace
    <3>1. bucket'[t] = bucket[t]
      BY <1>1, <1>2, <2>1, <2>3 DEF TypeOK
    <3> QED
      BY <2>1, <2>3, <3>1
  <2> QED
    BY <2>2, <2>3
<1> QED
  BY <1>3, <1>4

LEMMA ViewIngest ==
  ASSUME IInv, ViewInv, IngestNew \/ IngestKnown
  PROVE  ViewInv'
<1> DEFINE s == Head(todo)
<1>1. TypeOK /\ OutMapped /\ TodoInOut /\ Fresh /\ Told
  BY DEF IInv, ViewInv
<1>2. todo # <<>> /\ todo' = Tail(todo) /\ UNCHANGED <<graph, out, subs, view, joined>>
  BY DEF IngestNew, IngestKnown, hubVars
<1>3. /\ Spans(todo) = {s} \cup Spans(todo')
      /\ Keys(todo) = {<<s.trace, s.id>>} \cup Keys(todo')
  BY <1>1, <1>2, SpansHeadTail DEF TypeOK
<1>4. \A t \in Trace : \A b \in Spans(bucket'[t]) :
        \/ t = s.trace /\ b = s
        \/ /\ b \in Spans(bucket[t]) /\ firstSeen'[t] = firstSeen[t]
           /\ <<t, b.id>> # <<s.trace, s.id>>
  BY IngestEntries
<1> HIDE DEF s
<1>5. s \in Spans(out) /\ s.graph = graph /\ <<s.trace, s.id>> \in Keys(out)
  BY <1>1, <1>3 DEF OutMapped, TodoInOut, Keys
<1>6. OutMapped' /\ TodoInOut'
  BY <1>1, <1>2, <1>3 DEF OutMapped, TodoInOut
<1>7. Fresh'
  <2> SUFFICES ASSUME NEW t \in Trace, NEW b \in Spans(bucket'[t]), <<t, b.id>> \in Keys(out)
               PROVE  b.graph = graph \/ <<t, b.id>> \in Keys(todo')
    BY <1>2 DEF Fresh
  <2>1. CASE b = s
    BY <1>5, <2>1
  <2>2. CASE b \in Spans(bucket[t]) /\ <<t, b.id>> # <<s.trace, s.id>>
    BY <1>1, <1>3, <2>2 DEF Fresh
  <2> QED
    BY <1>4, <2>1, <2>2
<1>8. Told'
  <2> SUFFICES ASSUME NEW c \in subs, NEW t \in Trace, firstSeen'[t] > joined[c],
                      NEW b \in Spans(bucket'[t])
               PROVE  <<t, b.id>> \in Keys(out) \/ view[c][<<t, b.id>>] = b.graph
    BY <1>2 DEF Told
  <2>1. CASE t = s.trace /\ b = s
    BY <1>5, <2>1
  <2>2. CASE b \in Spans(bucket[t]) /\ firstSeen'[t] = firstSeen[t]
    BY <1>1, <2>2 DEF Told
  <2> QED
    BY <1>4, <2>1, <2>2
<1> QED
  BY <1>6, <1>7, <1>8 DEF ViewInv

LEMMA ViewPublish ==
  ASSUME IInv, ViewInv, Publish
  PROVE  ViewInv'
<1> DEFINE s == Head(out)
           k == <<s.trace, s.id>>
<1>1. TypeOK /\ OutMapped /\ TodoInOut /\ Fresh /\ Told
  BY DEF IInv, ViewInv
<1>2. /\ todo = <<>> /\ todo' = <<>> /\ out # <<>> /\ out' = Tail(out)
      /\ UNCHANGED <<bucket, firstSeen, subs, joined, graph>>
      /\ view' = [c \in Client |->
                    IF c \in subs THEN [view[c] EXCEPT ![k] = s.graph] ELSE view[c]]
  BY DEF Publish, storeVars, Reached
<1>3. /\ s \in StoredSpan
      /\ Spans(out) = {s} \cup Spans(out')
      /\ Keys(out) = {k} \cup Keys(out')
  BY <1>1, <1>2, SpansHeadTail DEF TypeOK
<1> HIDE DEF s
<1>4. k \in Trace \X SpanId
  BY <1>3 DEF StoredSpan
<1>5. s.graph = graph
  BY <1>1, <1>3 DEF OutMapped
<1> HIDE DEF k
<1>6. OutMapped' /\ TodoInOut'
  BY <1>1, <1>2, <1>3, SpansEmpty DEF OutMapped, TodoInOut
<1>7. Fresh'
  BY <1>1, <1>2, <1>3, SpansEmpty DEF Fresh
<1>8. Told'
  <2> SUFFICES ASSUME NEW c \in subs, NEW t \in Trace, firstSeen[t] > joined[c],
                      NEW b \in Spans(bucket[t]), <<t, b.id>> \notin Keys(out')
               PROVE  view'[c][<<t, b.id>>] = b.graph
    BY <1>2 DEF Told
  <2>1. /\ c \in Client
        /\ view[c] \in [Trace \X SpanId -> GraphVersion \cup {Nothing}]
    BY <1>1 DEF TypeOK
  <2>2. view'[c] = [view[c] EXCEPT ![k] = s.graph]
    BY <1>2, <2>1
  <2>3. CASE <<t, b.id>> = k
    <3>1. b.graph = graph
      BY <1>1, <1>2, <1>3, <2>3, SpansEmpty DEF Fresh
    <3> QED
      BY <1>4, <1>5, <2>1, <2>2, <2>3, <3>1
  <2>4. CASE <<t, b.id>> # k
    <3>1. view[c][<<t, b.id>>] = b.graph
      BY <1>1, <1>3, <2>4 DEF Told
    <3>2. view'[c][<<t, b.id>>] = view[c][<<t, b.id>>]
      <4>1. b \in StoredSpan
        BY <1>1 DEF TypeOK, Spans
      <4>2. <<t, b.id>> \in Trace \X SpanId
        BY <4>1 DEF StoredSpan
      <4> QED
        BY <2>1, <2>2, <2>4, <4>2
    <3> QED
      BY <3>1, <3>2
  <2> QED
    BY <2>3, <2>4
<1> QED
  BY <1>6, <1>7, <1>8 DEF ViewInv

LEMMA ViewOther ==
  ASSUME IInv, ViewInv,
         \/ \E spans \in Batches : PostSpans(spans)
         \/ PostGraph
         \/ \E c \in Client : Subscribe(c) \/ Unsubscribe(c)
         \/ UNCHANGED vars
  PROVE  ViewInv'
<1>1. TypeOK /\ OutMapped /\ TodoInOut /\ Fresh /\ Told
  BY DEF IInv, ViewInv
<1> USE DEF ViewInv, OutMapped, TodoInOut, Fresh, Told
<1>2. ASSUME NEW spans \in Batches, PostSpans(spans) PROVE ViewInv'
  <2>1. /\ Idle /\ todo' = spans /\ out' = spans
        /\ UNCHANGED <<bucket, firstSeen, subs, view, joined, graph>>
    BY <1>2 DEF PostSpans, storeVars, hubVars
  <2>2. \A x \in Spans(spans) : x.graph = graph
    <3>1. PICK n \in 1 .. MaxBatch :
            spans \in [1 .. n -> [trace : Trace, id : SpanId, graph : {graph}]]
      BY DEF Batches
    <3> QED
      BY <3>1 DEF Spans
  <2>3. Keys(out) = {}
    BY <2>1, SpansEmpty DEF Idle
  <2> QED
    BY <1>1, <2>1, <2>2, <2>3
<1>3. CASE PostGraph
  <2>1. /\ Idle /\ todo' = todo /\ out' = out
        /\ UNCHANGED <<bucket, firstSeen, subs, view, joined>>
    BY <1>3 DEF PostGraph, storeVars, hubVars
  <2> QED
    BY <1>1, <2>1, SpansEmpty DEF Idle
<1>4. ASSUME NEW c \in Client, Subscribe(c) PROVE ViewInv'
  <2>1. /\ subs' = subs \cup {c}
        /\ view' = [view EXCEPT ![c] = NoView]
        /\ joined' = [joined EXCEPT ![c] = clock]
        /\ UNCHANGED <<bucket, firstSeen, todo, out, graph>>
    BY <1>4 DEF Subscribe, storeVars
  <2>2. Told'
    <3> SUFFICES ASSUME NEW d \in subs', NEW t \in Trace, firstSeen[t] > joined'[d]
                 PROVE  d \in subs /\ view'[d] = view[d] /\ joined'[d] = joined[d]
      BY <1>1, <2>1
    <3>1. d # c
      <4>1. joined'[c] = clock /\ firstSeen[t] <= clock
        BY <1>1, <2>1 DEF TypeOK
      <4> QED
        BY <1>1, <4>1 DEF TypeOK
    <3> QED
      BY <1>1, <2>1, <3>1 DEF TypeOK
  <2>3. OutMapped' /\ TodoInOut' /\ Fresh'
    BY <1>1, <2>1
  <2> QED
    BY <2>2, <2>3
<1>5. ASSUME NEW c \in Client, Unsubscribe(c) PROVE ViewInv'
  BY <1>1, <1>5 DEF Unsubscribe, storeVars
<1>6. CASE UNCHANGED vars
  BY <1>1, <1>6 DEF vars, storeVars, hubVars
<1> QED
  BY <1>2, <1>3, <1>4, <1>5, <1>6

-------------------------------------------------------------------------------
(* The theorems, for every set of traces, span ids and clients and every limit.  *)

LEMMA StoreInvariant == Spec => [](IInv /\ ViewInv)
<1>1. Init => ViewInv
  BY SpansEmpty DEF Init, ViewInv, OutMapped, TodoInOut, Fresh, Told
<1>2. IInv /\ [Next]_vars => IInv'
  BY NewInv, KnownInv, OtherSteps DEF Next
<1>3. IInv /\ ViewInv /\ [Next]_vars => ViewInv'
  BY ViewIngest, ViewPublish, ViewOther DEF Next
<1> QED
  BY InitInv, <1>1, <1>2, <1>3, PTL DEF Spec

\* The store's list and its Map name the same traces (unshift, pop and delete of ingest).
THEOREM StoreSafe == Spec => [](TypeOK /\ StoreConsistent)
<1>1. IInv => TypeOK /\ StoreConsistent
  BY DEF IInv
<1> QED
  BY <1>1, StoreInvariant, PTL

\* No bucket holds a span twice, however often the exporter delivers it.
THEOREM RedeliveryReplaces == Spec => []NoSpanTwice
<1>1. IInv => NoSpanTwice
  BY DEF IInv
<1> QED
  BY <1>1, StoreInvariant, PTL

\* Eviction keeps the traces that came last, newest first.
THEOREM EvictsTheOldest == Spec => []KeepsTheLatest
<1>1. IInv => KeepsTheLatest
  BY DEF IInv
<1> QED
  BY <1>1, StoreInvariant, PTL

\* Between requests a client that was connected when a stored trace began has been sent
\* every span the store has of it, with the node the store has for it: ingesting a whole
\* batch before publishing it, re-deliveries, evictions and new graphs included.
THEOREM StreamCoversStore == Spec => []ViewCoversStore
<1>1. IInv /\ ViewInv => ViewCoversStore
  <2> SUFFICES ASSUME IInv, ViewInv, Idle,
                      NEW c \in subs, NEW t \in Listed, firstSeen[t] > joined[c],
                      NEW i \in DOMAIN bucket[t]
               PROVE  view[c][<<t, bucket[t][i].id>>] = bucket[t][i].graph
    BY DEF ViewCoversStore
  <2>1. t \in Trace
    BY DEF IInv, StoreConsistent
  <2>2. bucket[t][i] \in Spans(bucket[t]) /\ Keys(out) = {}
    BY SpansEmpty DEF Spans, Idle
  <2> QED
    BY <2>1, <2>2 DEF ViewInv, Told
<1> QED
  BY <1>1, StoreInvariant, PTL
===============================================================================
