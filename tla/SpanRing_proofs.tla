---------------------------- MODULE SpanRing_proofs ----------------------------
(***************************************************************************)
(* For every capacity and every set of spans, the circular buffer of       *)
(* SpanRing is the drop-oldest queue of SpanQueue.                         *)
(***************************************************************************)
EXTENDS SpanRing, SequenceTheorems, TLAPS

\* The sum of two indexes, reduced: the only remainders the ring computes.
Wrapped(i) == IF i < Cap THEN i ELSE i - Cap

LEMMA ModIsWrapped ==
  ASSUME NEW i \in 0 .. 2 * Cap - 1
  PROVE  i % Cap = Wrapped(i) /\ Wrapped(i) \in Slot
BY CapAssumption, SMT DEF Wrapped, Slot

LEMMA SumInRange ==
  ASSUME NEW i \in Slot, NEW n \in 0 .. Cap
  PROVE  i + n \in 0 .. 2 * Cap - 1
BY CapAssumption DEF Slot

LEMMA NthSlot ==
  ASSUME head \in Slot, count \in 0 .. Cap, NEW i \in 1 .. count
  PROVE  Nth(i) = buf[Wrapped(head + i - 1)] /\ Wrapped(head + i - 1) \in Slot
<1>1. head + i - 1 \in 0 .. 2 * Cap - 1
  BY CapAssumption DEF Slot
<1> QED
  BY <1>1, ModIsWrapped DEF Nth

LEMMA NextSlot ==
  ASSUME NEW i \in Slot
  PROVE  Next1(i) = Wrapped(i + 1) /\ Next1(i) \in Slot
<1>1. i + 1 \in 0 .. 2 * Cap - 1
  BY CapAssumption DEF Slot
<1> QED
  BY <1>1, ModIsWrapped DEF Next1

IInv == TypeOK /\ IndexesAgree

LEMMA TailSlot ==
  ASSUME IInv
  PROVE  tail = Wrapped(head + count)
<1>1. head + count \in 0 .. 2 * Cap - 1
  BY CapAssumption DEF IInv, TypeOK, Slot
<1> QED
  BY <1>1, ModIsWrapped DEF IInv, IndexesAgree

\* Where the spans are after a push: one place further to the front if one was dropped.
LEMMA PushMoves ==
  ASSUME IInv, NEW e \in Event, Push(e)
  PROVE  /\ TypeOK'
         /\ tail' = Wrapped(head' + count')
         /\ IF count = Cap
            THEN /\ count' = Cap
                 /\ \A i \in 1 .. Cap - 1 : Nth(i)' = Nth(i + 1)
            ELSE /\ count' = count + 1
                 /\ \A i \in 1 .. count : Nth(i)' = Nth(i)
         /\ Nth(count)' = e
<1> USE CapAssumption DEF IInv
<1>1. /\ head' \in Slot /\ tail' \in Slot /\ count' \in 0 .. Cap
      /\ buf' = [buf EXCEPT ![tail] = e]
      /\ head' = IF count = Cap THEN Wrapped(head + 1) ELSE head
      /\ tail' = Wrapped(tail + 1)
      /\ count' = IF count = Cap THEN Cap ELSE count + 1
  BY NextSlot DEF Push, TypeOK
<1>2. TypeOK'
  BY <1>1 DEF Push, TypeOK
<1>3. tail = Wrapped(head + count)
  BY TailSlot
<1>4. tail' = Wrapped(head' + count')
  BY <1>1, <1>3 DEF Wrapped, Slot, TypeOK
<1>5. ASSUME NEW i \in 1 .. count'
      PROVE  Nth(i)' = buf'[Wrapped(head' + i - 1)] /\ Wrapped(head' + i - 1) \in Slot
  <2>1. head' + i - 1 \in 0 .. 2 * Cap - 1
    BY <1>1 DEF Slot
  <2> QED
    BY <2>1, ModIsWrapped DEF Nth
<1>6. Nth(count)' = e
  <2>1. count' \in 1 .. count'
    BY <1>1 DEF TypeOK
  <2>2. Nth(count)' = buf'[Wrapped(head' + count' - 1)] /\ Wrapped(head' + count' - 1) \in Slot
    BY <1>5, <2>1
  <2>3. Wrapped(head' + count' - 1) = tail
    BY <1>1, <1>3 DEF Wrapped, Slot, TypeOK
  <2> QED
    BY <1>1, <2>2, <2>3 DEF TypeOK
<1>7. CASE count = Cap
  <2>1. ASSUME NEW i \in 1 .. Cap - 1
        PROVE  Nth(i)' = Nth(i + 1)
    <3>1. Nth(i)' = buf'[Wrapped(head' + i - 1)] /\ Wrapped(head' + i - 1) \in Slot
      BY <1>1, <1>5, <1>7
    <3>2. Nth(i + 1) = buf[Wrapped(head + i)]
      BY <1>7, NthSlot DEF TypeOK
    <3>3. Wrapped(head' + i - 1) = Wrapped(head + i) /\ Wrapped(head + i) # tail
      BY <1>1, <1>3, <1>7 DEF Wrapped, Slot, TypeOK
    <3> QED
      BY <1>1, <3>1, <3>2, <3>3 DEF TypeOK
  <2> QED
    BY <1>1, <1>2, <1>4, <1>6, <1>7, <2>1
<1>8. CASE count # Cap
  <2>1. ASSUME NEW i \in 1 .. count
        PROVE  Nth(i)' = Nth(i)
    <3>1. i \in 1 .. count'
      BY <1>1, <1>8 DEF TypeOK
    <3>2. Nth(i)' = buf'[Wrapped(head' + i - 1)] /\ Wrapped(head' + i - 1) \in Slot
      BY <1>5, <3>1
    <3>3. Nth(i) = buf[Wrapped(head + i - 1)]
      BY NthSlot DEF TypeOK
    <3>4. head' = head /\ Wrapped(head + i - 1) # tail
      BY <1>1, <1>3, <1>8 DEF Wrapped, Slot, TypeOK
    <3> QED
      BY <1>1, <3>2, <3>3, <3>4 DEF TypeOK
  <2> QED
    BY <1>1, <1>2, <1>4, <1>6, <1>8, <2>1
<1> QED
  BY <1>7, <1>8

LEMMA PushInv ==
  ASSUME IInv, NEW e \in Event, Push(e)
  PROVE  IInv'
<1>1. TypeOK' /\ tail' = Wrapped(head' + count') /\ count' \in 1 .. Cap
  BY PushMoves, CapAssumption DEF TypeOK, IInv
<1>2. tail' = (head' + count') % Cap
  <2>1. head' \in Slot
    BY <1>1 DEF TypeOK
  <2>2. head' + count' \in 0 .. 2 * Cap - 1
    <3>1. count' \in 0 .. Cap
      BY <1>1 DEF TypeOK
    <3> QED
      BY <2>1, <3>1, SumInRange
  <2> QED
    BY <1>1, <2>2, ModIsWrapped
<1>3. ASSUME NEW i \in 1 .. count'
      PROVE  Nth(i)' \in Event
  <2>1. CASE i = count'
    BY <2>1, PushMoves
  <2>2. CASE i # count' /\ count = Cap
    <3>1. i \in 1 .. Cap - 1 /\ i + 1 \in 1 .. count
      BY <2>2, PushMoves, CapAssumption
    <3> QED
      BY <2>2, <3>1, PushMoves DEF IInv, IndexesAgree
  <2>3. CASE i # count' /\ count # Cap
    <3>1. i \in 1 .. count
      BY <2>3, PushMoves DEF IInv, TypeOK
    <3> QED
      BY <2>3, <3>1, PushMoves DEF IInv, IndexesAgree
  <2> QED
    BY <2>1, <2>2, <2>3
<1> QED
  BY <1>1, <1>2, <1>3 DEF IInv, IndexesAgree

\* Where the spans are after a pop: one place further to the front.
LEMMA PopMoves ==
  ASSUME IInv, Pop
  PROVE  /\ IInv'
         /\ count' = count - 1
         /\ taken' = Nth(1)
         /\ \A i \in 1 .. count' : Nth(i)' = Nth(i + 1)
<1> USE CapAssumption DEF IInv
<1>1. /\ head' \in Slot /\ head' = Wrapped(head + 1)
      /\ count' \in 0 .. Cap - 1 /\ count' = count - 1
      /\ tail' = tail /\ buf' = buf
      /\ taken' = buf[head]
  BY NextSlot DEF Pop, TypeOK
<1>2. Nth(1) = buf[head] /\ buf[head] \in Event
  <2>1. 1 \in 1 .. count
    BY DEF Pop, TypeOK
  <2>2. Wrapped(head + 1 - 1) = head
    BY DEF Wrapped, Slot, TypeOK
  <2> QED
    BY <2>1, <2>2, NthSlot DEF TypeOK, IndexesAgree
<1>3. TypeOK'
  BY <1>1, <1>2 DEF TypeOK
<1>4. tail' = (head' + count') % Cap
  <2>1. head' + count' \in 0 .. 2 * Cap - 1
    BY <1>1 DEF Slot
  <2>2. tail = Wrapped(head + count)
    BY TailSlot
  <2>3. tail' = Wrapped(head' + count')
    BY <1>1, <2>2 DEF Wrapped, Slot, TypeOK
  <2> QED
    BY <2>1, <2>3, ModIsWrapped
<1>5. ASSUME NEW i \in 1 .. count'
      PROVE  Nth(i)' = Nth(i + 1) /\ Nth(i + 1) \in Event
  <2>1. i + 1 \in 1 .. count
    BY <1>1 DEF TypeOK
  <2>2. Nth(i + 1) = buf[Wrapped(head + i)] /\ Nth(i + 1) \in Event
    <3>1. Nth(i + 1) = buf[Wrapped(head + (i + 1) - 1)]
      BY <2>1, NthSlot DEF TypeOK
    <3>2. head + (i + 1) - 1 = head + i
      BY DEF TypeOK, Slot
    <3> QED
      BY <2>1, <3>1, <3>2 DEF IndexesAgree
  <2>3. Nth(i)' = buf'[Wrapped(head' + i - 1)]
    <3>1. head' + i - 1 \in 0 .. 2 * Cap - 1
      BY <1>1 DEF Slot
    <3> QED
      BY <3>1, ModIsWrapped DEF Nth
  <2>4. Wrapped(head' + i - 1) = Wrapped(head + i)
    BY <1>1 DEF Wrapped, Slot, TypeOK
  <2> QED
    BY <1>1, <2>2, <2>3, <2>4
<1> QED
  BY <1>1, <1>2, <1>3, <1>4, <1>5 DEF IndexesAgree

LEMMA InitInv == Init => IInv
<1>1. ASSUME Init
      PROVE  0 \in Slot /\ (head + count) % Cap = 0
  <2>1. 0 \in 0 .. 2 * Cap - 1 /\ Wrapped(0) = 0
    BY CapAssumption DEF Wrapped
  <2> QED
    BY <1>1, <2>1, ModIsWrapped, CapAssumption DEF Init, Slot
<1> QED
  BY <1>1, CapAssumption DEF Init, IInv, TypeOK, IndexesAgree

LEMMA StutterInv ==
  ASSUME IInv, UNCHANGED <<buf, head, tail, count>>, taken' \in {None, taken}
  PROVE  IInv' /\ Contents' = Contents
<1>1. \A i \in 1 .. count : Nth(i)' = Nth(i)
  BY DEF Nth
<1> QED
  BY <1>1 DEF IInv, TypeOK, IndexesAgree, Contents

LEMMA NextInv == IInv /\ [Next]_vars => IInv'
<1> SUFFICES ASSUME IInv, [Next]_vars
             PROVE  IInv'
  OBVIOUS
<1>1. ASSUME NEW e \in Event, Push(e)
      PROVE  IInv'
  BY <1>1, PushInv
<1>2. CASE Pop
  BY <1>2, PopMoves
<1>3. CASE PopEmpty
  BY <1>3, StutterInv DEF PopEmpty
<1>4. CASE UNCHANGED vars
  BY <1>4, StutterInv DEF vars
<1> QED
  BY <1>1, <1>2, <1>3, <1>4 DEF Next

\* The indexes stay in the buffer and agree with the count (push and pop of spanRing), for
\* every capacity.
THEOREM RingInvariant == Spec => [](TypeOK /\ IndexesAgree)
<1>1. Spec => []IInv
  BY InitInv, NextInv, PTL DEF Spec
<1> QED
  BY <1>1, PTL DEF IInv

-------------------------------------------------------------------------------
\* The queue the buffer stands for.

LEMMA ContentsType ==
  ASSUME IInv
  PROVE  Contents \in Seq(Event) /\ Len(Contents) = count
BY DEF IInv, TypeOK, IndexesAgree, Contents

LEMMA TailContents ==
  ASSUME IInv, count # 0
  PROVE  /\ Tail(Contents) \in Seq(Event)
         /\ Len(Tail(Contents)) = count - 1
         /\ Tail(Contents) = [i \in 1 .. count - 1 |-> Nth(i + 1)]
<1>1. Contents \in Seq(Event) /\ Len(Contents) = count /\ count \in 1 .. Cap
  BY ContentsType, CapAssumption DEF IInv, TypeOK
<1> QED
  BY <1>1 DEF Contents

LEMMA PushRefines ==
  ASSUME IInv, NEW e \in Event, Push(e)
  PROVE  Contents' = Pushed(Contents, e)
<1> USE CapAssumption DEF IInv, TypeOK
<1> DEFINE kept == IF count = Cap THEN Tail(Contents) ELSE Contents
           moved(i) == IF count = Cap THEN Nth(i + 1) ELSE Nth(i)
<1>1. Contents \in Seq(Event) /\ Len(Contents) = count
  BY ContentsType
<1>2. /\ kept \in Seq(Event)
      /\ Len(kept) = count' - 1 /\ Len(kept) \in Nat
      /\ \A i \in 1 .. Len(kept) : kept[i] = moved(i)
  <2>1. CASE count = Cap
    <3>1. kept = Tail(Contents) /\ count' = Cap /\ \A i : moved(i) = Nth(i + 1)
      BY <2>1, PushMoves
    <3>2. /\ kept \in Seq(Event) /\ Len(kept) = Cap - 1
          /\ kept = [i \in 1 .. Cap - 1 |-> Nth(i + 1)]
      BY <2>1, <3>1, TailContents
    <3> HIDE DEF kept, moved
    <3> QED
      BY <3>1, <3>2
  <2>2. CASE count # Cap
    <3>1. kept = Contents /\ count' = count + 1 /\ \A i : moved(i) = Nth(i)
      BY <2>2, PushMoves
    <3>2. kept \in Seq(Event) /\ Len(kept) = count /\ kept = [i \in 1 .. count |-> Nth(i)]
      BY <1>1, <3>1 DEF Contents
    <3> HIDE DEF kept, moved
    <3> QED
      BY <3>1, <3>2
  <2> QED
    BY <2>1, <2>2
<1>3. Pushed(Contents, e) = Append(kept, e)
  BY <1>1 DEF Pushed, IsFull
<1>4. /\ Append(kept, e) \in Seq(Event)
      /\ Len(Append(kept, e)) = count'
      /\ Append(kept, e)[count'] = e
      /\ \A i \in 1 .. Len(kept) : Append(kept, e)[i] = moved(i)
  <2> HIDE DEF kept, moved
  <2>1. Len(kept) + 1 = count' /\ count' \in Nat
    BY <1>2, PushMoves
  <2>2. /\ Append(kept, e) \in Seq(Event)
        /\ Len(Append(kept, e)) = Len(kept) + 1
        /\ Append(kept, e)[Len(kept) + 1] = e
        /\ \A i \in 1 .. Len(kept) : Append(kept, e)[i] = kept[i]
    BY <1>2, AppendProperties
  <2> QED
    BY <1>2, <2>1, <2>2
<1>5. /\ Contents' \in Seq(Event)
      /\ Len(Contents') = count'
      /\ Contents'[count'] = e
      /\ \A i \in 1 .. Len(kept) : Contents'[i] = moved(i)
  <2>1. IInv'
    BY PushInv
  <2>2. Contents' \in Seq(Event) /\ Len(Contents') = count'
    BY <2>1 DEF IndexesAgree, Contents
  <2>3. /\ \A i \in 1 .. count' : Contents'[i] = Nth(i)'
        /\ Nth(count)' = e
        /\ count' \in Nat \ {0}
    BY PushMoves DEF Contents
  <2>4. \A i \in 1 .. Len(kept) : Nth(i)' = moved(i)
    <3>1. CASE count = Cap
      BY <1>2, <3>1, PushMoves
    <3>2. CASE count # Cap
      BY <1>2, <3>2, PushMoves
    <3> QED
      BY <3>1, <3>2
  <2> HIDE DEF kept, moved
  <2>5. Len(kept) + 1 = count' /\ count' \in 1 .. count'
    <3>1. Len(kept) + 1 = count'
      BY <1>2, PushMoves
    <3> QED
      BY <2>3, <3>1
  <2>6. \A i \in 1 .. Len(kept) : i \in 1 .. count'
    BY <1>2, <2>5
  <2>7. Contents'[count'] = e
    BY <2>3, <2>5
  <2>8. \A i \in 1 .. Len(kept) : Contents'[i] = moved(i)
    BY <2>3, <2>4, <2>6
  <2> QED
    BY <2>2, <2>7, <2>8
<1> HIDE DEF kept, moved
<1>6. \A i \in 1 .. count' : Contents'[i] = Append(kept, e)[i]
  BY <1>2, <1>4, <1>5
<1> QED
  BY <1>3, <1>4, <1>5, <1>6, SeqEqual

LEMMA PopRefines ==
  ASSUME IInv, Pop
  PROVE  Contents # <<>> /\ Contents' = Tail(Contents) /\ taken' = Head(Contents)
<1>1. /\ count \in 1 .. Cap
      /\ count' = count - 1
      /\ taken' = Nth(1)
      /\ \A i \in 1 .. count' : Nth(i)' = Nth(i + 1)
  BY PopMoves DEF IInv, TypeOK, Pop
<1>2. Contents \in Seq(Event) /\ Len(Contents) = count
  BY ContentsType
<1>3. Contents' = [i \in 1 .. count - 1 |-> Nth(i + 1)]
  BY <1>1 DEF Contents
<1>4. Tail(Contents) = [i \in 1 .. count - 1 |-> Nth(i + 1)]
  BY <1>1, TailContents
<1> QED
  BY <1>1, <1>2, <1>3, <1>4 DEF Contents

LEMMA InitRefines == Init => Queue!Init
BY DEF Init, Queue!Init, Contents

LEMMA NextRefines == IInv /\ [Next]_vars => [Queue!Next]_(Queue!vars)
<1> SUFFICES ASSUME IInv, [Next]_vars
             PROVE  [Queue!Next]_(Queue!vars)
  OBVIOUS
<1>1. ASSUME NEW e \in Event, Push(e)
      PROVE  Queue!Push(e)
  BY <1>1, PushRefines DEF Push, Queue!Push, Queue!Pushed, Queue!IsFull, Pushed, IsFull
<1>2. CASE Pop
  BY <1>2, PopRefines DEF Queue!Pop, Queue!Next
<1>3. CASE PopEmpty
  <2>1. Contents' = Contents
    BY <1>3, StutterInv DEF PopEmpty
  <2>2. Contents = <<>>
    BY <1>3 DEF Contents, PopEmpty
  <2> QED
    BY <1>3, <2>1, <2>2 DEF PopEmpty, Queue!PopEmpty, Queue!Next
<1>4. CASE UNCHANGED vars
  BY <1>4, StutterInv DEF vars, Queue!vars
<1> QED
  BY <1>1, <1>2, <1>3, <1>4 DEF Next, Queue!Next

\* spanRing is a bounded FIFO queue that drops its oldest span at the limit: every step of
\* push and pop is a step of SpanQueue, with the result that pop returns.
THEOREM RingImplementsQueue == Spec => ImplementsQueue
<1>1. Spec => []IInv
  BY InitInv, NextInv, PTL DEF Spec
<1> QED
  BY <1>1, InitRefines, NextRefines, PTL DEF Spec, ImplementsQueue, Queue!Spec
===============================================================================
