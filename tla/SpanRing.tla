------------------------------- MODULE SpanRing --------------------------------
(***************************************************************************)
(* spanRing of go/lib/debugviz/export.go: a circular buffer with a head    *)
(* index, a tail index and an element count.  Every operation runs under   *)
(* the ring's mutex, so each is one step.                                  *)
(***************************************************************************)
EXTENDS DropOldest

CONSTANTS Event,   \* the spans producers push
          None     \* the zero TraceEvent: an empty slot, or the result of a failed pop

ASSUME NoneAssumption == None \notin Event

VARIABLES buf,     \* the slots, indexed from 0 as in Go
          head,    \* index of the oldest span
          tail,    \* index of the next slot to write
          count,   \* spans held
          taken    \* result of the latest operation (pop's return value)

vars == <<buf, head, tail, count, taken>>

Slot == 0 .. Cap - 1

\* The slot after i, going round.
Next1(i) == (i + 1) % Cap

TypeOK ==
  /\ buf \in [Slot -> Event \cup {None}]
  /\ head \in Slot
  /\ tail \in Slot
  /\ count \in 0 .. Cap
  /\ taken \in Event \cup {None}

Init ==
  /\ buf = [i \in Slot |-> None]
  /\ head = 0 /\ tail = 0 /\ count = 0
  /\ taken = None

-------------------------------------------------------------------------------
\* Mutant: a full ring keeps its head, so the pushed span overwrites the oldest in place.
PushHeadStays(e) ==
  /\ buf' = [buf EXCEPT ![tail] = e]
  /\ tail' = Next1(tail)
  /\ count' = IF count = Cap THEN Cap ELSE count + 1
  /\ taken' = None
  /\ UNCHANGED head

\* push: drop the oldest span when the ring is full, then write at tail.
Push(e) ==
  /\ head' = IF count = Cap THEN Next1(head) ELSE head
  /\ buf' = [buf EXCEPT ![tail] = e]
  /\ tail' = Next1(tail)
  /\ count' = IF count = Cap THEN Cap ELSE count + 1
  /\ taken' = None

\* Mutant: a pop that forgets to advance the head.
PopHeadStays ==
  /\ count # 0
  /\ taken' = buf[head]
  /\ count' = count - 1
  /\ UNCHANGED <<buf, head, tail>>

\* pop, ok = true.  The slot keeps its span; only the indexes move.
Pop ==
  /\ count # 0
  /\ taken' = buf[head]
  /\ head' = Next1(head)
  /\ count' = count - 1
  /\ UNCHANGED <<buf, tail>>

\* pop, ok = false.
PopEmpty ==
  /\ count = 0
  /\ taken' = None
  /\ UNCHANGED <<buf, head, tail, count>>

Next == (\E e \in Event : Push(e)) \/ Pop \/ PopEmpty

Spec == Init /\ [][Next]_vars

-------------------------------------------------------------------------------
\* The i-th oldest span held, i \in 1..count.
Nth(i) == buf[(head + i - 1) % Cap]

Contents == [i \in 1 .. count |-> Nth(i)]

\* The write index is always `count' slots after the read index: a push never lands on a
\* span that is still held, and a pop never reads a slot that was not written
\* (push and pop of spanRing update head, tail and count separately).
IndexesAgree ==
  /\ tail = (head + count) % Cap
  /\ \A i \in 1 .. count : Nth(i) \in Event

\* The ring is the drop-oldest queue: spans come out in the order they were pushed, none
\* twice, and a span is discarded only by a push at the limit, oldest first.
Queue == INSTANCE SpanQueue WITH queue <- Contents

ImplementsQueue == Queue!Spec
===============================================================================
