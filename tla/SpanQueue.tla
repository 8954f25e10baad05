------------------------------- MODULE SpanQueue -------------------------------
(***************************************************************************)
(* The abstract span buffer: the state machine that spanRing of export.go  *)
(* is meant to implement.  `taken' is the result of the latest operation:  *)
(* the span a pop returned, or None.                                       *)
(***************************************************************************)
EXTENDS DropOldest

CONSTANTS Event,   \* the spans producers push
          None     \* the "not ok" result of a pop

VARIABLES queue, taken

vars == <<queue, taken>>

Init == queue = <<>> /\ taken = None

Push(e) == queue' = Pushed(queue, e) /\ taken' = None

Pop ==
  /\ queue # <<>>
  /\ queue' = Tail(queue)
  /\ taken' = Head(queue)

PopEmpty ==
  /\ queue = <<>>
  /\ taken' = None
  /\ UNCHANGED queue

Next == (\E e \in Event : Push(e)) \/ Pop \/ PopEmpty

Spec == Init /\ [][Next]_vars
===============================================================================
