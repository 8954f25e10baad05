---------------------------- MODULE Tracing_proofs ----------------------------
(***************************************************************************)
(* The spans of a request make one whole tree in one trace, and an entry   *)
(* span tells how its own call ended: for every set of goroutines and      *)
(* hooks, every rate and every bound of Tracing.                           *)
(***************************************************************************)
EXTENDS Tracing, SequenceTheorems, TLAPS

Frames(g) == {stack[g][i] : i \in DOMAIN stack[g]}

\* A context refers to a span there is, and outside of a toggle its trace id is that span's.
CtxGood(c, g) ==
  /\ c.span <= Len(spans)
  /\ g \notin disturbed /\ c.trace # NoTrace => c.span # 0 /\ spans[c.span].trace = c.trace

\* A hook between its two looks at isEnabled owns no span yet; nothing has turned the runtime
\* off meanwhile unless the goroutine is marked as disturbed.
FrameGood(f, g) ==
  /\ f.own <= Len(spans) /\ f.ctx.span <= Len(spans)
  /\ f.step = "running" => CtxGood(f.ctx, g)
  /\ f.step = "starting" => f.own = 0 /\ (g \notin disturbed => on)

Linked ==
  \A n \in DOMAIN spans : LET p == spans[n].parent IN
    p # 0 => p < n /\ spans[p].record /\ spans[p].trace = spans[n].trace

\* A recorded span is exported or still to be ended by a call that is under way.
Kept ==
  toggles = 0 /\ on => \A n \in DOMAIN spans : spans[n].record =>
    \/ \E e \in exported : e[1] = n
    \/ \E g \in Goroutines : \E f \in Frames(g) : f.own = n

Contexts_OK ==
  \A g \in Goroutines : CtxGood(base[g], g) /\ \A f \in Frames(g) : FrameGood(f, g)

IInv == TypeOK /\ Contexts_OK /\ Linked /\ Kept

-------------------------------------------------------------------------------
(* The stacks.                                                               *)

\* The innermost call is one of the goroutine's calls.
LEMMA TopIsFrame ==
  ASSUME TypeOK, NEW g \in Goroutines, stack[g] # <<>>
  PROVE  /\ Top(g) \in Frames(g) /\ Top(g) \in Calls
         /\ Len(stack[g]) \in DOMAIN stack[g] /\ Len(stack[g]) \in Nat \ {0}
<1>1. stack[g] \in Seq(Calls)  BY DEF TypeOK
<1>2. Len(stack[g]) \in Nat \ {0} /\ DOMAIN stack[g] = 1 .. Len(stack[g])
  BY <1>1, EmptySeq, LenProperties
<1> QED  BY <1>1, <1>2, ElementOfSeq DEF Top, Frames

\* Push adds the call and makes it the innermost.
LEMMA PushFrames ==
  ASSUME TypeOK, NEW g \in Goroutines, NEW c \in Calls, Push(g, c)
  PROVE  /\ stack' \in [Goroutines -> Seq(Calls)]
         /\ \A h \in Goroutines : Frames(h)' = IF h = g THEN Frames(g) \cup {c} ELSE Frames(h)
<1>1. stack[g] \in Seq(Calls) /\ stack \in [Goroutines -> Seq(Calls)]  BY DEF TypeOK
<1>2. stack' = [stack EXCEPT ![g] = Append(stack[g], c)]  BY DEF Push
<1> DEFINE s == Append(stack[g], c)
<1>3. /\ s \in Seq(Calls) /\ Len(s) = Len(stack[g]) + 1
      /\ \A i \in 1 .. Len(stack[g]) : s[i] = stack[g][i]
      /\ s[Len(stack[g]) + 1] = c
  BY <1>1, AppendProperties
<1>4. stack'[g] = s /\ \A h \in Goroutines : h # g => stack'[h] = stack[h]
  BY <1>1, <1>2
<1>5. /\ DOMAIN s = 1 .. Len(stack[g]) + 1 /\ DOMAIN stack[g] = 1 .. Len(stack[g])
      /\ Len(stack[g]) \in Nat
  BY <1>1, <1>3, LenProperties
<1>6. Frames(g)' = Frames(g) \cup {c}
  <2> HIDE DEF s
  <2>1. Frames(g)' = {s[i] : i \in DOMAIN s}  BY <1>4 DEF Frames
  <2>2. ASSUME NEW i \in DOMAIN s  PROVE s[i] \in Frames(g) \cup {c}
    BY <1>3, <1>5 DEF Frames
  <2>3. c \in {s[i] : i \in DOMAIN s}  BY <1>3, <1>5
  <2>4. ASSUME NEW i \in DOMAIN stack[g]  PROVE stack[g][i] \in {s[j] : j \in DOMAIN s}
    BY <1>3, <1>5
  <2> QED  BY <2>1, <2>2, <2>3, <2>4 DEF Frames
<1>7. \A h \in Goroutines : h # g => Frames(h)' = Frames(h)  BY <1>4 DEF Frames
<1>8. stack' \in [Goroutines -> Seq(Calls)]  BY <1>1, <1>2, <1>3
<1> QED  BY <1>6, <1>7, <1>8

\* Pop takes nothing but the innermost call away.
LEMMA PopFrames ==
  ASSUME TypeOK, NEW g \in Goroutines, stack[g] # <<>>, Pop(g)
  PROVE  /\ stack' \in [Goroutines -> Seq(Calls)]
         /\ \A h \in Goroutines : Frames(h)' \subseteq Frames(h)
         /\ \A h \in Goroutines : Frames(h) \subseteq Frames(h)' \cup {Top(g)}
<1>1. stack[g] \in Seq(Calls) /\ stack \in [Goroutines -> Seq(Calls)]  BY DEF TypeOK
<1>2. Len(stack[g]) \in Nat \ {0} /\ DOMAIN stack[g] = 1 .. Len(stack[g])
  BY <1>1, EmptySeq, LenProperties
<1> DEFINE s == SubSeq(stack[g], 1, Len(stack[g]) - 1)
<1>3. /\ s \in Seq(Calls) /\ Len(s) = Len(stack[g]) - 1
      /\ \A i \in 1 .. Len(stack[g]) - 1 : s[i] = stack[g][i]
  <2>1. \A i \in 1 .. Len(stack[g]) - 1 : stack[g][i] \in Calls  BY <1>1, <1>2, ElementOfSeq
  <2>2. /\ s \in Seq(Calls)
        /\ Len(s) = IF 1 <= Len(stack[g]) - 1 THEN Len(stack[g]) - 1 - 1 + 1 ELSE 0
        /\ \A i \in 1 .. Len(stack[g]) - 1 - 1 + 1 : s[i] = stack[g][1 + i - 1]
    BY <1>2, <2>1, SubSeqProperties
  <2> HIDE DEF s
  <2> QED  BY <1>2, <2>2
<1>4. stack' = [stack EXCEPT ![g] = s]  BY DEF Pop
<1> HIDE DEF s
<1>5. stack'[g] = s /\ \A h \in Goroutines : h # g => stack'[h] = stack[h]  BY <1>1, <1>4
<1>6. DOMAIN s = 1 .. Len(stack[g]) - 1  BY <1>3, LenProperties
<1>7. Frames(g)' = {s[i] : i \in DOMAIN s}  BY <1>5 DEF Frames
<1>8. ASSUME NEW i \in DOMAIN s  PROVE s[i] \in Frames(g)  BY <1>2, <1>3, <1>6 DEF Frames
<1>9. ASSUME NEW i \in DOMAIN stack[g]
      PROVE  stack[g][i] \in {s[j] : j \in DOMAIN s} \cup {Top(g)}
  <2>1. CASE i = Len(stack[g])  BY <2>1 DEF Top
  <2>2. CASE i # Len(stack[g])
    <3>1. i \in DOMAIN s /\ s[i] = stack[g][i]  BY <2>2, <1>2, <1>3, <1>6
    <3> QED  BY <3>1
  <2> QED  BY <2>1, <2>2
<1>10. \A h \in Goroutines : h # g => Frames(h)' = Frames(h)  BY <1>5 DEF Frames
<1>11. Frames(g)' \subseteq Frames(g)  BY <1>7, <1>8
<1>12. Frames(g) \subseteq Frames(g)' \cup {Top(g)}  BY <1>7, <1>9 DEF Frames
<1>13. stack' \in [Goroutines -> Seq(Calls)]  BY <1>1, <1>3, <1>4
<1> QED  BY <1>10, <1>11, <1>12, <1>13

\* Replace exchanges the innermost call.
LEMMA ReplaceFrames ==
  ASSUME TypeOK, NEW g \in Goroutines, stack[g] # <<>>, NEW c \in Calls, Replace(g, c)
  PROVE  /\ stack' \in [Goroutines -> Seq(Calls)]
         /\ \A h \in Goroutines : h # g => Frames(h)' = Frames(h)
         /\ c \in Frames(g)' /\ Frames(g)' \subseteq Frames(g) \cup {c}
         /\ Frames(g) \subseteq Frames(g)' \cup {Top(g)}
<1>1. stack[g] \in Seq(Calls) /\ stack \in [Goroutines -> Seq(Calls)]  BY DEF TypeOK
<1>2. Len(stack[g]) \in Nat \ {0} /\ DOMAIN stack[g] = 1 .. Len(stack[g])
  BY <1>1, EmptySeq, LenProperties
<1> DEFINE s == [stack[g] EXCEPT ![Len(stack[g])] = c]
<1>3. /\ s \in Seq(Calls) /\ Len(s) = Len(stack[g])
      /\ \A i \in 1 .. Len(stack[g]) : s[i] = IF i = Len(stack[g]) THEN c ELSE stack[g][i]
  BY <1>1, <1>2, ExceptSeq
<1>4. stack' = [stack EXCEPT ![g] = s]  BY DEF Replace
<1> HIDE DEF s
<1>5. stack'[g] = s /\ \A h \in Goroutines : h # g => stack'[h] = stack[h]  BY <1>1, <1>4
<1>6. DOMAIN s = 1 .. Len(stack[g])  BY <1>3, LenProperties
<1>7. Frames(g)' = {s[i] : i \in DOMAIN s}  BY <1>5 DEF Frames
<1>8. ASSUME NEW i \in DOMAIN s  PROVE s[i] \in Frames(g) \cup {c}
  BY <1>2, <1>3, <1>6 DEF Frames
<1>9. c \in {s[i] : i \in DOMAIN s}
  <2>1. Len(stack[g]) \in DOMAIN s /\ s[Len(stack[g])] = c  BY <1>2, <1>3, <1>6
  <2> QED  BY <2>1
<1>10. ASSUME NEW i \in DOMAIN stack[g]
       PROVE  stack[g][i] \in {s[j] : j \in DOMAIN s} \cup {Top(g)}
  <2>1. CASE i = Len(stack[g])  BY <2>1 DEF Top
  <2>2. CASE i # Len(stack[g])
    <3>1. i \in DOMAIN s /\ s[i] = stack[g][i]  BY <2>2, <1>2, <1>3, <1>6
    <3> QED  BY <3>1
  <2> QED  BY <2>1, <2>2
<1>11. \A h \in Goroutines : h # g => Frames(h)' = Frames(h)  BY <1>5 DEF Frames
<1>12. c \in Frames(g)' /\ Frames(g)' \subseteq Frames(g) \cup {c}  BY <1>7, <1>8, <1>9
<1>13. Frames(g) \subseteq Frames(g)' \cup {Top(g)}  BY <1>7, <1>10 DEF Frames
<1>14. stack' \in [Goroutines -> Seq(Calls)]  BY <1>1, <1>3, <1>4
<1> QED  BY <1>11, <1>12, <1>13, <1>14

-------------------------------------------------------------------------------
(* What a step leaves of the invariant.                                      *)

\* A context or call that was good stays so when spans are added or their traces kept.
LEMMA GoodStays ==
  ASSUME TypeOK, NEW g, Len(spans) <= Len(spans'), disturbed' = disturbed, on' = on,
         Len(spans') \in Nat, \A n \in DOMAIN spans : spans'[n].trace = spans[n].trace
  PROVE  /\ \A c \in Contexts : CtxGood(c, g) => CtxGood(c, g)'
         /\ \A f \in Calls : FrameGood(f, g) => FrameGood(f, g)'
<1>1. Len(spans) \in Nat /\ DOMAIN spans = 1 .. Len(spans)
  BY LenProperties DEF TypeOK
<1>2. ASSUME NEW c \in Contexts, CtxGood(c, g)  PROVE CtxGood(c, g)'
  <2>1. c.span \in Nat /\ c.span <= Len(spans)  BY <1>2 DEF Contexts, CtxGood
  <2>2. c.span <= Len(spans')  BY <2>1, <1>1
  <2>3. c.span # 0 => spans'[c.span].trace = spans[c.span].trace  BY <2>1, <1>1
  <2> QED  BY <2>2, <2>3, <1>2 DEF CtxGood
<1>3. ASSUME NEW f \in Calls, FrameGood(f, g)  PROVE FrameGood(f, g)'
  <2>1. f.own \in Nat /\ f.ctx \in Contexts /\ f.ctx.span \in Nat  BY DEF Calls, Contexts
  <2>2. f.own <= Len(spans') /\ f.ctx.span <= Len(spans')  BY <2>1, <1>1, <1>3 DEF FrameGood
  <2>3. CtxGood(f.ctx, g) => CtxGood(f.ctx, g)'  BY <2>1, <1>2
  <2> QED  BY <2>2, <2>3, <1>3 DEF FrameGood
<1> QED  BY <1>2, <1>3

\* Every call of a goroutine is a call.
LEMMA FramesAreCalls == ASSUME TypeOK, NEW g \in Goroutines  PROVE Frames(g) \subseteq Calls
<1>1. stack[g] \in Seq(Calls)  BY DEF TypeOK
<1> QED  BY <1>1, LenProperties, ElementOfSeq DEF Frames

\* A step of one goroutine that adds at most one good call.
LEMMA ContextsStay ==
  ASSUME TypeOK, Contexts_OK, NEW g \in Goroutines, NEW c,
         Len(spans) <= Len(spans'), Len(spans') \in Nat,
         disturbed' = disturbed, on' = on, base' = base,
         \A n \in DOMAIN spans : spans'[n].trace = spans[n].trace,
         \A h \in Goroutines : h # g => Frames(h)' \subseteq Frames(h),
         Frames(g)' \subseteq Frames(g) \cup {c},
         FrameGood(c, g)' \/ c \in Frames(g)
  PROVE  Contexts_OK'
<1> SUFFICES ASSUME NEW h \in Goroutines
             PROVE  CtxGood(base[h], h)' /\ \A f \in Frames(h)' : FrameGood(f, h)'
  BY DEF Contexts_OK
<1>1. CtxGood(base[h], h) /\ base[h] \in Contexts  BY DEF Contexts_OK, TypeOK
<1>2. /\ \A x \in Contexts : CtxGood(x, h) => CtxGood(x, h)'
      /\ \A f \in Calls : FrameGood(f, h) => FrameGood(f, h)'
  BY GoodStays
<1>3. CtxGood(base[h], h)'  BY <1>1, <1>2 DEF CtxGood
<1>4. \A f \in Frames(h) : FrameGood(f, h)'  BY <1>2, FramesAreCalls DEF Contexts_OK
<1>5. ASSUME NEW f \in Frames(h)'  PROVE FrameGood(f, h)'
  <2>1. CASE f \in Frames(h)  BY <2>1, <1>4
  <2>2. CASE f \notin Frames(h)  BY <2>2
  <2> QED  BY <2>1, <2>2
<1> QED  BY <1>3, <1>5

\* The context a running goroutine hands on is a good one.
LEMMA CtxIsGood ==
  ASSUME TypeOK, Contexts_OK, NEW g \in Goroutines, Running(g)
  PROVE  /\ Ctx(g) \in Contexts /\ CtxGood(Ctx(g), g)
         /\ Ctx(g).span \in Nat /\ Ctx(g).trace \in Traces
<1>1. CASE stack[g] = <<>>
  BY <1>1 DEF Ctx, TypeOK, Contexts_OK, Contexts
<1>2. CASE stack[g] # <<>>
  <2>1. Top(g) \in Frames(g) /\ Top(g) \in Calls  BY <1>2, TopIsFrame
  <2>2. Top(g).step = "running" /\ FrameGood(Top(g), g)  BY <1>2, <2>1 DEF Running, Contexts_OK
  <2> QED  BY <1>2, <2>1, <2>2 DEF Ctx, FrameGood, Calls, Contexts
<1> QED  BY <1>1, <1>2

\* No span and no export is lost, and every owner of a span is still there.
LEMMA KeptStays ==
  ASSUME TypeOK, Kept, spans' = spans, on' = on, toggles' = toggles, exported' = exported,
         \A h \in Goroutines : \A f \in Frames(h) : f.own # 0 => f \in Frames(h)'
  PROVE  Kept'
<1> SUFFICES ASSUME toggles = 0, on, NEW n \in DOMAIN spans, spans[n].record
             PROVE  \/ \E e \in exported : e[1] = n
                    \/ \E g \in Goroutines : \E f \in Frames(g)' : f.own = n
  BY DEF Kept
<1>1. n # 0  BY LenProperties DEF TypeOK
<1>2. \/ \E e \in exported : e[1] = n
      \/ \E g \in Goroutines : \E f \in Frames(g) : f.own = n
  BY DEF Kept
<1> QED  BY <1>1, <1>2

-------------------------------------------------------------------------------
(* The actions.                                                              *)

\* Nothing has begun.
LEMMA InitInvariant == Init => IInv
<1> SUFFICES ASSUME Init  PROVE IInv  OBVIOUS
<1>1. Background \in Contexts /\ Background.span = 0 /\ Background.trace = NoTrace
  BY DEF Background, Contexts, Traces
<1>2. TypeOK
  <2>1. spans \in Seq(SpanRecords)  BY EmptySeq DEF Init
  <2>2. stack \in [Goroutines -> Seq(Calls)]  BY EmptySeq DEF Init
  <2>3. base \in [Goroutines -> Contexts]  BY <1>1 DEF Init
  <2> QED  BY <2>1, <2>2, <2>3 DEF Init, TypeOK
<1>3. Len(spans) = 0 /\ DOMAIN spans = {}  BY DEF Init
<1>4. ASSUME NEW g \in Goroutines  PROVE Frames(g) = {}
  <2>1. stack[g] = <<>> /\ DOMAIN <<>> = {}  BY DEF Init
  <2> QED  BY <2>1 DEF Frames
<1>5. ASSUME NEW g \in Goroutines  PROVE CtxGood(base[g], g)
  <2>1. base[g] = Background  BY DEF Init
  <2> QED  BY <2>1, <1>1, <1>3 DEF CtxGood
<1> QED  BY <1>2, <1>3, <1>4, <1>5 DEF IInv, Contexts_OK, Linked, Kept

\* What is under way is marked as disturbed.
LEMMA ToggleInvariant == ASSUME IInv, Toggle  PROVE IInv'
<1>1. /\ spans' = spans /\ stack' = stack /\ base' = base /\ exported' = exported
      /\ ids' = ids /\ toggles' = toggles + 1 /\ on' = ~on
      /\ disturbed' = disturbed \cup {g \in Goroutines : stack[g] # <<>> \/ base[g] # Background}
  BY DEF Toggle
<1>2. toggles' \in Nat /\ toggles' # 0  BY <1>1 DEF IInv, TypeOK
<1>3. on' \in BOOLEAN  BY <1>1, Zenon
<1>4. TypeOK'  BY <1>1, <1>2, <1>3 DEF IInv, TypeOK
<1>5. Linked'  BY <1>1 DEF IInv, Linked
<1>6. Kept'  BY <1>2 DEF Kept
<1>7. ASSUME NEW g \in Goroutines  PROVE CtxGood(base[g], g)'
  <2>1. CtxGood(base[g], g)  BY DEF IInv, Contexts_OK
  <2>2. g \in disturbed => g \in disturbed'  BY <1>1
  <2> QED  BY <2>1, <2>2, <1>1 DEF CtxGood
<1>8. ASSUME NEW g \in Goroutines, NEW f \in Frames(g)'  PROVE FrameGood(f, g)'
  <2>1. f \in Frames(g)  BY <1>1 DEF Frames
  <2>2. stack[g] # <<>>
    <3>1. stack[g] \in Seq(Calls)  BY DEF IInv, TypeOK
    <3> QED  BY <2>1, <3>1, EmptySeq, LenProperties DEF Frames
  <2>3. g \in disturbed'  BY <1>1, <2>2
  <2>4. FrameGood(f, g)  BY <2>1 DEF IInv, Contexts_OK
  <2> QED  BY <2>3, <2>4, <1>1 DEF FrameGood, CtxGood
<1> QED  BY <1>4, <1>5, <1>6, <1>7, <1>8 DEF IInv, Contexts_OK

\* A hook pushes its call before it has a span.
LEMMA EnterInvariant == ASSUME IInv, NEW g \in Goroutines, Enter(g)  PROVE IInv'
<1>1. /\ Running(g) /\ spans' = spans /\ base' = base /\ exported' = exported
      /\ on' = on /\ toggles' = toggles /\ disturbed' = disturbed
  BY DEF Enter, Room
<1>2. Ctx(g) \in Contexts /\ CtxGood(Ctx(g), g) /\ Ctx(g).span \in Nat
  BY <1>1, CtxIsGood DEF IInv
<1>3. /\ Background \in Contexts /\ Background.span = 0 /\ Background.trace = NoTrace
      /\ Len(spans) \in Nat
  BY LenProperties DEF Background, Contexts, Traces, IInv, TypeOK
<1>4. Ctx(g).span <= Len(spans)  BY <1>2 DEF CtxGood
<1>5. Entry(g) \in Entries
  <2>1. Len(stack[g]) \in Nat  BY LenProperties DEF IInv, TypeOK
  <2> QED  BY <2>1 DEF Entry, Entries
<1>6. Fresh \in Traces /\ Incoming(g) \in Traces  BY DEF Fresh, Incoming, Traces, IInv, TypeOK
<1>7. PICK c \in Calls : /\ Push(g, c) /\ FrameGood(c, g)' /\ ids' \in Nat
  <2>1. PICK kind \in Hooks, sent \in BOOLEAN :
         \/ /\ on
            /\ Push(g, Call(kind, Entry(g), HookCtx(g, kind, sent), 0, 0, "starting"))
            /\ ids' = IF HookCtx(g, kind, sent).trace = Fresh THEN ids + 1 ELSE ids
         \/ /\ ~on
            /\ Push(g, Call(kind, <<>>, IF kind = "cli" THEN Background ELSE Ctx(g), 0,
                            IF kind = "echo" THEN Ctx(g).span ELSE 0, "running"))
            /\ UNCHANGED ids
    BY DEF Enter
  <2>2. ids' \in Nat  BY <2>1 DEF IInv, TypeOK
  <2>3. CASE on
    <3>1. PICK x : x = HookCtx(g, kind, sent)  OBVIOUS
    <3>2. x \in Contexts /\ x.span <= Len(spans)
      <4>1. CASE kind = "cli"  BY <3>1, <4>1, <1>3 DEF HookCtx
      <4>2. CASE kind = "job"  BY <3>1, <4>2, <1>2, <1>4 DEF HookCtx
      <4>3. CASE kind \notin {"cli", "job"}
        <5>1. x = [Ctx(g) EXCEPT !.trace = IF sent THEN Incoming(g) ELSE Fresh]
          BY <3>1, <4>3 DEF HookCtx
        <5> QED  BY <5>1, <1>2, <1>4, <1>6 DEF Contexts
      <4> QED  BY <4>1, <4>2, <4>3
    <3>3. Call(kind, Entry(g), x, 0, 0, "starting") \in Calls
      BY <3>2, <1>5 DEF Call, Calls
    <3>4. PICK c \in Calls : c = Call(kind, Entry(g), x, 0, 0, "starting")  BY <3>3
    <3>5. FrameGood(c, g)'
      <4>1. c.own = 0 /\ c.ctx = x /\ c.step = "starting"  BY <3>4 DEF Call
      <4> QED  BY <4>1, <3>2, <1>1, <1>3, <2>3 DEF FrameGood
    <3>6. Push(g, c)  BY <2>1, <2>3, <3>1, <3>4
    <3> QED  BY <2>2, <3>5, <3>6
  <2>4. CASE ~on
    <3>1. PICK x : x = IF kind = "cli" THEN Background ELSE Ctx(g)  OBVIOUS
    <3>2. PICK n : n = IF kind = "echo" THEN Ctx(g).span ELSE 0  OBVIOUS
    <3>3. x \in Contexts /\ x.span <= Len(spans) /\ CtxGood(x, g)
      BY <3>1, <1>2, <1>3, <1>4 DEF CtxGood
    <3>4. n \in Nat  BY <3>2, <1>2
    <3>5. Call(kind, <<>>, x, 0, n, "running") \in Calls
      BY <3>3, <3>4 DEF Call, Calls, Entries
    <3>6. PICK c \in Calls : c = Call(kind, <<>>, x, 0, n, "running")  BY <3>5
    <3>7. FrameGood(c, g)'
      <4>1. c.own = 0 /\ c.ctx = x /\ c.step = "running"  BY <3>6 DEF Call
      <4> QED  BY <4>1, <3>3, <1>1, <1>3 DEF FrameGood, CtxGood
    <3>8. Push(g, c)  BY <2>1, <2>4, <3>1, <3>2, <3>6
    <3> QED  BY <2>2, <3>7, <3>8
  <2> QED  BY <2>3, <2>4
<1>8. /\ stack' \in [Goroutines -> Seq(Calls)]
      /\ \A h \in Goroutines : Frames(h)' = IF h = g THEN Frames(g) \cup {c} ELSE Frames(h)
  BY <1>7, PushFrames DEF IInv
<1>9. TypeOK'  BY <1>1, <1>7, <1>8 DEF IInv, TypeOK
<1>10. Contexts_OK'
  BY <1>1, <1>3, <1>7, <1>8, ContextsStay DEF IInv
<1>11. Linked'  BY <1>1 DEF IInv, Linked
<1>12. Kept'  BY <1>1, <1>8, KeptStays DEF IInv
<1> QED  BY <1>9, <1>10, <1>11, <1>12 DEF IInv

\* A span that is appended comes last and leaves the others as they are.
LEMMA AppendSpan ==
  ASSUME TypeOK, NEW s \in SpanRecords, spans' = Append(spans, s)
  PROVE  /\ spans' \in Seq(SpanRecords) /\ Len(spans) \in Nat
         /\ Len(spans') = Len(spans) + 1 /\ Len(spans') \in Nat
         /\ DOMAIN spans = 1 .. Len(spans) /\ DOMAIN spans' = 1 .. Len(spans) + 1
         /\ \A n \in DOMAIN spans : spans'[n] = spans[n]
         /\ spans'[Len(spans) + 1] = s
<1>1. spans \in Seq(SpanRecords)  BY DEF TypeOK
<1>2. Len(spans) \in Nat /\ DOMAIN spans = 1 .. Len(spans)  BY <1>1, LenProperties
<1>3. /\ spans' \in Seq(SpanRecords) /\ Len(spans') = Len(spans) + 1
      /\ \A n \in 1 .. Len(spans) : spans'[n] = spans[n]
      /\ spans'[Len(spans) + 1] = s
  BY <1>1, AppendProperties
<1> QED  BY <1>2, <1>3, LenProperties

\* The new span is a root or hangs on a recorded span of its trace.
LEMMA LinkedGrows ==
  ASSUME TypeOK, Linked, NEW s \in SpanRecords, spans' = Append(spans, s),
         s.parent # 0 => /\ s.parent <= Len(spans) /\ spans[s.parent].record
                         /\ spans[s.parent].trace = s.trace
  PROVE  Linked'
<1>1. /\ Len(spans) \in Nat
      /\ DOMAIN spans = 1 .. Len(spans) /\ DOMAIN spans' = 1 .. Len(spans) + 1
      /\ \A n \in DOMAIN spans : spans'[n] = spans[n] /\ spans[n] \in SpanRecords
      /\ spans'[Len(spans) + 1] = s
  BY AppendSpan, ElementOfSeq DEF TypeOK
<1> SUFFICES ASSUME NEW n \in DOMAIN spans', spans'[n].parent # 0
             PROVE  /\ spans'[n].parent < n /\ spans'[spans'[n].parent].record
                    /\ spans'[spans'[n].parent].trace = spans'[n].trace
  BY DEF Linked
<1>2. CASE n \in DOMAIN spans
  <2>1. spans'[n] = spans[n] /\ spans[n].parent \in Nat  BY <1>1, <1>2 DEF SpanRecords
  <2>2. /\ spans[n].parent < n /\ spans[spans[n].parent].record
        /\ spans[spans[n].parent].trace = spans[n].trace
    BY <1>2, <2>1 DEF Linked
  <2>3. spans[n].parent \in DOMAIN spans  BY <1>1, <1>2, <2>1, <2>2
  <2>4. spans'[spans[n].parent] = spans[spans[n].parent]  BY <1>1, <2>3
  <2> QED  BY <2>1, <2>2, <2>4
<1>3. CASE n = Len(spans) + 1
  <2>1. s.parent \in Nat /\ spans'[n] = s  BY <1>1, <1>3 DEF SpanRecords
  <2>2. s.parent # 0 /\ s.parent \in DOMAIN spans  BY <1>1, <2>1
  <2>3. spans'[s.parent] = spans[s.parent] /\ s.parent < n  BY <1>1, <1>3, <2>1, <2>2
  <2> QED  BY <2>1, <2>2, <2>3
<1>4. n \in DOMAIN spans \/ n = Len(spans) + 1  BY <1>1
<1> QED  BY <1>2, <1>3, <1>4

\* The new span has an owner, and no other span loses its own.
LEMMA KeptGrows ==
  ASSUME TypeOK, Kept, NEW s \in SpanRecords, spans' = Append(spans, s),
         on' = on, toggles' = toggles, exported' = exported,
         NEW g \in Goroutines, NEW c \in Frames(g)', c.own = Len(spans) + 1,
         \A h \in Goroutines : \A f \in Frames(h) : f.own # 0 => f \in Frames(h)'
  PROVE  Kept'
<1> SUFFICES ASSUME toggles = 0, on, NEW n \in DOMAIN spans', spans'[n].record
             PROVE  \/ \E e \in exported : e[1] = n
                    \/ \E h \in Goroutines : \E f \in Frames(h)' : f.own = n
  BY DEF Kept
<1>1. /\ Len(spans) \in Nat
      /\ DOMAIN spans = 1 .. Len(spans) /\ DOMAIN spans' = 1 .. Len(spans) + 1
      /\ \A k \in DOMAIN spans : spans'[k] = spans[k]
  BY AppendSpan
<1>2. CASE n \in DOMAIN spans
  <2>1. n # 0 /\ spans[n].record  BY <1>1, <1>2
  <2>2. \/ \E e \in exported : e[1] = n
        \/ \E h \in Goroutines : \E f \in Frames(h) : f.own = n
    BY <1>2, <2>1 DEF Kept
  <2> QED  BY <2>1, <2>2
<1>3. CASE n = Len(spans) + 1  BY <1>3
<1> QED  BY <1>1, <1>2, <1>3

\* The hook's span is a root, in the trace its context names if it names one.
LEMMA StartRootInvariant == ASSUME IInv, NEW g \in Goroutines, StartRoot(g)  PROVE IInv'
<1>1. /\ stack[g] # <<>> /\ Top(g).step = "starting"
      /\ on' = on /\ base' = base /\ exported' = exported /\ toggles' = toggles
      /\ disturbed' = disturbed
  BY DEF StartRoot
<1>2. Top(g) \in Frames(g) /\ Top(g) \in Calls  BY <1>1, TopIsFrame DEF IInv
<1>3. PICK top : top = Top(g)  OBVIOUS
<1>4. /\ top \in Calls /\ top.own = 0 /\ top.ctx \in Contexts /\ top.ctx.span \in Nat
      /\ top.ctx.trace \in Traces /\ top.entry \in Entries
      /\ top.ctx.span <= Len(spans) /\ (g \notin disturbed => on)
  BY <1>1, <1>2, <1>3 DEF IInv, Contexts_OK, FrameGood, Calls, Contexts
<1>5. Len(spans) \in Nat /\ DOMAIN spans = 1 .. Len(spans)
  BY LenProperties DEF IInv, TypeOK
<1>6. CASE ~on /\ UNCHANGED <<spans, ids>>
           /\ Replace(g, [Top(g) EXCEPT !.step = "running", !.sees = Seen(Top(g), 0)])
  <2>1. [top EXCEPT !.step = "running", !.sees = Seen(top, 0)] \in Calls
    BY <1>4 DEF Calls, Seen
  <2>2. PICK c \in Calls : c = [top EXCEPT !.step = "running", !.sees = Seen(top, 0)]
    BY <2>1
  <2>3. c.own = 0 /\ c.ctx = top.ctx /\ c.step = "running"  BY <1>4, <2>2 DEF Calls
  <2>4. FrameGood(c, g)'  BY <1>1, <1>4, <1>5, <1>6, <2>3 DEF FrameGood, CtxGood
  <2>5. /\ stack' \in [Goroutines -> Seq(Calls)]
        /\ \A h \in Goroutines : h # g => Frames(h)' = Frames(h)
        /\ Frames(g)' \subseteq Frames(g) \cup {c}
        /\ Frames(g) \subseteq Frames(g)' \cup {Top(g)}
    BY <1>1, <1>3, <1>6, <2>2, ReplaceFrames DEF IInv
  <2>6. TypeOK'  BY <1>1, <1>6, <2>5 DEF IInv, TypeOK
  <2>7. Contexts_OK'  BY <1>1, <1>5, <1>6, <2>4, <2>5, ContextsStay DEF IInv
  <2>8. Linked'  BY <1>6 DEF IInv, Linked
  <2>9. \A h \in Goroutines : \A f \in Frames(h) : f.own # 0 => f \in Frames(h)'
    BY <1>3, <1>4, <2>5
  <2>10. Kept'  BY <1>1, <1>6, <2>9, KeptStays DEF IInv
  <2> QED  BY <2>6, <2>7, <2>8, <2>10 DEF IInv
<1>7. CASE /\ on
           /\ \E record \in Recorded :
                spans' = Append(spans, Span(g, RootTrace(Top(g).ctx), 0, Top(g).entry, record))
           /\ ids' = IF RootTrace(Top(g).ctx) = Fresh THEN ids + 1 ELSE ids
           /\ Replace(g, Call(Top(g).kind, Top(g).entry,
                [Top(g).ctx EXCEPT !.span = Len(spans) + 1],
                Len(spans) + 1, Seen(Top(g), Len(spans) + 1), "running"))
  <2>1. PICK record \in Recorded :
          spans' = Append(spans, Span(g, RootTrace(top.ctx), 0, top.entry, record))
    BY <1>3, <1>7
  <2>2. PICK trace : trace = RootTrace(top.ctx)  OBVIOUS
  <2>3. trace \in Traces /\ (top.ctx.trace # NoTrace => trace = top.ctx.trace)
    BY <1>4, <2>2 DEF RootTrace, Fresh, Traces, IInv, TypeOK
  <2>4. record \in BOOLEAN  BY DEF Recorded
  <2>5. Span(g, trace, 0, top.entry, record) \in SpanRecords
    BY <1>4, <2>3, <2>4 DEF Span, SpanRecords
  <2>6. PICK s \in SpanRecords : s = Span(g, trace, 0, top.entry, record)  BY <2>5
  <2>7. s.parent = 0 /\ s.trace = trace  BY <2>6 DEF Span
  <2>8. spans' = Append(spans, s)  BY <2>1, <2>2, <2>6
  <2>9. /\ spans' \in Seq(SpanRecords) /\ Len(spans') = Len(spans) + 1 /\ Len(spans') \in Nat
        /\ \A n \in DOMAIN spans : spans'[n] = spans[n]
        /\ spans'[Len(spans) + 1] = s
    BY <2>8, AppendSpan DEF IInv
  <2>10. PICK x \in Contexts : x = [top.ctx EXCEPT !.span = Len(spans) + 1]
    <3>1. [top.ctx EXCEPT !.span = Len(spans) + 1] \in Contexts  BY <1>4, <1>5 DEF Contexts
    <3> QED  BY <3>1
  <2>11. PICK c \in Calls :
          c = Call(top.kind, top.entry, x, Len(spans) + 1, Seen(top, Len(spans) + 1), "running")
    <3>1. Seen(top, Len(spans) + 1) \in Nat  BY <1>5 DEF Seen
    <3>2. Call(top.kind, top.entry, x, Len(spans) + 1, Seen(top, Len(spans) + 1), "running")
            \in Calls
      BY <1>4, <1>5, <3>1 DEF Calls, Call
    <3> QED  BY <3>2
  <2>12. /\ c.own = Len(spans) + 1 /\ c.step = "running"
         /\ c.ctx.span = Len(spans) + 1 /\ c.ctx.trace = top.ctx.trace
    BY <1>4, <2>10, <2>11 DEF Call, Contexts
  <2>13. FrameGood(c, g)'
    <3>1. c.ctx.trace # NoTrace => spans'[c.ctx.span].trace = c.ctx.trace
      BY <2>3, <2>7, <2>9, <2>12
    <3>2. c.ctx.span # 0 /\ c.ctx.span <= Len(spans') /\ c.own <= Len(spans')
      BY <1>5, <2>9, <2>12
    <3> QED  BY <2>12, <3>1, <3>2 DEF FrameGood, CtxGood
  <2>14. /\ stack' \in [Goroutines -> Seq(Calls)]
         /\ \A h \in Goroutines : h # g => Frames(h)' = Frames(h)
         /\ c \in Frames(g)' /\ Frames(g)' \subseteq Frames(g) \cup {c}
         /\ Frames(g) \subseteq Frames(g)' \cup {Top(g)}
    BY <1>1, <1>3, <1>7, <2>10, <2>11, ReplaceFrames DEF IInv
  <2>15. ids' \in Nat  BY <1>7 DEF IInv, TypeOK
  <2>16. TypeOK'  BY <1>1, <2>9, <2>14, <2>15 DEF IInv, TypeOK
  <2>17. Contexts_OK'
    <3>1. Len(spans) <= Len(spans')  BY <1>5, <2>9
    <3> QED  BY <1>1, <2>9, <2>13, <2>14, <3>1, ContextsStay DEF IInv
  <2>18. Linked'  BY <2>7, <2>8, LinkedGrows DEF IInv
  <2>19. \A h \in Goroutines : \A f \in Frames(h) : f.own # 0 => f \in Frames(h)'
    BY <1>3, <1>4, <2>14
  <2>20. Kept'  BY <1>1, <2>8, <2>12, <2>14, <2>19, KeptGrows DEF IInv
  <2> QED  BY <2>16, <2>17, <2>18, <2>20 DEF IInv
<1> QED  BY <1>6, <1>7 DEF StartRoot

\* A child is of its parent's trace; without a recorded parent there is no child.
LEMMA StartSpanInvariant == ASSUME IInv, NEW g \in Goroutines, StartSpan(g)  PROVE IInv'
<1>1. /\ Running(g) /\ on' = on /\ base' = base /\ exported' = exported
      /\ toggles' = toggles /\ disturbed' = disturbed
  BY DEF StartSpan, Room
<1>2. PICK ctx : ctx = Ctx(g)  OBVIOUS
<1>3. /\ ctx \in Contexts /\ CtxGood(ctx, g) /\ ctx.span \in Nat /\ ctx.trace \in Traces
  BY <1>1, <1>2, CtxIsGood DEF IInv
<1>4. Len(spans) \in Nat /\ DOMAIN spans = 1 .. Len(spans) /\ ctx.span <= Len(spans)
  BY <1>3, LenProperties DEF IInv, TypeOK, CtxGood
<1>5. CASE Quiet(ctx) /\ UNCHANGED <<spans, ids>> /\ Push(g, Call("span", <<>>, ctx, 0, 0, "running"))
  <2>1. PICK c \in Calls : c = Call("span", <<>>, ctx, 0, 0, "running")
    <3>1. Call("span", <<>>, ctx, 0, 0, "running") \in Calls
      BY <1>3 DEF Call, Calls, Entries
    <3> QED  BY <3>1
  <2>2. c.own = 0 /\ c.ctx = ctx /\ c.step = "running"  BY <2>1 DEF Call
  <2>3. FrameGood(c, g)'  BY <1>1, <1>3, <1>4, <1>5, <2>2 DEF FrameGood, CtxGood
  <2>4. /\ stack' \in [Goroutines -> Seq(Calls)]
        /\ \A h \in Goroutines : Frames(h)' = IF h = g THEN Frames(g) \cup {c} ELSE Frames(h)
    BY <1>5, <2>1, PushFrames DEF IInv
  <2>5. TypeOK'  BY <1>1, <1>5, <2>4 DEF IInv, TypeOK
  <2>6. Contexts_OK'  BY <1>1, <1>4, <1>5, <2>3, <2>4, ContextsStay DEF IInv
  <2>7. Linked'  BY <1>5 DEF IInv, Linked
  <2>8. Kept'  BY <1>1, <1>5, <2>4, KeptStays DEF IInv
  <2> QED  BY <2>5, <2>6, <2>7, <2>8 DEF IInv
<1>6. CASE /\ ~Quiet(ctx)
           /\ spans' = Append(spans, Span(g, IF ctx.span # 0 THEN spans[ctx.span].trace ELSE Fresh,
                                         ctx.span, <<>>, TRUE))
           /\ ids' = IF ctx.span # 0 THEN ids ELSE ids + 1
           /\ Push(g, Call("span", <<>>, [ctx EXCEPT !.span = Len(spans) + 1],
                           Len(spans) + 1, 0, "running"))
  <2>1. PICK trace : trace = IF ctx.span # 0 THEN spans[ctx.span].trace ELSE Fresh  OBVIOUS
  <2>2. trace \in Traces
    <3>1. CASE ctx.span = 0  BY <2>1, <3>1 DEF Fresh, Traces, IInv, TypeOK
    <3>2. CASE ctx.span # 0
      <4>1. spans[ctx.span] \in SpanRecords
        BY <1>3, <1>4, <3>2, ElementOfSeq DEF IInv, TypeOK
      <4> QED  BY <2>1, <3>2, <4>1 DEF SpanRecords
    <3> QED  BY <3>1, <3>2
  <2>3. PICK s \in SpanRecords : s = Span(g, trace, ctx.span, <<>>, TRUE)
    <3>1. Span(g, trace, ctx.span, <<>>, TRUE) \in SpanRecords
      BY <1>3, <2>2 DEF Span, SpanRecords, Entries
    <3> QED  BY <3>1
  <2>4. s.parent = ctx.span /\ s.trace = trace  BY <2>3 DEF Span
  <2>5. spans' = Append(spans, s)  BY <1>6, <2>1, <2>3
  <2>6. /\ spans' \in Seq(SpanRecords) /\ Len(spans') = Len(spans) + 1 /\ Len(spans') \in Nat
        /\ \A n \in DOMAIN spans : spans'[n] = spans[n]
        /\ spans'[Len(spans) + 1] = s
    BY <2>5, AppendSpan DEF IInv
  <2>7. PICK x \in Contexts : x = [ctx EXCEPT !.span = Len(spans) + 1]
    <3>1. [ctx EXCEPT !.span = Len(spans) + 1] \in Contexts  BY <1>3, <1>4 DEF Contexts
    <3> QED  BY <3>1
  <2>8. PICK c \in Calls : c = Call("span", <<>>, x, Len(spans) + 1, 0, "running")
    <3>1. Call("span", <<>>, x, Len(spans) + 1, 0, "running") \in Calls
      BY <1>4 DEF Call, Calls, Entries
    <3> QED  BY <3>1
  <2>9. /\ c.own = Len(spans) + 1 /\ c.step = "running"
        /\ c.ctx.span = Len(spans) + 1 /\ c.ctx.trace = ctx.trace
    BY <1>3, <2>7, <2>8 DEF Call, Contexts
  <2>10. FrameGood(c, g)'
    <3>1. g \notin disturbed /\ ctx.trace # NoTrace => trace = ctx.trace
      BY <1>3, <2>1 DEF CtxGood
    <3>2. c.ctx.span # 0 /\ c.ctx.span <= Len(spans') /\ c.own <= Len(spans')
      BY <1>4, <2>6, <2>9
    <3>3. spans'[c.ctx.span].trace = trace  BY <2>4, <2>6, <2>9
    <3> QED  BY <1>1, <2>9, <3>1, <3>2, <3>3 DEF FrameGood, CtxGood
  <2>11. /\ stack' \in [Goroutines -> Seq(Calls)]
         /\ \A h \in Goroutines : Frames(h)' = IF h = g THEN Frames(g) \cup {c} ELSE Frames(h)
    BY <1>6, <2>7, <2>8, PushFrames DEF IInv
  <2>12. ids' \in Nat  BY <1>6 DEF IInv, TypeOK
  <2>13. TypeOK'  BY <1>1, <2>6, <2>11, <2>12 DEF IInv, TypeOK
  <2>14. Contexts_OK'
    <3>1. Len(spans) <= Len(spans')  BY <1>4, <2>6
    <3> QED  BY <1>1, <2>6, <2>10, <2>11, <3>1, ContextsStay DEF IInv
  <2>15. Linked'
    <3>1. s.parent # 0 => spans[s.parent].record  BY <1>6, <2>4 DEF Quiet
    <3>2. s.parent # 0 => s.trace = spans[s.parent].trace  BY <2>1, <2>4
    <3>3. s.parent <= Len(spans)  BY <1>4, <2>4
    <3> QED  BY <2>5, <3>1, <3>2, <3>3, LinkedGrows DEF IInv
  <2>16. Kept'  BY <1>1, <2>5, <2>9, <2>11, KeptGrows DEF IInv
  <2> QED  BY <2>13, <2>14, <2>15, <2>16 DEF IInv
<1> QED  BY <1>2, <1>5, <1>6 DEF StartSpan

\* A goroutine that is started has its starter's context, and its disturbance.
LEMMA SpawnInvariant ==
  ASSUME IInv, NEW g \in Goroutines, NEW h \in Goroutines, Spawn(g, h)  PROVE IInv'
<1>1. /\ Running(g) /\ spans' = spans /\ stack' = stack /\ on' = on /\ exported' = exported
      /\ ids' = ids /\ toggles' = toggles
      /\ base' = [base EXCEPT ![h] = Ctx(g)] /\ stack[h] = <<>>
      /\ disturbed' = disturbed \cup (IF g \in disturbed THEN {h} ELSE {})
  BY DEF Spawn
<1>2. Ctx(g) \in Contexts /\ CtxGood(Ctx(g), g)  BY <1>1, CtxIsGood DEF IInv
<1>3. TypeOK'  BY <1>1, <1>2 DEF IInv, TypeOK
<1>4. Linked'  BY <1>1 DEF IInv, Linked
<1>5. \A k \in Goroutines : Frames(k)' = Frames(k)  BY <1>1 DEF Frames
<1>6. Kept'  BY <1>1, <1>5, KeptStays DEF IInv
<1>7. ASSUME NEW k \in Goroutines, NEW f \in Frames(k)'  PROVE FrameGood(f, k)'
  <2>1. FrameGood(f, k)  BY <1>5 DEF IInv, Contexts_OK
  <2> QED  BY <1>1, <2>1 DEF FrameGood, CtxGood
<1>8. ASSUME NEW k \in Goroutines  PROVE CtxGood(base[k], k)'
  <2>1. CASE k = h
    <3>1. base'[k] = Ctx(g)  BY <1>1, <2>1 DEF IInv, TypeOK
    <3>2. k \notin disturbed' => g \notin disturbed  BY <1>1, <2>1
    <3> QED  BY <1>1, <1>2, <3>1, <3>2 DEF CtxGood
  <2>2. CASE k # h
    <3>1. base'[k] = base[k]  BY <1>1, <2>2 DEF IInv, TypeOK
    <3>2. CtxGood(base[k], k)  BY DEF IInv, Contexts_OK
    <3> QED  BY <1>1, <3>1, <3>2 DEF CtxGood
  <2> QED  BY <2>1, <2>2
<1> QED  BY <1>3, <1>4, <1>6, <1>7, <1>8 DEF IInv, Contexts_OK

\* endSpan forgets no export, and adds that of a recorded span while the runtime is on.
LEMMA ExportedHas ==
  ASSUME NEW s, NEW all
  PROVE  /\ exported \subseteq Exported(s, all)
         /\ s # 0 /\ on /\ all[s].record => \E e \in Exported(s, all) : e[1] = s
<1>1. exported \subseteq Exported(s, all)  BY DEF Exported
<1>2. ASSUME s # 0, on, all[s].record  PROVE \E e \in Exported(s, all) : e[1] = s
  <2>1. s \in {k \in {s} : all[k].record}  BY <1>2
  <2>2. <<s, all[s]>> \in Exported(s, all)  BY <1>2, <2>1 DEF Exported
  <2> QED  BY <2>2
<1> QED  BY <1>1, <1>2

\* A call that ends exports the span it owned.
LEMMA KeptEnds ==
  ASSUME TypeOK, Kept, NEW g \in Goroutines, NEW all,
         DOMAIN spans' = DOMAIN spans,
         \A n \in DOMAIN spans : /\ spans'[n].record = spans[n].record
                                 /\ all[n].record = spans[n].record,
         on' = on, toggles' = toggles, exported' = Exported(Top(g).own, all),
         \A h \in Goroutines : Frames(h) \subseteq Frames(h)' \cup {Top(g)}
  PROVE  Kept'
<1> SUFFICES ASSUME toggles = 0, on, NEW n \in DOMAIN spans, spans[n].record
             PROVE  \/ \E e \in exported' : e[1] = n
                    \/ \E h \in Goroutines : \E f \in Frames(h)' : f.own = n
  BY DEF Kept
<1>1. n # 0 /\ all[n].record  BY LenProperties DEF TypeOK
<1>2. \/ \E e \in exported : e[1] = n
      \/ \E h \in Goroutines : \E f \in Frames(h) : f.own = n
  BY DEF Kept
<1>3. CASE \E e \in exported : e[1] = n  BY <1>3, ExportedHas
<1>4. CASE \E h \in Goroutines : \E f \in Frames(h) : f.own = n
  <2>1. PICK h \in Goroutines, f \in Calls \cup {Top(g)} : f \in Frames(h) /\ f.own = n
    BY <1>4, FramesAreCalls
  <2>2. CASE f \in Frames(h)'  BY <2>1, <2>2
  <2>3. CASE f = Top(g)
    <3>1. \E e \in Exported(n, all) : e[1] = n  BY <1>1, ExportedHas
    <3> QED  BY <2>1, <2>3, <3>1
  <2> QED  BY <2>1, <2>2, <2>3
<1> QED  BY <1>2, <1>3, <1>4

\* The end of a span writes to none.
LEMMA EndSpanInvariant == ASSUME IInv, NEW g \in Goroutines, EndSpan(g)  PROVE IInv'
<1>1. /\ stack[g] # <<>> /\ exported' = Exported(Top(g).own, spans) /\ Pop(g)
      /\ on' = on /\ spans' = spans /\ base' = base /\ ids' = ids /\ toggles' = toggles
      /\ disturbed' = disturbed
  BY DEF EndSpan
<1>2. /\ stack' \in [Goroutines -> Seq(Calls)]
      /\ \A h \in Goroutines : Frames(h)' \subseteq Frames(h)
      /\ \A h \in Goroutines : Frames(h) \subseteq Frames(h)' \cup {Top(g)}
  BY <1>1, PopFrames DEF IInv
<1>3. Top(g) \in Frames(g) /\ Len(spans) \in Nat
  BY <1>1, TopIsFrame, LenProperties DEF IInv, TypeOK
<1>4. TypeOK'  BY <1>1, <1>2 DEF IInv, TypeOK
<1>5. Contexts_OK'
  <2>1. PICK c : c = Top(g)  OBVIOUS
  <2> QED  BY <1>1, <1>2, <1>3, <2>1, ContextsStay DEF IInv
<1>6. Linked'  BY <1>1 DEF IInv, Linked
<1>7. Kept'  BY <1>1, <1>2, KeptEnds DEF IInv
<1> QED  BY <1>4, <1>5, <1>6, <1>7 DEF IInv

\* What a hook writes to a span is its name, its status and how it ended.
LEMMA WrittenSpans ==
  ASSUME TypeOK, NEW call \in Calls, NEW result \in {"ok", "error", "plain", "panic"}
  PROVE  /\ Written(call, result) \in Seq(SpanRecords)
         /\ DOMAIN Written(call, result) = DOMAIN spans
         /\ Len(Written(call, result)) = Len(spans)
         /\ \A n \in DOMAIN spans :
              /\ Written(call, result)[n].record = spans[n].record
              /\ Written(call, result)[n].trace = spans[n].trace
              /\ Written(call, result)[n].parent = spans[n].parent
<1>1. /\ spans \in Seq(SpanRecords) /\ Len(spans) \in Nat /\ DOMAIN spans = 1 .. Len(spans)
      /\ \A n \in DOMAIN spans : spans[n] \in SpanRecords
  BY LenProperties, ElementOfSeq DEF TypeOK
<1> DEFINE w == Written(call, result)
<1>2. ASSUME NEW n \in DOMAIN spans
      PROVE  /\ w[n] \in SpanRecords /\ w[n].record = spans[n].record
             /\ w[n].trace = spans[n].trace /\ w[n].parent = spans[n].parent
  <2>1. PICK status, name, res :
          /\ status = IF n = call.sees /\ Failed(result) THEN "error" ELSE spans[n].status
          /\ name = IF n = call.sees /\ call.entry # <<>> /\ call.kind \in {"http", "echo"}
                       /\ result # "panic"
                    THEN call.entry ELSE spans[n].name
          /\ res = IF n = call.own THEN result ELSE spans[n].result
    OBVIOUS
  <2>2. w[n] = [spans[n] EXCEPT !.status = status, !.name = name, !.result = res]
    BY <2>1 DEF Written
  <2>3. status \in {"ok", "error"}  BY <1>1, <2>1 DEF SpanRecords
  <2>4. name \in Entries  BY <1>1, <2>1 DEF SpanRecords, Calls
  <2>5. res \in {"", "ok", "error", "plain", "panic"}  BY <1>1, <2>1 DEF SpanRecords
  <2> HIDE DEF w
  <2> QED  BY <1>1, <2>2, <2>3, <2>4, <2>5 DEF SpanRecords
<1>3. DOMAIN w = DOMAIN spans  BY DEF Written
<1>4. w \in [1 .. Len(spans) -> SpanRecords]
  <2>1. w = [n \in DOMAIN spans |-> w[n]]  BY DEF Written
  <2> HIDE DEF w
  <2> QED  BY <1>1, <1>2, <2>1
<1> HIDE DEF w
<1>5. w \in Seq(SpanRecords) /\ Len(w) = Len(spans)  BY <1>1, <1>4, <1>3
<1> QED  BY <1>2, <1>3, <1>5 DEF w

\* A hook that returns changes no trace, parent or sampling, and exports what it owned.
LEMMA ReturnInvariant ==
  ASSUME IInv, NEW g \in Goroutines, NEW result \in {"ok", "error", "plain", "panic"},
         Return(g, result)
  PROVE  IInv'
<1>1. /\ stack[g] # <<>> /\ Pop(g) /\ spans' = Written(Top(g), result)
      /\ exported' = Exported(Top(g).own, Written(Top(g), result))
      /\ on' = on /\ base' = base /\ ids' = ids /\ toggles' = toggles
      /\ disturbed' = disturbed
  BY DEF Return, Ended
<1>2. /\ stack' \in [Goroutines -> Seq(Calls)]
      /\ \A h \in Goroutines : Frames(h)' \subseteq Frames(h)
      /\ \A h \in Goroutines : Frames(h) \subseteq Frames(h)' \cup {Top(g)}
  BY <1>1, PopFrames DEF IInv
<1>3. Top(g) \in Frames(g) /\ Top(g) \in Calls  BY <1>1, TopIsFrame DEF IInv
<1>4. /\ spans' \in Seq(SpanRecords) /\ DOMAIN spans' = DOMAIN spans /\ Len(spans') = Len(spans)
      /\ \A n \in DOMAIN spans : /\ spans'[n].record = spans[n].record
                                /\ spans'[n].trace = spans[n].trace
                                /\ spans'[n].parent = spans[n].parent
  BY <1>1, <1>3, WrittenSpans DEF IInv
<1>5. /\ Len(spans) \in Nat /\ DOMAIN spans = 1 .. Len(spans)
      /\ \A n \in DOMAIN spans : spans[n].parent \in Nat
  <2>1. spans \in Seq(SpanRecords) /\ Len(spans) \in Nat /\ DOMAIN spans = 1 .. Len(spans)
    BY LenProperties DEF IInv, TypeOK
  <2>2. \A n \in DOMAIN spans : spans[n] \in SpanRecords  BY <2>1, ElementOfSeq
  <2> QED  BY <2>1, <2>2 DEF SpanRecords
<1>6. TypeOK'  BY <1>1, <1>2, <1>4 DEF IInv, TypeOK
<1>7. Contexts_OK'
  <2>1. PICK c : c = Top(g)  OBVIOUS
  <2> QED  BY <1>1, <1>2, <1>3, <1>4, <1>5, <2>1, ContextsStay DEF IInv
<1>8. Linked'
  <2> SUFFICES ASSUME NEW n \in DOMAIN spans, spans[n].parent # 0
               PROVE  /\ spans[n].parent < n /\ spans'[spans[n].parent].record
                      /\ spans'[spans[n].parent].trace = spans'[n].trace
    BY <1>4 DEF Linked
  <2>1. /\ spans[n].parent < n /\ spans[spans[n].parent].record
        /\ spans[spans[n].parent].trace = spans[n].trace
    BY DEF IInv, Linked
  <2>2. spans[n].parent \in DOMAIN spans  BY <1>5, <2>1
  <2> QED  BY <1>4, <2>1, <2>2
<1>9. Kept'  BY <1>1, <1>2, <1>4, KeptEnds DEF IInv
<1> QED  BY <1>6, <1>7, <1>8, <1>9 DEF IInv

\* Each action keeps the invariant.
LEMMA NextInvariant == IInv /\ [Next]_vars => IInv'
<1> SUFFICES ASSUME IInv, [Next]_vars  PROVE IInv'  OBVIOUS
<1>1. CASE Toggle  BY <1>1, ToggleInvariant
<1>2. CASE \E g \in Goroutines : Enter(g)  BY <1>2, EnterInvariant
<1>3. CASE \E g \in Goroutines : StartRoot(g)  BY <1>3, StartRootInvariant
<1>4. CASE \E g \in Goroutines : StartSpan(g)  BY <1>4, StartSpanInvariant
<1>5. CASE \E g \in Goroutines : EndSpan(g)  BY <1>5, EndSpanInvariant
<1>6. CASE \E g \in Goroutines : \E h \in Goroutines \ {g} : Spawn(g, h)
  BY <1>6, SpawnInvariant
<1>7. CASE \E g \in Goroutines : \E result \in {"ok", "error", "plain", "panic"} :
             Return(g, result)
  BY <1>7, ReturnInvariant
<1>8. CASE UNCHANGED vars
  <2>1. /\ on' = on /\ spans' = spans /\ stack' = stack /\ base' = base
        /\ exported' = exported /\ ids' = ids /\ toggles' = toggles /\ disturbed' = disturbed
    BY <1>8 DEF vars
  <2>2. \A g \in Goroutines : Frames(g)' = Frames(g)  BY <2>1 DEF Frames
  <2>3. TypeOK' /\ Linked'  BY <2>1 DEF IInv, TypeOK, Linked
  <2>4. Kept'  BY <2>1, <2>2, KeptStays DEF IInv
  <2>5. Contexts_OK'  BY <2>1, <2>2 DEF IInv, Contexts_OK, FrameGood, CtxGood
  <2> QED  BY <2>3, <2>4, <2>5 DEF IInv
<1> QED  BY <1>1, <1>2, <1>3, <1>4, <1>5, <1>6, <1>7, <1>8 DEF Next

\* What is recorded and not exported would be owned by a call under way; and the context of
\* an undisturbed goroutine agrees with its span.
LEMMA InvariantSuffices == IInv => TypeOK /\ TreesWhole /\ OneTrace
<1> SUFFICES ASSUME IInv  PROVE TreesWhole /\ OneTrace  BY DEF IInv
<1>1. TreesWhole
  <2>1. ASSUME \A g \in Goroutines : stack[g] = <<>>  PROVE \A g \in Goroutines : Frames(g) = {}
    <3> SUFFICES ASSUME NEW g \in Goroutines  PROVE Frames(g) = {}  OBVIOUS
    <3>1. stack[g] = <<>> /\ DOMAIN <<>> = {}  BY <2>1
    <3> QED  BY <3>1 DEF Frames
  <2> QED  BY <2>1 DEF IInv, Linked, Kept, TreesWhole
<1>2. OneTrace
  <2> SUFFICES ASSUME NEW g \in Goroutines \ disturbed, Running(g), Ctx(g).trace # NoTrace
               PROVE  Ctx(g).span # 0 /\ spans[Ctx(g).span].trace = Ctx(g).trace
    BY DEF OneTrace
  <2> QED  BY CtxIsGood DEF IInv, CtxGood
<1> QED  BY <1>1, <1>2

-------------------------------------------------------------------------------
(* Which hook writes to which span.  The entry of a call names its place in the  *)
(* stacks, so that a hook and the span it owns can be told from all others.      *)

\* The call f at place i of goroutine h.  A span that a hook owns bears its entry, and as
\* long as the runtime was not turned off under the goroutine nobody wrote to it.
OwnGood(f, h, i) ==
  /\ f.sees <= Len(spans)
  /\ f.step = "starting" => f.kind # "span" /\ f.entry = <<h, i>>
  /\ f.own # 0 =>
       /\ on \/ h \in disturbed
       /\ f.kind = "span" => spans[f.own].entry = <<>>
       /\ f.kind # "span" =>
            /\ f.sees = f.own /\ f.entry = <<h, i>>
            /\ spans[f.own].entry = f.entry /\ spans[f.own].by = h
            /\ h \notin disturbed => spans[f.own].name = f.entry /\ spans[f.own].status = "ok"

Owners == \A h \in Goroutines : \A i \in DOMAIN stack[h] : OwnGood(stack[h][i], h, i)

\* No hook sees the span of another, unless the runtime was off when it looked.
SeenByOwner ==
  \A h \in Goroutines \ disturbed, x \in Goroutines :
    \A i \in DOMAIN stack[h], j \in DOMAIN stack[x] :
      stack[h][i].own # 0 /\ stack[h][i].kind # "span" /\ stack[x][j].sees = stack[h][i].own
        => x = h /\ j = i

OwnInv == Owners /\ SeenByOwner /\ OwnStatus

\* The call at a place is one of the goroutine's, and its span is there.
LEMMA CallAt ==
  ASSUME IInv, NEW h \in Goroutines, NEW i \in DOMAIN stack[h]
  PROVE  /\ stack[h][i] \in Calls /\ stack[h][i].own \in Nat /\ stack[h][i].sees \in Nat
         /\ stack[h][i].own <= Len(spans) /\ Len(spans) \in Nat /\ DOMAIN spans = 1 .. Len(spans)
         /\ stack[h][i].own # 0 => stack[h][i].own \in DOMAIN spans
<1>1. stack[h][i] \in Frames(h)  BY DEF Frames
<1>2. stack[h][i] \in Calls /\ FrameGood(stack[h][i], h)
  BY <1>1, FramesAreCalls DEF IInv, Contexts_OK
<1>3. /\ stack[h][i].own \in Nat /\ stack[h][i].sees \in Nat
      /\ stack[h][i].own <= Len(spans)
  BY <1>2 DEF Calls, FrameGood
<1>4. Len(spans) \in Nat /\ DOMAIN spans = 1 .. Len(spans)  BY LenProperties DEF IInv, TypeOK
<1>5. stack[h][i].own # 0 => stack[h][i].own \in DOMAIN spans  BY <1>3, <1>4
<1> QED  BY <1>2, <1>3, <1>4, <1>5

\* Push leaves every call at its place and puts the new one behind.
LEMMA PushAt ==
  ASSUME TypeOK, NEW g \in Goroutines, NEW c \in Calls, Push(g, c)
  PROVE  \A h \in Goroutines : \A i \in DOMAIN stack'[h] :
           \/ h = g /\ i = Len(stack[g]) + 1 /\ stack'[h][i] = c
           \/ i \in DOMAIN stack[h] /\ stack'[h][i] = stack[h][i]
<1>1. stack[g] \in Seq(Calls) /\ stack \in [Goroutines -> Seq(Calls)]  BY DEF TypeOK
<1> DEFINE s == Append(stack[g], c)
           n == Len(stack[g])
<1>2. /\ n \in Nat /\ DOMAIN stack[g] = 1 .. n /\ DOMAIN s = 1 .. n + 1
      /\ \A i \in 1 .. n : s[i] = stack[g][i]
      /\ s[n + 1] = c
  BY <1>1, AppendProperties, LenProperties
<1>3. stack' = [stack EXCEPT ![g] = s]  BY DEF Push
<1> HIDE DEF s
<1>4. stack'[g] = s /\ \A h \in Goroutines : h # g => stack'[h] = stack[h]  BY <1>1, <1>3
<1> HIDE DEF n
<1>5. \A i \in DOMAIN s : i = n + 1 \/ i \in 1 .. n  BY <1>2
<1>6. ASSUME NEW i \in DOMAIN stack'[g]
      PROVE  \/ i = n + 1 /\ stack'[g][i] = c
             \/ i \in DOMAIN stack[g] /\ stack'[g][i] = stack[g][i]
  BY <1>2, <1>4, <1>5
<1>7. ASSUME NEW h \in Goroutines, h # g, NEW i \in DOMAIN stack'[h]
      PROVE  i \in DOMAIN stack[h] /\ stack'[h][i] = stack[h][i]
  BY <1>4, <1>7
<1> QED  BY <1>6, <1>7 DEF n

\* Replace puts another call at the last place.
LEMMA ReplaceAt ==
  ASSUME TypeOK, NEW g \in Goroutines, stack[g] # <<>>, NEW c \in Calls, Replace(g, c)
  PROVE  \A h \in Goroutines : \A i \in DOMAIN stack'[h] :
           \/ h = g /\ i = Len(stack[g]) /\ stack'[h][i] = c
           \/ i \in DOMAIN stack[h] /\ stack'[h][i] = stack[h][i]
<1>1. stack[g] \in Seq(Calls) /\ stack \in [Goroutines -> Seq(Calls)]  BY DEF TypeOK
<1> DEFINE n == Len(stack[g])
           s == [stack[g] EXCEPT ![n] = c]
<1>2. /\ n \in Nat \ {0} /\ DOMAIN stack[g] = 1 .. n
  BY <1>1, EmptySeq, LenProperties
<1>3. /\ DOMAIN s = 1 .. n
      /\ \A i \in 1 .. n : s[i] = IF i = n THEN c ELSE stack[g][i]
  BY <1>1, <1>2, ExceptSeq
<1>4. stack' = [stack EXCEPT ![g] = s]  BY DEF Replace
<1> HIDE DEF s
<1>5. stack'[g] = s /\ \A h \in Goroutines : h # g => stack'[h] = stack[h]  BY <1>1, <1>4
<1> HIDE DEF n
<1>6. ASSUME NEW i \in DOMAIN stack'[g]
      PROVE  \/ i = n /\ stack'[g][i] = c
             \/ i \in DOMAIN stack[g] /\ stack'[g][i] = stack[g][i]
  BY <1>2, <1>3, <1>5
<1>7. ASSUME NEW h \in Goroutines, h # g, NEW i \in DOMAIN stack'[h]
      PROVE  i \in DOMAIN stack[h] /\ stack'[h][i] = stack[h][i]
  BY <1>5, <1>7
<1> QED  BY <1>6, <1>7 DEF n

\* Pop takes the last place away and leaves the others.
LEMMA PopAt ==
  ASSUME TypeOK, NEW g \in Goroutines, stack[g] # <<>>, Pop(g)
  PROVE  \A h \in Goroutines : \A i \in DOMAIN stack'[h] :
           /\ i \in DOMAIN stack[h] /\ stack'[h][i] = stack[h][i]
           /\ h = g => i # Len(stack[g])
<1>1. stack[g] \in Seq(Calls) /\ stack \in [Goroutines -> Seq(Calls)]  BY DEF TypeOK
<1> DEFINE n == Len(stack[g])
           s == SubSeq(stack[g], 1, n - 1)
<1>2. n \in Nat \ {0} /\ DOMAIN stack[g] = 1 .. n  BY <1>1, EmptySeq, LenProperties
<1>3. DOMAIN s = 1 .. n - 1 /\ \A i \in 1 .. n - 1 : s[i] = stack[g][i]
  <2>1. \A i \in 1 .. n - 1 : stack[g][i] \in Calls  BY <1>1, <1>2, ElementOfSeq
  <2>2. /\ s \in Seq(Calls)
        /\ Len(s) = IF 1 <= n - 1 THEN n - 1 - 1 + 1 ELSE 0
        /\ \A i \in 1 .. n - 1 - 1 + 1 : s[i] = stack[g][1 + i - 1]
    BY <1>2, <2>1, SubSeqProperties
  <2> HIDE DEF s
  <2>3. Len(s) = n - 1 /\ DOMAIN s = 1 .. Len(s)  BY <1>2, <2>2, LenProperties
  <2> QED  BY <1>2, <2>2, <2>3
<1>4. stack' = [stack EXCEPT ![g] = s]  BY DEF Pop
<1> HIDE DEF s
<1>5. stack'[g] = s /\ \A h \in Goroutines : h # g => stack'[h] = stack[h]  BY <1>1, <1>4
<1> HIDE DEF n
<1>6. ASSUME NEW i \in DOMAIN stack'[g]
      PROVE  i \in DOMAIN stack[g] /\ stack'[g][i] = stack[g][i] /\ i # n
  BY <1>2, <1>3, <1>5
<1>7. ASSUME NEW h \in Goroutines, h # g, NEW i \in DOMAIN stack'[h]
      PROVE  i \in DOMAIN stack[h] /\ stack'[h][i] = stack[h][i]
  BY <1>5, <1>7
<1> QED  BY <1>6, <1>7 DEF n

\* A call keeps what is true of it and its span while nobody writes to that span.
LEMMA OwnStays ==
  ASSUME IInv, NEW h \in Goroutines, NEW i \in DOMAIN stack[h],
         stack'[h][i] = stack[h][i], OwnGood(stack[h][i], h, i),
         Len(spans) <= Len(spans'), Len(spans') \in Nat, disturbed \subseteq disturbed',
         on' = on \/ h \in disturbed',
         \A n \in DOMAIN spans :
           spans'[n].entry = spans[n].entry /\ spans'[n].by = spans[n].by,
         stack[h][i].own # 0 /\ stack[h][i].kind # "span" /\ h \notin disturbed' =>
           /\ spans'[stack[h][i].own].name = spans[stack[h][i].own].name
           /\ spans'[stack[h][i].own].status = spans[stack[h][i].own].status
  PROVE  OwnGood(stack[h][i], h, i)'
<1>1. PICK f : f = stack[h][i]  OBVIOUS
<1>2. /\ f.own \in Nat /\ f.sees \in Nat /\ Len(spans) \in Nat
      /\ f.own # 0 => f.own \in DOMAIN spans
  BY <1>1, CallAt
<1>3. f.sees <= Len(spans')  BY <1>1, <1>2 DEF OwnGood
<1>4. ASSUME f.own # 0
      PROVE  /\ on' \/ h \in disturbed'
             /\ f.kind = "span" => spans'[f.own].entry = <<>>
             /\ f.kind # "span" =>
                  /\ f.sees = f.own /\ f.entry = <<h, i>>
                  /\ spans'[f.own].entry = f.entry /\ spans'[f.own].by = h
                  /\ h \notin disturbed' =>
                       spans'[f.own].name = f.entry /\ spans'[f.own].status = "ok"
  BY <1>1, <1>2, <1>4 DEF OwnGood
<1>5. f.step = "starting" => f.kind # "span" /\ f.entry = <<h, i>>  BY <1>1 DEF OwnGood
<1> QED  BY <1>1, <1>3, <1>4, <1>5 DEF OwnGood

\* A step of one goroutine that puts one call at place n, perhaps with a new span.
LEMMA OwnersGrow ==
  ASSUME IInv, Owners, SeenByOwner, NEW g \in Goroutines, NEW n, NEW c,
         on' = on, disturbed' = disturbed,
         Len(spans) <= Len(spans'), Len(spans') \in Nat,
         \A k \in DOMAIN spans : spans'[k] = spans[k],
         \A h \in Goroutines : \A i \in DOMAIN stack'[h] :
           \/ h = g /\ i = n /\ stack'[h][i] = c
           \/ i \in DOMAIN stack[h] /\ stack'[h][i] = stack[h][i],
         OwnGood(c, g, n)',
         c.own = 0 \/ c.kind = "span" \/ c.own = Len(spans) + 1,
         on => c.sees = 0 \/ c.sees = Len(spans) + 1
  PROVE  Owners' /\ SeenByOwner'
<1>1. Owners'
  <2> SUFFICES ASSUME NEW h \in Goroutines, NEW i \in DOMAIN stack'[h]
               PROVE  OwnGood(stack[h][i], h, i)'
    BY DEF Owners
  <2>1. CASE h = g /\ i = n /\ stack'[h][i] = c  BY <2>1 DEF OwnGood
  <2>2. CASE i \in DOMAIN stack[h] /\ stack'[h][i] = stack[h][i]
    <3>1. OwnGood(stack[h][i], h, i)  BY <2>2 DEF Owners
    <3>2. stack[h][i].own # 0 => stack[h][i].own \in DOMAIN spans  BY <2>2, CallAt
    <3> QED  BY <2>2, <3>1, <3>2, OwnStays
  <2> QED  BY <2>1, <2>2
<1>2. SeenByOwner'
  <2> SUFFICES ASSUME NEW h \in Goroutines \ disturbed, NEW x \in Goroutines,
                      NEW i \in DOMAIN stack'[h], NEW j \in DOMAIN stack'[x],
                      stack'[h][i].own # 0, stack'[h][i].kind # "span",
                      stack'[x][j].sees = stack'[h][i].own
               PROVE  x = h /\ j = i
    BY DEF SeenByOwner
  <2>1. CASE i \in DOMAIN stack[h] /\ stack'[h][i] = stack[h][i]
    <3>1. stack[h][i].own <= Len(spans) /\ stack[h][i].own \in Nat /\ Len(spans) \in Nat
      BY <2>1, CallAt
    <3>2. on  BY <2>1 DEF Owners, OwnGood
    <3>3. CASE j \in DOMAIN stack[x] /\ stack'[x][j] = stack[x][j]
      BY <2>1, <3>3 DEF SeenByOwner
    <3>4. CASE stack'[x][j] = c  BY <2>1, <3>1, <3>2, <3>4
    <3> QED  BY <3>3, <3>4
  <2>2. CASE h = g /\ i = n /\ stack'[h][i] = c
    <3>1. c.own = Len(spans) + 1  BY <2>2
    <3>2. CASE j \in DOMAIN stack[x] /\ stack'[x][j] = stack[x][j]
      <4>1. stack[x][j].sees <= Len(spans)  BY <3>2 DEF Owners, OwnGood
      <4>2. stack[x][j].sees \in Nat /\ Len(spans) \in Nat  BY <3>2, CallAt
      <4> QED  BY <2>2, <3>1, <3>2, <4>1, <4>2
    <3>3. CASE x = g /\ j = n  BY <2>2, <3>3
    <3> QED  BY <3>2, <3>3
  <2> QED  BY <2>1, <2>2
<1> QED  BY <1>1, <1>2

\* No export is added.
LEMMA StatusStays ==
  ASSUME OwnStatus, exported' = exported, disturbed \subseteq disturbed'
  PROVE  OwnStatus'
BY DEF OwnStatus

\* A hook's call owns no span yet, and one that found the runtime off sees a span whose
\* owner was turned off too.
LEMMA EnterOwn == ASSUME IInv, OwnInv, NEW g \in Goroutines, Enter(g)  PROVE OwnInv'
<1>1. /\ Running(g) /\ spans' = spans /\ exported' = exported
      /\ on' = on /\ disturbed' = disturbed
  BY DEF Enter, Room
<1>2. Ctx(g) \in Contexts /\ CtxGood(Ctx(g), g) /\ Ctx(g).span \in Nat
  BY <1>1, CtxIsGood DEF IInv
<1>3. /\ Background \in Contexts /\ Background.span = 0
      /\ Len(spans) \in Nat /\ Len(stack[g]) \in Nat
  BY LenProperties DEF Background, Contexts, Traces, IInv, TypeOK
<1>4. Ctx(g).span <= Len(spans)  BY <1>2 DEF CtxGood
<1>5. PICK kind \in Hooks, sent \in BOOLEAN :
       \/ /\ on
          /\ Push(g, Call(kind, Entry(g), HookCtx(g, kind, sent), 0, 0, "starting"))
       \/ /\ ~on
          /\ Push(g, Call(kind, <<>>, IF kind = "cli" THEN Background ELSE Ctx(g), 0,
                          IF kind = "echo" THEN Ctx(g).span ELSE 0, "running"))
  BY DEF Enter
<1>6. kind # "span"  BY TracingAssumption
<1>7. PICK n : n = Len(stack[g]) + 1  OBVIOUS
<1>8. PICK c \in Calls : /\ Push(g, c) /\ c.own = 0
                         /\ OwnGood(c, g, n)' /\ (on => c.sees = 0)
  <2>1. CASE on
    <3>1. PICK x : x = HookCtx(g, kind, sent)  OBVIOUS
    <3>2. x \in Contexts
      <4>1. CASE kind = "cli"  BY <3>1, <4>1, <1>3 DEF HookCtx
      <4>2. CASE kind = "job"  BY <3>1, <4>2, <1>2 DEF HookCtx
      <4>3. CASE kind \notin {"cli", "job"}
        <5>1. x = [Ctx(g) EXCEPT !.trace = IF sent THEN Incoming(g) ELSE Fresh]
          BY <3>1, <4>3 DEF HookCtx
        <5>2. Fresh \in Traces /\ Incoming(g) \in Traces
          BY DEF Fresh, Incoming, Traces, IInv, TypeOK
        <5> QED  BY <5>1, <5>2, <1>2 DEF Contexts
      <4> QED  BY <4>1, <4>2, <4>3
    <3>3. Entry(g) = <<g, n>> /\ Entry(g) \in Entries  BY <1>3, <1>7 DEF Entry, Entries
    <3>4. PICK c \in Calls : c = Call(kind, <<g, n>>, x, 0, 0, "starting")
      <4>1. Call(kind, <<g, n>>, x, 0, 0, "starting") \in Calls  BY <3>2, <3>3 DEF Call, Calls
      <4> QED  BY <4>1
    <3>5. /\ c.own = 0 /\ c.sees = 0 /\ c.kind = kind /\ c.entry = <<g, n>>
      BY <3>4 DEF Call
    <3>6. OwnGood(c, g, n)'  BY <1>1, <1>3, <1>6, <3>5 DEF OwnGood
    <3> QED  BY <1>5, <2>1, <3>1, <3>3, <3>4, <3>5, <3>6
  <2>2. CASE ~on
    <3>1. PICK x : x = IF kind = "cli" THEN Background ELSE Ctx(g)  OBVIOUS
    <3>2. PICK m : m = IF kind = "echo" THEN Ctx(g).span ELSE 0  OBVIOUS
    <3>3. x \in Contexts /\ m \in Nat /\ m <= Len(spans)  BY <1>2, <1>3, <1>4, <3>1, <3>2
    <3>4. PICK c \in Calls : c = Call(kind, <<>>, x, 0, m, "running")
      <4>1. Call(kind, <<>>, x, 0, m, "running") \in Calls  BY <3>3 DEF Call, Calls, Entries
      <4> QED  BY <4>1
    <3>5. c.own = 0 /\ c.sees = m /\ c.step = "running"  BY <3>4 DEF Call
    <3>6. OwnGood(c, g, n)'  BY <1>1, <3>3, <3>5 DEF OwnGood
    <3> QED  BY <1>5, <2>2, <3>1, <3>2, <3>4, <3>5, <3>6
  <2> QED  BY <2>1, <2>2
<1>9. \A h \in Goroutines : \A i \in DOMAIN stack'[h] :
        \/ h = g /\ i = n /\ stack'[h][i] = c
        \/ i \in DOMAIN stack[h] /\ stack'[h][i] = stack[h][i]
  BY <1>7, <1>8, PushAt DEF IInv
<1>10. Owners' /\ SeenByOwner'
  <2>1. Len(spans) <= Len(spans') /\ Len(spans') \in Nat  BY <1>1, <1>3
  <2> QED  BY <1>1, <1>8, <1>9, <2>1, OwnersGrow DEF OwnInv
<1> QED  BY <1>1, <1>10, StatusStays DEF OwnInv

\* The span a hook starts is new: only its own call sees it.
LEMMA StartRootOwn == ASSUME IInv, OwnInv, NEW g \in Goroutines, StartRoot(g)  PROVE OwnInv'
<1>1. /\ stack[g] # <<>> /\ Top(g).step = "starting"
      /\ on' = on /\ exported' = exported /\ disturbed' = disturbed
  BY DEF StartRoot
<1>2. PICK n : n = Len(stack[g])  OBVIOUS
<1>3. PICK top : top = Top(g)  OBVIOUS
<1>4. /\ n \in DOMAIN stack[g] /\ top = stack[g][n] /\ top \in Frames(g) /\ top \in Calls
  BY <1>1, <1>2, <1>3, TopIsFrame DEF IInv, Top
<1>5. /\ top.own = 0 /\ top.ctx \in Contexts /\ top.ctx.span \in Nat
      /\ top.ctx.trace \in Traces /\ top.entry \in Entries
      /\ top.ctx.span <= Len(spans)
  BY <1>1, <1>3, <1>4 DEF IInv, Contexts_OK, FrameGood, Calls, Contexts
<1>6. top.kind # "span" /\ top.entry = <<g, n>>
  BY <1>1, <1>3, <1>4 DEF OwnInv, Owners, OwnGood
<1>7. Len(spans) \in Nat /\ DOMAIN spans = 1 .. Len(spans)
  BY LenProperties DEF IInv, TypeOK
<1>8. CASE ~on /\ UNCHANGED <<spans, ids>>
           /\ Replace(g, [Top(g) EXCEPT !.step = "running", !.sees = Seen(Top(g), 0)])
  <2>1. PICK c \in Calls : c = [top EXCEPT !.step = "running", !.sees = Seen(top, 0)]
    <3>1. [top EXCEPT !.step = "running", !.sees = Seen(top, 0)] \in Calls
      BY <1>4, <1>5 DEF Calls, Seen
    <3> QED  BY <3>1
  <2>2. c.own = 0 /\ c.sees = top.ctx.span /\ c.step = "running"
    BY <1>4, <1>5, <2>1 DEF Calls, Seen
  <2>3. OwnGood(c, g, n)'  BY <1>5, <1>8, <2>2 DEF OwnGood
  <2>4. \A h \in Goroutines : \A i \in DOMAIN stack'[h] :
          \/ h = g /\ i = n /\ stack'[h][i] = c
          \/ i \in DOMAIN stack[h] /\ stack'[h][i] = stack[h][i]
    BY <1>1, <1>2, <1>3, <1>8, <2>1, ReplaceAt DEF IInv
  <2>5. Owners' /\ SeenByOwner'
    <3>1. Len(spans) <= Len(spans') /\ Len(spans') \in Nat  BY <1>7, <1>8
    <3> QED  BY <1>1, <1>8, <2>2, <2>3, <2>4, <3>1, OwnersGrow DEF OwnInv
  <2> QED  BY <1>1, <2>5, StatusStays DEF OwnInv
<1>9. CASE /\ on
           /\ \E record \in Recorded :
                spans' = Append(spans, Span(g, RootTrace(Top(g).ctx), 0, Top(g).entry, record))
           /\ Replace(g, Call(Top(g).kind, Top(g).entry,
                [Top(g).ctx EXCEPT !.span = Len(spans) + 1],
                Len(spans) + 1, Seen(Top(g), Len(spans) + 1), "running"))
  <2>1. PICK record \in Recorded :
          spans' = Append(spans, Span(g, RootTrace(top.ctx), 0, top.entry, record))
    BY <1>3, <1>9
  <2>2. PICK trace : trace = RootTrace(top.ctx)  OBVIOUS
  <2>3. trace \in Traces  BY <1>5, <2>2 DEF RootTrace, Fresh, Traces, IInv, TypeOK
  <2>4. PICK s \in SpanRecords : s = Span(g, trace, 0, top.entry, record)
    <3>1. Span(g, trace, 0, top.entry, record) \in SpanRecords
      BY <1>5, <2>3 DEF Span, SpanRecords, Recorded
    <3> QED  BY <3>1
  <2>5. s.entry = top.entry /\ s.name = top.entry /\ s.by = g /\ s.status = "ok"
    BY <2>4 DEF Span
  <2>6. spans' = Append(spans, s)  BY <2>1, <2>2, <2>4
  <2>7. /\ Len(spans') = Len(spans) + 1 /\ Len(spans') \in Nat
        /\ \A k \in DOMAIN spans : spans'[k] = spans[k]
        /\ spans'[Len(spans) + 1] = s
    BY <2>6, AppendSpan DEF IInv
  <2>8. PICK x \in Contexts : x = [top.ctx EXCEPT !.span = Len(spans) + 1]
    <3>1. [top.ctx EXCEPT !.span = Len(spans) + 1] \in Contexts  BY <1>5, <1>7 DEF Contexts
    <3> QED  BY <3>1
  <2>9. Seen(top, Len(spans) + 1) = Len(spans) + 1  BY <1>7 DEF Seen
  <2>10. PICK c \in Calls :
           c = Call(top.kind, top.entry, x, Len(spans) + 1, Seen(top, Len(spans) + 1), "running")
    <3>1. Call(top.kind, top.entry, x, Len(spans) + 1, Seen(top, Len(spans) + 1), "running")
            \in Calls
      BY <1>4, <1>5, <1>7, <2>9 DEF Calls, Call
    <3> QED  BY <3>1
  <2>11. /\ c.own = Len(spans) + 1 /\ c.sees = Len(spans) + 1 /\ c.step = "running"
         /\ c.kind = top.kind /\ c.entry = top.entry
    BY <2>9, <2>10 DEF Call
  <2>12. OwnGood(c, g, n)'
    <3>1. spans'[c.own].entry = c.entry /\ spans'[c.own].name = c.entry
          /\ spans'[c.own].by = g /\ spans'[c.own].status = "ok"
      BY <2>5, <2>7, <2>11
    <3>2. c.sees <= Len(spans') /\ on'  BY <1>1, <1>7, <1>9, <2>7, <2>11
    <3> QED  BY <1>6, <2>11, <3>1, <3>2 DEF OwnGood
  <2>13. \A h \in Goroutines : \A i \in DOMAIN stack'[h] :
           \/ h = g /\ i = n /\ stack'[h][i] = c
           \/ i \in DOMAIN stack[h] /\ stack'[h][i] = stack[h][i]
    <3>1. Replace(g, c)  BY <1>3, <1>9, <2>8, <2>10
    <3> QED  BY <1>1, <1>2, <3>1, ReplaceAt DEF IInv
  <2>14. Owners' /\ SeenByOwner'
    <3>1. Len(spans) <= Len(spans')  BY <1>7, <2>7
    <3> QED  BY <1>1, <2>7, <2>11, <2>12, <2>13, <3>1, OwnersGrow DEF OwnInv
  <2> QED  BY <1>1, <2>14, StatusStays DEF OwnInv
<1> QED  BY <1>8, <1>9 DEF StartRoot

\* The span of a function bears no entry, and no hook sees it.
LEMMA StartSpanOwn == ASSUME IInv, OwnInv, NEW g \in Goroutines, StartSpan(g)  PROVE OwnInv'
<1>1. /\ Running(g) /\ on' = on /\ exported' = exported /\ disturbed' = disturbed
  BY DEF StartSpan, Room
<1>2. PICK ctx : ctx = Ctx(g)  OBVIOUS
<1>3. /\ ctx \in Contexts /\ CtxGood(ctx, g) /\ ctx.span \in Nat /\ ctx.trace \in Traces
  BY <1>1, <1>2, CtxIsGood DEF IInv
<1>4. /\ Len(spans) \in Nat /\ DOMAIN spans = 1 .. Len(spans) /\ ctx.span <= Len(spans)
  BY <1>3, LenProperties DEF IInv, TypeOK, CtxGood
<1>5. PICK n : n = Len(stack[g]) + 1  OBVIOUS
<1>6. ASSUME NEW c \in Calls, Push(g, c), c.kind = "span", c.sees = 0, c.step = "running",
             c.own # 0 => on /\ spans'[c.own].entry = <<>>,
             Len(spans) <= Len(spans'), Len(spans') \in Nat,
             \A k \in DOMAIN spans : spans'[k] = spans[k]
      PROVE  OwnInv'
  <2>1. OwnGood(c, g, n)'  BY <1>1, <1>6 DEF OwnGood
  <2>2. \A h \in Goroutines : \A i \in DOMAIN stack'[h] :
          \/ h = g /\ i = n /\ stack'[h][i] = c
          \/ i \in DOMAIN stack[h] /\ stack'[h][i] = stack[h][i]
    BY <1>5, <1>6, PushAt DEF IInv
  <2>3. Owners' /\ SeenByOwner'  BY <1>1, <1>6, <2>1, <2>2, OwnersGrow DEF OwnInv
  <2> QED  BY <1>1, <2>3, StatusStays DEF OwnInv
<1>7. CASE Quiet(ctx) /\ UNCHANGED spans /\ Push(g, Call("span", <<>>, ctx, 0, 0, "running"))
  <2>1. PICK c \in Calls : c = Call("span", <<>>, ctx, 0, 0, "running")
    <3>1. Call("span", <<>>, ctx, 0, 0, "running") \in Calls
      BY <1>3 DEF Call, Calls, Entries
    <3> QED  BY <3>1
  <2>2. c.kind = "span" /\ c.own = 0 /\ c.sees = 0 /\ c.step = "running"  BY <2>1 DEF Call
  <2>3. Push(g, c)  BY <1>7, <2>1
  <2> QED  BY <1>4, <1>6, <1>7, <2>2, <2>3
<1>8. CASE /\ ~Quiet(ctx)
           /\ spans' = Append(spans, Span(g, IF ctx.span # 0 THEN spans[ctx.span].trace ELSE Fresh,
                                         ctx.span, <<>>, TRUE))
           /\ Push(g, Call("span", <<>>, [ctx EXCEPT !.span = Len(spans) + 1],
                           Len(spans) + 1, 0, "running"))
  <2>1. PICK trace : trace = IF ctx.span # 0 THEN spans[ctx.span].trace ELSE Fresh  OBVIOUS
  <2>2. trace \in Traces
    <3>1. CASE ctx.span = 0  BY <2>1, <3>1 DEF Fresh, Traces, IInv, TypeOK
    <3>2. CASE ctx.span # 0
      <4>1. spans[ctx.span] \in SpanRecords
        BY <1>3, <1>4, <3>2, ElementOfSeq DEF IInv, TypeOK
      <4> QED  BY <2>1, <3>2, <4>1 DEF SpanRecords
    <3> QED  BY <3>1, <3>2
  <2>3. PICK s \in SpanRecords : s = Span(g, trace, ctx.span, <<>>, TRUE)
    <3>1. Span(g, trace, ctx.span, <<>>, TRUE) \in SpanRecords
      BY <1>3, <2>2 DEF Span, SpanRecords, Entries
    <3> QED  BY <3>1
  <2>4. s.entry = <<>>  BY <2>3 DEF Span
  <2>5. spans' = Append(spans, s)  BY <1>8, <2>1, <2>3
  <2>6. /\ Len(spans') = Len(spans) + 1 /\ Len(spans') \in Nat
        /\ \A k \in DOMAIN spans : spans'[k] = spans[k]
        /\ spans'[Len(spans) + 1] = s
    BY <2>5, AppendSpan DEF IInv
  <2>7. PICK x \in Contexts : x = [ctx EXCEPT !.span = Len(spans) + 1]
    <3>1. [ctx EXCEPT !.span = Len(spans) + 1] \in Contexts  BY <1>3, <1>4 DEF Contexts
    <3> QED  BY <3>1
  <2>8. PICK c \in Calls : c = Call("span", <<>>, x, Len(spans) + 1, 0, "running")
    <3>1. Call("span", <<>>, x, Len(spans) + 1, 0, "running") \in Calls
      BY <1>4 DEF Call, Calls, Entries
    <3> QED  BY <3>1
  <2>9. c.kind = "span" /\ c.own = Len(spans) + 1 /\ c.sees = 0 /\ c.step = "running"
    BY <2>8 DEF Call
  <2>10. on /\ Push(g, c)  BY <1>8, <2>7, <2>8 DEF Quiet
  <2>11. Len(spans) <= Len(spans')  BY <1>4, <2>6
  <2>12. spans'[c.own].entry = <<>>  BY <2>4, <2>6, <2>9
  <2> QED  BY <1>6, <2>6, <2>9, <2>10, <2>11, <2>12
<1> QED  BY <1>2, <1>7, <1>8 DEF StartSpan

\* Every stack is empty and nothing is exported.
LEMMA InitOwn == Init => OwnInv
<1> SUFFICES ASSUME Init  PROVE OwnInv  OBVIOUS
<1>1. \A h \in Goroutines : stack[h] = <<>> /\ DOMAIN stack[h] = {}  BY DEF Init
<1>2. exported = {}  BY DEF Init
<1> QED  BY <1>1, <1>2 DEF OwnInv, Owners, SeenByOwner, OwnStatus

\* No call moves, and nothing is written or exported; more goroutines are marked as
\* disturbed, among them those whose spans would have been lost.
LEMMA OwnStands ==
  ASSUME IInv, OwnInv, spans' = spans, stack' = stack, exported' = exported,
         disturbed \subseteq disturbed',
         on' = on \/ \A h \in Goroutines : stack[h] # <<>> => h \in disturbed'
  PROVE  OwnInv'
<1>1. Owners'
  <2> SUFFICES ASSUME NEW h \in Goroutines, NEW i \in DOMAIN stack'[h]
               PROVE  OwnGood(stack[h][i], h, i)'
    BY DEF Owners
  <2>1. i \in DOMAIN stack[h] /\ stack[h] # <<>>
    <3>1. stack[h] \in Seq(Calls)  BY DEF IInv, TypeOK
    <3> QED  BY <3>1, EmptySeq, LenProperties
  <2>2. OwnGood(stack[h][i], h, i)  BY <2>1 DEF OwnInv, Owners
  <2> QED  BY <2>1, <2>2 DEF OwnGood
<1>2. SeenByOwner'
  <2> SUFFICES ASSUME NEW h \in Goroutines \ disturbed', NEW x \in Goroutines,
                      NEW i \in DOMAIN stack[h], NEW j \in DOMAIN stack[x],
                      stack[h][i].own # 0, stack[h][i].kind # "span",
                      stack[x][j].sees = stack[h][i].own
               PROVE  x = h /\ j = i
    BY DEF SeenByOwner
  <2>1. h \in Goroutines \ disturbed  OBVIOUS
  <2> QED  BY <2>1 DEF OwnInv, SeenByOwner
<1>3. OwnStatus'  BY StatusStays DEF OwnInv
<1> QED  BY <1>1, <1>2, <1>3 DEF OwnInv

\* Whoever is in a call while the runtime is turned on or off is disturbed.
LEMMA ToggleOwn == ASSUME IInv, OwnInv, Toggle  PROVE OwnInv'
<1>1. /\ spans' = spans /\ stack' = stack /\ exported' = exported
      /\ disturbed' = disturbed \cup {g \in Goroutines : stack[g] # <<>> \/ base[g] # Background}
  BY DEF Toggle
<1> QED  BY <1>1, OwnStands

\* A goroutine that is started is in no call yet.
LEMMA SpawnOwn ==
  ASSUME IInv, OwnInv, NEW g \in Goroutines, NEW h \in Goroutines, Spawn(g, h)  PROVE OwnInv'
<1>1. /\ spans' = spans /\ stack' = stack /\ exported' = exported /\ on' = on
      /\ disturbed \subseteq disturbed'
  BY DEF Spawn
<1> QED  BY <1>1, OwnStands

\* A call ends, and has written to no span that a hook of an undisturbed goroutine owns.
LEMMA OwnersShrink ==
  ASSUME IInv, Owners, SeenByOwner, NEW g \in Goroutines, stack[g] # <<>>, Pop(g),
         on' = on, disturbed' = disturbed, Len(spans') = Len(spans),
         \A n \in DOMAIN spans :
           spans'[n].entry = spans[n].entry /\ spans'[n].by = spans[n].by,
         \A n \in DOMAIN spans : n # Top(g).sees =>
           spans'[n].name = spans[n].name /\ spans'[n].status = spans[n].status
  PROVE  Owners' /\ SeenByOwner'
<1>1. \A h \in Goroutines : \A i \in DOMAIN stack'[h] :
        /\ i \in DOMAIN stack[h] /\ stack'[h][i] = stack[h][i]
        /\ h = g => i # Len(stack[g])
  BY PopAt DEF IInv
<1>2. Len(stack[g]) \in DOMAIN stack[g] /\ Top(g) = stack[g][Len(stack[g])]
  BY TopIsFrame DEF IInv, Top
<1>3. Owners'
  <2> SUFFICES ASSUME NEW h \in Goroutines, NEW i \in DOMAIN stack'[h]
               PROVE  OwnGood(stack[h][i], h, i)'
    BY DEF Owners
  <2>1. i \in DOMAIN stack[h] /\ stack'[h][i] = stack[h][i] /\ OwnGood(stack[h][i], h, i)
    BY <1>1 DEF Owners
  <2>2. Len(spans) \in Nat /\ (stack[h][i].own # 0 => stack[h][i].own \in DOMAIN spans)
    BY <2>1, CallAt
  <2>3. ASSUME stack[h][i].own # 0, stack[h][i].kind # "span", h \notin disturbed
        PROVE  stack[h][i].own # Top(g).sees
    BY <1>1, <1>2, <2>1, <2>3 DEF SeenByOwner
  <2> QED  BY <2>1, <2>2, <2>3, OwnStays
<1>4. SeenByOwner'
  <2> SUFFICES ASSUME NEW h \in Goroutines \ disturbed, NEW x \in Goroutines,
                      NEW i \in DOMAIN stack'[h], NEW j \in DOMAIN stack'[x],
                      stack'[h][i].own # 0, stack'[h][i].kind # "span",
                      stack'[x][j].sees = stack'[h][i].own
               PROVE  x = h /\ j = i
    BY DEF SeenByOwner
  <2>1. /\ i \in DOMAIN stack[h] /\ stack'[h][i] = stack[h][i]
        /\ j \in DOMAIN stack[x] /\ stack'[x][j] = stack[x][j]
    BY <1>1
  <2> QED  BY <2>1 DEF SeenByOwner
<1> QED  BY <1>3, <1>4

\* What endSpan adds to the exports is the span it is given.
LEMMA StatusGrows ==
  ASSUME OwnStatus, NEW s, NEW all, exported' = Exported(s, all), disturbed' = disturbed,
         s # 0 /\ all[s].by \notin disturbed /\ all[s].entry # <<>> =>
           /\ all[s].name = all[s].entry
           /\ all[s].status = "error" <=> all[s].result = "error"
  PROVE  OwnStatus'
<1> SUFFICES ASSUME NEW e \in exported', e[2].by \notin disturbed, e[2].entry # <<>>
             PROVE  /\ e[2].name = e[2].entry
                    /\ e[2].status = "error" <=> e[2].result = "error"
  BY DEF OwnStatus
<1>1. CASE e \in exported  BY <1>1 DEF OwnStatus
<1>2. CASE e \notin exported
  <2>1. s # 0 /\ e \in {<<n, all[n]>> : n \in {k \in {s} : all[k].record}}
    BY <1>2 DEF Exported
  <2>2. e[2] = all[s]  BY <2>1
  <2> QED  BY <2>1, <2>2
<1> QED  BY <1>1, <1>2

\* The span of a function is no entry point's.
LEMMA EndSpanOwn == ASSUME IInv, OwnInv, NEW g \in Goroutines, EndSpan(g)  PROVE OwnInv'
<1>1. /\ stack[g] # <<>> /\ Top(g).kind = "span" /\ Pop(g) /\ spans' = spans /\ on' = on
      /\ exported' = Exported(Top(g).own, spans) /\ disturbed' = disturbed
  BY DEF EndSpan
<1>2. Owners' /\ SeenByOwner'  BY <1>1, OwnersShrink DEF OwnInv
<1>3. Top(g).own # 0 => spans[Top(g).own].entry = <<>>
  <2>1. OwnGood(Top(g), g, Len(stack[g]))
    BY <1>1, TopIsFrame DEF IInv, OwnInv, Owners, Top
  <2> QED  BY <1>1, <2>1 DEF OwnGood
<1>4. OwnStatus'  BY <1>1, <1>3, StatusGrows DEF OwnInv
<1> QED  BY <1>2, <1>4 DEF OwnInv

\* A hook that returns writes to the span it sees: its own, or one whose owner is disturbed.
LEMMA ReturnOwn ==
  ASSUME IInv, OwnInv, NEW g \in Goroutines, NEW result \in {"ok", "error", "plain", "panic"},
         Return(g, result)
  PROVE  OwnInv'
<1>1. /\ stack[g] # <<>> /\ Top(g).kind # "span" /\ Pop(g) /\ on' = on
      /\ spans' = Written(Top(g), result)
      /\ exported' = Exported(Top(g).own, Written(Top(g), result)) /\ disturbed' = disturbed
  BY DEF Return, Ended
<1>2. PICK top : top = Top(g)  OBVIOUS
<1>3. top \in Calls /\ OwnGood(top, g, Len(stack[g]))
  BY <1>1, <1>2, TopIsFrame DEF IInv, OwnInv, Owners, Top
<1>4. top.own # 0 => top.own \in DOMAIN spans
  BY <1>1, <1>2, TopIsFrame, CallAt DEF IInv, Top
<1>5. Len(spans') = Len(spans)  BY <1>1, <1>2, <1>3, WrittenSpans DEF IInv
<1>6. PICK w : w = Written(top, result)  OBVIOUS
<1>7. ASSUME NEW n \in DOMAIN spans
      PROVE  /\ w[n].entry = spans[n].entry /\ w[n].by = spans[n].by
             /\ w[n].name = IF n = top.sees /\ top.entry # <<>>
                               /\ top.kind \in {"http", "echo"} /\ result # "panic"
                            THEN top.entry ELSE spans[n].name
             /\ w[n].status = IF n = top.sees /\ Failed(result) THEN "error" ELSE spans[n].status
             /\ n = top.own => w[n].result = result
  <2>1. spans[n] \in SpanRecords  BY ElementOfSeq, LenProperties DEF IInv, TypeOK
  <2>2. PICK status, name, res :
          /\ status = IF n = top.sees /\ Failed(result) THEN "error" ELSE spans[n].status
          /\ name = IF n = top.sees /\ top.entry # <<>> /\ top.kind \in {"http", "echo"}
                       /\ result # "panic"
                    THEN top.entry ELSE spans[n].name
          /\ res = IF n = top.own THEN result ELSE spans[n].result
    OBVIOUS
  <2>3. w[n] = [spans[n] EXCEPT !.status = status, !.name = name, !.result = res]
    BY <1>6, <2>2 DEF Written
  <2> QED  BY <2>1, <2>2, <2>3 DEF SpanRecords
<1>8. Owners' /\ SeenByOwner'
  BY <1>1, <1>2, <1>5, <1>6, <1>7, OwnersShrink DEF OwnInv
<1>9. ASSUME top.own # 0, w[top.own].by \notin disturbed, w[top.own].entry # <<>>
      PROVE  /\ w[top.own].name = w[top.own].entry
             /\ w[top.own].status = "error" <=> w[top.own].result = "error"
  <2>1. /\ top.sees = top.own /\ spans[top.own].entry = top.entry /\ spans[top.own].by = g
        /\ g \notin disturbed => spans[top.own].name = top.entry /\ spans[top.own].status = "ok"
    BY <1>1, <1>2, <1>3, <1>9 DEF OwnGood
  <2>2. g \notin disturbed  BY <1>4, <1>7, <1>9, <2>1
  <2>3. w[top.own].name = top.entry /\ w[top.own].entry = top.entry
    BY <1>4, <1>7, <1>9, <2>1, <2>2
  <2>4. /\ w[top.own].status = IF result = "error" THEN "error" ELSE "ok"
        /\ w[top.own].result = result
    BY <1>4, <1>7, <1>9, <2>1, <2>2 DEF Failed
  <2> QED  BY <2>3, <2>4
<1>10. OwnStatus'  BY <1>1, <1>2, <1>6, <1>9, StatusGrows DEF OwnInv
<1> QED  BY <1>8, <1>10 DEF OwnInv

\* Each action keeps what is known of the owners.
LEMMA NextOwn == IInv /\ OwnInv /\ [Next]_vars => OwnInv'
<1> SUFFICES ASSUME IInv, OwnInv, [Next]_vars  PROVE OwnInv'  OBVIOUS
<1>1. CASE Toggle  BY <1>1, ToggleOwn
<1>2. CASE \E g \in Goroutines : Enter(g)  BY <1>2, EnterOwn
<1>3. CASE \E g \in Goroutines : StartRoot(g)  BY <1>3, StartRootOwn
<1>4. CASE \E g \in Goroutines : StartSpan(g)  BY <1>4, StartSpanOwn
<1>5. CASE \E g \in Goroutines : EndSpan(g)  BY <1>5, EndSpanOwn
<1>6. CASE \E g \in Goroutines : \E h \in Goroutines \ {g} : Spawn(g, h)  BY <1>6, SpawnOwn
<1>7. CASE \E g \in Goroutines : \E result \in {"ok", "error", "plain", "panic"} :
             Return(g, result)
  BY <1>7, ReturnOwn
<1>8. CASE UNCHANGED vars
  <2>1. /\ on' = on /\ spans' = spans /\ stack' = stack /\ exported' = exported
        /\ disturbed' = disturbed
    BY <1>8 DEF vars
  <2> QED  BY <2>1, OwnStands
<1> QED  BY <1>1, <1>2, <1>3, <1>4, <1>5, <1>6, <1>7, <1>8 DEF Next

-------------------------------------------------------------------------------
(* The theorems.                                                             *)

\* Both invariants hold in every state.
LEMMA TracingInvariant == Spec => [](IInv /\ OwnInv)
<1>1. Init => IInv /\ OwnInv  BY InitInvariant, InitOwn
<1>2. IInv /\ OwnInv /\ [Next]_vars => (IInv /\ OwnInv)'  BY NextInvariant, NextOwn
<1> QED  BY <1>1, <1>2, PTL DEF Spec

\* For every set of goroutines and hooks, however contexts are handed on and whenever the
\* runtime is turned on and off: parents are recorded spans of the same trace, and nothing
\* that was recorded stays behind.
THEOREM TracingSafe == Spec => [](TypeOK /\ TreesWhole)
<1>1. IInv => TypeOK /\ TreesWhole  BY InvariantSuffices
<1> QED  BY <1>1, TracingInvariant, PTL

\* Where nothing is turned on or off, the trace id that a context carries for the hooks is
\* that of its span, through every hand-over to another goroutine and every hook inside it.
THEOREM TracesAgree == Spec => []OneTrace
<1>1. IInv => OneTrace  BY InvariantSuffices
<1> QED  BY <1>1, TracingInvariant, PTL

\* An entry span that is exported tells how its own call ended, under its own name, however
\* hooks nest and whatever the calls inside them do.
THEOREM StatusIsOwn == Spec => []OwnStatus
<1>1. OwnInv => OwnStatus  BY DEF OwnInv
<1> QED  BY <1>1, TracingInvariant, PTL
===============================================================================
