----------------------------- MODULE Runtime_proofs ------------------------------
(***************************************************************************)
(* Runtime's safety for every set of spans, every set of settings and      *)
(* every number of Configure calls.                                        *)
(***************************************************************************)
EXTENDS Runtime, TLAPS

Configuring == phase \in {"close", "wait", "start"}

\* What Configure knows while it holds globalMu.
HolderInv ==
  /\ Configuring => created < calls
  /\ Configuring => (setting = "off" <=> ~on)
  /\ phase = "close" => exp # 0
  /\ (phase = "close" /\ exp \in closed) => erred
  /\ phase = "start" => running = {}

IInv ==
  /\ TypeOK /\ HolderInv
  /\ OneLoop /\ OffMeansQuiet /\ OnMeansLive /\ PanicsOnlyAfterError

LEMMA InitInv == Init => IInv
<1> SUFFICES ASSUME Init PROVE IInv
  OBVIOUS
<1> USE RuntimeAssumption DEF Init
<1>1. TypeOK
  <2>1. on \in BOOLEAN /\ erred \in BOOLEAN
    BY Zenon
  <2>2. via \in [Spans -> 0 .. created] /\ calls \in 0 .. MaxConfigures
    OBVIOUS
  <2>3. state \in [Spans -> Fates]
    BY DEF Fates
  <2> QED
    BY <2>1, <2>2, <2>3 DEF TypeOK
<1>2. HolderInv
  BY DEF HolderInv, Configuring
<1>3. OneLoop /\ OffMeansQuiet /\ OnMeansLive /\ PanicsOnlyAfterError
  BY DEF OneLoop, OffMeansQuiet, OnMeansLive, PanicsOnlyAfterError
<1> QED
  BY <1>1, <1>2, <1>3 DEF IInv

\* A step of a span, or of a loop that goes on, leaves the runtime's own state alone.
LEMMA SpanStep ==
  ASSUME IInv, UNCHANGED <<configVars, loopVars>>,
         state' \in [Spans -> Fates],
         via' \in [Spans -> 0 .. created]
  PROVE  IInv'
BY DEF IInv, TypeOK, HolderInv, Configuring, OneLoop, OffMeansQuiet, OnMeansLive,
       PanicsOnlyAfterError, configVars, loopVars

LEMMA TurnType ==
  ASSUME TypeOK, NEW g, NEW from, NEW to \in Fates, Turn(g, from, to)
  PROVE  state' \in [Spans -> Fates]
BY DEF TypeOK, Turn

LEMMA SpansInv ==
  ASSUME IInv, NEW s \in Spans, StartSpan(s) \/ EndSpan(s) \/ Enqueue(s)
  PROVE  IInv'
<1>1. exp \in 0 .. created /\ TypeOK
  BY DEF IInv, TypeOK
<1>2. CASE StartSpan(s)
  BY <1>1, <1>2, SpanStep DEF StartSpan, Become, TypeOK, Fates
<1>3. CASE EndSpan(s)
  BY <1>1, <1>3, SpanStep DEF EndSpan, Become, TypeOK, Fates
<1>4. CASE Enqueue(s)
  BY <1>1, <1>4, SpanStep DEF Enqueue, Become, TypeOK, Fates
<1> QED
  BY <1>2, <1>3, <1>4

LEMMA LoopsInv ==
  ASSUME IInv, NEW g \in Exporters, PostQueued(g) \/ LoopDrains(g) \/ LoopStops(g)
  PROVE  IInv'
<1>1. "posted" \in Fates /\ "flushing" \in Fates /\ "queued" \in Fates /\ TypeOK
  BY DEF Fates, IInv
<1>2. CASE PostQueued(g)
  <2>1. state' \in [Spans -> Fates]
    BY <1>1, <1>2, TurnType DEF PostQueued
  <2> QED
    BY <1>2, <2>1, SpanStep DEF PostQueued, IInv, TypeOK
<1>3. CASE LoopDrains(g)
  <2>1. state' \in [Spans -> Fates]
    BY <1>1, <1>3, TurnType DEF LoopDrains
  <2> QED
    BY <1>3, <2>1 DEF LoopDrains, IInv, TypeOK, HolderInv, Configuring, OneLoop, OffMeansQuiet,
                      OnMeansLive, PanicsOnlyAfterError, configVars
<1>4. CASE LoopStops(g)
  <2>1. state' \in [Spans -> Fates]
    BY <1>1, <1>4, TurnType DEF LoopStops
  <2>2. g \in running /\ g \in closed
    BY <1>1, <1>4 DEF LoopStops, TypeOK
  <2>3. failed' \subseteq 1 .. created
    BY <1>1, <1>4, <2>2 DEF LoopStops, TypeOK
  <2> QED
    BY <1>4, <2>1, <2>2, <2>3 DEF LoopStops, IInv, TypeOK, HolderInv, Configuring, OneLoop,
                                  OffMeansQuiet, OnMeansLive, PanicsOnlyAfterError, configVars
<1> QED
  BY <1>2, <1>3, <1>4

LEMMA ConfigureInv ==
  ASSUME IInv, NEW c \in Settings, Configure(c)
  PROVE  IInv'
<1> USE RuntimeAssumption
<1> USE DEF Configure, ShutdownFirst, loopVars, IInv, TypeOK, HolderInv, Configuring
<1>1. c \in {"off", "good", "bad"}
  OBVIOUS
<1>2. TypeOK'
  BY <1>1
<1>3. (phase' = "close" /\ exp' \in closed') => erred'
  BY DEF OffMeansQuiet, OnMeansLive
<1>4. phase' = "start" => running' = {}
  BY DEF OneLoop
<1>5. phase' = "close" => exp' # 0
  OBVIOUS
<1>6. created' < calls'
  OBVIOUS
<1>7. setting' = "off" <=> ~on'
  <2>1. CASE c = "off"
    BY <2>1
  <2>2. CASE c # "off"
    BY <2>2
  <2> QED
    BY <2>1, <2>2
<1>8. HolderInv'
  BY <1>3, <1>4, <1>5, <1>6, <1>7
<1> QED
  BY <1>2, <1>8 DEF OneLoop, OffMeansQuiet, OnMeansLive, PanicsOnlyAfterError

LEMMA HolderStep ==
  ASSUME IInv, Holder
  PROVE  IInv'
<1> DEFINE Promises == OneLoop /\ OffMeansQuiet /\ OnMeansLive /\ PanicsOnlyAfterError
<1> USE DEF IInv, TypeOK, HolderInv, Configuring, loopVars
<1>1. CASE CloseStop
  BY <1>1 DEF CloseStop, OneLoop, OffMeansQuiet, OnMeansLive, PanicsOnlyAfterError
<1>2. CASE Waited
  BY <1>2 DEF Waited, LoopGone, OneLoop, OffMeansQuiet, OnMeansLive, PanicsOnlyAfterError
<1>3. CASE FinishOff
  <2>1. erred' \in BOOLEAN
    BY <1>3, Zenon DEF FinishOff
  <2>2. TypeOK'
    BY <1>3, <2>1 DEF FinishOff
  <2>3. HolderInv'
    BY <1>3 DEF FinishOff
  <2>4. Promises'
    BY <1>3 DEF FinishOff, OneLoop, OffMeansQuiet, OnMeansLive, PanicsOnlyAfterError
  <2> QED
    BY <2>2, <2>3, <2>4
<1>4. CASE FinishGood
  <2>1. erred' \in BOOLEAN
    BY <1>4, Zenon DEF FinishGood, Installed
  <2>2. TypeOK'
    BY <1>4, <2>1 DEF FinishGood, Installed
  <2>3. HolderInv'
    BY <1>4 DEF FinishGood, Installed
  <2>4. Promises'
    BY <1>4 DEF FinishGood, Installed, OneLoop, OffMeansQuiet, OnMeansLive, PanicsOnlyAfterError
  <2> QED
    BY <2>2, <2>3, <2>4
<1>5. CASE FinishBad
  BY <1>5 DEF FinishBad, OneLoop, OffMeansQuiet, OnMeansLive, PanicsOnlyAfterError
<1> QED
  BY <1>1, <1>2, <1>3, <1>4, <1>5 DEF Holder

-------------------------------------------------------------------------------
LEMMA RuntimeInvariant == Spec => []IInv
<1>1. IInv /\ [Next]_vars => IInv'
  <2> SUFFICES ASSUME IInv, [Next]_vars PROVE IInv'
    OBVIOUS
  <2>1. CASE UNCHANGED vars
    BY <2>1, SpanStep DEF vars, IInv, TypeOK
  <2>2. CASE Next
    BY <2>2, SpansInv, LoopsInv, ConfigureInv, HolderStep DEF Next
  <2> QED
    BY <2>1, <2>2
<1> QED
  BY InitInv, <1>1, PTL DEF Spec

\* However spans race with Configure, at most one export loop runs, that of the installed
\* exporter, and only a failed Configure can make the next one close a channel twice.
THEOREM RuntimeSafe == Spec => [](TypeOK /\ OneLoop /\ PanicsOnlyAfterError)
<1>1. IInv => TypeOK /\ OneLoop /\ PanicsOnlyAfterError
  BY DEF IInv
<1> QED
  BY RuntimeInvariant, <1>1, PTL

\* Once Configure has returned with Enabled: false, no loop runs and endSpan finds no
\* exporter, whatever was configured before and whichever spans are in flight.
THEOREM OffIsQuiet == Spec => []OffMeansQuiet
<1>1. IInv => OffMeansQuiet
  BY DEF IInv
<1> QED
  BY RuntimeInvariant, <1>1, PTL

\* Once Configure has returned without an error and with Enabled: true, the installed exporter
\* has a loop that runs and has not been told to stop.
THEOREM OnIsLive == Spec => []OnMeansLive
<1>1. IInv => OnMeansLive
  BY DEF IInv
<1> QED
  BY RuntimeInvariant, <1>1, PTL
===============================================================================
