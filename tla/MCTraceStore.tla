----------------------------- MODULE MCTraceStore ------------------------------
(* TraceStore with room for two of three traces: batches of two spans can evict a  *)
(* trace they have just written to, and a late span brings an evicted one back.    *)
EXTENDS TraceStore, TLC

\* Traces, span ids and clients are interchangeable: no operator orders them.
StoreSymmetry == Permutations(Trace) \cup Permutations(SpanId)
===============================================================================
