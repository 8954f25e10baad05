----------------------------- MODULE MCTraceStream -----------------------------
(* TraceStream with room for one trace of two at the server, so that a picked      *)
(* trace can be evicted, and begin again, before its answer comes.                 *)
EXTENDS TraceStream
===============================================================================
