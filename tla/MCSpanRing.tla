------------------------------ MODULE MCSpanRing -------------------------------
(* SpanRing with four slots and three spans: every position of the indexes in    *)
(* the buffer, a full ring that wraps several times, and drains to empty.        *)
EXTENDS SpanRing
===============================================================================
