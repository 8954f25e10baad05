------------------------------ MODULE MCGraphPoll ------------------------------
(* GraphPoll with two polls that overlap, two graphs, a restart and a failure.     *)
EXTENDS GraphPoll
===============================================================================
