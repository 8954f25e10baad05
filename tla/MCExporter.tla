------------------------------ MODULE MCExporter -------------------------------
(* Exporter with a ring of two spans: four spans fill it twice over, and a failed  *)
(* batch pushed back meets spans that arrived during the POST.                     *)
EXTENDS Exporter
===============================================================================
