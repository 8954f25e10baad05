------------------------------- MODULE MCRuntime -------------------------------
(* Runtime with three spans that race with up to three calls of Configure: on,     *)
(* off, on again, and with a server URL that newExporter rejects.                  *)
EXTENDS Runtime
===============================================================================
