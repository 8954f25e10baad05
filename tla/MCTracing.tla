------------------------------ MODULE MCTracing ------------------------------
EXTENDS Tracing
CONSTANTS g1, g2
=============================================================================
