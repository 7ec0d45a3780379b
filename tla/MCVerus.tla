------------------------------- MODULE MCVerus -------------------------------
EXTENDS Verus
=============================================================================
