------------------------------ MODULE MCChain -------------------------------
EXTENDS Chain
=============================================================================
