---------------------------- MODULE MCExecution -----------------------------
EXTENDS Execution
=============================================================================
