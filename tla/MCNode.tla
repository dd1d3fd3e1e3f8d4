------------------------------- MODULE MCNode -------------------------------
EXTENDS Node
=============================================================================
