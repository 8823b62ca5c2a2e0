--------------------------- MODULE MCStackManager ---------------------------
(* StackManager for TLC: Last is 3, the stack's three components.           *)
EXTENDS StackManager
=============================================================================
