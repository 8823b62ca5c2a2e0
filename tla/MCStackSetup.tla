---------------------------- MODULE MCStackSetup ----------------------------
(* StackSetup for TLC: up to three runs, each in any mode.                   *)
EXTENDS StackSetup
=============================================================================
