------------------------------ MODULE MCTestRun ------------------------------
(* TestRun for TLC, on the stack of three components.                        *)
EXTENDS TestRun
=============================================================================
