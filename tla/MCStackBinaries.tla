--------------------------- MODULE MCStackBinaries ---------------------------
(* StackBinaries for TLC: two commands, an executable and a plain asset.     *)
EXTENDS StackBinaries
=============================================================================
