--------------------------- MODULE MCTxSubmission ---------------------------
(* TxSubmission for TLC: up to two jobs of the queue and one of the handler. *)
EXTENDS TxSubmission

CONSTANTS q1, q2, h1

MCQueued == {q1, q2}
MCHandled == {h1}
MCAwaitFinal == {q1}
MCOneQueued == {q1}
=============================================================================
