----------------------------- MODULE SetupOrder -----------------------------
(***************************************************************************)
(* What a setup promises of the order in which a network is provisioned:   *)
(* a piece appears only once the pieces it needs are there, none is taken  *)
(* away, however many runs of the procedure it takes and wherever they     *)
(* were cut off.                                                           *)
(***************************************************************************)
CONSTANTS
    Pieces,   \* what can be provisioned
    Needs     \* the pieces each one needs

VARIABLE provided

Init == provided = {}

Provide(p) ==
    /\ p \notin provided
    /\ Needs[p] \subseteq provided
    /\ provided' = provided \cup {p}

Next == \E p \in Pieces : Provide(p)

Spec == Init /\ [][Next]_provided

=============================================================================
