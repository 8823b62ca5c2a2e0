----------------------------- MODULE RecordFile -----------------------------
(***************************************************************************)
(* What a JSON file of records promises that processes read, extend by a   *)
(* record of theirs and write back: a process that is through has its      *)
(* record there, and every record stays.  It is promised until two of them *)
(* are at it at the same time, or one dies with the file emptied.          *)
(***************************************************************************)
VARIABLES
    kept,        \* the records in the file, or about to be put back
    through,     \* the processes that have saved their record
    disturbed    \* the promise is off

vars == <<kept, through, disturbed>>

Init == kept = {} /\ through = {} /\ disturbed = FALSE

Save(r) ==
    /\ ~disturbed /\ disturbed' = FALSE
    /\ kept' = kept \cup {r}
    /\ through' = through \cup {r}

\* A process fails after its save.
Leave(r) ==
    /\ ~disturbed /\ disturbed' = FALSE
    /\ kept' = kept
    /\ through' = through \ {r}

Disturb == disturbed' = TRUE

Next == (\E r \in kept' : Save(r)) \/ (\E r \in through : Leave(r)) \/ Disturb

Spec == Init /\ [][Next]_vars

=============================================================================
