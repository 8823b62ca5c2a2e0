---------------------------- MODULE CallOutcomes ----------------------------
(***************************************************************************)
(* What a call that submits an extrinsic promises its caller, told from    *)
(* the chain alone: the call may send the extrinsic again and again, but   *)
(* its outcome is given once, fits what the chain shows at that moment,    *)
(* and nothing of the call is executed after it or beside it - but for     *)
(* attempts that were abandoned and blocks that the chain did not keep.    *)
(***************************************************************************)
CONSTANTS
    Calls,
    Careful       \* those that wait for a final block

VARIABLES
    outcome,      \* of each call: open, resolved or failed
    chain,        \* extrinsics in a block, each with its .job and .att
    sealed,       \* those in a final one
    worked,       \* extrinsics that were executed without an error
    shaken,       \* those whose block was taken back, or not made final
    abandoned     \* <<call, attempt>>: given up without an answer

vars == <<outcome, chain, sealed, worked, shaken, abandoned>>

Init ==
    /\ outcome = [c \in Calls |-> "open"]
    /\ chain = {} /\ sealed = {} /\ worked = {} /\ shaken = {} /\ abandoned = {}

Loose(e) == e \in shaken \/ <<e.job, e.att>> \in abandoned

Execute(e) ==
    /\ e \notin chain /\ e.job \in Calls
    /\ outcome[e.job] = "open" \/ Loose(e)
    /\ \A f \in chain : f.job = e.job => Loose(e) \/ Loose(f)
    /\ chain' = chain \cup {e}
    /\ worked' \in {worked \cup {e}, worked \ {e}}
    /\ UNCHANGED <<sealed, shaken, abandoned>>

Seal(e) ==
    /\ e \in chain \ sealed
    /\ sealed' = sealed \cup {e}
    /\ UNCHANGED <<chain, worked, shaken, abandoned>>

\* Blocks that are not final are taken back, or doubted.
Shake(S) ==
    /\ shaken' = shaken \cup S
    /\ chain' \in {chain, chain \ S}
    /\ UNCHANGED <<sealed, worked, abandoned>>

\* Only a call that is open gives an attempt up.
Abandon(p) ==
    /\ p[1] \in Calls /\ outcome[p[1]] = "open"
    /\ abandoned' = abandoned \cup {p}
    /\ UNCHANGED <<chain, sealed, worked, shaken>>

\* An outcome, and what the chain shows when it is given.
Decide ==
    /\ outcome' \in [Calls -> {"open", "resolved", "failed"}]
    /\ \A c \in Calls : outcome'[c] # outcome[c] =>
        /\ outcome[c] = "open"
        /\ outcome'[c] = "resolved" =>
               \E e \in chain' \cap worked' : e.job = c /\ (c \in Careful => e \in sealed')
        /\ outcome'[c] = "failed" =>
               \A e \in chain' : e.job = c => Loose(e)' \/ e \notin worked'

Next ==
    /\ \/ \E e \in chain' : Execute(e)
       \/ \E e \in chain : Seal(e)
       \/ \E S \in SUBSET (chain \ sealed) : Shake(S)
       \/ \E p \in abandoned' : Abandon(p)
       \/ UNCHANGED <<chain, sealed, worked, shaken, abandoned>>
    /\ Decide

Spec == Init /\ [][Next]_vars

=============================================================================
