----------------------------- MODULE StackOrder -----------------------------
(***************************************************************************)
(* What startStack promises of the order of things: components are         *)
(* launched one after the other, each when the one before is ready; the    *)
(* start returns when all of them are, or when one gets ready after a      *)
(* stop; and after a death or a failure the stack counts as stopped.       *)
(***************************************************************************)
EXTENDS Naturals

CONSTANT Last   \* the last component

VARIABLES
    phase,      \* of the start
    launched,   \* the components launched are 1..launched,
    ready,      \* and those that got ready 1..ready
    alive,      \* components that run
    stopped

vars == <<phase, launched, ready, alive, stopped>>

Init ==
    /\ phase = "idle"
    /\ launched = 0 /\ ready = 0
    /\ alive = {}
    /\ stopped = FALSE

Start ==
    /\ phase = "idle"
    /\ phase' = "starting"
    /\ UNCHANGED <<launched, ready, alive, stopped>>

Refuse ==
    /\ phase = "idle"
    /\ phase' = "refused"
    /\ UNCHANGED <<launched, ready, alive, stopped>>

Launch ==
    /\ phase = "starting"
    /\ ready = launched /\ launched < Last
    /\ launched' = launched + 1
    /\ alive' = alive \cup {launched'}
    /\ UNCHANGED <<phase, ready, stopped>>

\* A component that is launched and given up at once.
LaunchFails ==
    /\ phase = "starting"
    /\ ready = launched /\ launched < Last
    /\ launched' = launched + 1
    /\ alive' = alive \cup {launched'}
    /\ phase' = "threw"
    /\ stopped' = TRUE
    /\ UNCHANGED ready

Ready ==
    /\ phase = "starting"
    /\ ready = launched - 1
    /\ ready' = launched
    /\ phase' = IF stopped \/ launched = Last THEN "returned" ELSE phase
    /\ UNCHANGED <<launched, alive, stopped>>

Fail ==
    /\ phase = "starting"
    /\ phase' = "threw"
    /\ stopped' = TRUE
    /\ UNCHANGED <<launched, ready, alive>>

Stop ==
    /\ stopped' = TRUE
    /\ UNCHANGED <<phase, launched, ready, alive>>

Die(i) ==
    /\ alive' = alive \ {i}
    /\ stopped' = TRUE
    /\ UNCHANGED <<phase, launched, ready>>

Next ==
    \/ Start \/ Refuse \/ Launch \/ LaunchFails \/ Ready \/ Fail \/ Stop
    \/ \E i \in alive : Die(i)

Spec == Init /\ [][Next]_vars

=============================================================================
