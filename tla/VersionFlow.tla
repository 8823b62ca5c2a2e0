---------------------------- MODULE VersionFlow ----------------------------
(***************************************************************************)
(* What building contracts promises of versions: they flow from the source *)
(* through cargo's target to the artifacts, and from the metadata among    *)
(* these to the bindings.  Only the bindings may turn to an older version; *)
(* a build is reported for what all of its artifacts hold.                 *)
(***************************************************************************)
EXTENDS Naturals

CONSTANTS
    Names,     \* of contracts
    Kinds      \* of artifacts, "json" among them

VARIABLES
    source, target, artifact, binding,  \* versions; 0 is a missing text
    fresh      \* the newest version a build of the contract was reported for

vars == <<source, target, artifact, binding, fresh>>

Init ==
    /\ source \in [Names -> Nat]
    /\ target = [n \in Names |-> 0]
    /\ artifact = [n \in Names |-> [k \in Kinds |-> 0]]
    /\ binding = target
    /\ fresh = target

Edit(n) ==
    /\ source' = [source EXCEPT ![n] = @ + 1]
    /\ UNCHANGED <<target, artifact, binding, fresh>>

\* A version the source has had, none before the one built last.
Build(n) ==
    /\ \E v \in target[n]..source[n] : target' = [target EXCEPT ![n] = v]
    /\ UNCHANGED <<source, artifact, binding, fresh>>

Copy(n, k) ==
    /\ target[n] # 0
    /\ artifact' = [artifact EXCEPT ![n][k] = target[n]]
    /\ UNCHANGED <<source, target, binding, fresh>>

\* Bindings of metadata there is or was, and the report of the build.
Finish(n) ==
    /\ \E v \in 1..artifact[n]["json"] : binding' = [binding EXCEPT ![n] = v]
    /\ \E v \in fresh[n]..artifact[n]["json"] :
        /\ \A k \in Kinds : v <= artifact[n][k]
        /\ fresh' = [fresh EXCEPT ![n] = v]
    /\ UNCHANGED <<source, target, artifact>>

Next == \E n \in Names :
    Edit(n) \/ Build(n) \/ Finish(n) \/ \E k \in Kinds : Copy(n, k)

Spec == Init /\ [][Next]_vars

=============================================================================
