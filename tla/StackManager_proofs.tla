------------------------ MODULE StackManager_proofs ------------------------
(***************************************************************************)
(* What TLAPS proves of StackManager, for a stack of any number of         *)
(* components.                                                             *)
(***************************************************************************)
EXTENDS StackManager, TLAPS

-----------------------------------------------------------------------------
(* Types.                                                                  *)

LEMMA StopType ==
    ASSUME TypeOK, NEW sig \in {"SIGTERM", "SIGKILL"}, StopStack(sig)
    PROVE  killFlag' = TRUE /\ signal' \in [Comp -> {"none", "SIGTERM", "SIGKILL"}]
BY DEF TypeOK, StopStack, Signals

LEMMA RejectType ==
    ASSUME TypeOK, NEW i \in Comp, Reject(i) \/ UNCHANGED <<promise, flow>>
    PROVE  /\ promise' \in [Comp -> {"none", "pending", "resolved", "rejected"}]
           /\ flow' \in {"idle", "refused", "starting", "returned", "threw"}
BY DEF TypeOK, Reject

LEMMA InitType == Init => TypeOK
<1> SUFFICES ASSUME Init PROVE TypeOK
    OBVIOUS
<1>1. killFlag \in BOOLEAN
    BY Zenon DEF Init
<1>2. stage \in Comp
    BY LastAssumption DEF Init, Comp
<1> QED
    BY <1>1, <1>2 DEF Init, TypeOK

LEMMA StepType == TypeOK /\ [Next]_vars => TypeOK'
<1> SUFFICES ASSUME TypeOK, [Next]_vars PROVE TypeOK'
    OBVIOUS
<1> USE DEF TypeOK
<1>1. ASSUME StartStack \/ StartFails PROVE TypeOK'
    BY <1>1 DEF StartStack, StartFails
<1>2. ASSUME NEW sig \in {"SIGTERM", "SIGKILL"}, Stop(sig) PROVE TypeOK'
    BY <1>2, StopType DEF Stop
<1>3. ASSUME NEW i \in Comp, Spawn(i) PROVE TypeOK'
    BY <1>3 DEF Spawn
<1>4. ASSUME NEW i \in Comp, SpawnFails(i) PROVE TypeOK'
    BY <1>4, StopType DEF SpawnFails
<1>5. ASSUME NEW i \in Comp, Tick(i) PROVE TypeOK'
    BY <1>5, RejectType DEF Tick, RejectIfPending
<1>6. ASSUME NEW i \in Comp, TimeLimit(i) PROVE TypeOK'
    BY <1>6, StopType, RejectType DEF TimeLimit
<1>7. ASSUME NEW i \in Comp, ReadyText(i) PROVE TypeOK'
    <2>1. stage' = stage \/ (i # Last /\ stage' = i + 1)
        BY <1>7 DEF ReadyText, GoOn
    <2>2. stage' \in Comp
        BY <2>1, LastAssumption DEF Comp
    <2> QED
        BY <1>7, <2>2 DEF ReadyText, Output, GoOn, Escapes
<1>8. ASSUME NEW i \in Comp, ErrorText(i) PROVE TypeOK'
    BY <1>8, StopType, RejectType DEF ErrorText, Output, RejectIfPending, Escapes
<1>9. ASSUME NEW i \in Comp, Exit(i) PROVE TypeOK'
    BY <1>9, StopType DEF Exit
<1>10. ASSUME NEW i \in Comp, Close(i) PROVE TypeOK'
    BY <1>10, StopType, RejectType DEF Close
<1>11. ASSUME NEW i \in Comp, LogFails(i) PROVE TypeOK'
    BY <1>11, StopType, RejectType DEF LogFails, Escapes
<1>12. CASE UNCHANGED vars
    BY <1>12 DEF vars
<1> HIDE DEF TypeOK
<1> QED
    BY <1>1, <1>2, <1>3, <1>4, <1>5, <1>6, <1>7, <1>8, <1>9, <1>10, <1>11, <1>12
       DEF Next, Call, Step

\* Every reachable state of startStack, stopStack and their callbacks is well typed;
\* in particular startStack never goes past its last task.
THEOREM TypeCorrect == Spec => []TypeOK
BY InitType, StepType, PTL DEF Spec

-----------------------------------------------------------------------------
(* Children that escape a stop.                                            *)

\* A child that printed its text, and nothing unusual, is one stopStack knows.
ReadyIsHeld ==
    \A i \in Comp : (proc[i] = "up" /\ i \notin interval /\ missed[i] = "no")
                        => i \in held \/ signal[i] # "none"

EscapeInv == ReadyIsHeld /\ OrphansExplained

LEMMA InitEscape == Init => EscapeInv
BY DEF Init, EscapeInv, ReadyIsHeld, OrphansExplained, Orphan

LEMMA StepEscape == TypeOK /\ EscapeInv /\ [Next]_vars => EscapeInv'
<1> SUFFICES ASSUME TypeOK, EscapeInv, [Next]_vars PROVE EscapeInv'
    OBVIOUS
<1> USE DEF EscapeInv, ReadyIsHeld, OrphansExplained, Orphan, TypeOK, Escapes
<1>1. ASSUME StartStack \/ StartFails PROVE EscapeInv'
    <2>1. UNCHANGED <<held, proc, killFlag, signal, interval, missed>>
        BY <1>1 DEF StartStack, StartFails
    <2> QED
        BY <2>1
<1>2. ASSUME NEW sig \in {"SIGTERM", "SIGKILL"}, Stop(sig) PROVE EscapeInv'
    <2>1. /\ UNCHANGED <<held, proc, interval, missed>>
          /\ StopStack(sig)
        BY <1>2 DEF Stop
    <2> QED
        BY <2>1 DEF StopStack, Signals
<1>3. ASSUME NEW i \in Comp, Spawn(i) PROVE EscapeInv'
    BY <1>3 DEF Spawn
<1>4. ASSUME NEW i \in Comp, SpawnFails(i) PROVE EscapeInv'
    BY <1>4 DEF SpawnFails, StopStack, Signals
<1>5. ASSUME NEW i \in Comp, Tick(i) PROVE EscapeInv'
    BY <1>5 DEF Tick, RejectIfPending
<1>6. ASSUME NEW i \in Comp, TimeLimit(i) PROVE EscapeInv'
    BY <1>6 DEF TimeLimit, StopStack, Signals
<1>7. ASSUME NEW i \in Comp, ReadyText(i) PROVE EscapeInv'
    BY <1>7 DEF ReadyText, Output, GoOn
<1>8. ASSUME NEW i \in Comp, ErrorText(i) PROVE EscapeInv'
    <2>1. /\ UNCHANGED <<held, proc>>
          /\ interval' = interval \ {i}
          /\ missed' = [missed EXCEPT ![i] = "error text"]
        BY <1>8 DEF ErrorText, Output
    <2>2. CASE promise[i] = "pending"
        <3>1. StopStack("SIGKILL")
            BY <1>8, <2>2 DEF ErrorText
        <3> QED
            BY <2>1, <3>1 DEF StopStack, Signals
    <2>3. CASE promise[i] # "pending"
        <3>1. UNCHANGED <<killFlag, signal>>
            BY <1>8, <2>3 DEF ErrorText
        <3> QED
            BY <2>1, <3>1
    <2> QED
        BY <2>2, <2>3
<1>9. ASSUME NEW i \in Comp, Exit(i) PROVE EscapeInv'
    BY <1>9 DEF Exit, StopStack, Signals
<1>10. ASSUME NEW i \in Comp, Close(i) PROVE EscapeInv'
    <2>1. /\ UNCHANGED <<held, interval, missed>>
          /\ proc' = [proc EXCEPT ![i] = "closed"]
        BY <1>10 DEF Close
    <2>2. CASE StopStack("SIGKILL")
        BY <2>1, <2>2 DEF StopStack, Signals
    <2>3. CASE UNCHANGED <<killFlag, signal>>
        BY <2>1, <2>3
    <2> QED
        BY <1>10, <2>2, <2>3 DEF Close
<1>11. ASSUME NEW i \in Comp, LogFails(i) PROVE EscapeInv'
    <2>1. /\ UNCHANGED <<held, interval>>
          /\ proc' = [proc EXCEPT ![i] = "up"]
          /\ missed' = [missed EXCEPT ![i] = "log file"]
          /\ StopStack("SIGKILL")
        BY <1>11 DEF LogFails
    <2> QED
        BY <2>1 DEF StopStack, Signals
<1>12. CASE UNCHANGED vars
    BY <1>12 DEF vars
<1> HIDE DEF EscapeInv, TypeOK
<1> QED
    BY <1>1, <1>2, <1>3, <1>4, <1>5, <1>6, <1>7, <1>8, <1>9, <1>10, <1>11, <1>12
       DEF Next, Call, Step

\* A child that outlives the stop of the stack escaped in one of the four
\* ways the code leaves open; one that was ready before the stop never does.
THEOREM OrphansAreExplained == Spec => []OrphansExplained
BY TypeCorrect, InitEscape, StepEscape, PTL DEF Spec, EscapeInv

-----------------------------------------------------------------------------
(* The order of the start.                                                 *)

\* The task that runs is the only one that waits for its component.
PendingIsCurrent ==
    \A i \in Comp : promise[i] = "pending" => i = stage /\ flow = "starting"

SpawnedHasPromise == \A i \in Comp : (promise[i] = "none") <=> (proc[i] = "none")

DeadMeansStopped == \A i \in Comp : proc[i] \in {"exited", "closed"} => killFlag

\* A component that became ready in spite of a stop was the last to be started.
LateMeansOver ==
    \A i \in Comp : missed[i] = "ready after stop" => flow \in {"returned", "threw"}

NotYetSpawned ==
    flow \in {"idle", "starting"} => \A i \in Comp : i > stage => proc[i] = "none"

\* Without a stop, the components before the current one run and are held.
StartedInOrder ==
    (flow \in {"idle", "starting"} /\ ~killFlag) =>
        \A i \in Comp : i < stage => proc[i] = "up" /\ i \in held

StartInv ==
    /\ PendingIsCurrent
    /\ SpawnedHasPromise
    /\ DeadMeansStopped
    /\ LateMeansOver
    /\ NotYetSpawned
    /\ StartedInOrder
    /\ RunningIsComplete

LEMMA CompNat == \A i \in Comp : i \in Nat /\ 1 <= i /\ i <= Last
BY LastAssumption DEF Comp

\* The order of the components, as the proofs use it.
LEMMA CompOrder ==
    \A i, k \in Comp : /\ k <= i => k < i \/ k = i
                       /\ k < i + 1 => k <= i
                       /\ k > i + 1 => k > i
                       /\ k < i \/ k > i => k # i
BY LastAssumption DEF Comp

LEMMA InitStart == Init => StartInv
BY CompNat DEF Init, StartInv, PendingIsCurrent, SpawnedHasPromise, DeadMeansStopped,
               LateMeansOver, NotYetSpawned, StartedInOrder, RunningIsComplete

\* A task that rejects ends the start, and leaves nobody waiting.
LEMMA RejectKeeps ==
    ASSUME TypeOK, StartInv, NEW i \in Comp, promise[i] = "pending",
           promise' = [promise EXCEPT ![i] = "rejected"], flow' = "threw"
    PROVE  /\ PendingIsCurrent' /\ LateMeansOver' /\ NotYetSpawned' /\ StartedInOrder'
           /\ \A k \in Comp : (promise'[k] = "none") <=> (promise[k] = "none")
<1>1. \A k \in Comp : promise'[k] = IF k = i THEN "rejected" ELSE promise[k]
    BY DEF TypeOK
<1>2. \A k \in Comp : promise[k] = "pending" => k = i
    BY DEF StartInv, PendingIsCurrent
<1>3. \A k \in Comp : promise'[k] # "pending"
    BY <1>1, <1>2
<1>4. PendingIsCurrent'
    BY <1>3 DEF PendingIsCurrent
<1>5. LateMeansOver' /\ NotYetSpawned' /\ StartedInOrder'
    BY DEF LateMeansOver, NotYetSpawned, StartedInOrder
<1>6. \A k \in Comp : (promise'[k] = "none") <=> (promise[k] = "none")
    BY <1>1
<1> QED
    BY <1>4, <1>5, <1>6

LEMMA StepStart == TypeOK /\ StartInv /\ [Next]_vars => StartInv'
<1> SUFFICES ASSUME TypeOK, StartInv, [Next]_vars PROVE StartInv'
    OBVIOUS
<1> USE DEF StartInv, PendingIsCurrent, SpawnedHasPromise, DeadMeansStopped, LateMeansOver,
            NotYetSpawned, StartedInOrder, RunningIsComplete, TypeOK
<1>1. ASSUME StartStack \/ StartFails PROVE StartInv'
    BY <1>1 DEF StartStack, StartFails
<1>2. ASSUME NEW sig \in {"SIGTERM", "SIGKILL"}, Stop(sig) PROVE StartInv'
    BY <1>2 DEF Stop, StopStack
<1>3. ASSUME NEW i \in Comp, Spawn(i) PROVE StartInv'
    <2>1. /\ flow = "starting" /\ stage = i /\ proc[i] = "none"
          /\ proc' = [proc EXCEPT ![i] = "up"]
          /\ promise' = [promise EXCEPT ![i] = "pending"]
          /\ UNCHANGED <<flow, stage, held, killFlag, missed>>
        BY <1>3 DEF Spawn
    <2>2. PendingIsCurrent' /\ SpawnedHasPromise' /\ DeadMeansStopped' /\ LateMeansOver'
        BY <2>1
    <2>3. NotYetSpawned' /\ StartedInOrder'
        <3>1. \A k \in Comp : k > stage \/ k < stage => k # i
            BY <2>1, CompOrder
        <3> QED
            BY <2>1, <3>1
    <2> QED
        BY <2>1, <2>2, <2>3
<1>4. ASSUME NEW i \in Comp, SpawnFails(i) PROVE StartInv'
    <2>1. flow' = "threw" /\ killFlag' = TRUE /\ UNCHANGED <<proc, stage, held, promise, missed>>
        BY <1>4 DEF SpawnFails, StopStack
    <2>2. flow = "starting" /\ stage = i /\ proc[i] = "none"
        BY <1>4 DEF SpawnFails
    <2> QED
        BY <2>1, <2>2
<1>5. ASSUME NEW i \in Comp, Tick(i) PROVE StartInv'
    <2>1. killFlag /\ UNCHANGED <<stage, held, killFlag, proc, missed>>
        BY <1>5 DEF Tick
    <2>2. \/ promise' = [promise EXCEPT ![i] = "rejected"] /\ flow' = "threw" /\ promise[i] = "pending"
          \/ promise' = promise /\ flow' = flow
        BY <1>5 DEF Tick, RejectIfPending, Reject
    <2>3. CASE promise' = promise /\ flow' = flow
        BY <2>1, <2>3
    <2>4. CASE promise' = [promise EXCEPT ![i] = "rejected"] /\ flow' = "threw" /\ promise[i] = "pending"
        <3> HIDE DEF StartInv, PendingIsCurrent, LateMeansOver, NotYetSpawned, StartedInOrder, TypeOK
        <3>1. /\ PendingIsCurrent' /\ LateMeansOver' /\ NotYetSpawned' /\ StartedInOrder'
              /\ \A k \in Comp : (promise'[k] = "none") <=> (promise[k] = "none")
            BY <2>4, RejectKeeps
        <3>2. SpawnedHasPromise' /\ DeadMeansStopped'
            BY <2>1, <3>1 DEF StartInv
        <3>3. RunningIsComplete'
            BY <2>4
        <3> QED
            BY <3>1, <3>2, <3>3 DEF StartInv
    <2> QED
        BY <2>2, <2>3, <2>4
<1>6. ASSUME NEW i \in Comp, TimeLimit(i) PROVE StartInv'
    <2>1. /\ promise[i] = "pending" /\ flow' = "threw" /\ killFlag' = TRUE
          /\ promise' = [promise EXCEPT ![i] = "rejected"]
          /\ UNCHANGED <<stage, held, proc, missed>>
        BY <1>6 DEF TimeLimit, StopStack, Reject
    <2> HIDE DEF StartInv, PendingIsCurrent, LateMeansOver, NotYetSpawned, StartedInOrder, TypeOK
    <2>2. /\ PendingIsCurrent' /\ LateMeansOver' /\ NotYetSpawned' /\ StartedInOrder'
          /\ \A k \in Comp : (promise'[k] = "none") <=> (promise[k] = "none")
        BY <2>1, RejectKeeps
    <2>3. SpawnedHasPromise'
        BY <2>1, <2>2 DEF StartInv
    <2>4. DeadMeansStopped' /\ RunningIsComplete'
        BY <2>1
    <2> QED
        BY <2>2, <2>3, <2>4 DEF StartInv
<1>7. ASSUME NEW i \in Comp, ReadyText(i) PROVE StartInv'
    <2>1. proc[i] \in {"up", "exited"} /\ UNCHANGED <<killFlag, proc>>
        BY <1>7 DEF ReadyText, Output
    <2>2. CASE promise[i] # "pending"
        <3>1. /\ UNCHANGED <<promise, held, flow, stage>>
              /\ missed' = [missed EXCEPT ![i] = "ready after limit"]
            BY <1>7, <2>2 DEF ReadyText
        <3> QED
            BY <2>1, <3>1
    <2>3. CASE promise[i] = "pending" /\ killFlag
        <3>1. /\ promise' = [promise EXCEPT ![i] = "resolved"]
              /\ flow' = "returned"
              /\ missed' = [missed EXCEPT ![i] = "ready after stop"]
            BY <1>7, <2>3 DEF ReadyText, GoOn
        <3> QED
            BY <2>1, <2>3, <3>1
    <2>4. CASE promise[i] = "pending" /\ ~killFlag
        <3>1. /\ promise' = [promise EXCEPT ![i] = "resolved"]
              /\ held' = held \cup {i}
              /\ missed' = missed
            BY <1>7, <2>4 DEF ReadyText, GoOn
        <3>2. proc[i] = "up" /\ stage = i /\ flow = "starting"
            BY <2>1, <2>4
        <3>3. \A k \in Comp : k <= i => proc'[k] = "up" /\ k \in held'
            <4>1. \A k \in Comp : k <= i => k < stage \/ k = i
                BY <3>2, CompOrder
            <4>2. \A k \in Comp : k < stage \/ k = i => proc[k] = "up" /\ k \in held \cup {i}
                BY <2>4, <3>2
            <4> QED
                BY <2>1, <3>1, <4>1, <4>2
        <3>4. CASE i = Last
            <4>1. flow' = "returned"
                BY <1>7, <2>4, <3>4 DEF ReadyText, GoOn
            <4>2. RunningIsComplete'
                BY <3>3, <3>4, CompNat
            <4> QED
                BY <2>1, <2>4, <3>1, <3>2, <4>1, <4>2
        <3>5. CASE i # Last
            <4>1. stage' = i + 1 /\ flow' = flow
                BY <1>7, <2>4, <3>5 DEF ReadyText, GoOn
            <4>2. StartedInOrder'
                <5>1. \A k \in Comp : k < stage' => k <= i
                    BY <4>1, CompOrder
                <5> QED
                    BY <3>3, <5>1
            <4>3. NotYetSpawned'
                <5>1. \A k \in Comp : k > stage' => k > stage
                    BY <3>2, <4>1, CompOrder
                <5> QED
                    BY <2>1, <3>2, <5>1
            <4> QED
                BY <2>1, <2>4, <3>1, <3>2, <4>1, <4>2, <4>3
        <3> QED
            BY <3>4, <3>5
    <2> QED
        BY <2>2, <2>3, <2>4
<1>8. ASSUME NEW i \in Comp, ErrorText(i) PROVE StartInv'
    <2>1. proc[i] \in {"up", "exited"} /\ UNCHANGED <<stage, held, proc>>
          /\ missed' = [missed EXCEPT ![i] = "error text"]
        BY <1>8 DEF ErrorText, Output
    <2>2. \/ /\ promise' = [promise EXCEPT ![i] = "rejected"] /\ promise[i] = "pending"
             /\ flow' = "threw" /\ killFlag' = TRUE
          \/ promise' = promise /\ flow' = flow /\ killFlag' = killFlag
        BY <1>8 DEF ErrorText, RejectIfPending, StopStack, Reject
    <2>3. CASE promise' = promise /\ flow' = flow /\ killFlag' = killFlag
        BY <2>1, <2>3
    <2>4. CASE /\ promise' = [promise EXCEPT ![i] = "rejected"] /\ promise[i] = "pending"
               /\ flow' = "threw" /\ killFlag' = TRUE
        <3> HIDE DEF StartInv, PendingIsCurrent, LateMeansOver, NotYetSpawned, StartedInOrder, TypeOK
        <3>1. /\ PendingIsCurrent' /\ LateMeansOver' /\ NotYetSpawned' /\ StartedInOrder'
              /\ \A k \in Comp : (promise'[k] = "none") <=> (promise[k] = "none")
            BY <2>4, RejectKeeps
        <3>2. SpawnedHasPromise' /\ DeadMeansStopped'
            BY <2>1, <2>4, <3>1 DEF StartInv
        <3>3. RunningIsComplete'
            BY <2>4
        <3> QED
            BY <3>1, <3>2, <3>3 DEF StartInv
    <2> QED
        BY <2>2, <2>3, <2>4
<1>9. ASSUME NEW i \in Comp, Exit(i) PROVE StartInv'
    BY <1>9 DEF Exit, StopStack
<1>10. ASSUME NEW i \in Comp, Close(i) PROVE StartInv'
    <2>1. /\ proc[i] = "exited" /\ proc' = [proc EXCEPT ![i] = "closed"]
          /\ UNCHANGED <<stage, held, missed>>
        BY <1>10 DEF Close
    <2>2. \/ /\ promise' = [promise EXCEPT ![i] = "rejected"] /\ promise[i] = "pending"
             /\ flow' = "threw" /\ killFlag' = TRUE
          \/ promise' = promise /\ flow' = flow /\ killFlag' = killFlag
        BY <1>10 DEF Close, StopStack, Reject
    <2>3. killFlag
        BY <2>1
    <2>4. CASE promise' = promise /\ flow' = flow /\ killFlag' = killFlag
        BY <2>1, <2>3, <2>4
    <2>5. CASE /\ promise' = [promise EXCEPT ![i] = "rejected"] /\ promise[i] = "pending"
               /\ flow' = "threw" /\ killFlag' = TRUE
        <3>1. \A k \in Comp : (proc'[k] = "none") <=> (proc[k] = "none")
            BY <2>1
        <3> HIDE DEF StartInv, PendingIsCurrent, LateMeansOver, NotYetSpawned, StartedInOrder, TypeOK
        <3>2. /\ PendingIsCurrent' /\ LateMeansOver' /\ NotYetSpawned' /\ StartedInOrder'
              /\ \A k \in Comp : (promise'[k] = "none") <=> (promise[k] = "none")
            BY <2>5, RejectKeeps
        <3>3. SpawnedHasPromise' /\ DeadMeansStopped'
            BY <2>5, <3>1, <3>2 DEF StartInv
        <3>4. RunningIsComplete'
            BY <2>5
        <3> QED
            BY <3>2, <3>3, <3>4 DEF StartInv
    <2> QED
        BY <2>2, <2>4, <2>5
<1>11. ASSUME NEW i \in Comp, LogFails(i) PROVE StartInv'
    <2>1. /\ flow = "starting" /\ stage = i /\ flow' = "threw" /\ killFlag' = TRUE
          /\ proc' = [proc EXCEPT ![i] = "up"]
          /\ promise' = [promise EXCEPT ![i] = "rejected"]
          /\ missed' = [missed EXCEPT ![i] = "log file"]
          /\ UNCHANGED <<stage, held>>
        BY <1>11 DEF LogFails, Reject, StopStack
    <2> QED
        BY <2>1
<1>12. CASE UNCHANGED vars
    BY <1>12 DEF vars
<1> HIDE DEF StartInv, TypeOK
<1> QED
    BY <1>1, <1>2, <1>3, <1>4, <1>5, <1>6, <1>7, <1>8, <1>9, <1>10, <1>11, <1>12
       DEF Next, Call, Step

\* When startStack returned and nothing stopped the stack, it is complete.
THEOREM RunningComplete == Spec => []RunningIsComplete
<1>1. StartInv => RunningIsComplete
    BY DEF StartInv
<1> QED
    BY <1>1, TypeCorrect, InitStart, StepStart, PTL DEF Spec

\* Nothing is spawned once a component got ready in spite of a stop.
THEOREM StopNoticed == Spec => StopIsNoticed
<1>1. TypeOK /\ StartInv /\ [Next]_vars
        => [\A i \in Comp : (proc[i] = "none" /\ proc'[i] = "up") =>
               \A k \in Comp : missed[k] # "ready after stop"]_vars
    <2> SUFFICES ASSUME TypeOK, StartInv, Next, NEW i \in Comp, proc[i] = "none", proc'[i] = "up"
                 PROVE  flow = "starting"
        BY DEF StartInv, LateMeansOver
    <2> PICK k \in Comp : Step(k)
        BY DEF Next, Call, StartStack, StartFails, Stop
    <2>1. ~(SpawnFails(k) \/ Tick(k) \/ TimeLimit(k) \/ ReadyText(k) \/ ErrorText(k))
        BY DEF SpawnFails, Tick, TimeLimit, ReadyText, ErrorText
    <2>2. ASSUME Exit(k) \/ Close(k) PROVE FALSE
        <3>1. proc' = [proc EXCEPT ![k] = "exited"] \/ proc' = [proc EXCEPT ![k] = "closed"]
            BY <2>2 DEF Exit, Close
        <3>2. proc'[i] \in {proc[i], "exited", "closed"}
            BY <3>1 DEF TypeOK
        <3> QED
            BY <3>2
    <2> QED
        BY <2>1, <2>2 DEF Step, Spawn, LogFails
<1> QED
    BY <1>1, TypeCorrect, InitStart, StepStart, PTL DEF Spec, StopIsNoticed

-----------------------------------------------------------------------------
(* What a start promises.                                                  *)

\* A component is in _processes when its promise has resolved.
HeldIsResolved == \A i \in held : promise[i] = "resolved"

LEMMA InitHeld == Init => HeldIsResolved
BY DEF Init, HeldIsResolved

LEMMA StepHeld == TypeOK /\ StartInv /\ HeldIsResolved /\ [Next]_vars => HeldIsResolved'
<1> SUFFICES ASSUME TypeOK, StartInv, HeldIsResolved, [Next]_vars PROVE HeldIsResolved'
    OBVIOUS
<1> USE DEF HeldIsResolved, TypeOK
<1>1. ASSUME NEW i \in Comp, Spawn(i) PROVE HeldIsResolved'
    BY <1>1 DEF Spawn, StartInv, SpawnedHasPromise
<1>2. ASSUME NEW i \in Comp, ReadyText(i) PROVE HeldIsResolved'
    <2>1. \/ UNCHANGED <<promise, held>>
          \/ /\ held' = held \cup {i}
             /\ promise' = [promise EXCEPT ![i] = "resolved"]
        BY <1>2 DEF ReadyText, GoOn
    <2> QED BY <1>2, <2>1
<1>3. ASSUME NEW i \in Comp, Tick(i) \/ TimeLimit(i) \/ ErrorText(i) \/ Close(i) PROVE HeldIsResolved'
    <2>1. \/ UNCHANGED <<promise, held>>
          \/ promise[i] = "pending" /\ promise' = [promise EXCEPT ![i] = "rejected"] /\ held' = held
        BY <1>3 DEF Tick, TimeLimit, ErrorText, Close, RejectIfPending, Reject
    <2> QED BY <2>1
<1>4. ASSUME NEW i \in Comp, SpawnFails(i) \/ Exit(i) PROVE HeldIsResolved'
    BY <1>4 DEF SpawnFails, Exit
<1>5. CASE Call \/ UNCHANGED vars
    BY <1>5 DEF Call, StartStack, StartFails, Stop, vars
<1>6. ASSUME NEW i \in Comp, LogFails(i) PROVE HeldIsResolved'
    BY <1>6 DEF LogFails, Reject, StartInv, SpawnedHasPromise
<1> QED BY <1>1, <1>2, <1>3, <1>4, <1>5, <1>6 DEF Next, Step

\* The numbers of the components launched and ready, from what the current
\* one has come to.
LEMMA Counts ==
    ASSUME TypeOK, StartInv, HeldIsResolved
    PROVE  /\ stage \in Nat /\ 1 <= stage /\ stage <= Last /\ Last \in Nat
           /\ promise[stage] = "none" => Launched = stage - 1 /\ Ready = stage - 1
           /\ promise[stage] = "pending" => Launched = stage /\ Ready = stage - 1
<1>1. stage \in Comp /\ stage \in Nat /\ 1 <= stage /\ stage <= Last /\ Last \in Nat
    BY CompNat, LastAssumption DEF TypeOK
<1>2. promise[stage] = "none" <=> proc[stage] = "none"
    BY <1>1 DEF StartInv, SpawnedHasPromise
<1>3. promise[stage] # "resolved" => stage \notin held
    BY DEF HeldIsResolved
<1> QED BY <1>1, <1>2, <1>3 DEF Launched, Ready

\* The steps of the start itself.
LEMMA SpawnOrder ==
    ASSUME TypeOK, TypeOK', StartInv, StartInv', HeldIsResolved, HeldIsResolved',
           NEW i \in Comp, Spawn(i)
    PROVE  Order!Launch
<1>1. /\ flow = "starting" /\ stage = i /\ promise[i] = "none" /\ promise'[i] = "pending"
      /\ proc' = [proc EXCEPT ![i] = "up"]
      /\ UNCHANGED <<flow, stage, held, killFlag>>
    BY DEF Spawn, TypeOK, StartInv, SpawnedHasPromise
<1>2. Launched = stage - 1 /\ Ready = stage - 1 /\ stage \in Nat /\ stage <= Last /\ Last \in Nat
    BY <1>1, Counts
<1>3. Launched' = stage /\ Ready' = Ready
    <2>1. stage' \in held' => stage \in held
        BY <1>1
    <2>2. Launched' = stage
        BY <1>1 DEF Launched, TypeOK
    <2> QED BY <1>1, <2>2 DEF Ready
<1>4. Alive' = Alive \cup {stage}
    BY <1>1 DEF Alive, TypeOK
<1>5. Launched < Last /\ Launched' = Launched + 1
    BY <1>2, <1>3
<1> QED BY <1>1, <1>2, <1>3, <1>4, <1>5 DEF Order!Launch

LEMMA LogOrder ==
    ASSUME TypeOK, TypeOK', StartInv, StartInv', HeldIsResolved, HeldIsResolved',
           NEW i \in Comp, LogFails(i)
    PROVE  Order!LaunchFails
<1>1. /\ flow = "starting" /\ stage = i /\ promise[i] = "none"
      /\ proc' = [proc EXCEPT ![i] = "up"]
      /\ flow' = "threw" /\ killFlag' = TRUE
      /\ UNCHANGED <<stage, held>>
    BY DEF LogFails, Reject, StopStack, TypeOK, StartInv, SpawnedHasPromise
<1>2. Launched = stage - 1 /\ Ready = stage - 1 /\ stage \in Nat /\ stage <= Last /\ Last \in Nat
    BY <1>1, Counts
<1>3. Launched' = stage /\ Ready' = Ready
    BY <1>1 DEF Launched, Ready, TypeOK
<1>4. Alive' = Alive \cup {stage}
    BY <1>1 DEF Alive, TypeOK
<1>5. Launched < Last /\ Launched' = Launched + 1
    BY <1>2, <1>3
<1> QED BY <1>1, <1>2, <1>3, <1>4, <1>5 DEF Order!LaunchFails

LEMMA ReadyOrder ==
    ASSUME TypeOK, StartInv, HeldIsResolved, NEW i \in Comp, ReadyText(i), promise[i] = "pending"
    PROVE  Order!Ready
<1>1. /\ stage = i /\ flow = "starting" /\ held' = held \cup {i} /\ UNCHANGED <<killFlag, proc>>
      /\ \/ (killFlag \/ i = Last) /\ flow' = "returned" /\ stage' = stage
         \/ ~killFlag /\ i # Last /\ flow' = flow /\ stage' = stage + 1
    BY DEF ReadyText, GoOn, StartInv, PendingIsCurrent
<1>2. Launched = stage /\ Ready = stage - 1 /\ stage \in Nat /\ stage <= Last /\ Last \in Nat /\ 1 <= stage
    BY <1>1, Counts
<1>3. Alive' = Alive
    BY <1>1 DEF Alive
<1>4. CASE stage' = stage
    <2>1. Launched' = stage /\ Ready' = stage
        BY <1>1, <1>2, <1>4 DEF Launched, Ready
    <2> QED BY <1>1, <1>2, <1>3, <1>4, <2>1 DEF Order!Ready
<1>5. CASE stage' = stage + 1
    <2>1. ~killFlag /\ stage # Last /\ flow' = flow
        BY <1>1, <1>2, <1>5
    <2>2. stage + 1 \in Comp /\ stage + 1 > stage
        BY <1>2, <2>1 DEF Comp
    <2>3. proc[stage + 1] = "none"
        BY <1>1, <2>2 DEF StartInv, NotYetSpawned
    <2>4. stage + 1 \notin held'
        BY <1>1, <1>2, <2>2, <2>3 DEF StartInv, SpawnedHasPromise, HeldIsResolved
    <2>5. Launched' = stage /\ Ready' = stage
        BY <1>1, <1>2, <1>5, <2>3, <2>4 DEF Launched, Ready
    <2> QED BY <1>1, <1>2, <1>3, <2>1, <2>5 DEF Order!Ready
<1> QED BY <1>1, <1>4, <1>5

LEMMA StepOrder ==
    ASSUME TypeOK, TypeOK', StartInv, StartInv', HeldIsResolved, HeldIsResolved', [Next]_vars
    PROVE  Order!Next \/ UNCHANGED <<flow, Launched, Ready, Alive, killFlag>>
<1>1. ASSUME UNCHANGED <<stage, held, proc>> PROVE UNCHANGED <<Launched, Ready, Alive>>
    BY <1>1 DEF Launched, Ready, Alive
<1>2. CASE StartStack \/ StartFails
    BY <1>1, <1>2 DEF StartStack, StartFails, Order!Start, Order!Refuse, Order!Next
<1>3. ASSUME NEW sig \in {"SIGTERM", "SIGKILL"}, Stop(sig) PROVE Order!Stop
    BY <1>1, <1>3 DEF Stop, StopStack, Order!Stop
<1>4. ASSUME NEW i \in Comp, Spawn(i) PROVE Order!Next
    BY <1>4, SpawnOrder DEF Order!Next
<1>5. ASSUME NEW i \in Comp, SpawnFails(i) \/ TimeLimit(i) PROVE Order!Fail
    <2>1. flow = "starting" /\ flow' = "threw" /\ killFlag' = TRUE /\ UNCHANGED <<stage, held, proc>>
        BY <1>5 DEF SpawnFails, TimeLimit, Reject, StopStack, StartInv, PendingIsCurrent
    <2> QED BY <1>1, <2>1 DEF Order!Fail
<1>6. ASSUME NEW i \in Comp, Tick(i) \/ ErrorText(i)
      PROVE  Order!Fail \/ UNCHANGED <<flow, Launched, Ready, Alive, killFlag>>
    <2>1. /\ UNCHANGED <<stage, held, proc>>
          /\ \/ flow = "starting" /\ flow' = "threw" /\ killFlag' = TRUE
             \/ UNCHANGED <<flow, killFlag>>
        BY <1>6 DEF Tick, ErrorText, RejectIfPending, Reject, StopStack, StartInv, PendingIsCurrent
    <2> QED BY <1>1, <2>1 DEF Order!Fail
<1>7. ASSUME NEW i \in Comp, ReadyText(i)
      PROVE  Order!Ready \/ UNCHANGED <<flow, Launched, Ready, Alive, killFlag>>
    <2>1. CASE promise[i] = "pending"
        BY <1>7, <2>1, ReadyOrder
    <2>2. CASE promise[i] # "pending"
        BY <1>1, <1>7, <2>2 DEF ReadyText
    <2> QED BY <2>1, <2>2
<1>8. ASSUME NEW i \in Comp, Exit(i) \/ Close(i)
      PROVE  UNCHANGED <<Launched, Ready>> /\ Alive' = Alive \ {i}
    <2>1. /\ UNCHANGED <<stage, held>> /\ proc[i] # "none" /\ proc'[i] \notin {"none", "up"}
          /\ \A k \in Comp \ {i} : proc'[k] = proc[k]
        BY <1>8 DEF Exit, Close, TypeOK
    <2>2. proc'[stage] = "none" <=> proc[stage] = "none"
        BY <2>1 DEF TypeOK
    <2> QED BY <2>1, <2>2 DEF Launched, Ready, Alive
<1>9. ASSUME NEW i \in Comp, Exit(i) PROVE Order!Next
    <2>1. i \in Alive /\ flow' = flow /\ killFlag' = TRUE
        BY <1>9 DEF Exit, StopStack, Alive
    <2>2. Order!Die(i)
        BY <1>8, <1>9, <2>1 DEF Order!Die
    <2> QED BY <2>1, <2>2 DEF Order!Next
<1>10. ASSUME NEW i \in Comp, Close(i)
       PROVE  Order!Fail \/ UNCHANGED <<flow, Launched, Ready, Alive, killFlag>>
    <2>1. i \notin Alive
        BY <1>10 DEF Close, Alive
    <2>2. UNCHANGED <<Launched, Ready, Alive>>
        BY <1>8, <1>10, <2>1
    <2>3. \/ flow = "starting" /\ flow' = "threw" /\ killFlag' = TRUE
          \/ UNCHANGED <<flow, killFlag>>
        BY <1>10 DEF Close, Reject, StopStack, StartInv, PendingIsCurrent
    <2> QED BY <2>2, <2>3 DEF Order!Fail
<1>11. ASSUME NEW i \in Comp, LogFails(i) PROVE Order!Next
    BY <1>11, LogOrder DEF Order!Next
<1>12. CASE UNCHANGED vars
    BY <1>1, <1>12 DEF vars
<1> QED BY <1>2, <1>3, <1>4, <1>5, <1>6, <1>7, <1>9, <1>10, <1>11, <1>12 DEF Next, Call, Step, Order!Next

\* startStack implements StackOrder, for a stack of any number of components:
\* whatever its callbacks interleave, the components come up in their order,
\* and what stopped one of them has stopped the stack.
THEOREM Starts == Spec => StartsInOrder
<1>1. Init => Order!Init
    <2> SUFFICES ASSUME Init PROVE Order!Init
        OBVIOUS
    <2>1. stage = 1 /\ 1 \in Comp /\ held = {} /\ flow = "idle" /\ killFlag = FALSE
        BY LastAssumption DEF Init, Comp
    <2>2. \A i \in Comp : proc[i] = "none"
        BY DEF Init
    <2>3. Launched = 0 /\ Ready = 0
        BY <2>1, <2>2 DEF Launched, Ready
    <2>4. Alive = {}
        BY <2>2 DEF Alive
    <2> QED BY <2>1, <2>3, <2>4 DEF Order!Init
<1>2. TypeOK /\ TypeOK' /\ StartInv /\ StartInv' /\ HeldIsResolved /\ HeldIsResolved' /\ [Next]_vars
        => [Order!Next]_(Order!vars)
    BY StepOrder DEF Order!vars
<1> QED
    BY <1>1, <1>2, TypeCorrect, InitStart, StepStart, InitHeld, StepHeld, PTL
       DEF Spec, StartsInOrder, Order!Spec

=============================================================================
