--------------------------- MODULE TestRun_proofs ---------------------------
(***************************************************************************)
(* What TLAPS proves of TestRun, for a stack of any number of components:  *)
(* the proofs of StackManager carry over to the composition.               *)
(***************************************************************************)
EXTENDS TestRun, TLAPS

P == INSTANCE StackManager_proofs

-----------------------------------------------------------------------------
(* The stack within the test run.                                          *)

LEMMA StackInit == S!Init => P!Init
BY DEF S!Init, P!Init, S!Comp, P!Comp

LEMMA StackStart == S!StartStack \/ S!StartFails => P!Next
BY DEF S!StartStack, P!StartStack, S!StartFails, P!StartFails, P!Next, P!Call

LEMMA StackStop == S!Stop("SIGTERM") => P!Next
BY DEF S!Stop, P!Stop, P!Next, P!Call, S!StopStack, P!StopStack, S!Signals, P!Signals, S!Comp, P!Comp

LEMMA StackSteps == \A i \in S!Comp : S!Step(i) => P!Next
<1> SUFFICES ASSUME NEW i \in S!Comp, S!Step(i) PROVE P!Next
  OBVIOUS
<1>1. i \in P!Comp
  BY DEF S!Comp, P!Comp
<1>2. P!Step(i)
  BY Zenon DEF S!Step, P!Step, S!Spawn, P!Spawn, S!SpawnFails, P!SpawnFails, S!LogFails,
     P!LogFails, S!Tick, P!Tick, S!TimeLimit,
     P!TimeLimit, S!ReadyText, P!ReadyText, S!ErrorText, P!ErrorText, S!Exit, P!Exit, S!Close,
     P!Close, S!StopStack, P!StopStack, S!Signals, P!Signals, S!Comp, P!Comp, S!Reject, P!Reject,
     S!RejectIfPending, P!RejectIfPending, S!Output, P!Output, S!GoOn, P!GoOn
<1> QED BY <1>1, <1>2 DEF P!Next

LEMMA StackTypes == S!TypeOK <=> P!TypeOK
BY DEF S!TypeOK, P!TypeOK, S!Comp, P!Comp, S!Escapes, P!Escapes

\* A step of the test run is one of its stack, or leaves the stack alone.
LEMMA StackMoves == [Next]_vars => P!Next \/ UNCHANGED stackVars
BY StackStart, StackStop, StackSteps
   DEF Next, BeforeStep, AfterStep, StackStep, Begin, StackStarted, StackFailed, Connect, Setup,
       GetLogger, SaveLogs, Custom, Cleanup, Stop, BeforeLimit, AfterLimit, TestsOver, vars

StackInv == P!TypeOK /\ P!EscapeInv /\ P!StartInv

LEMMA StepStack == StackInv /\ [Next]_vars => StackInv'
<1> SUFFICES ASSUME StackInv, [Next]_vars PROVE StackInv'
  OBVIOUS
<1>1. [P!Next]_P!vars
  BY StackMoves DEF P!vars, stackVars
<1> QED BY <1>1, P!StepType, P!StepEscape, P!StepStart, LastAssumption DEF StackInv

\* startStack does not throw once it returned, and a stop is never taken back.
LEMMA StackStays ==
    ASSUME StackInv, [Next]_vars
    PROVE  /\ flow = "returned" => flow' = "returned"
           /\ killFlag => killFlag'
<1>1. CASE UNCHANGED stackVars
  BY <1>1 DEF stackVars
<1>2. CASE P!Next
  <2>1. flow = "returned" => \A i \in P!Comp : promise[i] # "pending"
    BY DEF StackInv, P!StartInv, P!PendingIsCurrent
  <2>2. ASSUME P!StartStack \/ P!StartFails \/ \E sig \in {"SIGTERM", "SIGKILL"} : P!Stop(sig)
        PROVE  (flow = "returned" => flow' = "returned") /\ (killFlag => killFlag')
    BY <2>2 DEF P!StartStack, P!StartFails, P!Stop, P!StopStack
  <2>3. ASSUME NEW i \in P!Comp, P!Step(i)
        PROVE  (flow = "returned" => flow' = "returned") /\ (killFlag => killFlag')
    BY <2>1, <2>3 DEF P!Step, P!Spawn, P!SpawnFails, P!LogFails, P!Tick, P!TimeLimit, P!ReadyText,
       P!ErrorText, P!Exit, P!Close, P!StopStack, P!Reject, P!RejectIfPending, P!GoOn, P!Output
  <2> QED BY <1>2, <2>2, <2>3 DEF P!Next, P!Call
<1> QED BY <1>1, <1>2, StackMoves

-----------------------------------------------------------------------------
(* The hooks.                                                              *)

HookTypes ==
    /\ spawn \in BOOLEAN
    /\ main \in {"before", "tests", "after", "ended"}
    /\ before \in {"begin", "starting", "connect", "setup", "logger", "done", "failed"}
    /\ after \in {"off", "logs", "custom", "cleanup", "stop", "done", "failed"}
    /\ devPhase \in BOOLEAN
    /\ link \in {"none", "open", "closed"}
    /\ logger \in BOOLEAN /\ overdue \in BOOLEAN /\ aborted \in BOOLEAN

\* Where mocha is, as against the function of its hook.
Along ==
    /\ main \in {"before", "tests"} => after = "off" /\ ~overdue
    /\ main = "tests" => before = "done"
    /\ main \notin {"before", "tests"} /\ ~overdue => before \in {"done", "failed"}

\* What the function of the before hook has at hand.
AtHand ==
    /\ before \in {"begin", "starting"} => link = "none" /\ ~devPhase
    /\ before = "connect" => ~devPhase
    /\ before \in {"setup", "logger", "done"} => devPhase
    /\ before \in {"connect", "setup", "logger", "done"} => link # "none"
    /\ spawn /\ before \in {"connect", "setup", "logger", "done"} => flow = "returned"

\* What becomes of the connection, and of the stack.
LinkFits ==
    /\ link = "closed" => after # "off"
    /\ main # "before" /\ link = "open" => devPhase \/ aborted \/ overdue
    /\ after \in {"stop", "done"} /\ link = "open" => aborted \/ overdue
    /\ after = "done" /\ spawn => killFlag

HookInv == HookTypes /\ Along /\ AtHand /\ LinkFits

LEMMA InitInv == Init => StackInv /\ HookInv
<1> SUFFICES ASSUME Init PROVE StackInv /\ HookInv
  OBVIOUS
<1>1. P!Init
  BY StackInit DEF Init
<1>2. StackInv
  BY <1>1, P!InitType, P!InitEscape, P!InitStart, LastAssumption DEF StackInv
<1>3. HookTypes
  BY Zenon DEF Init, HookTypes
<1> QED BY <1>2, <1>3 DEF Init, HookInv, Along, AtHand, LinkFits

LEMMA StepHooks == StackInv /\ HookInv /\ [Next]_vars => HookInv'
<1> SUFFICES ASSUME StackInv, HookInv, [Next]_vars PROVE HookInv'
  OBVIOUS
<1>s. (flow = "returned" => flow' = "returned") /\ (killFlag => killFlag')
  BY StackStays
<1> USE DEF HookInv, HookTypes, Along, AtHand, LinkFits, AfterHook, BeforeFails
<1>1. CASE Begin
  BY <1>1, <1>s DEF Begin
<1>2. CASE StackStarted
  BY <1>2, <1>s DEF StackStarted, Started, stackVars
<1>3. CASE StackFailed
  BY <1>3, <1>s DEF StackFailed
<1>4. ASSUME NEW ok \in BOOLEAN, Connect(ok) PROVE HookInv'
  BY <1>4, <1>s DEF Connect
<1>5. ASSUME NEW ok \in BOOLEAN, Setup(ok) PROVE HookInv'
  BY <1>5, <1>s DEF Setup
<1>6. ASSUME NEW ok \in BOOLEAN, GetLogger(ok) PROVE HookInv'
  BY <1>6, <1>s DEF GetLogger
<1>7. CASE BeforeLimit \/ TestsOver \/ AfterLimit
  <2>1. CASE BeforeLimit
    BY <2>1, <1>s DEF BeforeLimit
  <2>2. CASE TestsOver
    BY <2>2, <1>s DEF TestsOver
  <2>3. CASE AfterLimit
    BY <2>3, <1>s DEF AfterLimit
  <2> HIDE DEF HookInv
  <2> QED BY <1>7, <2>1, <2>2, <2>3
<1>8. ASSUME NEW ok \in BOOLEAN, SaveLogs(ok) \/ Custom(ok) PROVE HookInv'
  BY <1>8, <1>s DEF SaveLogs, Custom, Teardown, OnTo
<1>9. ASSUME NEW ok \in BOOLEAN, Cleanup(ok) PROVE HookInv'
  <2>0. after = "cleanup" /\ main \notin {"before", "tests"} /\ after' \in {"stop", "failed"}
    BY <1>9 DEF Cleanup, Teardown, OnTo
  <2>1. UNCHANGED <<spawn, before, devPhase, logger, overdue, aborted, flow>>
    BY <1>9 DEF Cleanup, stackVars
  <2>2. main' \in {main, "ended"}
    BY <1>9 DEF Cleanup, OnTo
  <2>3. \/ link' = link /\ (~devPhase \/ after' = "failed")
        \/ link' = "closed" /\ devPhase
    BY <1>9 DEF Cleanup, OnTo, LinkAfterCleanup
  <2>4. HookTypes'
    <3>1. link' \in {"none", "open", "closed"}
      BY <2>3
    <3>2. main' \in {"before", "tests", "after", "ended"}
      BY <2>2
    <3>3. after' \in {"off", "logs", "custom", "cleanup", "stop", "done", "failed"}
      BY <2>0
    <3> QED BY <3>1, <3>2, <3>3, <2>1, Zenon
  <2>5. Along'
    BY <2>0, <2>1, <2>2
  <2>6. AtHand'
    BY <2>1, <2>3
  <2>7. LinkFits'
    BY <2>0, <2>1, <2>3
  <2> HIDE DEF HookTypes, Along, AtHand, LinkFits
  <2> QED BY <2>4, <2>5, <2>6, <2>7 DEF HookInv
<1>10. CASE Stop
  <2>1. spawn => killFlag'
    BY <1>10 DEF Stop, Owned, S!Stop, S!StopStack
  <2> QED BY <1>10, <1>s, <2>1 DEF Stop, Teardown, OnTo
<1>11. CASE StackStep \/ UNCHANGED vars
  BY <1>11, <1>s DEF StackStep, vars, hookVars
<1> QED
  BY <1>1, <1>2, <1>3, <1>4, <1>5, <1>6, <1>7, <1>8, <1>9, <1>10, <1>11
  DEF Next, BeforeStep, AfterStep

LEMMA RunInvariant == Spec => [](StackInv /\ HookInv)
<1>1. StackInv /\ HookInv /\ [Next]_vars => (StackInv /\ HookInv)'
  BY StepStack, StepHooks
<1> QED BY <1>1, InitInv, PTL DEF Spec

-----------------------------------------------------------------------------
(* Theorems.                                                               *)

\* Every reachable state of a test run is well typed, its stack included.
THEOREM TypeCorrect == Spec => []TypeOK
<1>1. StackInv /\ HookInv => TypeOK
  BY StackTypes DEF StackInv, HookInv, HookTypes, TypeOK
<1> QED BY <1>1, RunInvariant, PTL

\* Tests run on a complete stack with the API there, however many components
\* the stack has and whatever the hooks were cut off in.
THEOREM TestsHaveStack == Spec => []TestsHaveTheirStack
<1>1. StackInv /\ HookInv => TestsHaveTheirStack
  <2> SUFFICES ASSUME StackInv, HookInv, main = "tests" PROVE
          /\ before = "done" /\ devPhase /\ link = "open"
          /\ spawn /\ ~killFlag => \A i \in S!Comp : proc[i] = "up" /\ i \in held
    BY DEF TestsHaveTheirStack
  <2>1. before = "done" /\ devPhase /\ link = "open"
    BY DEF HookInv, HookTypes, Along, AtHand, LinkFits
  <2>2. spawn => flow = "returned"
    BY <2>1 DEF HookInv, AtHand
  <2>3. P!RunningIsComplete
    BY DEF StackInv, P!StartInv
  <2> QED BY <2>1, <2>2, <2>3 DEF P!RunningIsComplete, P!Comp, S!Comp
<1> QED BY <1>1, RunInvariant, PTL

\* A teardown that got to its end leaves no child alive that is not being
\* stopped, but for those StackManager lets escape.
THEOREM ChildrenReached == Spec => []ChildrenAreReached
<1>1. StackInv /\ HookInv => ChildrenAreReached
  <2> SUFFICES ASSUME StackInv, HookInv, after = "done", spawn, NEW i \in S!Comp, proc[i] = "up",
                      signal[i] = "none", i \notin interval
               PROVE  missed[i] \in S!Escapes
    BY DEF ChildrenAreReached
  <2>1. killFlag /\ i \in P!Comp
    BY DEF HookInv, LinkFits, S!Comp, P!Comp
  <2>2. P!OrphansExplained
    BY DEF StackInv, P!EscapeInv
  <2> QED BY <2>1, <2>2 DEF P!OrphansExplained, P!Orphan, P!Escapes, S!Escapes
<1> QED BY <1>1, RunInvariant, PTL

\* A connection outlives the teardown only if create failed on it or the
\* before hook was overdue.
THEOREM ConnectionExplained == Spec => []ConnectionsExplained
<1>1. HookInv => ConnectionsExplained
  BY DEF HookInv, LinkFits, ConnectionsExplained
<1> QED BY <1>1, RunInvariant, PTL

\* Whatever the hooks and mocha's limits do, the stack behaves as StackManager
\* alone: the test run implements it, and a stop is noticed in it as there.
THEOREM StackImplemented == Spec => S!Spec /\ P!StopIsNoticed
<1>1. [Next]_vars => [S!Next]_S!vars
  BY DEF Next, BeforeStep, AfterStep, StackStep, Begin, StackStarted, StackFailed, Connect, Setup,
     GetLogger, SaveLogs, Custom, Cleanup, Stop, BeforeLimit, AfterLimit, TestsOver, vars, stackVars,
     S!vars, S!Next, S!Call
<1>2. [Next]_vars => [P!Next]_P!vars
  BY StackMoves DEF P!vars, stackVars
<1>3. Spec => S!Spec
  BY <1>1, PTL DEF Spec, Init, S!Spec
<1>4. Spec => P!Spec
  BY <1>2, StackInit, PTL DEF Spec, Init, P!Spec
<1>5. P!Spec => P!StopIsNoticed
  BY P!StopNoticed, LastAssumption
<1> QED BY <1>3, <1>4, <1>5

=============================================================================
