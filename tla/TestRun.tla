------------------------------- MODULE TestRun -------------------------------
(***************************************************************************)
(* One run of `contract test`: mocha with the global hooks of              *)
(* mocha.global.js around the project's tests, composed with the           *)
(* StackManager they start and stop.                                       *)
(*                                                                         *)
(* mocha gives a hook a time limit.  When it is over mocha goes on, but    *)
(* nothing stops the hook's function: what it awaits may still arrive and  *)
(* it continues beside the teardown.                                       *)
(***************************************************************************)
EXTENDS Naturals

CONSTANT Last   \* the last component of the stack

ASSUME LastAssumption == Last \in Nat \ {0}

VARIABLES flow, stage, held, killFlag, proc, signal, promise, settled, interval, missed

stackVars == <<flow, stage, held, killFlag, proc, signal, promise, settled, interval, missed>>

S == INSTANCE StackManager

VARIABLES
    spawn,      \* testingConfig.spawnStack
    main,       \* what mocha is at
    before,     \* where the function of the before hook stands
    after,      \* where the function of the after hook stands
    devPhase,   \* this.devPhase is set
    link,       \* the connection DevPhase.create opens
    logger,     \* this.pinkLogger is set
    overdue,    \* history: the before hook was cut off by its limit
    aborted     \* history: DevPhase.create failed once it was connected

hookVars == <<main, before, after, devPhase, link, logger, overdue, aborted>>
vars == <<stackVars, spawn, hookVars>>

TypeOK ==
    /\ S!TypeOK
    /\ spawn \in BOOLEAN
    /\ main \in {"before", "tests", "after", "ended"}
    /\ before \in {"begin", "starting", "connect", "setup", "logger", "done", "failed"}
    /\ after \in {"off", "logs", "custom", "cleanup", "stop", "done", "failed"}
    /\ devPhase \in BOOLEAN
    /\ link \in {"none", "open", "closed"}
    /\ logger \in BOOLEAN
    /\ overdue \in BOOLEAN
    /\ aborted \in BOOLEAN

Init ==
    /\ S!Init
    /\ spawn \in BOOLEAN
    /\ main = "before"
    /\ before = "begin"
    /\ after = "off"
    /\ devPhase = FALSE
    /\ link = "none"
    /\ logger = FALSE
    /\ overdue = FALSE
    /\ aborted = FALSE

-----------------------------------------------------------------------------
(* The before hook.                                                        *)

AfterHook == main' = "after" /\ after' = "logs"

\* An exception of the hook counts only while mocha waits for it.
BeforeFails ==
    /\ before' = "failed"
    /\ IF main = "before" THEN AfterHook ELSE UNCHANGED <<main, after>>

Begin ==
    /\ before = "begin"
    /\ IF spawn
       THEN before' = "starting" /\ (S!StartStack \/ S!StartFails) /\ UNCHANGED link
       ELSE before' = "connect" /\ link' = "open" /\ UNCHANGED stackVars
    /\ UNCHANGED <<spawn, main, after, devPhase, logger, overdue, aborted>>

\* Slip: the start of the stack is not awaited.
StartedUnawaited == flow # "idle"

Started == flow = "returned"

\* startStack returns, be it because of 'Stack killed': DevPhase.create opens
\* its connection.
StackStarted ==
    /\ before = "starting"
    /\ Started
    /\ before' = "connect"
    /\ link' = "open"
    /\ UNCHANGED <<stackVars, spawn, main, after, devPhase, logger, overdue, aborted>>

StackFailed ==
    /\ before = "starting"
    /\ flow \in {"threw", "refused"}
    /\ BeforeFails
    /\ UNCHANGED <<stackVars, spawn, devPhase, link, logger, overdue, aborted>>

\* create waits until the node answers, for ever if need be; then the worker
\* or the accounts may fail it.
Connect(ok) ==
    /\ before = "connect"
    /\ spawn => proc[1] = "up"
    /\ IF ok
       THEN before' = "setup" /\ devPhase' = TRUE /\ UNCHANGED <<main, after, aborted>>
       ELSE BeforeFails /\ aborted' = TRUE /\ UNCHANGED devPhase
    /\ UNCHANGED <<stackVars, spawn, link, logger, overdue>>

\* setup.custom or the default stackSetup.
Setup(ok) ==
    /\ before = "setup"
    /\ IF ok THEN before' = "logger" /\ UNCHANGED <<main, after>> ELSE BeforeFails
    /\ UNCHANGED <<stackVars, spawn, devPhase, link, logger, overdue, aborted>>

\* getPinkLogger; its failure is ignored.
GetLogger(ok) ==
    /\ before = "logger"
    /\ before' = "done"
    /\ logger' = ok
    /\ main' = IF main = "before" THEN "tests" ELSE main
    /\ UNCHANGED <<stackVars, spawn, after, devPhase, link, overdue, aborted>>

\* Slip: this.timeout(0), a hook without a limit.
NoLimit == FALSE

HookLimit == TRUE

BeforeLimit ==
    /\ HookLimit
    /\ main = "before"
    /\ before # "begin"
    /\ AfterHook
    /\ overdue' = TRUE
    /\ UNCHANGED <<stackVars, spawn, before, devPhase, link, logger, aborted>>

\* The tests have run, or an afterEach failed and mocha skips the rest.
TestsOver ==
    /\ main = "tests"
    /\ AfterHook
    /\ UNCHANGED <<stackVars, spawn, before, devPhase, link, logger, overdue, aborted>>

-----------------------------------------------------------------------------
(* The after hook: an exception of one step skips those after it.          *)

Teardown(step) == after = step

OnTo(step) ==
    /\ after' = step
    /\ main' = IF step \in {"done", "failed"} THEN "ended" ELSE main

SaveLogs(ok) ==
    /\ Teardown("logs")
    /\ ok \/ logger
    /\ OnTo(IF ok THEN "custom" ELSE "failed")
    /\ UNCHANGED <<stackVars, spawn, before, devPhase, link, logger, overdue, aborted>>

\* teardown.custom, if there is one.
Custom(ok) ==
    /\ Teardown("custom")
    /\ OnTo(IF ok THEN "cleanup" ELSE "failed")
    /\ UNCHANGED <<stackVars, spawn, before, devPhase, link, logger, overdue, aborted>>

\* Slip: the connection is left to the process' end.
LinkKept == link

LinkAfterCleanup == IF devPhase THEN "closed" ELSE link

\* this.devPhase.cleanup(), if create got that far.
Cleanup(ok) ==
    /\ Teardown("cleanup")
    /\ ok \/ devPhase
    /\ link' = IF ok THEN LinkAfterCleanup ELSE link
    /\ OnTo(IF ok THEN "stop" ELSE "failed")
    /\ UNCHANGED <<stackVars, spawn, before, devPhase, logger, overdue, aborted>>

\* Slip: a stack is stopped only if the API was there.
OwnedIfConnected == spawn /\ devPhase

Owned == spawn

\* stopStack, which throws when the stack was never started.
Stop ==
    /\ Teardown("stop")
    /\ IF Owned THEN S!Stop("SIGTERM") ELSE UNCHANGED stackVars
    /\ OnTo(IF Owned /\ flow = "refused" THEN "failed" ELSE "done")
    /\ UNCHANGED <<spawn, before, devPhase, link, logger, overdue, aborted>>

AfterLimit ==
    /\ HookLimit
    /\ main = "after"
    /\ main' = "ended"
    /\ UNCHANGED <<stackVars, spawn, before, after, devPhase, link, logger, overdue, aborted>>

-----------------------------------------------------------------------------
BeforeStep ==
    \/ Begin \/ StackStarted \/ StackFailed
    \/ \E ok \in BOOLEAN : Connect(ok) \/ Setup(ok) \/ GetLogger(ok)

AfterStep ==
    \/ \E ok \in BOOLEAN : SaveLogs(ok) \/ Custom(ok) \/ Cleanup(ok)
    \/ Stop

StackStep == (\E i \in S!Comp : S!Step(i)) /\ UNCHANGED <<spawn, hookVars>>

Next == BeforeStep \/ AfterStep \/ BeforeLimit \/ AfterLimit \/ TestsOver \/ StackStep

\* mocha's timers fire and its tests have limits of their own; the callbacks
\* of the stack run.  Nothing is assumed of what the hooks await.
Fairness ==
    /\ WF_vars(Begin) /\ WF_vars(BeforeLimit) /\ WF_vars(AfterLimit) /\ WF_vars(TestsOver)
    /\ S!Fairness

Spec == Init /\ [][Next]_vars
FairSpec == Spec /\ Fairness

-----------------------------------------------------------------------------
(* Properties.                                                             *)

\* Tests only run on a stack that was started completely, with the API there;
\* what is missing of it then has stopped the whole stack.
TestsHaveTheirStack ==
    main = "tests" =>
        /\ before = "done" /\ devPhase /\ link = "open"
        /\ spawn /\ ~killFlag => \A i \in S!Comp : proc[i] = "up" /\ i \in held

\* When the teardown got to its end, wherever the before hook was cut off and
\* whatever it still does, each child alive is being stopped, or escaped in
\* one of the ways StackManager leaves open.
ChildrenAreReached ==
    after = "done" /\ spawn =>
        \A i \in S!Comp : proc[i] = "up" =>
            signal[i] # "none" \/ i \in interval \/ missed[i] \in S!Escapes

\* The log says 'Global teardown done': no connection is left to keep the
\* process alive.
TeardownIsComplete == after = "done" => link # "open"

\* What the code guarantees of it: a connection is left only if create failed
\* on it, or if the before hook was still at work when mocha had given it up.
ConnectionsExplained == after = "done" /\ link = "open" => aborted \/ overdue

\* mocha gets to its end, though the functions of its hooks may not.
RunEnds == main = "before" ~> main = "ended"

=============================================================================
