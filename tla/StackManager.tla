---------------------------- MODULE StackManager ----------------------------
(***************************************************************************)
(* StackManager: startStack launches the components one after the other,   *)
(* each when the one before printed that it is ready; stopStack may come   *)
(* from the caller at any time, from the failure of a start or from the    *)
(* exit of any child.  A step is one callback of the event loop: a chunk   *)
(* of output, an exit or close event, a tick of the 250 ms interval, a     *)
(* timer, or a call; the promise continuations it releases run within it.  *)
(***************************************************************************)
EXTENDS Naturals

CONSTANT Last   \* the last component: 1 is node, 2 pRuntime, 3 pherry

ASSUME LastAssumption == Last \in Nat \ {0}

Comp == 1..Last

VARIABLES
    flow,       \* the call of startStack
    stage,      \* the component whose task runs
    held,       \* components assigned in _processes
    killFlag,   \* _killFlag
    proc,       \* the operating system's view of each child
    signal,     \* the signal sent to a child, which sets its .killed
    promise,    \* the promise startComponent waits for, limited by timeout()
    settled,    \* components whose settled is true
    interval,   \* components whose kill interval is armed
    missed      \* history: how a child escaped the kill procedure

vars == <<flow, stage, held, killFlag, proc, signal, promise, settled, interval, missed>>

Escapes == {"log file", "error text", "ready after limit", "ready after stop"}

TypeOK ==
    /\ flow \in {"idle", "refused", "starting", "returned", "threw"}
    /\ stage \in Comp
    /\ held \subseteq Comp
    /\ killFlag \in BOOLEAN
    /\ proc \in [Comp -> {"none", "up", "exited", "closed"}]
    /\ signal \in [Comp -> {"none", "SIGTERM", "SIGKILL"}]
    /\ promise \in [Comp -> {"none", "pending", "resolved", "rejected"}]
    /\ settled \subseteq Comp
    /\ interval \subseteq Comp
    /\ missed \in [Comp -> {"no"} \cup Escapes]

Init ==
    /\ flow = "idle"
    /\ stage = 1
    /\ held = {}
    /\ killFlag = FALSE
    /\ proc = [i \in Comp |-> "none"]
    /\ signal = [i \in Comp |-> "none"]
    /\ promise = [i \in Comp |-> "none"]
    /\ settled = {}
    /\ interval = {}
    /\ missed = [i \in Comp |-> "no"]

-----------------------------------------------------------------------------
(* stopStack: the first call wins, whoever makes it.                       *)

\* Slips: stopStack forgets the last component; it stops without the flag.
SignalsButLast(sig) ==
    [i \in Comp |-> IF i \in held /\ i # Last /\ proc'[i] = "up" /\ signal[i] = "none"
                    THEN sig ELSE signal[i]]
StopWithoutFlag(sig) ==
    UNCHANGED <<killFlag, signal>>

\* kill() on each child in _processes that was not signalled yet.
Signals(sig) ==
    [i \in Comp |-> IF i \in held /\ proc'[i] = "up" /\ signal[i] = "none"
                    THEN sig ELSE signal[i]]

\* Before startStack there is nothing in _processes: the flag is set all the
\* same, and the call throws.
StopStack(sig) ==
    /\ killFlag' = TRUE
    /\ signal' = IF killFlag THEN signal ELSE Signals(sig)

\* Slip: startStack does not pass the failure on.
RejectSwallowed(i) ==
    /\ promise' = [promise EXCEPT ![i] = "rejected"]
    /\ UNCHANGED flow

\* The promise of component i is rejected: its task throws, startStack stops
\* what runs and throws.
Reject(i) ==
    /\ promise' = [promise EXCEPT ![i] = "rejected"]
    /\ flow' = "threw"

RejectIfPending(i) ==
    IF promise[i] = "pending" THEN Reject(i) ELSE UNCHANGED <<promise, flow>>

-----------------------------------------------------------------------------
StartStack ==
    /\ flow = "idle"
    /\ flow' = "starting"
    /\ UNCHANGED <<stage, held, killFlag, proc, signal, promise, settled, interval, missed>>

\* The logs directory cannot be made: startStack throws with _processes unset.
StartFails ==
    /\ flow = "idle"
    /\ flow' = "refused"
    /\ UNCHANGED <<stage, held, killFlag, proc, signal, promise, settled, interval, missed>>

Stop(sig) ==
    /\ UNCHANGED proc
    /\ StopStack(sig)
    /\ UNCHANGED <<flow, stage, held, promise, settled, interval, missed>>

Spawn(i) ==
    /\ flow = "starting"
    /\ stage = i
    /\ proc[i] = "none"
    /\ proc' = [proc EXCEPT ![i] = "up"]
    /\ promise' = [promise EXCEPT ![i] = "pending"]
    /\ interval' = interval \cup {i}
    /\ UNCHANGED <<flow, stage, held, killFlag, signal, settled, missed>>

\* The data directory cannot be prepared, or spawn throws.
SpawnFails(i) ==
    /\ flow = "starting"
    /\ stage = i
    /\ proc[i] = "none"
    /\ flow' = "threw"
    /\ UNCHANGED proc
    /\ StopStack("SIGKILL")
    /\ UNCHANGED <<stage, held, promise, settled, interval, missed>>

\* The child runs and its log file cannot be opened: the task throws before
\* anything listens to the child, with no kill interval.
LogFails(i) ==
    /\ flow = "starting"
    /\ stage = i
    /\ proc[i] = "none"
    /\ proc' = [proc EXCEPT ![i] = "up"]
    /\ Reject(i)
    /\ StopStack("SIGKILL")
    /\ settled' = settled \cup {i}
    /\ missed' = [missed EXCEPT ![i] = "log file"]
    /\ UNCHANGED <<stage, held, interval>>

\* The interval of component i finds the flag set.
Tick(i) ==
    /\ i \in interval
    /\ killFlag
    /\ signal' = [signal EXCEPT ![i] = IF proc[i] = "up" THEN "SIGKILL" ELSE @]
    /\ settled' = settled \cup {i}
    /\ interval' = interval \ {i}
    /\ RejectIfPending(i)
    /\ UNCHANGED <<stage, held, killFlag, proc, missed>>

\* componentOptions.timeout is over; cleanup() is not called.
TimeLimit(i) ==
    /\ promise[i] = "pending"
    /\ Reject(i)
    /\ UNCHANGED proc
    /\ StopStack("SIGKILL")
    /\ UNCHANGED <<stage, held, settled, interval, missed>>

\* A chunk of output of a child; what it printed may be read after its exit.
Output(i) ==
    /\ proc[i] \in {"up", "exited"}
    /\ i \notin settled
    /\ settled' = settled \cup {i}
    /\ interval' = interval \ {i}

\* Slip: the flag is not looked at.
GoOnRegardless(i) ==
    /\ promise' = [promise EXCEPT ![i] = "resolved"]
    /\ held' = held \cup {i}
    /\ IF i = Last THEN flow' = "returned" /\ UNCHANGED stage
       ELSE stage' = i + 1 /\ UNCHANGED flow

\* The task assigns the child and goes on, or finds the flag: 'Stack killed'.
GoOn(i) ==
    /\ promise' = [promise EXCEPT ![i] = "resolved"]
    /\ held' = held \cup {i}
    /\ IF killFlag \/ i = Last
       THEN flow' = "returned" /\ UNCHANGED stage
       ELSE stage' = i + 1 /\ UNCHANGED flow

ReadyText(i) ==
    /\ Output(i)
    /\ IF promise[i] = "pending"
       THEN GoOn(i)
       ELSE UNCHANGED <<promise, held, flow, stage>>
    /\ missed' = [missed EXCEPT ![i] =
                     IF promise[i] # "pending" THEN "ready after limit"
                     ELSE IF killFlag THEN "ready after stop" ELSE @]
    /\ UNCHANGED <<killFlag, proc, signal>>

ErrorText(i) ==
    /\ Output(i)
    /\ RejectIfPending(i)
    /\ UNCHANGED proc
    /\ IF promise[i] = "pending" THEN StopStack("SIGKILL") ELSE UNCHANGED <<killFlag, signal>>
    /\ missed' = [missed EXCEPT ![i] = "error text"]
    /\ UNCHANGED <<stage, held>>

\* The child dies, by itself or of a signal: stopStack unless it was called.
Exit(i) ==
    /\ proc[i] = "up"
    /\ proc' = [proc EXCEPT ![i] = "exited"]
    /\ StopStack("SIGKILL")
    /\ UNCHANGED <<flow, stage, held, promise, settled, interval, missed>>

\* Its output is read to the end: a failed start unless it was settled.
Close(i) ==
    /\ proc[i] = "exited"
    /\ proc' = [proc EXCEPT ![i] = "closed"]
    /\ IF i \notin settled /\ promise[i] = "pending"
       THEN Reject(i) /\ StopStack("SIGKILL")
       ELSE UNCHANGED <<promise, flow, killFlag, signal>>
    /\ UNCHANGED <<stage, held, settled, interval, missed>>

-----------------------------------------------------------------------------
Call == StartStack \/ StartFails \/ \E sig \in {"SIGTERM", "SIGKILL"} : Stop(sig)

Step(i) ==
    \/ Spawn(i) \/ SpawnFails(i) \/ LogFails(i)
    \/ Tick(i) \/ TimeLimit(i)
    \/ ReadyText(i) \/ ErrorText(i)
    \/ Exit(i) \/ Close(i)

Next == Call \/ \E i \in Comp : Step(i)

\* Timers fire, the loop runs what is ready, a signalled process dies.
Fairness ==
    \A i \in Comp :
        /\ WF_vars(Spawn(i) \/ SpawnFails(i) \/ LogFails(i))
        /\ WF_vars(Tick(i))
        /\ WF_vars(TimeLimit(i))
        /\ WF_vars(signal[i] # "none" /\ Exit(i))
        /\ WF_vars(Close(i))

Spec == Init /\ [][Next]_vars
FairSpec == Spec /\ Fairness

-----------------------------------------------------------------------------
\* When startStack returned and nothing asked the stack to stop, every
\* component runs and is known to stopStack.
RunningIsComplete ==
    flow = "returned" /\ ~killFlag =>
        \A i \in Comp : proc[i] = "up" /\ i \in held

\* A child alive that nothing will stop: not signalled, no interval, and
\* stopStack returns early from now on.
Orphan(i) ==
    killFlag /\ proc[i] = "up" /\ signal[i] = "none" /\ i \notin interval

\* The stop reaches every child the kill procedure was prepared for, wherever
\* the start had got to; a log file that cannot be opened comes before that.
NoOrphan == \A i \in Comp : missed[i] # "log file" => ~Orphan(i)

\* What the code guarantees of it: a child escapes only if its log file could
\* not be opened, by printing an error while it starts, or by getting ready
\* between a stop, or its own time limit, and the next tick; a component that
\* was ready before is always reached.
OrphansExplained == \A i \in Comp : Orphan(i) => missed[i] \in Escapes

\* A stop is noticed at the latest when the component then being started gets
\* ready: nothing is spawned after that.
StopIsNoticed ==
    [][\A i \in Comp : (proc[i] = "none" /\ proc'[i] = "up") =>
           \A k \in Comp : missed[k] # "ready after stop"]_vars

\* The callbacks of output, exits, intervals and limits, in any order, make a
\* start as StackOrder has it.
Launched == IF proc[stage] = "none" THEN stage - 1 ELSE stage
Ready    == IF stage \in held THEN stage ELSE stage - 1
Alive    == {i \in Comp : proc[i] = "up"}

Order == INSTANCE StackOrder WITH
    phase <- flow, launched <- Launched, ready <- Ready, alive <- Alive, stopped <- killFlag

StartsInOrder == Order!Spec

\* A stop, whoever asked for it, ends the start and every child it reaches.
StopEnds ==
    killFlag ~> /\ flow # "starting"
                /\ \A i \in Comp : proc[i] = "up" => missed[i] \in Escapes

=============================================================================
