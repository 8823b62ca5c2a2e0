------------------------- MODULE StackSetup_proofs -------------------------
(* Proofs about StackSetup, for any number of runs.                          *)
EXTENDS StackSetup, SequenceTheorems, TLAPS

\* Calls on their way.
InQueue(x) == \E k \in DOMAIN mq : mq[k] = x

SetCall(c, d, i) == [call |-> "setDriver", of |-> c, name |-> d, inst |-> i]
AllowCall(c) == [call |-> "allow", of |-> c]

\* What is left behind by a task, for the cluster c.
Left(c, t) ==
    CASE t \in Drivers   -> driver[c][t] # 0
      [] t = "prepare"   -> "allow" \in has[c]
      [] t = "ready"     -> "ready" \in has[c]
      [] t = "cluster"   -> c # 0
      [] t = "verify"    -> TRUE
      [] OTHER           -> t \in done

-----------------------------------------------------------------------------
(* Invariants.                                                             *)

\* Where a task can stand.
Stands ==
    /\ status # "off" => run \in Runs
    /\ sub = "first" => Task \notin {"verify", "ready"}
    /\ sub = "second" => Task \in Drivers \cup {"cluster", "prepare"}
    /\ sub = "wait" => Task \notin {"verify", "cluster"}

\* The run has its cluster from the task that creates it on, and the chain
\* knows it.
HasCluster ==
    /\ cluster # 0 => "cluster" \in has[cluster]
    /\ first # 0 => "cluster" \in has[first]
    /\ \A c \in Runs : "cluster" \in has[c] => first # 0 /\ c <= run
    /\ status = "running" =>
        /\ pos < 5 => cluster = 0
        /\ pos = 5 => (cluster = 0 <=> sub = "first") \/ sub = "check"
        /\ pos > 5 => cluster # 0
        /\ (pos < 5 \/ (pos = 5 /\ sub \in {"check", "first"})) => "cluster" \notin has[run]
    /\ status = "ready" => cluster # 0

TypeInv == TypeOK /\ Stands /\ HasCluster

\* What the tasks before the current one left behind.
Passed ==
    /\ status = "running" => \A i \in 1..(pos - 1) : Left(cluster, Tasks[i])
    /\ status = "ready" => \A i \in 1..Steps(mode) : Left(cluster, Tasks[i])
    /\ At("gatekeeper", "wait") => "gatekeeper" \in done
    /\ At("prepare", "second") => "allow" \in has[cluster]

Granted(c, d, i) == <<c, d, i>> \in admins \/ InQueue(Grant(c, d, i))

\* A first half of a task has its second half, or the run is between them,
\* or a run failed there.
HalvesFit ==
    \A c \in Runs :
        /\ "cluster" \in has[c] =>
            \/ "funds" \in has[c] \cup torn[c]
            \/ At("cluster", "second") /\ cluster = c
        /\ "allow" \in has[c] \/ InQueue(AllowCall(c)) =>
            \/ "resource" \in has[c] \cup torn[c]
            \/ (At("prepare", "wait") \/ At("prepare", "second")) /\ cluster = c
        /\ \A d \in Drivers, i \in Runs :
            driver[c][d] = i \/ InQueue(SetCall(c, d, i)) =>
                \/ Granted(c, d, i) \/ Admin[d] \in torn[c]
                \/ At(d, "second") /\ cluster = c /\ Instance(d) = i

\* What the best run left behind stays, and a run that finds its cluster
\* finds that.
BestFits ==
    /\ \A c \in Runs : best[c] # 0 =>
        "cluster" \in has[c] /\ \A i \in 1..Steps(best[c]) : Left(c, Tasks[i])
    /\ status = "running" /\ ~named /\ pos > 4 => cluster = first
    /\ status = "running" /\ ~named /\ first # 0 /\ mode <= best[first] =>
        sub = "check" \/ (sub = "wait" /\ Task = "ready")

\* What calls and pieces need is there.
NeedsFit ==
    /\ \A c \in Runs : "ready" \in has[c] => "masterKey" \in done
    /\ \A c \in Runs, d \in Drivers, i \in Runs : InQueue(SetCall(c, d, i)) =>
        /\ "ready" \in has[c] /\ "endpoint" \in done
        /\ d # "deposit" => driver[c]["deposit"] # 0
        /\ d = "logger" => driver[c]["sidevm"] # 0 /\ "allow" \in has[c]
    /\ \A c \in Runs : InQueue(AllowCall(c)) => driver[c]["sidevm"] # 0
    /\ status = "running" /\ Task \in Drivers /\ sub = "second" =>
        driver[cluster][Task] # 0 \/ InQueue(SetCall(cluster, Task, Instance(Task)))

\* Grants come after the call that sets their driver.
GrantsFollow ==
    \A k \in DOMAIN mq : mq[k].call = "grantAdmin" =>
        \/ driver[mq[k].of][mq[k].name] # 0
        \/ \E j \in 1..(k - 1) : \E i \in Runs : mq[j] = SetCall(mq[k].of, mq[k].name, i)

-----------------------------------------------------------------------------
(* The list of tasks, and the queue of calls.                              *)

\* Which task stands where.
Placed(i) ==
    /\ Tasks[i] = "worker" <=> i = 1
    /\ Tasks[i] = "gatekeeper" <=> i = 2
    /\ Tasks[i] = "code" <=> i = 3
    /\ Tasks[i] = "verify" <=> i = 4
    /\ Tasks[i] = "cluster" <=> i = 5
    /\ Tasks[i] = "ready" <=> i = 6
    /\ Tasks[i] = "endpoint" <=> i = 7
    /\ Tasks[i] = "deposit" <=> i = 8
    /\ Tasks[i] = "sidevm" <=> i = 9
    /\ Tasks[i] = "prepare" <=> i = 10
    /\ Tasks[i] = "logger" <=> i = 11
    /\ Tasks[i] \in Drivers <=> i \in {8, 9, 11}

LEMMA Places == \A i \in 1..11 : Placed(i)
<1> SUFFICES ASSUME NEW i \in 1..11 PROVE Placed(i)
  OBVIOUS
<1>1. \/ i = 1 /\ Tasks[i] = "worker"
      \/ i = 2 /\ Tasks[i] = "gatekeeper"
      \/ i = 3 /\ Tasks[i] = "code"
      \/ i = 4 /\ Tasks[i] = "verify"
      \/ i = 5 /\ Tasks[i] = "cluster"
      \/ i = 6 /\ Tasks[i] = "ready"
      \/ i = 7 /\ Tasks[i] = "endpoint"
      \/ i = 8 /\ Tasks[i] = "deposit"
      \/ i = 9 /\ Tasks[i] = "sidevm"
      \/ i = 10 /\ Tasks[i] = "prepare"
      \/ i = 11 /\ Tasks[i] = "logger"
  BY DEF Tasks
<1> QED BY <1>1 DEF Drivers, Placed

LEMMA StepsAre ==
    ASSUME NEW m \in Minimal..WithLogger
    PROVE  /\ m \in 1..3
           /\ m = 1 => Steps(m) = 7
           /\ m = 2 => Steps(m) = 9
           /\ m = 3 => Steps(m) = 11
BY DEF Steps, Minimal, WithDrivers, WithLogger

LEMMA NewCall ==
    ASSUME TypeOK, NEW x, Call(x)
    PROVE  \A y : InQueue(y)' <=> InQueue(y) \/ y = x
<1>1. mq \in Seq(Calls) /\ mq' = Append(mq, x)
  BY DEF TypeOK, Call
<1>2. /\ DOMAIN mq' = 1..(Len(mq) + 1) /\ DOMAIN mq = 1..Len(mq) /\ Len(mq) \in Nat
      /\ \A k \in 1..Len(mq) : mq'[k] = mq[k]
      /\ mq'[Len(mq) + 1] = x
  BY <1>1
<1> QED BY <1>2 DEF InQueue

LEMMA CallDone ==
    ASSUME TypeOK, mq # <<>>, mq' = Tail(mq)
    PROVE  /\ \A y : InQueue(y) => InQueue(y)' \/ y = Head(mq)
           /\ \A y : InQueue(y)' => InQueue(y)
           /\ InQueue(Head(mq)) /\ Head(mq) \in Calls
<1>1. mq \in Seq(Calls) /\ Len(mq) \in Nat \ {0} /\ Head(mq) = mq[1] /\ Head(mq) \in Calls
  BY DEF TypeOK
<1>2. /\ DOMAIN mq' = 1..(Len(mq) - 1) /\ DOMAIN mq = 1..Len(mq)
      /\ \A k \in 1..(Len(mq) - 1) : mq'[k] = mq[k + 1]
  BY <1>1
<1>3. ASSUME NEW y, InQueue(y) PROVE InQueue(y)' \/ y = Head(mq)
  <2>1. PICK k \in 1..Len(mq) : mq[k] = y
    BY <1>2, <1>3 DEF InQueue
  <2>2. CASE k = 1
    BY <2>1, <2>2, <1>1
  <2>3. CASE k # 1
    <3>1. k - 1 \in DOMAIN mq' /\ mq'[k - 1] = y
      BY <2>1, <2>3, <1>1, <1>2
    <3> QED BY <3>1 DEF InQueue
  <2> QED BY <2>2, <2>3
<1>4. ASSUME NEW y, InQueue(y)' PROVE InQueue(y)
  <2>1. PICK k \in 1..(Len(mq) - 1) : mq[k + 1] = y
    BY <1>2, <1>4 DEF InQueue
  <2>2. k + 1 \in DOMAIN mq
    BY <2>1, <1>1, <1>2
  <2> QED BY <2>1, <2>2 DEF InQueue
<1>5. InQueue(Head(mq))
  BY <1>1, <1>2 DEF InQueue
<1> QED BY <1>1, <1>3, <1>4, <1>5

LEMMA SameQueue == ASSUME UNCHANGED mq PROVE \A y : InQueue(y)' <=> InQueue(y)
BY DEF InQueue

-----------------------------------------------------------------------------
(* Types.                                                                  *)

LEMMA InitTypes == Init => TypeInv
<1> SUFFICES ASSUME Init PROVE TypeInv
  OBVIOUS
<1>1. /\ run \in 0..MaxRuns /\ cluster \in 0..MaxRuns /\ first \in 0..MaxRuns
      /\ \A d \in Drivers : 0 \in 0..MaxRuns
  BY MaxRunsAssumption DEF Init
<1>2. mode \in Minimal..WithLogger /\ pos \in 1..Steps(mode) /\ pos < 5 /\ Task = "worker"
  BY Places DEF Init, Minimal, WithLogger, Steps, Task, Placed
<1>3. has \in [Runs -> SUBSET ClusterPieces] /\ best \in [Runs -> 0..WithLogger]
      /\ torn \in [Runs -> SUBSET (ClusterPieces \cup AdminPieces)]
  BY DEF Init, WithLogger
<1>4. driver \in [Runs -> [Drivers -> 0..MaxRuns]]
  BY <1>1 DEF Init
<1>5. mq \in Seq(Calls) /\ admins \subseteq Runs \X Drivers \X Runs
      /\ done \subseteq NetworkPieces
  BY DEF Init
<1>6. TypeOK
  BY <1>1, <1>2, <1>3, <1>4, <1>5 DEF Init, TypeOK
<1> QED BY <1>2, <1>6 DEF TypeInv, Stands, HasCluster, Init

LEMMA TaskPlaced ==
    ASSUME TypeOK
    PROVE  /\ mode \in 1..3 /\ Steps(mode) \in {7, 9, 11} /\ pos \in 1..11
           /\ pos \in 1..Steps(mode)
           /\ Placed(pos) /\ Task = Tasks[pos]
<1>1. mode \in Minimal..WithLogger /\ pos \in 1..Steps(mode)
  BY DEF TypeOK
<1>2. mode \in 1..3 /\ Steps(mode) \in {7, 9, 11}
  BY <1>1, StepsAre
<1>3. pos \in 1..11
  BY <1>1, <1>2
<1> QED BY <1>1, <1>2, <1>3, Places DEF Task

LEMMA FinishMoves ==
    ASSUME TypeInv, status = "running", Finish
    PROVE  \/ /\ status' = "running" /\ sub' = "check"
              /\ pos' = pos + 1 /\ pos < Steps(mode) /\ pos' \in 1..Steps(mode)
           \/ /\ status' = "ready" /\ sub' = sub
              /\ pos' = pos /\ pos = Steps(mode) /\ pos > 5
<1>1. pos \in 1..Steps(mode) /\ Steps(mode) \in {7, 9, 11}
  BY TaskPlaced DEF TypeInv
<1> QED BY <1>1 DEF Finish

LEMMA RecordTypes ==
    ASSUME TypeOK, Record
    PROVE  best' \in [Runs -> 0..WithLogger]
<1>1. mode \in 0..WithLogger /\ best \in [Runs -> 0..WithLogger]
  BY DEF TypeOK, Minimal, WithLogger
<1>2. best' = best \/ best' = [best EXCEPT ![cluster] = mode]
  BY DEF Record
<1> QED BY <1>1, <1>2

\* The parts of TypeInv that say where the run stands.
LEMMA FinishTypes ==
    ASSUME TypeInv, status = "running", Finish, UNCHANGED <<run, mode, named, first>>,
           cluster' \in 0..MaxRuns, cluster' # 0 => "cluster" \in has'[cluster'],
           \A c \in Runs : "cluster" \in has'[c] <=> "cluster" \in has[c],
           pos < 4 => cluster' = 0, pos > 4 => cluster' # 0
    PROVE  /\ status' \in {"running", "ready"} /\ pos' \in 1..Steps(mode')
           /\ sub' \in {"check", "first", "second", "wait"}
           /\ Stands' /\ HasCluster'
<1> USE DEF TypeInv
<1>1. run \in Runs /\ pos \in 1..11 /\ Placed(pos) /\ Placed(pos)'
  <2>1. pos' \in 1..11
    BY FinishMoves, TaskPlaced
  <2> QED BY <2>1, Places, TaskPlaced DEF Stands, Placed
<1>2. /\ status' \in {"running", "ready"} /\ pos' \in 1..Steps(mode')
      /\ sub' \in {"check", "first", "second", "wait"}
  BY FinishMoves, TaskPlaced DEF TypeOK
<1>3. Stands'
  BY <1>1, FinishMoves, TaskPlaced DEF Stands, Task
<1>4. HasCluster'
  <2>1. first \in 0..MaxRuns /\ cluster' \in 0..MaxRuns /\ run \in Runs
    BY <1>1 DEF TypeOK
  <2>2. (first # 0 => "cluster" \in has'[first]) /\
        \A c \in Runs : "cluster" \in has'[c] => first # 0 /\ c <= run
    BY <2>1 DEF HasCluster, Runs
  <2>3. status' = "ready" => cluster' # 0
    <3>1. status' = "ready" => pos > 5
      BY FinishMoves
    <3>2. pos > 5 => pos > 4
      BY <1>1
    <3> QED BY <3>1, <3>2
  <2>4. CASE status' = "running"
    <3>1. sub' = "check" /\ pos' = pos + 1 /\ pos \in 1..11
      BY <2>4, FinishMoves, <1>1
    <3>2. pos' <= 5 => "cluster" \notin has[run]
      BY <3>1 DEF HasCluster
    <3> QED BY <2>1, <2>2, <2>3, <2>4, <3>1, <3>2 DEF HasCluster
  <2>5. CASE status' = "ready"
    BY <2>1, <2>2, <2>3, <2>5 DEF HasCluster
  <2> QED BY <1>2, <2>4, <2>5
<1> QED BY <1>2, <1>3, <1>4

\* Every other step of a run leaves its task, and where it stood is known.
LEMMA StepTypes == TypeInv /\ [Next]_vars => TypeInv'
<1> SUFFICES ASSUME TypeInv, [Next]_vars PROVE TypeInv'
  OBVIOUS
<1> USE DEF TypeInv
<1>p. /\ mode \in 1..3 /\ Steps(mode) \in {7, 9, 11} /\ pos \in 1..11
      /\ pos \in 1..Steps(mode) /\ Placed(pos) /\ Task = Tasks[pos]
  BY TaskPlaced
<1>r. status = "running" => run \in Runs
  BY DEF Stands
<1>1. ASSUME NEW m \in Minimal..WithLogger, NEW given \in BOOLEAN, Start(m, given)
      PROVE  TypeInv'
  <2>1. m \in 1..3 /\ Steps(m) \in {7, 9, 11} /\ Tasks[1] = "worker"
    BY StepsAre DEF Tasks
  <2>2. run' \in Runs /\ 1 \in 1..Steps(m) /\ 0 \in 0..MaxRuns
    BY <1>1, <2>1, MaxRunsAssumption DEF Start, TypeOK, Runs
  <2>3. TypeOK'
    BY <1>1, <2>1, <2>2 DEF Start, TypeOK, chainVars, Runs
  <2>4. Stands'
    BY <1>1, <2>2 DEF Start, Stands
  <2>5. HasCluster'
    <3>1. \A c \in Runs : "cluster" \in has[c] => c <= run /\ c \in Nat /\ run \in Nat
      BY MaxRunsAssumption DEF HasCluster, TypeOK, Runs
    <3>2. run' = run + 1 /\ run \in Nat
      BY <1>1, MaxRunsAssumption DEF Start, TypeOK
    <3>3. "cluster" \notin has[run']
      BY <3>1, <3>2, <2>2
    <3> QED BY <1>1, <3>1, <3>2, <3>3 DEF Start, HasCluster, chainVars, Runs
  <2> QED BY <2>3, <2>4, <2>5
<1>2. CASE Check
  <2>1. CASE Skippable(Task) /\ Task # "ready"
    <3>1. Finish /\ Record /\ UNCHANGED <<run, mode, named, cluster, chainVars, torn>>
          /\ status = "running" /\ sub = "check" /\ Task # "verify"
      BY <1>2, <2>1 DEF Check
    <3>2. (pos < 4 => cluster = 0) /\ (pos > 4 => cluster # 0)
      BY <3>1, <2>1, <1>p DEF HasCluster, Skippable, Placed, Drivers
    <3>3. best' \in [Runs -> 0..WithLogger]
      BY <3>1, RecordTypes
    <3>4. /\ status' \in {"running", "ready"} /\ pos' \in 1..Steps(mode')
          /\ sub' \in {"check", "first", "second", "wait"} /\ Stands' /\ HasCluster'
      BY <3>1, <3>2, FinishTypes DEF TypeOK, HasCluster, chainVars
    <3> QED BY <3>1, <3>3, <3>4 DEF TypeOK, chainVars
  <2>2. CASE ~Skippable(Task) /\ Task # "ready"
    <3>1. /\ sub' = "first" /\ UNCHANGED <<status, pos>> /\ Record
          /\ UNCHANGED <<run, mode, named, cluster, chainVars, torn>>
          /\ status = "running" /\ sub = "check" /\ Task # "verify"
      BY <1>2, <2>2 DEF Check
    <3>2. pos = 5 => cluster = 0
      BY <2>2, <1>p DEF Skippable, Placed, Drivers
    <3>3. best' \in [Runs -> 0..WithLogger] /\ Task' = Task
      BY <3>1, RecordTypes DEF Task
    <3>4. Stands' /\ HasCluster'
      BY <2>2, <3>1, <3>2, <3>3, <1>p DEF Stands, HasCluster, chainVars
    <3> QED BY <3>1, <3>3, <3>4 DEF TypeOK, chainVars
  <2>3. CASE Task = "ready"
    <3>1. /\ sub' = "wait" /\ UNCHANGED <<status, pos>> /\ Record
          /\ UNCHANGED <<run, mode, named, cluster, chainVars, torn>>
          /\ status = "running" /\ sub = "check"
      BY <1>2, <2>3 DEF Check
    <3>2. pos = 6
      BY <2>3, <1>p DEF Placed
    <3>3. best' \in [Runs -> 0..WithLogger] /\ Task' = Task
      BY <3>1, RecordTypes DEF Task
    <3>4. Stands' /\ HasCluster'
      BY <2>3, <3>1, <3>2, <3>3 DEF Stands, HasCluster, chainVars
    <3> QED BY <3>1, <3>3, <3>4 DEF TypeOK, chainVars
  <2> QED BY <2>1, <2>2, <2>3
<1>3. CASE Verify
  <2>1. /\ status = "running" /\ pos = 4 /\ cluster' = Found /\ Finish
        /\ UNCHANGED <<run, mode, named, chainVars, torn, best>>
    BY <1>3, <1>p DEF Verify, At, Placed
  <2>2. Found \in 0..MaxRuns /\ (Found # 0 => "cluster" \in has[Found])
    BY MaxRunsAssumption DEF Found, TypeOK, HasCluster
  <2>3. /\ status' \in {"running", "ready"} /\ pos' \in 1..Steps(mode')
        /\ sub' \in {"check", "first", "second", "wait"} /\ Stands' /\ HasCluster'
    BY <2>1, <2>2, FinishTypes DEF chainVars
  <2> QED BY <2>1, <2>2, <2>3 DEF TypeOK, chainVars
<1>4. CASE Register
  <2>1. /\ status = "running" /\ status' = status /\ pos' = pos /\ sub = "first" /\ sub' = "wait"
        /\ Task \in {"worker", "gatekeeper", "code", "endpoint"} /\ Task' = Task
        /\ done' \subseteq NetworkPieces
        /\ UNCHANGED <<run, mode, named, cluster, first, has, driver, admins, mq, torn, best>>
    BY <1>4 DEF Register, At, runVars, Task, TypeOK, NetworkPieces
  <2>2. Stands' /\ HasCluster'
    BY <2>1, <1>p DEF Stands, HasCluster, Placed
  <2> QED BY <2>1, <2>2 DEF TypeOK
<1>5. CASE AddCluster
  <2>1. /\ status = "running" /\ status' = status /\ pos = 5 /\ pos' = pos
        /\ sub = "first" /\ sub' = "second" /\ Task = "cluster" /\ Task' = Task
        /\ has' = [has EXCEPT ![run] = @ \cup {"cluster"}]
        /\ cluster' = run /\ run \in Runs /\ (first' = run \/ (first # 0 /\ first' = first))
        /\ UNCHANGED <<run, mode, named, done, driver, admins, mq, torn, best>>
    <3>1. /\ At("cluster", "first") /\ UNCHANGED runVars
          /\ has' = [has EXCEPT ![run] = @ \cup {"cluster"}]
          /\ cluster' = run /\ (first' = run \/ (first # 0 /\ first' = first)) /\ sub' = "second"
          /\ UNCHANGED <<done, driver, admins, mq, torn, best>>
      BY <1>5 DEF AddCluster
    <3>2. status = "running" /\ Task = "cluster" /\ sub = "first" /\ pos = 5
      BY <3>1, <1>p DEF At, Placed
    <3>3. UNCHANGED <<status, run, mode, named, pos>> /\ Task' = Task
      BY <3>1 DEF runVars, Task
    <3> QED BY <3>1, <3>2, <3>3, <1>r
  <2>2. has' \in [Runs -> SUBSET ClusterPieces] /\ first' \in 0..MaxRuns /\ run # 0
        /\ cluster' \in 0..MaxRuns /\ \A c \in Runs : c = run \/ has'[c] = has[c]
    BY <2>1, MaxRunsAssumption DEF TypeOK, ClusterPieces, Runs
  <2>3. "cluster" \in has'[run]
    BY <2>1 DEF TypeOK
  <2>4. Stands'
    BY <2>1 DEF Stands
  <2>5. HasCluster'
    <3>1. (first' # 0 => "cluster" \in has'[first']) /\ first' # 0
      BY <2>1, <2>2, <2>3 DEF HasCluster, Runs, TypeOK
    <3>2. \A c \in Runs : "cluster" \in has'[c] => c <= run
      BY <2>1, <2>2 DEF HasCluster, Runs
    <3> QED BY <2>1, <2>2, <2>3, <3>1, <3>2 DEF HasCluster
  <2> QED BY <2>1, <2>2, <2>4, <2>5 DEF TypeOK
<1>6. CASE DepositFunds \/ UploadSideVm
  <2>1. /\ status = "running" /\ sub = "second" /\ Finish /\ pos \in {5, 10}
        /\ UNCHANGED <<run, mode, named, cluster, first, done, driver, admins, mq, torn, best>>
        /\ \E p \in {"funds", "resource"} : has' = [has EXCEPT ![cluster] = @ \cup {p}]
    BY <1>6, <1>p DEF DepositFunds, UploadSideVm, At, Placed
  <2>2. cluster # 0 /\ cluster \in Runs
    BY <2>1, MaxRunsAssumption DEF HasCluster, TypeOK, Runs
  <2>3. has' \in [Runs -> SUBSET ClusterPieces]
        /\ \A c \in Runs : "cluster" \in has'[c] <=> "cluster" \in has[c]
    BY <2>1, <2>2 DEF TypeOK, ClusterPieces
  <2>4. /\ status' \in {"running", "ready"} /\ pos' \in 1..Steps(mode')
        /\ sub' \in {"check", "first", "second", "wait"} /\ Stands' /\ HasCluster'
    BY <2>1, <2>2, <2>3, FinishTypes DEF TypeOK, HasCluster
  <2> QED BY <2>1, <2>3, <2>4 DEF TypeOK
<1>7. CASE SetDriver \/ GrantAdmin \/ Allow
  <2>1. /\ status = "running" /\ status' = status /\ pos' = pos
        /\ Task \in Drivers \cup {"prepare"} /\ Task' = Task /\ pos \in 8..11
        /\ \/ sub' = "second" /\ Task \in Drivers
           \/ sub' = "wait"
        /\ UNCHANGED <<run, mode, named, cluster, first, done, has, driver, admins, torn, best>>
    BY <1>7, <1>p DEF SetDriver, GrantAdmin, Allow, At, runVars, Task, Placed
  <2>2. cluster \in Runs /\ run \in Runs
    BY <2>1, <1>r, MaxRunsAssumption DEF HasCluster, TypeOK, Runs
  <2>3. mq' \in Seq(Calls)
    <3>1. PICK x : mq' = Append(mq, x) /\
              \/ x = SetCall(cluster, Task, Instance(Task)) /\ Task \in Drivers
              \/ x = Grant(cluster, Task, Instance(Task)) /\ Task \in Drivers
              \/ x = AllowCall(cluster)
      BY <1>7 DEF SetDriver, GrantAdmin, Allow, Call, SetCall, AllowCall
    <3>2. x \in Calls
      BY <3>1, <2>2 DEF SetCall, AllowCall, Grant, Calls, Instance
    <3> QED BY <3>1, <3>2 DEF TypeOK
  <2>4. Stands' /\ HasCluster'
    BY <2>1, <1>p DEF Stands, HasCluster, Drivers
  <2> QED BY <2>1, <2>3, <2>4 DEF TypeOK
<1>8. CASE Wait
  <2>1. CASE Task = "prepare"
    <3>1. /\ sub' = "second" /\ UNCHANGED <<status, pos>> /\ Record
          /\ UNCHANGED <<run, mode, named, cluster, chainVars, torn>>
          /\ status = "running" /\ sub = "wait" /\ pos = 10
      BY <1>8, <2>1, <1>p DEF Wait, Placed
    <3>3. best' \in [Runs -> 0..WithLogger] /\ Task' = Task
      BY <3>1, RecordTypes DEF Task
    <3>4. Stands' /\ HasCluster'
      BY <2>1, <3>1, <3>3 DEF Stands, HasCluster, chainVars
    <3> QED BY <3>1, <3>3, <3>4 DEF TypeOK, chainVars
  <2>2. CASE Task # "prepare"
    <3>1. Finish /\ Record /\ UNCHANGED <<run, mode, named, cluster, chainVars, torn>>
          /\ status = "running" /\ sub = "wait"
      BY <1>8, <2>2 DEF Wait
    <3>2. (pos < 4 => cluster = 0) /\ (pos > 4 => cluster # 0)
      BY <3>1, <1>p DEF HasCluster, Stands, Placed
    <3>3. best' \in [Runs -> 0..WithLogger]
      BY <3>1, RecordTypes
    <3>4. /\ status' \in {"running", "ready"} /\ pos' \in 1..Steps(mode')
          /\ sub' \in {"check", "first", "second", "wait"} /\ Stands' /\ HasCluster'
      BY <3>1, <3>2, FinishTypes DEF TypeOK, HasCluster, chainVars
    <3> QED BY <3>1, <3>3, <3>4 DEF TypeOK, chainVars
  <2> QED BY <2>1, <2>2
<1>9. CASE Fail
  <2>1. /\ status = "running" /\ status' = "failed" /\ Task' = Task
        /\ UNCHANGED <<run, mode, named, pos, sub, cluster, chainVars, best>>
        /\ torn' = torn \/ torn' = [torn EXCEPT ![cluster] = @ \cup Second(Task)]
    BY <1>9 DEF Fail, Task
  <2>2. Second(Task) \subseteq ClusterPieces \cup AdminPieces
    BY DEF Second, ClusterPieces, AdminPieces
  <2>3. torn' \in [Runs -> SUBSET (ClusterPieces \cup AdminPieces)]
    BY <2>1, <2>2 DEF TypeOK
  <2>4. Stands' /\ HasCluster'
    BY <2>1, <1>r DEF Stands, HasCluster, chainVars
  <2> QED BY <2>1, <2>3, <2>4 DEF TypeOK, chainVars
<1>10. CASE Execute
  <2>1. /\ UNCHANGED <<status, run, mode, named, pos, sub, cluster, first, done, torn, best>>
        /\ mq # <<>> /\ mq' = Tail(mq)
    BY <1>10 DEF Execute, runVars
  <2>2. Head(mq) \in Calls /\ mq' \in Seq(Calls)
    BY <2>1 DEF TypeOK
  <2>3. /\ driver' \in [Runs -> [Drivers -> 0..MaxRuns]]
        /\ admins' \subseteq Runs \X Drivers \X Runs
        /\ has' \in [Runs -> SUBSET ClusterPieces]
        /\ \A c \in Runs : "cluster" \in has'[c] <=> "cluster" \in has[c]
    <3>1. CASE Head(mq).call = "setDriver"
      <4>1. /\ Head(mq).of \in Runs /\ Head(mq).name \in Drivers /\ Head(mq).inst \in 0..MaxRuns
            /\ driver' = [driver EXCEPT ![Head(mq).of][Head(mq).name] = Head(mq).inst]
            /\ UNCHANGED <<has, admins>>
        BY <1>10, <2>2, <3>1 DEF Execute, Calls, Runs
      <4> QED BY <4>1 DEF TypeOK
    <3>2. CASE Head(mq).call = "grantAdmin"
      <4>1. /\ Head(mq).of \in Runs /\ Head(mq).name \in Drivers /\ Head(mq).inst \in Runs
            /\ admins' = admins \cup {<<Head(mq).of, Head(mq).name, Head(mq).inst>>}
            /\ UNCHANGED <<has, driver>>
        BY <1>10, <2>2, <3>2 DEF Execute, Calls
      <4> QED BY <4>1 DEF TypeOK
    <3>3. CASE Head(mq).call = "allow"
      <4>1. /\ Head(mq).of \in Runs
            /\ has' = [has EXCEPT ![Head(mq).of] = @ \cup {"allow"}]
            /\ UNCHANGED <<driver, admins>>
        BY <1>10, <2>2, <3>3 DEF Execute, Calls
      <4> QED BY <4>1 DEF TypeOK, ClusterPieces
    <3> QED BY <1>10, <3>1, <3>2, <3>3 DEF Execute
  <2>4. Stands' /\ HasCluster'
    BY <2>1, <2>3, <1>r, MaxRunsAssumption DEF Stands, HasCluster, Task, TypeOK, Runs
  <2> QED BY <2>1, <2>2, <2>3, <2>4 DEF TypeOK
<1>11. ASSUME NEW p \in {"masterKey", "endpoint"}, Publish(p) PROVE TypeInv'
  BY <1>11 DEF Publish, TypeOK, Stands, HasCluster, runVars, Task, NetworkPieces
<1>12. ASSUME NEW c \in Runs, GetsReady(c) PROVE TypeInv'
  <2>1. /\ has' \in [Runs -> SUBSET ClusterPieces]
        /\ \A k \in Runs : "cluster" \in has'[k] <=> "cluster" \in has[k]
        /\ UNCHANGED <<status, run, mode, named, pos, sub, cluster, first, done, driver, admins,
                       mq, torn, best>>
    BY <1>12 DEF GetsReady, TypeOK, ClusterPieces, runVars
  <2>2. Stands' /\ HasCluster'
    BY <2>1, <1>r, MaxRunsAssumption DEF Stands, HasCluster, Task, TypeOK, Runs
  <2> QED BY <2>1, <2>2 DEF TypeOK
<1>13. CASE UNCHANGED vars
  BY <1>13 DEF vars, TypeOK, Stands, HasCluster, Task
<1> QED
  BY <1>1, <1>2, <1>3, <1>4, <1>5, <1>6, <1>7, <1>8, <1>9, <1>10, <1>11, <1>12, <1>13
  DEF Next, RunStep, NetworkStep

LEMMA TypeInvariant == Spec => []TypeInv
BY InitTypes, StepTypes, PTL DEF Spec

\* Every reachable state is well typed, for any number of runs.
THEOREM TypeCorrect == Spec => []TypeOK
BY TypeInvariant, PTL DEF TypeInv

-----------------------------------------------------------------------------
(* Nothing is taken away.                                                  *)

LEMMA HasItsCluster ==
    ASSUME TypeInv, (status = "running" /\ pos > 5) \/ status = "ready"
    PROVE  cluster \in Runs
BY MaxRunsAssumption DEF TypeInv, HasCluster, TypeOK, Runs

\* What a step does to the chain.
LEMMA Grows ==
    ASSUME TypeInv, [Next]_vars
    PROVE  /\ done \subseteq done'
           /\ \A c \in Runs : has[c] \subseteq has'[c] /\ torn[c] \subseteq torn'[c]
           /\ admins \subseteq admins'
           /\ \A c \in Runs, d \in Drivers : driver[c][d] # 0 => driver'[c][d] # 0
<1> USE DEF TypeInv
<1>1. done \subseteq done'
  BY DEF Next, RunStep, NetworkStep, vars, chainVars, Start, Check, Verify, Register, AddCluster,
         DepositFunds, SetDriver, GrantAdmin, Allow, UploadSideVm, Wait, Fail, Execute, Publish,
         GetsReady
<1>3. \A k \in Runs : has[k] \subseteq has'[k]
  <2>1. has' = has \/ AddCluster \/ DepositFunds \/ UploadSideVm \/ Execute
        \/ \E c \in Runs : GetsReady(c)
    BY DEF Next, RunStep, NetworkStep, vars, chainVars, Start, Check, Verify, Register, SetDriver,
           GrantAdmin, Allow, Wait, Fail, Publish
  <2>2. CASE AddCluster
    BY <2>2 DEF AddCluster, TypeOK
  <2>3. CASE DepositFunds
    BY <2>3 DEF DepositFunds, TypeOK
  <2>4. CASE UploadSideVm
    BY <2>4 DEF UploadSideVm, TypeOK
  <2>5. CASE Execute
    <3>1. has' = has \/ has' = [has EXCEPT ![Head(mq).of] = @ \cup {"allow"}]
      BY <2>5 DEF Execute
    <3> QED BY <3>1 DEF TypeOK
  <2>6. ASSUME NEW c \in Runs, GetsReady(c) PROVE \A k \in Runs : has[k] \subseteq has'[k]
    BY <2>6 DEF GetsReady, TypeOK
  <2> QED BY <2>1, <2>2, <2>3, <2>4, <2>5, <2>6
<1>4. torn' = torn \/ torn' = [torn EXCEPT ![cluster] = @ \cup Second(Task)]
  BY DEF Next, RunStep, NetworkStep, vars, chainVars, Start, Check, Verify, Register, AddCluster,
         DepositFunds, SetDriver, GrantAdmin, Allow, UploadSideVm, Wait, Fail, Execute, Publish,
         GetsReady
<1>5. \A c \in Runs : torn[c] \subseteq torn'[c]
  BY <1>4 DEF TypeOK
<1>6. UNCHANGED <<admins, driver>> \/ Execute
  BY DEF Next, RunStep, NetworkStep, vars, chainVars, Start, Check, Verify, Register, AddCluster,
         DepositFunds, SetDriver, GrantAdmin, Allow, UploadSideVm, Wait, Fail, Publish, GetsReady
<1>7. ASSUME Execute
      PROVE  /\ admins \subseteq admins'
             /\ \A c \in Runs, d \in Drivers : driver[c][d] # 0 => driver'[c][d] # 0
  <2>1. Head(mq) \in Calls
    BY <1>7, CallDone DEF Execute
  <2>2. admins \subseteq admins'
    BY <1>7 DEF Execute
  <2>3. driver' = driver \/ \E c \in Runs, d \in Drivers, i \in Runs :
                                driver' = [driver EXCEPT ![c][d] = i]
    BY <1>7, <2>1 DEF Execute, Calls
  <2>4. ASSUME NEW c \in Runs, NEW d \in Drivers, NEW i \in Runs,
               driver' = [driver EXCEPT ![c][d] = i]
        PROVE  \A k \in Runs, e \in Drivers : driver[k][e] # 0 => driver'[k][e] # 0
    BY <2>4 DEF TypeOK, Runs
  <2> QED BY <2>2, <2>3, <2>4
<1> QED BY <1>1, <1>3, <1>5, <1>6, <1>7

\* A task stays done, for a cluster and for none.
LEMMA LeftStays ==
    ASSUME TypeInv, [Next]_vars, NEW t, NEW c \in 0..MaxRuns,
           c \in Runs \/ t \in {"worker", "gatekeeper", "code", "verify"}, Left(c, t)
    PROVE  Left(c, t)'
<1>1. CASE c \in Runs
  BY <1>1, Grows DEF Left
<1>2. CASE t \in {"worker", "gatekeeper", "code", "verify"}
  BY <1>2, Grows DEF Left, Drivers
<1> QED BY <1>1, <1>2

\* What a skip or a wait looks at is what the task leaves behind.
LEMMA SkippedIsLeft ==
    ASSUME NEW t, Skippable(t), t # "ready" PROVE Left(cluster, t)
BY DEF Skippable, Left, Drivers

LEMMA LeftIsSkipped ==
    ASSUME NEW t, Left(cluster, t), t \notin {"ready", "verify"} PROVE Skippable(t)
BY DEF Skippable, Left, Drivers

LEMMA AwaitedIsLeft ==
    ASSUME TypeInv, Passed, status = "running", sub = "wait", Awaited(Task), Task # "prepare"
    PROVE  Left(cluster, Task)
<1>1. Task \in Drivers => Instance(Task) # 0
  <2>1. Task \in Drivers => pos > 5
    BY TaskPlaced DEF TypeInv, Placed
  <2> QED BY <2>1, HasItsCluster DEF TypeInv, Stands, Runs, Instance
<1>2. Task \notin {"verify", "cluster"} /\ (Task = "gatekeeper" => "gatekeeper" \in done)
  BY DEF TypeInv, Stands, Passed, At
<1> QED BY <1>1, <1>2 DEF Awaited, Left, Drivers

\* The task ends with its work done.
LEMMA Finished ==
    ASSUME TypeInv, Passed, [Next]_vars, status = "running", Finish,
           UNCHANGED <<mode, cluster>> \/ (Verify /\ mode' = mode),
           NEW t, t = Task, Left(cluster, t)'
    PROVE  Passed'
<1> USE DEF TypeInv
<1>1. /\ pos \in 1..11 /\ Steps(mode) \in {7, 9, 11} /\ pos \in 1..Steps(mode) /\ Placed(pos)
      /\ Task = Tasks[pos]
  BY TaskPlaced
<1>2. ASSUME NEW i \in 1..(pos - 1) PROVE Left(cluster, Tasks[i])'
  <2>1. i \in 1..11 /\ Placed(i) /\ Left(cluster, Tasks[i])
    BY <1>1, Places DEF Passed
  <2>2. CASE Verify
    <3>1. pos = 4
      BY <2>2, <1>1 DEF Verify, At, Placed
    <3>2. Tasks[i] \in {"worker", "gatekeeper", "code"}
      BY <3>1, <2>1 DEF Placed
    <3> QED BY <2>1, <3>2, Grows DEF Left, Drivers
  <2>3. CASE cluster' = cluster
    <3>1. cluster \in 0..MaxRuns /\ (cluster = 0 \/ cluster \in Runs)
      BY MaxRunsAssumption DEF TypeOK, Runs
    <3>2. cluster = 0 => pos <= 5
      BY <1>1 DEF HasCluster
    <3>3. i <= 4 => Tasks[i] \in {"worker", "gatekeeper", "code", "verify"}
      BY <2>1 DEF Placed
    <3>4. cluster \in Runs \/ Tasks[i] \in {"worker", "gatekeeper", "code", "verify"}
      BY <3>1, <3>2, <3>3, <2>1, <1>1
    <3> QED BY <2>1, <2>3, <3>4, Grows DEF Left, Drivers
  <2> QED BY <2>2, <2>3
<1>t. \A i \in 1..pos : Left(cluster, Tasks[i])'
  <2>1. SUFFICES ASSUME NEW i \in 1..pos PROVE Left(cluster, Tasks[i])'
    OBVIOUS
  <2>2. CASE i = pos
    <3>1. Tasks[i] = t
      BY <2>2, <1>1
    <3> QED BY <3>1
  <2>3. CASE i # pos
    <3>1. i \in 1..(pos - 1)
      BY <2>3, <1>1
    <3> QED BY <3>1, <1>2
  <2> QED BY <2>2, <2>3
<1>3. CASE status' = "running"
  <2>1. pos' = pos + 1 /\ sub' = "check" /\ Steps(mode') = Steps(mode)
    BY <1>3, FinishMoves
  <2> QED BY <1>1, <1>3, <1>t, <2>1 DEF Passed, At
<1>4. CASE status' = "ready"
  <2>1. pos = Steps(mode) /\ mode' = mode
    BY <1>4, FinishMoves
  <2> QED BY <1>4, <1>t, <2>1 DEF Passed, At
<1> QED BY <1>3, <1>4, FinishMoves

-----------------------------------------------------------------------------
(* The tasks before the current one are done.                              *)

\* A step that leaves the run where it is.
LEMMA StaysPassed ==
    ASSUME TypeInv, Passed, [Next]_vars, UNCHANGED <<status, mode, pos>>,
           cluster' = cluster \/ (status = "running" /\ pos <= 5),
           At("gatekeeper", "wait")' => "gatekeeper" \in done',
           At("prepare", "second")' => "allow" \in has'[cluster']
    PROVE  Passed'
<1> USE DEF TypeInv
<1>1. pos \in 1..11 /\ Steps(mode) \in {7, 9, 11} /\ pos \in 1..Steps(mode)
  BY TaskPlaced
<1>2. ASSUME NEW i \in 1..11, Left(cluster, Tasks[i]),
             \/ status = "running" /\ i < pos
             \/ status = "ready"
      PROVE  Left(cluster, Tasks[i])'
  <2>1. i <= 4 => Tasks[i] \in {"worker", "gatekeeper", "code", "verify"}
    BY Places DEF Placed
  <2>2. CASE Tasks[i] \in {"worker", "gatekeeper", "code", "verify"}
    BY <1>2, <2>2, Grows DEF Left, Drivers
  <2>3. CASE i > 4
    <3>1. cluster' = cluster /\ (cluster \in Runs)
      BY <1>1, <1>2, <2>3, HasItsCluster
    <3> QED BY <3>1, <1>2, Grows DEF Left
  <2> QED BY <2>1, <2>2, <2>3
<1>3. status' = "running" => \A i \in 1..(pos' - 1) : Left(cluster, Tasks[i])'
  BY <1>1, <1>2 DEF Passed
<1>4. status' = "ready" => \A i \in 1..Steps(mode') : Left(cluster, Tasks[i])'
  BY <1>1, <1>2 DEF Passed
<1> QED BY <1>3, <1>4 DEF Passed

LEMMA InitPassed == Init => Passed
BY DEF Init, Passed, At

LEMMA StepPassed == TypeInv /\ Passed /\ [Next]_vars => Passed'
<1> SUFFICES ASSUME TypeInv, Passed, [Next]_vars PROVE Passed'
  OBVIOUS
<1> USE DEF TypeInv
<1>p. /\ mode \in 1..3 /\ Steps(mode) \in {7, 9, 11} /\ pos \in 1..11
      /\ pos \in 1..Steps(mode) /\ Placed(pos) /\ Task = Tasks[pos]
  BY TaskPlaced
<1>1. ASSUME NEW m \in Minimal..WithLogger, NEW given \in BOOLEAN, Start(m, given)
      PROVE  Passed'
  BY <1>1 DEF Start, Passed, At
<1>2. CASE Check
  <2>1. CASE Skippable(Task) /\ Task # "ready"
    <3>1. PICK t : t = Task
      OBVIOUS
    <3>2. Finish /\ UNCHANGED <<mode, cluster>> /\ status = "running"
      BY <1>2, <2>1 DEF Check
    <3>3. Left(cluster, t)
      BY <2>1, <3>1, SkippedIsLeft
    <3>4. UNCHANGED <<chainVars, cluster>>
      BY <1>2 DEF Check
    <3>5. Left(cluster, t)'
      BY <3>3, <3>4 DEF Left, chainVars
    <3> QED BY <3>1, <3>2, <3>5, Finished
  <2>2. CASE ~(Skippable(Task) /\ Task # "ready")
    <3>1. UNCHANGED <<status, mode, pos, cluster>> /\ sub' \in {"first", "wait"}
          /\ (sub' = "wait" => Task = "ready") /\ Task' = Task
      BY <1>2, <2>2 DEF Check, Task
    <3> QED BY <3>1, StaysPassed DEF At
  <2> QED BY <2>1, <2>2
<1>3. CASE Verify
  <2>1. status = "running" /\ Task = "verify" /\ Finish /\ mode' = mode
    BY <1>3 DEF Verify, At
  <2>2. Left(cluster, "verify")'
    BY DEF Left, Drivers
  <2> QED BY <1>3, <2>1, <2>2, Finished
<1>4. CASE Register
  <2>1. UNCHANGED <<status, mode, pos, cluster>> /\ sub' = "wait" /\ Task' = Task
        /\ (Task = "gatekeeper" => "gatekeeper" \in done')
    BY <1>4 DEF Register, runVars, Task
  <2> QED BY <2>1, StaysPassed DEF At
<1>5. CASE AddCluster
  <2>1. status = "running" /\ Task = "cluster"
    BY <1>5 DEF AddCluster, At
  <2>2. UNCHANGED <<status, mode, pos>> /\ sub' = "second" /\ Task' = Task /\ pos = 5
    BY <1>5, <2>1, <1>p DEF AddCluster, runVars, Task, Placed
  <2> QED BY <2>1, <2>2, StaysPassed DEF At
<1>6. CASE DepositFunds
  <2>1. status = "running" /\ Task = "cluster" /\ Finish /\ UNCHANGED <<mode, cluster>>
        /\ sub = "second"
    BY <1>6 DEF DepositFunds, At
  <2>2. Left(cluster, "cluster")'
    BY <2>1, <1>p DEF Left, Drivers, HasCluster, Placed
  <2> QED BY <2>1, <2>2, Finished
<1>7. CASE UploadSideVm
  <2>1. status = "running" /\ Task = "prepare" /\ Finish /\ UNCHANGED <<mode, cluster>>
        /\ At("prepare", "second")
    BY <1>7 DEF UploadSideVm, At
  <2>2. "allow" \in has[cluster] /\ cluster \in Runs
    BY <2>1, <1>p, HasItsCluster DEF Passed, Placed
  <2>3. Left(cluster, "prepare")'
    BY <2>1, <2>2, Grows DEF Left, Drivers
  <2> QED BY <2>1, <2>3, Finished
<1>8. CASE SetDriver \/ GrantAdmin \/ Allow
  <2>1. UNCHANGED <<status, mode, pos, cluster>> /\ Task' = Task
        /\ \/ sub' = "second" /\ Task \in Drivers
           \/ sub' = "wait" /\ Task \in Drivers \cup {"prepare"}
    BY <1>8 DEF SetDriver, GrantAdmin, Allow, At, runVars, Task
  <2> QED BY <2>1, StaysPassed DEF At, Drivers
<1>9. CASE Wait
  <2>1. CASE Task = "prepare"
    <3>1. UNCHANGED <<status, mode, pos, cluster, chainVars>> /\ Task' = Task /\ Awaited(Task)
      BY <1>9, <2>1 DEF Wait, Task
    <3>2. "allow" \in has'[cluster']
      BY <3>1, <2>1 DEF Awaited, chainVars, Drivers
    <3> QED BY <2>1, <3>1, <3>2, StaysPassed DEF At
  <2>2. CASE Task # "prepare"
    <3>1. PICK t : t = Task
      OBVIOUS
    <3>2. Finish /\ UNCHANGED <<mode, cluster, chainVars>> /\ status = "running" /\ sub = "wait"
          /\ Awaited(Task)
      BY <1>9, <2>2 DEF Wait
    <3>3. Left(cluster, t)
      BY <2>2, <3>1, <3>2, AwaitedIsLeft
    <3>4. Left(cluster, t)'
      BY <3>2, <3>3 DEF Left, chainVars
    <3> QED BY <3>1, <3>2, <3>4, Finished
  <2> QED BY <2>1, <2>2
<1>10. CASE Fail
  BY <1>10 DEF Fail, Passed, At
<1>11. CASE NetworkStep \/ UNCHANGED vars
  <2>1. UNCHANGED <<status, mode, pos, sub, cluster>> /\ Task' = Task
    BY <1>11 DEF NetworkStep, Execute, Publish, GetsReady, vars, runVars, Task
  <2>2. At("prepare", "second") => cluster \in Runs
    BY <1>p, HasItsCluster DEF At, Placed
  <2>3. (At("gatekeeper", "wait")' => "gatekeeper" \in done')
        /\ (At("prepare", "second")' => "allow" \in has'[cluster'])
    BY <2>1, <2>2, Grows DEF Passed, At
  <2> QED BY <2>1, <2>3, StaysPassed
<1> QED
  BY <1>1, <1>2, <1>3, <1>4, <1>5, <1>6, <1>7, <1>8, <1>9, <1>10, <1>11 DEF Next, RunStep

-----------------------------------------------------------------------------
(* Halves of tasks.                                                        *)

\* The three parts of HalvesFit, for a cluster.
FundsFit(c) ==
    "cluster" \in has[c] =>
        \/ "funds" \in has[c] \cup torn[c]
        \/ At("cluster", "second") /\ cluster = c
ResourceFits(c) ==
    "allow" \in has[c] \/ InQueue(AllowCall(c)) =>
        \/ "resource" \in has[c] \cup torn[c]
        \/ (At("prepare", "wait") \/ At("prepare", "second")) /\ cluster = c
AdminFits(c, d, i) ==
    driver[c][d] = i \/ InQueue(SetCall(c, d, i)) =>
        \/ Granted(c, d, i) \/ Admin[d] \in torn[c]
        \/ At(d, "second") /\ cluster = c /\ Instance(d) = i

LEMMA HalvesSplit ==
    HalvesFit <=> \A c \in Runs : /\ FundsFit(c) /\ ResourceFits(c)
                                  /\ \A d \in Drivers, i \in Runs : AdminFits(c, d, i)
BY DEF HalvesFit, FundsFit, ResourceFits, AdminFits

LEMMA CallsDiffer ==
    ASSUME NEW c, NEW d, NEW i, NEW c2, NEW d2, NEW i2
    PROVE  /\ SetCall(c, d, i) # AllowCall(c2) /\ SetCall(c, d, i) # Grant(c2, d2, i2)
           /\ Grant(c, d, i) # AllowCall(c2)
           /\ SetCall(c, d, i) = SetCall(c2, d2, i2) => c = c2 /\ d = d2 /\ i = i2
           /\ AllowCall(c) = AllowCall(c2) => c = c2
           /\ Grant(c, d, i) = Grant(c2, d2, i2) => c = c2 /\ d = d2 /\ i = i2
<1>1. /\ SetCall(c, d, i).call = "setDriver" /\ SetCall(c2, d2, i2).call = "setDriver"
      /\ Grant(c, d, i).call = "grantAdmin" /\ Grant(c2, d2, i2).call = "grantAdmin"
      /\ AllowCall(c2).call = "allow"
  BY DEF SetCall, AllowCall, Grant
<1>2. SetCall(c, d, i) = SetCall(c2, d2, i2) => c = c2 /\ d = d2 /\ i = i2
  BY DEF SetCall
<1>3. Grant(c, d, i) = Grant(c2, d2, i2) => c = c2 /\ d = d2 /\ i = i2
  BY DEF Grant
<1> QED BY <1>1, <1>2, <1>3 DEF AllowCall

\* The call the worker runs, and what it does.
LEMMA Executed ==
    ASSUME TypeOK, Execute
    PROVE  \E c \in Runs :
             /\ \A y : InQueue(y) =>
                  InQueue(y)' \/ y = Head(mq)
             /\ \A y : InQueue(y)' => InQueue(y)
             /\ InQueue(Head(mq))
             /\ \/ /\ \E d \in Drivers, i \in Runs :
                       /\ Head(mq) = SetCall(c, d, i)
                       /\ driver' = [driver EXCEPT ![c][d] = i]
                   /\ UNCHANGED <<has, admins>>
                \/ /\ \E d \in Drivers, i \in Runs :
                       /\ Head(mq) = Grant(c, d, i)
                       /\ admins' = admins \cup {<<c, d, i>>}
                   /\ UNCHANGED <<has, driver>>
                \/ /\ Head(mq) = AllowCall(c)
                   /\ has' = [has EXCEPT ![c] = @ \cup {"allow"}]
                   /\ UNCHANGED <<driver, admins>>
<1>1. mq # <<>> /\ mq' = Tail(mq)
  BY DEF Execute
<1>2. Head(mq) \in Calls
  BY <1>1, CallDone
<1>3. CASE Head(mq).call = "setDriver"
  <2>1. PICK c \in Runs, d \in Drivers, i \in Runs : Head(mq) = SetCall(c, d, i)
    BY <1>2, <1>3 DEF Calls, SetCall
  <2>2. Head(mq).of = c /\ Head(mq).name = d /\ Head(mq).inst = i
    BY <2>1 DEF SetCall
  <2>3. driver' = [driver EXCEPT ![c][d] = i] /\ UNCHANGED <<has, admins>>
    BY <1>3, <2>2 DEF Execute
  <2> QED BY <1>1, <2>1, <2>3, CallDone
<1>4. CASE Head(mq).call = "grantAdmin"
  <2>1. PICK c \in Runs, d \in Drivers, i \in Runs : Head(mq) = Grant(c, d, i)
    BY <1>2, <1>4 DEF Calls, Grant
  <2>2. Head(mq).of = c /\ Head(mq).name = d /\ Head(mq).inst = i
    BY <2>1 DEF Grant
  <2>3. admins' = admins \cup {<<c, d, i>>} /\ UNCHANGED <<has, driver>>
    BY <1>4, <2>2 DEF Execute
  <2> QED BY <1>1, <2>1, <2>3, CallDone
<1>5. CASE Head(mq).call = "allow"
  <2>1. PICK c \in Runs : Head(mq) = AllowCall(c)
    BY <1>2, <1>5 DEF Calls, AllowCall
  <2>2. Head(mq).of = c
    BY <2>1 DEF AllowCall
  <2>3. has' = [has EXCEPT ![c] = @ \cup {"allow"}] /\ UNCHANGED <<driver, admins>>
    BY <1>5, <2>2 DEF Execute
  <2> QED BY <1>1, <2>1, <2>3, CallDone
<1> QED BY <1>2, <1>3, <1>4, <1>5 DEF Calls

LEMMA InitHalves == Init => HalvesFit
BY DEF Init, HalvesFit, InQueue, Runs

\* A step that leaves the halves and the calls alone, or adds to them.
LEMMA FundsStay ==
    ASSUME TypeInv, [Next]_vars, NEW c \in Runs, FundsFit(c) PROVE FundsFit(c)'
<1> USE DEF TypeInv
<1>p. Placed(pos) /\ Task = Tasks[pos] /\ pos \in 1..11
  BY TaskPlaced
<1>1. CASE "funds" \in has[c] \cup torn[c]
  BY <1>1, Grows DEF FundsFit
<1>2. CASE "funds" \notin has[c] \cup torn[c] /\ "cluster" \notin has[c]
  <2>1. CASE AddCluster
    <3>1. \/ c = run /\ At("cluster", "second")' /\ cluster' = run
          \/ c # run /\ has'[c] = has[c]
      BY <2>1 DEF AddCluster, At, Task, runVars, TypeOK
    <3> QED BY <1>2, <3>1 DEF FundsFit
  <2>2. CASE ~AddCluster
    <3>1. "cluster" \notin has'[c]
      <4>1. CASE DepositFunds \/ UploadSideVm
        <5>1. PICK p \in {"funds", "resource"} : has' = [has EXCEPT ![cluster] = @ \cup {p}]
          BY <4>1 DEF DepositFunds, UploadSideVm
        <5> QED BY <1>2, <5>1 DEF TypeOK
      <4>2. CASE Execute
        <5>1. has' = has \/ \E k \in Runs : has' = [has EXCEPT ![k] = @ \cup {"allow"}]
          BY <4>2, Executed
        <5>2. ASSUME NEW k \in Runs, has' = [has EXCEPT ![k] = @ \cup {"allow"}]
              PROVE  "cluster" \notin has'[c]
          BY <1>2, <5>2 DEF TypeOK
        <5> QED BY <1>2, <5>1, <5>2
      <4>3. ASSUME NEW k \in Runs, GetsReady(k) PROVE "cluster" \notin has'[c]
        BY <1>2, <4>3 DEF GetsReady, TypeOK
      <4>4. has' = has \/ DepositFunds \/ UploadSideVm \/ Execute
            \/ \E k \in Runs : GetsReady(k)
        BY <2>2 DEF Next, RunStep, NetworkStep, vars, chainVars, Start, Check, Verify, Register,
                    SetDriver, GrantAdmin, Allow, Wait, Fail, Publish
      <4> QED BY <1>2, <4>1, <4>2, <4>3, <4>4
    <3> QED BY <3>1 DEF FundsFit
  <2> QED BY <2>1, <2>2
<1>3. CASE At("cluster", "second") /\ cluster = c
  <2>1. CASE DepositFunds
    BY <1>3, <2>1 DEF DepositFunds, FundsFit, TypeOK
  <2>2. CASE Fail
    <3>1. HalfDone /\ Task = "cluster" /\ Second("cluster") = {"funds"}
      BY <1>3 DEF At, HalfDone, Second, Drivers
    <3>2. torn' = [torn EXCEPT ![c] = @ \cup {"funds"}]
      BY <1>3, <2>2, <3>1 DEF Fail
    <3>3. "funds" \in torn'[c]
      BY <3>2 DEF TypeOK
    <3> QED BY <3>3 DEF FundsFit
  <2>3. CASE ~DepositFunds /\ ~Fail
    <3>1. UNCHANGED <<status, sub, pos, cluster>> /\ Task' = Task
      BY <1>3, <2>3 DEF Next, RunStep, NetworkStep, vars, runVars, chainVars, Start, Check, Verify,
             Register, AddCluster, SetDriver, GrantAdmin, Allow, UploadSideVm, Wait, Execute,
             Publish, GetsReady, At, Task, Drivers
    <3> QED BY <1>3, <3>1 DEF FundsFit, At
  <2> QED BY <2>1, <2>2, <2>3
<1> QED BY <1>1, <1>2, <1>3 DEF FundsFit

\* Calls are added by these steps only.
LEMMA CallsOnlyFrom ==
    ASSUME TypeInv, [Next]_vars
    PROVE  /\ \A c \in Runs : InQueue(AllowCall(c))' =>
                InQueue(AllowCall(c)) \/ (Allow /\ cluster = c)
           /\ \A c \in Runs, d \in Drivers, i \in Runs : InQueue(SetCall(c, d, i))' =>
                InQueue(SetCall(c, d, i))
                \/ (SetDriver /\ Task = d /\ cluster = c /\ Instance(d) = i)
<1> USE DEF TypeInv
<1>1. CASE Allow
  <2>1. \A y : InQueue(y)' <=> InQueue(y) \/ y = AllowCall(cluster)
    BY <1>1, NewCall DEF Allow, AllowCall
  <2> QED BY <1>1, <2>1, CallsDiffer
<1>2. CASE SetDriver
  <2>1. \A y : InQueue(y)' <=> InQueue(y) \/ y = SetCall(cluster, Task, Instance(Task))
    BY <1>2, NewCall DEF SetDriver, SetCall
  <2> QED BY <1>2, <2>1, CallsDiffer
<1>3. CASE GrantAdmin
  <2>1. \A y : InQueue(y)' <=> InQueue(y) \/ y = Grant(cluster, Task, Instance(Task))
    BY <1>3, NewCall DEF GrantAdmin
  <2> QED BY <2>1, CallsDiffer
<1>4. CASE Execute
  BY <1>4, Executed
<1>5. CASE ~Allow /\ ~SetDriver /\ ~GrantAdmin /\ ~Execute
  <2>1. UNCHANGED mq
    BY <1>5 DEF Next, RunStep, NetworkStep, vars, chainVars, Start, Check, Verify, Register,
           AddCluster, DepositFunds, UploadSideVm, Wait, Fail, Publish, GetsReady
  <2> QED BY <2>1, SameQueue
<1> QED BY <1>1, <1>2, <1>3, <1>4, <1>5

LEMMA ResourceStays ==
    ASSUME TypeInv, [Next]_vars, NEW c \in Runs, ResourceFits(c) PROVE ResourceFits(c)'
<1> USE DEF TypeInv
<1>1. CASE "resource" \in has[c] \cup torn[c]
  BY <1>1, Grows DEF ResourceFits
<1>2. CASE "allow" \notin has[c] /\ ~InQueue(AllowCall(c))
  <2>1. CASE Allow /\ cluster = c
    <3>1. At("prepare", "wait")' /\ cluster' = c
      BY <2>1 DEF Allow, At, Task, runVars
    <3> QED BY <3>1 DEF ResourceFits
  <2>2. CASE ~(Allow /\ cluster = c)
    <3>1. ~InQueue(AllowCall(c))'
      BY <1>2, <2>2, CallsOnlyFrom
    <3>2. "allow" \notin has'[c]
      <4>1. CASE DepositFunds \/ UploadSideVm \/ AddCluster
        <5>1. \/ \E p \in {"funds", "resource"} : has' = [has EXCEPT ![cluster] = @ \cup {p}]
              \/ has' = [has EXCEPT ![run] = @ \cup {"cluster"}]
          BY <4>1 DEF DepositFunds, UploadSideVm, AddCluster
        <5>2. ASSUME NEW p \in {"funds", "resource"}, has' = [has EXCEPT ![cluster] = @ \cup {p}]
              PROVE  "allow" \notin has'[c]
          BY <1>2, <5>2 DEF TypeOK
        <5>3. ASSUME has' = [has EXCEPT ![run] = @ \cup {"cluster"}] PROVE "allow" \notin has'[c]
          BY <1>2, <5>3 DEF TypeOK
        <5> QED BY <5>1, <5>2, <5>3
      <4>2. CASE Execute
        BY <1>2, <4>2, Executed DEF TypeOK
      <4>3. ASSUME NEW k \in Runs, GetsReady(k) PROVE "allow" \notin has'[c]
        BY <1>2, <4>3 DEF GetsReady, TypeOK
      <4>4. has' = has \/ DepositFunds \/ UploadSideVm \/ AddCluster \/ Execute
            \/ \E k \in Runs : GetsReady(k)
        BY DEF Next, RunStep, NetworkStep, vars, chainVars, Start, Check, Verify, Register,
               SetDriver, GrantAdmin, Allow, Wait, Fail, Publish
      <4> QED BY <1>2, <4>1, <4>2, <4>3, <4>4
    <3> QED BY <3>1, <3>2 DEF ResourceFits
  <2> QED BY <2>1, <2>2
<1>3. CASE (At("prepare", "wait") \/ At("prepare", "second")) /\ cluster = c
  <2>1. CASE UploadSideVm
    BY <1>3, <2>1 DEF UploadSideVm, ResourceFits, TypeOK
  <2>2. CASE Fail
    <3>1. HalfDone /\ Task = "prepare" /\ Second("prepare") = {"resource"}
      BY <1>3 DEF At, HalfDone, Second, Drivers
    <3>2. torn' = [torn EXCEPT ![c] = @ \cup {"resource"}]
      BY <1>3, <2>2, <3>1 DEF Fail
    <3>3. "resource" \in torn'[c]
      BY <3>2 DEF TypeOK
    <3> QED BY <3>3 DEF ResourceFits
  <2>3. CASE Wait
    BY <1>3, <2>3 DEF Wait, ResourceFits, At, Task
  <2>4. CASE ~UploadSideVm /\ ~Fail /\ ~Wait
    <3>1. UNCHANGED <<status, sub, pos, cluster>> /\ Task' = Task
      BY <1>3, <2>4 DEF Next, RunStep, NetworkStep, vars, runVars, chainVars, Start, Check, Verify,
             Register, AddCluster, DepositFunds, SetDriver, GrantAdmin, Allow, Execute,
             Publish, GetsReady, At, Task, Drivers
    <3> QED BY <1>3, <3>1 DEF ResourceFits, At
  <2> QED BY <2>1, <2>2, <2>3, <2>4
<1> QED BY <1>1, <1>2, <1>3 DEF ResourceFits

LEMMA GrantedStays ==
    ASSUME TypeInv, [Next]_vars, NEW c \in Runs, NEW d \in Drivers, NEW i \in Runs,
           Granted(c, d, i)
    PROVE  Granted(c, d, i)'
<1> USE DEF TypeInv
<1>1. CASE <<c, d, i>> \in admins
  BY <1>1, Grows DEF Granted
<1>2. CASE InQueue(Grant(c, d, i)) /\ Execute
  <2>1. InQueue(Grant(c, d, i))' \/ Grant(c, d, i) = Head(mq)
    BY <1>2, Executed
  <2>2. CASE Grant(c, d, i) = Head(mq)
    BY <1>2, <2>2, Executed, CallsDiffer DEF Granted
  <2> QED BY <2>1, <2>2 DEF Granted
<1>3. CASE InQueue(Grant(c, d, i)) /\ ~Execute
  <2>1. mq' = mq \/ \E x : Call(x)
    BY <1>3 DEF Next, RunStep, NetworkStep, vars, chainVars, Start, Check, Verify, Register,
           AddCluster, DepositFunds, SetDriver, GrantAdmin, Allow, UploadSideVm, Wait, Fail,
           Publish, GetsReady
  <2>2. InQueue(Grant(c, d, i))'
    BY <1>3, <2>1, NewCall, SameQueue
  <2> QED BY <2>2 DEF Granted
<1> QED BY <1>1, <1>2, <1>3 DEF Granted

LEMMA AdminStays ==
    ASSUME TypeInv, [Next]_vars, NEW c \in Runs, NEW d \in Drivers, NEW i \in Runs,
           AdminFits(c, d, i)
    PROVE  AdminFits(c, d, i)'
<1> USE DEF TypeInv
<1>1. CASE Granted(c, d, i) \/ Admin[d] \in torn[c]
  BY <1>1, Grows, GrantedStays DEF AdminFits
<1>2. CASE driver[c][d] # i /\ ~InQueue(SetCall(c, d, i))
  <2>1. CASE SetDriver /\ Task = d /\ cluster = c /\ Instance(d) = i
    <3>1. At(d, "second")' /\ cluster' = c /\ Instance(d)' = i
      BY <2>1 DEF SetDriver, At, Task, runVars, Instance
    <3> QED BY <3>1 DEF AdminFits
  <2>2. CASE ~(SetDriver /\ Task = d /\ cluster = c /\ Instance(d) = i)
    <3>1. ~InQueue(SetCall(c, d, i))'
      BY <1>2, <2>2, CallsOnlyFrom
    <3>2. driver'[c][d] # i
      <4>1. CASE Execute
        <5>1. PICK c2 \in Runs :
                \/ \E d2 \in Drivers, i2 \in Runs :
                     /\ Head(mq) = SetCall(c2, d2, i2)
                     /\ driver' = [driver EXCEPT ![c2][d2] = i2]
                \/ driver' = driver
          BY <4>1, Executed
        <5>2. Head(mq) # SetCall(c, d, i)
          BY <1>2, <4>1, Executed
        <5>3. ASSUME NEW d2 \in Drivers, NEW i2 \in Runs, Head(mq) = SetCall(c2, d2, i2),
                     driver' = [driver EXCEPT ![c2][d2] = i2]
              PROVE  driver'[c][d] # i
          BY <1>2, <5>2, <5>3 DEF TypeOK
        <5> QED BY <1>2, <5>1, <5>3
      <4>2. CASE ~Execute
        <5>1. UNCHANGED driver
          BY <4>2 DEF Next, RunStep, NetworkStep, vars, chainVars, Start, Check, Verify, Register,
                 AddCluster, DepositFunds, SetDriver, GrantAdmin, Allow, UploadSideVm, Wait, Fail,
                 Publish, GetsReady
        <5> QED BY <1>2, <5>1
      <4> QED BY <4>1, <4>2
    <3> QED BY <3>1, <3>2 DEF AdminFits
  <2> QED BY <2>1, <2>2
<1>3. CASE At(d, "second") /\ cluster = c /\ Instance(d) = i
  <2>1. CASE GrantAdmin
    <3>1. Call(Grant(c, d, i))
      BY <1>3, <2>1 DEF GrantAdmin, At
    <3>2. InQueue(Grant(c, d, i))'
      BY <3>1, NewCall
    <3> QED BY <3>2 DEF AdminFits, Granted
  <2>2. CASE Fail
    <3>1. Admin[d] \in torn'[c]
      BY <1>3, <2>2 DEF Fail, TypeOK, At, HalfDone, Second, Drivers
    <3> QED BY <3>1 DEF AdminFits
  <2>3. CASE ~GrantAdmin /\ ~Fail
    <3>1. UNCHANGED <<status, sub, pos, cluster>> /\ Task' = Task /\ Instance(d)' = Instance(d)
      BY <1>3, <2>3 DEF Instance, Next, RunStep, NetworkStep, vars, runVars, chainVars, Start, Check, Verify,
             Register, AddCluster, DepositFunds, SetDriver, Allow, UploadSideVm, Wait, Execute,
             Publish, GetsReady, At, Task, Drivers
    <3> QED BY <1>3, <3>1 DEF AdminFits, At
  <2> QED BY <2>1, <2>2, <2>3
<1> QED BY <1>1, <1>2, <1>3 DEF AdminFits

LEMMA StepHalves == TypeInv /\ HalvesFit /\ [Next]_vars => HalvesFit'
<1> SUFFICES ASSUME TypeInv, HalvesFit, [Next]_vars PROVE HalvesFit'
  OBVIOUS
<1>1. ASSUME NEW c \in Runs PROVE FundsFit(c)' /\ ResourceFits(c)'
  BY HalvesSplit, FundsStay, ResourceStays
<1>2. ASSUME NEW c \in Runs, NEW d \in Drivers, NEW i \in Runs PROVE AdminFits(c, d, i)'
  BY HalvesSplit, AdminStays
<1> QED BY <1>1, <1>2 DEF HalvesFit, FundsFit, ResourceFits, AdminFits

\* Every invariant of the halves and of the tasks that are passed.
LEMMA SetupInvariant == Spec => [](TypeInv /\ Passed /\ HalvesFit)
<1>1. Init => TypeInv /\ Passed /\ HalvesFit
  BY InitTypes, InitPassed, InitHalves
<1>2. TypeInv /\ Passed /\ HalvesFit /\ [Next]_vars => (TypeInv /\ Passed /\ HalvesFit)'
  BY StepTypes, StepPassed, StepHalves
<1> QED BY <1>1, <1>2, PTL DEF Spec

LEMMA TornOnly == TypeInv /\ Passed /\ HalvesFit => OnlyTornIsMissing
<1> SUFFICES ASSUME TypeInv, Passed, HalvesFit, status = "ready"
             PROVE  Missing(mode) \subseteq torn[cluster]
  BY DEF OnlyTornIsMissing
<1>1. /\ mode \in 1..3 /\ Steps(mode) \in {7, 9, 11} /\ (mode = 3 => Steps(mode) = 11)
      /\ cluster \in Runs
  BY StepsAre, HasItsCluster DEF TypeInv, TypeOK
<1>2. \A i \in 1..Steps(mode) : Left(cluster, Tasks[i])
  BY DEF Passed
<1>3. {"worker", "gatekeeper", "code", "endpoint"} \subseteq done
  <2>1. Left(cluster, Tasks[1]) /\ Left(cluster, Tasks[2]) /\ Left(cluster, Tasks[3])
        /\ Left(cluster, Tasks[7])
    BY <1>1, <1>2
  <2> QED BY <2>1 DEF Tasks, Left, Drivers
<1>4. {"cluster", "funds", "ready"} \ has[cluster] \subseteq torn[cluster]
  <2>1. Left(cluster, Tasks[6])
    BY <1>1, <1>2
  <2>2. "ready" \in has[cluster]
    BY <2>1 DEF Tasks, Left, Drivers
  <2>3. "cluster" \in has[cluster] /\ "funds" \in has[cluster] \cup torn[cluster]
    BY <1>1 DEF TypeInv, HasCluster, Runs, HalvesFit, At
  <2> QED BY <2>2, <2>3
<1>5. ASSUME mode >= WithLogger
      PROVE  {"allow", "resource"} \ has[cluster] \subseteq torn[cluster]
  <2>1. Left(cluster, Tasks[10])
    BY <1>1, <1>2, <1>5 DEF WithLogger
  <2>2. "allow" \in has[cluster]
    BY <2>1 DEF Tasks, Left, Drivers
  <2> QED BY <1>1, <2>2 DEF HalvesFit, At
<1>6. ASSUME NEW d \in Drivers, NEW k \in 1..Steps(mode), d = Tasks[k], ~Complete(d)
      PROVE  Admin[d] \in torn[cluster]
  <2>1. driver[cluster][d] # 0
    <3>1. Left(cluster, d)
      BY <1>2, <1>6
    <3> QED BY <3>1 DEF Left, Drivers
  <2>2. driver[cluster][d] \in Runs
    BY <1>1, <2>1, MaxRunsAssumption DEF TypeInv, TypeOK, Runs
  <2>3. ~Granted(cluster, d, driver[cluster][d])
    BY <1>6, <2>1 DEF Complete, Granted, InQueue, Grant
  <2> QED BY <1>1, <2>2, <2>3 DEF HalvesFit, At
<1> QED BY <1>3, <1>4, <1>5, <1>6 DEF Missing

\* When a run says that the stack is ready, all that can be missing is the
\* second half of a task in which an earlier run failed for this cluster.
THEOREM TornIsMissing == Spec => []OnlyTornIsMissing
BY SetupInvariant, TornOnly, PTL

-----------------------------------------------------------------------------
(* What the best run of a cluster left behind.                             *)

BestLeft(c) ==
    best[c] # 0 => "cluster" \in has[c] /\ \A i \in 1..Steps(best[c]) : Left(c, Tasks[i])
Looked == status = "running" /\ ~named /\ pos > 4 => cluster = first
Idle ==
    status = "running" /\ ~named /\ first # 0 /\ mode <= best[first] =>
        sub = "check" \/ (sub = "wait" /\ Task = "ready")

LEMMA BestSplit == BestFits <=> (\A c \in Runs : BestLeft(c)) /\ Looked /\ Idle
BY DEF BestFits, BestLeft, Looked, Idle

\* The end of a run is the only step that raises it.
LEMMA BestMoves ==
    ASSUME TypeInv, [Next]_vars
    PROVE  best' = best \/ /\ status' = "ready" /\ cluster' = cluster /\ mode' = mode
                           /\ best' = [best EXCEPT ![cluster] = mode]
BY DEF Next, RunStep, NetworkStep, vars, Start, Check, Verify, Register, AddCluster, DepositFunds,
       SetDriver, GrantAdmin, Allow, UploadSideVm, Wait, Fail, Execute, Publish, GetsReady, Record

LEMMA StepBest ==
    ASSUME TypeInv, TypeInv', Passed, Passed', BestFits, [Next]_vars, NEW c \in Runs
    PROVE  BestLeft(c)'
<1> USE DEF TypeInv
<1>1. CASE best'[c] = best[c]
  <2>1. SUFFICES ASSUME best[c] # 0
                 PROVE  "cluster" \in has'[c]
                        /\ \A i \in 1..Steps(best[c]) : Left(c, Tasks[i])'
    BY <1>1 DEF BestLeft
  <2>2. "cluster" \in has'[c]
    BY <2>1, Grows DEF BestFits
  <2>3. \A i \in 1..Steps(best[c]) : Left(c, Tasks[i])
    BY <2>1 DEF BestFits
  <2>4. ASSUME NEW t, Left(c, t) PROVE Left(c, t)'
    BY <2>4, Grows DEF Left
  <2> QED BY <2>2, <2>3, <2>4
<1>2. CASE best'[c] # best[c]
  <2>1. /\ status' = "ready" /\ cluster' = cluster /\ mode' = mode /\ c = cluster
        /\ best'[c] = mode
    BY <1>2, BestMoves DEF TypeOK
  <2>2. \A i \in 1..Steps(mode') : Left(cluster, Tasks[i])'
    BY <2>1 DEF Passed
  <2>3. "cluster" \in has'[c]
    BY <2>1 DEF HasCluster, Runs
  <2> QED BY <2>1, <2>2, <2>3 DEF BestLeft, Left
<1> QED BY <1>1, <1>2

LEMMA StepLooked ==
    ASSUME TypeInv, Looked, [Next]_vars PROVE Looked'
<1> USE DEF TypeInv
<1>p. /\ mode \in 1..3 /\ Steps(mode) \in {7, 9, 11} /\ pos \in 1..11
      /\ pos \in 1..Steps(mode) /\ Placed(pos) /\ Task = Tasks[pos]
  BY TaskPlaced
<1>1. CASE Verify
  <2>1. cluster' = Found /\ UNCHANGED <<named, first>>
    BY <1>1 DEF Verify, chainVars
  <2> QED BY <2>1 DEF Looked, Found
<1>2. CASE AddCluster
  <2>1. /\ status = "running" /\ pos = 5 /\ sub = "first" /\ cluster' = run
        /\ (first' = run \/ (first # 0 /\ first' = first)) /\ named' = named
    BY <1>2, <1>p DEF AddCluster, At, Placed, runVars
  <2>2. cluster = 0
    BY <2>1 DEF HasCluster
  <2> QED BY <2>1, <2>2 DEF Looked
<1>3. ASSUME NEW m \in Minimal..WithLogger, NEW given \in BOOLEAN, Start(m, given)
      PROVE  Looked'
  BY <1>3 DEF Start, Looked
<1>4. CASE status = "running" /\ Finish /\ Task # "verify" /\ UNCHANGED <<cluster, first, named>>
  BY <1>4, <1>p, FinishMoves DEF Looked, Placed
<1>5. CASE UNCHANGED <<cluster, first, named, pos>> /\ (status' = "running" => status = "running")
  BY <1>5 DEF Looked
<1>6. CASE Check \/ DepositFunds \/ UploadSideVm \/ Wait
  <2>1. Task # "verify" /\ status = "running"
    BY <1>6 DEF Check, DepositFunds, UploadSideVm, Wait, At, Stands
  <2>2. UNCHANGED <<cluster, first, named>> /\ (Finish \/ UNCHANGED <<status, pos>>)
    BY <1>6 DEF Check, DepositFunds, UploadSideVm, Wait, chainVars
  <2> QED BY <2>1, <2>2, <1>4, <1>5
<1>7. CASE Register \/ SetDriver \/ GrantAdmin \/ Allow \/ Fail \/ NetworkStep \/ UNCHANGED vars
  <2>1. UNCHANGED <<cluster, first, named, pos>> /\ (status' = "running" => status = "running")
    BY <1>7 DEF Register, SetDriver, GrantAdmin, Allow, Fail, NetworkStep, Execute, Publish,
           GetsReady, vars, runVars, chainVars
  <2> QED BY <2>1, <1>5
<1> QED BY <1>1, <1>2, <1>3, <1>6, <1>7 DEF Next, RunStep

LEMMA StepIdle ==
    ASSUME TypeInv, TypeInv', BestFits, [Next]_vars PROVE Idle'
<1> USE DEF TypeInv
<1>p. /\ mode \in 1..3 /\ Steps(mode) \in {7, 9, 11} /\ pos \in 1..11
      /\ pos \in 1..Steps(mode) /\ Placed(pos) /\ Task = Tasks[pos]
  BY TaskPlaced
<1>i. Idle /\ Looked /\ \A c \in Runs : BestLeft(c)
  BY BestSplit
<1>1. CASE AddCluster
  <2>1. /\ status = "running" /\ sub = "first" /\ cluster' = run /\ run \in Runs /\ pos = 5
        /\ (first' = run \/ (first # 0 /\ first' = first)) /\ UNCHANGED <<named, mode, best>>
    BY <1>1, <1>p DEF AddCluster, At, Placed, runVars, Stands
  <2>2. "cluster" \notin has[run]
    BY <2>1 DEF HasCluster
  <2>3. best[run] = 0
    BY <1>i, <2>1, <2>2 DEF BestLeft
  <2>4. CASE first' = run
    BY <1>p, <2>1, <2>3, <2>4 DEF Idle
  <2>5. CASE first # 0 /\ first' = first
    BY <1>i, <2>1, <2>5 DEF Idle
  <2> QED BY <2>1, <2>4, <2>5
<1>2. ASSUME NEW m \in Minimal..WithLogger, NEW given \in BOOLEAN, Start(m, given)
      PROVE  Idle'
  BY <1>2 DEF Start, Idle
<1>3. CASE status = "running" /\ Finish
  BY <1>3, FinishMoves DEF Idle
<1>4. CASE Check
  <2>1. SUFFICES ASSUME status' = "running", ~named, first # 0, mode <= best'[first],
                        Task # "ready"
                 PROVE  Skippable(Task)
    BY <1>3, <1>4, <2>1 DEF Check, Idle, chainVars, Task
  <2>2. best' = best /\ Task # "verify" /\ status = "running"
    BY <1>4, <2>1 DEF Check, Record
  <2>3. first \in Runs /\ best[first] \in 0..3 /\ best[first] # 0
    BY <1>p, <2>1, <2>2, MaxRunsAssumption DEF TypeOK, WithLogger, Runs
  <2>4. pos \in 1..Steps(best[first])
    <3>1. best[first] \in Minimal..WithLogger /\ mode \in Minimal..WithLogger
      BY <2>3 DEF TypeOK, Minimal, WithLogger
    <3> QED BY <1>p, <2>1, <2>2, <3>1, StepsAre
  <2>5. Left(first, Tasks[pos])
    BY <1>i, <2>3, <2>4 DEF BestLeft
  <2>6. CASE pos > 4
    <3>1. cluster = first
      BY <1>i, <2>1, <2>2, <2>6 DEF Looked
    <3> QED BY <1>p, <2>1, <2>2, <2>5, <3>1, LeftIsSkipped
  <2>7. CASE pos <= 4
    <3>1. Task \in {"worker", "gatekeeper", "code"}
      BY <1>p, <2>2, <2>7 DEF Placed
    <3> QED BY <1>p, <2>5, <3>1 DEF Left, Skippable, Drivers
  <2> QED BY <1>p, <2>6, <2>7
<1>5. CASE Verify \/ DepositFunds \/ UploadSideVm
  BY <1>3, <1>5 DEF Verify, DepositFunds, UploadSideVm, At
<1>6. CASE Wait
  <2>1. CASE Task # "prepare"
    BY <1>3, <1>6, <2>1 DEF Wait
  <2>2. CASE Task = "prepare"
    <3>1. sub = "wait" /\ status = "running" /\ UNCHANGED <<status, named, first, mode>>
      BY <1>6, <2>2 DEF Wait, chainVars
    <3>2. best' = best
      BY <1>6, <3>1 DEF Wait, Record
    <3> QED BY <1>i, <2>2, <3>1, <3>2 DEF Idle
  <2> QED BY <2>1, <2>2
<1>7. CASE Register \/ SetDriver \/ GrantAdmin \/ Allow \/ Fail
  <2>1. /\ status' = "running" => status = "running" /\ sub \in {"first", "second"}
        /\ UNCHANGED <<named, first, mode, best>>
    BY <1>7 DEF Register, SetDriver, GrantAdmin, Allow, Fail, runVars, chainVars, At
  <2> QED BY <1>i, <2>1 DEF Idle
<1>8. CASE NetworkStep \/ UNCHANGED vars
  <2>1. UNCHANGED <<status, named, first, mode, best, sub, pos>> /\ Task' = Task
    BY <1>8 DEF NetworkStep, Execute, Publish, GetsReady, vars, runVars, Task
  <2> QED BY <1>i, <2>1 DEF Idle
<1> QED BY <1>1, <1>2, <1>4, <1>5, <1>6, <1>7, <1>8 DEF Next, RunStep

LEMMA BestInvariant == Spec => [](TypeInv /\ Passed /\ BestFits)
<1>1. Init => TypeInv /\ Passed /\ BestFits
  BY InitTypes, InitPassed DEF Init, BestFits
<1>2. TypeInv /\ Passed /\ BestFits /\ [Next]_vars => (TypeInv /\ Passed /\ BestFits)'
  <2>1. SUFFICES ASSUME TypeInv, Passed, BestFits, [Next]_vars
                 PROVE  TypeInv' /\ Passed' /\ BestFits'
    OBVIOUS
  <2>2. TypeInv' /\ Passed'
    BY <2>1, StepTypes, StepPassed
  <2>3. \A c \in Runs : BestLeft(c)'
    BY <2>1, <2>2, StepBest
  <2>4. Looked' /\ Idle'
    BY <2>1, <2>2, BestSplit, StepLooked, StepIdle
  <2> QED BY <2>2, <2>3, <2>4 DEF BestFits, BestLeft, Looked, Idle
<1> QED BY <1>1, <1>2, PTL DEF Spec

\* Setting up again what is set up does nothing: no task of a run in the same
\* mode or a lower one goes past its skip, whatever happened in between.
THEOREM RerunIdle == Spec => []RerunIsIdle
<1>1. BestFits => RerunIsIdle
  BY DEF BestFits, RerunIsIdle
<1> QED BY <1>1, BestInvariant, PTL

\* A second cluster is made only where the id of one was given.
THEOREM ClustersReused == Spec => ClustersAreReused
<1>1. TypeInv /\ BestFits /\ [Next]_vars =>
        [\A c \in Runs : "cluster" \in has'[c] \ has[c] =>
            named \/ \A k \in Runs : "cluster" \notin has[k]]_vars
  <2>1. SUFFICES ASSUME TypeInv, BestFits, [Next]_vars, ~named,
                        NEW c \in Runs, "cluster" \in has'[c] \ has[c]
                 PROVE  \A k \in Runs : "cluster" \notin has[k]
    OBVIOUS
  <2>2. AddCluster
    <3>1. CASE DepositFunds \/ UploadSideVm
      <4>1. PICK p \in {"funds", "resource"} : has' = [has EXCEPT ![cluster] = @ \cup {p}]
        BY <3>1 DEF DepositFunds, UploadSideVm
      <4> QED BY <2>1, <4>1 DEF TypeInv, TypeOK
    <3>2. CASE Execute
      <4>1. has' = has \/ \E k \in Runs : has' = [has EXCEPT ![k] = @ \cup {"allow"}]
        BY <2>1, <3>2, Executed DEF TypeInv
      <4>2. ASSUME NEW k \in Runs, has' = [has EXCEPT ![k] = @ \cup {"allow"}]
            PROVE  "cluster" \notin has'[c]
        BY <2>1, <4>2 DEF TypeInv, TypeOK
      <4> QED BY <2>1, <4>1, <4>2
    <3>3. ASSUME NEW k \in Runs, GetsReady(k) PROVE FALSE
      BY <2>1, <3>3 DEF GetsReady, TypeInv, TypeOK
    <3>4. has' = has \/ DepositFunds \/ UploadSideVm \/ AddCluster \/ Execute
          \/ \E k \in Runs : GetsReady(k)
      BY <2>1 DEF Next, RunStep, NetworkStep, vars, chainVars, Start, Check, Verify, Register,
             SetDriver, GrantAdmin, Allow, Wait, Fail, Publish
    <3> QED BY <2>1, <3>1, <3>2, <3>3, <3>4
  <2>3. status = "running" /\ pos = 5 /\ sub = "first"
    BY <2>1, <2>2, TaskPlaced DEF AddCluster, At, TypeInv, Placed
  <2>4. first = 0
    BY <2>1, <2>3 DEF TypeInv, HasCluster, BestFits
  <2> QED BY <2>1, <2>4 DEF TypeInv, HasCluster
<1> QED BY <1>1, BestInvariant, PTL DEF Spec, ClustersAreReused

-----------------------------------------------------------------------------
(* The order of the task list.                                             *)

\* The parts of NeedsFit.
ReadyFits(c) == "ready" \in has[c] => "masterKey" \in done
SetFits(c, d, i) ==
    InQueue(SetCall(c, d, i)) =>
        /\ "ready" \in has[c] /\ "endpoint" \in done
        /\ d # "deposit" => driver[c]["deposit"] # 0
        /\ d = "logger" => driver[c]["sidevm"] # 0 /\ "allow" \in has[c]
AllowFits(c) == InQueue(AllowCall(c)) => driver[c]["sidevm"] # 0
GrantFits ==
    status = "running" /\ Task \in Drivers /\ sub = "second" =>
        driver[cluster][Task] # 0 \/ InQueue(SetCall(cluster, Task, Instance(Task)))

LEMMA NeedsSplit ==
    NeedsFit <=> /\ \A c \in Runs : ReadyFits(c) /\ AllowFits(c)
                 /\ \A c \in Runs, d \in Drivers, i \in Runs : SetFits(c, d, i)
                 /\ GrantFits
BY DEF NeedsFit, ReadyFits, SetFits, AllowFits, GrantFits

\* What is there when a task begins.
LEMMA PassedAre ==
    ASSUME TypeInv, Passed, status = "running"
    PROVE  /\ pos > 1 => "worker" \in done
           /\ pos > 2 => "gatekeeper" \in done
           /\ pos > 3 => "code" \in done
           /\ pos > 6 => "ready" \in has[cluster]
           /\ pos > 7 => "endpoint" \in done
           /\ pos > 8 => driver[cluster]["deposit"] # 0
           /\ pos > 9 => driver[cluster]["sidevm"] # 0
           /\ pos > 10 => "allow" \in has[cluster]
<1>1. pos \in 1..11
  BY TaskPlaced DEF TypeInv
<1>2. \A i \in 1..11 : i < pos => Left(cluster, Tasks[i])
  BY <1>1 DEF Passed
<1>3. /\ pos > 1 => Left(cluster, "worker")
      /\ pos > 2 => Left(cluster, "gatekeeper")
      /\ pos > 3 => Left(cluster, "code")
      /\ pos > 6 => Left(cluster, "ready")
      /\ pos > 7 => Left(cluster, "endpoint")
      /\ pos > 8 => Left(cluster, "deposit")
      /\ pos > 9 => Left(cluster, "sidevm")
      /\ pos > 10 => Left(cluster, "prepare")
  BY <1>1, <1>2 DEF Tasks
<1>4. /\ Left(cluster, "worker") => "worker" \in done
      /\ Left(cluster, "gatekeeper") => "gatekeeper" \in done
      /\ Left(cluster, "code") => "code" \in done
      /\ Left(cluster, "ready") => "ready" \in has[cluster]
  BY DEF Left, Drivers
<1>5. /\ Left(cluster, "endpoint") => "endpoint" \in done
      /\ Left(cluster, "deposit") => driver[cluster]["deposit"] # 0
      /\ Left(cluster, "sidevm") => driver[cluster]["sidevm"] # 0
      /\ Left(cluster, "prepare") => "allow" \in has[cluster]
  BY DEF Left, Drivers
<1> QED BY <1>3, <1>4, <1>5

LEMMA ReadyStays ==
    ASSUME TypeInv, [Next]_vars, NEW c \in Runs, ReadyFits(c) PROVE ReadyFits(c)'
<1> USE DEF TypeInv
<1>1. ASSUME "ready" \in has'[c], "ready" \notin has[c] PROVE "masterKey" \in done
  <2>1. CASE DepositFunds \/ UploadSideVm \/ AddCluster
    <3>1. \/ \E p \in {"funds", "resource"} : has' = [has EXCEPT ![cluster] = @ \cup {p}]
          \/ has' = [has EXCEPT ![run] = @ \cup {"cluster"}]
      BY <2>1 DEF DepositFunds, UploadSideVm, AddCluster
    <3>2. ASSUME NEW p \in {"funds", "resource"}, has' = [has EXCEPT ![cluster] = @ \cup {p}]
          PROVE  FALSE
      BY <1>1, <3>2 DEF TypeOK
    <3>3. ASSUME has' = [has EXCEPT ![run] = @ \cup {"cluster"}] PROVE FALSE
      BY <1>1, <3>3 DEF TypeOK
    <3> QED BY <3>1, <3>2, <3>3
  <2>2. CASE Execute
    <3>1. has' = has \/ \E k \in Runs : has' = [has EXCEPT ![k] = @ \cup {"allow"}]
      BY <2>2, Executed
    <3>2. ASSUME NEW k \in Runs, has' = [has EXCEPT ![k] = @ \cup {"allow"}] PROVE FALSE
      BY <1>1, <3>2 DEF TypeOK
    <3> QED BY <1>1, <3>1, <3>2
  <2>3. ASSUME NEW k \in Runs, GetsReady(k) PROVE "masterKey" \in done
    BY <2>3 DEF GetsReady
  <2>4. has' = has \/ DepositFunds \/ UploadSideVm \/ AddCluster \/ Execute
        \/ \E k \in Runs : GetsReady(k)
    BY DEF Next, RunStep, NetworkStep, vars, chainVars, Start, Check, Verify, Register,
           SetDriver, GrantAdmin, Allow, Wait, Fail, Publish
  <2> QED BY <1>1, <2>1, <2>2, <2>3, <2>4
<1> QED BY <1>1, Grows DEF ReadyFits

LEMMA SetStays ==
    ASSUME TypeInv, Passed, [Next]_vars, NEW c \in Runs, NEW d \in Drivers, NEW i \in Runs,
           SetFits(c, d, i)
    PROVE  SetFits(c, d, i)'
<1> USE DEF TypeInv
<1>1. CASE InQueue(SetCall(c, d, i))
  BY <1>1, Grows DEF SetFits, Drivers
<1>2. CASE SetDriver /\ Task = d /\ cluster = c
  <2>1. Placed(pos) /\ pos \in 1..11 /\ Tasks[pos] = d /\ status = "running"
    BY <1>2, TaskPlaced DEF SetDriver, At
  <2>2. pos > 7 /\ (d # "deposit" => pos > 8) /\ (d = "logger" => pos > 10)
    BY <2>1 DEF Placed, Drivers
  <2>3. /\ "ready" \in has[c] /\ "endpoint" \in done
        /\ d # "deposit" => driver[c]["deposit"] # 0
        /\ d = "logger" => driver[c]["sidevm"] # 0 /\ "allow" \in has[c]
    BY <1>2, <2>1, <2>2, PassedAre
  <2> QED BY <2>3, Grows DEF SetFits, Drivers
<1> QED BY <1>1, <1>2, CallsOnlyFrom DEF SetFits

LEMMA AllowStays ==
    ASSUME TypeInv, Passed, [Next]_vars, NEW c \in Runs, AllowFits(c) PROVE AllowFits(c)'
<1> USE DEF TypeInv
<1>1. CASE InQueue(AllowCall(c))
  BY <1>1, Grows DEF AllowFits, Drivers
<1>2. CASE Allow /\ cluster = c
  <2>1. pos = 10 /\ status = "running"
    BY <1>2, TaskPlaced DEF Allow, At, Placed
  <2>2. driver[c]["sidevm"] # 0
    BY <1>2, <2>1, PassedAre
  <2> QED BY <2>2, Grows DEF AllowFits, Drivers
<1> QED BY <1>1, <1>2, CallsOnlyFrom DEF AllowFits

LEMMA GrantStays ==
    ASSUME TypeInv, GrantFits, [Next]_vars PROVE GrantFits'
<1> USE DEF TypeInv
<1>1. CASE status = "running" /\ Task \in Drivers /\ sub = "second"
  <2>1. CASE GrantAdmin
    BY <2>1 DEF GrantAdmin, GrantFits
  <2>2. CASE Fail
    BY <2>2 DEF Fail, GrantFits
  <2>3. CASE ~GrantAdmin /\ ~Fail
    <3>1. /\ UNCHANGED <<status, sub, pos, cluster, run>> /\ Task' = Task
          /\ Instance(Task)' = Instance(Task)
      BY <1>1, <2>3 DEF Instance, Next, RunStep, NetworkStep, vars, runVars, chainVars, Start, Check, Verify,
             Register, AddCluster, DepositFunds, SetDriver, Allow, UploadSideVm, Wait, Execute,
             Publish, GetsReady, At, Task, Drivers
    <3>2. cluster \in Runs /\ Instance(Task) \in Runs
      <4>1. pos > 5
        BY <1>1, TaskPlaced DEF Placed
      <4> QED BY <1>1, <4>1, HasItsCluster DEF Stands, Instance
    <3>3. CASE driver[cluster][Task] # 0
      BY <1>1, <3>1, <3>2, <3>3, Grows DEF GrantFits
    <3>4. CASE InQueue(SetCall(cluster, Task, Instance(Task))) /\ ~Execute
      <4>1. UNCHANGED mq \/ \E x : Call(x)
        BY <3>4 DEF Next, RunStep, NetworkStep, vars, chainVars, Start, Check, Verify, Register,
               AddCluster, DepositFunds, SetDriver, GrantAdmin, Allow, UploadSideVm, Wait, Fail,
               Publish, GetsReady
      <4>2. \A y : InQueue(y) => InQueue(y)'
        BY <4>1, NewCall, SameQueue
      <4> QED BY <3>1, <3>4, <4>2 DEF GrantFits, SetCall, InQueue
    <3>5. CASE InQueue(SetCall(cluster, Task, Instance(Task))) /\ Execute
      <4>1. PICK c \in Runs, d \in Drivers, i \in Runs : c = cluster /\ d = Task /\ i = Instance(Task)
        BY <1>1, <3>2
      <4>2. CASE SetCall(c, d, i) # Head(mq)
        <5>1. InQueue(SetCall(c, d, i))'
          BY <3>5, <4>1, <4>2, Executed
        <5> QED BY <3>1, <4>1, <5>1 DEF GrantFits
      <4>3. CASE SetCall(c, d, i) = Head(mq)
        <5>1. driver' = [driver EXCEPT ![c][d] = i]
          BY <3>5, <4>3, Executed, CallsDiffer
        <5>2. driver'[c][d] # 0
          BY <5>1 DEF TypeOK, Runs
        <5> QED BY <3>1, <4>1, <5>2 DEF GrantFits
      <4> QED BY <4>2, <4>3
    <3> QED BY <1>1, <3>3, <3>4, <3>5 DEF GrantFits
  <2> QED BY <2>1, <2>2, <2>3
<1>2. CASE ~(status = "running" /\ Task \in Drivers /\ sub = "second")
  <2>1. CASE SetDriver
    <3>1. PICK c, d, i : c = cluster /\ d = Task /\ i = Instance(Task)
      OBVIOUS
    <3>2. InQueue(SetCall(c, d, i))'
      BY <2>1, <3>1, NewCall DEF SetDriver, SetCall
    <3>3. UNCHANGED <<cluster, run>> /\ Task' = Task /\ Instance(Task)' = Instance(Task)
      BY <2>1 DEF SetDriver, runVars, Task, Instance
    <3> QED BY <3>1, <3>2, <3>3 DEF GrantFits
  <2>2. CASE Wait
    BY <1>2, <2>2, FinishMoves DEF Wait, GrantFits, Task, Drivers
  <2>3. CASE ~SetDriver /\ ~Wait
    <3>1. \/ sub' # "second" \/ status' # "running" \/ Task' = "cluster"
          \/ UNCHANGED <<status, sub, pos>> /\ Task' = Task
      BY <1>2, <2>3 DEF Next, RunStep, NetworkStep, vars, runVars, chainVars, Start, Check, Verify,
             Register, AddCluster, DepositFunds, GrantAdmin, Allow, UploadSideVm, Fail, Execute,
             Publish, GetsReady, At, Task, Drivers, Finish
    <3> QED BY <1>2, <3>1 DEF GrantFits, Drivers
  <2> QED BY <2>1, <2>2, <2>3
<1> QED BY <1>1, <1>2

LEMMA StepNeeds == TypeInv /\ Passed /\ NeedsFit /\ [Next]_vars => NeedsFit'
<1> SUFFICES ASSUME TypeInv, Passed, NeedsFit, [Next]_vars PROVE NeedsFit'
  OBVIOUS
<1>1. \A c \in Runs : ReadyFits(c)' /\ AllowFits(c)'
  BY NeedsSplit, ReadyStays, AllowStays
<1>2. \A c \in Runs, d \in Drivers, i \in Runs : SetFits(c, d, i)'
  BY NeedsSplit, SetStays
<1>3. GrantFits'
  BY NeedsSplit, GrantStays
<1> QED BY <1>1, <1>2, <1>3 DEF NeedsFit, ReadyFits, SetFits, AllowFits, GrantFits

\* The driver is there, or the call that sets it comes before the k-th one.
SetBefore(c, d, k) ==
    driver[c][d] # 0 \/ \E j \in 1..(k - 1) : \E i \in Runs : mq[j] = SetCall(c, d, i)

LEMMA FollowIs ==
    GrantsFollow <=> \A k \in DOMAIN mq : mq[k].call = "grantAdmin" =>
                        SetBefore(mq[k].of, mq[k].name, k)
BY DEF GrantsFollow, SetBefore

LEMMA StepFollow == TypeInv /\ NeedsFit /\ GrantsFollow /\ [Next]_vars => GrantsFollow'
<1> SUFFICES ASSUME TypeInv, NeedsFit, GrantsFollow, [Next]_vars PROVE GrantsFollow'
  OBVIOUS
<1> USE DEF TypeInv
<1>t. /\ Len(mq) \in Nat /\ DOMAIN mq = 1..Len(mq)
      /\ \A k \in 1..Len(mq) : mq[k] \in Calls
  BY DEF TypeOK
<1>g. ASSUME NEW k \in 1..Len(mq), mq[k].call = "grantAdmin"
      PROVE  mq[k].of \in Runs /\ mq[k].name \in Drivers /\ SetBefore(mq[k].of, mq[k].name, k)
  BY <1>g, <1>t, FollowIs DEF Calls
<1>1. ASSUME NEW x, Call(x),
             x.call = "grantAdmin" => \E c \in Runs, d \in Drivers, i \in Runs :
                 x = Grant(c, d, i) /\ (driver[c][d] # 0 \/ InQueue(SetCall(c, d, i)))
      PROVE  GrantsFollow'
  <2>1. /\ DOMAIN mq' = 1..(Len(mq) + 1) /\ mq'[Len(mq) + 1] = x
        /\ \A k \in 1..Len(mq) : mq'[k] = mq[k]
    BY <1>1, <1>t DEF Call, TypeOK
  <2>2. ASSUME NEW c \in Runs, NEW d \in Drivers, NEW k \in 1..(Len(mq) + 1), SetBefore(c, d, k)
        PROVE  SetBefore(c, d, k)'
    <3>1. CASE driver[c][d] # 0
      BY <3>1, Grows DEF SetBefore
    <3>2. CASE driver[c][d] = 0
      <4>1. PICK j \in 1..(k - 1), i \in Runs : mq[j] = SetCall(c, d, i)
        BY <2>2, <3>2 DEF SetBefore
      <4>2. j \in 1..Len(mq) /\ mq'[j] = SetCall(c, d, i)
        BY <1>t, <2>1, <4>1
      <4> QED BY <4>1, <4>2 DEF SetBefore
    <3> QED BY <3>1, <3>2
  <2>3. ASSUME NEW k \in DOMAIN mq', mq'[k].call = "grantAdmin"
        PROVE  SetBefore(mq[k].of, mq[k].name, k)'
    <3>1. CASE k \in 1..Len(mq)
      <4>1. PICK c \in Runs, d \in Drivers : c = mq[k].of /\ d = mq[k].name
        BY <1>g, <2>1, <2>3, <3>1
      <4>2. SetBefore(c, d, k)'
        BY <1>g, <1>t, <2>1, <2>2, <2>3, <3>1, <4>1
      <4> QED BY <2>1, <3>1, <4>1, <4>2
    <3>2. CASE k = Len(mq) + 1
      <4>1. PICK c \in Runs, d \in Drivers, i \in Runs :
                x = Grant(c, d, i) /\ (driver[c][d] # 0 \/ InQueue(SetCall(c, d, i)))
        BY <1>1, <2>1, <2>3, <3>2
      <4>2. SetBefore(c, d, k)
        BY <1>t, <3>2, <4>1 DEF SetBefore, InQueue
      <4>3. x.of = c /\ x.name = d
        BY <4>1 DEF Grant
      <4>4. SetBefore(c, d, k)'
        BY <1>t, <2>2, <3>2, <4>2
      <4> QED BY <2>1, <3>2, <4>3, <4>4
    <3> QED BY <1>t, <2>1, <3>1, <3>2
  <2> QED BY <2>3 DEF GrantsFollow, SetBefore
<1>2. CASE GrantAdmin
  <2>1. PICK c, d, i : c = cluster /\ d = Task /\ i = Instance(Task)
    OBVIOUS
  <2>2. status = "running" /\ d \in Drivers /\ sub = "second" /\ Call(Grant(c, d, i))
    BY <1>2, <2>1 DEF GrantAdmin, At
  <2>3. driver[c][d] # 0 \/ InQueue(SetCall(c, d, i))
    BY <2>1, <2>2 DEF NeedsFit
  <2>4. c \in Runs /\ i \in Runs
    <3>1. pos > 5
      BY <2>1, <2>2, TaskPlaced DEF Placed
    <3> QED BY <2>1, <2>2, <3>1, HasItsCluster DEF Stands, Instance
  <2> QED BY <1>1, <2>2, <2>3, <2>4
<1>3. CASE SetDriver \/ Allow
  <2>1. PICK x : Call(x) /\ x.call # "grantAdmin"
    BY <1>3 DEF SetDriver, Allow
  <2> QED BY <1>1, <2>1
<1>4. CASE Execute
  <2>1. /\ DOMAIN mq' = 1..(Len(mq) - 1) /\ Len(mq) \in Nat \ {0} /\ Head(mq) = mq[1]
        /\ \A k \in 1..(Len(mq) - 1) : mq'[k] = mq[k + 1]
    BY <1>4, <1>t DEF Execute, TypeOK
  <2>2. ASSUME NEW c \in Runs, NEW d \in Drivers, NEW k \in 1..(Len(mq) - 1),
               SetBefore(c, d, k + 1)
        PROVE  SetBefore(c, d, k)'
    <3>1. CASE driver[c][d] # 0
      BY <3>1, Grows DEF SetBefore
    <3>2. CASE driver[c][d] = 0
      <4>1. PICK j \in 1..k, i \in Runs : mq[j] = SetCall(c, d, i)
        BY <2>2, <3>2 DEF SetBefore
      <4>2. CASE j = 1
        <5>1. driver' = [driver EXCEPT ![c][d] = i]
          BY <1>4, <2>1, <4>1, <4>2, Executed, CallsDiffer
        <5>2. i # 0
          BY DEF Runs
        <5>3. driver'[c][d] # 0
          BY <5>1, <5>2 DEF TypeOK
        <5> QED BY <5>3 DEF SetBefore
      <4>3. CASE j # 1
        <5>1. j - 1 \in 1..(k - 1) /\ mq'[j - 1] = SetCall(c, d, i)
          BY <2>1, <4>1, <4>3
        <5> QED BY <5>1 DEF SetBefore
      <4> QED BY <4>2, <4>3
    <3> QED BY <3>1, <3>2
  <2>3. ASSUME NEW k \in DOMAIN mq', mq'[k].call = "grantAdmin"
        PROVE  SetBefore(mq[k].of, mq[k].name, k)'
    <3>1. k \in 1..(Len(mq) - 1) /\ k + 1 \in 1..Len(mq) /\ mq'[k] = mq[k + 1]
      BY <2>1
    <3>2. PICK c \in Runs, d \in Drivers : c = mq[k + 1].of /\ d = mq[k + 1].name
      BY <1>g, <2>3, <3>1
    <3>3. SetBefore(c, d, k)'
      BY <1>g, <2>2, <2>3, <3>1, <3>2
    <3> QED BY <3>1, <3>2, <3>3
  <2> QED BY <2>3 DEF GrantsFollow, SetBefore
<1>5. CASE ~GrantAdmin /\ ~SetDriver /\ ~Allow /\ ~Execute
  <2>1. UNCHANGED <<mq, driver>>
    BY <1>5 DEF Next, RunStep, NetworkStep, vars, chainVars, Start, Check, Verify, Register,
           AddCluster, DepositFunds, UploadSideVm, Wait, Fail, Publish, GetsReady
  <2> QED BY <2>1 DEF GrantsFollow
<1> QED BY <1>2, <1>3, <1>4, <1>5

LEMMA OrderInvariant == Spec => [](TypeInv /\ Passed /\ NeedsFit /\ GrantsFollow)
<1>1. Init => TypeInv /\ Passed /\ NeedsFit /\ GrantsFollow
  BY InitTypes, InitPassed DEF Init, NeedsFit, GrantsFollow, InQueue
<1>2. TypeInv /\ Passed /\ NeedsFit /\ GrantsFollow /\ [Next]_vars =>
          (TypeInv /\ Passed /\ NeedsFit /\ GrantsFollow)'
  BY StepTypes, StepPassed, StepNeeds, StepFollow
<1> QED BY <1>1, <1>2, PTL DEF Spec

-----------------------------------------------------------------------------
(* The refinement: each step provides one piece that may come next.        *)

\* The parts of Provided.
NetworkProvided == done \X {0}
ClustersProvided == UNION {has[c] \X {c} : c \in Runs}
DriversProvided == {p \in Drivers \X Runs : driver[p[2]][p[1]] # 0}
AdminsProvided == {<<Admin[a[2]], a[1]>> : a \in admins}

LEMMA ProvidedParts ==
    /\ Provided = NetworkProvided \cup ClustersProvided \cup DriversProvided \cup AdminsProvided
    /\ Provided' = NetworkProvided' \cup ClustersProvided' \cup DriversProvided'
                   \cup AdminsProvided'
<1>1. Provided = NetworkProvided \cup ClustersProvided \cup DriversProvided \cup AdminsProvided
  BY DEF Provided, NetworkProvided, ClustersProvided, DriversProvided, AdminsProvided
<1>2. Provided' = NetworkProvided' \cup ClustersProvided' \cup DriversProvided'
                  \cup AdminsProvided'
  BY DEF Provided, NetworkProvided, ClustersProvided, DriversProvided, AdminsProvided
<1> QED BY <1>1, <1>2

LEMMA SameParts ==
    /\ UNCHANGED done => UNCHANGED NetworkProvided
    /\ UNCHANGED has => UNCHANGED ClustersProvided
    /\ UNCHANGED driver => UNCHANGED DriversProvided
    /\ UNCHANGED admins => UNCHANGED AdminsProvided
BY DEF NetworkProvided, ClustersProvided, DriversProvided, AdminsProvided

\* A piece of the network, or of the cluster c.
Present(q, c) == <<q, IF q \in NetworkPieces THEN 0 ELSE c>> \in Provided

LEMMA PresentIf ==
    ASSUME TypeOK, NEW c
    PROVE  /\ \A q \in done : Present(q, c)
           /\ c \in Runs => \A q \in has[c] : Present(q, c)
           /\ c \in Runs => \A d \in Drivers : driver[c][d] # 0 => Present(d, c)
<1>1. \A q \in done : Present(q, c)
  <2>1. ASSUME NEW q \in done PROVE q \in NetworkPieces /\ <<q, 0>> \in NetworkProvided
    BY DEF TypeOK, NetworkProvided
  <2> QED BY <2>1, ProvidedParts DEF Present
<1>2. ASSUME c \in Runs, NEW q \in has[c] PROVE Present(q, c)
  <2>1. q \notin NetworkPieces
    BY <1>2 DEF TypeOK, ClusterPieces, NetworkPieces
  <2>2. <<q, c>> \in has[c] \X {c}
    BY <1>2
  <2>3. <<q, c>> \in ClustersProvided
    BY <1>2, <2>2 DEF ClustersProvided
  <2> QED BY <2>1, <2>3, ProvidedParts DEF Present
<1>3. ASSUME c \in Runs, NEW d \in Drivers, driver[c][d] # 0 PROVE Present(d, c)
  <2>1. d \notin NetworkPieces
    BY DEF Drivers, NetworkPieces
  <2>2. <<d, c>> \in DriversProvided
    BY <1>3 DEF DriversProvided
  <2>3. <<d, c>> \in Provided
    BY <2>2, ProvidedParts
  <2> QED BY <2>1, <2>3 DEF Present
<1> QED BY <1>1, <1>2, <1>3

LEMMA Ordered ==
    ASSUME NEW p, NEW c, <<p, c>> \in Pieces, \A q \in NeededFor(p) : Present(q, c),
           Provided' = Provided \cup {<<p, c>>}
    PROVE  [Order!Next]_Provided
<1>1. Needs[<<p, c>>] = {<<q, IF q \in NetworkPieces THEN 0 ELSE c>> : q \in NeededFor(p)}
  BY DEF Needs
<1>2. Needs[<<p, c>>] \subseteq Provided
  BY <1>1 DEF Present
<1>3. CASE <<p, c>> \in Provided
  BY <1>3
<1>4. CASE <<p, c>> \notin Provided
  <2>1. Order!Provide(<<p, c>>)
    BY <1>2, <1>4 DEF Order!Provide
  <2> QED BY <2>1 DEF Order!Next
<1> QED BY <1>3, <1>4

\* What Provided gains from each kind of change.
LEMMA GainsDone ==
    ASSUME NEW p, done' = done \cup {p}, UNCHANGED <<has, driver, admins>>
    PROVE  Provided' = Provided \cup {<<p, 0>>}
<1>1. NetworkProvided' = NetworkProvided \cup {<<p, 0>>}
  BY DEF NetworkProvided
<1> QED BY <1>1, SameParts, ProvidedParts

LEMMA GainsHas ==
    ASSUME TypeOK, NEW p, NEW c \in Runs, has' = [has EXCEPT ![c] = @ \cup {p}],
           UNCHANGED <<done, driver, admins>>
    PROVE  Provided' = Provided \cup {<<p, c>>}
<1>1. \A k \in Runs : has'[k] = IF k = c THEN has[k] \cup {p} ELSE has[k]
  BY DEF TypeOK
<1>2. ASSUME NEW x PROVE x \in ClustersProvided' <=> x \in ClustersProvided \/ x = <<p, c>>
  <2>1. x \in ClustersProvided' <=> \E k \in Runs : x \in has'[k] \X {k}
    BY DEF ClustersProvided
  <2>2. x \in ClustersProvided <=> \E k \in Runs : x \in has[k] \X {k}
    BY DEF ClustersProvided
  <2> QED BY <1>1, <2>1, <2>2
<1> QED BY <1>2, SameParts, ProvidedParts

LEMMA GainsDriver ==
    ASSUME TypeOK, NEW d \in Drivers, NEW c \in Runs, NEW i \in Runs,
           driver' = [driver EXCEPT ![c][d] = i], UNCHANGED <<done, has, admins>>
    PROVE  Provided' = Provided \cup {<<d, c>>}
<1>1. \A k \in Runs, e \in Drivers :
          driver'[k][e] = IF k = c /\ e = d THEN i ELSE driver[k][e]
  BY DEF TypeOK
<1>2. i # 0
  BY DEF Runs
<1>3. DriversProvided' = DriversProvided \cup {<<d, c>>}
  BY <1>1, <1>2 DEF DriversProvided
<1> QED BY <1>3, SameParts, ProvidedParts

LEMMA GainsAdmin ==
    ASSUME NEW c, NEW d, NEW i, admins' = admins \cup {<<c, d, i>>},
           UNCHANGED <<done, has, driver>>
    PROVE  Provided' = Provided \cup {<<Admin[d], c>>}
<1>1. ASSUME NEW x PROVE x \in AdminsProvided' <=> x \in AdminsProvided \/ x = <<Admin[d], c>>
  <2>1. x \in AdminsProvided' <=> \E a \in admins' : x = <<Admin[a[2]], a[1]>>
    BY DEF AdminsProvided
  <2>2. x \in AdminsProvided <=> \E a \in admins : x = <<Admin[a[2]], a[1]>>
    BY DEF AdminsProvided
  <2>3. <<c, d, i>>[2] = d /\ <<c, d, i>>[1] = c
    OBVIOUS
  <2> QED BY <2>1, <2>2, <2>3
<1> QED BY <1>1, SameParts, ProvidedParts

LEMMA Needed ==
    /\ NeededFor("worker") = {} /\ NeededFor("gatekeeper") = {"worker"}
    /\ NeededFor("masterKey") = {"gatekeeper"} /\ NeededFor("code") = {"gatekeeper"}
    /\ NeededFor("endpoint") = {"worker", "code", "masterKey"}
    /\ NeededFor("cluster") = {"code"} /\ NeededFor("funds") = {"cluster"}
    /\ NeededFor("ready") = {"cluster", "masterKey"}
    /\ NeededFor("allow") = {"sidevm"} /\ NeededFor("resource") = {"allow"}
    /\ NeededFor("deposit") = {"ready", "endpoint"}
    /\ NeededFor("sidevm") = {"ready", "endpoint", "deposit"}
    /\ NeededFor("logger") = {"sidevm", "allow"}
    /\ \A d \in Drivers : NeededFor(Admin[d]) = {d}
BY DEF NeededFor, Admin, Drivers

LEMMA ArePieces ==
    /\ \A p \in NetworkPieces : <<p, 0>> \in Pieces
    /\ \A c \in Runs, p \in ClusterPieces \cup Drivers : <<p, c>> \in Pieces
    /\ \A c \in Runs, d \in Drivers : <<Admin[d], c>> \in Pieces
BY DEF Pieces, AdminPieces

LEMMA StepOrder ==
    TypeInv /\ Passed /\ NeedsFit /\ GrantsFollow /\ [Next]_vars => [Order!Next]_Provided
<1> SUFFICES ASSUME TypeInv, Passed, NeedsFit, GrantsFollow, [Next]_vars
             PROVE  [Order!Next]_Provided
  OBVIOUS
<1> USE DEF TypeInv
<1>p. Placed(pos) /\ Task = Tasks[pos] /\ pos \in 1..11
  BY TaskPlaced
<1>0. ASSUME UNCHANGED <<done, has, driver, admins>> PROVE [Order!Next]_Provided
  BY <1>0, SameParts, ProvidedParts
<1>1. CASE Register
  <2>1. Task \in {"worker", "gatekeeper", "code", "endpoint"} /\ status = "running"
        /\ UNCHANGED <<has, driver, admins>>
    BY <1>1 DEF Register, At
  <2>2. CASE Task = "endpoint"
    BY <1>0, <1>1, <2>1, <2>2 DEF Register
  <2>3. CASE Task # "endpoint"
    <3>1. PICK t \in {"worker", "gatekeeper", "code"} : t = Task
      BY <2>1, <2>3
    <3>2. done' = done \cup {t}
      BY <1>1, <2>3, <3>1 DEF Register
    <3>3. \A q \in NeededFor(t) : Present(q, 0)
      <4>1. \A q \in NeededFor(t) : q \in done
        BY <1>p, <2>1, <3>1, PassedAre, Needed DEF Placed
      <4> QED BY <4>1, PresentIf
    <3>4. <<t, 0>> \in Pieces
      BY ArePieces DEF NetworkPieces
    <3>5. Provided' = Provided \cup {<<t, 0>>}
      BY <2>1, <3>2, GainsDone
    <3> QED BY <3>3, <3>4, <3>5, Ordered
  <2> QED BY <2>2, <2>3
<1>2. ASSUME NEW p \in {"masterKey", "endpoint"}, Publish(p) PROVE [Order!Next]_Provided
  <2>1. Provided' = Provided \cup {<<p, 0>>}
    BY <1>2, GainsDone DEF Publish
  <2>2. \A q \in NeededFor(p) : q \in done
    <3>1. CASE p = "masterKey"
      BY <1>2, <3>1, Needed DEF Publish
    <3>2. CASE p = "endpoint"
      <4>1. status = "running" /\ pos = 7
        BY <1>2, <3>2, <1>p DEF Publish, At, Placed
      <4>2. "worker" \in done /\ "code" \in done /\ "ready" \in has[cluster] /\ cluster \in Runs
        BY <4>1, PassedAre, HasItsCluster
      <4>3. "masterKey" \in done
        BY <4>2 DEF NeedsFit
      <4> QED BY <3>2, <4>2, <4>3, Needed
    <3> QED BY <3>1, <3>2
  <2>3. \A q \in NeededFor(p) : Present(q, 0)
    BY <2>2, PresentIf
  <2>4. <<p, 0>> \in Pieces
    BY ArePieces DEF NetworkPieces
  <2> QED BY <2>1, <2>3, <2>4, Ordered
<1>3. CASE AddCluster
  <2>1. PICK c \in Runs : c = run
    BY <1>3 DEF AddCluster, At, Stands
  <2>2. status = "running" /\ pos = 5
    BY <1>3, <1>p DEF AddCluster, At, Placed
  <2>3. Provided' = Provided \cup {<<"cluster", c>>}
    BY <1>3, <2>1, GainsHas DEF AddCluster
  <2>4. \A q \in NeededFor("cluster") : Present(q, c)
    BY <2>2, PassedAre, Needed, PresentIf
  <2>5. <<"cluster", c>> \in Pieces
    BY ArePieces DEF ClusterPieces
  <2> QED BY <2>3, <2>4, <2>5, Ordered
<1>4. CASE DepositFunds
  <2>1. cluster # 0
    BY <1>4, <1>p DEF DepositFunds, At, Placed, HasCluster
  <2>2. PICK c \in Runs : c = cluster
    BY <2>1, MaxRunsAssumption DEF TypeOK, Runs
  <2>3. "cluster" \in has[c]
    BY <2>1, <2>2 DEF HasCluster
  <2>4. Provided' = Provided \cup {<<"funds", c>>}
    BY <1>4, <2>2, GainsHas DEF DepositFunds
  <2>5. \A q \in NeededFor("funds") : Present(q, c)
    BY <2>3, Needed, PresentIf
  <2>6. <<"funds", c>> \in Pieces
    BY ArePieces DEF ClusterPieces
  <2> QED BY <2>4, <2>5, <2>6, Ordered
<1>5. CASE UploadSideVm
  <2>1. status = "running" /\ pos = 10 /\ At("prepare", "second")
    BY <1>5, <1>p DEF UploadSideVm, At, Placed
  <2>2. PICK c \in Runs : c = cluster
    BY <2>1, HasItsCluster
  <2>3. "allow" \in has[c]
    BY <2>1, <2>2 DEF Passed
  <2>4. Provided' = Provided \cup {<<"resource", c>>}
    BY <1>5, <2>2, GainsHas DEF UploadSideVm
  <2>5. \A q \in NeededFor("resource") : Present(q, c)
    BY <2>3, Needed, PresentIf
  <2>6. <<"resource", c>> \in Pieces
    BY ArePieces DEF ClusterPieces
  <2> QED BY <2>4, <2>5, <2>6, Ordered
<1>6. ASSUME NEW c \in Runs, GetsReady(c) PROVE [Order!Next]_Provided
  <2>1. Provided' = Provided \cup {<<"ready", c>>}
    BY <1>6, GainsHas DEF GetsReady
  <2>2. \A q \in NeededFor("ready") : Present(q, c)
    BY <1>6, Needed, PresentIf DEF GetsReady
  <2>3. <<"ready", c>> \in Pieces
    BY ArePieces DEF ClusterPieces
  <2> QED BY <2>1, <2>2, <2>3, Ordered
<1>7. CASE Execute
  <2>0. UNCHANGED done /\ mq # <<>>
    BY <1>7 DEF Execute
  <2>1. ASSUME NEW c \in Runs, NEW d \in Drivers, NEW i \in Runs, Head(mq) = SetCall(c, d, i),
               driver' = [driver EXCEPT ![c][d] = i], UNCHANGED <<has, admins>>
        PROVE  [Order!Next]_Provided
    <3>1. Provided' = Provided \cup {<<d, c>>}
      BY <2>0, <2>1, GainsDriver
    <3>2. InQueue(SetCall(c, d, i))
      BY <1>7, <2>1, Executed
    <3>3. /\ "ready" \in has[c] /\ "endpoint" \in done
          /\ d # "deposit" => driver[c]["deposit"] # 0
          /\ d = "logger" => driver[c]["sidevm"] # 0 /\ "allow" \in has[c]
      BY <3>2 DEF NeedsFit
    <3>4. /\ Present("ready", c) /\ Present("endpoint", c)
          /\ d # "deposit" => Present("deposit", c)
          /\ d = "logger" => Present("sidevm", c) /\ Present("allow", c)
      BY <3>3, PresentIf DEF Drivers
    <3>5. \A q \in NeededFor(d) : Present(q, c)
      BY <3>4, Needed DEF Drivers
    <3> QED BY <3>1, <3>5, ArePieces, Ordered
  <2>2. ASSUME NEW c \in Runs, NEW d \in Drivers, NEW i \in Runs, Head(mq) = Grant(c, d, i),
               admins' = admins \cup {<<c, d, i>>}, UNCHANGED <<has, driver>>
        PROVE  [Order!Next]_Provided
    <3>1. Provided' = Provided \cup {<<Admin[d], c>>}
      BY <2>0, <2>2, GainsAdmin
    <3>2. 1 \in DOMAIN mq /\ Head(mq) = mq[1]
      BY <2>0 DEF TypeOK
    <3>3. mq[1].call = "grantAdmin" /\ mq[1].of = c /\ mq[1].name = d
      BY <2>2, <3>2 DEF Grant
    <3>4. driver[c][d] # 0
      BY <3>2, <3>3 DEF GrantsFollow
    <3>5. \A q \in NeededFor(Admin[d]) : Present(q, c)
      BY <3>4, Needed, PresentIf
    <3> QED BY <3>1, <3>5, ArePieces, Ordered
  <2>3. ASSUME NEW c \in Runs, Head(mq) = AllowCall(c),
               has' = [has EXCEPT ![c] = @ \cup {"allow"}], UNCHANGED <<driver, admins>>
        PROVE  [Order!Next]_Provided
    <3>1. Provided' = Provided \cup {<<"allow", c>>}
      BY <2>0, <2>3, GainsHas
    <3>2. driver[c]["sidevm"] # 0
      BY <1>7, <2>3, Executed DEF NeedsFit
    <3>3. \A q \in NeededFor("allow") : Present(q, c)
      BY <3>2, Needed, PresentIf DEF Drivers
    <3>4. <<"allow", c>> \in Pieces
      BY ArePieces DEF ClusterPieces
    <3> QED BY <3>1, <3>3, <3>4, Ordered
  <2> QED BY <1>7, <2>1, <2>2, <2>3, Executed
<1>8. UNCHANGED <<done, has, driver, admins>> \/ Register \/ AddCluster \/ DepositFunds
      \/ UploadSideVm \/ Execute \/ (\E c \in Runs : GetsReady(c))
      \/ (\E p \in {"masterKey", "endpoint"} : Publish(p))
  BY DEF Next, RunStep, NetworkStep, vars, chainVars, Start, Check, Verify, SetDriver, GrantAdmin,
         Allow, Wait, Fail
<1> QED BY <1>0, <1>1, <1>2, <1>3, <1>4, <1>5, <1>6, <1>7, <1>8

\* The procedure implements SetupOrder, whatever runs fail where, and however
\* late their calls are executed: the network and each cluster are
\* provisioned in the order of the task list, and nothing is taken away.
THEOREM Provisions == Spec => ProvidedInOrder
<1>1. Init => Order!Init
  BY DEF Init, Order!Init, Provided
<1>2. TypeInv /\ Passed /\ NeedsFit /\ GrantsFollow /\ [Next]_vars => [Order!Next]_Provided
  BY StepOrder
<1> QED BY <1>1, <1>2, OrderInvariant, PTL DEF Spec, ProvidedInOrder, Order!Spec

=============================================================================
