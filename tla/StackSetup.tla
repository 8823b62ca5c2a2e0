----------------------------- MODULE StackSetup -----------------------------
(***************************************************************************)
(* StackSetupService: the task list that provisions a network, run again   *)
(* after a failure or in another mode.  A task first looks whether its     *)
(* work was done (skip), then submits its transactions and waits for what  *)
(* they bring about.  Contract calls go through the worker's message queue *)
(* and take effect later, in order, even when the run is long over.        *)
(*                                                                         *)
(* One run at a time; each transaction is in a block when submit returns.  *)
(* A cluster, and an instance of a driver, is named by the run that made   *)
(* it (the logger by the cluster); 0 is none.                              *)
(***************************************************************************)
EXTENDS Naturals, Sequences

CONSTANT MaxRuns     \* bound on the runs of the procedure

ASSUME MaxRunsAssumption == MaxRuns \in Nat \ {0}

Drivers == {"deposit", "sidevm", "logger"}
Admin == [d \in Drivers |-> CASE d = "deposit" -> "depositAdmin"
                              [] d = "sidevm"  -> "sidevmAdmin"
                              [] d = "logger"  -> "loggerAdmin"]

Minimal == 1
WithDrivers == 2
WithLogger == 3

\* setupStack_default: the tasks that leave something on the chain, wait for
\* it, or choose the cluster; and how many of them each mode has.
Tasks == <<"worker", "gatekeeper", "code", "verify", "cluster", "ready", "endpoint",
           "deposit", "sidevm", "prepare", "logger">>

Steps(m) == CASE m = Minimal -> 7 [] m = WithDrivers -> 9 [] m = WithLogger -> 11

Runs == 1..MaxRuns

VARIABLES
    status,    \* of the current run: off, running, failed or ready
    run,       \* its number
    mode,
    named,     \* options.clusterId is given
    pos,       \* the task it is at
    sub,       \* where it stands in the task
    cluster,   \* _clusterInfo
    first,     \* the first of the chain's clusters, in the order of their keys
    done,      \* pieces of the network
    has,       \* pieces of each cluster, drivers and their admins aside
    driver,    \* the instance set as driver
    admins,    \* <<cluster, driver, instance>> granted admin
    mq,        \* contract calls on their way to the worker
    torn,      \* history: second pieces of tasks that runs failed half-way through
    best       \* history: the highest mode a run reached the end in

vars == <<status, run, mode, named, pos, sub, cluster, first, done, has, driver,
          admins, mq, torn, best>>

NetworkPieces == {"worker", "gatekeeper", "masterKey", "code", "endpoint"}
ClusterPieces == {"cluster", "funds", "ready", "allow", "resource"}
AdminPieces   == {Admin[d] : d \in Drivers}

Calls == [call : {"setDriver", "grantAdmin"}, of : Runs, name : Drivers, inst : Runs]
         \cup [call : {"allow"}, of : Runs]

TypeOK ==
    /\ status \in {"off", "running", "failed", "ready"}
    /\ run \in 0..MaxRuns
    /\ mode \in Minimal..WithLogger
    /\ named \in BOOLEAN
    /\ pos \in 1..Steps(mode)
    /\ sub \in {"check", "first", "second", "wait"}
    /\ cluster \in 0..MaxRuns /\ first \in 0..MaxRuns
    /\ done \subseteq NetworkPieces
    /\ has \in [Runs -> SUBSET ClusterPieces]
    /\ driver \in [Runs -> [Drivers -> 0..MaxRuns]]
    /\ admins \subseteq Runs \X Drivers \X Runs
    /\ mq \in Seq(Calls)
    /\ torn \in [Runs -> SUBSET (ClusterPieces \cup AdminPieces)]
    /\ best \in [Runs -> 0..WithLogger]

Init ==
    /\ status = "off"
    /\ run = 0
    /\ mode = Minimal
    /\ named = FALSE
    /\ pos = 1
    /\ sub = "check"
    /\ cluster = 0 /\ first = 0
    /\ done = {}
    /\ has = [c \in Runs |-> {}]
    /\ driver = [c \in Runs |-> [d \in Drivers |-> 0]]
    /\ admins = {}
    /\ mq = <<>>
    /\ torn = has
    /\ best = [c \in Runs |-> 0]

Task == Tasks[pos]

At(t, s) == status = "running" /\ Task = t /\ sub = s

chainVars == <<first, done, has, driver, admins, mq>>
runVars == <<status, run, mode, named, pos>>

-----------------------------------------------------------------------------
\* Slip: a driver is deployed again unless this run did.
SkippableIfMine(t) ==
    CASE t \in Drivers   -> driver[cluster][t] = run
      [] t = "prepare"   -> "allow" \in has[cluster]
      [] t = "cluster"   -> cluster # 0
      [] OTHER           -> t \in done

\* The conditions of the tasks' skip functions: each looks at one piece only.
Skippable(t) ==
    CASE t \in Drivers   -> driver[cluster][t] # 0
      [] t = "prepare"   -> "allow" \in has[cluster]
      [] t = "cluster"   -> cluster # 0
      [] OTHER           -> t \in done

\* On to the next task, or to the end: 'Stack is ready'.
Finish ==
    IF pos = Steps(mode) THEN status' = "ready" /\ UNCHANGED <<pos, sub>>
    ELSE pos' = pos + 1 /\ sub' = "check" /\ UNCHANGED status

Record == best' = IF status' = "ready" /\ mode > best[cluster]
                  THEN [best EXCEPT ![cluster] = mode] ELSE best

Start(m, given) ==
    /\ status # "running"
    /\ run < MaxRuns
    /\ run' = run + 1
    /\ mode' = m
    /\ named' = given
    /\ pos' = 1
    /\ sub' = "check"
    /\ cluster' = 0
    /\ status' = "running"
    /\ UNCHANGED <<chainVars, torn, best>>

\* skip, or go on with the task.  'Wait for cluster to be ready' has no skip.
Check ==
    /\ status = "running" /\ Task # "verify"
    /\ sub = "check"
    /\ IF Task = "ready" THEN sub' = "wait" /\ UNCHANGED <<status, pos>>
       ELSE IF Skippable(Task) THEN Finish
       ELSE sub' = "first" /\ UNCHANGED <<status, pos>>
    /\ Record
    /\ UNCHANGED <<run, mode, named, cluster, chainVars, torn>>

\* Slip: the clusters are looked up when one was asked for.
FoundIfNamed == IF named THEN first ELSE 0

\* One that is named is not looked up.
Found == IF named THEN 0 ELSE first

Verify ==
    /\ At("verify", "check")
    /\ cluster' = Found
    /\ Finish
    /\ UNCHANGED <<run, mode, named, chainVars, torn, best>>

\* registerWorker, registerGatekeeper, uploadPinkSystemCode, addWorkerEndpoint.
Register ==
    /\ Task \in {"worker", "gatekeeper", "code", "endpoint"}
    /\ At(Task, "first")
    /\ done' = IF Task = "endpoint" THEN done ELSE done \cup {Task}
    /\ sub' = "wait"
    /\ UNCHANGED <<runVars, cluster, first, has, driver, admins, mq, torn, best>>

\* createCluster: addCluster, then the deposit of its funds.  Its key comes
\* before those of the others or not.
AddCluster ==
    /\ At("cluster", "first")
    /\ has' = [has EXCEPT ![run] = @ \cup {"cluster"}]
    /\ cluster' = run
    /\ \/ first' = run
       \/ first # 0 /\ UNCHANGED first
    /\ sub' = "second"
    /\ UNCHANGED <<runVars, done, driver, admins, mq, torn, best>>

DepositFunds ==
    /\ At("cluster", "second")
    /\ has' = [has EXCEPT ![cluster] = @ \cup {"funds"}]
    /\ Finish
    /\ UNCHANGED <<run, mode, named, cluster, first, done, driver, admins, mq, torn, best>>

Call(c) == mq' = Append(mq, c)

\* The instance that is deployed: the logger has a fixed salt, so that it is
\* the same one whatever run deploys it (the chain may refuse: Fail).
Instance(t) == IF t = "logger" THEN cluster ELSE run

\* deployDriverContract: an instance is deployed and set as the driver.
SetDriver ==
    /\ Task \in Drivers
    /\ At(Task, "first")
    /\ Call([call |-> "setDriver", of |-> cluster, name |-> Task, inst |-> Instance(Task)])
    /\ sub' = "second"
    /\ UNCHANGED <<runVars, cluster, first, done, has, driver, admins, torn, best>>

\* Slip: admin is granted to an instance that is not the one just set.
GrantToFirst(c, d, i) == [call |-> "grantAdmin", of |-> c, name |-> d, inst |-> 1]

Grant(c, d, i) == [call |-> "grantAdmin", of |-> c, name |-> d, inst |-> i]

GrantAdmin ==
    /\ Task \in Drivers
    /\ At(Task, "second")
    /\ Call(Grant(cluster, Task, Instance(Task)))
    /\ sub' = "wait"
    /\ UNCHANGED <<runVars, cluster, first, done, has, driver, admins, torn, best>>

\* prepareLoggerServer: allow, wait until it is allowed, upload the side VM.
Allow ==
    /\ At("prepare", "first")
    /\ Call([call |-> "allow", of |-> cluster])
    /\ sub' = "wait"
    /\ UNCHANGED <<runVars, cluster, first, done, has, driver, admins, torn, best>>

UploadSideVm ==
    /\ At("prepare", "second")
    /\ has' = [has EXCEPT ![cluster] = @ \cup {"resource"}]
    /\ Finish
    /\ UNCHANGED <<run, mode, named, cluster, first, done, driver, admins, mq, torn, best>>

\* Slips: the wait for the master key is for the gatekeeper; a driver of any
\* run will do.
AwaitedLoosely(t) ==
    CASE t \in Drivers      -> TRUE
      [] t = "gatekeeper"   -> "masterKey" \in done
      [] t = "prepare"      -> TRUE
      [] t = "ready"        -> "ready" \in has[cluster]
      [] OTHER              -> t \in done
AwaitedNotMine(t) ==
    CASE t \in Drivers      -> driver[cluster][t] = 1
      [] t = "gatekeeper"   -> "masterKey" \in done
      [] t = "prepare"      -> "allow" \in has[cluster]
      [] t = "ready"        -> "ready" \in has[cluster]
      [] OTHER              -> t \in done

\* What each task's _waitFor looks at.
Awaited(t) ==
    CASE t \in Drivers      -> driver[cluster][t] = Instance(t)
      [] t = "gatekeeper"   -> "masterKey" \in done
      [] t = "prepare"      -> "allow" \in has[cluster]
      [] t = "ready"        -> "ready" \in has[cluster]
      [] OTHER              -> t \in done

Wait ==
    /\ status = "running"
    /\ sub = "wait"
    /\ Awaited(Task)
    /\ IF Task = "prepare" THEN sub' = "second" /\ UNCHANGED <<status, pos>> ELSE Finish
    /\ Record
    /\ UNCHANGED <<run, mode, named, cluster, chainVars, torn>>

\* The piece a task provides after the one its skip looks at.
Second(t) ==
    CASE t = "cluster" -> {"funds"}
      [] t = "prepare" -> {"resource"}
      [] t \in Drivers -> {Admin[t]}
      [] OTHER         -> {}

HalfDone == sub = "second" \/ At("prepare", "wait")

\* A transaction is rejected, a wait times out, or the process ends.
Fail ==
    /\ status = "running"
    /\ status' = "failed"
    /\ torn' = IF HalfDone THEN [torn EXCEPT ![cluster] = @ \cup Second(Task)] ELSE torn
    /\ UNCHANGED <<run, mode, named, pos, sub, cluster, chainVars, best>>

-----------------------------------------------------------------------------
(* The network.                                                            *)

\* The worker runs the contract calls in order.
Execute ==
    /\ mq # <<>>
    /\ mq' = Tail(mq)
    /\ LET c == Head(mq) IN
       \/ /\ c.call = "setDriver"
          /\ driver' = [driver EXCEPT ![c.of][c.name] = c.inst]
          /\ UNCHANGED <<has, admins>>
       \/ /\ c.call = "grantAdmin"
          /\ admins' = admins \cup {<<c.of, c.name, c.inst>>}
          /\ UNCHANGED <<has, driver>>
       \/ /\ c.call = "allow"
          /\ has' = [has EXCEPT ![c.of] = @ \cup {"allow"}]
          /\ UNCHANGED <<driver, admins>>
    /\ UNCHANGED <<runVars, sub, cluster, first, done, torn, best>>

\* The gatekeeper publishes its key, the worker the endpoint it was told, a
\* cluster gets its keys.
Publish(p) ==
    /\ \/ p = "masterKey" /\ "gatekeeper" \in done
       \/ p = "endpoint" /\ At("endpoint", "wait")
    /\ p \notin done
    /\ done' = done \cup {p}
    /\ UNCHANGED <<runVars, sub, cluster, first, has, driver, admins, mq, torn, best>>

GetsReady(c) ==
    /\ "masterKey" \in done /\ "cluster" \in has[c] /\ "ready" \notin has[c]
    /\ has' = [has EXCEPT ![c] = @ \cup {"ready"}]
    /\ UNCHANGED <<runVars, sub, cluster, first, done, driver, admins, mq, torn, best>>

-----------------------------------------------------------------------------
RunStep ==
    \/ Check \/ Verify \/ Register \/ AddCluster \/ DepositFunds \/ SetDriver
    \/ GrantAdmin \/ Allow \/ UploadSideVm \/ Wait

NetworkStep ==
    \/ Execute
    \/ \E p \in {"masterKey", "endpoint"} : Publish(p)
    \/ \E c \in Runs : GetsReady(c)

Next ==
    \/ \E m \in Minimal..WithLogger, given \in BOOLEAN : Start(m, given)
    \/ RunStep \/ Fail \/ NetworkStep

\* The run goes on while it can, and so does the network.
Fairness ==
    /\ WF_vars(RunStep)
    /\ WF_vars(Execute)
    /\ \A p \in {"masterKey", "endpoint"} : WF_vars(Publish(p))
    /\ \A c \in Runs : WF_vars(GetsReady(c))

Spec == Init /\ [][Next]_vars
FairSpec == Spec /\ Fairness

-----------------------------------------------------------------------------
(* Properties.                                                             *)

\* The pieces of the network, as those of cluster 0, and of the clusters.
Pieces == (NetworkPieces \X {0})
          \cup ((ClusterPieces \cup Drivers \cup AdminPieces) \X Runs)

Provided ==
    (done \X {0})
    \cup (UNION {has[c] \X {c} : c \in Runs})
    \cup {p \in Drivers \X Runs : driver[p[2]][p[1]] # 0}
    \cup {<<Admin[a[2]], a[1]>> : a \in admins}

\* The order the task list stands for.
NeededFor(p) ==
    CASE p = "worker"       -> {}
      [] p = "gatekeeper"   -> {"worker"}
      [] p = "masterKey"    -> {"gatekeeper"}
      [] p = "code"         -> {"gatekeeper"}
      [] p = "endpoint"     -> {"worker", "code", "masterKey"}
      [] p = "cluster"      -> {"code"}
      [] p = "funds"        -> {"cluster"}
      [] p = "ready"        -> {"cluster", "masterKey"}
      [] p = "deposit"      -> {"ready", "endpoint"}
      [] p = "sidevm"       -> {"ready", "endpoint", "deposit"}
      [] p = "allow"        -> {"sidevm"}
      [] p = "resource"     -> {"allow"}
      [] p = "logger"       -> {"sidevm", "allow"}
      [] p = "depositAdmin" -> {"deposit"}
      [] p = "sidevmAdmin"  -> {"sidevm"}
      [] p = "loggerAdmin"  -> {"logger"}

Needs == [p \in Pieces |->
    {<<q, IF q \in NetworkPieces THEN 0 ELSE p[2]>> : q \in NeededFor(p[1])}]

Order == INSTANCE SetupOrder WITH provided <- Provided

\* Crashes, reruns and late contract calls included, the network and each of
\* its clusters are provisioned in the order of the task list.
ProvidedInOrder == Order!Spec

\* The admin rights belong to the instance that is the driver.
Complete(d) ==
    LET i == driver[cluster][d] IN
    /\ i # 0
    /\ \/ <<cluster, d, i>> \in admins
       \/ \E k \in DOMAIN mq :
             mq[k] = [call |-> "grantAdmin", of |-> cluster, name |-> d, inst |-> i]

\* What a setup in mode m is for.
Missing(m) ==
    ({"worker", "gatekeeper", "code", "endpoint"} \ done)
    \cup ({"cluster", "funds", "ready"} \ has[cluster])
    \cup (IF m >= WithLogger THEN {"allow", "resource"} \ has[cluster] ELSE {})
    \cup {Admin[d] : d \in {x \in Drivers : x \in {Tasks[i] : i \in 1..Steps(m)}
                                            /\ ~Complete(x)}}

\* 'Stack is ready': nothing is missing.
ReadyMeansComplete == status = "ready" => Missing(mode) = {}

\* What the code guarantees of it: only the second half of a task that an
\* earlier run had begun for this cluster when it failed can be missing.
OnlyTornIsMissing == status = "ready" => Missing(mode) \subseteq torn[cluster]

\* Once a run in some mode got to its end with a cluster, another one that
\* finds this cluster, in that mode or a lower one, has nothing to do,
\* whatever failed in between and whatever other clusters were made.
RerunIsIdle ==
    status = "running" /\ ~named /\ first # 0 /\ mode <= best[first] =>
        sub \notin {"first", "second"}

\* A second cluster is made only by a run that was given the id of one, which
\* is then not the one it sets up.
ClustersAreReused ==
    [][\A c \in Runs : "cluster" \in has'[c] \ has[c] =>
          named \/ \A k \in Runs : "cluster" \notin has[k]]_vars

\* Every wait is for something that comes: a run ends, though contract calls
\* of older runs are still being executed.
RunEnds == status = "running" ~> status # "running"

=============================================================================
