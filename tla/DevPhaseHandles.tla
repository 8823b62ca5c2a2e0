--------------------------- MODULE DevPhaseHandles ---------------------------
(***************************************************************************)
(* What the tasks of one script share: the DevPhase of the RuntimeContext, *)
(* its caches of system and driver contracts, a signer's funds in a        *)
(* cluster, and a PinkLogger.  Tasks are callers on one event loop: they   *)
(* interleave where the code awaits, and between two awaits run alone.     *)
(*                                                                         *)
(* An instance is a DevPhase.create that got a connection.  Its cache maps *)
(* clusters to the promise of their system contract, and the drivers of    *)
(* the main cluster to theirs.                                             *)
(***************************************************************************)
EXTENDS Naturals, FiniteSets

CONSTANTS
    Callers,       \* tasks of the script
    Clusters,
    Main,          \* mainClusterId
    Drivers,       \* drivers of the main cluster
    LogDriver,     \* the one named PinkLogger
    Scripts,       \* the sets of operations one script uses (a bound)
    MaxInstances,  \* bound on connections opened
    MaxDeposits,   \* bound on transfers to a cluster
    MaxLogs,       \* bound on log records
    MaxFaults      \* bound on failed requests

Keys == Clusters \cup Drivers
Ops  == {"reconnect", "system", "driver", "logger", "funds", "logs"}

ASSUME HandlesAssumption ==
    /\ Main \in Clusters /\ LogDriver \in Drivers
    /\ Clusters \cap Drivers = {}
    /\ Scripts \subseteq SUBSET Ops
    /\ Drivers \cap {"undefined", "rejected"} = {}
    /\ MaxInstances \in Nat \ {0}
    /\ {MaxDeposits, MaxLogs, MaxFaults} \subseteq Nat

VARIABLES
    script,    \* what its callers do
    pc,        \* what each caller awaits
    want,      \* the call it is in
    mine,      \* the instance it holds, 0 before it has one
    context,   \* _devPhases[network], 0 when not set
    made,      \* instances connected so far
    open,      \* instances whose connection is open
    cache,     \* promises of each instance
    tables,    \* instances with _driverContracts[mainClusterId]
    there,     \* what the network has been provided with
    sent,      \* transfers to each cluster, ever
    funds,     \* transfers that arrived
    logged,    \* records the logger contract has
    logger,    \* the PinkLogger: its initial pointer and pointer
    from,      \* the pointer of a getLog under way,
    next,      \* and that of its answer
    faults

VARIABLES      \* history, read by the properties only
    answers,   \* what the calls of getDriverContract came to
    crossed,   \* two calls of initDevPhase overlapped
    stranded,  \* instances whose creation failed after it connected
    retried,   \* clusters for which an ensureFundsInCluster began beside
               \* another one, or one failed after it deposited
    ensured,   \* clusters an ensureFundsInCluster returned for
    mixed,     \* two getNewLogs overlapped, or one named a pointer
    read,      \* records handed out
    reread     \* records handed out more than once

context_ == <<mine, context, made, open, crossed, stranded>>
caches   == <<cache, tables, answers>>
money    == <<sent, funds, retried, ensured>>
logs     == <<logged, logger, from, next, mixed, read, reread>>
vars     == <<script, pc, want, context_, caches, there, money, logs, faults>>

Instances == 1..MaxInstances
Promise   == {"none", "pending", "resolved", "rejected"}
Settled   == {"resolved", "rejected"}
Call      == {w \in [op : Ops, of : Keys] : w.op = "driver" <=> w.of \in Drivers}
NoCall    == [op |-> "system", of |-> Main]
Answer    == [by : Instances, asked : Drivers, got : Drivers \cup {"undefined", "rejected"}]
Place     == {"idle", "connect", "system", "main", "driver", "logger",
              "balance", "deposit", "arrival", "log", "logs"}

TypeOK ==
    /\ script \in Scripts
    /\ pc \in [Callers -> Place]
    /\ want \in [Callers -> Call]
    /\ mine \in [Callers -> Instances \cup {0}]
    /\ context \in Instances \cup {0}
    /\ made \in 0..MaxInstances
    /\ open \subseteq Instances
    /\ cache \in [Instances -> [Keys -> Promise]]
    /\ tables \subseteq Instances
    /\ answers \subseteq Answer
    /\ there \subseteq Keys
    /\ sent \in [Clusters -> Nat]
    /\ funds \in [Clusters -> Nat]
    /\ logged \in 0..MaxLogs
    /\ logger \in [on : BOOLEAN, initial : 0..MaxLogs, pointer : 0..MaxLogs]
    /\ from \in [Callers -> 0..MaxLogs]
    /\ next \in [Callers -> 0..MaxLogs]
    /\ faults \in 0..MaxFaults
    /\ crossed \in BOOLEAN /\ mixed \in BOOLEAN
    /\ stranded \subseteq Instances
    /\ retried \subseteq Clusters /\ ensured \subseteq Clusters
    /\ read \subseteq 1..MaxLogs
    /\ reread \subseteq 1..MaxLogs

Init ==
    /\ script \in Scripts
    /\ pc = [c \in Callers |-> "idle"]
    /\ want = [c \in Callers |-> NoCall]
    /\ mine = [c \in Callers |-> 0]
    /\ context = 0
    /\ made = 0
    /\ open = {}
    /\ cache = [i \in Instances |-> [k \in Keys |-> "none"]]
    /\ tables = {} /\ answers = {}
    /\ there = {}
    /\ sent = [k \in Clusters |-> 0]
    /\ funds = sent
    /\ logged = 0
    /\ logger = [on |-> FALSE, initial |-> 0, pointer |-> 0]
    /\ from = [c \in Callers |-> 0]
    /\ next = [c \in Callers |-> 0]
    /\ faults = 0
    /\ crossed = FALSE /\ stranded = {}
    /\ retried = {} /\ ensured = {}
    /\ mixed = FALSE /\ read = {} /\ reread = {}

Fault == faults < MaxFaults /\ faults' = faults + 1

GoTo(c, place) == pc' = [pc EXCEPT ![c] = place]

Ends(c) == GoTo(c, "idle") /\ want' = [want EXCEPT ![c] = NoCall]

-----------------------------------------------------------------------------
(* The connection.                                                         *)

\* Slip: every call connects.
NeverRefused(c) == TRUE

\* initDevPhase refuses when the DevPhase is stored, not while it is made.
Unset(c) == context = 0

\* initDevPhase: DevPhase.create opens the connection ...
InitDevPhase(c) ==
    /\ pc[c] = "idle" /\ mine[c] = 0
    /\ Unset(c)
    /\ made < IF "reconnect" \in script THEN MaxInstances ELSE 1
    /\ GoTo(c, "connect")
    /\ made' = made + 1
    /\ open' = open \cup {made + 1}
    /\ mine' = [mine EXCEPT ![c] = made + 1]
    /\ crossed' = (crossed \/ \E d \in Callers : pc[d] = "connect")
    /\ UNCHANGED <<script, want, context, stranded, caches, there, money, logs, faults>>

\* ... and goes on with the cluster, the worker and the accounts; then the
\* instance is stored, over another one if there is one by now.
Created(c) ==
    /\ pc[c] = "connect"
    /\ Ends(c)
    /\ context' = mine[c]
    /\ UNCHANGED <<script, mine, made, open, crossed, stranded, caches, there,
                   money, logs, faults>>

\* Any of these steps may throw: no worker, no su account.
CreateFails(c) ==
    /\ pc[c] = "connect"
    /\ Fault
    /\ Ends(c)
    /\ stranded' = stranded \cup {mine[c]}
    /\ mine' = [mine EXCEPT ![c] = 0]
    /\ UNCHANGED <<script, context, made, open, crossed, caches, there, money, logs>>

\* getDevPhase, which throws when nothing is stored.
GetDevPhase(c) ==
    /\ pc[c] = "idle" /\ mine[c] = 0
    /\ context # 0
    /\ mine' = [mine EXCEPT ![c] = context]
    /\ UNCHANGED <<script, pc, want, context, made, open, crossed, stranded,
                   caches, there, money, logs, faults>>

\* cleanup disconnects; the context goes on handing the instance out.
Cleanup(c) ==
    /\ pc[c] = "idle" /\ mine[c] \in open
    /\ open' = open \ {mine[c]}
    /\ UNCHANGED <<script, pc, want, mine, context, made, crossed, stranded,
                   caches, there, money, logs, faults>>

-----------------------------------------------------------------------------
(* The caches.                                                             *)

\* getSystemContract stores the promise before anything is awaited: who asks
\* for a cluster that is in the cache waits for the promise that is there.
Requested(i, k) ==
    IF cache[i][k] = "none" THEN [cache EXCEPT ![i][k] = "pending"] ELSE cache

ClusterOf(w) == IF w.of \in Clusters THEN w.of ELSE Main

\* Drivers and logger of the main cluster, funds and system contract of any.
Sensible(w) ==
    /\ w.op \in script \ {"reconnect", "logs"}
    /\ w.op = "logger" => w.of = Main /\ ~logger.on

\* Calls of ensureFundsInCluster for the same cluster that are under way.
Beside(w) == {d \in Callers : w.op = "funds" /\ pc[d] # "idle" /\ want[d] = w}

\* getSystemContract, getDriverContract, getPinkLogger (by way of
\* getPhatRegistry) and ensureFundsInCluster all begin with the system
\* contract of their cluster.
Ask(c, w) ==
    /\ pc[c] = "idle" /\ mine[c] # 0
    /\ Sensible(w)
    /\ w.op = "funds" => sent[w.of] + Cardinality(Beside(w)) < MaxDeposits
    /\ GoTo(c, "system")
    /\ want' = [want EXCEPT ![c] = w]
    /\ cache' = Requested(mine[c], ClusterOf(w))
    /\ UNCHANGED <<tables, answers>>
    /\ retried' = IF Beside(w) # {} THEN retried \cup {w.of} ELSE retried
    /\ UNCHANGED <<script, context_, there, sent, funds, ensured, logs, faults>>

\* Slip: the factory of the system contract is created like any other one,
\* and ContractFactory._init waits for the system contract.
AwaitsItself(k) == IF k \in Drivers THEN {Main} ELSE {k}

\* The promises that the one stored for k awaits: the factory of a driver
\* begins with the system contract, that of the system contract does not.
Needs(k) == IF k \in Drivers THEN {Main} ELSE {}

\* The query for the contract's id, getFactory and attach succeed: only for
\* what the network has.
Resolve(i, k) ==
    /\ cache[i][k] = "pending"
    /\ \A n \in Needs(k) : cache[i][n] = "resolved"
    /\ i \in open /\ k \in there
    /\ cache' = [cache EXCEPT ![i][k] = "resolved"]
    /\ UNCHANGED <<tables, answers>>
    /\ UNCHANGED <<script, pc, want, context_, there, money, logs, faults>>

\* One of them throws, and the executor's catch rejects the promise.  It
\* stays in the cache.
Reject(i, k) ==
    /\ cache[i][k] = "pending"
    /\ \A n \in Needs(k) : cache[i][n] \in Settled
    /\ \/ k \notin there /\ UNCHANGED faults
       \/ i \notin open /\ UNCHANGED faults
       \/ (\E n \in Needs(k) : cache[i][n] = "rejected") /\ UNCHANGED faults
       \/ Fault
    /\ cache' = [cache EXCEPT ![i][k] = "rejected"]
    /\ UNCHANGED <<tables, answers>>
    /\ UNCHANGED <<script, pc, want, context_, there, money, logs>>

\* Slip: the test asks for the driver, and still resets the table.
DriverTabled(c) == cache[mine[c]][want[c].of] # "none"

\* _driverContracts[clusterId] is set.
Tabled(c) == mine[c] \in tables

\* An empty table of drivers, and the promise for the one asked for.
NewTable(i, d) ==
    [cache EXCEPT ![i] = [k \in Keys |-> IF k = d THEN "pending"
                                        ELSE IF k \in Drivers THEN "none" ELSE @[k]]]

\* History: getDriverContract came to this.
Answered(c, got) ==
    answers' = answers \cup {[by |-> mine[c], asked |-> want[c].of, got |-> got]}

\* getDriverContract, with the system contract at hand: all that makes a
\* promise is inside `if (!this._driverContracts[clusterId])`, and what the
\* table has under the driver's name is returned, if anything.
AskDriver(c) ==
    LET i == mine[c]  d == want[c].of IN
    /\ tables' = tables \cup {i}
    /\ cache' = IF Tabled(c) THEN cache ELSE NewTable(i, d)
    /\ IF cache'[i][d] = "none"
       THEN Ends(c) /\ Answered(c, "undefined")
       ELSE GoTo(c, "driver") /\ UNCHANGED <<want, answers>>

\* The system contract is there.  ensureFundsInCluster asks for another one,
\* that of the main cluster, whichever cluster it was called for.
GotSystem(c) ==
    LET i == mine[c] IN
    /\ pc[c] = "system"
    /\ cache[i][ClusterOf(want[c])] = "resolved"
    /\ CASE want[c].op = "driver" -> AskDriver(c)
         [] want[c].op = "logger" -> GoTo(c, "logger") /\ UNCHANGED <<want, caches>>
         [] want[c].op = "funds"  -> /\ GoTo(c, "main") /\ UNCHANGED want
                                     /\ cache' = Requested(i, Main)
                                     /\ UNCHANGED <<tables, answers>>
         [] OTHER                 -> Ends(c) /\ UNCHANGED caches
    /\ UNCHANGED <<script, context_, there, money, logs, faults>>

Got(c, place, k) == pc[c] = place /\ cache[mine[c]][k] = "resolved"

GotDriver(c) ==
    /\ Got(c, "driver", want[c].of)
    /\ Ends(c)
    /\ Answered(c, want[c].of)
    /\ UNCHANGED <<script, context_, cache, tables, there, money, logs, faults>>

\* The promise awaited was rejected, by this caller's request or another's.
Rejected(c) ==
    /\ \/ pc[c] = "system" /\ cache[mine[c]][ClusterOf(want[c])] = "rejected"
       \/ pc[c] = "main"   /\ cache[mine[c]][Main] = "rejected"
       \/ pc[c] = "driver" /\ cache[mine[c]][want[c].of] = "rejected"
    /\ Ends(c)
    /\ IF want[c].op = "driver" THEN Answered(c, "rejected") ELSE UNCHANGED answers
    /\ UNCHANGED <<script, context_, cache, tables, there, money, logs, faults>>

-----------------------------------------------------------------------------
(* ensureFundsInCluster.                                                   *)

GotMain(c) ==
    /\ Got(c, "main", Main)
    /\ GoTo(c, "balance")
    /\ UNCHANGED <<script, want, context_, caches, there, money, logs, faults>>

Ensured(c) == Ends(c) /\ ensured' = ensured \cup {want[c].of}

\* system::freeBalanceOf, of the main cluster's system contract: one deposit
\* is what is asked for.
Enough(c) ==
    /\ pc[c] = "balance"
    /\ funds[Main] > 0
    /\ Ensured(c)
    /\ UNCHANGED <<script, context_, caches, there, sent, funds, retried, logs, faults>>

\* transferToCluster, to the cluster the call is for.
Deposit(c) ==
    /\ pc[c] = "balance"
    /\ funds[Main] = 0
    /\ GoTo(c, "deposit")
    /\ sent' = [sent EXCEPT ![want[c].of] = @ + 1]
    /\ UNCHANGED <<script, want, context_, caches, there, funds, retried,
                   ensured, logs, faults>>

\* TxHandler.handle resolves with the finalized block.
Deposited(c) ==
    /\ pc[c] = "deposit"
    /\ GoTo(c, "arrival")
    /\ UNCHANGED <<script, want, context_, caches, there, money, logs, faults>>

\* Slip: the call returns with the transaction.
Transferred(c) == sent[want[c].of] > 0

Funded(c) == funds[Main] > 0

\* The balance the cluster reports: waitFor's condition.
Arrived(c) ==
    /\ pc[c] = "arrival"
    /\ Funded(c)
    /\ Ensured(c)
    /\ UNCHANGED <<script, context_, caches, there, sent, funds, retried, logs, faults>>

\* handle rejects, whatever became of the transaction, or waitFor's limit.
DepositFails(c) ==
    /\ \/ pc[c] = "deposit" /\ Fault /\ sent' \in {sent, [sent EXCEPT ![want[c].of] = @ - 1]}
       \/ pc[c] = "arrival" /\ UNCHANGED <<script, sent, faults>>
    /\ \A k \in Clusters : funds[k] <= sent'[k]
    /\ Ends(c)
    /\ retried' = retried \cup {want[c].of}
    /\ UNCHANGED <<script, context_, caches, there, funds, ensured, logs>>

\* A transfer goes through the cluster's message queue.
Arrive(k) ==
    /\ funds[k] < sent[k]
    /\ funds' = [funds EXCEPT ![k] = @ + 1]
    /\ UNCHANGED <<script, pc, want, context_, caches, there, sent, retried,
                   ensured, logs, faults>>

-----------------------------------------------------------------------------
(* PinkLogger.                                                             *)

\* PinkLogger.create: the driver has to be there; getInfo tells where the
\* log ends.  A second logger of the same contract is left aside.
CreateLogger(c) ==
    /\ pc[c] = "logger"
    /\ Ends(c)
    /\ logger' = IF LogDriver \in there /\ ~logger.on
                 THEN [on |-> TRUE, initial |-> logged, pointer |-> logged] ELSE logger
    /\ UNCHANGED <<script, context_, caches, there, money, logged, from,
                   next, mixed, read, reread, faults>>

\* getNewLogs reads its pointer, or takes the one it is called with ...
NewLogs(c, p) ==
    /\ pc[c] = "idle" /\ "logs" \in script
    /\ logger.on
    /\ GoTo(c, "log")
    /\ from' = [from EXCEPT ![c] = p]
    /\ mixed' = (mixed \/ p # logger.pointer \/ \E d \in Callers : pc[d] \in {"log", "logs"})
    /\ UNCHANGED <<script, want, context_, caches, there, money, logged,
                   logger, next, read, reread, faults>>

\* ... the contract answers with what it has from there ...
GetLog(c) ==
    /\ pc[c] = "log"
    /\ GoTo(c, "logs")
    /\ next' = [next EXCEPT ![c] = logged]
    /\ UNCHANGED <<script, want, context_, caches, there, money, logged,
                   logger, from, mixed, read, reread, faults>>

\* Slip: the pointer moves to the end of the log.
EndOfLog(c) == logged

NextPointer(c) == next[c]

\* ... and the pointer is stored that came with the answer.
TakeLogs(c) ==
    LET got == (from[c] + 1)..next[c] IN
    /\ pc[c] = "logs"
    /\ Ends(c)
    /\ logger' = [logger EXCEPT !.pointer = NextPointer(c)]
    /\ read' = read \cup got
    /\ reread' = reread \cup (read \cap got)
    /\ from' = [from EXCEPT ![c] = 0]
    /\ next' = [next EXCEPT ![c] = 0]
    /\ UNCHANGED <<script, context_, caches, there, money, logged, mixed, faults>>

\* A contract writes to the log.
Write ==
    /\ logged < MaxLogs
    /\ logged' = logged + 1
    /\ UNCHANGED <<script, pc, want, context_, caches, there, money, logger,
                   from, next, mixed, read, reread, faults>>

-----------------------------------------------------------------------------
\* A query rejects: the call does.
QueryFails(c) ==
    /\ pc[c] \in {"logger", "balance", "log"}
    /\ Fault
    /\ Ends(c)
    /\ from' = [from EXCEPT ![c] = 0]
    /\ UNCHANGED <<script, context_, caches, there, money, logged, logger,
                   next, mixed, read, reread>>

\* A stack setup elsewhere: clusters, then their drivers (if the script asks
\* for any).
Provide(k) ==
    /\ k \notin there
    /\ k \in Drivers => Main \in there /\ script \cap {"driver", "logger"} # {}
    /\ there' = there \cup {k}
    /\ UNCHANGED <<script, pc, want, context_, caches, money, logs, faults>>

Proceed(c) ==
    \/ Created(c) \/ GotSystem(c) \/ GotDriver(c) \/ Rejected(c)
    \/ GotMain(c) \/ Enough(c) \/ Deposit(c) \/ Deposited(c) \/ Arrived(c) \/ DepositFails(c)
    \/ CreateLogger(c) \/ GetLog(c) \/ TakeLogs(c)

Settle(i) == \E k \in Keys : Resolve(i, k) \/ Reject(i, k)

Next ==
    \/ \E c \in Callers :
        \/ InitDevPhase(c) \/ CreateFails(c) \/ GetDevPhase(c) \/ Cleanup(c)
        \/ (\E w \in Call : Ask(c, w))
        \/ (\E p \in {0, logger.pointer} : NewLogs(c, p))
        \/ Proceed(c) \/ QueryFails(c)
    \/ \E i \in Instances : Settle(i)
    \/ \E k \in Clusters : Arrive(k)
    \/ \E k \in Keys : Provide(k)
    \/ Write

\* Continuations run, the limits of waitFor and TxHandler fire, and requests
\* over an open connection are answered.
Fairness ==
    /\ \A c \in Callers : WF_vars(Proceed(c))
    /\ WF_vars(\E i \in open : Settle(i))

Spec == Init /\ [][Next]_vars
FairSpec == Spec /\ Fairness

-----------------------------------------------------------------------------
(* Properties.                                                             *)

\* Every open connection is the context's, so that cleanup can close it, or
\* is still being made.  Exempt are those whose creation failed half way and
\* those of calls of initDevPhase that overlapped: the check and the store
\* are on two sides of an await.
ConnectionsAreHeld ==
    crossed \/ \A i \in open \ stranded :
        i = context \/ \E c \in Callers : pc[c] = "connect" /\ mine[c] = i

\* The calls of getDriverContract on one DevPhase agree, however they overlap
\* and whatever is deployed meanwhile: a driver asked for twice is the same
\* answer twice, a driver that is answered is the one asked for, and whoever
\* gets nothing gets it because another driver has the table.
AnswersAgree ==
    /\ \A a, b \in answers : a.by = b.by /\ a.asked = b.asked => a.got = b.got
    /\ \A a \in answers : a.got \in Drivers => a.got = a.asked
    /\ \A a \in answers : a.got = "undefined" =>
            \E d \in Drivers \ {a.asked} : cache[a.by][d] # "none"

\* ensureFundsInCluster returns with the money in the main cluster, and a
\* cluster gets a second deposit only when two calls for it overlapped or one
\* failed after its own.  Nothing is promised of other clusters: the balance
\* asked for is always that of the main one.
FundsAreEnsured ==
    /\ Main \in ensured => funds[Main] > 0
    /\ \A k \in Clusters \ retried : sent[k] <= 1

\* getNewLogs leaves no record out: all that were written since the logger
\* was created, up to its pointer, were handed to somebody.  Records come
\* twice only when calls overlap or name a pointer themselves.
LogsAreRead ==
    /\ (logger.initial + 1)..logger.pointer \subseteq read
    /\ reread # {} => mixed

\* Every call ends, unless its connection was closed meanwhile: no promise of
\* the cache waits for itself, and all are settled.
CallsEnd ==
    \A c \in Callers : pc[c] # "idle" ~> pc[c] = "idle" \/ mine[c] \notin open

=============================================================================
