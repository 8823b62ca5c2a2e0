----------------------- MODULE DevPhaseHandles_proofs -----------------------
(* Proofs about DevPhaseHandles, for any callers, clusters, drivers, scripts *)
(* and bounds.                                                               *)
EXTENDS DevPhaseHandles, TLAPS

-----------------------------------------------------------------------------
(* Types.                                                                    *)

Paying == {"main", "balance", "deposit", "arrival"}
Using  == Place \ {"idle", "log", "logs"}

\* A call that uses an instance has one, only ensureFundsInCluster pays and
\* only getDriverContract waits for a driver.
PlacesFit ==
    \A c \in Callers :
        /\ pc[c] \in Using => mine[c] \in Instances
        /\ pc[c] \in Paying => want[c].op = "funds"
        /\ pc[c] = "driver" => want[c].op = "driver"

TypeInv == TypeOK /\ PlacesFit

LEMMA NoCallIsCall == NoCall \in Call
BY HandlesAssumption DEF NoCall, Call, Ops, Keys

LEMMA ClusterOfCall ==
    ASSUME NEW w \in Call
    PROVE  ClusterOf(w) \in Clusters /\ (w.op # "driver" => w.of \in Clusters)
BY HandlesAssumption DEF ClusterOf, Call, Keys

\* A step of c to place q with the call w in hand.
LEMMA GoToTypes ==
    ASSUME TypeOK, NEW c \in Callers, NEW q \in Place, GoTo(c, q), UNCHANGED want
    PROVE  pc' \in [Callers -> Place] /\ want' \in [Callers -> Call]
BY DEF TypeOK, GoTo

LEMMA EndsTypes ==
    ASSUME TypeOK, NEW c \in Callers, Ends(c)
    PROVE  pc' \in [Callers -> Place] /\ want' \in [Callers -> Call]
BY NoCallIsCall DEF TypeOK, Ends, GoTo, Place

LEMMA GoToFits ==
    ASSUME TypeInv, NEW c \in Callers, NEW q \in Place, GoTo(c, q), UNCHANGED <<want, mine>>,
           q \in Using => mine[c] \in Instances,
           q \in Paying => want[c].op = "funds",
           q = "driver" => want[c].op = "driver"
    PROVE  PlacesFit'
BY DEF TypeInv, TypeOK, PlacesFit, GoTo

LEMMA EndsFits ==
    ASSUME TypeInv, NEW c \in Callers, Ends(c), UNCHANGED mine
    PROVE  PlacesFit'
BY DEF TypeInv, TypeOK, PlacesFit, Ends, GoTo, Using, Paying

LEMMA RequestedTypes ==
    ASSUME TypeOK, NEW i \in Instances \cup {0}, NEW k \in Keys
    PROVE  Requested(i, k) \in [Instances -> [Keys -> Promise]]
BY DEF TypeOK, Requested, Promise

LEMMA NewTableTypes ==
    ASSUME TypeOK, NEW i \in Instances, NEW d \in Drivers
    PROVE  NewTable(i, d) \in [Instances -> [Keys -> Promise]]
BY DEF TypeOK, NewTable, Promise

\* What getDriverContract comes to, for a call that asks for a driver.
LEMMA AnsweredTypes ==
    ASSUME TypeInv, NEW c \in Callers, mine[c] \in Instances, want[c].op = "driver",
           NEW got, got \in {want[c].of, "undefined", "rejected"}, Answered(c, got)
    PROVE  want[c].of \in Drivers /\ answers' \subseteq Answer
<1>1. want[c].of \in Drivers
  BY DEF TypeInv, TypeOK, Call
<1> QED BY <1>1 DEF TypeInv, TypeOK, Answered, Answer

LEMMA TypeInvariant == Spec => []TypeInv
<1>1. Init => TypeInv
  <2> SUFFICES ASSUME Init PROVE TypeInv
    OBVIOUS
  <2>1. pc \in [Callers -> Place] /\ want \in [Callers -> Call]
    BY NoCallIsCall DEF Init, Place
  <2>2. cache \in [Instances -> [Keys -> Promise]]
    BY DEF Init, Promise
  <2>3. sent \in [Clusters -> Nat] /\ funds \in [Clusters -> Nat]
    BY DEF Init
  <2>4. /\ logged \in 0..MaxLogs /\ made \in 0..MaxInstances /\ faults \in 0..MaxFaults
        /\ logger \in [on : BOOLEAN, initial : 0..MaxLogs, pointer : 0..MaxLogs]
        /\ from \in [Callers -> 0..MaxLogs] /\ next \in [Callers -> 0..MaxLogs]
    BY HandlesAssumption DEF Init
  <2>5. mine \in [Callers -> Instances \cup {0}] /\ context \in Instances \cup {0}
    BY DEF Init
  <2>6. PlacesFit
    BY DEF Init, PlacesFit, Using, Paying
  <2> QED BY <2>1, <2>2, <2>3, <2>4, <2>5, <2>6 DEF Init, TypeInv, TypeOK
<1>2. TypeInv /\ [Next]_vars => TypeInv'
  <2> SUFFICES ASSUME TypeInv, [Next]_vars PROVE TypeInv'
    OBVIOUS
  <2> USE DEF TypeInv, caches
  <2>0. Place = {"idle", "connect", "system", "main", "driver", "logger",
                 "balance", "deposit", "arrival", "log", "logs"}
    BY DEF Place
  <2>1. ASSUME NEW c \in Callers, InitDevPhase(c) PROVE TypeInv'
    <3>1. made + 1 \in Instances
      BY <2>1, HandlesAssumption DEF InitDevPhase, TypeOK, Instances
    <3>2. PlacesFit'
      BY <2>1, <3>1, <2>0 DEF InitDevPhase, TypeOK, PlacesFit, GoTo, Paying
    <3>3. pc' \in [Callers -> Place] /\ want' \in [Callers -> Call]
      BY <2>1, <2>0, GoToTypes DEF InitDevPhase
    <3>4. made' \in 0..MaxInstances
      BY <3>1, <2>1 DEF InitDevPhase, Instances, TypeOK
    <3> QED BY <2>1, <3>1, <3>2, <3>3, <3>4 DEF InitDevPhase, TypeOK, money, logs
  <2>2. ASSUME NEW c \in Callers, CreateFails(c) PROVE TypeInv'
    <3>1. PlacesFit'
      BY <2>2 DEF CreateFails, TypeOK, PlacesFit, Ends, GoTo, Using, Paying
    <3>2. mine[c] \in Instances
      BY <2>2, <2>0 DEF CreateFails, PlacesFit, Using
    <3> QED BY <2>2, <3>1, <3>2, EndsTypes, HandlesAssumption DEF CreateFails, TypeOK, money, logs, Fault
  <2>3. ASSUME NEW c \in Callers, GetDevPhase(c) PROVE TypeInv'
    BY <2>3 DEF GetDevPhase, TypeOK, PlacesFit, money, logs, Using
  <2>4. ASSUME NEW c \in Callers, Cleanup(c) PROVE TypeInv'
    BY <2>4 DEF Cleanup, TypeOK, PlacesFit, money, logs
  <2>5. ASSUME NEW c \in Callers, NEW w \in Call, Ask(c, w) PROVE TypeInv'
    <3>1. cache' \in [Instances -> [Keys -> Promise]]
      BY <2>5, RequestedTypes, ClusterOfCall DEF Ask, TypeOK, Keys
    <3>2. PlacesFit'
      <4>1. mine[c] \in Instances /\ pc' = [pc EXCEPT ![c] = "system"]
            /\ want' = [want EXCEPT ![c] = w] /\ UNCHANGED mine
        BY <2>5 DEF Ask, GoTo, TypeOK, context_
      <4> QED BY <4>1 DEF TypeOK, PlacesFit, Paying
    <3>3. pc' \in [Callers -> Place] /\ want' \in [Callers -> Call]
      BY <2>5, <2>0 DEF Ask, TypeOK, GoTo
    <3>4. retried' \subseteq Clusters
      <4>1. Beside(w) # {} => w.of \in Clusters
        BY ClusterOfCall DEF Beside
      <4> QED BY <4>1, <2>5 DEF Ask, TypeOK
    <3> QED BY <2>5, <3>1, <3>2, <3>3, <3>4 DEF Ask, TypeOK, context_, logs
  <2>6. ASSUME NEW c \in Callers, NEW p \in {0, logger.pointer}, NewLogs(c, p) PROVE TypeInv'
    <3>1. pc' \in [Callers -> Place] /\ want' \in [Callers -> Call]
      BY <2>6, <2>0, GoToTypes DEF NewLogs
    <3>2. PlacesFit'
      BY <2>6, <2>0, GoToFits DEF NewLogs, context_, Using, Paying
    <3>3. p \in 0..MaxLogs
      BY HandlesAssumption DEF TypeOK
    <3> QED BY <2>6, <3>1, <3>2, <3>3 DEF NewLogs, TypeOK, context_, money
  <2>7. ASSUME NEW c \in Callers, QueryFails(c) PROVE TypeInv'
    <3>1. from' \in [Callers -> 0..MaxLogs]
      BY <2>7, HandlesAssumption DEF QueryFails, TypeOK
    <3> QED BY <2>7, <3>1, EndsTypes, EndsFits, HandlesAssumption
            DEF QueryFails, TypeOK, context_, money, Fault
  <2>8. ASSUME NEW i \in Instances, NEW k \in Keys, Resolve(i, k) PROVE TypeInv'
    BY <2>8 DEF Resolve, TypeOK, PlacesFit, context_, money, logs, Promise
  <2>9. ASSUME NEW i \in Instances, NEW k \in Keys, Reject(i, k) PROVE TypeInv'
    <3>1. faults' \in 0..MaxFaults
      BY <2>9, HandlesAssumption DEF Reject, Fault, TypeOK
    <3>2. cache' \in [Instances -> [Keys -> Promise]]
      BY <2>9 DEF Reject, TypeOK, Promise
    <3> QED BY <2>9, <3>1, <3>2 DEF Reject, TypeOK, PlacesFit, context_, money, logs
  <2>10. ASSUME NEW k \in Clusters, Arrive(k) PROVE TypeInv'
    BY <2>10 DEF Arrive, TypeOK, PlacesFit, context_, logs
  <2>11. ASSUME NEW k \in Keys, Provide(k) PROVE TypeInv'
    BY <2>11 DEF Provide, TypeOK, PlacesFit, context_, money, logs
  <2>12. ASSUME Write PROVE TypeInv'
    <3>1. logged' \in 0..MaxLogs
      BY <2>12, HandlesAssumption DEF Write, TypeOK
    <3> QED BY <2>12, <3>1 DEF Write, TypeOK, PlacesFit, context_, money
  <2>13. ASSUME NEW c \in Callers, Created(c) PROVE TypeInv'
    BY <2>13, EndsTypes, EndsFits DEF Created, TypeOK, money, logs
  <2>14. ASSUME NEW c \in Callers, GotSystem(c) PROVE TypeInv'
    <3>1. mine[c] \in Instances
      BY <2>14, <2>0 DEF GotSystem, PlacesFit, Using
    <3>2. CASE want[c].op = "driver"
      <4>1. AskDriver(c) /\ UNCHANGED <<script, context_, there, money, logs, faults>>
        BY <2>14, <3>2 DEF GotSystem
      <4>2. want[c].of \in Drivers
        BY <3>2 DEF TypeOK, Call
      <4>3. cache' \in [Instances -> [Keys -> Promise]] /\ tables' \subseteq Instances
        BY <3>1, <4>1, <4>2, NewTableTypes DEF AskDriver, TypeOK
      <4>4. CASE Ends(c) /\ Answered(c, "undefined")
        <5>1. answers' \subseteq Answer
          BY <3>1, <3>2, <4>4, AnsweredTypes
        <5> QED BY <4>1, <4>3, <4>4, <5>1, EndsTypes, EndsFits DEF TypeOK, context_, money, logs
      <4>5. CASE GoTo(c, "driver") /\ UNCHANGED <<want, answers>>
        <5>1. PlacesFit'
          BY <4>1, <4>5, <2>0, <3>1, <3>2, GoToFits DEF context_, Paying
        <5> QED BY <4>1, <4>3, <4>5, <5>1, <2>0, GoToTypes DEF TypeOK, context_, money, logs
      <4> QED BY <4>1, <4>4, <4>5 DEF AskDriver
    <3>3. CASE want[c].op = "logger"
      <4>1. GoTo(c, "logger") /\ UNCHANGED <<want, caches>>
        BY <2>14, <3>3 DEF GotSystem
      <4>2. PlacesFit'
        BY <2>14, <4>1, <2>0, <3>1, GoToFits DEF GotSystem, context_, Paying
      <4> QED BY <2>14, <4>1, <4>2, <2>0, GoToTypes DEF GotSystem, TypeOK, context_, money, logs
    <3>4. CASE want[c].op = "funds"
      <4>1. /\ GoTo(c, "main") /\ cache' = Requested(mine[c], Main)
            /\ UNCHANGED <<want, tables, answers>>
        BY <2>14, <3>4 DEF GotSystem
      <4>2. PlacesFit'
        BY <2>14, <4>1, <2>0, <3>1, <3>4, GoToFits DEF GotSystem, context_
      <4>3. cache' \in [Instances -> [Keys -> Promise]]
        BY <4>1, <3>1, RequestedTypes, HandlesAssumption DEF Keys
      <4> QED BY <2>14, <4>1, <4>2, <4>3, <2>0, GoToTypes
              DEF GotSystem, TypeOK, context_, money, logs
    <3>5. CASE want[c].op \notin {"driver", "logger", "funds"}
      <4>1. Ends(c) /\ UNCHANGED caches
        BY <2>14, <3>5 DEF GotSystem
      <4> QED BY <2>14, <4>1, EndsTypes, EndsFits DEF GotSystem, TypeOK, context_, money, logs
    <3> QED BY <3>2, <3>3, <3>4, <3>5
  <2>15. ASSUME NEW c \in Callers, GotDriver(c) \/ Rejected(c) PROVE TypeInv'
    <3>1. /\ Ends(c) /\ mine[c] \in Instances
          /\ UNCHANGED <<script, context_, cache, tables, there, money, logs, faults>>
      BY <2>15, <2>0 DEF GotDriver, Rejected, Got, PlacesFit, Using
    <3>2. \/ UNCHANGED answers
          \/ want[c].op = "driver" /\ Answered(c, want[c].of)
          \/ want[c].op = "driver" /\ Answered(c, "rejected")
      BY <2>15 DEF GotDriver, Rejected, Got, PlacesFit
    <3>3. answers' \subseteq Answer
      BY <3>1, <3>2, AnsweredTypes DEF TypeOK
    <3> QED BY <3>1, <3>3, EndsTypes, EndsFits DEF TypeOK, context_, money, logs
  <2>16. ASSUME NEW c \in Callers, GotMain(c) PROVE TypeInv'
    <3>1. PlacesFit'
      BY <2>16, <2>0, GoToFits DEF GotMain, Got, context_, PlacesFit, Using, Paying
    <3> QED BY <2>16, <3>1, <2>0, GoToTypes DEF GotMain, TypeOK, context_, money, logs
  <2>17. ASSUME NEW c \in Callers, Enough(c) \/ Arrived(c) PROVE TypeInv'
    <3>1. want[c].of \in Clusters
      BY <2>17, ClusterOfCall DEF Enough, Arrived, PlacesFit, TypeOK, Paying
    <3>2. Ends(c) /\ ensured' = ensured \cup {want[c].of}
          /\ UNCHANGED <<script, context_, caches, there, sent, funds, retried, logs, faults>>
      BY <2>17 DEF Enough, Arrived, Ensured
    <3> QED BY <3>1, <3>2, EndsTypes, EndsFits DEF TypeOK, context_, logs
  <2>18. ASSUME NEW c \in Callers, Deposit(c) PROVE TypeInv'
    <3>1. PlacesFit'
      BY <2>18, <2>0, GoToFits DEF Deposit, context_, PlacesFit, Using, Paying
    <3>2. pc' \in [Callers -> Place] /\ want' \in [Callers -> Call]
      BY <2>18, <2>0, GoToTypes DEF Deposit
    <3>3. sent' \in [Clusters -> Nat]
      <4> DEFINE k == want[c].of
      <4>1. k \in Clusters
        BY <2>18, ClusterOfCall DEF Deposit, PlacesFit, TypeOK, Paying
      <4>2. sent' = [sent EXCEPT ![k] = sent[k] + 1] /\ sent[k] \in Nat
        BY <2>18, <4>1 DEF Deposit, TypeOK
      <4> HIDE DEF k
      <4> QED BY <4>1, <4>2 DEF TypeOK
    <3> QED BY <2>18, <3>1, <3>2, <3>3 DEF Deposit, TypeOK, context_, logs
  <2>19. ASSUME NEW c \in Callers, Deposited(c) PROVE TypeInv'
    <3>1. PlacesFit'
      BY <2>19, <2>0, GoToFits DEF Deposited, context_, PlacesFit, Using, Paying
    <3> QED BY <2>19, <3>1, <2>0, GoToTypes DEF Deposited, TypeOK, context_, money, logs
  <2>20. ASSUME NEW c \in Callers, DepositFails(c) PROVE TypeInv'
    <3>1. want[c].of \in Clusters
      BY <2>20, ClusterOfCall DEF DepositFails, PlacesFit, TypeOK, Paying
    <3>2. sent' \in [Clusters -> Nat]
      BY <2>20, <3>1 DEF DepositFails, TypeOK
    <3>3. faults' \in 0..MaxFaults
      BY <2>20, HandlesAssumption DEF DepositFails, Fault, TypeOK
    <3> QED BY <2>20, <3>1, <3>2, <3>3, EndsTypes, EndsFits DEF DepositFails, TypeOK, context_, logs
  <2>21. ASSUME NEW c \in Callers, CreateLogger(c) PROVE TypeInv'
    <3>1. logger' \in [on : BOOLEAN, initial : 0..MaxLogs, pointer : 0..MaxLogs]
      BY <2>21 DEF CreateLogger, TypeOK
    <3> QED BY <2>21, <3>1, EndsTypes, EndsFits DEF CreateLogger, TypeOK, context_, money
  <2>22. ASSUME NEW c \in Callers, GetLog(c) PROVE TypeInv'
    <3>1. pc' \in [Callers -> Place] /\ want' \in [Callers -> Call]
      BY <2>22, <2>0, GoToTypes DEF GetLog
    <3>2. PlacesFit'
      BY <2>22, <2>0, GoToFits DEF GetLog, context_, Using, Paying
    <3> QED BY <2>22, <3>1, <3>2 DEF GetLog, TypeOK, context_, money
  <2>23. ASSUME NEW c \in Callers, TakeLogs(c) PROVE TypeInv'
    <3>1. next[c] \in 0..MaxLogs /\ from[c] \in 0..MaxLogs
      BY DEF TypeOK
    <3>2. (from[c] + 1)..next[c] \subseteq 1..MaxLogs
      BY <3>1, HandlesAssumption
    <3>3. logger' \in [on : BOOLEAN, initial : 0..MaxLogs, pointer : 0..MaxLogs]
      BY <2>23, <3>1 DEF TakeLogs, NextPointer, TypeOK
    <3>4. read' \subseteq 1..MaxLogs /\ reread' \subseteq 1..MaxLogs
      BY <2>23, <3>2 DEF TakeLogs, TypeOK
    <3>5. from' \in [Callers -> 0..MaxLogs] /\ next' \in [Callers -> 0..MaxLogs]
      BY <2>23, HandlesAssumption DEF TakeLogs, TypeOK
    <3> QED BY <2>23, <3>3, <3>4, <3>5, EndsTypes, EndsFits DEF TakeLogs, TypeOK, context_, money
  <2>24. CASE UNCHANGED vars
    BY <2>24 DEF vars, context_, money, logs, TypeOK, PlacesFit
  <2> QED BY <2>1, <2>2, <2>3, <2>4, <2>5, <2>6, <2>7, <2>8, <2>9, <2>10, <2>11, <2>12, <2>13,
             <2>14, <2>15, <2>16, <2>17, <2>18, <2>19, <2>20, <2>21, <2>22, <2>23, <2>24
          DEF Next, Proceed, Settle
<1> QED BY <1>1, <1>2, PTL DEF Spec

\* Every state is well typed.
THEOREM TypeCorrect == Spec => []TypeOK
BY TypeInvariant, PTL DEF TypeInv

-----------------------------------------------------------------------------
(* Connections.                                                              *)

Connecting == {c \in Callers : pc[c] = "connect"}

\* Until two calls of initDevPhase overlapped, one at most is connecting, with
\* nothing stored.
HeldInv ==
    /\ ConnectionsAreHeld
    /\ ~crossed => \A c, d \in Connecting : c = d /\ context = 0

\* What a step does that neither begins nor ends a call of initDevPhase.
Unconnected ==
    /\ UNCHANGED <<context, crossed, stranded>>
    /\ open' \subseteq open
    /\ Connecting' = Connecting
    /\ \A c \in Connecting : mine'[c] = mine[c]

LEMMA GoToUnconnected ==
    ASSUME TypeOK, NEW c \in Callers, NEW q, GoTo(c, q), pc[c] # "connect", q # "connect",
           UNCHANGED context_
    PROVE  Unconnected
BY DEF TypeOK, GoTo, Unconnected, Connecting, context_

LEMMA EndsUnconnected ==
    ASSUME TypeOK, NEW c \in Callers, Ends(c), pc[c] # "connect", UNCHANGED context_
    PROVE  Unconnected
BY GoToUnconnected DEF Ends

LEMMA OthersAreUnconnected ==
    ASSUME TypeInv, [Next]_vars,
           ~ \E c \in Callers : InitDevPhase(c) \/ Created(c) \/ CreateFails(c)
    PROVE  Unconnected
<1> USE DEF TypeInv
<1>1. ASSUME NEW c \in Callers, GetDevPhase(c) \/ Cleanup(c) PROVE Unconnected
  BY <1>1 DEF GetDevPhase, Cleanup, TypeOK, Unconnected, Connecting
<1>2. ASSUME NEW c \in Callers, NEW w \in Call, Ask(c, w) PROVE Unconnected
  BY <1>2, GoToUnconnected DEF Ask
<1>3. ASSUME NEW c \in Callers, NEW p \in {0, logger.pointer}, NewLogs(c, p) PROVE Unconnected
  BY <1>3, GoToUnconnected DEF NewLogs
<1>4. ASSUME NEW c \in Callers, QueryFails(c) PROVE Unconnected
  BY <1>4, EndsUnconnected DEF QueryFails
<1>5. ASSUME UNCHANGED <<pc, context_>> PROVE Unconnected
  BY <1>5 DEF context_, Unconnected, Connecting
<1>6. ASSUME NEW i \in Instances, NEW k \in Keys, Resolve(i, k) \/ Reject(i, k) PROVE Unconnected
  BY <1>5, <1>6 DEF Resolve, Reject
<1>7. ASSUME NEW k \in Clusters, Arrive(k) PROVE Unconnected
  BY <1>5, <1>7 DEF Arrive
<1>8. ASSUME NEW k \in Keys, Provide(k) PROVE Unconnected
  BY <1>5, <1>8 DEF Provide
<1>9. ASSUME Write PROVE Unconnected
  BY <1>5, <1>9 DEF Write
<1>10. ASSUME NEW c \in Callers, GotSystem(c) PROVE Unconnected
  <2>1. pc[c] = "system" /\ UNCHANGED context_
    BY <1>10 DEF GotSystem
  <2>2. Ends(c) \/ GoTo(c, "driver") \/ GoTo(c, "logger") \/ GoTo(c, "main")
    BY <1>10 DEF GotSystem, AskDriver
  <2> QED BY <2>1, <2>2, GoToUnconnected, EndsUnconnected
<1>11. ASSUME NEW c \in Callers, GotDriver(c) \/ Rejected(c) PROVE Unconnected
  BY <1>11, EndsUnconnected DEF GotDriver, Got, Rejected
<1>12. ASSUME NEW c \in Callers, GotMain(c) PROVE Unconnected
  BY <1>12, GoToUnconnected DEF GotMain, Got
<1>13. ASSUME NEW c \in Callers, Enough(c) \/ Arrived(c) PROVE Unconnected
  BY <1>13, EndsUnconnected DEF Enough, Arrived, Ensured
<1>14. ASSUME NEW c \in Callers, Deposit(c) PROVE Unconnected
  BY <1>14, GoToUnconnected DEF Deposit
<1>15. ASSUME NEW c \in Callers, Deposited(c) PROVE Unconnected
  BY <1>15, GoToUnconnected DEF Deposited
<1>16. ASSUME NEW c \in Callers, DepositFails(c) PROVE Unconnected
  BY <1>16, EndsUnconnected DEF DepositFails
<1>17. ASSUME NEW c \in Callers, CreateLogger(c) PROVE Unconnected
  BY <1>17, EndsUnconnected DEF CreateLogger
<1>18. ASSUME NEW c \in Callers, GetLog(c) PROVE Unconnected
  BY <1>18, GoToUnconnected DEF GetLog
<1>19. ASSUME NEW c \in Callers, TakeLogs(c) PROVE Unconnected
  BY <1>19, EndsUnconnected DEF TakeLogs
<1>20. CASE UNCHANGED vars
  BY <1>5, <1>20 DEF vars
<1> QED BY <1>1, <1>2, <1>3, <1>4, <1>6, <1>7, <1>8, <1>9, <1>10, <1>11, <1>12, <1>13, <1>14,
           <1>15, <1>16, <1>17, <1>18, <1>19, <1>20 DEF Next, Proceed, Settle

LEMMA HeldInvariant == Spec => []HeldInv
<1>1. Init => HeldInv
  BY DEF Init, HeldInv, ConnectionsAreHeld, Connecting
<1>2. TypeInv /\ HeldInv /\ [Next]_vars => HeldInv'
  <2> SUFFICES ASSUME TypeInv, HeldInv, [Next]_vars, ~crossed' PROVE HeldInv'
    BY DEF HeldInv, ConnectionsAreHeld
  <2> USE DEF TypeInv
  <2>1. ASSUME NEW c \in Callers, InitDevPhase(c) PROVE HeldInv'
    <3>1. ~crossed /\ Connecting = {} /\ context = 0 /\ context' = 0
      BY <2>1 DEF InitDevPhase, Unset, Connecting, TypeOK
    <3>2. open \subseteq stranded
      BY <3>1 DEF HeldInv, ConnectionsAreHeld, Connecting, TypeOK, Instances
    <3>3. Connecting' = {c}
      BY <2>1, <3>1 DEF InitDevPhase, GoTo, Connecting, TypeOK
    <3>4. mine'[c] = made + 1 /\ open' = open \cup {made + 1} /\ stranded' = stranded
          /\ pc'[c] = "connect"
      BY <2>1 DEF InitDevPhase, GoTo, TypeOK
    <3> QED BY <3>1, <3>2, <3>3, <3>4 DEF HeldInv, ConnectionsAreHeld
  <2>2. ASSUME NEW c \in Callers, Created(c) \/ CreateFails(c) PROVE HeldInv'
    <3>1. c \in Connecting /\ ~crossed /\ UNCHANGED open
      BY <2>2 DEF Created, CreateFails, Connecting
    <3>2. Connecting = {c} /\ context = 0
      BY <3>1 DEF HeldInv
    <3>3. Connecting' = {}
      BY <2>2, <3>2 DEF Created, CreateFails, Ends, GoTo, Connecting, TypeOK
    <3>4. \A i \in open \ stranded : i = mine[c]
      BY <3>1, <3>2 DEF HeldInv, ConnectionsAreHeld, Connecting, TypeOK, Instances
    <3>5. (context' = mine[c] /\ stranded' = stranded) \/ stranded' = stranded \cup {mine[c]}
      BY <2>2 DEF Created, CreateFails
    <3> QED BY <3>1, <3>3, <3>4, <3>5 DEF HeldInv, ConnectionsAreHeld
  <2>3. CASE ~ \E c \in Callers : InitDevPhase(c) \/ Created(c) \/ CreateFails(c)
    <3>1. Unconnected
      BY <2>3, OthersAreUnconnected
    <3>2. \A i \in open \ stranded : i = context \/ \E c \in Connecting : mine[c] = i
      BY <3>1 DEF Unconnected, HeldInv, ConnectionsAreHeld, Connecting
    <3>3. \A i \in open' \ stranded' : i = context' \/ \E c \in Connecting' : mine'[c] = i
      BY <3>1, <3>2 DEF Unconnected
    <3>4. \A c, d \in Connecting' : c = d /\ context' = 0
      BY <3>1 DEF Unconnected, HeldInv
    <3> QED BY <3>3, <3>4 DEF HeldInv, ConnectionsAreHeld, Connecting
  <2> QED BY <2>1, <2>2, <2>3
<1> QED BY <1>1, <1>2, TypeInvariant, PTL DEF Spec

\* Every open connection belongs to the context or to a call of initDevPhase
\* under way, unless two calls overlapped or one failed after it connected.
THEOREM ConnectionsHeld == Spec => []ConnectionsAreHeld
BY HeldInvariant, PTL DEF HeldInv

-----------------------------------------------------------------------------
(* Drivers.                                                                  *)

\* An instance has a table once its system contract is there and a driver was
\* asked for; it never loses an entry.
TablesHold ==
    \A i \in Instances :
        /\ (\E d \in Drivers : cache[i][d] # "none") => i \in tables
        /\ i \in tables => /\ cache[i][Main] = "resolved"
                           /\ \E d \in Drivers : cache[i][d] # "none"

\* What a call came to is what the caches still say.
AnswersHold ==
    \A a \in answers :
        /\ a.got = "undefined" => a.by \in tables /\ cache[a.by][a.asked] = "none"
        /\ a.got \in Drivers => a.got = a.asked /\ cache[a.by][a.asked] = "resolved"
        /\ a.got = "rejected" => \/ cache[a.by][a.asked] = "rejected"
                                 \/ cache[a.by][Main] = "rejected"

DriverInv == TablesHold /\ AnswersHold

LEMMA HoldingAgrees ==
    ASSUME TypeInv, DriverInv
    PROVE  AnswersAgree
<1> USE HandlesAssumption DEF TypeInv, TypeOK
<1>1. ASSUME NEW a \in answers
      PROVE  /\ a.by \in Instances /\ a.asked \in Drivers
             /\ a.got \in Drivers \/ a.got = "undefined" \/ a.got = "rejected"
  BY DEF Answer
<1>2. ASSUME NEW a \in answers, a.got = "undefined"
      PROVE  /\ cache[a.by][a.asked] = "none" /\ cache[a.by][Main] = "resolved"
             /\ \E d \in Drivers \ {a.asked} : cache[a.by][d] # "none"
  BY <1>1, <1>2 DEF DriverInv, TablesHold, AnswersHold
<1>3. ASSUME NEW a \in answers, a.got \in Drivers
      PROVE  /\ a.got = a.asked
             /\ cache[a.by][a.asked] = "resolved" /\ cache[a.by][Main] = "resolved"
  BY <1>1, <1>3 DEF DriverInv, TablesHold, AnswersHold
<1>4. ASSUME NEW a \in answers, a.got = "rejected"
      PROVE  cache[a.by][a.asked] = "rejected" \/ cache[a.by][Main] = "rejected"
  BY <1>4 DEF DriverInv, AnswersHold
<1>5. ASSUME NEW a \in answers, NEW b \in answers, a.by = b.by, a.asked = b.asked
      PROVE  a.got = b.got
  <2>1. CASE a.got = "undefined"
    BY <1>1, <1>2, <1>3, <1>4, <1>5, <2>1
  <2>2. CASE a.got \in Drivers
    BY <1>1, <1>2, <1>3, <1>4, <1>5, <2>2
  <2>3. CASE a.got = "rejected"
    BY <1>1, <1>2, <1>3, <1>4, <1>5, <2>3
  <2> QED BY <1>1, <2>1, <2>2, <2>3
<1> QED BY <1>2, <1>3, <1>5 DEF AnswersAgree

\* What a step does that settles promises or asks for a system contract.
Settling ==
    /\ UNCHANGED <<tables, answers>>
    /\ \A i \in Instances : \A k \in Keys :
        \/ cache'[i][k] = cache[i][k]
        \/ cache[i][k] = "pending" /\ cache'[i][k] \in Settled
        \/ k \in Clusters /\ cache[i][k] = "none"

LEMMA RequestedSettles ==
    ASSUME TypeOK, NEW i, NEW k \in Clusters, cache' = Requested(i, k), UNCHANGED <<tables, answers>>
    PROVE  Settling
BY DEF TypeOK, Requested, Settling

LEMMA SettlingHolds ==
    ASSUME TypeInv, DriverInv, Settling
    PROVE  DriverInv'
<1> USE HandlesAssumption DEF TypeInv, TypeOK, Settling, Settled
<1>0. Drivers \subseteq Keys /\ Main \in Keys /\ Drivers \cap Clusters = {}
  BY DEF Keys
<1>1. ASSUME NEW i \in Instances, NEW d \in Drivers
      PROVE  /\ cache'[i][d] = "none" <=> cache[i][d] = "none"
             /\ cache[i][d] \in Settled => cache'[i][d] = cache[i][d]
  BY <1>0
<1>2. ASSUME NEW i \in Instances
      PROVE  cache[i][Main] \in Settled => cache'[i][Main] = cache[i][Main]
  BY <1>0
<1>3. TablesHold'
  <2>1. ASSUME NEW i \in Instances, NEW d \in Drivers, cache'[i][d] # "none" PROVE i \in tables'
    BY <1>1, <2>1 DEF DriverInv, TablesHold
  <2>2. ASSUME NEW i \in Instances, i \in tables'
        PROVE  cache'[i][Main] = "resolved" /\ \E d \in Drivers : cache'[i][d] # "none"
    <3>1. cache[i][Main] = "resolved" /\ \E d \in Drivers : cache[i][d] # "none"
      BY <2>2 DEF DriverInv, TablesHold
    <3> QED BY <3>1, <1>1, <1>2
  <2> QED BY <2>1, <2>2 DEF TablesHold
<1>4. \A a \in answers : a.by \in Instances /\ a.asked \in Drivers
  BY DEF Answer
<1>5. AnswersHold'
  BY <1>1, <1>2, <1>4 DEF DriverInv, AnswersHold
<1> QED BY <1>3, <1>5 DEF DriverInv

LEMMA OthersSettle ==
    ASSUME TypeInv, [Next]_vars,
           ~ \E c \in Callers : GotSystem(c) \/ GotDriver(c) \/ Rejected(c)
    PROVE  Settling
<1> USE DEF TypeInv
<1>1. ASSUME UNCHANGED caches PROVE Settling
  BY <1>1 DEF caches, Settling
<1>2. ASSUME NEW c \in Callers, NEW w \in Call, Ask(c, w) PROVE Settling
  BY <1>2, RequestedSettles, ClusterOfCall DEF Ask
<1>3. ASSUME NEW i \in Instances, NEW k \in Keys, Resolve(i, k) PROVE Settling
  BY <1>3 DEF Resolve, Settling, Settled, TypeOK
<1>4. ASSUME NEW i \in Instances, NEW k \in Keys, Reject(i, k) PROVE Settling
  BY <1>4 DEF Reject, Settling, Settled, TypeOK
<1>5. ASSUME NEW c \in Callers,
             \/ InitDevPhase(c) \/ CreateFails(c) \/ GetDevPhase(c) \/ Cleanup(c)
             \/ (\E p \in {0, logger.pointer} : NewLogs(c, p))
             \/ Created(c) \/ QueryFails(c)
      PROVE  Settling
  BY <1>1, <1>5 DEF InitDevPhase, CreateFails, GetDevPhase, Cleanup, NewLogs, Created, QueryFails
<1>6. ASSUME NEW c \in Callers,
             \/ GotMain(c) \/ Enough(c) \/ Deposit(c) \/ Deposited(c) \/ Arrived(c)
             \/ DepositFails(c) \/ CreateLogger(c) \/ GetLog(c) \/ TakeLogs(c)
      PROVE  Settling
  BY <1>1, <1>6 DEF GotMain, Enough, Deposit, Deposited, Arrived, DepositFails, CreateLogger,
                    GetLog, TakeLogs
<1>7. ASSUME Write \/ (\E k \in Clusters : Arrive(k)) \/ (\E k \in Keys : Provide(k)) PROVE Settling
  BY <1>1, <1>7 DEF Write, Arrive, Provide
<1>8. CASE UNCHANGED vars
  BY <1>1, <1>8 DEF vars
<1> QED BY <1>2, <1>3, <1>4, <1>5, <1>6, <1>7, <1>8 DEF Next, Proceed, Settle

\* A call that ends with an answer the caches bear out.
LEMMA AnsweredHolds ==
    ASSUME TypeInv, DriverInv, NEW c \in Callers, NEW got, Answered(c, got),
           UNCHANGED <<cache, tables>>,
           got = "undefined" => mine[c] \in tables /\ cache[mine[c]][want[c].of] = "none",
           got \in Drivers => got = want[c].of /\ cache[mine[c]][want[c].of] = "resolved",
           got = "rejected" => \/ cache[mine[c]][want[c].of] = "rejected"
                               \/ cache[mine[c]][Main] = "rejected"
    PROVE  DriverInv'
<1>1. TablesHold'
  BY DEF DriverInv, TablesHold
<1>2. AnswersHold'
  BY DEF DriverInv, AnswersHold, Answered
<1> QED BY <1>1, <1>2 DEF DriverInv

LEMMA DriverInvariant == Spec => []DriverInv
<1>1. Init => DriverInv
  BY HandlesAssumption DEF Init, DriverInv, TablesHold, AnswersHold, Keys
<1>2. TypeInv /\ DriverInv /\ [Next]_vars => DriverInv'
  <2> SUFFICES ASSUME TypeInv, DriverInv, [Next]_vars PROVE DriverInv'
    OBVIOUS
  <2> USE DEF TypeInv
  <2>1. ASSUME NEW c \in Callers, pc[c] # "idle", want[c].op = "driver"
        PROVE  want[c].of \in Drivers /\ ClusterOf(want[c]) = Main
    BY <2>1, HandlesAssumption DEF TypeOK, Call, ClusterOf
  <2>2. ASSUME NEW c \in Callers, GotSystem(c) PROVE DriverInv'
    <3> DEFINE i == mine[c]  d == want[c].of
    <3>1. pc[c] = "system" /\ i \in Instances /\ cache[i][ClusterOf(want[c])] = "resolved"
      BY <2>2 DEF GotSystem, PlacesFit, Using, Place
    <3>2. CASE want[c].op = "driver"
      <4>1. AskDriver(c)
        BY <2>2, <3>2 DEF GotSystem
      <4>2. d \in Drivers /\ cache[i][Main] = "resolved" /\ d \in Keys /\ Main \in Keys /\ Main \notin Drivers
        BY <2>1, <3>1, <3>2, HandlesAssumption DEF Keys
      <4>3. CASE i \in tables
        <5>1. UNCHANGED <<cache, tables>>
          BY <4>1, <4>3 DEF AskDriver, Tabled
        <5>2. CASE cache[i][d] = "none"
          BY <4>1, <4>3, <5>1, <5>2, AnsweredHolds, HandlesAssumption DEF AskDriver
        <5>3. CASE cache[i][d] # "none"
          BY <4>1, <5>1, <5>3 DEF AskDriver, DriverInv, TablesHold, AnswersHold
        <5> QED BY <5>2, <5>3
      <4>4. CASE i \notin tables
        <5>1. cache' = NewTable(i, d) /\ tables' = tables \cup {i}
          BY <4>1, <4>4 DEF AskDriver, Tabled
        <5>2. /\ cache'[i][d] = "pending" /\ cache'[i][Main] = cache[i][Main]
              /\ \A e \in Drivers \ {d} : cache'[i][e] = "none"
              /\ \A j \in Instances \ {i} : cache'[j] = cache[j]
          BY <5>1, <4>2, <3>1 DEF NewTable, TypeOK, Keys
        <5>3. UNCHANGED answers
          BY <4>1, <5>2 DEF AskDriver
        <5>4. \A e \in Drivers : cache[i][e] = "none"
          BY <4>4, <3>1 DEF DriverInv, TablesHold
        <5>5. TablesHold'
          BY <4>2, <5>1, <5>2 DEF DriverInv, TablesHold
        <5>6. \A a \in answers : a.by \in Instances /\ a.asked \in Drivers
          BY DEF TypeOK, Answer
        <5>7. \A a \in answers : a.by = i => a.got # "undefined" /\ a.got \notin Drivers
                                             /\ (a.got # "rejected")
          BY <4>2, <4>4, <5>4, <5>6 DEF DriverInv, AnswersHold
        <5>8. AnswersHold'
          BY <5>1, <5>2, <5>3, <5>6, <5>7 DEF DriverInv, AnswersHold, Answer, TypeOK
        <5> QED BY <5>5, <5>8 DEF DriverInv
      <4> QED BY <4>3, <4>4
    <3>3. CASE want[c].op = "funds"
      <4>1. Settling
        BY <2>2, <3>3, RequestedSettles, HandlesAssumption DEF GotSystem
      <4> QED BY <4>1, SettlingHolds
    <3>4. CASE want[c].op \notin {"driver", "funds"}
      <4>1. Settling
        BY <2>2, <3>4 DEF GotSystem, Settling, caches
      <4> QED BY <4>1, SettlingHolds
    <3> QED BY <3>2, <3>3, <3>4
  <2>3. ASSUME NEW c \in Callers, GotDriver(c) PROVE DriverInv'
    <3>1. /\ Answered(c, want[c].of) /\ UNCHANGED <<cache, tables>>
          /\ want[c].of \in Drivers /\ cache[mine[c]][want[c].of] = "resolved"
      BY <2>1, <2>3 DEF GotDriver, Got, PlacesFit
    <3> QED BY <3>1, AnsweredHolds, HandlesAssumption
  <2>4. ASSUME NEW c \in Callers, Rejected(c) PROVE DriverInv'
    <3>1. UNCHANGED <<cache, tables>>
      BY <2>4 DEF Rejected
    <3>2. CASE want[c].op = "driver"
      <4>1. /\ Answered(c, "rejected")
            /\ cache[mine[c]][want[c].of] = "rejected" \/ cache[mine[c]][Main] = "rejected"
        BY <2>1, <2>4, <3>2 DEF Rejected
      <4> QED BY <3>1, <4>1, AnsweredHolds, HandlesAssumption
    <3>3. CASE want[c].op # "driver"
      <4>1. Settling
        BY <2>4, <3>1, <3>3 DEF Rejected, Settling
      <4> QED BY <4>1, SettlingHolds
    <3> QED BY <3>2, <3>3
  <2>5. CASE ~ \E c \in Callers : GotSystem(c) \/ GotDriver(c) \/ Rejected(c)
    BY <2>5, OthersSettle, SettlingHolds
  <2> QED BY <2>2, <2>3, <2>4, <2>5
<1> QED BY <1>1, <1>2, TypeInvariant, PTL DEF Spec

\* All calls of getDriverContract on one DevPhase come to the same answer for
\* the same driver, and to none only because another driver has the table.
THEOREM DriverAnswersAgree == Spec => []AnswersAgree
<1>1. TypeInv /\ DriverInv => AnswersAgree
  BY HoldingAgrees
<1> QED BY <1>1, TypeInvariant, DriverInvariant, PTL

-----------------------------------------------------------------------------
(* The log.                                                                  *)

Reading == {c \in Callers : pc[c] \in {"log", "logs"}}

\* Nothing reads before there is a logger; a call under way begins where all
\* before was read; without mixed calls it is the only one, it begins at the
\* pointer, and nothing behind the pointer was read.
LogInv ==
    /\ LogsAreRead
    /\ logger.pointer <= logged
    /\ ~logger.on => Reading = {} /\ logger.pointer = 0
    /\ \A c \in Reading :
        /\ (logger.initial + 1)..from[c] \subseteq read
        /\ pc[c] = "logs" => next[c] <= logged /\ logger.pointer <= logged
    /\ ~mixed =>
        /\ read \subseteq 1..logger.pointer
        /\ \A c, d \in Reading : c = d
        /\ \A c \in Reading : /\ from[c] = logger.pointer
                              /\ pc[c] = "logs" => logger.pointer <= next[c]

\* What a step does that leaves the log alone.
Unlogged == UNCHANGED logs /\ \A c \in Callers : c \in Reading \/ c \in Reading' => pc'[c] = pc[c]

LEMMA GoToUnlogged ==
    ASSUME TypeOK, NEW c \in Callers, NEW q, GoTo(c, q), pc[c] \notin {"log", "logs"},
           q \notin {"log", "logs"}, UNCHANGED logs
    PROVE  Unlogged
BY DEF TypeOK, GoTo, Unlogged, Reading

LEMMA EndsUnlogged ==
    ASSUME TypeOK, NEW c \in Callers, Ends(c), pc[c] \notin {"log", "logs"}, UNCHANGED logs
    PROVE  Unlogged
BY GoToUnlogged DEF Ends

LEMMA OthersAreUnlogged ==
    ASSUME TypeInv, [Next]_vars, ~Write,
           ~ \E c \in Callers : \/ \E p \in {0, logger.pointer} : NewLogs(c, p)
                                \/ GetLog(c) \/ TakeLogs(c) \/ CreateLogger(c) \/ QueryFails(c)
    PROVE  Unlogged
<1> USE DEF TypeInv
<1>1. ASSUME UNCHANGED <<pc, logs>> PROVE Unlogged
  BY <1>1 DEF Unlogged
<1>2. ASSUME NEW c \in Callers, GetDevPhase(c) \/ Cleanup(c) PROVE Unlogged
  BY <1>1, <1>2 DEF GetDevPhase, Cleanup
<1>3. ASSUME NEW c \in Callers, NEW w \in Call, Ask(c, w) PROVE Unlogged
  BY <1>3, GoToUnlogged DEF Ask
<1>4. ASSUME NEW c \in Callers, InitDevPhase(c) PROVE Unlogged
  BY <1>4, GoToUnlogged DEF InitDevPhase
<1>5. ASSUME NEW c \in Callers, CreateFails(c) \/ Created(c) PROVE Unlogged
  BY <1>5, EndsUnlogged DEF CreateFails, Created
<1>6. ASSUME NEW i \in Instances, NEW k \in Keys, Resolve(i, k) \/ Reject(i, k) PROVE Unlogged
  BY <1>1, <1>6 DEF Resolve, Reject
<1>7. ASSUME NEW k \in Clusters, Arrive(k) PROVE Unlogged
  BY <1>1, <1>7 DEF Arrive
<1>8. ASSUME NEW k \in Keys, Provide(k) PROVE Unlogged
  BY <1>1, <1>8 DEF Provide
<1>9. ASSUME NEW c \in Callers, GotSystem(c) PROVE Unlogged
  <2>1. pc[c] = "system" /\ UNCHANGED logs
    BY <1>9 DEF GotSystem
  <2>2. Ends(c) \/ GoTo(c, "driver") \/ GoTo(c, "logger") \/ GoTo(c, "main")
    BY <1>9 DEF GotSystem, AskDriver
  <2> QED BY <2>1, <2>2, GoToUnlogged, EndsUnlogged
<1>10. ASSUME NEW c \in Callers, GotDriver(c) \/ Rejected(c) PROVE Unlogged
  BY <1>10, EndsUnlogged DEF GotDriver, Got, Rejected
<1>11. ASSUME NEW c \in Callers, GotMain(c) PROVE Unlogged
  BY <1>11, GoToUnlogged DEF GotMain, Got
<1>12. ASSUME NEW c \in Callers, Enough(c) \/ Arrived(c) PROVE Unlogged
  BY <1>12, EndsUnlogged DEF Enough, Arrived, Ensured
<1>13. ASSUME NEW c \in Callers, Deposit(c) PROVE Unlogged
  BY <1>13, GoToUnlogged DEF Deposit
<1>14. ASSUME NEW c \in Callers, Deposited(c) PROVE Unlogged
  BY <1>14, GoToUnlogged DEF Deposited
<1>15. ASSUME NEW c \in Callers, DepositFails(c) PROVE Unlogged
  BY <1>15, EndsUnlogged DEF DepositFails
<1>16. CASE UNCHANGED vars
  BY <1>1, <1>16 DEF vars
<1> QED BY <1>2, <1>3, <1>4, <1>5, <1>6, <1>7, <1>8, <1>9, <1>10, <1>11, <1>12, <1>13, <1>14,
           <1>15, <1>16 DEF Next, Proceed, Settle

LEMMA LogInvariant == Spec => []LogInv
<1>1. Init => LogInv
  <2> SUFFICES ASSUME Init PROVE LogInv
    OBVIOUS
  <2>1. Reading = {} /\ read = {} /\ reread = {} /\ logged = 0 /\ (logger.initial + 1)..logger.pointer = {}
        /\ logger.pointer = 0
    BY DEF Init, Reading
  <2> QED BY <2>1 DEF LogInv, LogsAreRead
<1>2. TypeInv /\ LogInv /\ [Next]_vars => LogInv'
  <2> SUFFICES ASSUME TypeInv, LogInv, [Next]_vars PROVE LogInv'
    OBVIOUS
  <2> USE DEF TypeInv
  <2>0. /\ logged \in Nat /\ logger.pointer \in Nat /\ logger.initial \in Nat
        /\ \A c \in Callers : from[c] \in Nat /\ next[c] \in Nat
        /\ read \subseteq Nat
        /\ logger.on \in BOOLEAN
    BY HandlesAssumption DEF TypeOK
  <2>1. ASSUME Write PROVE LogInv'
    <3>1. logged' = logged + 1 /\ UNCHANGED <<pc, logger, from, next, mixed, read, reread>>
      BY <2>1 DEF Write
    <3> QED BY <3>1, <2>0 DEF LogInv, LogsAreRead, Reading
  <2>2. ASSUME NEW c \in Callers, NEW p \in {0, logger.pointer}, NewLogs(c, p) PROVE LogInv'
    <3>1. /\ logger.on /\ c \notin Reading
          /\ UNCHANGED <<logged, logger, next, read, reread>>
          /\ from' = [from EXCEPT ![c] = p]
          /\ pc' = [pc EXCEPT ![c] = "log"]
          /\ mixed' = (mixed \/ p # logger.pointer \/ Reading # {})
      BY <2>2 DEF NewLogs, GoTo, Reading
    <3>2. Reading' = Reading \cup {c}
      BY <3>1 DEF Reading, TypeOK
    <3>3. (logger.initial + 1)..p \subseteq read
      BY <2>0 DEF LogInv, LogsAreRead
    <3>4. from'[c] = p /\ pc'[c] = "log"
      BY <3>1 DEF TypeOK
    <3>5. \A d \in Reading : from'[d] = from[d] /\ pc'[d] = pc[d]
      BY <3>1 DEF TypeOK, Reading
    <3>6. \A d \in Reading' : /\ (logger'.initial + 1)..from'[d] \subseteq read'
                              /\ pc'[d] = "logs" => next'[d] <= logged' /\ logger'.pointer <= logged'
      BY <3>1, <3>2, <3>3, <3>4, <3>5 DEF LogInv
    <3>7. ~mixed' => ~mixed /\ Reading = {} /\ p = logger.pointer
      BY <3>1
    <3>8. LogsAreRead'
      BY <3>1, <3>7 DEF LogInv, LogsAreRead
    <3>9. ~mixed' => \A d \in Reading' : from'[d] = logger'.pointer /\ pc'[d] = "log" /\ d = c
      BY <3>1, <3>2, <3>4, <3>7
    <3>10. logger'.pointer <= logged' /\ (~logger'.on => Reading' = {} /\ logger'.pointer = 0)
      BY <3>1 DEF LogInv
    <3>11. ASSUME ~mixed'
           PROVE  /\ read' \subseteq 1..logger'.pointer
                  /\ \A d, e \in Reading' : d = e
                  /\ \A d \in Reading' : /\ from'[d] = logger'.pointer
                                         /\ pc'[d] = "logs" => logger'.pointer <= next'[d]
      <4>1. read \subseteq 1..logger.pointer
        BY <3>7, <3>11 DEF LogInv
      <4> QED BY <4>1, <3>1, <3>9, <3>11
    <3> QED BY <3>6, <3>8, <3>10, <3>11 DEF LogInv
  <2>3. ASSUME NEW c \in Callers, GetLog(c) PROVE LogInv'
    <3>1. /\ c \in Reading /\ pc[c] = "log" /\ UNCHANGED <<logged, logger, from, mixed, read, reread>>
          /\ next' = [next EXCEPT ![c] = logged]
          /\ pc' = [pc EXCEPT ![c] = "logs"]
      BY <2>3 DEF GetLog, GoTo, Reading
    <3>2. Reading' = Reading
      BY <3>1 DEF Reading, TypeOK
    <3>3. next'[c] = logged /\ \A d \in Reading \ {c} : next'[d] = next[d] /\ pc'[d] = pc[d]
      BY <3>1 DEF TypeOK, Reading
    <3>4. LogsAreRead'
      BY <3>1 DEF LogInv, LogsAreRead
    <3>5. \A d \in Reading' : /\ (logger'.initial + 1)..from'[d] \subseteq read'
                              /\ pc'[d] = "logs" => next'[d] <= logged' /\ logger'.pointer <= logged'
      BY <3>1, <3>2, <3>3, <2>0 DEF LogInv
    <3>6. ASSUME ~mixed'
          PROVE  \A d \in Reading' : /\ from'[d] = logger'.pointer
                                     /\ pc'[d] = "logs" => logger'.pointer <= next'[d]
      BY <3>1, <3>2, <3>3, <3>6, <2>0 DEF LogInv
    <3> QED BY <3>1, <3>2, <3>4, <3>5, <3>6 DEF LogInv
  <2>4. ASSUME NEW c \in Callers, TakeLogs(c) PROVE LogInv'
    <3> DEFINE got == (from[c] + 1)..next[c]
    <3>1. /\ c \in Reading /\ pc[c] = "logs" /\ UNCHANGED <<logged, mixed>>
          /\ logger' = [logger EXCEPT !.pointer = next[c]]
          /\ read' = read \cup got /\ reread' = reread \cup (read \cap got)
          /\ pc' = [pc EXCEPT ![c] = "idle"]
          /\ from' = [from EXCEPT ![c] = 0] /\ next' = [next EXCEPT ![c] = 0]
      BY <2>4 DEF TakeLogs, NextPointer, Ends, GoTo, Reading
    <3>2. Reading' = Reading \ {c}
      BY <3>1 DEF Reading, TypeOK
    <3>3. logger'.pointer = next[c] /\ logger'.initial = logger.initial /\ logger'.on = logger.on
      BY <3>1 DEF TypeOK
    <3>4. \A d \in Reading' : from'[d] = from[d] /\ pc'[d] = pc[d] /\ next'[d] = next[d]
      BY <3>1, <3>2 DEF TypeOK, Reading
    <3>5. (logger.initial + 1)..next[c] \subseteq read'
      BY <3>1, <2>0 DEF LogInv, Reading
    <3>6. logger.on
      BY <3>1 DEF LogInv
    <3>7. next[c] <= logged
      BY <3>1 DEF LogInv
    <3>8. ASSUME ~mixed PROVE read' \subseteq 1..next[c] /\ reread' = {} /\ Reading' = {}
      <4>1. from[c] = logger.pointer /\ logger.pointer <= next[c] /\ read \subseteq 1..logger.pointer
            /\ Reading = {c} /\ reread = {}
        BY <3>1, <3>8 DEF LogInv, LogsAreRead
      <4>2. read \cap got = {} /\ read \cup got \subseteq 1..next[c]
        <5>1. \A n \in read : 1 <= n /\ n <= logger.pointer
          BY <4>1, <2>0
        <5>2. \A n \in got : 1 <= n /\ n <= next[c] /\ n > from[c]
          BY <3>1, <2>0 DEF Reading
        <5>3. from[c] \in Nat /\ next[c] \in Nat
          BY <2>0
        <5> HIDE DEF got
        <5>4. got \subseteq Nat
          BY <2>0 DEF got
        <5> QED BY <5>1, <5>2, <5>3, <5>4, <4>1, <2>0
      <4> QED BY <4>1, <4>2, <3>1, <3>2
    <3>9. \A d \in Reading' : (logger.initial + 1)..from[d] \subseteq read' /\ (pc[d] = "logs" => next[d] <= logged)
      BY <3>1, <3>2 DEF LogInv
    <3>10. LogsAreRead'
      BY <3>1, <3>3, <3>5, <3>8 DEF LogsAreRead
    <3> QED BY <3>1, <3>2, <3>3, <3>4, <3>6, <3>7, <3>8, <3>9, <3>10 DEF LogInv
  <2>5. ASSUME NEW c \in Callers, CreateLogger(c) PROVE LogInv'
    <3>1. /\ UNCHANGED <<logged, from, next, mixed, read, reread>> /\ c \notin Reading
          /\ \/ UNCHANGED logger
             \/ ~logger.on /\ logger' = [on |-> TRUE, initial |-> logged, pointer |-> logged]
      BY <2>5 DEF CreateLogger, Reading
    <3>2. Reading' = Reading /\ \A d \in Reading : pc'[d] = pc[d]
      BY <2>5 DEF CreateLogger, Ends, GoTo, Reading, TypeOK
    <3>3. CASE UNCHANGED logger
      BY <3>1, <3>2, <3>3 DEF LogInv, LogsAreRead
    <3>4. CASE ~logger.on /\ logger' = [on |-> TRUE, initial |-> logged, pointer |-> logged]
      <4>1. Reading = {} /\ logger.pointer = 0
        BY <3>4 DEF LogInv
      <4>2. ~mixed => read \subseteq 1..logged
        BY <4>1, <2>0 DEF LogInv
      <4>3. (logged + 1)..logged = {}
        BY <2>0
      <4> QED BY <3>1, <3>2, <3>4, <4>1, <4>2, <4>3, <2>0 DEF LogInv, LogsAreRead
    <3> QED BY <3>1, <3>3, <3>4
  <2>6. ASSUME NEW c \in Callers, QueryFails(c) PROVE LogInv'
    <3>1. /\ UNCHANGED <<logged, logger, next, mixed, read, reread>>
          /\ pc' = [pc EXCEPT ![c] = "idle"] /\ from' = [from EXCEPT ![c] = 0]
      BY <2>6 DEF QueryFails, Ends, GoTo
    <3>2. Reading' = Reading \ {c} /\ \A d \in Reading' : pc'[d] = pc[d] /\ from'[d] = from[d]
      BY <3>1 DEF Reading, TypeOK
    <3> QED BY <3>1, <3>2 DEF LogInv, LogsAreRead
  <2>7. CASE Unlogged
    <3>1. Reading' = Reading /\ \A d \in Reading : pc'[d] = pc[d]
      BY <2>7 DEF Unlogged, Reading
    <3> QED BY <3>1, <2>7 DEF Unlogged, logs, LogInv, LogsAreRead
  <2> QED BY <2>1, <2>2, <2>3, <2>4, <2>5, <2>6, <2>7, OthersAreUnlogged
<1> QED BY <1>1, <1>2, TypeInvariant, PTL DEF Spec

\* No record between where the logger began and its pointer was left out, and
\* none is handed out twice unless calls overlap or name a pointer.
THEOREM LogsRead == Spec => []LogsAreRead
BY LogInvariant, PTL DEF LogInv

-----------------------------------------------------------------------------
(* Money.                                                                    *)

Transferring == {"deposit", "arrival"}
Payers(k)    == {c \in Callers : want[c].op = "funds" /\ want[c].of = k}

\* A cluster no call was retried for has one payer at most; once it got its
\* deposit, that payer waits for it or the main cluster has money.
FundsInv ==
    /\ FundsAreEnsured
    /\ \A c \in Callers : pc[c] \in {"idle", "connect", "log", "logs"} => want[c] = NoCall
    /\ \A k \in Clusters \ retried :
        /\ \A c, d \in Payers(k) : c = d
        /\ sent[k] > 0 => funds[Main] > 0 \/ \E c \in Payers(k) : pc[c] \in Transferring

\* What a step does that neither begins a call nor moves money.
Unpaid ==
    /\ UNCHANGED money
    /\ \A c \in Callers :
        /\ want'[c].op = "funds" => want'[c] = want[c]
        /\ pc[c] \in Transferring => pc'[c] \in Transferring /\ want'[c] = want[c]
        /\ pc'[c] \in {"idle", "connect", "log", "logs"} => want'[c] = NoCall

LEMMA GoToUnpaid ==
    ASSUME TypeOK, FundsInv, NEW c \in Callers, NEW q, GoTo(c, q), UNCHANGED <<want, money>>,
           pc[c] \in Transferring => q \in Transferring,
           q \in {"idle", "connect", "log", "logs"} => want[c] = NoCall
    PROVE  Unpaid
BY DEF TypeOK, GoTo, Unpaid, FundsInv

LEMMA EndsUnpaid ==
    ASSUME TypeOK, FundsInv, NEW c \in Callers, Ends(c), pc[c] \notin Transferring, UNCHANGED money
    PROVE  Unpaid
BY DEF TypeOK, Ends, GoTo, Unpaid, FundsInv, NoCall

LEMMA OthersAreUnpaid ==
    ASSUME TypeInv, FundsInv, [Next]_vars, ~ \E k \in Clusters : Arrive(k),
           ~ \E c \in Callers : \/ \E w \in Call : Ask(c, w)
                                \/ Enough(c) \/ Deposit(c) \/ Arrived(c) \/ DepositFails(c)
    PROVE  Unpaid
<1> USE DEF TypeInv
<1>1. ASSUME UNCHANGED <<pc, want, money>> PROVE Unpaid
  BY <1>1 DEF Unpaid, FundsInv
<1>2. ASSUME NEW c \in Callers, GetDevPhase(c) \/ Cleanup(c) PROVE Unpaid
  BY <1>1, <1>2 DEF GetDevPhase, Cleanup
<1>3. ASSUME NEW c \in Callers, InitDevPhase(c) PROVE Unpaid
  BY <1>3, GoToUnpaid DEF InitDevPhase, FundsInv, Transferring
<1>4. ASSUME NEW c \in Callers, CreateFails(c) \/ Created(c) PROVE Unpaid
  BY <1>4, EndsUnpaid DEF CreateFails, Created, Transferring
<1>5. ASSUME NEW c \in Callers, NEW p \in {0, logger.pointer}, NewLogs(c, p) PROVE Unpaid
  BY <1>5, GoToUnpaid DEF NewLogs, FundsInv, Transferring
<1>6. ASSUME NEW c \in Callers, QueryFails(c) PROVE Unpaid
  BY <1>6, EndsUnpaid DEF QueryFails, Transferring
<1>7. ASSUME NEW i \in Instances, NEW k \in Keys, Resolve(i, k) \/ Reject(i, k) PROVE Unpaid
  BY <1>1, <1>7 DEF Resolve, Reject
<1>8. ASSUME NEW k \in Keys, Provide(k) PROVE Unpaid
  BY <1>1, <1>8 DEF Provide
<1>9. ASSUME Write PROVE Unpaid
  BY <1>1, <1>9 DEF Write
<1>10. ASSUME NEW c \in Callers, GotSystem(c) PROVE Unpaid
  <2>1. pc[c] = "system" /\ UNCHANGED money
    BY <1>10 DEF GotSystem
  <2>2. Ends(c) \/ (\E q \in {"driver", "logger", "main"} : GoTo(c, q) /\ UNCHANGED want)
    BY <1>10 DEF GotSystem, AskDriver
  <2> QED BY <2>1, <2>2, GoToUnpaid, EndsUnpaid DEF Transferring
<1>11. ASSUME NEW c \in Callers, GotDriver(c) \/ Rejected(c) PROVE Unpaid
  BY <1>11, EndsUnpaid DEF GotDriver, Got, Rejected, Transferring
<1>12. ASSUME NEW c \in Callers, GotMain(c) PROVE Unpaid
  BY <1>12, GoToUnpaid DEF GotMain, Got, Transferring
<1>13. ASSUME NEW c \in Callers, Deposited(c) PROVE Unpaid
  BY <1>13, GoToUnpaid DEF Deposited, Transferring
<1>14. ASSUME NEW c \in Callers, CreateLogger(c) PROVE Unpaid
  BY <1>14, EndsUnpaid DEF CreateLogger, Transferring
<1>15. ASSUME NEW c \in Callers, GetLog(c) PROVE Unpaid
  BY <1>15, GoToUnpaid DEF GetLog, FundsInv, Transferring
<1>16. ASSUME NEW c \in Callers, TakeLogs(c) PROVE Unpaid
  BY <1>16, EndsUnpaid DEF TakeLogs, Transferring
<1>17. CASE UNCHANGED vars
  BY <1>1, <1>17 DEF vars
<1> QED BY <1>2, <1>3, <1>4, <1>5, <1>6, <1>7, <1>8, <1>9, <1>10, <1>11, <1>12, <1>13, <1>14,
           <1>15, <1>16, <1>17 DEF Next, Proceed, Settle

LEMMA FundsInvariant == Spec => []FundsInv
<1>1. Init => FundsInv
  BY HandlesAssumption DEF Init, FundsInv, FundsAreEnsured, NoCall, Payers
<1>2. TypeInv /\ FundsInv /\ [Next]_vars => FundsInv'
  <2> SUFFICES ASSUME TypeInv, FundsInv, [Next]_vars PROVE FundsInv'
    OBVIOUS
  <2> USE DEF TypeInv
  <2>0. Main \in Clusters /\ \A k \in Clusters : sent[k] \in Nat /\ funds[k] \in Nat
    BY HandlesAssumption DEF TypeOK
  <2>1. ASSUME NEW c \in Callers, NEW w \in Call, Ask(c, w) PROVE FundsInv'
    <3>1. /\ pc[c] = "idle" /\ pc' = [pc EXCEPT ![c] = "system"]
          /\ want' = [want EXCEPT ![c] = w] /\ UNCHANGED <<sent, funds, ensured>>
          /\ retried' = IF Beside(w) # {} THEN retried \cup {w.of} ELSE retried
      BY <2>1 DEF Ask, GoTo
    <3>2. \A d \in Callers \ {c} : pc'[d] = pc[d] /\ want'[d] = want[d]
      BY <3>1 DEF TypeOK
    <3>3. pc'[c] = "system" /\ want'[c] = w /\ want[c] = NoCall
      BY <3>1 DEF TypeOK, FundsInv
    <3>4. \A k \in Clusters : c \notin Payers(k)
      BY <3>3 DEF Payers, NoCall
    <3>5. ASSUME NEW k \in Clusters \ retried'
          PROVE  /\ \A d, e \in Payers(k)' : d = e
                 /\ sent[k] > 0 => funds[Main] > 0 \/ \E d \in Payers(k)' : pc'[d] \in Transferring
      <4>1. k \in Clusters \ retried
        BY <3>1, <3>5
      <4>2. Payers(k) \subseteq Payers(k)'
        BY <3>2, <3>4 DEF Payers
      <4>3. sent[k] > 0 => funds[Main] > 0 \/ \E d \in Payers(k) : pc[d] \in Transferring
        BY <4>1 DEF FundsInv
      <4>4. \A d \in Payers(k) : pc'[d] = pc[d]
        BY <3>2, <3>4 DEF Payers
      <4>5. CASE w.op = "funds" /\ w.of = k
        <5>1. Beside(w) = {}
          BY <3>1, <3>5, <4>5
        <5>2. \A d \in Payers(k) : want[d] = w
          BY <4>5 DEF Payers, TypeOK, Call
        <5>3. \A d \in Payers(k) : pc[d] # "idle"
          BY DEF FundsInv, Payers, NoCall
        <5>4. Payers(k) = {}
          BY <5>1, <5>2, <5>3, <4>5 DEF Beside, Payers
        <5>5. Payers(k)' = {c}
          BY <5>4, <3>2, <3>3, <4>5 DEF Payers
        <5> QED BY <5>4, <5>5, <4>3
      <4>6. CASE ~(w.op = "funds" /\ w.of = k)
        <5>1. Payers(k)' = Payers(k)
          BY <4>6, <3>2, <3>3, <3>4 DEF Payers
        <5> QED BY <5>1, <4>1, <4>3, <4>4 DEF FundsInv
      <4> QED BY <4>5, <4>6
    <3>6. \A d \in Callers : pc'[d] \in {"idle", "connect", "log", "logs"} => want'[d] = NoCall
      BY <3>2, <3>3 DEF FundsInv
    <3>7. FundsAreEnsured'
      BY <3>1 DEF FundsInv, FundsAreEnsured
    <3> QED BY <3>1, <3>5, <3>6, <3>7 DEF FundsInv
  <2>2. ASSUME NEW c \in Callers, Enough(c) \/ Arrived(c) PROVE FundsInv'
    <3>1. /\ funds[Main] > 0 /\ UNCHANGED <<sent, funds, retried>>
          /\ pc' = [pc EXCEPT ![c] = "idle"] /\ want' = [want EXCEPT ![c] = NoCall]
      BY <2>2 DEF Enough, Arrived, Funded, Ensured, Ends, GoTo
    <3>2. \A k \in Clusters : Payers(k)' \subseteq Payers(k)
      BY <3>1 DEF Payers, TypeOK, NoCall
    <3>3. \A d \in Callers : pc'[d] \in {"idle", "connect", "log", "logs"} => want'[d] = NoCall
      BY <3>1 DEF TypeOK, FundsInv
    <3>4. FundsAreEnsured'
      BY <3>1 DEF FundsInv, FundsAreEnsured
    <3> QED BY <3>1, <3>2, <3>3, <3>4 DEF FundsInv
  <2>3. ASSUME NEW c \in Callers, Deposit(c) PROVE FundsInv'
    <3> DEFINE k == want[c].of
    <3>1. /\ pc[c] = "balance" /\ funds[Main] = 0 /\ pc' = [pc EXCEPT ![c] = "deposit"]
          /\ UNCHANGED <<want, funds, retried, ensured>>
          /\ sent' = [sent EXCEPT ![k] = @ + 1]
      BY <2>3 DEF Deposit, GoTo
    <3>2. want[c].op = "funds" /\ k \in Clusters
      BY <3>1, ClusterOfCall DEF PlacesFit, Paying, TypeOK
    <3>3. pc'[c] = "deposit" /\ \A d \in Callers \ {c} : pc'[d] = pc[d]
      BY <3>1 DEF TypeOK
    <3>4. c \in Payers(k) /\ \A l : Payers(l)' = Payers(l)
      BY <3>1, <3>2 DEF Payers
    <3>5. k \notin retried => sent[k] = 0
      <4> SUFFICES ASSUME k \notin retried, sent[k] > 0 PROVE FALSE
        BY <2>0, <3>2
      <4>1. \E d \in Payers(k) : pc[d] \in Transferring
        BY <3>1, <3>2 DEF FundsInv
      <4>2. \A d \in Payers(k) : d = c
        BY <3>2, <3>4 DEF FundsInv
      <4> QED BY <4>1, <4>2, <3>1 DEF Transferring
    <3>6. sent'[k] = sent[k] + 1 /\ \A l \in Clusters \ {k} : sent'[l] = sent[l]
      BY <3>1, <3>2 DEF TypeOK
    <3>7. \A l \in Clusters \ retried : sent'[l] <= 1
      BY <3>5, <3>6, <2>0 DEF FundsInv, FundsAreEnsured
    <3>8. FundsAreEnsured'
      BY <3>1, <3>7 DEF FundsInv, FundsAreEnsured
    <3>9. ASSUME NEW l \in Clusters \ retried, sent'[l] > 0
          PROVE  \E d \in Payers(l) : pc'[d] \in Transferring
      <4>1. CASE l = k
        BY <4>1, <3>3, <3>4 DEF Transferring
      <4>2. CASE l # k
        BY <4>2, <3>1, <3>3, <3>6, <3>9 DEF FundsInv, Transferring, Payers
      <4> QED BY <4>1, <4>2
    <3>10. \A d \in Callers : pc'[d] \in {"idle", "connect", "log", "logs"} => want'[d] = NoCall
      BY <3>1, <3>3 DEF FundsInv
    <3>11. \A l \in Clusters \ retried : \A d, e \in Payers(l)' : d = e
      BY <3>4 DEF FundsInv
    <3> QED BY <3>1, <3>4, <3>8, <3>9, <3>10, <3>11 DEF FundsInv
  <2>4. ASSUME NEW c \in Callers, DepositFails(c) PROVE FundsInv'
    <3> DEFINE k == want[c].of
    <3>1. /\ pc[c] \in Transferring /\ UNCHANGED <<funds, ensured>>
          /\ pc' = [pc EXCEPT ![c] = "idle"] /\ want' = [want EXCEPT ![c] = NoCall]
          /\ sent' \in {sent, [sent EXCEPT ![k] = @ - 1]}
          /\ retried' = retried \cup {k}
      BY <2>4 DEF DepositFails, Ends, GoTo, Transferring
    <3>2. \A l \in Clusters \ {k} : sent'[l] = sent[l] /\ Payers(l)' = Payers(l) /\ c \notin Payers(l)
      BY <3>1 DEF Payers, TypeOK, NoCall
    <3>3. \A l : \A d \in Payers(l) \ {c} : pc'[d] = pc[d]
      BY <3>1 DEF Payers, TypeOK
    <3>4. \A d \in Callers : pc'[d] \in {"idle", "connect", "log", "logs"} => want'[d] = NoCall
      BY <3>1 DEF TypeOK, FundsInv
    <3>5. FundsAreEnsured'
      BY <3>1, <3>2 DEF FundsInv, FundsAreEnsured
    <3>6. ASSUME NEW l \in Clusters \ retried'
          PROVE  /\ \A d, e \in Payers(l)' : d = e
                 /\ sent'[l] > 0 => funds'[Main] > 0 \/ \E d \in Payers(l)' : pc'[d] \in Transferring
      <4>1. l \in Clusters \ retried /\ l # k
        BY <3>1, <3>6
      <4> QED BY <4>1, <3>1, <3>2, <3>3 DEF FundsInv
    <3> QED BY <3>4, <3>5, <3>6 DEF FundsInv
  <2>5. ASSUME NEW k \in Clusters, Arrive(k) PROVE FundsInv'
    <3>1. /\ UNCHANGED <<pc, want, sent, retried, ensured>>
          /\ funds' = [funds EXCEPT ![k] = @ + 1]
      BY <2>5 DEF Arrive
    <3>2. funds[Main] > 0 => funds'[Main] > 0
      BY <3>1, <2>0 DEF TypeOK
    <3> QED BY <3>1, <3>2, <2>0 DEF FundsInv, FundsAreEnsured, Payers
  <2>6. CASE Unpaid
    <3>1. UNCHANGED <<sent, funds, retried, ensured>>
      BY <2>6 DEF Unpaid, money
    <3>2. \A k : Payers(k)' \subseteq Payers(k)
      BY <2>6 DEF Unpaid, Payers
    <3>3. \A k : \A c \in Payers(k) : pc[c] \in Transferring => c \in Payers(k)' /\ pc'[c] \in Transferring
      BY <2>6 DEF Unpaid, Payers
    <3>4. \A c \in Callers : pc'[c] \in {"idle", "connect", "log", "logs"} => want'[c] = NoCall
      BY <2>6 DEF Unpaid
    <3>5. FundsAreEnsured'
      BY <3>1 DEF FundsInv, FundsAreEnsured
    <3>6. ASSUME NEW l \in Clusters \ retried
          PROVE  /\ \A d, e \in Payers(l)' : d = e
                 /\ sent[l] > 0 => funds[Main] > 0 \/ \E d \in Payers(l)' : pc'[d] \in Transferring
      BY <3>2, <3>3 DEF FundsInv
    <3> QED BY <3>1, <3>4, <3>5, <3>6 DEF FundsInv
  <2> QED BY <2>1, <2>2, <2>3, <2>4, <2>5, <2>6, OthersAreUnpaid
<1> QED BY <1>1, <1>2, TypeInvariant, PTL DEF Spec

\* ensureFundsInCluster leaves the main cluster with money, and deposits once
\* unless calls for one cluster overlap or one fails after its transfer.
THEOREM FundsEnsured == Spec => []FundsAreEnsured
BY FundsInvariant, PTL DEF FundsInv

=============================================================================
