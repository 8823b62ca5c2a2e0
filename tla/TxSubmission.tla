---------------------------- MODULE TxSubmission ----------------------------
(***************************************************************************)
(* Submission of extrinsics from one account: TxQueue.submit, which keeps  *)
(* its own nonce tracker, and TxHandler.handle, which lets the node pick   *)
(* the nonce when it signs.  Both sit on the same node, whose transaction  *)
(* pool and chain are modelled from the statuses the callbacks react to.   *)
(*                                                                         *)
(* A job is one call of submit() or handle(); calls may overlap.  A status *)
(* or an RPC error reaches its watcher in the step that causes it: a later *)
(* delivery commutes with every other step of the same attempt.            *)
(***************************************************************************)
EXTENDS Naturals, FiniteSets

CONSTANTS
    Queued,       \* jobs submitted through TxQueue.submit
    Handled,      \* jobs submitted through TxHandler.handle
    AwaitFinal,   \* jobs called with waitForFinalization = true
    Budget,       \* the 200 of the retry loop
    TimeoutCost,  \* the 10 iterations an attempt that timed out costs
    MaxFaults     \* bound on the environment's faults, timeouts included

Jobs == Queued \cup Handled

ASSUME SubmissionAssumption ==
    /\ Queued \cap Handled = {}
    /\ AwaitFinal \subseteq Jobs
    /\ Budget \in Nat \ {0}
    /\ TimeoutCost \in Nat \ {0}
    /\ MaxFaults \in Nat

VARIABLES
    pc,        \* where each job's loop stands
    att,       \* number of the job's current attempt, 0 before the first
    cost,      \* the loop counter i
    seen,      \* byCache, read before accountNextIndex is awaited
    idx,       \* byRpc, the answer to accountNextIndex
    tracker,   \* _nonceTracker of the account
    late,      \* <<job, attempt>>: given up while the signer asked for a nonce
    wire,      \* extrinsics sent, not yet seen by the node
    pool,      \* extrinsics in the node's pool, ready or future
    block,     \* extrinsics in blocks that are not final
    final,     \* extrinsics in final blocks
    next       \* the account's next nonce on the chain

VARIABLES      \* history, read by the properties only
    good,      \* extrinsics whose latest inclusion had no ExtrinsicFailed
    unsure,    \* extrinsics retracted, or reported lost while in a block
    timedOut,  \* <<job, attempt>> pairs given up by the 60 s limit
    burnt,     \* nonces whose extrinsic the node refused or dropped
    raced,     \* a byCache value was outdated when it was used
    faults     \* faults so far

client  == <<pc, att, cost, seen, idx, tracker, late>>
node    == <<wire, pool, block, final, next>>
history == <<good, unsure, timedOut, burnt, raced, faults>>
vars    == <<client, node, history>>

Tx == [job : Jobs, att : Nat, nonce : Nat]

Asking  == {"asking", "answered"}
Settled == {"resolved", "failed"}
PC      == {"idle", "retry", "sending", "watching", "hung"} \cup Asking \cup Settled

TypeOK ==
    /\ pc \in [Jobs -> PC]
    /\ att \in [Jobs -> Nat]
    /\ cost \in [Jobs -> Nat]
    /\ seen \in [Jobs -> Nat]
    /\ idx \in [Jobs -> Nat]
    /\ tracker \in Nat
    /\ late \subseteq Handled \X Nat
    /\ wire \subseteq Tx
    /\ pool \subseteq Tx
    /\ block \subseteq Tx
    /\ final \subseteq Tx
    /\ next \in Nat
    /\ good \subseteq Tx
    /\ unsure \subseteq Tx
    /\ timedOut \subseteq Jobs \X Nat
    /\ burnt \subseteq Nat
    /\ raced \in BOOLEAN
    /\ faults \in 0..MaxFaults

Init ==
    /\ pc = [j \in Jobs |-> "idle"]
    /\ att = [j \in Jobs |-> 0]
    /\ cost = [j \in Jobs |-> 0]
    /\ seen = [j \in Jobs |-> 0]
    /\ idx = [j \in Jobs |-> 0]
    /\ tracker = 0
    /\ late = {}
    /\ wire = {} /\ pool = {} /\ block = {} /\ final = {}
    /\ next = 0
    /\ good = {} /\ unsure = {} /\ timedOut = {} /\ burnt = {}
    /\ raced = FALSE
    /\ faults = 0

-----------------------------------------------------------------------------
(* Helpers.                                                                *)

Larger(a, b) == IF a > b THEN a ELSE b

Live == wire \cup pool \cup block \cup final

\* t is what its job's loop is waiting for, in state s.
Current(t, s) == pc[t.job] = s /\ att[t.job] = t.att

Occupied(n) == \E u \in pool : u.nonce = n

\* What accountNextIndex answers: the chain's nonce past the ready extrinsics.
IsNextIndex(n) ==
    /\ n >= next
    /\ \A m \in next..(n - 1) : Occupied(m)
    /\ ~Occupied(n)

IndexCandidates == {next} \cup {u.nonce + 1 : u \in pool}

Fault == faults < MaxFaults /\ faults' = faults + 1

\* Slips the properties must notice: waitForFinalization is ignored; the
\* isFinalized branch rejects, or is missing; a retracted block is retried.
VerdictWithoutWaiting(j, status) ==
    IF status \in {"inBlock", "finalized"} THEN "resolved" ELSE "failed"
VerdictRejectingFinal(j, status) ==
    IF status = "inBlock" /\ j \notin AwaitFinal THEN "resolved"
    ELSE IF status = "inBlock" THEN pc[j] ELSE "failed"
VerdictMissingFinal(j, status) ==
    CASE status = "inBlock"   -> IF j \in AwaitFinal THEN pc[j] ELSE "resolved"
      [] status = "finalized" -> pc[j]
      [] OTHER                -> "failed"
VerdictRetrying(j, status) ==
    CASE status = "inBlock"   -> IF j \in AwaitFinal THEN pc[j] ELSE "resolved"
      [] status = "finalized" -> "resolved"
      [] status = "retracted" -> "retry"
      [] OTHER                -> "failed"

\* The status callback: only the first resolve or reject of a promise counts.
Verdict(j, status) ==
    CASE status = "inBlock"   -> IF j \in AwaitFinal THEN pc[j] ELSE "resolved"
      [] status = "finalized" -> "resolved"
      [] OTHER                -> "failed"

\* Each extrinsic of S gets a status; only a pending promise is moved by it.
Notify(S, status) ==
    pc' = [j \in Jobs |-> IF \E t \in S : t.job = j /\ Current(t, "watching")
                          THEN Verdict(j, status) ELSE pc[j]]

-----------------------------------------------------------------------------
(* The client: one turn of the loop is Attempt .. Send .. a verdict.       *)

\* First call of the job, or the next turn of the loop: byCache is read, and
\* accountNextIndex is awaited.
Attempt(j) ==
    /\ pc[j] \in {"idle", "retry"}
    /\ cost[j] < Budget
    /\ pc' = [pc EXCEPT ![j] = "asking"]
    /\ att' = [att EXCEPT ![j] = @ + 1]
    /\ seen' = [seen EXCEPT ![j] = IF j \in Queued THEN tracker ELSE 0]
    /\ UNCHANGED <<cost, idx, tracker, late, node, history>>

\* 'Could not execute extrinsic'.
GiveUp(j) ==
    /\ pc[j] = "retry"
    /\ cost[j] >= Budget
    /\ pc' = [pc EXCEPT ![j] = "failed"]
    /\ UNCHANGED <<att, cost, seen, idx, tracker, late, node, history>>

AnswerIndex(j) ==
    /\ pc[j] = "asking"
    /\ \E n \in IndexCandidates : IsNextIndex(n) /\ idx' = [idx EXCEPT ![j] = n]
    /\ pc' = [pc EXCEPT ![j] = "answered"]
    /\ UNCHANGED <<att, cost, seen, tracker, late, node, history>>

\* In TxQueue the rejection leaves the async executor: nothing settles the
\* promise.  In TxHandler signAndSend rejects and the error is thrown on.
IndexFails(j) ==
    /\ pc[j] = "asking"
    /\ Fault
    /\ pc' = [pc EXCEPT ![j] = IF j \in Queued THEN "hung" ELSE "failed"]
    /\ UNCHANGED <<att, cost, seen, idx, tracker, late, node, good, unsure, timedOut,
                   burnt, raced>>

\* Slip: the cache is not consulted.
NonceByRpc(j) == idx[j]

Nonce(j) == Larger(seen[j], idx[j])

\* Slip: the tracker is advanced twice for one extrinsic.
TrackerAdvancedTwice(j) == Nonce(j) + 2

TrackerAfter(j) == Nonce(j) + 1

Send(j) ==
    /\ pc[j] = "answered"
    /\ wire' = wire \cup {[job |-> j, att |-> att[j], nonce |-> Nonce(j)]}
    /\ tracker' = IF j \in Queued THEN TrackerAfter(j) ELSE tracker
    /\ raced' = (raced \/ (j \in Queued /\ seen[j] # tracker))
    /\ pc' = [pc EXCEPT ![j] = "sending"]
    /\ UNCHANGED <<att, cost, seen, idx, late, pool, block, final, next, good, unsure,
                   timedOut, burnt, faults>>

\* Slip: an attempt that timed out costs one turn, i += 9 is missing.
SingleTurn == 1

TimedOutTurns == TimeoutCost

\* 60 s without an answer to the send.  TxHandler's limit also covers the
\* question for the nonce, which goes on in the background.
Timeout(j) ==
    /\ pc[j] \in {"sending"} \cup (IF j \in Handled THEN Asking ELSE {})
    /\ Fault
    /\ late' = IF pc[j] \in Asking THEN late \cup {<<j, att[j]>>} ELSE late
    /\ cost' = [cost EXCEPT ![j] = @ + TimedOutTurns]
    /\ pc' = [pc EXCEPT ![j] = "retry"]
    /\ timedOut' = timedOut \cup {<<j, att[j]>>}
    /\ UNCHANGED <<att, seen, idx, tracker, node, good, unsure, burnt, raced>>

\* An attempt that was given up gets its nonce after all, and is sent.
LateSend(r) ==
    /\ r \in late
    /\ late' = late \ {r}
    /\ \E n \in IndexCandidates :
          /\ IsNextIndex(n)
          /\ wire' = wire \cup {[job |-> r[1], att |-> r[2], nonce |-> n]}
    /\ UNCHANGED <<pc, att, cost, seen, idx, tracker, pool, block, final, next, history>>

-----------------------------------------------------------------------------
(* The node's answer to a send.                                            *)

\* 'Transaction is outdated', or 'Priority is too low' when the pool holds an
\* extrinsic with this nonce: another turn of the loop.
Bounce(t) ==
    /\ t \in wire
    /\ t.nonce < next \/ Occupied(t.nonce)
    /\ wire' = wire \ {t}
    /\ IF Current(t, "sending")
       THEN /\ pc' = [pc EXCEPT ![t.job] = "retry"]
            /\ cost' = [cost EXCEPT ![t.job] = @ + 1]
       ELSE UNCHANGED <<pc, cost>>
    /\ UNCHANGED <<att, seen, idx, tracker, late, pool, block, final, next, history>>

\* Any other error is thrown to the caller; the tracker stays where it is.
Refuse(t) ==
    /\ t \in wire
    /\ Fault
    /\ wire' = wire \ {t}
    /\ burnt' = burnt \cup {t.nonce}
    /\ pc' = IF Current(t, "sending") THEN [pc EXCEPT ![t.job] = "failed"] ELSE pc
    /\ UNCHANGED <<att, cost, seen, idx, tracker, late, pool, block, final, next, good,
                   unsure, timedOut, raced>>

Watch(t) ==
    IF Current(t, "sending") THEN [pc EXCEPT ![t.job] = "watching"] ELSE pc

Accept(t) ==
    /\ t \in wire
    /\ t.nonce >= next
    /\ ~Occupied(t.nonce)
    /\ wire' = wire \ {t}
    /\ pool' = pool \cup {t}
    /\ pc' = Watch(t)
    /\ UNCHANGED <<att, cost, seen, idx, tracker, late, block, final, next, history>>

\* An extrinsic of a higher priority takes the place of the one pooled.
Usurp(t, u) ==
    /\ t \in wire
    /\ u \in pool
    /\ t.nonce = u.nonce
    /\ Fault
    /\ wire' = wire \ {t}
    /\ pool' = (pool \ {u}) \cup {t}
    /\ pc' = [j \in Jobs |->
                 CASE j = u.job /\ Current(u, "watching") -> Verdict(j, "usurped")
                   [] j = t.job /\ Current(t, "sending")  -> "watching"
                   [] OTHER                               -> pc[j]]
    /\ UNCHANGED <<att, cost, seen, idx, tracker, late, block, final, next, good, unsure,
                   timedOut, burnt, raced>>

-----------------------------------------------------------------------------
(* The chain, and the statuses it makes the node send.                     *)

Include(t, ok) ==
    /\ t \in pool
    /\ t.nonce = next
    /\ pool' = pool \ {t}
    /\ block' = block \cup {t}
    /\ next' = next + 1
    /\ good' = IF ok THEN good \cup {t} ELSE good \ {t}
    /\ Notify({t}, IF ok THEN "inBlock" ELSE "extrinsicFailed")
    /\ UNCHANGED <<att, cost, seen, idx, tracker, late, wire, final, unsure, timedOut,
                   burnt, raced, faults>>

Finalize(t) ==
    /\ t \in block
    /\ \A u \in block : t.nonce <= u.nonce
    /\ block' = block \ {t}
    /\ final' = final \cup {t}
    /\ Notify({t}, "finalized")
    /\ UNCHANGED <<att, cost, seen, idx, tracker, late, wire, pool, next, history>>

\* isDropped, isInvalid.
Drop(t) ==
    /\ t \in pool
    /\ Fault
    /\ pool' = pool \ {t}
    /\ burnt' = burnt \cup {t.nonce}
    /\ Notify({t}, "dropped")
    /\ UNCHANGED <<att, cost, seen, idx, tracker, late, wire, block, final, next, good,
                   unsure, timedOut, raced>>

\* The block of t and those after it leave the chain: their extrinsics go
\* back to the pool, and their watchers are told isRetracted.
Retract(t) ==
    LET gone == {u \in block : u.nonce >= t.nonce} IN
    /\ t \in block
    /\ Fault
    /\ block' = block \ gone
    /\ pool' = pool \cup gone
    /\ next' = t.nonce
    /\ unsure' = unsure \cup gone
    /\ Notify(gone, "retracted")
    /\ UNCHANGED <<att, cost, seen, idx, tracker, late, wire, final, good, timedOut, burnt,
                   raced>>

\* isError without any of the others: the node stopped watching for finality.
FinalityTimeout(t) ==
    /\ t \in block
    /\ Current(t, "watching")
    /\ Fault
    /\ unsure' = unsure \cup {t}
    /\ Notify({t}, "finalityTimeout")
    /\ UNCHANGED <<att, cost, seen, idx, tracker, late, node, good, timedOut, burnt, raced>>

-----------------------------------------------------------------------------
ClientStep(j) == Attempt(j) \/ GiveUp(j) \/ Send(j)

NodeStep ==
    \/ \E j \in Jobs : AnswerIndex(j)
    \/ \E t \in wire : Bounce(t) \/ Accept(t)
    \/ \E t \in pool : \E ok \in BOOLEAN : Include(t, ok)
    \/ \E t \in block : Finalize(t)

FaultStep ==
    \/ \E j \in Jobs : IndexFails(j) \/ Timeout(j)
    \/ \E r \in late : LateSend(r)
    \/ \E t \in wire : Refuse(t)
    \/ \E t \in wire, u \in pool : Usurp(t, u)
    \/ \E t \in pool : Drop(t)
    \/ \E t \in block : Retract(t) \/ FinalityTimeout(t)

Next == (\E j \in Jobs : ClientStep(j)) \/ NodeStep \/ FaultStep

\* Event loops run what is ready: the client's once a job is under way, and
\* the node's.  Nothing obliges a caller to start a job or a fault to happen.
Fairness ==
    /\ \A j \in Jobs : WF_vars(pc[j] # "idle" /\ ClientStep(j))
    /\ \A j \in Jobs : WF_vars(AnswerIndex(j))
    /\ WF_vars(\E t \in wire : Bounce(t) \/ Accept(t))
    /\ WF_vars(\E t \in pool : \E ok \in BOOLEAN : Include(t, ok))
    /\ WF_vars(\E t \in block : Finalize(t))

Spec == Init /\ [][Next]_vars
FairSpec == Spec /\ Fairness

-----------------------------------------------------------------------------
(* What the callers rely on.                                               *)

\* A promise that resolved is one whose own last attempt was executed; with
\* waitForFinalization it was executed successfully and is final.  Without
\* it, only a block that was retracted since may have undone it.
ResolvedMeansExecuted ==
    \A j \in Jobs : pc[j] = "resolved" =>
        \E t \in block \cup final \cup unsure :
            /\ t.job = j /\ t.att = att[j]
            /\ j \in AwaitFinal => t \in final /\ t \in good
            /\ t \notin unsure => t \in good

\* A retry is safe unless it follows a timeout: whatever else sent the loop
\* round again, the attempt before it is neither on the wire nor pooled nor
\* on the chain.
RetriesAreSafe ==
    \A t \in Live : t.att < att[t.job] \/ pc[t.job] = "retry" =>
        <<t.job, t.att>> \in timedOut

\* One call is executed at most once per attempt that timed out, and once
\* more; the budget of the loop bounds that.
ExecutionsBounded ==
    \A j \in Jobs :
        Cardinality({t \in block \cup final : t.job = j}) * TimeoutCost
            < Budget + TimeoutCost

\* A call that threw has left nothing behind that can still take effect,
\* unless an attempt of it timed out or the chain took a block back.
FailureIsFinal ==
    \A j \in Jobs : \A t \in Live :
        (pc[j] = "failed" /\ t.job = j /\ <<j, t.att>> \notin timedOut /\ t \notin unsure)
            => t \in (block \cup final) \ good

\* What a call comes to: both ways of submitting keep the promise of
\* CallOutcomes, whatever their loops, the pool and the chain do.
Outcome == [j \in Jobs |-> IF pc[j] \in Settled THEN pc[j] ELSE "open"]

Outcomes == INSTANCE CallOutcomes WITH
    Calls <- Jobs, Careful <- AwaitFinal, outcome <- Outcome,
    chain <- block \cup final, sealed <- final, worked <- good,
    shaken <- unsure, abandoned <- timedOut

KeepsOutcomes == Outcomes!Spec

\* TxQueue's reason to exist: as long as no two of its nextNonce calls
\* overlapped, extrinsics it sent never share a nonce.
NoncesAreDistinct ==
    ~raced => \A t, u \in Live :
        (t.job \in Queued /\ u.job \in Queued /\ t.nonce = u.nonce) => t = u

Held(m) == \E u \in Live : u.nonce = m

\* The nonces below a sent extrinsic are taken by others on their way, or were
\* burnt when the node refused or dropped their extrinsic: races between
\* jobs, timeouts and reorgs never leave a gap by themselves.
NoncesAreContinuous ==
    \A t \in Live : \A m \in 0..(t.nonce - 1) : Held(m) \/ m \in burnt

\* The job's extrinsic sits in the pool behind a nonce nobody will send.
Stuck(j) ==
    \E t \in pool : /\ t.job = j
                    /\ Current(t, "watching")
                    /\ \E m \in burnt : next <= m /\ m < t.nonce /\ ~Held(m)

\* A call that began settles.  It hangs for two reasons only: the node burnt
\* a nonce below the one the queue gave it, or accountNextIndex failed.
Settles ==
    \A j \in Jobs : pc[j] # "idle" ~> (pc[j] \in Settled \cup {"hung"} \/ Stuck(j))

=============================================================================
