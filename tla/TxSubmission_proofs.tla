------------------------ MODULE TxSubmission_proofs ------------------------
(***************************************************************************)
(* What TLAPS proves of TxSubmission, for every set of jobs, every budget  *)
(* and every number of faults.                                             *)
(***************************************************************************)
EXTENDS TxSubmission, FiniteSetTheorems, TLAPS

-----------------------------------------------------------------------------
(* Types.                                                                  *)

\* A status moves a job's promise to one of the places pc knows.
LEMMA NotifyType ==
    ASSUME TypeOK, NEW S, NEW status, Notify(S, status)
    PROVE  pc' \in [Jobs -> PC]
BY DEF Notify, Verdict, TypeOK, PC, Settled

\* The next index and the nonce made of it are natural numbers.
LEMMA NonceType ==
    ASSUME TypeOK, NEW j \in Jobs
    PROVE  Nonce(j) \in Nat /\ TrackerAfter(j) \in Nat
BY DEF TypeOK, Nonce, TrackerAfter, Larger

LEMMA IndexType == TypeOK => IndexCandidates \subseteq Nat
BY DEF TypeOK, IndexCandidates, Tx

LEMMA FaultType == TypeOK /\ Fault => faults' \in 0..MaxFaults
BY SubmissionAssumption DEF TypeOK, Fault

LEMMA InitType == Init => TypeOK
<1> SUFFICES ASSUME Init PROVE TypeOK
    OBVIOUS
<1>1. faults \in 0..MaxFaults
    BY SubmissionAssumption DEF Init
<1>2. raced \in BOOLEAN
    BY Zenon DEF Init
<1> QED
    BY <1>1, <1>2 DEF Init, TypeOK, PC

LEMMA StepType == TypeOK /\ [Next]_vars => TypeOK'
<1> SUFFICES ASSUME TypeOK, [Next]_vars PROVE TypeOK'
    OBVIOUS
<1> USE DEF TypeOK
<1>1. ASSUME NEW j \in Jobs, Attempt(j) PROVE TypeOK'
    BY <1>1 DEF Attempt, PC, Asking, node, history
<1>2. ASSUME NEW j \in Jobs, GiveUp(j) PROVE TypeOK'
    BY <1>2 DEF GiveUp, PC, Settled, node, history
<1>3. ASSUME NEW j \in Jobs, Send(j) PROVE TypeOK'
    <2>1. [job |-> j, att |-> att[j], nonce |-> Nonce(j)] \in Tx
        BY NonceType DEF Tx
    <2>2. tracker' \in Nat
        BY <1>3, NonceType DEF Send
    <2> QED BY <1>3, <2>1, <2>2 DEF Send, PC
<1>4. ASSUME NEW j \in Jobs, AnswerIndex(j) PROVE TypeOK'
    BY <1>4, IndexType DEF AnswerIndex, PC, Asking, node, history
<1>5. ASSUME NEW j \in Jobs, IndexFails(j) PROVE TypeOK'
    BY <1>5, FaultType DEF IndexFails, PC, Settled, node
<1>6. ASSUME NEW j \in Jobs, Timeout(j) PROVE TypeOK'
    BY <1>6, FaultType, SubmissionAssumption
       DEF Timeout, PC, Asking, node, Jobs, TimedOutTurns
<1>7. ASSUME NEW r \in late, LateSend(r) PROVE TypeOK'
    <2>1. PICK n \in IndexCandidates : wire' = wire \cup {[job |-> r[1], att |-> r[2], nonce |-> n]}
        BY <1>7 DEF LateSend
    <2>2. [job |-> r[1], att |-> r[2], nonce |-> n] \in Tx
        BY IndexType DEF Tx, Jobs
    <2> QED BY <1>7, <2>1, <2>2 DEF LateSend, history
<1>8. ASSUME NEW t \in wire, Bounce(t) PROVE TypeOK'
    BY <1>8 DEF Bounce, PC, history, Tx
<1>9. ASSUME NEW t \in wire, Accept(t) PROVE TypeOK'
    BY <1>9 DEF Accept, Watch, PC, history
<1>10. ASSUME NEW t \in wire, Refuse(t) PROVE TypeOK'
    BY <1>10, FaultType DEF Refuse, PC, Settled, Tx
<1>11. ASSUME NEW t \in wire, NEW u \in pool, Usurp(t, u) PROVE TypeOK'
    <2>1. pc' \in [Jobs -> PC]
        BY <1>11 DEF Usurp, Verdict, PC, Settled
    <2> QED BY <1>11, <2>1, FaultType DEF Usurp
<1>12. ASSUME NEW t \in pool, NEW ok \in BOOLEAN, Include(t, ok) PROVE TypeOK'
    BY <1>12, NotifyType DEF Include
<1>13. ASSUME NEW t \in block, Finalize(t) PROVE TypeOK'
    BY <1>13, NotifyType DEF Finalize, history
<1>14. ASSUME NEW t \in pool, Drop(t) PROVE TypeOK'
    BY <1>14, NotifyType, FaultType DEF Drop, Tx
<1>15. ASSUME NEW t \in block, Retract(t) PROVE TypeOK'
    BY <1>15, NotifyType, FaultType DEF Retract, Tx
<1>16. ASSUME NEW t \in block, FinalityTimeout(t) PROVE TypeOK'
    BY <1>16, NotifyType, FaultType DEF FinalityTimeout, node
<1>17. CASE UNCHANGED vars
    BY <1>17 DEF vars, client, node, history
<1> QED
    BY <1>1, <1>2, <1>3, <1>4, <1>5, <1>6, <1>7, <1>8, <1>9, <1>10, <1>11, <1>12,
       <1>13, <1>14, <1>15, <1>16, <1>17
       DEF Next, ClientStep, NodeStep, FaultStep

\* Every reachable state is well typed; in particular the environment never
\* exceeds its faults, and no loop leaves the places it knows.
THEOREM TypeCorrect == Spec => []TypeOK
BY InitType, StepType, PTL DEF Spec

-----------------------------------------------------------------------------
(* Retries.                                                                *)

\* An attempt has one extrinsic, which is in one place.
OneExtrinsicPerAttempt ==
    /\ \A t, u \in Live : (t.job = u.job /\ t.att = u.att) => t = u
    /\ wire \cap pool = {} /\ wire \cap block = {} /\ wire \cap final = {}
    /\ pool \cap block = {} /\ pool \cap final = {} /\ block \cap final = {}

\* The attempt whose nonce is being asked for has sent nothing.
AskingIsFresh ==
    \A j \in Jobs : pc[j] \in Asking =>
        /\ \A t \in Live : ~(t.job = j /\ t.att = att[j])
        /\ <<j, att[j]>> \notin late

\* A job that was not called has sent nothing.
IdleIsFresh ==
    \A j \in Jobs : pc[j] = "idle" => /\ \A t \in Live : t.job # j
                                     /\ \A r \in late : r[1] # j

\* The attempts still waiting for a nonce were given up, and sent nothing.
LateIsTimedOut ==
    \A r \in late : /\ r \in timedOut
                    /\ r[2] <= att[r[1]]
                    /\ \A t \in Live : ~(t.job = r[1] /\ t.att = r[2])

AttemptsCount == \A t \in Live : t.att <= att[t.job]

AttemptInv ==
    /\ OneExtrinsicPerAttempt
    /\ AskingIsFresh
    /\ IdleIsFresh
    /\ LateIsTimedOut
    /\ AttemptsCount
    /\ RetriesAreSafe

LEMMA InitAttempt == Init => AttemptInv
BY DEF Init, AttemptInv, OneExtrinsicPerAttempt, AskingIsFresh, IdleIsFresh, LateIsTimedOut,
       AttemptsCount, RetriesAreSafe, Live, Asking

\* A status neither restarts a loop nor makes it ask for a nonce.
LEMMA NotifyCalms ==
    ASSUME TypeOK, NEW S, NEW status, Notify(S, status)
    PROVE  \A j \in Jobs : pc'[j] \in Asking \cup {"retry", "idle"} => pc'[j] = pc[j]
BY DEF TypeOK, Notify, Verdict, Current, Asking

LEMMA StepAttempt == TypeOK /\ AttemptInv /\ [Next]_vars => AttemptInv'
<1> SUFFICES ASSUME TypeOK, AttemptInv, [Next]_vars PROVE AttemptInv'
    OBVIOUS
<1> USE DEF AttemptInv, OneExtrinsicPerAttempt, AskingIsFresh, IdleIsFresh, LateIsTimedOut,
            AttemptsCount, RetriesAreSafe, Live, TypeOK, Tx
<1>1. ASSUME NEW j \in Jobs, Attempt(j) PROVE AttemptInv'
    <2>1. /\ pc' = [pc EXCEPT ![j] = "asking"]
          /\ att' = [att EXCEPT ![j] = @ + 1]
          /\ pc[j] \in {"idle", "retry"}
          /\ UNCHANGED <<late, wire, pool, block, final, timedOut>>
        BY <1>1 DEF Attempt, node, history
    <2>2. OneExtrinsicPerAttempt'
        BY <2>1
    <2>3. AskingIsFresh' /\ IdleIsFresh'
        BY <2>1 DEF Asking
    <2>4. LateIsTimedOut' /\ AttemptsCount'
        BY <2>1
    <2>5. RetriesAreSafe'
        <3> SUFFICES ASSUME NEW t \in Live, t.att < att'[t.job] \/ pc'[t.job] = "retry"
                     PROVE  <<t.job, t.att>> \in timedOut
            BY <2>1
        <3>1. CASE t.job = j
            BY <3>1, <2>1
        <3>2. CASE t.job # j
            BY <3>2, <2>1
        <3> QED
            BY <3>1, <3>2
    <2> QED
        BY <2>2, <2>3, <2>4, <2>5
<1>2. ASSUME NEW j \in Jobs, GiveUp(j) PROVE AttemptInv'
    BY <1>2 DEF GiveUp, PC, Asking, Settled, node, history
<1>3. ASSUME NEW j \in Jobs, Send(j) PROVE AttemptInv'
    <2> DEFINE t0 == [job |-> j, att |-> att[j], nonce |-> Nonce(j)]
    <2>1. /\ wire' = wire \cup {t0}
          /\ pc' = [pc EXCEPT ![j] = "sending"]
          /\ pc[j] \in Asking
          /\ UNCHANGED <<att, late, pool, block, final, timedOut>>
        BY <1>3 DEF Send, Asking
    <2>2. t0.job = j /\ t0.att = att[j] /\ t0 \notin Live
        BY <2>1
    <2>3. Live' = Live \cup {t0}
        BY <2>1
    <2>4. OneExtrinsicPerAttempt'
        <3>1. \A u \in Live : ~(u.job = t0.job /\ u.att = t0.att)
            BY <2>1, <2>2
        <3>2. \A t, u \in Live' : (t.job = u.job /\ t.att = u.att) => t = u
            <4> SUFFICES ASSUME NEW t \in Live', NEW u \in Live', t.job = u.job, t.att = u.att
                         PROVE  t = u
                OBVIOUS
            <4> HIDE DEF t0, Live
            <4> QED
                BY <2>3, <3>1
        <3>3. t0 \notin wire \cup pool \cup block \cup final
            BY <2>2
        <3> QED
            BY <2>1, <3>2, <3>3
    <2>5. AskingIsFresh' /\ IdleIsFresh'
        BY <2>1, <2>2, <2>3 DEF Asking
    <2>6. LateIsTimedOut' /\ AttemptsCount' /\ RetriesAreSafe'
        BY <2>1, <2>2, <2>3
    <2> QED
        BY <2>4, <2>5, <2>6
<1>4. ASSUME NEW j \in Jobs, AnswerIndex(j) PROVE AttemptInv'
    BY <1>4 DEF AnswerIndex, PC, Asking, node, history
<1>5. ASSUME NEW j \in Jobs, IndexFails(j) PROVE AttemptInv'
    BY <1>5 DEF IndexFails, PC, Asking, Settled, node
<1>6. ASSUME NEW j \in Jobs, Timeout(j) PROVE AttemptInv'
    <2>1. late' \subseteq late \cup {<<j, att[j]>>} /\ (pc[j] \notin Asking => late' = late)
        BY <1>6 DEF Timeout
    <2>2. timedOut' = timedOut \cup {<<j, att[j]>>}
        BY <1>6 DEF Timeout
    <2>3. pc' = [pc EXCEPT ![j] = "retry"] /\ att' = att /\ Live' = Live
        BY <1>6 DEF Timeout, node
    <2>4. OneExtrinsicPerAttempt' /\ AttemptsCount'
        BY <1>6, <2>3 DEF Timeout, node
    <2>5. AskingIsFresh' /\ IdleIsFresh'
        BY <2>1, <2>3 DEF Asking
    <2>6. LateIsTimedOut'
        <3> SUFFICES ASSUME NEW r \in late'
                     PROVE  /\ r \in timedOut'
                            /\ r[2] <= att'[r[1]]
                            /\ \A t \in Live' : ~(t.job = r[1] /\ t.att = r[2])
            BY DEF LateIsTimedOut
        <3>1. CASE r \in late
            BY <3>1, <2>2, <2>3
        <3>2. CASE r = <<j, att[j]>> /\ pc[j] \in Asking
            BY <3>2, <2>2, <2>3
        <3> QED
            BY <2>1, <3>1, <3>2
    <2>7. RetriesAreSafe'
        BY <2>2, <2>3
    <2> QED
        BY <2>4, <2>5, <2>6, <2>7
<1>7. ASSUME NEW r \in late, LateSend(r) PROVE AttemptInv'
    <2>1. PICK n \in IndexCandidates :
              wire' = wire \cup {[job |-> r[1], att |-> r[2], nonce |-> n]}
        BY <1>7 DEF LateSend
    <2> DEFINE t0 == [job |-> r[1], att |-> r[2], nonce |-> n]
    <2>2. Live' = Live \cup {t0} /\ late' = late \ {r} /\ pc' = pc /\ att' = att
            /\ timedOut' = timedOut
        BY <1>7, <2>1 DEF LateSend, history
    <2>3. r = <<t0.job, t0.att>> /\ t0.att <= att[t0.job] /\ t0 \notin Live
        OBVIOUS
    <2>4. OneExtrinsicPerAttempt'
        BY <1>7, <2>1, <2>2, <2>3 DEF LateSend
    <2>5. AskingIsFresh' /\ IdleIsFresh'
        BY <2>2, <2>3
    <2>6. LateIsTimedOut'
        BY <2>2, <2>3
    <2>7. AttemptsCount' /\ RetriesAreSafe'
        BY <2>2, <2>3
    <2> QED
        BY <2>4, <2>5, <2>6, <2>7
<1>8. ASSUME NEW t \in wire, Bounce(t) PROVE AttemptInv'
    BY <1>8 DEF Bounce, PC, history, Current, Asking
<1>9. ASSUME NEW t \in wire, Accept(t) PROVE AttemptInv'
    BY <1>9 DEF Accept, Watch, PC, history, Asking
<1>10. ASSUME NEW t \in wire, Refuse(t) PROVE AttemptInv'
    BY <1>10 DEF Refuse, PC, Settled, Asking
<1>11. ASSUME NEW t \in wire, NEW u \in pool, Usurp(t, u) PROVE AttemptInv'
    BY <1>11 DEF Usurp, Verdict, PC, Settled, Asking
<1>12. ASSUME NEW t \in pool, NEW ok \in BOOLEAN, Include(t, ok) PROVE AttemptInv'
    BY <1>12, NotifyCalms DEF Include
<1>13. ASSUME NEW t \in block, Finalize(t) PROVE AttemptInv'
    BY <1>13, NotifyCalms DEF Finalize, history
<1>14. ASSUME NEW t \in pool, Drop(t) PROVE AttemptInv'
    BY <1>14, NotifyCalms DEF Drop
<1>15. ASSUME NEW t \in block, Retract(t) PROVE AttemptInv'
    BY <1>15, NotifyCalms DEF Retract
<1>16. ASSUME NEW t \in block, FinalityTimeout(t) PROVE AttemptInv'
    BY <1>16, NotifyCalms DEF FinalityTimeout, node
<1>17. CASE UNCHANGED vars
    BY <1>17 DEF vars, client, node, history
<1> HIDE DEF AttemptInv, Live, TypeOK, Tx
<1> QED
    BY <1>1, <1>2, <1>3, <1>4, <1>5, <1>6, <1>7, <1>8, <1>9, <1>10, <1>11, <1>12,
       <1>13, <1>14, <1>15, <1>16, <1>17
       DEF Next, ClientStep, NodeStep, FaultStep

\* A turn of the loop that no timeout caused leaves nothing of the attempt
\* before it behind: submit and handle never send twice by themselves.
THEOREM RetriesSafe == Spec => []RetriesAreSafe
<1>1. AttemptInv => RetriesAreSafe
    BY DEF AttemptInv
<1> QED
    BY <1>1, TypeCorrect, InitAttempt, StepAttempt, PTL DEF Spec

-----------------------------------------------------------------------------
(* Verdicts.                                                               *)

\* A job that waits for the node's answer has its extrinsic on the wire; one
\* that watches a block saw its extrinsic succeed there.
WaitingFits ==
    /\ \A t \in Live : Current(t, "sending") => t \in wire
    /\ \A t \in block : Current(t, "watching") => t \in good

VerdictInv == WaitingFits /\ ResolvedMeansExecuted /\ FailureIsFinal

LEMMA InitVerdict == Init => VerdictInv
BY DEF Init, VerdictInv, WaitingFits, ResolvedMeansExecuted, FailureIsFinal, Live, Current

\* Executed in the sense of ResolvedMeansExecuted.
Executed(t, j) ==
    /\ t \in block \cup final \cup unsure
    /\ t.job = j /\ t.att = att[j]
    /\ j \in AwaitFinal => t \in final /\ t \in good
    /\ t \notin unsure => t \in good

\* What was executed stays so, unless the chain takes it back, which unsure
\* remembers.
LEMMA ExecutedStays ==
    ASSUME NEW j \in Jobs, NEW t, Executed(t, j), att'[j] = att[j],
           block \subseteq block' \cup final' \cup unsure',
           final \subseteq final', unsure \subseteq unsure',
           t \in block \cup final => t \in good' \/ t \notin good
    PROVE  Executed(t, j)'
BY DEF Executed

\* Whatever else a job sent has timed out, and is of an earlier attempt.
LEMMA OthersAreTimedOut ==
    ASSUME AttemptInv, NEW t \in Live, NEW v \in Live, TypeOK,
           v # t, v.job = t.job, t.att = att[t.job]
    PROVE  <<v.job, v.att>> \in timedOut
BY DEF AttemptInv, OneExtrinsicPerAttempt, AttemptsCount, RetriesAreSafe, TypeOK, Tx, Live

\* A status moves the jobs that watch one of its extrinsics, and no other.
LEMMA NotifyEach ==
    ASSUME TypeOK, NEW S, NEW status, Notify(S, status)
    PROVE  /\ \A j \in Jobs : \/ pc'[j] = pc[j]
                              \/ /\ pc'[j] = Verdict(j, status)
                                 /\ \E t \in S : t.job = j /\ Current(t, "watching")
           /\ \A t \in S : t.job \in Jobs /\ Current(t, "watching") =>
                                pc'[t.job] = Verdict(t.job, status)
BY DEF Notify, TypeOK

LEMMA StepVerdict == TypeOK /\ AttemptInv /\ VerdictInv /\ [Next]_vars => VerdictInv'
<1> SUFFICES ASSUME TypeOK, AttemptInv, VerdictInv, [Next]_vars PROVE VerdictInv'
    OBVIOUS
<1> USE DEF TypeOK, Tx
<1>1. ASSUME NEW j \in Jobs, Attempt(j) PROVE VerdictInv'
    <2>1. /\ pc' = [pc EXCEPT ![j] = "asking"] /\ att' = [att EXCEPT ![j] = @ + 1]
          /\ pc[j] \in {"idle", "retry"}
          /\ UNCHANGED <<wire, pool, block, final, good, unsure, timedOut>>
        BY <1>1 DEF Attempt, node, history
    <2>2. WaitingFits'
        BY <2>1 DEF VerdictInv, WaitingFits, Current, Live
    <2>3. ResolvedMeansExecuted'
        BY <2>1 DEF VerdictInv, ResolvedMeansExecuted
    <2>4. FailureIsFinal'
        BY <2>1 DEF VerdictInv, FailureIsFinal, Live
    <2> QED BY <2>2, <2>3, <2>4 DEF VerdictInv
<1>2. ASSUME NEW j \in Jobs, GiveUp(j) PROVE VerdictInv'
    <2>1. /\ pc' = [pc EXCEPT ![j] = "failed"] /\ pc[j] = "retry"
          /\ UNCHANGED <<att, wire, pool, block, final, good, unsure, timedOut>>
        BY <1>2 DEF GiveUp, node, history
    <2>2. WaitingFits'
        BY <2>1 DEF VerdictInv, WaitingFits, Current, Live
    <2>3. ResolvedMeansExecuted'
        BY <2>1 DEF VerdictInv, ResolvedMeansExecuted
    <2>4. FailureIsFinal'
        BY <2>1 DEF VerdictInv, FailureIsFinal, Live, AttemptInv, RetriesAreSafe
    <2> QED BY <2>2, <2>3, <2>4 DEF VerdictInv
<1>3. ASSUME NEW j \in Jobs, Send(j) PROVE VerdictInv'
    <2> DEFINE t0 == [job |-> j, att |-> att[j], nonce |-> Nonce(j)]
    <2>1. /\ wire' = wire \cup {t0} /\ pc' = [pc EXCEPT ![j] = "sending"] /\ pc[j] = "answered"
          /\ UNCHANGED <<att, pool, block, final, good, unsure, timedOut>>
        BY <1>3 DEF Send
    <2>2. Live' = Live \cup {t0}
        BY <2>1 DEF Live
    <2>3. \A t \in Live : ~(t.job = j /\ t.att = att[j])
        BY <2>1 DEF AttemptInv, AskingIsFresh, Asking
    <2>4. WaitingFits'
        <3>1. ASSUME NEW t \in Live', Current(t, "sending")' PROVE t \in wire'
            BY <2>1, <2>2, <2>3, <3>1 DEF VerdictInv, WaitingFits, Current, Live
        <3>2. ASSUME NEW t \in block', Current(t, "watching")' PROVE t \in good'
            BY <2>1, <3>2 DEF VerdictInv, WaitingFits, Current
        <3> QED BY <3>1, <3>2 DEF WaitingFits
    <2>5. ResolvedMeansExecuted'
        BY <2>1 DEF VerdictInv, ResolvedMeansExecuted
    <2>6. FailureIsFinal'
        BY <2>1, <2>2 DEF VerdictInv, FailureIsFinal
    <2> QED BY <2>4, <2>5, <2>6 DEF VerdictInv
<1>4. ASSUME NEW j \in Jobs, AnswerIndex(j) PROVE VerdictInv'
    <2>1. /\ pc' = [pc EXCEPT ![j] = "answered"] /\ pc[j] = "asking"
          /\ UNCHANGED <<att, wire, pool, block, final, good, unsure, timedOut>>
        BY <1>4 DEF AnswerIndex, node, history
    <2>2. WaitingFits'
        BY <2>1 DEF VerdictInv, WaitingFits, Current, Live
    <2>3. ResolvedMeansExecuted'
        BY <2>1 DEF VerdictInv, ResolvedMeansExecuted
    <2>4. FailureIsFinal'
        BY <2>1 DEF VerdictInv, FailureIsFinal, Live
    <2> QED BY <2>2, <2>3, <2>4 DEF VerdictInv
<1>5. ASSUME NEW j \in Jobs, IndexFails(j) PROVE VerdictInv'
    <2>1. /\ pc' = [pc EXCEPT ![j] = IF j \in Queued THEN "hung" ELSE "failed"] /\ pc[j] = "asking"
          /\ UNCHANGED <<att, wire, pool, block, final, good, unsure, timedOut>>
        BY <1>5 DEF IndexFails, node
    <2>2. WaitingFits'
        BY <2>1 DEF VerdictInv, WaitingFits, Current, Live
    <2>3. ResolvedMeansExecuted'
        BY <2>1 DEF VerdictInv, ResolvedMeansExecuted
    <2>4. \A t \in Live : t.job = j => <<j, t.att>> \in timedOut
        BY <2>1 DEF AttemptInv, AskingIsFresh, AttemptsCount, RetriesAreSafe, Asking, Live
    <2>5. FailureIsFinal'
        BY <2>1, <2>4 DEF VerdictInv, FailureIsFinal, Live
    <2> QED BY <2>2, <2>3, <2>5 DEF VerdictInv
<1>6. ASSUME NEW j \in Jobs, Timeout(j) PROVE VerdictInv'
    <2>1. /\ pc' = [pc EXCEPT ![j] = "retry"] /\ pc[j] \in {"sending"} \cup Asking
          /\ timedOut' = timedOut \cup {<<j, att[j]>>}
          /\ UNCHANGED <<att, wire, pool, block, final, good, unsure>>
        BY <1>6 DEF Timeout, node
    <2>2. WaitingFits'
        BY <2>1 DEF VerdictInv, WaitingFits, Current, Live
    <2>3. ResolvedMeansExecuted'
        BY <2>1 DEF VerdictInv, ResolvedMeansExecuted
    <2>4. FailureIsFinal'
        BY <2>1 DEF VerdictInv, FailureIsFinal, Live
    <2> QED BY <2>2, <2>3, <2>4 DEF VerdictInv
<1>7. ASSUME NEW r \in late, LateSend(r) PROVE VerdictInv'
    <2>1. PICK n \in IndexCandidates :
              wire' = wire \cup {[job |-> r[1], att |-> r[2], nonce |-> n]}
        BY <1>7 DEF LateSend
    <2> DEFINE t0 == [job |-> r[1], att |-> r[2], nonce |-> n]
    <2>2. UNCHANGED <<pc, att, pool, block, final, good, unsure, timedOut>>
        BY <1>7 DEF LateSend, history
    <2>3. Live' = Live \cup {t0} /\ wire' = wire \cup {t0}
        BY <2>1, <2>2 DEF Live
    <2>4. <<t0.job, t0.att>> \in timedOut
        BY DEF AttemptInv, LateIsTimedOut
    <2> HIDE DEF t0
    <2>5. WaitingFits'
        BY <2>2, <2>3 DEF VerdictInv, WaitingFits, Current
    <2>6. ResolvedMeansExecuted'
        BY <2>2 DEF VerdictInv, ResolvedMeansExecuted
    <2>7. FailureIsFinal'
        BY <2>2, <2>3, <2>4 DEF VerdictInv, FailureIsFinal
    <2> QED BY <2>5, <2>6, <2>7 DEF VerdictInv
<1>8. ASSUME NEW t \in wire, Bounce(t) PROVE VerdictInv'
    <2>1. /\ wire' = wire \ {t}
          /\ pc' = [j \in Jobs |-> IF j = t.job /\ Current(t, "sending") THEN "retry" ELSE pc[j]]
          /\ UNCHANGED <<att, pool, block, final, good, unsure, timedOut>>
        BY <1>8 DEF Bounce, history, Current
    <2>2. \A u \in Live : Current(u, "sending") /\ u # t =>
                ~(u.job = t.job /\ Current(t, "sending"))
        BY DEF Current, AttemptInv, OneExtrinsicPerAttempt, Live
    <2>3. Live' \subseteq Live
        BY <2>1 DEF Live
    <2>4. WaitingFits'
        <3>1. ASSUME NEW u \in Live', Current(u, "sending")' PROVE u \in wire'
            <4>1. Current(u, "sending") /\ u # t
                BY <2>1, <2>3, <3>1 DEF Current, Live, AttemptInv, OneExtrinsicPerAttempt
            <4> QED BY <2>1, <2>3, <4>1 DEF VerdictInv, WaitingFits
        <3>2. ASSUME NEW u \in block', Current(u, "watching")' PROVE u \in good'
            BY <2>1, <3>2 DEF VerdictInv, WaitingFits, Current
        <3> QED BY <3>1, <3>2 DEF WaitingFits
    <2>5. ResolvedMeansExecuted'
        BY <2>1 DEF VerdictInv, ResolvedMeansExecuted, Current
    <2>6. FailureIsFinal'
        BY <2>1, <2>3 DEF VerdictInv, FailureIsFinal
    <2> QED BY <2>4, <2>5, <2>6 DEF VerdictInv
<1>9. ASSUME NEW t \in wire, Accept(t) PROVE VerdictInv'
    <2>1. /\ wire' = wire \ {t} /\ pool' = pool \cup {t}
          /\ pc' = [j \in Jobs |-> IF j = t.job /\ Current(t, "sending") THEN "watching" ELSE pc[j]]
          /\ UNCHANGED <<att, block, final, good, unsure, timedOut>>
        BY <1>9 DEF Accept, Watch, history, Current
    <2>2. Live' = Live
        BY <2>1 DEF Live
    <2>3. WaitingFits'
        <3>1. ASSUME NEW u \in Live', Current(u, "sending")' PROVE u \in wire'
            <4>1. Current(u, "sending") /\ u # t
                BY <2>1, <2>2, <3>1 DEF Current, Live
            <4> QED BY <2>1, <2>2, <4>1 DEF VerdictInv, WaitingFits
        <3>2. ASSUME NEW u \in block', Current(u, "watching")' PROVE u \in good'
            <4>1. u \in Live /\ t \in Live /\ u # t
                BY <2>1, <3>2 DEF Live, AttemptInv, OneExtrinsicPerAttempt
            <4>2. Current(u, "watching")
                BY <2>1, <3>2, <4>1 DEF Current, AttemptInv, OneExtrinsicPerAttempt
            <4> QED BY <2>1, <3>2, <4>2 DEF VerdictInv, WaitingFits
        <3> QED BY <3>1, <3>2 DEF WaitingFits
    <2>4. ResolvedMeansExecuted'
        BY <2>1 DEF VerdictInv, ResolvedMeansExecuted, Current
    <2>5. FailureIsFinal'
        BY <2>1, <2>2 DEF VerdictInv, FailureIsFinal
    <2> QED BY <2>3, <2>4, <2>5 DEF VerdictInv
<1>10. ASSUME NEW t \in wire, Refuse(t) PROVE VerdictInv'
    <2>1. /\ wire' = wire \ {t}
          /\ pc' = [j \in Jobs |-> IF j = t.job /\ Current(t, "sending") THEN "failed" ELSE pc[j]]
          /\ UNCHANGED <<att, pool, block, final, good, unsure, timedOut>>
        BY <1>10 DEF Refuse, Current
    <2>2. Live' = Live \ {t} /\ t \in Live
        BY <2>1 DEF Live, AttemptInv, OneExtrinsicPerAttempt
    <2>3. WaitingFits'
        <3>1. ASSUME NEW u \in Live', Current(u, "sending")' PROVE u \in wire'
            <4>1. Current(u, "sending") /\ u # t
                BY <2>1, <2>2, <3>1 DEF Current, Live
            <4> QED BY <2>1, <2>2, <4>1 DEF VerdictInv, WaitingFits
        <3>2. ASSUME NEW u \in block', Current(u, "watching")' PROVE u \in good'
            BY <2>1, <3>2 DEF VerdictInv, WaitingFits, Current
        <3> QED BY <3>1, <3>2 DEF WaitingFits
    <2>4. ResolvedMeansExecuted'
        BY <2>1 DEF VerdictInv, ResolvedMeansExecuted, Current
    <2>5. FailureIsFinal'
        <3>1. ASSUME NEW u \in Live', Current(t, "sending"), u.job = t.job
              PROVE  <<u.job, u.att>> \in timedOut
            BY <2>2, <3>1, OthersAreTimedOut DEF Current
        <3> QED BY <2>1, <2>2, <3>1 DEF VerdictInv, FailureIsFinal
    <2> QED BY <2>3, <2>4, <2>5 DEF VerdictInv
<1>11. ASSUME NEW t \in wire, NEW u \in pool, Usurp(t, u) PROVE VerdictInv'
    <2>1. /\ wire' = wire \ {t} /\ pool' = (pool \ {u}) \cup {t}
          /\ pc' = [j \in Jobs |->
                       CASE j = u.job /\ Current(u, "watching") -> "failed"
                         [] j = t.job /\ Current(t, "sending")  -> "watching"
                         [] OTHER                               -> pc[j]]
          /\ UNCHANGED <<att, block, final, good, unsure, timedOut>>
        BY <1>11 DEF Usurp, Verdict
    <2>2. Live' = Live \ {u} /\ t \in Live /\ u \in Live
        BY <2>1 DEF Live, AttemptInv, OneExtrinsicPerAttempt
    <2>3. \A j \in Jobs :
                \/ pc'[j] = pc[j]
                \/ pc'[j] = "failed" /\ j = u.job /\ Current(u, "watching")
                \/ pc'[j] = "watching" /\ j = t.job /\ Current(t, "sending")
        BY <2>1
    <2>4. WaitingFits'
        <3>1. ASSUME NEW v \in Live', Current(v, "sending")' PROVE v \in wire'
            <4>1. Current(v, "sending")
                BY <2>1, <2>2, <2>3, <3>1 DEF Current, Live
            <4>2. v # t
                BY <2>1, <2>2, <3>1, <4>1 DEF Current
            <4> QED BY <2>1, <2>2, <4>1, <4>2 DEF VerdictInv, WaitingFits
        <3>2. ASSUME NEW v \in block', Current(v, "watching")' PROVE v \in good'
            <4>1. v \in Live /\ v # t
                BY <2>1, <3>2 DEF Live, AttemptInv, OneExtrinsicPerAttempt
            <4>2. Current(v, "watching")
                BY <2>1, <2>2, <2>3, <3>2, <4>1 DEF Current, Live, AttemptInv, OneExtrinsicPerAttempt
            <4> QED BY <2>1, <3>2, <4>2 DEF VerdictInv, WaitingFits
        <3> QED BY <3>1, <3>2 DEF WaitingFits
    <2>5. ResolvedMeansExecuted'
        BY <2>1, <2>3 DEF VerdictInv, ResolvedMeansExecuted
    <2>6. FailureIsFinal'
        <3>1. ASSUME NEW v \in Live', Current(u, "watching"), v.job = u.job
              PROVE  <<v.job, v.att>> \in timedOut
            BY <2>2, <3>1, OthersAreTimedOut DEF Current
        <3> QED BY <2>1, <2>2, <2>3, <3>1 DEF VerdictInv, FailureIsFinal
    <2> QED BY <2>4, <2>5, <2>6 DEF VerdictInv
<1>12. ASSUME NEW t \in pool, NEW ok \in BOOLEAN, Include(t, ok) PROVE VerdictInv'
    <2>1. /\ pool' = pool \ {t} /\ block' = block \cup {t}
          /\ good' = IF ok THEN good \cup {t} ELSE good \ {t}
          /\ UNCHANGED <<att, wire, final, unsure, timedOut>>
        BY <1>12 DEF Include
    <2>2. t \in Live /\ t.job \in Jobs /\ t \notin block \cup final /\ Live' = Live
        BY <2>1 DEF Live, AttemptInv, OneExtrinsicPerAttempt
    <2>3. /\ \A j \in Jobs : pc'[j] # pc[j] =>
                j = t.job /\ Current(t, "watching")
                /\ pc'[j] = (IF ok THEN "resolved" ELSE "failed") /\ (ok => j \notin AwaitFinal)
          /\ Current(t, "watching") /\ ~ok => pc'[t.job] = "failed"
        BY <1>12, <2>2, NotifyEach DEF Include, Verdict
    <2>4. WaitingFits'
        <3>1. ASSUME NEW v \in Live', Current(v, "sending")' PROVE v \in wire'
            BY <2>1, <2>2, <2>3, <3>1 DEF VerdictInv, WaitingFits, Current, Live
        <3>2. ASSUME NEW v \in block', Current(v, "watching")' PROVE v \in good'
            <4>1. Current(v, "watching")
                BY <2>1, <2>2, <2>3, <3>2 DEF Current, Live
            <4>2. v = t => ok
                BY <2>1, <2>3, <3>2, <4>1 DEF Current
            <4> QED BY <2>1, <3>2, <4>1, <4>2 DEF VerdictInv, WaitingFits
        <3> QED BY <3>1, <3>2 DEF WaitingFits
    <2>5. ResolvedMeansExecuted'
        <3> SUFFICES ASSUME NEW j \in Jobs, pc'[j] = "resolved" PROVE \E v : Executed(v, j)'
            BY DEF ResolvedMeansExecuted, Executed
        <3>1. CASE pc[j] = "resolved"
            <4>1. PICK v : Executed(v, j)
                BY <3>1 DEF VerdictInv, ResolvedMeansExecuted, Executed
            <4> QED BY <2>1, <2>2, <4>1, ExecutedStays
        <3>2. CASE pc[j] # "resolved"
            <4>1. j = t.job /\ Current(t, "watching") /\ ok /\ j \notin AwaitFinal
                BY <2>3, <3>2
            <4> QED BY <2>1, <4>1 DEF Executed, Current
        <3> QED BY <3>1, <3>2
    <2>6. FailureIsFinal'
        <3> SUFFICES ASSUME NEW j \in Jobs, NEW v \in Live, pc'[j] = "failed", v.job = j,
                            <<j, v.att>> \notin timedOut, v \notin unsure
                     PROVE  v \in (block' \cup final') \ good'
            BY <2>1, <2>2 DEF FailureIsFinal
        <3>1. CASE pc[j] = "failed"
            BY <2>1, <2>2, <3>1 DEF VerdictInv, FailureIsFinal
        <3>2. CASE pc[j] # "failed"
            <4>1. j = t.job /\ Current(t, "watching") /\ ~ok
                BY <2>3, <3>2
            <4>2. v = t
                BY <2>2, <4>1, OthersAreTimedOut DEF Current
            <4> QED BY <2>1, <4>1, <4>2
        <3> QED BY <3>1, <3>2
    <2> QED BY <2>4, <2>5, <2>6 DEF VerdictInv
<1>13. ASSUME NEW t \in block, Finalize(t) PROVE VerdictInv'
    <2>1. /\ block' = block \ {t} /\ final' = final \cup {t}
          /\ UNCHANGED <<att, wire, pool, good, unsure, timedOut>>
        BY <1>13 DEF Finalize, history
    <2>2. t \in Live /\ t.job \in Jobs /\ Live' = Live
        BY <2>1 DEF Live
    <2>3. \A j \in Jobs : pc'[j] # pc[j] =>
                j = t.job /\ Current(t, "watching") /\ pc'[j] = "resolved"
        BY <1>13, <2>2, NotifyEach DEF Finalize, Verdict
    <2>4. WaitingFits'
        BY <2>1, <2>2, <2>3 DEF VerdictInv, WaitingFits, Current, Live
    <2>5. ResolvedMeansExecuted'
        <3> SUFFICES ASSUME NEW j \in Jobs, pc'[j] = "resolved" PROVE \E v : Executed(v, j)'
            BY DEF ResolvedMeansExecuted, Executed
        <3>1. CASE pc[j] = "resolved"
            <4>1. PICK v : Executed(v, j)
                BY <3>1 DEF VerdictInv, ResolvedMeansExecuted, Executed
            <4> QED BY <2>1, <4>1, ExecutedStays
        <3>2. CASE pc[j] # "resolved"
            <4>1. j = t.job /\ Current(t, "watching")
                BY <2>3, <3>2
            <4>2. t \in good
                BY <4>1 DEF VerdictInv, WaitingFits
            <4> QED BY <2>1, <4>1, <4>2 DEF Executed, Current
        <3> QED BY <3>1, <3>2
    <2>6. FailureIsFinal'
        BY <2>1, <2>2, <2>3 DEF VerdictInv, FailureIsFinal
    <2> QED BY <2>4, <2>5, <2>6 DEF VerdictInv
<1>14. ASSUME NEW t \in pool, Drop(t) PROVE VerdictInv'
    <2>1. pool' = pool \ {t} /\ UNCHANGED <<att, wire, block, final, good, unsure, timedOut>>
        BY <1>14 DEF Drop
    <2>2. t \in Live /\ t.job \in Jobs /\ Live' = Live \ {t}
        BY <2>1 DEF Live, AttemptInv, OneExtrinsicPerAttempt
    <2>3. \A j \in Jobs : pc'[j] # pc[j] =>
                j = t.job /\ Current(t, "watching") /\ pc'[j] = "failed"
        BY <1>14, <2>2, NotifyEach DEF Drop, Verdict
    <2>4. WaitingFits'
        BY <2>1, <2>2, <2>3 DEF VerdictInv, WaitingFits, Current, Live
    <2>5. ResolvedMeansExecuted'
        BY <2>1, <2>3 DEF VerdictInv, ResolvedMeansExecuted
    <2>6. FailureIsFinal'
        <3>1. ASSUME NEW v \in Live', Current(t, "watching"), v.job = t.job
              PROVE  <<v.job, v.att>> \in timedOut
            BY <2>2, <3>1, OthersAreTimedOut DEF Current
        <3> QED BY <2>1, <2>2, <2>3, <3>1 DEF VerdictInv, FailureIsFinal
    <2> QED BY <2>4, <2>5, <2>6 DEF VerdictInv
<1>15. ASSUME NEW t \in block, Retract(t) PROVE VerdictInv'
    <2> DEFINE gone == {u \in block : u.nonce >= t.nonce}
    <2>1. /\ block' = block \ gone /\ pool' = pool \cup gone /\ unsure' = unsure \cup gone
          /\ UNCHANGED <<att, wire, final, good, timedOut>> /\ Notify(gone, "retracted")
        BY <1>15 DEF Retract
    <2>2. gone \subseteq block
        OBVIOUS
    <2> HIDE DEF gone
    <2>3. Live' = Live /\ gone \subseteq Live
        BY <2>1, <2>2 DEF Live
    <2>4. \A j \in Jobs : pc'[j] # pc[j] =>
                pc'[j] = "failed" /\ \E u \in gone : u.job = j /\ Current(u, "watching")
        BY <2>1, NotifyEach DEF Verdict
    <2>5. WaitingFits'
        BY <2>1, <2>2, <2>3, <2>4 DEF VerdictInv, WaitingFits, Current, Live
    <2>6. ResolvedMeansExecuted'
        <3> SUFFICES ASSUME NEW j \in Jobs, pc'[j] = "resolved" PROVE \E v : Executed(v, j)'
            BY DEF ResolvedMeansExecuted, Executed
        <3>1. PICK v : Executed(v, j)
            BY <2>4 DEF VerdictInv, ResolvedMeansExecuted, Executed
        <3> QED BY <2>1, <2>2, <3>1, ExecutedStays
    <2>7. FailureIsFinal'
        <3> SUFFICES ASSUME NEW j \in Jobs, NEW v \in Live, pc'[j] = "failed", v.job = j,
                            <<j, v.att>> \notin timedOut, v \notin unsure \cup gone
                     PROVE  v \in (block \cup final) \ good
            BY <2>1, <2>3 DEF FailureIsFinal
        <3>1. CASE pc[j] = "failed"
            BY <3>1 DEF VerdictInv, FailureIsFinal
        <3>2. CASE pc[j] # "failed"
            <4>1. PICK u \in gone : u.job = j /\ Current(u, "watching")
                BY <2>4, <3>2
            <4> QED BY <2>3, <4>1, OthersAreTimedOut DEF Current
        <3> QED BY <3>1, <3>2
    <2> QED BY <2>5, <2>6, <2>7 DEF VerdictInv
<1>16. ASSUME NEW t \in block, FinalityTimeout(t) PROVE VerdictInv'
    <2>1. /\ unsure' = unsure \cup {t} /\ Notify({t}, "finalityTimeout")
          /\ UNCHANGED <<att, wire, pool, block, final, good, timedOut>>
        BY <1>16 DEF FinalityTimeout, node
    <2>2. t \in Live /\ t.job \in Jobs /\ Live' = Live
        BY <2>1 DEF Live
    <2>3. \A j \in Jobs : pc'[j] # pc[j] =>
                j = t.job /\ Current(t, "watching") /\ pc'[j] = "failed"
        BY <2>1, NotifyEach DEF Verdict
    <2>4. WaitingFits'
        BY <2>1, <2>2, <2>3 DEF VerdictInv, WaitingFits, Current, Live
    <2>5. ResolvedMeansExecuted'
        <3> SUFFICES ASSUME NEW j \in Jobs, pc'[j] = "resolved" PROVE \E v : Executed(v, j)'
            BY DEF ResolvedMeansExecuted, Executed
        <3>1. PICK v : Executed(v, j)
            BY <2>3 DEF VerdictInv, ResolvedMeansExecuted, Executed
        <3> QED BY <2>1, <3>1, ExecutedStays
    <2>6. FailureIsFinal'
        <3> SUFFICES ASSUME NEW j \in Jobs, NEW v \in Live, pc'[j] = "failed", v.job = j,
                            <<j, v.att>> \notin timedOut, v \notin unsure \cup {t}
                     PROVE  v \in (block \cup final) \ good
            BY <2>1, <2>2 DEF FailureIsFinal
        <3>1. CASE pc[j] = "failed"
            BY <3>1 DEF VerdictInv, FailureIsFinal
        <3>2. CASE pc[j] # "failed"
            BY <2>2, <2>3, <3>2, OthersAreTimedOut DEF Current
        <3> QED BY <3>1, <3>2
    <2> QED BY <2>4, <2>5, <2>6 DEF VerdictInv
<1>17. CASE UNCHANGED vars
    BY <1>17 DEF vars, client, node, history, VerdictInv, WaitingFits, ResolvedMeansExecuted,
                 FailureIsFinal, Live, Current
<1> QED
    BY <1>1, <1>2, <1>3, <1>4, <1>5, <1>6, <1>7, <1>8, <1>9, <1>10, <1>11, <1>12,
       <1>13, <1>14, <1>15, <1>16, <1>17
       DEF Next, ClientStep, NodeStep, FaultStep

LEMMA VerdictInvariant == Spec => []VerdictInv
BY TypeCorrect, InitAttempt, StepAttempt, InitVerdict, StepVerdict, PTL DEF Spec

\* A promise of submit or handle that resolved was executed, and stays so
\* unless the chain takes the block back; with waitForFinalization it is final.
THEOREM ResolvedExecuted == Spec => []ResolvedMeansExecuted
<1>1. VerdictInv => ResolvedMeansExecuted
    BY DEF VerdictInv
<1> QED BY <1>1, VerdictInvariant, PTL

\* One that rejected left nothing behind that may still be executed, unless
\* the job had timed out or the chain took a block back.
THEOREM FailureFinal == Spec => []FailureIsFinal
<1>1. VerdictInv => FailureIsFinal
    BY DEF VerdictInv
<1> QED BY <1>1, VerdictInvariant, PTL

-----------------------------------------------------------------------------
(* The budget of the loop.                                                 *)

TimeoutsOf(j) == {r \in timedOut : r[1] = j}

\* The loop has paid for its timeouts, and when it has nothing left all it
\* sent has timed out.
BudgetFits(j) ==
    /\ IsFiniteSet(TimeoutsOf(j))
    /\ Cardinality(TimeoutsOf(j)) * TimeoutCost <= cost[j]
    /\ cost[j] < Budget + TimeoutCost
    /\ cost[j] >= Budget => /\ pc[j] \in {"retry", "failed"}
                            /\ \A t \in Live : t.job = j => <<j, t.att>> \in timedOut

BudgetInv == \A j \in Jobs : BudgetFits(j)

LEMMA InitBudget == Init => BudgetInv
<1> SUFFICES ASSUME Init, NEW j \in Jobs PROVE BudgetFits(j)
    BY DEF BudgetInv
<1>1. TimeoutsOf(j) = {}
    BY DEF Init, TimeoutsOf
<1> QED BY <1>1, FS_EmptySet, SubmissionAssumption DEF Init, BudgetFits

\* A step that takes no turns keeps it, where the job stays within its budget
\* or has failed.
LEMMA BudgetKept ==
    ASSUME NEW j \in Jobs, BudgetFits(j), timedOut' = timedOut, cost'[j] = cost[j],
           \A t \in Live' : t.job = j => t \in Live \/ <<j, t.att>> \in timedOut,
           cost[j] >= Budget => pc'[j] \in {"retry", "failed"}
    PROVE  BudgetFits(j)'
<1>1. TimeoutsOf(j)' = TimeoutsOf(j)
    BY DEF TimeoutsOf
<1> QED BY <1>1 DEF BudgetFits

\* One more timeout, one more time its cost.
LEMMA OneMore ==
    ASSUME NEW c \in Nat, NEW k \in Nat, NEW b \in Nat, c * k <= b
    PROVE  (c + 1) * k <= b + k
<1>1. (c + 1) * k = c * k + k /\ c * k \in Nat
    OBVIOUS
<1> QED BY <1>1

\* One more element adds at most one to the size of a set.
LEMMA OneMoreElement ==
    ASSUME NEW S, NEW x, IsFiniteSet(S)
    PROVE  /\ IsFiniteSet(S \cup {x}) /\ Cardinality(S) \in Nat
           /\ Cardinality(S \cup {x}) \in Nat
           /\ \/ Cardinality(S \cup {x}) = Cardinality(S)
              \/ Cardinality(S \cup {x}) = Cardinality(S) + 1
<1>1. /\ IsFiniteSet(S \cup {x})
      /\ Cardinality(S \cup {x}) = IF x \in S THEN Cardinality(S) ELSE Cardinality(S) + 1
    BY FS_AddElement
<1>2. Cardinality(S) \in Nat /\ Cardinality(S \cup {x}) \in Nat
    BY <1>1, FS_CardinalityType
<1> QED BY <1>1, <1>2

LEMMA StepBudget == TypeOK /\ AttemptInv /\ BudgetInv /\ [Next]_vars => BudgetInv'
<1> SUFFICES ASSUME TypeOK, AttemptInv, BudgetInv, [Next]_vars, NEW j \in Jobs PROVE BudgetFits(j)'
    BY DEF BudgetInv
<1>0. BudgetFits(j) /\ cost[j] \in Nat /\ Budget \in Nat /\ TimeoutCost \in Nat \ {0}
    BY SubmissionAssumption DEF BudgetInv, TypeOK
<1>1. ASSUME NEW i \in Jobs, ClientStep(i) \/ AnswerIndex(i) \/ IndexFails(i) PROVE BudgetFits(j)'
    <2>1. timedOut' = timedOut /\ cost' = cost
        BY <1>1 DEF ClientStep, Attempt, GiveUp, Send, AnswerIndex, IndexFails, history
    <2>2. pc'[j] = pc[j] \/ (i = j /\ cost[j] < Budget) \/ pc'[j] = "failed"
        BY <1>0, <1>1 DEF ClientStep, Attempt, GiveUp, Send, AnswerIndex, IndexFails, BudgetFits, TypeOK
    <2>3. CASE Send(i) /\ i = j
        <3>1. cost[j] < Budget
            BY <1>0, <2>3 DEF Send, BudgetFits
        <3>2. TimeoutsOf(j)' = TimeoutsOf(j)
            BY <2>1 DEF TimeoutsOf
        <3> QED BY <1>0, <2>1, <3>1, <3>2 DEF BudgetFits
    <2>4. CASE ~(Send(i) /\ i = j)
        <3>1. \A t \in Live' : t.job = j => t \in Live
            BY <1>1, <2>4 DEF ClientStep, Attempt, GiveUp, Send, AnswerIndex, IndexFails, node, Live
        <3> QED BY <1>0, <2>1, <2>2, <3>1, BudgetKept DEF BudgetFits
    <2> QED BY <2>3, <2>4
<1>2. ASSUME NEW i \in Jobs, Timeout(i) PROVE BudgetFits(j)'
    <2>1. Live' = Live /\ timedOut' = timedOut \cup {<<i, att[i]>>}
        BY <1>2 DEF Timeout, node, Live
    <2>2. CASE i # j
        <3>1. TimeoutsOf(j)' = TimeoutsOf(j) /\ cost'[j] = cost[j] /\ pc'[j] = pc[j]
            BY <1>2, <2>1, <2>2 DEF TimeoutsOf, Timeout, TypeOK
        <3> QED BY <1>0, <2>1, <3>1 DEF BudgetFits
    <2>3. CASE i = j
        <3>1. cost[j] < Budget /\ cost'[j] = cost[j] + TimeoutCost /\ pc'[j] = "retry"
            BY <1>0, <1>2, <2>3 DEF Timeout, TimedOutTurns, Asking, BudgetFits, TypeOK
        <3>2. TimeoutsOf(j)' = TimeoutsOf(j) \cup {<<j, att[j]>>}
            BY <2>1, <2>3 DEF TimeoutsOf
        <3>3. /\ IsFiniteSet(TimeoutsOf(j)') /\ Cardinality(TimeoutsOf(j)) \in Nat
              /\ \/ Cardinality(TimeoutsOf(j)') = Cardinality(TimeoutsOf(j))
                 \/ Cardinality(TimeoutsOf(j)') = Cardinality(TimeoutsOf(j)) + 1
            <4>1. IsFiniteSet(TimeoutsOf(j))
                BY <1>0 DEF BudgetFits
            <4> QED BY <3>2, <4>1, OneMoreElement
        <3>4. Cardinality(TimeoutsOf(j)') * TimeoutCost <= cost'[j]
            <4>1. /\ Cardinality(TimeoutsOf(j)) * TimeoutCost <= cost[j]
                  /\ Cardinality(TimeoutsOf(j)) * TimeoutCost \in Nat
                BY <1>0, <3>3 DEF BudgetFits
            <4>2. (Cardinality(TimeoutsOf(j)) + 1) * TimeoutCost <= cost[j] + TimeoutCost
                BY <1>0, <3>3, <4>1, OneMore
            <4> QED BY <1>0, <3>1, <3>3, <4>1, <4>2
        <3>5. ASSUME NEW t \in Live, t.job = j PROVE <<j, t.att>> \in timedOut'
            <4>1. t.att = att[j] \/ t.att < att[j]
                BY <3>5 DEF AttemptInv, AttemptsCount, TypeOK, Tx, Live
            <4> QED BY <2>1, <2>3, <3>5, <4>1 DEF AttemptInv, RetriesAreSafe
        <3> QED BY <1>0, <2>1, <3>1, <3>3, <3>4, <3>5 DEF BudgetFits
    <2> QED BY <2>2, <2>3
<1>3. ASSUME NEW r \in late, LateSend(r) PROVE BudgetFits(j)'
    <2>1. UNCHANGED <<timedOut, cost, pc>>
        BY <1>3 DEF LateSend, history
    <2>2. \A t \in Live' : t \in Live \/ <<t.job, t.att>> = r
        BY <1>3 DEF LateSend, Live, TypeOK
    <2>3. r \in timedOut
        BY DEF AttemptInv, LateIsTimedOut
    <2> QED BY <1>0, <2>1, <2>2, <2>3, BudgetKept DEF BudgetFits
<1>4. ASSUME NEW t \in wire, Bounce(t) PROVE BudgetFits(j)'
    <2>1. timedOut' = timedOut /\ Live' \subseteq Live /\ TimeoutsOf(j)' = TimeoutsOf(j)
        BY <1>4 DEF Bounce, history, Live, TimeoutsOf
    <2>2. CASE Current(t, "sending") /\ t.job = j
        <3>1. cost[j] < Budget /\ cost'[j] = cost[j] + 1 /\ pc'[j] = "retry"
            BY <1>0, <1>4, <2>2 DEF Bounce, Current, BudgetFits, TypeOK
        <3>2. t \in Live /\ t \notin Live'
            BY <1>4 DEF Bounce, history, Live, AttemptInv, OneExtrinsicPerAttempt
        <3>3. \A u \in Live' : u.job = j => <<j, u.att>> \in timedOut
            BY <2>1, <2>2, <3>2, OthersAreTimedOut DEF Current
        <3>4. Cardinality(TimeoutsOf(j)) * TimeoutCost \in Nat
            BY <1>0, FS_CardinalityType DEF BudgetFits
        <3> QED BY <1>0, <2>1, <3>1, <3>3, <3>4 DEF BudgetFits
    <2>3. CASE ~(Current(t, "sending") /\ t.job = j)
        <3>1. cost'[j] = cost[j] /\ pc'[j] = pc[j]
            BY <1>4, <2>3 DEF Bounce, TypeOK
        <3> QED BY <1>0, <2>1, <3>1, BudgetKept DEF BudgetFits
    <2> QED BY <2>2, <2>3
<1>5. ASSUME NEW t \in wire, Accept(t) \/ Refuse(t) PROVE BudgetFits(j)'
    <2>1. timedOut' = timedOut /\ cost' = cost /\ Live' \subseteq Live
        BY <1>5 DEF Accept, Refuse, history, Live
    <2>2. pc'[j] = pc[j] \/ pc[j] = "sending"
        BY <1>5 DEF Accept, Refuse, Watch, Current, TypeOK
    <2> QED BY <1>0, <2>1, <2>2, BudgetKept DEF BudgetFits
<1>6. ASSUME NEW t \in wire, NEW u \in pool, Usurp(t, u) PROVE BudgetFits(j)'
    <2>1. timedOut' = timedOut /\ cost' = cost /\ Live' \subseteq Live
        BY <1>6 DEF Usurp, Live
    <2>2. pc'[j] = pc[j] \/ pc[j] \in {"sending", "watching"}
        BY <1>6 DEF Usurp, Verdict, Current, TypeOK
    <2> QED BY <1>0, <2>1, <2>2, BudgetKept DEF BudgetFits
<1>7. ASSUME NEW S, NEW status, Notify(S, status), timedOut' = timedOut, cost' = cost,
             Live' \subseteq Live
      PROVE  BudgetFits(j)'
    <2>1. pc'[j] = pc[j] \/ pc[j] = "watching"
        BY <1>7, NotifyEach DEF Current
    <2> QED BY <1>0, <1>7, <2>1, BudgetKept DEF BudgetFits
<1>8. ASSUME NEW t \in pool, NEW ok \in BOOLEAN, Include(t, ok) \/ Drop(t) PROVE BudgetFits(j)'
    BY <1>7, <1>8 DEF Include, Drop, Live
<1>9. ASSUME NEW t \in block, Finalize(t) \/ Retract(t) \/ FinalityTimeout(t) PROVE BudgetFits(j)'
    BY <1>7, <1>9 DEF Finalize, Retract, FinalityTimeout, history, node, Live
<1>10. CASE UNCHANGED vars
    BY <1>0, <1>10, BudgetKept DEF vars, client, node, history, Live, BudgetFits
<1> QED
    BY <1>1, <1>2, <1>3, <1>4, <1>5, <1>6, <1>8, <1>9, <1>10 DEF Next, NodeStep, FaultStep

LEMMA ProductOrder ==
    ASSUME NEW m \in Nat, NEW n \in Nat, NEW k \in Nat, m <= n
    PROVE  m * k <= n * k /\ m * k \in Nat /\ n * k \in Nat
<1>1. PICK d \in Nat : n = m + d
    <2>1. n - m \in Nat /\ n = m + (n - m)
        OBVIOUS
    <2> QED BY <2>1
<1>2. n * k = m * k + d * k /\ m * k \in Nat /\ d * k \in Nat
    BY <1>1
<1> QED BY <1>2

\* As many extrinsics of a job are executed as it had attempts time out, and
\* one more; the budget of the loop bounds those.
THEOREM ExecutionsAreBounded == Spec => []ExecutionsBounded
<1>1. TypeOK /\ AttemptInv /\ BudgetInv => ExecutionsBounded
    <2> SUFFICES ASSUME TypeOK, AttemptInv, BudgetInv, NEW j \in Jobs
                 PROVE  Cardinality({t \in block \cup final : t.job = j}) * TimeoutCost
                            < Budget + TimeoutCost
        BY DEF ExecutionsBounded
    <2> DEFINE E == {t \in block \cup final : t.job = j}
               A == TimeoutsOf(j)
               f == [t \in E |-> <<t.job, t.att>>]
    <2>1. BudgetFits(j) /\ cost[j] \in Nat /\ Budget \in Nat /\ TimeoutCost \in Nat \ {0}
        BY SubmissionAssumption DEF BudgetInv, TypeOK
    <2>2. IsFiniteSet(A) /\ Cardinality(A) \in Nat /\ Cardinality(A) * TimeoutCost <= cost[j]
        BY <2>1, FS_CardinalityType DEF BudgetFits
    <2>3. E \subseteq Live /\ \A t, u \in E : f[t] = f[u] => t = u
        BY DEF Live, AttemptInv, OneExtrinsicPerAttempt
    <2>4. \A t \in E : <<t.job, t.att>> \in A \cup {<<j, att[j]>>}
        <3> SUFFICES ASSUME NEW t \in E, t.att # att[j] PROVE <<t.job, t.att>> \in A
            OBVIOUS
        <3>1. t \in Live /\ t.job = j /\ t.att < att[j]
            BY <2>3 DEF AttemptInv, AttemptsCount, TypeOK, Tx, Live
        <3> QED BY <3>1 DEF AttemptInv, RetriesAreSafe, TimeoutsOf
    <2>5. CASE cost[j] >= Budget
        <3>1. \A t \in E : <<t.job, t.att>> \in A
            BY <2>1, <2>3, <2>5 DEF BudgetFits, TimeoutsOf
        <3>2. f \in Injection(E, A)
            BY <2>3, <3>1 DEF Injection, IsInjective
        <3>3. Cardinality(E) <= Cardinality(A) /\ Cardinality(E) \in Nat
            BY <2>2, <3>2, FS_Injection, FS_CardinalityType
        <3>4. /\ Cardinality(E) * TimeoutCost <= Cardinality(A) * TimeoutCost
              /\ Cardinality(E) * TimeoutCost \in Nat /\ Cardinality(A) * TimeoutCost \in Nat
            BY <2>1, <2>2, <3>3, ProductOrder
        <3>5. Cardinality(E) * TimeoutCost < Budget + TimeoutCost
            <4>1. cost[j] < Budget + TimeoutCost
                BY <2>1 DEF BudgetFits
            <4> HIDE DEF E, A
            <4> QED BY <2>1, <2>2, <3>4, <4>1
        <3> QED BY <3>5
    <2>6. CASE cost[j] < Budget
        <3> DEFINE B == A \cup {<<j, att[j]>>}
        <3>1. f \in Injection(E, B)
            BY <2>3, <2>4 DEF Injection, IsInjective
        <3>2. IsFiniteSet(B) /\ Cardinality(B) \in Nat /\ Cardinality(B) <= Cardinality(A) + 1
            <4>1. /\ IsFiniteSet(B) /\ Cardinality(A) \in Nat /\ Cardinality(B) \in Nat
                  /\ Cardinality(B) = Cardinality(A) \/ Cardinality(B) = Cardinality(A) + 1
                <5> HIDE DEF A
                <5> QED BY <2>2, OneMoreElement
            <4> HIDE DEF A, B
            <4> QED BY <4>1
        <3>3. Cardinality(E) <= Cardinality(B) /\ Cardinality(E) \in Nat
            <4> HIDE DEF B
            <4> QED BY <3>1, <3>2, FS_Injection, FS_CardinalityType
        <3> HIDE DEF E, A, B, f
        <3>4. Cardinality(E) <= Cardinality(A) + 1
            BY <2>2, <3>2, <3>3
        <3>5. /\ Cardinality(E) * TimeoutCost <= (Cardinality(A) + 1) * TimeoutCost
              /\ Cardinality(E) * TimeoutCost \in Nat /\ (Cardinality(A) + 1) * TimeoutCost \in Nat
            BY <2>1, <2>2, <3>3, <3>4, ProductOrder
        <3>6. (Cardinality(A) + 1) * TimeoutCost <= cost[j] + TimeoutCost
            BY <2>1, <2>2, OneMore
        <3>7. Cardinality(E) * TimeoutCost < Budget + TimeoutCost
            BY <2>1, <2>6, <3>5, <3>6
        <3> QED BY <3>7 DEF E
    <2> QED BY <2>1, <2>5, <2>6
<1> QED
    BY <1>1, TypeCorrect, InitAttempt, StepAttempt, InitBudget, StepBudget, PTL DEF Spec

-----------------------------------------------------------------------------
(* Nonces.                                                                 *)

\* Without a race the tracker is past every nonce the queue has sent.
TrackerIsAhead ==
    ~raced => \A t \in Live : t.job \in Queued => t.nonce < tracker

\* Every nonce below n is in use or was burnt.
Covered(n) == \A m \in Nat : m < n => Held(m) \/ m \in burnt

\* The chain's own nonces have no gap.
ChainIsContinuous ==
    /\ \A m \in Nat : m < next => \E u \in block \cup final : u.nonce = m
    /\ \A t \in block : t.nonce < next

NonceInv ==
    /\ ChainIsContinuous
    /\ Covered(tracker)
    /\ \A j \in Jobs : Covered(seen[j]) /\ Covered(idx[j])
    /\ \A t \in Live : Covered(t.nonce)

\* Only a send brings a new extrinsic; only the queue's own moves the tracker.
LEMMA NoNewExtrinsic ==
    ASSUME TypeOK, [Next]_vars,
           \A j \in Jobs : ~Send(j), \A r \in late : ~LateSend(r)
    PROVE  Live' \subseteq Live /\ tracker' = tracker /\ raced' = raced
<1> USE DEF Live
<1>1. ASSUME NEW j \in Jobs, Attempt(j) \/ GiveUp(j) \/ AnswerIndex(j)
      PROVE  Live' \subseteq Live /\ tracker' = tracker /\ raced' = raced
    BY <1>1 DEF Attempt, GiveUp, AnswerIndex, node, history
<1>2. ASSUME NEW j \in Jobs, IndexFails(j) \/ Timeout(j)
      PROVE  Live' \subseteq Live /\ tracker' = tracker /\ raced' = raced
    BY <1>2 DEF IndexFails, Timeout, node
<1>3. ASSUME NEW t \in wire, Bounce(t) \/ Accept(t) \/ Refuse(t)
      PROVE  Live' \subseteq Live /\ tracker' = tracker /\ raced' = raced
    BY <1>3 DEF Bounce, Accept, Refuse, history
<1>4. ASSUME NEW t \in wire, NEW u \in pool, Usurp(t, u)
      PROVE  Live' \subseteq Live /\ tracker' = tracker /\ raced' = raced
    BY <1>4 DEF Usurp
<1>5. ASSUME NEW t \in pool, NEW ok \in BOOLEAN, Include(t, ok) \/ Drop(t)
      PROVE  Live' \subseteq Live /\ tracker' = tracker /\ raced' = raced
    BY <1>5 DEF Include, Drop
<1>6. ASSUME NEW t \in block, Finalize(t) \/ Retract(t) \/ FinalityTimeout(t)
      PROVE  Live' \subseteq Live /\ tracker' = tracker /\ raced' = raced
    BY <1>6 DEF Finalize, Retract, FinalityTimeout, history, node
<1>7. CASE UNCHANGED vars
    BY <1>7 DEF vars, client, node, history
<1> HIDE DEF Live
<1> QED
    BY <1>1, <1>2, <1>3, <1>4, <1>5, <1>6, <1>7
       DEF Next, ClientStep, NodeStep, FaultStep

LEMMA InitDistinct == Init => TrackerIsAhead /\ NoncesAreDistinct
BY DEF Init, TrackerIsAhead, NoncesAreDistinct, Live

LEMMA StepDistinct ==
    TypeOK /\ TrackerIsAhead /\ NoncesAreDistinct /\ [Next]_vars
        => TrackerIsAhead' /\ NoncesAreDistinct'
<1> SUFFICES ASSUME TypeOK, TrackerIsAhead, NoncesAreDistinct, [Next]_vars
             PROVE  TrackerIsAhead' /\ NoncesAreDistinct'
    OBVIOUS
<1> USE DEF TrackerIsAhead, NoncesAreDistinct
<1>1. Live \subseteq Tx
    BY DEF Live, TypeOK
<1>2. ASSUME NEW j \in Jobs, Send(j) PROVE TrackerIsAhead' /\ NoncesAreDistinct'
    <2> DEFINE t0 == [job |-> j, att |-> att[j], nonce |-> Nonce(j)]
    <2>1. Live' = Live \cup {t0} /\ t0.job = j /\ t0.nonce = Nonce(j)
        BY <1>2 DEF Send, Live
    <2>2. CASE j \in Queued
        <3>1. Nonce(j) \in Nat /\ Nonce(j) >= seen[j] /\ tracker' = Nonce(j) + 1
            BY <1>2, <2>2 DEF Send, Nonce, TrackerAfter, Larger, TypeOK
        <3>2. ~raced' => ~raced /\ seen[j] = tracker
            BY <1>2, <2>2 DEF Send
        <3>3. ~raced' => \A t \in Live : t.job \in Queued => t.nonce < Nonce(j)
            BY <1>1, <3>1, <3>2 DEF TypeOK, Tx
        <3>4. TrackerIsAhead'
            BY <1>1, <2>1, <3>1, <3>3 DEF Tx
        <3>5. NoncesAreDistinct'
            BY <1>1, <2>1, <3>1, <3>2, <3>3 DEF Tx
        <3> QED
            BY <3>4, <3>5
    <2>3. CASE j \notin Queued
        <3>1. tracker' = tracker /\ (raced' <=> raced)
            BY <1>2, <2>3 DEF Send
        <3> QED
            BY <2>1, <2>3, <3>1
    <2> QED
        BY <2>2, <2>3
<1>3. ASSUME NEW r \in late, LateSend(r) PROVE TrackerIsAhead' /\ NoncesAreDistinct'
    <2>1. PICK n \in IndexCandidates :
              wire' = wire \cup {[job |-> r[1], att |-> r[2], nonce |-> n]}
        BY <1>3 DEF LateSend
    <2> DEFINE t0 == [job |-> r[1], att |-> r[2], nonce |-> n]
    <2>2. t0.job \notin Queued
        BY SubmissionAssumption DEF TypeOK
    <2>3. Live' = Live \cup {t0} /\ tracker' = tracker /\ raced' = raced
        BY <1>3, <2>1 DEF LateSend, Live, history
    <2> QED
        BY <2>2, <2>3
<1>4. CASE (\A j \in Jobs : ~Send(j)) /\ (\A r \in late : ~LateSend(r))
    BY <1>4, NoNewExtrinsic
<1> QED
    BY <1>2, <1>3, <1>4

\* However many jobs overlap, retry and time out: two extrinsics of the queue
\* share a nonce only after two of its nextNonce calls overlapped.
THEOREM NoncesDistinct == Spec => []NoncesAreDistinct
BY TypeCorrect, InitDistinct, StepDistinct, PTL DEF Spec

\* A nonce in use stays in use, or is burnt.
LEMMA HeldKept ==
    ASSUME TypeOK, ChainIsContinuous, [Next]_vars, NEW m \in Nat, Held(m) \/ m \in burnt
    PROVE  Held(m)' \/ m \in burnt'
<1> USE DEF Held, Live
<1>1. ASSUME NEW j \in Jobs, Attempt(j) \/ GiveUp(j) \/ AnswerIndex(j) \/ Send(j)
      PROVE  Held(m)' \/ m \in burnt'
    BY <1>1 DEF Attempt, GiveUp, AnswerIndex, Send, node, history
<1>2. ASSUME NEW j \in Jobs, IndexFails(j) \/ Timeout(j)
      PROVE  Held(m)' \/ m \in burnt'
    BY <1>2 DEF IndexFails, Timeout, node
<1>3. ASSUME NEW r \in late, LateSend(r) PROVE Held(m)' \/ m \in burnt'
    BY <1>3 DEF LateSend, history
<1>4. ASSUME NEW t \in wire, Bounce(t) PROVE Held(m)' \/ m \in burnt'
    <2>1. wire' = wire \ {t} /\ UNCHANGED <<pool, block, final, burnt>>
        BY <1>4 DEF Bounce, history
    <2>2. ASSUME m = t.nonce PROVE Held(m)'
        <3>1. CASE t.nonce < next
            BY <3>1, <2>1, <2>2 DEF ChainIsContinuous
        <3>2. CASE Occupied(t.nonce)
            BY <3>2, <2>1, <2>2 DEF Occupied
        <3> QED
            BY <1>4, <3>1, <3>2 DEF Bounce
    <2> QED
        BY <2>1, <2>2
<1>5. ASSUME NEW t \in wire, Accept(t) \/ Refuse(t) PROVE Held(m)' \/ m \in burnt'
    BY <1>5 DEF Accept, Refuse, history
<1>6. ASSUME NEW t \in wire, NEW u \in pool, Usurp(t, u) PROVE Held(m)' \/ m \in burnt'
    BY <1>6 DEF Usurp
<1>7. ASSUME NEW t \in pool, NEW ok \in BOOLEAN, Include(t, ok) \/ Drop(t)
      PROVE  Held(m)' \/ m \in burnt'
    BY <1>7 DEF Include, Drop
<1>8. ASSUME NEW t \in block, Finalize(t) \/ Retract(t) \/ FinalityTimeout(t)
      PROVE  Held(m)' \/ m \in burnt'
    BY <1>8 DEF Finalize, Retract, FinalityTimeout, history, node
<1>9. CASE UNCHANGED vars
    BY <1>9 DEF vars, client, node, history
<1> HIDE DEF Held, Live
<1> QED
    BY <1>1, <1>2, <1>3, <1>4, <1>5, <1>6, <1>7, <1>8, <1>9
       DEF Next, ClientStep, NodeStep, FaultStep

\* Hence what lies below a nonce stays taken.
LEMMA CoveredKept ==
    ASSUME TypeOK, ChainIsContinuous, [Next]_vars, NEW n \in Nat, Covered(n)
    PROVE  \A m \in Nat : m < n => Held(m)' \/ m \in burnt'
BY HeldKept DEF Covered

LEMMA StepChain == TypeOK /\ ChainIsContinuous /\ [Next]_vars => ChainIsContinuous'
<1> SUFFICES ASSUME TypeOK, ChainIsContinuous, [Next]_vars PROVE ChainIsContinuous'
    OBVIOUS
<1> USE DEF ChainIsContinuous
<1>1. ASSUME NEW t \in pool, NEW ok \in BOOLEAN, Include(t, ok) PROVE ChainIsContinuous'
    <2>1. /\ t.nonce = next /\ next' = next + 1
          /\ block' = block \cup {t} /\ final' = final
        BY <1>1 DEF Include
    <2>2. ASSUME NEW m \in Nat, m < next'
          PROVE  \E u \in block' \cup final' : u.nonce = m
        <3>1. m < next \/ m = next
            BY <2>1, <2>2 DEF TypeOK
        <3> QED
            BY <2>1, <3>1
    <2>3. \A u \in block' : u.nonce < next'
        BY <2>1 DEF TypeOK, Tx
    <2> QED
        BY <2>2, <2>3
<1>2. ASSUME NEW t \in block, Finalize(t) PROVE ChainIsContinuous'
    BY <1>2 DEF Finalize
<1>3. ASSUME NEW t \in block, Retract(t) PROVE ChainIsContinuous'
    <2>1. /\ next' = t.nonce /\ final' = final
          /\ block' = block \ {u \in block : u.nonce >= t.nonce}
        BY <1>3 DEF Retract
    <2>2. ASSUME NEW m \in Nat, m < next'
          PROVE  \E u \in block' \cup final' : u.nonce = m
        <3>1. m < t.nonce /\ t.nonce < next /\ t.nonce \in Nat
            BY <2>1, <2>2 DEF TypeOK, Tx
        <3>2. PICK u \in block \cup final : u.nonce = m
            BY <3>1 DEF TypeOK
        <3> QED
            BY <2>1, <3>1, <3>2
    <2>3. \A u \in block' : u.nonce < next'
        BY <2>1 DEF TypeOK, Tx
    <2> QED
        BY <2>2, <2>3
<1>4. ASSUME UNCHANGED <<next, block, final>> PROVE ChainIsContinuous'
    BY <1>4
<1>5. ASSUME NEW j \in Jobs,
             Attempt(j) \/ GiveUp(j) \/ AnswerIndex(j) \/ Send(j) \/ IndexFails(j) \/ Timeout(j)
      PROVE  ChainIsContinuous'
    BY <1>4, <1>5 DEF Attempt, GiveUp, AnswerIndex, Send, IndexFails, Timeout, node
<1>6. ASSUME NEW r \in late, LateSend(r) PROVE ChainIsContinuous'
    BY <1>4, <1>6 DEF LateSend
<1>7. ASSUME NEW t \in wire,
             Bounce(t) \/ Accept(t) \/ Refuse(t) \/ \E u \in pool : Usurp(t, u)
      PROVE  ChainIsContinuous'
    BY <1>4, <1>7 DEF Bounce, Accept, Refuse, Usurp
<1>8. ASSUME NEW t \in pool, Drop(t) PROVE ChainIsContinuous'
    BY <1>4, <1>8 DEF Drop
<1>9. ASSUME NEW t \in block, FinalityTimeout(t) PROVE ChainIsContinuous'
    BY <1>4, <1>9 DEF FinalityTimeout, node
<1>10. CASE UNCHANGED vars
    BY <1>4, <1>10 DEF vars, node
<1> HIDE DEF ChainIsContinuous
<1> QED
    BY <1>1, <1>2, <1>3, <1>5, <1>6, <1>7, <1>8, <1>9, <1>10
       DEF Next, ClientStep, NodeStep, FaultStep

\* What accountNextIndex answers has nothing free below it.
LEMMA IndexCovered ==
    ASSUME TypeOK, ChainIsContinuous, NEW n \in Nat, IsNextIndex(n)
    PROVE  Covered(n)
<1> SUFFICES ASSUME NEW m \in Nat, m < n PROVE Held(m)
    BY DEF Covered
<1>1. CASE m < next
    BY <1>1 DEF ChainIsContinuous, Held, Live
<1>2. CASE m >= next
    <2>1. Occupied(m)
        BY <1>2 DEF IsNextIndex, TypeOK
    <2> QED
        BY <2>1 DEF Occupied, Held, Live
<1> QED
    BY <1>1, <1>2 DEF TypeOK

LEMMA InitNonce == Init => NonceInv
BY DEF Init, NonceInv, ChainIsContinuous, Covered, Live, Held

\* Only a turn of the loop reads the tracker, and only an answer sets byRpc.
LEMMA NonceSourcesKept ==
    ASSUME TypeOK, [Next]_vars, \A j \in Jobs : ~Attempt(j) /\ ~AnswerIndex(j)
    PROVE  seen' = seen /\ idx' = idx
<1>1. ASSUME NEW j \in Jobs, GiveUp(j) \/ Send(j) \/ IndexFails(j) \/ Timeout(j)
      PROVE  seen' = seen /\ idx' = idx
    BY <1>1 DEF GiveUp, Send, IndexFails, Timeout
<1>2. ASSUME NEW r \in late, LateSend(r) PROVE seen' = seen /\ idx' = idx
    BY <1>2 DEF LateSend
<1>3. ASSUME NEW t \in wire,
             Bounce(t) \/ Accept(t) \/ Refuse(t) \/ \E u \in pool : Usurp(t, u)
      PROVE  seen' = seen /\ idx' = idx
    BY <1>3 DEF Bounce, Accept, Refuse, Usurp
<1>4. ASSUME NEW t \in pool, NEW ok \in BOOLEAN, Include(t, ok) \/ Drop(t)
      PROVE  seen' = seen /\ idx' = idx
    BY <1>4 DEF Include, Drop
<1>5. ASSUME NEW t \in block, Finalize(t) \/ Retract(t) \/ FinalityTimeout(t)
      PROVE  seen' = seen /\ idx' = idx
    BY <1>5 DEF Finalize, Retract, FinalityTimeout
<1>6. CASE UNCHANGED vars
    BY <1>6 DEF vars, client
<1> QED
    BY <1>1, <1>2, <1>3, <1>4, <1>5, <1>6 DEF Next, ClientStep, NodeStep, FaultStep

\* One argument for every step: what was covered stays covered, and a step
\* that takes over a new nonce takes a covered one.
LEMMA StepNonce == TypeOK /\ NonceInv /\ [Next]_vars => NonceInv'
<1> SUFFICES ASSUME TypeOK, NonceInv, [Next]_vars PROVE NonceInv'
    OBVIOUS
<1> DEFINE Kept(n) == \A m \in Nat : m < n => Held(m)' \/ m \in burnt'
           Nonces == /\ Kept(tracker')
                     /\ \A j \in Jobs : Kept(seen'[j]) /\ Kept(idx'[j])
                     /\ \A t \in Live' : Kept(t.nonce)
<1>1. ChainIsContinuous /\ ChainIsContinuous'
    BY StepChain DEF NonceInv
<1>2. ASSUME NEW n \in Nat, Covered(n) PROVE Kept(n)
    BY <1>1, <1>2, CoveredKept
<1>3. /\ Kept(tracker) /\ Kept(0)
      /\ \A j \in Jobs : Kept(seen[j]) /\ Kept(idx[j])
      /\ \A t \in Live : Kept(t.nonce)
    <2>1. Kept(0)
        OBVIOUS
    <2> HIDE DEF Kept
    <2> QED
        BY <1>2, <2>1 DEF NonceInv, TypeOK, Live, Tx
<1>4. SUFFICES Nonces
    BY <1>1 DEF NonceInv, Covered
<1> HIDE DEF Kept
<1>5. ASSUME NEW j \in Jobs, Attempt(j) PROVE Nonces
    <2>1. /\ seen' = [seen EXCEPT ![j] = IF j \in Queued THEN tracker ELSE 0]
          /\ UNCHANGED <<idx, tracker, Live>>
        BY <1>5 DEF Attempt, node, Live
    <2> QED
        BY <1>3, <2>1 DEF TypeOK
<1>6. ASSUME NEW j \in Jobs, AnswerIndex(j) PROVE Nonces
    <2>1. PICK n \in IndexCandidates : IsNextIndex(n) /\ idx' = [idx EXCEPT ![j] = n]
        BY <1>6 DEF AnswerIndex
    <2>2. Kept(n)
        BY <1>1, <1>2, <2>1, IndexType, IndexCovered
    <2>3. UNCHANGED <<seen, tracker, Live>>
        BY <1>6 DEF AnswerIndex, node, Live
    <2> QED
        BY <1>3, <2>1, <2>2, <2>3 DEF TypeOK
<1>7. ASSUME NEW j \in Jobs, Send(j) PROVE Nonces
    <2>1. PICK n \in Nat : n = Nonce(j)
        BY NonceType
    <2> DEFINE t0 == [job |-> j, att |-> att[j], nonce |-> n]
    <2>2. Live' = Live \cup {t0} /\ t0.nonce = n
        BY <1>7, <2>1 DEF Send, Live
    <2>3. UNCHANGED <<seen, idx>> /\ tracker' \in {tracker, n + 1}
        BY <1>7, <2>1 DEF Send, TrackerAfter
    <2>4. Kept(n)
        BY <1>3, <2>1 DEF Nonce, Larger
    <2>5. Held(n)'
        BY <2>2 DEF Held
    <2>6. Kept(n + 1)
        BY <2>4, <2>5 DEF Kept
    <2> QED
        BY <1>3, <2>2, <2>3, <2>4, <2>6
<1>8. ASSUME NEW r \in late, LateSend(r) PROVE Nonces
    <2>1. PICK n \in IndexCandidates :
              /\ IsNextIndex(n)
              /\ wire' = wire \cup {[job |-> r[1], att |-> r[2], nonce |-> n]}
        BY <1>8 DEF LateSend
    <2> DEFINE t0 == [job |-> r[1], att |-> r[2], nonce |-> n]
    <2>2. Kept(n)
        BY <1>1, <1>2, <2>1, IndexType, IndexCovered
    <2>3. Live' = Live \cup {t0} /\ t0.nonce = n /\ UNCHANGED <<seen, idx, tracker>>
        BY <1>8, <2>1 DEF LateSend, Live
    <2> QED
        BY <1>3, <2>2, <2>3
<1>9. CASE /\ \A j \in Jobs : ~Attempt(j) /\ ~AnswerIndex(j) /\ ~Send(j)
           /\ \A r \in late : ~LateSend(r)
    BY <1>3, <1>9, NoNewExtrinsic, NonceSourcesKept
<1> QED
    BY <1>5, <1>6, <1>7, <1>8, <1>9

\* Jobs, races, timeouts and reorgs leave no gap below an extrinsic that was
\* sent, unless the node refused or dropped the one with that nonce.
THEOREM NoncesContinuous == Spec => []NoncesAreContinuous
<1>1. TypeOK /\ NonceInv => NoncesAreContinuous
    BY DEF NonceInv, NoncesAreContinuous, Covered, TypeOK, Live, Tx
<1> QED
    BY <1>1, TypeCorrect, InitNonce, StepNonce, PTL DEF Spec

-----------------------------------------------------------------------------
(* What a call comes to.                                                   *)

\* An attempt whose block was taken back or doubted has no second extrinsic.
UnsureIsKnown ==
    /\ \A t \in Live, u \in unsure : (t.job = u.job /\ t.att = u.att) => t = u
    /\ \A u \in unsure : /\ u.att <= att[u.job]
                         /\ <<u.job, u.att>> \notin late
                         /\ u.att = att[u.job] => pc[u.job] \notin Asking

LEMMA InitUnsure == Init => UnsureIsKnown
BY DEF Init, UnsureIsKnown

\* Only a send brings an extrinsic that is new, of the attempt being made.
LEMMA StepUnsure == TypeOK /\ AttemptInv /\ UnsureIsKnown /\ [Next]_vars => UnsureIsKnown'
<1> SUFFICES ASSUME TypeOK, AttemptInv, UnsureIsKnown, [Next]_vars PROVE UnsureIsKnown'
    OBVIOUS
<1> USE DEF TypeOK, Tx
<1>1. ASSUME Live' \subseteq Live, unsure' \subseteq unsure \cup Live, att' = att, late' \subseteq late,
             \A j \in Jobs : pc'[j] \in Asking => pc[j] \in Asking
      PROVE  UnsureIsKnown'
    <2>1. \A t \in Live : /\ t.att <= att[t.job] /\ t.job \in Jobs
                          /\ <<t.job, t.att>> \notin late
                          /\ t.att = att[t.job] => pc[t.job] \notin Asking
        BY DEF AttemptInv, AttemptsCount, LateIsTimedOut, AskingIsFresh, Live
    <2>2. \A t, u \in Live : (t.job = u.job /\ t.att = u.att) => t = u
        BY DEF AttemptInv, OneExtrinsicPerAttempt
    <2> HIDE DEF Live
    <2>3. \A t \in Live', u \in unsure' : (t.job = u.job /\ t.att = u.att) => t = u
        BY <1>1, <2>2 DEF UnsureIsKnown
    <2>4. ASSUME NEW u \in unsure'
          PROVE  /\ u.att <= att[u.job] /\ u.job \in Jobs
                 /\ <<u.job, u.att>> \notin late
                 /\ u.att = att[u.job] => pc[u.job] \notin Asking
        BY <1>1, <2>1, <2>4 DEF UnsureIsKnown
    <2> QED BY <1>1, <2>3, <2>4 DEF UnsureIsKnown
<1>2. ASSUME NEW j \in Jobs, Attempt(j) PROVE UnsureIsKnown'
    <2>1. /\ pc' = [pc EXCEPT ![j] = "asking"] /\ att' = [att EXCEPT ![j] = @ + 1]
          /\ UNCHANGED <<late, Live, unsure>>
        BY <1>2 DEF Attempt, node, history, Live
    <2> QED BY <2>1 DEF UnsureIsKnown
<1>3. ASSUME NEW j \in Jobs, Send(j) PROVE UnsureIsKnown'
    <2> DEFINE t0 == [job |-> j, att |-> att[j], nonce |-> Nonce(j)]
    <2>1. /\ Live' = Live \cup {t0} /\ t0.job = j /\ t0.att = att[j]
          /\ pc' = [pc EXCEPT ![j] = "sending"] /\ pc[j] \in Asking
          /\ UNCHANGED <<att, late, unsure>>
        BY <1>3 DEF Send, Live, Asking
    <2> HIDE DEF t0
    <2>2. \A u \in unsure : ~(u.job = j /\ u.att = att[j])
        BY <2>1 DEF UnsureIsKnown
    <2> QED BY <2>1, <2>2 DEF UnsureIsKnown, Asking
<1>4. ASSUME NEW r \in late, LateSend(r) PROVE UnsureIsKnown'
    <2>1. PICK n \in IndexCandidates :
              wire' = wire \cup {[job |-> r[1], att |-> r[2], nonce |-> n]}
        BY <1>4 DEF LateSend
    <2> DEFINE t0 == [job |-> r[1], att |-> r[2], nonce |-> n]
    <2>2. /\ Live' = Live \cup {t0} /\ <<t0.job, t0.att>> \in late
          /\ late' \subseteq late /\ UNCHANGED <<pc, att, unsure>>
        BY <1>4, <2>1 DEF LateSend, history, Live
    <2> HIDE DEF t0
    <2>3. \A u \in unsure : <<u.job, u.att>> \notin late
        BY Zenon DEF UnsureIsKnown
    <2>4. \A u \in unsure : ~(t0.job = u.job /\ t0.att = u.att)
        BY <2>2, <2>3
    <2> QED BY <2>2, <2>4 DEF UnsureIsKnown
<1>5. ASSUME NEW j \in Jobs, Timeout(j) PROVE UnsureIsKnown'
    <2>1. /\ pc' = [pc EXCEPT ![j] = "retry"]
          /\ late' \subseteq late \cup {<<j, att[j]>>} /\ (pc[j] \notin Asking => late' = late)
          /\ UNCHANGED <<att, Live, unsure>>
        BY <1>5 DEF Timeout, node, Live
    <2>2. pc[j] \in Asking => \A u \in unsure : <<u.job, u.att>> # <<j, att[j]>>
        BY DEF UnsureIsKnown
    <2> QED BY <2>1, <2>2 DEF UnsureIsKnown, Asking
<1>6. ASSUME NEW j \in Jobs, GiveUp(j) \/ AnswerIndex(j) \/ IndexFails(j) PROVE UnsureIsKnown'
    BY <1>1, <1>6 DEF GiveUp, AnswerIndex, IndexFails, node, history, Live, Asking
<1>7. ASSUME NEW t \in wire, Bounce(t) \/ Accept(t) \/ Refuse(t) PROVE UnsureIsKnown'
    BY <1>1, <1>7 DEF Bounce, Accept, Refuse, Watch, history, Live, Asking
<1>8. ASSUME NEW t \in wire, NEW u \in pool, Usurp(t, u) PROVE UnsureIsKnown'
    BY <1>1, <1>8 DEF Usurp, Verdict, Live, Asking
<1>9. ASSUME NEW t \in pool, NEW ok \in BOOLEAN, Include(t, ok) \/ Drop(t) PROVE UnsureIsKnown'
    BY <1>1, <1>9, NotifyCalms DEF Include, Drop, Live
<1>10. ASSUME NEW t \in block, Finalize(t) \/ Retract(t) \/ FinalityTimeout(t) PROVE UnsureIsKnown'
    BY <1>1, <1>10, NotifyCalms DEF Finalize, Retract, FinalityTimeout, node, history, Live
<1>11. CASE UNCHANGED vars
    BY <1>1, <1>11 DEF vars, client, node, history, Live
<1> HIDE DEF TypeOK, Tx
<1> QED
    BY <1>2, <1>3, <1>4, <1>5, <1>6, <1>7, <1>8, <1>9, <1>10, <1>11
       DEF Next, ClientStep, NodeStep, FaultStep

\* A call is resolved by an extrinsic that the chain shows as executed.
Given ==
    \A j \in Jobs : (pc'[j] = "resolved" /\ pc[j] # "resolved") =>
        \E e \in (block' \cup final') \cap good' :
            e.job = j /\ (j \in AwaitFinal => e \in final')

\* A call that settled keeps its outcome.
OnceSettled == \A j \in Jobs : pc[j] \in Settled => pc'[j] = pc[j]

LEMMA NotifySettles ==
    ASSUME TypeOK, NEW S, NEW status, Notify(S, status), status \notin {"inBlock", "finalized"}
    PROVE  OnceSettled /\ \A j \in Jobs : pc'[j] = "resolved" => pc[j] = "resolved"
BY NotifyEach DEF Verdict, Current, OnceSettled, Settled

LEMMA StepSettles == TypeOK /\ VerdictInv /\ [Next]_vars => OnceSettled /\ Given
<1> SUFFICES ASSUME TypeOK, VerdictInv, [Next]_vars PROVE OnceSettled /\ Given
    OBVIOUS
<1>1. ASSUME OnceSettled, \A j \in Jobs : pc'[j] = "resolved" => pc[j] = "resolved"
      PROVE  OnceSettled /\ Given
    BY <1>1 DEF Given
<1>2. ASSUME NEW j \in Jobs,
             Attempt(j) \/ GiveUp(j) \/ Send(j) \/ AnswerIndex(j) \/ IndexFails(j) \/ Timeout(j)
      PROVE  OnceSettled /\ Given
    <2>1. PICK s \in PC \ {"resolved"} : pc' = [pc EXCEPT ![j] = s]
        <3>1. CASE Attempt(j)
            BY <3>1 DEF Attempt, PC, Asking
        <3>2. CASE GiveUp(j)
            BY <3>2 DEF GiveUp, PC, Settled
        <3>3. CASE Send(j)
            BY <3>3 DEF Send, PC
        <3>4. CASE AnswerIndex(j)
            BY <3>4 DEF AnswerIndex, PC, Asking
        <3>5. CASE IndexFails(j)
            <4>1. CASE j \in Queued
                BY <3>5, <4>1 DEF IndexFails, PC
            <4>2. CASE j \notin Queued
                BY <3>5, <4>2 DEF IndexFails, PC, Settled
            <4> QED BY <4>1, <4>2
        <3>6. CASE Timeout(j)
            BY <3>6 DEF Timeout, PC
        <3> QED BY <1>2, <3>1, <3>2, <3>3, <3>4, <3>5, <3>6
    <2>2. pc[j] \notin Settled
        BY <1>2 DEF Attempt, GiveUp, Send, AnswerIndex, IndexFails, Timeout, Asking, Settled
    <2> QED BY <1>1, <2>1, <2>2 DEF TypeOK, OnceSettled
<1>3. ASSUME NEW t \in wire, Bounce(t) \/ Accept(t) \/ Refuse(t) PROVE OnceSettled /\ Given
    <2>1. t.job \in Jobs
        BY DEF TypeOK, Tx
    <2>2. \/ pc' = pc
          \/ /\ pc[t.job] = "sending"
             /\ \E s \in {"retry", "watching", "failed"} : pc' = [pc EXCEPT ![t.job] = s]
        BY <1>3 DEF Bounce, Accept, Refuse, Watch, Current
    <2> QED BY <1>1, <2>1, <2>2 DEF TypeOK, OnceSettled, Settled
<1>4. ASSUME NEW t \in wire, NEW u \in pool, Usurp(t, u) PROVE OnceSettled /\ Given
    <2>1. \A j \in Jobs : \/ pc'[j] = pc[j]
                          \/ pc[j] \in {"watching", "sending"} /\ pc'[j] \in {"failed", "watching"}
        BY <1>4 DEF Usurp, Verdict, Current
    <2> QED BY <1>1, <2>1 DEF OnceSettled, Settled
<1>5. ASSUME NEW t \in pool, Drop(t) PROVE OnceSettled /\ Given
    BY <1>1, <1>5, NotifySettles DEF Drop
<1>6. ASSUME NEW t \in block, Retract(t) \/ FinalityTimeout(t) PROVE OnceSettled /\ Given
    BY <1>1, <1>6, NotifySettles DEF Retract, FinalityTimeout
<1>7. ASSUME NEW t \in pool, NEW ok \in BOOLEAN, Include(t, ok) PROVE OnceSettled /\ Given
    <2> DEFINE status == IF ok THEN "inBlock" ELSE "extrinsicFailed"
    <2>1. \A j \in Jobs : \/ pc'[j] = pc[j]
                          \/ /\ pc'[j] = Verdict(j, status)
                             /\ t.job = j /\ pc[j] = "watching"
        BY <1>7, NotifyEach DEF Include, Current
    <2>2. OnceSettled
        BY <2>1 DEF OnceSettled, Settled
    <2>3. ASSUME NEW j \in Jobs, pc'[j] = "resolved", pc[j] # "resolved"
          PROVE  t.job = j /\ ok /\ j \notin AwaitFinal
        BY <2>1, <2>3 DEF Verdict
    <2>4. t \in block' /\ (ok => t \in good')
        BY <1>7 DEF Include
    <2> QED BY <2>2, <2>3, <2>4 DEF Given
<1>8. ASSUME NEW t \in block, Finalize(t) PROVE OnceSettled /\ Given
    <2>1. \A j \in Jobs : pc'[j] = pc[j] \/ (t.job = j /\ Current(t, "watching"))
        BY <1>8, NotifyEach DEF Finalize
    <2>2. OnceSettled
        BY <2>1 DEF OnceSettled, Settled, Current
    <2>3. ASSUME NEW j \in Jobs, pc'[j] # pc[j] PROVE t.job = j /\ t \in good
        BY <2>1, <2>3 DEF VerdictInv, WaitingFits
    <2>4. t \in final' /\ good' = good
        BY <1>8 DEF Finalize, history
    <2> QED BY <2>2, <2>3, <2>4 DEF Given
<1>9. ASSUME NEW r \in late, LateSend(r) PROVE OnceSettled /\ Given
    BY <1>1, <1>9 DEF LateSend, OnceSettled
<1>10. CASE UNCHANGED vars
    BY <1>1, <1>10 DEF vars, client, OnceSettled
<1>11. CASE \E j \in Jobs : ClientStep(j)
    BY <1>2, <1>11 DEF ClientStep
<1>12. CASE NodeStep
    BY <1>2, <1>3, <1>7, <1>8, <1>12 DEF NodeStep
<1>13. CASE FaultStep
    BY <1>2, <1>3, <1>4, <1>5, <1>6, <1>9, <1>13 DEF FaultStep
<1> QED
    BY <1>10, <1>11, <1>12, <1>13 DEF Next

\* What a call settles with fits the chain of that moment.
LEMMA StepDecide ==
    ASSUME TypeOK, TypeOK', VerdictInv, VerdictInv', [Next]_vars
    PROVE  Outcomes!Decide
<1>1. OnceSettled /\ Given
    BY StepSettles
<1>2. Outcome' \in [Jobs -> {"open", "resolved", "failed"}]
    BY DEF Outcome, Settled
<1>3. ASSUME NEW j \in Jobs, Outcome'[j] # Outcome[j]
      PROVE  Outcome[j] = "open" /\ Outcome'[j] = pc'[j] /\ pc'[j] \in Settled /\ pc'[j] # pc[j]
    BY <1>1, <1>3 DEF Outcome, OnceSettled, Settled
<1>4. ASSUME NEW j \in Jobs, pc'[j] = "failed", NEW e \in block' \cup final', e.job = j
      PROVE  Outcomes!Loose(e)' \/ e \notin good'
    BY <1>4 DEF VerdictInv, FailureIsFinal, Live, Outcomes!Loose
<1> QED
    BY <1>1, <1>2, <1>3, <1>4 DEF Given, Outcomes!Decide

\* An extrinsic that a block takes in belongs to a call still open, and to
\* its only execution; or a timeout or the chain explains it.
LEMMA IncludeExecutes ==
    ASSUME TypeOK, AttemptInv, VerdictInv, UnsureIsKnown,
           NEW t \in pool, NEW ok \in BOOLEAN, Include(t, ok)
    PROVE  Outcomes!Execute(t)
<1>1. /\ t \in Live /\ t \notin block \cup final /\ t.job \in Jobs
      /\ t.att \in Nat /\ att[t.job] \in Nat /\ t.att <= att[t.job]
    BY DEF AttemptInv, OneExtrinsicPerAttempt, AttemptsCount, Live, TypeOK, Tx
<1>2. t.att < att[t.job] => <<t.job, t.att>> \in timedOut
    BY <1>1 DEF AttemptInv, RetriesAreSafe
<1>3. Outcome[t.job] = "open" \/ Outcomes!Loose(t)
    <2>1. CASE pc[t.job] = "resolved"
        <3>1. PICK e \in block \cup final \cup unsure : e.job = t.job /\ e.att = att[t.job]
            BY <1>1, <2>1 DEF VerdictInv, ResolvedMeansExecuted
        <3>2. CASE t.att = att[t.job]
            <4>1. e = t
                BY <1>1, <3>1, <3>2 DEF UnsureIsKnown, AttemptInv, OneExtrinsicPerAttempt, Live
            <4> QED BY <1>1, <3>1, <4>1 DEF Outcomes!Loose
        <3> QED BY <1>1, <1>2, <3>2 DEF Outcomes!Loose
    <2>2. CASE pc[t.job] = "failed"
        BY <1>1, <2>2 DEF VerdictInv, FailureIsFinal, Outcomes!Loose
    <2>3. CASE pc[t.job] \notin Settled
        BY <1>1, <2>3 DEF Outcome
    <2> QED BY <2>1, <2>2, <2>3 DEF Settled
<1>4. ASSUME NEW f \in block \cup final, f.job = t.job
      PROVE  Outcomes!Loose(t) \/ Outcomes!Loose(f)
    <2>1. f \in Live /\ f # t /\ f.att \in Nat /\ f.att <= att[f.job]
        BY <1>1 DEF AttemptInv, AttemptsCount, Live, TypeOK, Tx
    <2>2. f.att # t.att
        BY <1>1, <1>4, <2>1 DEF AttemptInv, OneExtrinsicPerAttempt
    <2>3. f.att < att[f.job] => <<f.job, f.att>> \in timedOut
        BY <2>1 DEF AttemptInv, RetriesAreSafe
    <2>4. t.att < att[t.job] \/ f.att < att[f.job]
        BY <1>1, <1>4, <2>1, <2>2
    <2> QED BY <1>2, <2>3, <2>4 DEF Outcomes!Loose
<1>5. /\ block' \cup final' = (block \cup final) \cup {t}
      /\ good' \in {good \cup {t}, good \ {t}}
      /\ UNCHANGED <<final, unsure, timedOut>>
    BY DEF Include
<1> QED BY <1>1, <1>3, <1>4, <1>5 DEF Outcomes!Execute

LEMMA StepOutcomes ==
    ASSUME TypeOK, TypeOK', AttemptInv, VerdictInv, VerdictInv', UnsureIsKnown, [Next]_vars
    PROVE  Outcomes!Next
<1> DEFINE Still == UNCHANGED <<block \cup final, final, good, unsure, timedOut>>
<1>1. Outcomes!Decide
    BY StepDecide
<1>2. ASSUME Still PROVE Outcomes!Next
    BY <1>1, <1>2 DEF Outcomes!Next
<1>3. block \cap final = {}
    BY DEF AttemptInv, OneExtrinsicPerAttempt
<1>4. ASSUME NEW t \in pool, NEW ok \in BOOLEAN, Include(t, ok) PROVE Outcomes!Next
    <2>1. t \in block' \cup final'
        BY <1>4 DEF Include
    <2> QED BY <1>1, <1>4, <2>1, IncludeExecutes DEF Outcomes!Next
<1>5. ASSUME NEW t \in block, Finalize(t) PROVE Outcomes!Next
    <2>1. Outcomes!Seal(t)
        BY <1>3, <1>5 DEF Finalize, history, Outcomes!Seal
    <2> QED BY <1>1, <2>1 DEF Outcomes!Next
<1>6. ASSUME NEW t \in block, Retract(t) PROVE Outcomes!Next
    <2> DEFINE gone == {u \in block : u.nonce >= t.nonce}
    <2>1. /\ block' = block \ gone /\ final' = final /\ gone \subseteq block
          /\ unsure' = unsure \cup gone /\ UNCHANGED <<good, timedOut>>
        BY <1>6 DEF Retract
    <2> HIDE DEF gone
    <2>2. gone \in SUBSET ((block \cup final) \ final)
        BY <1>3, <2>1
    <2>3. block' \cup final' = (block \cup final) \ gone
        BY <1>3, <2>1
    <2>4. Outcomes!Shake(gone)
        BY <2>1, <2>3 DEF Outcomes!Shake
    <2> QED BY <1>1, <2>2, <2>4 DEF Outcomes!Next
<1>7. ASSUME NEW t \in block, FinalityTimeout(t) PROVE Outcomes!Next
    <2>1. Outcomes!Shake({t})
        BY <1>7 DEF FinalityTimeout, node, Outcomes!Shake
    <2>2. {t} \in SUBSET ((block \cup final) \ final)
        BY <1>3
    <2> QED BY <1>1, <2>1, <2>2 DEF Outcomes!Next
<1>8. ASSUME NEW j \in Jobs, Timeout(j) PROVE Outcomes!Next
    <2>1. /\ pc[j] \notin Settled /\ timedOut' = timedOut \cup {<<j, att[j]>>}
          /\ UNCHANGED <<block, final, good, unsure>>
        BY <1>8 DEF Timeout, node, Asking, Settled
    <2>2. Outcomes!Abandon(<<j, att[j]>>)
        BY <2>1 DEF Outcomes!Abandon, Outcome
    <2> QED BY <1>1, <2>1, <2>2 DEF Outcomes!Next
<1>9. ASSUME NEW j \in Jobs,
             Attempt(j) \/ GiveUp(j) \/ Send(j) \/ AnswerIndex(j) \/ IndexFails(j)
      PROVE  Still
    BY <1>9 DEF Attempt, GiveUp, Send, AnswerIndex, IndexFails, node, history
<1>10. ASSUME NEW r \in late, LateSend(r) PROVE Still
    BY <1>10 DEF LateSend, history
<1>11. ASSUME NEW t \in wire, Bounce(t) \/ Accept(t) \/ Refuse(t) \/ \E u \in pool : Usurp(t, u)
       PROVE  Still
    BY <1>11 DEF Bounce, Accept, Refuse, Usurp, history
<1>12. ASSUME NEW t \in pool, Drop(t) PROVE Still
    BY <1>12 DEF Drop
<1>13. ASSUME UNCHANGED vars PROVE Still
    BY <1>13 DEF vars, node, history
<1> HIDE DEF Still
<1> QED
    BY <1>2, <1>4, <1>5, <1>6, <1>7, <1>8, <1>9, <1>10, <1>11, <1>12, <1>13
       DEF Next, ClientStep, NodeStep, FaultStep

\* submit and handle implement CallOutcomes, for every set of jobs and every
\* number of faults: one outcome for each call, given at a moment when the
\* chain shows it, and no execution that a timeout or the chain itself does
\* not explain.
THEOREM OutcomesKept == Spec => KeepsOutcomes
<1>1. Init => Outcomes!Init
    BY DEF Init, Outcomes!Init, Outcome, Settled
<1>2. TypeOK /\ TypeOK' /\ AttemptInv /\ VerdictInv /\ VerdictInv' /\ UnsureIsKnown /\ [Next]_vars
        => [Outcomes!Next]_(Outcomes!vars)
    BY StepOutcomes
<1> QED
    BY <1>1, <1>2, TypeCorrect, InitAttempt, StepAttempt, InitVerdict, StepVerdict,
       InitUnsure, StepUnsure, PTL
       DEF Spec, KeepsOutcomes, Outcomes!Spec

=============================================================================
