------------------------- MODULE ContractDeployment -------------------------
(***************************************************************************)
(* Deployments of one contract to one cluster: commands (`contract deploy`,*)
(* that is ContractManager.deploy, each a process of its own) and scripts  *)
(* after the template deploy.ts, which use ContractFactory only.  They     *)
(* share the code on the cluster and the project's contracts.json.         *)
(*                                                                         *)
(* A transaction is sent by TxHandler.handle, whose own retries TxSubmission *)
(* models: here it is under way, then in a block, and the call that sent it *)
(* goes on after that or fails whatever becomes of it.                     *)
(***************************************************************************)
EXTENDS Naturals

CONSTANTS
    Commands,   \* runs of `contract deploy`
    Scripts,    \* scripts that deploy and instantiate
    MaxFaults   \* bound on failed requests and interrupted processes

Call == Commands \cup Scripts

ASSUME DeploymentAssumption ==
    /\ Commands \cap Scripts = {}
    /\ MaxFaults \in Nat

VARIABLES
    pc,       \* where each call stands
    poll,     \* the condition the interval of waitFor goes on asking for
    copy,     \* what a command read from contracts.json
    sent,     \* <<call, transaction>> under way
    onChain,  \* <<call, transaction>> in a block
    ready,    \* the cluster has the code
    keys,     \* calls whose contract has its public key
    file,     \* contracts.json: its records, length, and whether it parses
    faults

VARIABLES     \* history, read by the properties only
    refused,  \* calls whose condition rejected while its interval ran
    raced,    \* a command read contracts.json while another was saving
    cut       \* a process died with contracts.json emptied

shared == <<onChain, ready, keys>>
vars   == <<pc, poll, copy, sent, shared, file, faults, refused, raced, cut>>

Tx      == {"deposit", "upload", "create", "transfer", "stake"}
Waiting == {"code", "key"}
Settled == {"done", "failed"}
Saving  == {"open", "write"}
Place   == Tx \cup Waiting \cup Settled \cup Saving
           \cup {"idle", "factory", "lookup", "estimate", "attach", "load", "cleanup"}

TypeOK ==
    /\ pc \in [Call -> Place]
    /\ poll \in [Call -> Waiting \cup {"off"}]
    /\ copy \in [Call -> [of : SUBSET Commands, size : Nat]]
    /\ sent \subseteq Call \X Tx
    /\ onChain \subseteq Call \X Tx
    /\ ready \in BOOLEAN
    /\ keys \subseteq Call
    /\ file \in [of : SUBSET Commands, size : Nat, whole : BOOLEAN]
    /\ faults \in 0..MaxFaults
    /\ refused \subseteq Call
    /\ raced \in BOOLEAN
    /\ cut \in BOOLEAN

NoRecords == [of |-> {}, size |-> 0]

\* The code may be there from an earlier deployment.
Init ==
    /\ pc = [c \in Call |-> "idle"]
    /\ poll = [c \in Call |-> "off"]
    /\ copy = [c \in Call |-> NoRecords]
    /\ sent = {} /\ onChain = {}
    /\ ready \in BOOLEAN
    /\ keys = {}
    /\ file = [of |-> {}, size |-> 0, whole |-> TRUE]
    /\ faults = 0
    /\ refused = {} /\ raced = FALSE /\ cut = FALSE

Fault == faults < MaxFaults /\ faults' = faults + 1

-----------------------------------------------------------------------------
(* The order of deploy and instantiate.                                    *)

\* The call goes on to place q; a transaction is sent on the way in.
GoTo(c, q) ==
    /\ pc' = [pc EXCEPT ![c] = q]
    /\ sent' = IF q \in Tx THEN sent \cup {<<c, q>>} ELSE sent

\* Slip: the code is not waited for.
AfterUnwaited(c) ==
    CASE pc[c] = "deposit"  -> "lookup"
      [] pc[c] = "upload"   -> "estimate"
      [] pc[c] = "code"     -> "estimate"
      [] pc[c] = "create"   -> "key"
      [] pc[c] = "key"      -> "transfer"
      [] pc[c] = "transfer" -> "stake"
      [] OTHER              -> "attach"

\* What follows a transaction or a wait.
After(c) ==
    CASE pc[c] = "deposit"  -> "lookup"
      [] pc[c] = "upload"   -> "code"
      [] pc[c] = "code"     -> "estimate"
      [] pc[c] = "create"   -> "key"
      [] pc[c] = "key"      -> "transfer"
      [] pc[c] = "transfer" -> "stake"
      [] OTHER              -> "attach"

Start(c) ==
    /\ pc[c] = "idle"
    /\ GoTo(c, "factory")
    /\ UNCHANGED <<poll, copy, shared, file, faults, refused, raced, cut>>

\* initDevPhase or the script's devPhase, getFactory, ContractFactory.create,
\* and deploy up to the balances.  Only the script asks for autoDeposit; low
\* funds stop nobody.
Create(c, low) ==
    /\ pc[c] = "factory"
    /\ GoTo(c, IF low /\ c \in Scripts THEN "deposit" ELSE "lookup")
    /\ UNCHANGED <<poll, copy, shared, file, faults, refused, raced, cut>>

\* checkCodeReady: code that is there is not uploaded again.
Lookup(c) ==
    /\ pc[c] = "lookup"
    /\ GoTo(c, IF ready THEN "estimate" ELSE "upload")
    /\ UNCHANGED <<poll, copy, shared, file, faults, refused, raced, cut>>

\* estimateInstatiationFee answered with isOk.
Estimate(c) ==
    /\ pc[c] = "estimate"
    /\ GoTo(c, "create")
    /\ UNCHANGED <<poll, copy, shared, file, faults, refused, raced, cut>>

\* Slip: handle resolves when the transaction was sent.
HandledWhenSent(t) == t \in sent \cup onChain

IsHandled(t) == t \in onChain

\* The promise of TxHandler.handle resolves.
Handled(c) ==
    /\ pc[c] \in Tx
    /\ IsHandled(<<c, pc[c]>>)
    /\ GoTo(c, After(c))
    /\ UNCHANGED <<poll, copy, shared, file, faults, refused, raced, cut>>

\* contracts.json is written by ContractManager.deploy.
Recorded(c) == c \in Commands

\* attach: getContractKey once more.
Attach(c) ==
    /\ pc[c] = "attach"
    /\ GoTo(c, IF c \notin keys THEN "failed" ELSE IF Recorded(c) THEN "load" ELSE "cleanup")
    /\ UNCHANGED <<poll, copy, shared, file, faults, refused, raced, cut>>

-----------------------------------------------------------------------------
(* waitFor.                                                                *)

Holds(c, goal) == IF goal = "code" THEN ready ELSE c \in keys

\* _waitFor asks once before it starts the interval of waitFor.
FirstTry(c) ==
    /\ pc[c] \in Waiting
    /\ poll[c] = "off"
    /\ IF Holds(c, pc[c])
       THEN GoTo(c, After(c)) /\ UNCHANGED poll
       ELSE poll' = [poll EXCEPT ![c] = pc[c]] /\ UNCHANGED <<pc, sent>>
    /\ UNCHANGED <<copy, shared, file, faults, refused, raced, cut>>

\* A callback of the interval that found the condition true: only then does
\* it clear the interval.  The promise may be settled already.
Tick(c) ==
    /\ poll[c] # "off"
    /\ Holds(c, poll[c])
    /\ poll' = [poll EXCEPT ![c] = "off"]
    /\ IF pc[c] = poll[c] THEN GoTo(c, After(c)) ELSE UNCHANGED <<pc, sent>>
    /\ UNCHANGED <<copy, shared, file, faults, refused, raced, cut>>

\* Slip: the time limit rejects and leaves the interval.
KeptPoll(c) == poll

ClearedPoll(c) == [poll EXCEPT ![c] = "off"]

\* The time limit of waitFor.
Limit(c) ==
    /\ pc[c] \in Waiting
    /\ poll[c] = pc[c]
    /\ poll' = ClearedPoll(c)
    /\ GoTo(c, "failed")
    /\ UNCHANGED <<copy, shared, file, faults, refused, raced, cut>>

-----------------------------------------------------------------------------
(* contracts.json.                                                         *)

\* _addContractDefToStorageFile reads the file; JSON.parse throws on one
\* that another process has just emptied.
Load(c) ==
    /\ pc[c] = "load"
    /\ IF file.whole
       THEN /\ GoTo(c, "open")
            /\ copy' = [copy EXCEPT ![c] = [of |-> file.of, size |-> file.size]]
       ELSE GoTo(c, "failed") /\ UNCHANGED copy
    /\ raced' = (raced \/ \E d \in Commands : pc[d] \in Saving)
    /\ UNCHANGED <<poll, shared, file, faults, refused, cut>>

\* writeFileSync opens the file, which empties it, ...
Open(c) ==
    /\ pc[c] = "open"
    /\ GoTo(c, "write")
    /\ file' = [of |-> {}, size |-> 0, whole |-> FALSE]
    /\ UNCHANGED <<poll, copy, shared, faults, refused, raced, cut>>

\* Slip: the new record is all that is saved.
OnlyNew(c) == [of |-> {c}, size |-> 1]

Pushed(c) == [of |-> copy[c].of \cup {c}, size |-> copy[c].size + 1]

\* ... and writes from its start: a longer text that another process wrote
\* meanwhile sticks out behind.
Write(c) ==
    /\ pc[c] = "write"
    /\ GoTo(c, "cleanup")
    /\ file' = [of |-> Pushed(c).of,
                size |-> IF file.size > Pushed(c).size THEN file.size ELSE Pushed(c).size,
                whole |-> file.size <= Pushed(c).size]
    /\ UNCHANGED <<poll, copy, shared, faults, refused, raced, cut>>

\* devPhase.cleanup(); a script has returned before.
Cleanup(c) ==
    /\ pc[c] = "cleanup"
    /\ GoTo(c, "done")
    /\ UNCHANGED <<poll, copy, shared, file, faults, refused, raced, cut>>

-----------------------------------------------------------------------------
(* Failures, the node and the worker.                                      *)

\* Whatever the call awaits rejects: an estimation that is not isOk, a query,
\* a transaction, which may have been refused or be under way still.  The
\* rejected condition of waitFor leaves the interval running.
Fails(c) ==
    /\ pc[c] \notin {"idle"} \cup Saving \cup Settled
    /\ Fault
    /\ pc' = [pc EXCEPT ![c] = "failed"]
    /\ sent' \in {sent, sent \ {<<c, pc[c]>>}}
    /\ refused' = IF poll[c] = "off" THEN refused ELSE refused \cup {c}
    /\ UNCHANGED <<poll, copy, shared, file, raced, cut>>

\* The process is interrupted; writeFileSync that throws leaves as much.
Kill(c) ==
    /\ pc[c] \notin {"idle"} \cup Settled
    /\ Fault
    /\ pc' = [pc EXCEPT ![c] = "failed"]
    /\ poll' = [poll EXCEPT ![c] = "off"]
    /\ cut' = (cut \/ pc[c] = "write")
    /\ UNCHANGED <<copy, sent, shared, file, refused, raced>>

Execute(t) ==
    /\ t \in sent
    /\ sent' = sent \ {t}
    /\ onChain' = onChain \cup {t}
    /\ UNCHANGED <<pc, poll, copy, ready, keys, file, faults, refused, raced, cut>>

\* The worker loads a resource that was uploaded.
Register ==
    /\ \E c \in Call : <<c, "upload">> \in onChain
    /\ ~ready
    /\ ready' = TRUE
    /\ UNCHANGED <<pc, poll, copy, sent, onChain, keys, file, faults, refused, raced, cut>>

\* The worker instantiates a contract, from code it has, and publishes its key.
Publish(c) ==
    /\ <<c, "create">> \in onChain
    /\ ready
    /\ c \notin keys
    /\ keys' = keys \cup {c}
    /\ UNCHANGED <<pc, poll, copy, sent, onChain, ready, file, faults, refused, raced, cut>>

-----------------------------------------------------------------------------
Progress(c) ==
    \/ (\E low \in BOOLEAN : Create(c, low)) \/ Lookup(c) \/ Estimate(c)
    \/ Handled(c) \/ Attach(c) \/ FirstTry(c) \/ Limit(c)
    \/ Load(c) \/ Open(c) \/ Write(c) \/ Cleanup(c)

Include == \E t \in sent : Execute(t)

Next ==
    \/ \E c \in Call : Start(c) \/ Progress(c) \/ Tick(c) \/ Fails(c) \/ Kill(c) \/ Publish(c)
    \/ Include \/ Register

\* Callbacks and timers fire, requests are answered, and the node includes
\* what it accepted.  Nothing is assumed of the worker: the limits of waitFor
\* are there for it.  A call makes finitely many steps and transactions, so
\* that fairness for all of them together is enough.
Fairness ==
    /\ WF_vars(\E c \in Call : Progress(c))
    /\ WF_vars(Include)

Spec == Init /\ [][Next]_vars
FairSpec == Spec /\ Fairness

-----------------------------------------------------------------------------
(* Properties.                                                             *)

\* instantiateContract is sent only for code the cluster has, whoever put it
\* there: without it the contract would never get its key.
CodeComesFirst == \A c \in Call : <<c, "create">> \in sent \cup onChain => ready

\* A record of contracts.json names a contract that works: it has its public
\* key, the gas that was transferred to it and its stake.
RecordsAreUsable ==
    \A c \in file.of : c \in keys /\ {<<c, "transfer">>, <<c, "stake">>} \subseteq onChain

\* contracts.json keeps the record of every command that finished, be it in
\* the copy of the command that is saving at the moment.  Only two commands
\* that save at the same time, or one killed in the middle, lose records.
RecordsSurvive ==
    raced \/ cut \/
    \A c \in Commands : pc[c] \in {"cleanup", "done"} =>
        \/ file.whole /\ c \in file.of
        \/ \E d \in Commands : pc[d] = "write" /\ c \in copy[d].of

\* The records that can be read from contracts.json, or are being put there.
Filed ==
    (IF file.whole THEN file.of ELSE {})
        \cup UNION {copy[c].of : c \in {d \in Commands : pc[d] = "write"}}

\* contracts.json is a RecordFile of what the commands deployed.
ContractsFile == INSTANCE RecordFile WITH
    kept <- Filed,
    through <- {c \in Commands : pc[c] \in {"cleanup", "done"}},
    disturbed <- (raced \/ cut)

RecordsKept == ContractsFile!Spec

\* A deployment that began ends, and its waitFor asks no more, unless a
\* condition rejected: then the interval goes on.
DeploymentEnds ==
    \A c \in Call : pc[c] = "factory" ~> pc[c] \in Settled /\ (poll[c] = "off" \/ c \in refused)

=============================================================================
