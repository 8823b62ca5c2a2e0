---------------------- MODULE ContractDeployment_proofs ----------------------
(* Proofs about ContractDeployment, for any commands, scripts and faults.     *)
EXTENDS ContractDeployment, TLAPS

-----------------------------------------------------------------------------
(* Types.                                                                    *)

\* Only commands save.
CommandsSave == \A c \in Call : pc[c] \in {"load"} \cup Saving => c \in Commands

TypeInv == TypeOK /\ CommandsSave

\* A step to place q that leaves types alone otherwise.
LEMMA GoToTypes ==
    ASSUME TypeOK, NEW c \in Call, NEW q \in Place, GoTo(c, q)
    PROVE  /\ pc' \in [Call -> Place]
           /\ sent' \subseteq Call \X Tx
BY DEF TypeOK, GoTo

LEMMA AfterIsPlace ==
    ASSUME NEW c \in Call
    PROVE  After(c) \in Place \ ({"load"} \cup Saving)
BY DEF After, Place, Tx, Waiting, Settled, Saving

LEMMA GoToSaves ==
    ASSUME TypeInv, NEW c \in Call, NEW q \in Place, GoTo(c, q),
           q \in {"load"} \cup Saving => c \in Commands
    PROVE  CommandsSave'
BY DEF TypeInv, TypeOK, GoTo, CommandsSave

\* Every state is well typed, and no script touches contracts.json.
LEMMA TypeInvariant == Spec => []TypeInv
<1>1. Init => TypeInv
  <2> SUFFICES ASSUME Init PROVE TypeInv
    OBVIOUS
  <2>1. CommandsSave
    BY DEF Init, CommandsSave, Saving
  <2>2. pc \in [Call -> Place] /\ poll \in [Call -> Waiting \cup {"off"}]
    BY DEF Init, Place
  <2>3. copy \in [Call -> [of : SUBSET Commands, size : Nat]]
    BY DEF Init, NoRecords
  <2>4. file \in [of : SUBSET Commands, size : Nat, whole : BOOLEAN]
    BY DEF Init
  <2>5. faults \in 0..MaxFaults
    BY DeploymentAssumption DEF Init
  <2> QED BY <2>1, <2>2, <2>3, <2>4, <2>5 DEF Init, TypeInv, TypeOK
<1>2. TypeInv /\ [Next]_vars => TypeInv'
  <2> SUFFICES ASSUME TypeInv, [Next]_vars PROVE TypeInv'
    OBVIOUS
  <2> USE DEF TypeInv
  <2>0. \A q \in {"factory", "lookup", "deposit", "estimate", "upload", "create", "failed",
                  "load", "open", "write", "cleanup", "done"} : q \in Place
    BY DEF Place, Tx, Waiting, Settled, Saving
  <2>1. ASSUME NEW c \in Call, Start(c) PROVE TypeInv'
    BY <2>0, <2>1, GoToTypes, GoToSaves DEF Start, TypeOK, shared, Saving
  <2>2. ASSUME NEW c \in Call, NEW low \in BOOLEAN, Create(c, low) PROVE TypeInv'
    BY <2>0, <2>2, GoToTypes, GoToSaves DEF Create, TypeOK, shared, Saving
  <2>3. ASSUME NEW c \in Call, Lookup(c) PROVE TypeInv'
    BY <2>0, <2>3, GoToTypes, GoToSaves DEF Lookup, TypeOK, shared, Saving
  <2>4. ASSUME NEW c \in Call, Estimate(c) PROVE TypeInv'
    BY <2>0, <2>4, GoToTypes, GoToSaves DEF Estimate, TypeOK, shared, Saving
  <2>5. ASSUME NEW c \in Call, Handled(c) PROVE TypeInv'
    BY <2>5, AfterIsPlace, GoToTypes, GoToSaves DEF Handled, TypeOK, shared
  <2>6. ASSUME NEW c \in Call, Attach(c) PROVE TypeInv'
    BY <2>0, <2>6, GoToTypes, GoToSaves DEF Attach, Recorded, TypeOK, shared, Saving
  <2>7. ASSUME NEW c \in Call, FirstTry(c) PROVE TypeInv'
    <3>1. CASE Holds(c, pc[c])
      BY <2>7, <3>1, AfterIsPlace, GoToTypes, GoToSaves DEF FirstTry, TypeOK, shared
    <3>2. CASE ~Holds(c, pc[c])
      BY <2>7, <3>2 DEF FirstTry, TypeOK, shared, CommandsSave
    <3> QED BY <3>1, <3>2
  <2>8. ASSUME NEW c \in Call, Tick(c) PROVE TypeInv'
    <3>1. poll' \in [Call -> Waiting \cup {"off"}]
      BY <2>8 DEF Tick, TypeOK
    <3>2. CASE pc[c] = poll[c]
      BY <2>8, <3>1, <3>2, AfterIsPlace, GoToTypes, GoToSaves DEF Tick, TypeOK, shared
    <3>3. CASE pc[c] # poll[c]
      BY <2>8, <3>1, <3>3 DEF Tick, TypeOK, shared, CommandsSave
    <3> QED BY <3>2, <3>3
  <2>9. ASSUME NEW c \in Call, Limit(c) PROVE TypeInv'
    BY <2>0, <2>9, GoToTypes, GoToSaves DEF Limit, ClearedPoll, TypeOK, shared, Saving
  <2>10. ASSUME NEW c \in Call, Load(c) PROVE TypeInv'
    <3>1. c \in Commands
      BY <2>10 DEF Load, CommandsSave
    <3>2. copy' \in [Call -> [of : SUBSET Commands, size : Nat]] /\ raced' \in BOOLEAN
      BY <2>10 DEF Load, TypeOK
    <3> QED BY <2>0, <2>10, <3>1, <3>2, GoToTypes, GoToSaves DEF Load, TypeOK, shared, Saving
  <2>11. ASSUME NEW c \in Call, Open(c) PROVE TypeInv'
    <3>1. c \in Commands
      BY <2>11 DEF Open, CommandsSave, Saving
    <3> QED BY <2>0, <2>11, <3>1, GoToTypes, GoToSaves DEF Open, TypeOK, shared, Saving
  <2>12. ASSUME NEW c \in Call, Write(c) PROVE TypeInv'
    <3>1. c \in Commands
      BY <2>12 DEF Write, CommandsSave, Saving
    <3>2. file' \in [of : SUBSET Commands, size : Nat, whole : BOOLEAN]
      BY <2>12, <3>1 DEF Write, Pushed, TypeOK
    <3> QED BY <2>0, <2>12, <3>2, GoToTypes, GoToSaves DEF Write, TypeOK, shared, Saving
  <2>13. ASSUME NEW c \in Call, Cleanup(c) PROVE TypeInv'
    BY <2>0, <2>13, GoToTypes, GoToSaves DEF Cleanup, TypeOK, shared, Saving
  <2>14. ASSUME NEW c \in Call, Fails(c) PROVE TypeInv'
    <3>1. faults' \in 0..MaxFaults
      BY <2>14, DeploymentAssumption DEF Fails, Fault, TypeOK
    <3>2. pc' \in [Call -> Place] /\ CommandsSave'
      BY <2>0, <2>14 DEF Fails, TypeOK, CommandsSave, Saving
    <3> QED BY <2>14, <3>1, <3>2 DEF Fails, TypeOK, shared
  <2>15. ASSUME NEW c \in Call, Kill(c) PROVE TypeInv'
    <3>1. faults' \in 0..MaxFaults
      BY <2>15, DeploymentAssumption DEF Kill, Fault, TypeOK
    <3>2. pc' \in [Call -> Place] /\ CommandsSave'
      BY <2>0, <2>15 DEF Kill, TypeOK, CommandsSave, Saving
    <3>3. cut' \in BOOLEAN /\ poll' \in [Call -> Waiting \cup {"off"}]
      BY <2>15 DEF Kill, TypeOK
    <3> QED BY <2>15, <3>1, <3>2, <3>3 DEF Kill, TypeOK, shared
  <2>16. ASSUME NEW t \in sent, Execute(t) PROVE TypeInv'
    BY <2>16 DEF Execute, TypeOK, CommandsSave
  <2>17. CASE Register
    BY <2>17 DEF Register, TypeOK, CommandsSave
  <2>18. ASSUME NEW c \in Call, Publish(c) PROVE TypeInv'
    BY <2>18 DEF Publish, TypeOK, CommandsSave
  <2>19. CASE UNCHANGED vars
    BY <2>19 DEF vars, shared, TypeOK, CommandsSave
  <2> QED
    BY <2>1, <2>2, <2>3, <2>4, <2>5, <2>6, <2>7, <2>8, <2>9, <2>10, <2>11, <2>12, <2>13,
       <2>14, <2>15, <2>16, <2>17, <2>18, <2>19 DEF Next, Progress, Include
<1> QED BY <1>1, <1>2, PTL DEF Spec

\* Deployments keep to the types of their state: records, places and polls.
THEOREM TypeCorrect == Spec => []TypeOK
<1>1. TypeInv => TypeOK
  BY DEF TypeInv
<1> QED BY <1>1, TypeInvariant, PTL

-----------------------------------------------------------------------------
(* Code before instances.                                                    *)

Keyed   == {"load", "open", "write", "cleanup", "done"}
Staked  == {"attach"} \cup Keyed
Funded  == {"stake"} \cup Staked
Created == {"estimate", "create", "key", "transfer"} \cup Funded

CodeInv ==
    /\ \A c \in Call : pc[c] \in Created => ready
    /\ CodeComesFirst

\* Where After goes: past the code only from the wait for it, or from past it.
LEMMA AfterCode ==
    ASSUME NEW c \in Call, pc[c] \in Tx \cup Waiting
    PROVE  /\ After(c) \in Created => pc[c] = "code" \/ pc[c] \in Created
           /\ After(c) = "create" => pc[c] = "create"
BY DEF After, Created, Funded, Staked, Keyed, Tx, Waiting

\* A step of c to q, with the code on the cluster if q is past it.
LEMMA GoToCode ==
    ASSUME TypeOK, CodeInv, NEW c \in Call, NEW q, GoTo(c, q), UNCHANGED shared,
           q \in Created => ready
    PROVE  CodeInv'
<1>1. \A d \in Call : pc'[d] \in Created => ready'
  BY DEF GoTo, TypeOK, CodeInv, shared
<1>2. q = "create" => ready
  BY DEF Created
<1>3. CodeComesFirst'
  BY <1>2 DEF GoTo, CodeInv, CodeComesFirst, shared
<1> QED BY <1>1, <1>3 DEF CodeInv

\* No call instantiates code the cluster does not have.
THEOREM CodeFirst == Spec => []CodeComesFirst
<1>1. Init => CodeInv
  BY DEF Init, CodeInv, CodeComesFirst, Created, Funded, Staked, Keyed
<1>2. TypeInv /\ CodeInv /\ [Next]_vars => CodeInv'
  <2> SUFFICES ASSUME TypeInv, CodeInv, [Next]_vars PROVE CodeInv'
    OBVIOUS
  <2>0. TypeOK
    BY DEF TypeInv
  <2>1. ASSUME NEW c \in Call, Start(c) \/ Lookup(c) \/ Estimate(c) \/ Attach(c) \/ Cleanup(c)
                              \/ Limit(c) \/ Load(c) \/ Open(c) \/ Write(c)
                              \/ \E low \in BOOLEAN : Create(c, low)
        PROVE CodeInv'
    <3>1. PICK q : GoTo(c, q) /\ (q \in Created => ready \/ pc[c] \in Created)
      BY <2>1 DEF Start, Create, Lookup, Estimate, Attach, Cleanup, Limit, Load, Open, Write,
                  Created, Funded, Staked, Keyed
    <3>2. UNCHANGED shared
      BY <2>1 DEF Start, Create, Lookup, Estimate, Attach, Cleanup, Limit, Load, Open, Write
    <3> QED BY <2>0, <3>1, <3>2, GoToCode DEF CodeInv
  <2>2. ASSUME NEW c \in Call, Handled(c) PROVE CodeInv'
    <3>1. After(c) \in Created => ready
      BY <2>2, AfterCode DEF Handled, CodeInv, Tx
    <3> QED BY <2>0, <2>2, <3>1, GoToCode DEF Handled
  <2>3. ASSUME NEW c \in Call, pc[c] \in Waiting, Holds(c, pc[c]), GoTo(c, After(c)), UNCHANGED shared
        PROVE CodeInv'
    <3>1. After(c) \in Created => ready
      BY <2>3, AfterCode DEF Holds, CodeInv
    <3> QED BY <2>0, <2>3, <3>1, GoToCode
  <2>4. ASSUME NEW c \in Call, UNCHANGED <<pc, sent, shared>> PROVE CodeInv'
    BY <2>4 DEF CodeInv, CodeComesFirst, shared
  <2>5. ASSUME NEW c \in Call, FirstTry(c) PROVE CodeInv'
    BY <2>5, <2>3, <2>4 DEF FirstTry
  <2>6. ASSUME NEW c \in Call, Tick(c) PROVE CodeInv'
    <3>1. poll[c] \in Waiting
      BY <2>0, <2>6 DEF Tick, TypeOK
    <3> QED BY <2>6, <3>1, <2>3, <2>4 DEF Tick
  <2>7. ASSUME NEW c \in Call, Fails(c) \/ Kill(c) PROVE CodeInv'
    <3>1. pc' = [pc EXCEPT ![c] = "failed"] /\ sent' \subseteq sent /\ UNCHANGED shared
      BY <2>7 DEF Fails, Kill
    <3>2. \A d \in Call : pc'[d] \in Created => pc[d] \in Created
      BY <2>0, <3>1 DEF TypeOK, Created, Funded, Staked, Keyed
    <3> QED BY <3>1, <3>2 DEF CodeInv, CodeComesFirst, shared
  <2>8. ASSUME NEW t \in sent, Execute(t) PROVE CodeInv'
    BY <2>8 DEF Execute, CodeInv, CodeComesFirst
  <2>9. CASE Register
    BY <2>9 DEF Register, CodeInv, CodeComesFirst
  <2>10. ASSUME NEW c \in Call, Publish(c) PROVE CodeInv'
    BY <2>10 DEF Publish, CodeInv, CodeComesFirst
  <2>11. CASE UNCHANGED vars
    BY <2>11 DEF vars, shared, CodeInv, CodeComesFirst
  <2> QED
    BY <2>1, <2>2, <2>5, <2>6, <2>7, <2>8, <2>9, <2>10, <2>11 DEF Next, Progress, Include
<1> QED BY <1>1, <1>2, TypeInvariant, PTL DEF Spec, CodeInv

-----------------------------------------------------------------------------
(* What the records name.                                                    *)

HasPlace(c, q) ==
    /\ q \in Funded => <<c, "transfer">> \in onChain
    /\ q \in Staked => <<c, "stake">> \in onChain
    /\ q \in Keyed  => c \in keys

Usable(c) == c \in keys /\ {<<c, "transfer">>, <<c, "stake">>} \subseteq onChain

UsableInv ==
    /\ \A c \in Call : HasPlace(c, pc[c])
    /\ \A d \in Call : \A c \in copy[d].of : Usable(c)
    /\ RecordsAreUsable

\* After a transaction that is on the chain, or a wait, the call has what its
\* place asks for.
LEMMA AfterHasPlace ==
    ASSUME NEW c \in Call, HasPlace(c, pc[c]),
           \/ pc[c] \in Tx /\ <<c, pc[c]>> \in onChain
           \/ pc[c] \in Waiting
    PROVE  HasPlace(c, After(c))
BY DEF HasPlace, After, Funded, Staked, Keyed, Tx, Waiting

\* A step of c to q, nothing else the invariant speaks of changed.
LEMMA GoToUsable ==
    ASSUME TypeOK, UsableInv, NEW c \in Call, NEW q, pc' = [pc EXCEPT ![c] = q],
           HasPlace(c, q), UNCHANGED <<copy, shared, file>>
    PROVE  UsableInv'
<1>1. ASSUME NEW d \in Call PROVE HasPlace(d, pc[d])'
  <2>1. pc'[d] = IF d = c THEN q ELSE pc[d]
    BY DEF TypeOK
  <2>2. HasPlace(d, pc'[d])
    BY <2>1 DEF UsableInv
  <2> QED BY <2>2 DEF HasPlace, shared
<1>2. \A d \in Call : \A e \in copy'[d].of : Usable(e)'
  BY DEF UsableInv, Usable, shared
<1>3. RecordsAreUsable'
  BY DEF UsableInv, RecordsAreUsable, shared
<1> QED BY <1>1, <1>2, <1>3 DEF UsableInv

\* What is on the chain stays there.
LEMMA GrowthUsable ==
    ASSUME UsableInv, UNCHANGED <<pc, copy, file>>, onChain \subseteq onChain', keys \subseteq keys'
    PROVE  UsableInv'
<1>1. \A d \in Call : HasPlace(d, pc[d])'
  BY DEF UsableInv, HasPlace
<1>2. \A d \in Call : \A e \in copy'[d].of : Usable(e)'
  BY DEF UsableInv, Usable
<1>3. RecordsAreUsable'
  BY DEF UsableInv, RecordsAreUsable
<1> QED BY <1>1, <1>2, <1>3 DEF UsableInv

\* A record names a contract with a key, gas and stake.
THEOREM RecordsUsable == Spec => []RecordsAreUsable
<1>1. Init => UsableInv
  BY DEF Init, UsableInv, HasPlace, RecordsAreUsable, NoRecords, Funded, Staked, Keyed
<1>2. TypeInv /\ UsableInv /\ [Next]_vars => UsableInv'
  <2> SUFFICES ASSUME TypeInv, UsableInv, [Next]_vars PROVE UsableInv'
    OBVIOUS
  <2>0. TypeOK
    BY DEF TypeInv
  <2>1. ASSUME NEW c \in Call, Start(c) \/ Lookup(c) \/ Estimate(c) \/ Attach(c) \/ Cleanup(c)
                              \/ Limit(c) \/ Fails(c) \/ Kill(c) \/ \E low \in BOOLEAN : Create(c, low)
        PROVE UsableInv'
    <3>1. UNCHANGED <<copy, shared, file>>
      BY <2>1 DEF Start, Create, Lookup, Estimate, Attach, Cleanup, Limit, Fails, Kill
    <3>2. HasPlace(c, pc[c])
      BY DEF UsableInv
    <3>3. PICK q : pc' = [pc EXCEPT ![c] = q] /\ HasPlace(c, q)
      <4>1. CASE Attach(c)
        <5>1. HasPlace(c, "failed")
          BY DEF HasPlace, Funded, Staked, Keyed
        <5>2. c \in keys => HasPlace(c, "load") /\ HasPlace(c, "cleanup")
          BY <3>2, <4>1 DEF Attach, HasPlace, Funded, Staked, Keyed
        <5> QED BY <4>1, <5>1, <5>2 DEF Attach, GoTo
      <4>2. CASE Cleanup(c)
        BY <3>2, <4>2 DEF Cleanup, GoTo, HasPlace, Funded, Staked, Keyed
      <4>3. CASE ~Attach(c) /\ ~Cleanup(c)
        <5>1. PICK q \in {"factory", "deposit", "lookup", "estimate", "upload", "create", "failed"} :
                  pc' = [pc EXCEPT ![c] = q]
          BY <2>1, <4>3 DEF Start, Create, Lookup, Estimate, Limit, Fails, Kill, GoTo
        <5> QED BY <5>1 DEF HasPlace, Funded, Staked, Keyed
      <4> QED BY <4>1, <4>2, <4>3
    <3> QED BY <2>0, <3>1, <3>3, GoToUsable
  <2>2. ASSUME NEW c \in Call, Handled(c) PROVE UsableInv'
    <3>1. HasPlace(c, After(c))
      BY <2>2, AfterHasPlace DEF Handled, IsHandled, UsableInv
    <3> QED BY <2>0, <2>2, <3>1, GoToUsable DEF Handled, GoTo
  <2>3. ASSUME NEW c \in Call, pc[c] \in Waiting, GoTo(c, After(c)), UNCHANGED <<copy, shared, file>>
        PROVE UsableInv'
    <3>1. HasPlace(c, After(c))
      BY <2>3, AfterHasPlace DEF UsableInv
    <3> QED BY <2>0, <2>3, <3>1, GoToUsable DEF GoTo
  <2>4. ASSUME NEW c \in Call, FirstTry(c) PROVE UsableInv'
    BY <2>4, <2>3, GrowthUsable DEF FirstTry, shared
  <2>5. ASSUME NEW c \in Call, Tick(c) PROVE UsableInv'
    <3>1. poll[c] \in Waiting
      BY <2>0, <2>5 DEF Tick, TypeOK
    <3> QED BY <2>5, <3>1, <2>3, GrowthUsable DEF Tick, shared
  <2>6. ASSUME NEW c \in Call, Load(c) PROVE UsableInv'
    <3>1. CASE ~file.whole
      <4>1. HasPlace(c, "failed")
        BY DEF HasPlace, Funded, Staked, Keyed
      <4> QED BY <2>0, <2>6, <3>1, <4>1, GoToUsable DEF Load, GoTo
    <3>2. CASE file.whole
      <4>1. \A d \in Call : HasPlace(d, pc[d])'
        BY <2>0, <2>6, <3>2 DEF Load, GoTo, shared, TypeOK, UsableInv, HasPlace, Funded, Staked, Keyed
      <4>2. \A d \in Call : \A e \in copy'[d].of : Usable(e)'
        <5>1. ASSUME NEW d \in Call, NEW e \in copy'[d].of PROVE Usable(e)
          <6>1. CASE d = c
            BY <2>0, <2>6, <3>2, <5>1, <6>1 DEF Load, TypeOK, UsableInv, Usable, RecordsAreUsable
          <6>2. CASE d # c
            BY <2>0, <2>6, <3>2, <5>1, <6>2 DEF Load, TypeOK, UsableInv
          <6> QED BY <6>1, <6>2
        <5> QED BY <2>6, <5>1 DEF Load, shared, Usable
      <4>3. RecordsAreUsable'
        BY <2>6 DEF Load, shared, UsableInv, RecordsAreUsable
      <4> QED BY <4>1, <4>2, <4>3 DEF UsableInv
    <3> QED BY <3>1, <3>2
  <2>7. ASSUME NEW c \in Call, Open(c) \/ Write(c) PROVE UsableInv'
    <3>1. \A d \in Call : HasPlace(d, pc[d])'
      BY <2>0, <2>7 DEF Open, Write, GoTo, shared, TypeOK, UsableInv, HasPlace, Funded, Staked, Keyed
    <3>2. \A d \in Call : \A e \in copy'[d].of : Usable(e)'
      BY <2>7 DEF Open, Write, shared, UsableInv, Usable
    <3>3. \A e \in file'.of : Usable(e)
      <4>1. CASE Open(c)
        BY <4>1 DEF Open
      <4>2. CASE Write(c)
        <5>1. HasPlace(c, pc[c]) /\ pc[c] = "write"
          BY <4>2 DEF Write, UsableInv
        <5>2. Usable(c)
          BY <5>1 DEF HasPlace, Usable, Funded, Staked, Keyed
        <5> QED BY <4>2, <5>2 DEF Write, Pushed, UsableInv
      <4> QED BY <2>7, <4>1, <4>2
    <3>4. UNCHANGED shared
      BY <2>7 DEF Open, Write
    <3> QED BY <3>1, <3>2, <3>3, <3>4 DEF UsableInv, RecordsAreUsable, Usable, shared
  <2>8. ASSUME NEW t \in sent, Execute(t) PROVE UsableInv'
    BY <2>8, GrowthUsable DEF Execute
  <2>9. CASE Register
    BY <2>9, GrowthUsable DEF Register
  <2>10. ASSUME NEW c \in Call, Publish(c) PROVE UsableInv'
    BY <2>10, GrowthUsable DEF Publish
  <2>11. CASE UNCHANGED vars
    BY <2>11, GrowthUsable DEF vars, shared
  <2> QED
    BY <2>1, <2>2, <2>4, <2>5, <2>6, <2>7, <2>8, <2>9, <2>10, <2>11 DEF Next, Progress, Include
<1> QED BY <1>1, <1>2, TypeInvariant, PTL DEF Spec, UsableInv

-----------------------------------------------------------------------------
(* Records that stay.                                                        *)

\* A record that is in the file, or in what is about to be written to it.
Kept(c) ==
    \/ file.whole /\ c \in file.of
    \/ \E d \in Commands : pc[d] = "write" /\ c \in copy[d].of

\* Until two commands save at the same time or one dies in the middle, one at
\* most is saving, from a copy that is up to date, and the file is incomplete
\* only while it writes.
SaveInv ==
    raced \/ cut \/
        /\ \A c, d \in Commands : pc[c] \in Saving /\ pc[d] \in Saving => c = d
        /\ \A c \in Commands : pc[c] = "open" => copy[c].of = file.of
        /\ \A c \in Commands : pc[c] = "write" => file.size = 0
        /\ file.whole <=> \A c \in Commands : pc[c] # "write"
        /\ \A c \in Commands : pc[c] \in {"cleanup", "done"} => Kept(c)

\* A step of c that neither saves nor ends the saving of a record, and leaves
\* the file alone.
LEMMA GoToSaveInv ==
    ASSUME TypeInv, SaveInv, NEW c \in Call, NEW q, pc' = [pc EXCEPT ![c] = q],
           UNCHANGED <<copy, file, raced, cut>>, pc[c] # "write", q \notin Saving,
           q \in {"cleanup", "done"} => c \notin Commands \/ pc[c] \in {"cleanup", "done"}
    PROVE  SaveInv'
<1> USE DEF TypeInv
<1>1. CASE raced \/ cut
  BY <1>1 DEF SaveInv
<1>2. CASE ~raced /\ ~cut
  <2>0. Commands \subseteq Call
    BY DEF Call
  <2>1. \A d \in Call : pc'[d] = IF d = c THEN q ELSE pc[d]
    BY DEF TypeOK
  <2>2. \A d \in Commands : pc'[d] \in Saving => pc[d] \in Saving /\ pc'[d] = pc[d]
    BY <2>0, <2>1
  <2>3. \A d \in Commands : pc[d] = "write" <=> pc'[d] = "write"
    BY <2>0, <2>1 DEF Saving
  <2>4. \A d \in Commands : pc'[d] \in {"cleanup", "done"} => pc[d] \in {"cleanup", "done"}
    BY <2>0, <2>1
  <2>5. \A d : Kept(d) => Kept(d)'
    BY <2>3 DEF Kept
  <2>6. \A d \in Commands : pc'[d] = "open" => pc[d] = "open"
    BY <2>2 DEF Saving
  <2> QED BY <1>2, <2>2, <2>3, <2>4, <2>5, <2>6 DEF SaveInv
<1> QED BY <1>1, <1>2

\* A step that does not move a call, nor the file.
LEMMA StillSaveInv ==
    ASSUME SaveInv, UNCHANGED <<pc, copy, file, raced, cut>>
    PROVE  SaveInv'
BY DEF SaveInv, Kept

LEMMA InitSave == Init => SaveInv
BY DEF Init, SaveInv, Saving, Call

LEMMA StepSave == TypeInv /\ SaveInv /\ [Next]_vars => SaveInv'
<1> SUFFICES ASSUME TypeInv, SaveInv, [Next]_vars PROVE SaveInv'
  OBVIOUS
<1> USE DEF TypeInv
<1>0. Commands \subseteq Call
  BY DEF Call
<1>1. ASSUME NEW c \in Call, Start(c) \/ Lookup(c) \/ Estimate(c) \/ Limit(c) \/ Fails(c)
                            \/ Attach(c) \/ Cleanup(c) \/ \E low \in BOOLEAN : Create(c, low)
      PROVE SaveInv'
  <2>1. PICK q : /\ pc' = [pc EXCEPT ![c] = q]
                 /\ q \notin Saving
                 /\ q = "cleanup" => c \notin Commands
                 /\ q = "done" => pc[c] = "cleanup"
    BY <1>1 DEF Start, Create, Lookup, Estimate, Limit, Fails, Attach, Cleanup, Recorded, GoTo, Saving
  <2>2. pc[c] # "write" /\ UNCHANGED <<copy, file, raced, cut>>
    BY <1>1 DEF Start, Create, Lookup, Estimate, Limit, Fails, Attach, Cleanup, Saving, Waiting
  <2> QED BY <2>1, <2>2, GoToSaveInv
<1>2. ASSUME NEW c \in Call, pc[c] \in Tx \cup Waiting, GoTo(c, After(c)), UNCHANGED <<copy, file, raced, cut>>
      PROVE SaveInv'
  <2>1. After(c) \notin Saving \cup {"cleanup", "done"}
    BY DEF After, Saving
  <2> QED BY <1>2, <2>1, GoToSaveInv DEF GoTo, Tx, Waiting
<1>3. ASSUME NEW c \in Call, Handled(c) \/ FirstTry(c) \/ Tick(c) PROVE SaveInv'
  <2>1. poll[c] # "off" => poll[c] \in Waiting
    BY DEF TypeOK
  <2> QED BY <1>2, <1>3, <2>1, StillSaveInv DEF Handled, FirstTry, Tick
<1>4. ASSUME NEW c \in Call, Load(c) PROVE SaveInv'
  <2>1. CASE raced' \/ cut
    BY <1>4, <2>1 DEF Load, SaveInv
  <2>2. CASE ~raced' /\ ~cut /\ ~file.whole
    <3>1. raced' = raced
      BY <1>4, <2>2 DEF Load, TypeOK
    <3> QED BY <1>4, <2>2, <3>1, GoToSaveInv DEF Load, GoTo, Saving
  <2>3. CASE ~raced' /\ ~cut /\ file.whole
    <3>1. ~raced /\ \A d \in Commands : pc[d] \notin Saving
      BY <1>4, <2>3 DEF Load
    <3>2. \A d \in Call : pc'[d] = IF d = c THEN "open" ELSE pc[d]
      BY <1>4, <2>3 DEF Load, GoTo, TypeOK
    <3>3. copy'[c].of = file.of
      BY <1>4, <2>3 DEF Load, TypeOK
    <3>4. file' = file /\ \A d \in Commands : pc'[d] # "write"
      BY <1>0, <1>4, <3>1, <3>2 DEF Load, Saving
    <3>5. \A d \in Commands : pc'[d] \in {"cleanup", "done"} => file.whole /\ d \in file.of
      BY <1>0, <2>3, <3>1, <3>2 DEF SaveInv, Kept, Saving
    <3> QED BY <1>0, <2>3, <3>1, <3>2, <3>3, <3>4, <3>5 DEF SaveInv, Kept, Saving
  <2> QED BY <2>1, <2>2, <2>3
<1>5. ASSUME NEW c \in Call, Open(c) PROVE SaveInv'
  <2>1. CASE raced \/ cut
    BY <1>5, <2>1 DEF Open, SaveInv
  <2>2. CASE ~raced /\ ~cut
    <3>1. c \in Commands /\ pc[c] = "open"
      BY <1>5 DEF Open, CommandsSave, Saving
    <3>2. \A d \in Call : pc'[d] = IF d = c THEN "write" ELSE pc[d]
      BY <1>5 DEF Open, GoTo, TypeOK
    <3>3. \A d \in Commands : pc[d] \in Saving => d = c
      BY <2>2, <3>1 DEF SaveInv, Saving
    <3>4. copy[c].of = file.of /\ copy' = copy
      BY <1>5, <2>2, <3>1 DEF Open, SaveInv
    <3>5. \A d \in Commands : pc'[d] \in {"cleanup", "done"} => d \in copy'[c].of
      BY <1>0, <2>2, <3>2, <3>3, <3>4, <3>1 DEF SaveInv, Kept, Saving
    <3>6. file'.size = 0 /\ ~file'.whole /\ raced' = raced /\ cut' = cut
      BY <1>5 DEF Open
    <3> QED BY <1>0, <3>1, <3>2, <3>3, <3>5, <3>6 DEF SaveInv, Kept, Saving
  <2> QED BY <2>1, <2>2
<1>6. ASSUME NEW c \in Call, Write(c) PROVE SaveInv'
  <2>1. CASE raced \/ cut
    BY <1>6, <2>1 DEF Write, SaveInv
  <2>2. CASE ~raced /\ ~cut
    <3>1. c \in Commands /\ pc[c] = "write"
      BY <1>6 DEF Write, CommandsSave, Saving
    <3>2. \A d \in Call : pc'[d] = IF d = c THEN "cleanup" ELSE pc[d]
      BY <1>6 DEF Write, GoTo, TypeOK
    <3>3. \A d \in Commands : pc'[d] \notin Saving
      BY <1>0, <2>2, <3>1, <3>2 DEF SaveInv, Saving
    <3>4. file'.whole
      <4>1. file.size = 0 /\ copy[c].size \in Nat
        BY <1>0, <2>2, <3>1 DEF SaveInv, TypeOK
      <4>2. file.size <= copy[c].size + 1
        BY <4>1
      <4> QED BY <1>6, <4>2 DEF Write, Pushed
    <3>5. ~file.whole /\ \A d \in Commands : pc[d] = "write" => d = c
      BY <2>2, <3>1 DEF SaveInv, Saving
    <3>6. \A d \in Commands : pc'[d] \in {"cleanup", "done"} => d \in file'.of
      BY <1>0, <1>6, <2>2, <3>1, <3>2, <3>5 DEF Write, Pushed, SaveInv, Kept
    <3> QED BY <3>3, <3>4, <3>6 DEF SaveInv, Kept, Saving
  <2> QED BY <2>1, <2>2
<1>7. ASSUME NEW c \in Call, Kill(c) PROVE SaveInv'
  <2>1. CASE pc[c] = "write"
    <3>1. cut'
      BY <1>7, <2>1 DEF Kill
    <3> QED BY <3>1 DEF SaveInv
  <2>2. CASE pc[c] # "write"
    <3>1. raced' = raced /\ cut' = cut
      BY <1>7, <2>2 DEF Kill, TypeOK
    <3>2. pc' = [pc EXCEPT ![c] = "failed"]
      BY <1>7 DEF Kill
    <3>3. UNCHANGED <<copy, file, raced, cut>>
      BY <1>7, <3>1 DEF Kill
    <3>4. "failed" \notin Saving \cup {"cleanup", "done"}
      BY DEF Saving
    <3> QED BY <2>2, <3>2, <3>3, <3>4, GoToSaveInv
  <2> QED BY <2>1, <2>2
<1>8. ASSUME NEW t \in sent, Execute(t) PROVE SaveInv'
  BY <1>8, StillSaveInv DEF Execute
<1>9. CASE Register
  BY <1>9, StillSaveInv DEF Register
<1>10. ASSUME NEW c \in Call, Publish(c) PROVE SaveInv'
  BY <1>10, StillSaveInv DEF Publish
<1>11. CASE UNCHANGED vars
  BY <1>11, StillSaveInv DEF vars
<1> QED
  BY <1>1, <1>3, <1>4, <1>5, <1>6, <1>7, <1>8, <1>9, <1>10, <1>11 DEF Next, Progress, Include

\* Records get lost by overlapping saves or a process cut off, and not otherwise.
THEOREM RecordsSurviving == Spec => []RecordsSurvive
<1>1. SaveInv => RecordsSurvive
  BY DEF SaveInv, Kept, RecordsSurvive
<1> QED BY <1>1, InitSave, StepSave, TypeInvariant, PTL DEF Spec

\* A step that neither opens nor writes the file keeps what is in it.
LEMMA FiledStays ==
    ASSUME file' = file,
           \A d \in Commands : pc'[d] = "write" <=> pc[d] = "write",
           \A d \in Commands : pc[d] = "write" => copy'[d] = copy[d]
    PROVE  Filed' = Filed
<1>1. {d \in Commands : pc'[d] = "write"} = {d \in Commands : pc[d] = "write"}
  OBVIOUS
<1> DEFINE W == {d \in Commands : pc[d] = "write"}
<1>2. {copy'[c].of : c \in W} = {copy[c].of : c \in W}
  OBVIOUS
<1> QED BY <1>1, <1>2 DEF Filed

Through == {c \in Commands : pc[c] \in {"cleanup", "done"}}

\* An undisturbed save: opening keeps the records in the copy of the command,
\* and writing adds its own.
LEMMA SaveFiles ==
    ASSUME TypeInv, SaveInv, ~raced, ~cut, NEW c \in Call, Open(c) \/ Write(c)
    PROVE  ContractsFile!Next \/ (Filed' = Filed /\ Through' = Through)
<1> USE DEF TypeInv
<1>0. Commands \subseteq Call
  BY DEF Call
<1>1. c \in Commands /\ pc[c] \in Saving
  BY DEF Open, Write, CommandsSave, Saving
<1>2. \A d \in Commands : pc[d] \in Saving => d = c
  BY <1>1 DEF SaveInv
<1>3. CASE Open(c)
  <2>1. /\ pc[c] = "open" /\ copy' = copy /\ ~file'.whole
        /\ \A d \in Commands : pc'[d] = IF d = c THEN "write" ELSE pc[d]
    BY <1>0, <1>3 DEF Open, GoTo, TypeOK
  <2>2. {d \in Commands : pc[d] = "write"} = {} /\ file.whole /\ copy[c].of = file.of
    BY <1>1, <1>2, <2>1 DEF SaveInv, Saving
  <2>3. {d \in Commands : pc'[d] = "write"} = {c}
    BY <1>1, <2>1, <2>2
  <2>4. Filed = file.of
    BY <2>2 DEF Filed
  <2>5. {copy'[d].of : d \in {c}} = {copy[c].of}
    BY <2>1
  <2>6. Filed' = copy[c].of
    BY <2>1, <2>3, <2>5 DEF Filed
  <2>7. Through' = Through
    BY <2>1 DEF Through
  <2> QED BY <2>2, <2>4, <2>6, <2>7
<1>4. CASE Write(c)
  <2>1. /\ pc[c] = "write" /\ copy' = copy /\ file'.of = copy[c].of \cup {c}
        /\ raced' = raced /\ cut' = cut
        /\ \A d \in Commands : pc'[d] = IF d = c THEN "cleanup" ELSE pc[d]
    BY <1>0, <1>4 DEF Write, GoTo, TypeOK, Pushed
  <2>2. {d \in Commands : pc[d] = "write"} = {c} /\ ~file.whole
    BY <1>1, <1>2, <2>1 DEF SaveInv, Saving
  <2>3. {d \in Commands : pc'[d] = "write"} = {}
    BY <2>1, <2>2
  <2>4. file'.whole
    <3>1. file.size = 0 /\ copy[c].size \in Nat
      BY <1>0, <1>1, <2>1 DEF SaveInv, TypeOK
    <3>2. file.size <= copy[c].size + 1
      BY <3>1
    <3> QED BY <1>4, <3>2 DEF Write, Pushed
  <2>5. {copy[d].of : d \in {c}} = {copy[c].of}
    OBVIOUS
  <2>6. Filed = copy[c].of
    BY <2>2, <2>5 DEF Filed
  <2>7. Filed' = copy[c].of \cup {c}
    BY <2>1, <2>3, <2>4 DEF Filed
  <2>8. Through' = Through \cup {c}
    BY <1>1, <2>1 DEF Through
  <2>9. ContractsFile!Save(c)
    BY <2>1, <2>6, <2>7, <2>8 DEF ContractsFile!Save, Through
  <2>10. c \in Filed'
    BY <2>7
  <2> QED BY <2>9, <2>10 DEF ContractsFile!Next
<1> QED BY <1>3, <1>4

\* A step that leaves the file alone may only take a command out of those that
\* are through.
LEMMA StepFiles ==
    ASSUME TypeInv, SaveInv, [Next]_vars, ~raced', ~cut'
    PROVE  /\ ~raced /\ ~cut
           /\ ContractsFile!Next \/ (Filed' = Filed /\ Through' = Through)
<1> USE DEF TypeInv
<1>0. Commands \subseteq Call
  BY DEF Call
<1> DEFINE Calm == /\ ~raced /\ ~cut
                   /\ ContractsFile!Next \/ (Filed' = Filed /\ Through' = Through)
<1>1. ASSUME raced' = raced, cut' = cut, file' = file, copy' = copy,
             NEW c \in Call, NEW q, pc' = [pc EXCEPT ![c] = q], pc[c] # "write", q # "write",
             q \in {"cleanup", "done"} <=> pc[c] \in {"cleanup", "done"} \/ (c \notin Commands /\ q \in {"cleanup", "done"})
      PROVE  Calm
  <2>1. \A d \in Commands : pc'[d] = IF d = c THEN q ELSE pc[d]
    BY <1>0, <1>1 DEF TypeOK
  <2>2. Filed' = Filed
    BY <1>1, <2>1, FiledStays
  <2>3. Through' = Through
    BY <1>1, <2>1 DEF Through
  <2> QED BY <1>1, <2>2, <2>3
<1>2. ASSUME UNCHANGED <<pc, copy, file, raced, cut>> PROVE Calm
  BY <1>2, FiledStays DEF Through
<1>3. ASSUME NEW c \in Call, Start(c) \/ Lookup(c) \/ Estimate(c) \/ Limit(c)
                            \/ Attach(c) \/ Cleanup(c) \/ \E low \in BOOLEAN : Create(c, low)
      PROVE  Calm
  <2>1. PICK q : /\ pc' = [pc EXCEPT ![c] = q]
                 /\ q # "write"
                 /\ q = "cleanup" => c \notin Commands
                 /\ q = "done" <=> pc[c] = "cleanup"
    BY <1>3 DEF Start, Create, Lookup, Estimate, Limit, Attach, Cleanup, Recorded, GoTo, Waiting
  <2>2. pc[c] # "write" /\ pc[c] # "done" /\ UNCHANGED <<copy, file, raced, cut>>
    BY <1>3 DEF Start, Create, Lookup, Estimate, Limit, Attach, Cleanup, Waiting
  <2>3. q = "cleanup" => pc[c] # "cleanup"
    BY <2>1
  <2> QED BY <1>1, <2>1, <2>2, <2>3
<1>4. ASSUME NEW c \in Call, pc[c] \in Tx \cup Waiting, GoTo(c, After(c)),
             UNCHANGED <<copy, file, raced, cut>>
      PROVE  Calm
  <2>1. After(c) \notin Saving \cup {"cleanup", "done"}
    BY DEF After, Saving
  <2> QED BY <1>1, <1>4, <2>1 DEF GoTo, Tx, Waiting, Saving
<1>5. ASSUME NEW c \in Call, Handled(c) \/ FirstTry(c) \/ Tick(c) PROVE Calm
  <2>1. poll[c] # "off" => poll[c] \in Waiting
    BY DEF TypeOK
  <2> QED BY <1>2, <1>4, <1>5, <2>1 DEF Handled, FirstTry, Tick
<1>6. ASSUME NEW c \in Call, Load(c) PROVE Calm
  <2>1. ~raced /\ ~cut /\ file' = file /\ pc[c] = "load"
    BY <1>6 DEF Load
  <2>2. \A d \in Commands : /\ pc'[d] = pc[d] \/ (d = c /\ pc'[d] \in {"open", "failed"})
                            /\ d # c => copy'[d] = copy[d]
    BY <1>0, <1>6 DEF Load, GoTo, TypeOK
  <2>3. Filed' = Filed
    BY <2>1, <2>2, FiledStays
  <2>4. Through' = Through
    BY <2>1, <2>2 DEF Through
  <2> QED BY <2>1, <2>3, <2>4
<1>7. ASSUME NEW c \in Call, Open(c) \/ Write(c) PROVE Calm
  <2>1. ~raced /\ ~cut
    BY <1>7 DEF Open, Write
  <2> QED BY <1>7, <2>1, SaveFiles
<1>8. ASSUME NEW c \in Call, Fails(c) \/ Kill(c) PROVE Calm
  <2>1. /\ ~raced /\ ~cut /\ raced' = raced /\ cut' = cut /\ file' = file /\ copy' = copy
        /\ pc[c] # "write" /\ pc[c] # "done" /\ pc' = [pc EXCEPT ![c] = "failed"]
    BY <1>8 DEF Fails, Kill, Saving, Settled, TypeOK
  <2>2. CASE pc[c] # "cleanup" \/ c \notin Commands
    <3>1. \A d \in Commands : pc'[d] = IF d = c THEN "failed" ELSE pc[d]
      BY <1>0, <2>1 DEF TypeOK
    <3>2. Filed' = Filed
      BY <2>1, <3>1, FiledStays
    <3>3. Through' = Through
      BY <2>1, <2>2, <3>1 DEF Through
    <3> QED BY <2>1, <3>2, <3>3
  <2>3. CASE pc[c] = "cleanup" /\ c \in Commands
    <3>1. \A d \in Commands : pc'[d] = IF d = c THEN "failed" ELSE pc[d]
      BY <1>0, <2>1 DEF TypeOK
    <3>2. Filed' = Filed
      BY <2>1, <3>1, FiledStays
    <3>3. Through' = Through \ {c} /\ c \in Through
      BY <2>3, <3>1 DEF Through
    <3>4. ContractsFile!Leave(c)
      BY <2>1, <3>2, <3>3 DEF ContractsFile!Leave, Through
    <3> QED BY <2>1, <3>3, <3>4 DEF ContractsFile!Next, Through
  <2> QED BY <2>2, <2>3
<1>9. ASSUME NEW t \in sent, Execute(t) PROVE Calm
  BY <1>2, <1>9 DEF Execute
<1>10. ASSUME Register PROVE Calm
  BY <1>2, <1>10 DEF Register
<1>11. ASSUME NEW c \in Call, Publish(c) PROVE Calm
  BY <1>2, <1>11 DEF Publish
<1>12. ASSUME UNCHANGED vars PROVE Calm
  BY <1>2, <1>12 DEF vars
<1> HIDE DEF Calm
<1>13. Calm
  BY <1>3, <1>5, <1>6, <1>7, <1>8, <1>9, <1>10, <1>11, <1>12 DEF Next, Progress, Include
<1> QED BY <1>13 DEF Calm

\* contract deploy implements RecordFile, for any number of commands, scripts
\* and interruptions: its record is in contracts.json when it is through, and
\* no step of another call takes it out.
THEOREM RecordsFiled == Spec => RecordsKept
<1>1. Init => ContractsFile!Init
  <2>1. Init => Through = {} /\ {d \in Commands : pc[d] = "write"} = {}
    BY DEF Init, Through, Call
  <2>2. Init => Filed = {}
    BY <2>1 DEF Init, Filed
  <2> QED BY <2>1, <2>2 DEF Init, ContractsFile!Init, Through
<1>2. TypeInv /\ SaveInv /\ [Next]_vars => [ContractsFile!Next]_(ContractsFile!vars)
  <2> SUFFICES ASSUME TypeInv, SaveInv, [Next]_vars
               PROVE  [ContractsFile!Next]_(ContractsFile!vars)
    OBVIOUS
  <2>1. CASE raced' \/ cut'
    <3>1. ContractsFile!Disturb
      BY <2>1 DEF ContractsFile!Disturb
    <3> QED BY <3>1 DEF ContractsFile!Next
  <2>2. CASE ~raced' /\ ~cut'
    BY <2>2, StepFiles DEF Through, ContractsFile!vars
  <2> QED BY <2>1, <2>2
<1> QED
  BY <1>1, <1>2, TypeInvariant, InitSave, StepSave, PTL
     DEF Spec, RecordsKept, ContractsFile!Spec

=============================================================================
