----------------------- MODULE ContractBuild_proofs -----------------------
(* Proofs about ProjectFiles, for any commands, names and number of kills,   *)
(* about the builds beside it, for any versions, and about the two together. *)
EXTENDS ContractBuild, SequenceTheorems, TLAPS

-----------------------------------------------------------------------------
(* Plans.                                                                  *)

\* What is left of a plan: accounts are for `account create` alone, whose
\* plan is one task, and the pieces for init.
Fits(c, s) ==
    /\ s \in Seq(Task)
    /\ \A i \in 1..Len(s) :
        /\ s[i].do = "account" <=> c \in Accounts
        /\ s[i].do = "account" => s[i].of = "accounts"
        /\ s[i].do = "put" => c \in Inits /\ s[i].of \in Pieces
        /\ s[i].do \in {"check", "mkdir"} => s[i].of \in Dirs
        /\ s[i].do \in {"copy", "edit"} => s[i].of \in Files
    /\ c \in Accounts => Len(s) <= 1

LEMMA ListsFit ==
    /\ \A c \in Inits \cup Creates : Fits(c, CreateNew)
    /\ \A c \in Inits : Fits(c, PutAll)
    /\ \A c \in Accounts : Fits(c, <<To("account", "accounts")>>)
    /\ Len(CreateNew) = 10 /\ Len(PutAll) = 7
BY FilesAssumption DEF Fits, CreateNew, PutAll, Task, Pieces, Dirs, Files, To

LEMMA ConcatFits ==
    ASSUME NEW c \in Inits, NEW s, NEW t, Fits(c, s), Fits(c, t)
    PROVE  Fits(c, s \o t) /\ Len(s \o t) = Len(s) + Len(t)
<1>1. s \in Seq(Task) /\ t \in Seq(Task) /\ Len(s) \in Nat /\ Len(t) \in Nat
  BY DEF Fits
<1>2. s \o t \in Seq(Task) /\ Len(s \o t) = Len(s) + Len(t)
  BY <1>1
<1>3. \A i \in 1..(Len(s) + Len(t)) :
          (s \o t)[i] = IF i <= Len(s) THEN s[i] ELSE t[i - Len(s)]
  BY <1>1
<1>4. c \notin Accounts
  BY FilesAssumption
<1>5. ASSUME NEW i \in 1..Len(s \o t)
      PROVE  \/ i \in 1..Len(s) /\ (s \o t)[i] = s[i]
             \/ (i - Len(s)) \in 1..Len(t) /\ (s \o t)[i] = t[i - Len(s)]
  BY <1>1, <1>2, <1>3
<1> QED BY <1>2, <1>4, <1>5 DEF Fits

LEMMA PlanFits == \A c \in FileCommands : Fits(c, Plan(c)) /\ Plan(c) # <<>>
<1>1. ASSUME NEW c \in Inits PROVE Fits(c, PutAll \o CreateNew) /\ PutAll \o CreateNew # <<>>
  <2>1. Fits(c, PutAll) /\ Fits(c, CreateNew)
    BY ListsFit
  <2>2. Fits(c, PutAll \o CreateNew) /\ Len(PutAll \o CreateNew) = Len(PutAll) + Len(CreateNew)
    BY <2>1, ConcatFits
  <2>3. Len(PutAll \o CreateNew) = 17
    BY <2>2, ListsFit
  <2>4. Len(<<>>) = 0
    OBVIOUS
  <2> QED BY <2>2, <2>3, <2>4
<1>2. CreateNew # <<>> /\ <<To("account", "accounts")>> # <<>>
  BY ListsFit
<1> QED BY <1>1, <1>2, ListsFit DEF Plan, FileCommands

LEMMA TailFits ==
    ASSUME NEW c, NEW s, Fits(c, s), s # <<>>
    PROVE  /\ Fits(c, Tail(s)) /\ Head(s) \in Task
           /\ Head(s) = s[1] /\ Len(s) \in Nat \ {0} /\ 1 \in 1..Len(s)
           /\ Len(s) # 1 => Tail(s) # <<>>
<1>1. s \in Seq(Task) /\ Len(s) \in Nat \ {0} /\ Head(s) \in Task /\ Head(s) = s[1]
  BY DEF Fits
<1>2. Tail(s) \in Seq(Task) /\ Len(Tail(s)) = Len(s) - 1
  BY <1>1
<1>3. ASSUME NEW i \in 1..Len(Tail(s)) PROVE Tail(s)[i] = s[i + 1] /\ i + 1 \in 1..Len(s)
  BY <1>1, <1>2
<1>4. Fits(c, Tail(s))
  BY <1>1, <1>2, <1>3 DEF Fits
<1>5. Len(s) # 1 => Tail(s) # <<>>
  <2>1. Len(<<>>) = 0
    OBVIOUS
  <2> QED BY <1>2, <2>1
<1>6. 1 \in 1..Len(s)
  BY <1>1
<1> QED BY <1>1, <1>4, <1>5, <1>6

-----------------------------------------------------------------------------
(* Types.                                                                  *)

\* A command that is not at its end has tasks left.
PlansFit == \A c \in FileCommands :
    Fits(c, plan[c]) /\ (pc[c] \notin Ended => plan[c] # <<>>)

TypeInv == FilesTypeOK /\ PlansFit

Place == Busy \cup Ended \cup {"idle", "ask"}

\* What a command is working on.
LEMMA AtTask ==
    ASSUME TypeInv, NEW c \in FileCommands, NEW do, NEW place, At(c, do, place)
    PROVE  /\ do = "account" <=> c \in Accounts
           /\ do = "account" => Of(c) = "accounts"
           /\ do = "put" => c \in Inits /\ Of(c) \in Pieces
           /\ do \in {"check", "mkdir"} => Of(c) \in Dirs
           /\ do \in {"copy", "edit"} => Of(c) \in Files
           /\ Contract(c) \in Names
<1>1. Fits(c, plan[c]) /\ plan[c] # <<>>
  BY DEF TypeInv, PlansFit, At
<1>2. Head(plan[c]) = plan[c][1] /\ 1 \in 1..Len(plan[c])
  BY <1>1, TailFits
<1>3. Contract(c) \in Names
  BY FilesAssumption DEF Contract
<1> QED BY <1>1, <1>2, <1>3 DEF Fits, At, Of

LEMMA GoToTypes ==
    ASSUME TypeInv, NEW c \in FileCommands, NEW place \in Place, GoTo(c, place),
           pc[c] \notin Ended
    PROVE  /\ pc' \in [FileCommands -> Place] /\ plan' \in [FileCommands -> Seq(Task)]
           /\ PlansFit'
BY DEF TypeInv, PlansFit, GoTo, FilesTypeOK, Place

LEMMA AdvanceTypes ==
    ASSUME TypeInv, NEW c \in FileCommands, Advance(c), pc[c] \notin Ended
    PROVE  /\ pc' \in [FileCommands -> Place] /\ plan' \in [FileCommands -> Seq(Task)]
           /\ PlansFit'
<1>1. Fits(c, plan[c]) /\ plan[c] # <<>>
  BY DEF TypeInv, PlansFit
<1>2. Fits(c, Tail(plan[c])) /\ (Len(plan[c]) # 1 => Tail(plan[c]) # <<>>)
  BY <1>1, TailFits
<1>3. Tail(plan[c]) \in Seq(Task)
  BY <1>2 DEF Fits
<1> QED BY <1>2, <1>3 DEF TypeInv, PlansFit, Advance, FilesTypeOK, Place, Busy, Ended

LEMMA InitTypes == FilesInit => TypeInv
<1> SUFFICES ASSUME FilesInit PROVE TypeInv
  OBVIOUS
<1>1. plan \in [FileCommands -> Seq(Task)] /\ PlansFit
  BY PlanFits DEF FilesInit, PlansFit, Fits
<1>2. pc \in [FileCommands -> Place] /\ seen \in [FileCommands -> FileState]
      /\ copy \in [Accounts -> SUBSET Accounts]
  BY DEF FilesInit, Place, FileState
<1>3. /\ piece \in [Pieces -> PieceState] /\ made \subseteq Names \X Dirs
      /\ part \in [Names -> [Files -> FileState]]
  BY FilesAssumption DEF FilesInit, PieceState, FileState, Dirs
<1>4. kills \in 0..MaxKills
  <2>1. MaxKills \in Nat /\ kills = 0
    BY FilesAssumption DEF FilesInit
  <2> QED BY <2>1
<1>5. /\ session \in Sessions /\ keys \subseteq Accounts
      /\ mixed \in BOOLEAN /\ crossed \subseteq Names /\ cut \subseteq Pieces
  BY DEF FilesInit
<1> QED BY <1>1, <1>2, <1>3, <1>4, <1>5 DEF TypeInv, FilesTypeOK, Place

LEMMA StepTypes == TypeInv /\ [FilesNext]_fvars => TypeInv'
<1> SUFFICES ASSUME TypeInv, [FilesNext]_fvars PROVE TypeInv'
  OBVIOUS
<1> USE DEF TypeInv
<1>1. CASE UNCHANGED fvars
  BY <1>1 DEF FilesTypeOK, PlansFit, fvars
<1>2. ASSUME NEW c \in FileCommands, Start(c) PROVE TypeInv'
  <2>1. pc' \in [FileCommands -> Place] /\ plan' \in [FileCommands -> Seq(Task)] /\ PlansFit'
    BY <1>2, GoToTypes DEF Start, Fails, Place, Busy, Ended
  <2> QED BY <1>2, <2>1 DEF Start, FilesTypeOK, Place
<1>3. ASSUME NEW c \in FileCommands, Look(c) PROVE TypeInv'
  <2>1. pc' \in [FileCommands -> Place] /\ plan' \in [FileCommands -> Seq(Task)] /\ PlansFit'
    BY <1>3, GoToTypes, AdvanceTypes DEF Look, At, Place, Busy, Ended
  <2> QED BY <1>3, <2>1 DEF Look, FilesTypeOK, Place
<1>4. ASSUME NEW c \in FileCommands, MakePiece(c) PROVE TypeInv'
  <2>1. pc' \in [FileCommands -> Place] /\ plan' \in [FileCommands -> Seq(Task)] /\ PlansFit'
    BY <1>4, GoToTypes, AdvanceTypes DEF MakePiece, Fails, At, Place, Busy, Ended
  <2> QED BY <1>4, <2>1 DEF MakePiece, FilesTypeOK, Place, PieceState
<1>5. ASSUME NEW c \in FileCommands, OpenPiece(c) PROVE TypeInv'
  <2>1. pc' \in [FileCommands -> Place] /\ plan' \in [FileCommands -> Seq(Task)] /\ PlansFit'
    BY <1>5, GoToTypes DEF OpenPiece, At, Place, Busy, Ended
  <2> QED BY <1>5, <2>1 DEF OpenPiece, FilesTypeOK, Place, PieceState
<1>6. ASSUME NEW c \in FileCommands, WritePiece(c) PROVE TypeInv'
  <2>1. pc' \in [FileCommands -> Place] /\ plan' \in [FileCommands -> Seq(Task)] /\ PlansFit'
    BY <1>6, AdvanceTypes DEF WritePiece, At, Place, Busy, Ended
  <2> QED BY <1>6, <2>1 DEF WritePiece, FilesTypeOK, Place, PieceState
<1>7. ASSUME NEW c \in FileCommands, CheckComponent(c) PROVE TypeInv'
  <2>1. pc' \in [FileCommands -> Place] /\ plan' \in [FileCommands -> Seq(Task)] /\ PlansFit'
    BY <1>7, GoToTypes, AdvanceTypes DEF CheckComponent, Fails, At, Place, Busy, Ended
  <2>2. Contract(c) \in Names
    BY <1>7, AtTask DEF CheckComponent
  <2>3. crossed' \subseteq Names
    BY <1>7, <2>2 DEF CheckComponent, FilesTypeOK
  <2> QED BY <1>7, <2>1, <2>3 DEF CheckComponent, FilesTypeOK, Place
<1>8. ASSUME NEW c \in FileCommands, MakeDirectory(c) PROVE TypeInv'
  <2>1. pc' \in [FileCommands -> Place] /\ plan' \in [FileCommands -> Seq(Task)] /\ PlansFit'
    BY <1>8, GoToTypes, AdvanceTypes DEF MakeDirectory, Fails, At, Place, Busy, Ended
  <2>2. Contract(c) \in Names /\ Of(c) \in Dirs
    BY <1>8, AtTask DEF MakeDirectory
  <2>3. made' \subseteq Names \X Dirs
    BY <1>8, <2>2 DEF MakeDirectory, FilesTypeOK
  <2>4. piece' \in [Pieces -> PieceState]
    BY <1>8 DEF MakeDirectory, FilesTypeOK, PieceState
  <2> QED BY <1>8, <2>1, <2>3, <2>4 DEF MakeDirectory, FilesTypeOK, Place
<1>9. ASSUME NEW c \in FileCommands, OpenFile(c) PROVE TypeInv'
  <2>1. pc' \in [FileCommands -> Place] /\ plan' \in [FileCommands -> Seq(Task)] /\ PlansFit'
    BY <1>9, GoToTypes DEF OpenFile, At, Place, Busy, Ended
  <2>2. part' \in [Names -> [Files -> FileState]]
    BY <1>9 DEF OpenFile, Put, FilesTypeOK, FileState
  <2> QED BY <1>9, <2>1, <2>2 DEF OpenFile, FilesTypeOK, Place
<1>10. ASSUME NEW c \in FileCommands, WriteFile(c) PROVE TypeInv'
  <2>1. pc' \in [FileCommands -> Place] /\ plan' \in [FileCommands -> Seq(Task)] /\ PlansFit'
    BY <1>10, AdvanceTypes DEF WriteFile, At, Place, Busy, Ended
  <2>2. PICK state \in FileState : Put(c, state)
    BY <1>10 DEF WriteFile, FileState
  <2>3. part' \in [Names -> [Files -> FileState]]
    BY <2>2 DEF Put, FilesTypeOK
  <2> QED BY <1>10, <2>1, <2>3 DEF WriteFile, FilesTypeOK, Place
<1>11. ASSUME NEW c \in FileCommands, ReadFile(c) PROVE TypeInv'
  <2>1. pc' \in [FileCommands -> Place] /\ plan' \in [FileCommands -> Seq(Task)] /\ PlansFit'
    BY <1>11, GoToTypes DEF ReadFile, At, Place, Busy, Ended
  <2>2. Contract(c) \in Names /\ Of(c) \in Files
    BY <1>11, AtTask DEF ReadFile
  <2> QED BY <1>11, <2>1, <2>2 DEF ReadFile, FilesTypeOK, Place
<1>12. ASSUME NEW c \in Accounts, Load(c) PROVE TypeInv'
  <2>1. pc' \in [FileCommands -> Place] /\ plan' \in [FileCommands -> Seq(Task)] /\ PlansFit'
    BY <1>12, GoToTypes DEF Load, Fails, At, Place, Busy, Ended, FileCommands
  <2> QED BY <1>12, <2>1 DEF Load, FilesTypeOK, Place
<1>13. ASSUME NEW c \in FileCommands, Answer(c) PROVE TypeInv'
  <2>1. pc' \in [FileCommands -> Place] /\ plan' \in [FileCommands -> Seq(Task)] /\ PlansFit'
    BY <1>13, GoToTypes DEF Answer, At, Place, Busy, Ended
  <2> QED BY <1>13, <2>1 DEF Answer, FilesTypeOK, Place
<1>14. ASSUME NEW c \in Accounts, OpenAccounts(c) PROVE TypeInv'
  <2>1. pc' \in [FileCommands -> Place] /\ plan' \in [FileCommands -> Seq(Task)] /\ PlansFit'
    BY <1>14, GoToTypes DEF OpenAccounts, At, Place, Busy, Ended, FileCommands
  <2> QED BY <1>14, <2>1 DEF OpenAccounts, FilesTypeOK, Place, PieceState
<1>15. ASSUME NEW c \in Accounts, WriteAccounts(c) PROVE TypeInv'
  <2>1. pc' \in [FileCommands -> Place] /\ plan' \in [FileCommands -> Seq(Task)] /\ PlansFit'
    BY <1>15, AdvanceTypes DEF WriteAccounts, At, Place, Busy, Ended, FileCommands
  <2>2. piece' \in [Pieces -> PieceState]
    BY <1>15 DEF WriteAccounts, FilesTypeOK, PieceState
  <2>3. keys' \subseteq Accounts
    BY <1>15 DEF WriteAccounts, FilesTypeOK
  <2> QED BY <1>15, <2>1, <2>2, <2>3 DEF WriteAccounts, FilesTypeOK, Place
<1>16. ASSUME NEW c \in FileCommands, Kill(c) PROVE TypeInv'
  <2>1. pc' \in [FileCommands -> Place] /\ plan' \in [FileCommands -> Seq(Task)] /\ PlansFit'
    BY <1>16, GoToTypes DEF Kill, Place, Busy, Ended
  <2>2. kills' \in 0..MaxKills
    BY <1>16, FilesAssumption DEF Kill, FilesTypeOK
  <2>3. pc[c] = "write" /\ Head(plan[c]).do \in {"put", "account"} => Of(c) \in Pieces
    <3>1. plan[c] # <<>>
      BY <1>16 DEF Kill, PlansFit, Busy, Ended
    <3> QED BY <3>1, AtTask DEF At, Pieces
  <2> QED BY <1>16, <2>1, <2>2, <2>3 DEF Kill, FilesTypeOK, Place
<1> QED
  BY <1>1, <1>2, <1>3, <1>4, <1>5, <1>6, <1>7, <1>8, <1>9, <1>10, <1>11, <1>12,
     <1>13, <1>14, <1>15, <1>16 DEF FilesNext, Proceed

\* Every command stays at a place of its own plan, and every file in a state
\* the code can leave it in.
THEOREM FilesTypeCorrect == FilesSpec => []FilesTypeOK
<1>1. FilesSpec => []TypeInv
  BY InitTypes, StepTypes, PTL DEF FilesSpec
<1> QED BY <1>1, PTL DEF TypeInv

-----------------------------------------------------------------------------
(* Accounts.                                                               *)

Asking(d)  == At(d, "account", "ask") \/ At(d, "account", "open")
Writing(d) == At(d, "account", "write")
Putting(d) == At(d, "put", "open") /\ Of(d) = "accounts"
Filling(d) == At(d, "put", "write") /\ Of(d) = "accounts"
On(d)      == Asking(d) \/ Writing(d) \/ Putting(d) \/ Filling(d)

\* One command at a time is busy with the file; what it read is what is
\* there, until it empties the file.
OneWriter == \A d, e \in FileCommands : On(d) /\ On(e) => d = e

FreshCopy == \A d \in Accounts :
    /\ Asking(d) => copy[d] = keys /\ piece["accounts"] # "torn"
    /\ Asking(d) \/ Writing(d) => \A a \in copy[d] : AliasOf[a] # AliasOf[d]

Emptied == \A d \in FileCommands :
    /\ Writing(d) \/ Filling(d) => keys = {} /\ piece["accounts"] = "torn"
    /\ Putting(d) => piece["accounts"] = "absent"

FileWhole ==
    /\ piece["accounts"] = "absent" => keys = {}
    /\ piece["accounts"] = "torn" => \E d \in FileCommands : Writing(d) \/ Filling(d)

Survive == \A a \in Accounts : pc[a] = "done" =>
    \/ piece["accounts"] = "whole" /\ a \in keys
    \/ \E d \in Accounts : Writing(d) /\ a \in copy[d]

Undisturbed == ~mixed /\ "accounts" \notin cut

AccountsInv == Undisturbed => OneWriter /\ FreshCopy /\ Emptied /\ FileWhole /\ Survive

LEMMA OnSet == OnAccounts = {d \in FileCommands : On(d)}
BY DEF OnAccounts, On, Asking, Writing, Putting, Filling

\* A command that stays where it is stays what it is.
LEMMA Stays ==
    ASSUME NEW d, pc'[d] = pc[d], plan'[d] = plan[d]
    PROVE  /\ Asking(d)' <=> Asking(d)
           /\ Writing(d)' <=> Writing(d)
           /\ Putting(d)' <=> Putting(d)
           /\ Filling(d)' <=> Filling(d)
           /\ On(d)' <=> On(d)
BY DEF Asking, Writing, Putting, Filling, On, At, Of

\* The steps that have nothing to do with accounts.json.
LEMMA Elsewhere ==
    ASSUME AccountsInv, NEW c \in FileCommands,
           \A d \in FileCommands \ {c} : pc'[d] = pc[d] /\ plan'[d] = plan[d],
           ~On(c), ~On(c)', pc'[c] = "done" => c \notin Accounts,
           piece'["accounts"] = piece["accounts"], UNCHANGED <<keys, copy>>,
           Undisturbed' => Undisturbed
    PROVE  AccountsInv'
<1> SUFFICES ASSUME Undisturbed' PROVE (OneWriter /\ FreshCopy /\ Emptied /\ FileWhole /\ Survive)'
  BY DEF AccountsInv
<1>0. OneWriter /\ FreshCopy /\ Emptied /\ FileWhole /\ Survive
  BY DEF AccountsInv
<1>1. \A d \in FileCommands : d # c =>
        (Asking(d)' <=> Asking(d)) /\ (Writing(d)' <=> Writing(d)) /\ (Putting(d)' <=> Putting(d))
        /\ (Filling(d)' <=> Filling(d)) /\ (On(d)' <=> On(d))
  BY Stays
<1>2. /\ ~Asking(c) /\ ~Writing(c) /\ ~Putting(c) /\ ~Filling(c)
      /\ ~Asking(c)' /\ ~Writing(c)' /\ ~Putting(c)' /\ ~Filling(c)'
  BY DEF On
<1>3. OneWriter'
  BY <1>0, <1>1 DEF OneWriter
<1>4. FreshCopy'
  BY <1>0, <1>1, <1>2 DEF FreshCopy, FileCommands
<1>5. Emptied'
  BY <1>0, <1>1, <1>2 DEF Emptied
<1>6. FileWhole'
  BY <1>0, <1>1, <1>2 DEF FileWhole
<1>7. Survive'
  BY <1>0, <1>1, <1>2 DEF Survive, FileCommands
<1> QED BY <1>3, <1>4, <1>5, <1>6, <1>7

\* After a step to another task, to the end or to a place before the file
\* is looked at, a command is not busy with it.
LEMMA OffAfter ==
    ASSUME NEW c, pc'[c] \notin {"ask", "open", "write"}
    PROVE  ~On(c)'
BY DEF On, Asking, Writing, Putting, Filling, At

LEMMA OffTask ==
    ASSUME NEW c, NEW do, NEW place, At(c, do, place),
           do \notin {"put", "account"} \/ place = "begin"
    PROVE  ~On(c)
BY DEF On, Asking, Writing, Putting, Filling, At

LEMMA GoToMoves ==
    ASSUME TypeInv, NEW c \in FileCommands, NEW place, GoTo(c, place)
    PROVE  /\ pc'[c] = place /\ plan' = plan
           /\ \A d \in FileCommands \ {c} : pc'[d] = pc[d] /\ plan'[d] = plan[d]
BY DEF TypeInv, FilesTypeOK, GoTo

LEMMA AdvanceMoves ==
    ASSUME TypeInv, NEW c \in FileCommands, Advance(c)
    PROVE  /\ pc'[c] \in {"done", "begin"}
           /\ \A d \in FileCommands \ {c} : pc'[d] = pc[d] /\ plan'[d] = plan[d]
BY DEF TypeInv, FilesTypeOK, Advance

\* Nobody is busy with the file when somebody comes to it unseen.
LEMMA Alone ==
    ASSUME NEW c \in FileCommands, (mixed \/ OnAccounts # {}) => mixed', Undisturbed'
    PROVE  \A d \in FileCommands : ~On(d)
BY OnSet DEF Undisturbed

LEMMA InitAccounts == FilesInit => AccountsInv
<1> SUFFICES ASSUME FilesInit PROVE OneWriter /\ FreshCopy /\ Emptied /\ FileWhole /\ Survive
  BY DEF AccountsInv
<1>1. \A d \in FileCommands : pc[d] = "idle"
  BY DEF FilesInit
<1>2. \A d \in FileCommands : ~On(d)
  BY <1>1 DEF On, Asking, Writing, Putting, Filling, At
<1>3. piece["accounts"] # "torn" /\ keys = {}
  BY DEF FilesInit, Pieces
<1> QED BY <1>1, <1>2, <1>3 DEF OneWriter, FreshCopy, Emptied, FileWhole, Survive, On, FileCommands

LEMMA LookAccounts ==
    ASSUME TypeInv, AccountsInv, NEW c \in FileCommands, Look(c) PROVE AccountsInv'
<1>0. /\ \A d \in FileCommands \ {c} : pc'[d] = pc[d] /\ plan'[d] = plan[d]
      /\ pc'[c] \in {"done", "begin", "open"}
      /\ Exists(Of(c)) => pc'[c] \in {"done", "begin"}
      /\ ~Exists(Of(c)) => pc'[c] = "open" /\ plan'[c] = plan[c]
  BY GoToMoves, AdvanceMoves DEF Look
<1>1. c \notin Accounts /\ ~On(c) /\ UNCHANGED <<piece, keys, copy, cut>> /\ (mixed => mixed')
  BY AtTask, OffTask, FilesAssumption DEF Look
<1>2. CASE Exists(Of(c)) \/ Of(c) # "accounts"
  <2>1. ~On(c)'
    <3>1. CASE Exists(Of(c))
      BY <3>1, <1>0, OffAfter
    <3>2. CASE ~Exists(Of(c)) /\ Of(c) # "accounts"
      BY <3>2, <1>0 DEF Look, On, Asking, Writing, Putting, Filling, At, Of
    <3> QED BY <1>2, <3>1, <3>2
  <2> QED BY <1>0, <1>1, <2>1, Elsewhere DEF Undisturbed
<1>3. CASE ~Exists(Of(c)) /\ Of(c) = "accounts"
  <2> SUFFICES ASSUME Undisturbed' PROVE (OneWriter /\ FreshCopy /\ Emptied /\ FileWhole /\ Survive)'
    BY DEF AccountsInv
  <2>1. OneWriter /\ FreshCopy /\ Emptied /\ FileWhole /\ Survive
    BY <1>1 DEF AccountsInv, Undisturbed
  <2>2. \A d \in FileCommands : ~On(d)
    BY <1>3, Alone DEF Look
  <2>3. /\ Putting(c)' /\ ~Asking(c)' /\ ~Writing(c)' /\ ~Filling(c)'
    BY <1>0, <1>3 DEF Look, Asking, Writing, Putting, Filling, At, Of
  <2>4. \A d \in FileCommands : d # c => ~On(d)'
    BY <1>0, <2>2, Stays
  <2>5. piece'["accounts"] = "absent" /\ keys' = {}
    BY <1>1, <1>3, <2>1 DEF Exists, FileWhole
  <2>6. OneWriter' /\ FreshCopy' /\ Emptied' /\ FileWhole'
    BY <2>3, <2>4, <2>5 DEF OneWriter, FreshCopy, Emptied, FileWhole, On, FileCommands
  <2>7. Survive'
    <3>1. \A a \in Accounts : pc[a] # "done"
      BY <1>1, <2>1, <2>2, <2>5 DEF Survive, On, FileCommands
    <3> QED BY <1>0, <1>1, <3>1 DEF Survive, FileCommands
  <2> QED BY <2>6, <2>7
<1> QED BY <1>2, <1>3

\* init's other steps: on another piece, or on the accounts while nobody
\* else is.
LEMMA PieceAccounts ==
    ASSUME TypeInv, AccountsInv, NEW c \in FileCommands,
           MakePiece(c) \/ OpenPiece(c) \/ WritePiece(c)
    PROVE  AccountsInv'
<1>0. /\ \A d \in FileCommands \ {c} : pc'[d] = pc[d] /\ plan'[d] = plan[d]
      /\ MakePiece(c) \/ WritePiece(c) => pc'[c] \in {"done", "begin", "failed"}
      /\ OpenPiece(c) => pc'[c] = "write" /\ plan'[c] = plan[c]
  BY GoToMoves, AdvanceMoves DEF MakePiece, OpenPiece, WritePiece, Fails
<1>1. c \notin Accounts /\ UNCHANGED <<copy, mixed, cut>>
  BY AtTask, FilesAssumption DEF MakePiece, OpenPiece, WritePiece
<1>2. CASE Of(c) # "accounts"
  <2>1. ~On(c)
    BY <1>2, AtTask DEF On, Asking, Writing, Putting, Filling, MakePiece, OpenPiece, WritePiece, At
  <2>2. ~On(c)'
    <3>1. CASE MakePiece(c) \/ WritePiece(c)
      BY <3>1, <1>0, OffAfter
    <3>2. CASE OpenPiece(c)
      BY <3>2, <1>0, <1>2 DEF OpenPiece, On, Asking, Writing, Putting, Filling, At, Of
    <3> QED BY <3>1, <3>2
  <2>3. piece'["accounts"] = piece["accounts"] /\ keys' = keys
    BY <1>2 DEF MakePiece, OpenPiece, WritePiece, TypeInv, FilesTypeOK, Pieces
  <2> QED BY <1>0, <1>1, <2>1, <2>2, <2>3, Elsewhere DEF Undisturbed
<1>3. CASE Of(c) = "accounts"
  <2> SUFFICES ASSUME Undisturbed' PROVE (OneWriter /\ FreshCopy /\ Emptied /\ FileWhole /\ Survive)'
    BY DEF AccountsInv
  <2>1. OneWriter /\ FreshCopy /\ Emptied /\ FileWhole /\ Survive
    BY <1>1 DEF AccountsInv, Undisturbed
  <2>2. ~MakePiece(c)
    BY <1>3 DEF MakePiece, Dirs
  <2>3. On(c) /\ (OpenPiece(c) => Putting(c)) /\ (WritePiece(c) => Filling(c))
        /\ ~Writing(c) /\ ~Asking(c)
    BY <1>3, <2>2 DEF OpenPiece, WritePiece, On, Asking, Writing, Putting, Filling, At
  <2>4. \A d \in FileCommands : d # c => ~On(d) /\ ~On(d)'
    BY <1>0, <2>1, <2>3, Stays DEF OneWriter
  <2>5. \A a \in Accounts : pc[a] # "done" /\ pc'[a] # "done"
    <3>1. piece["accounts"] # "whole"
      BY <2>1, <2>2, <2>3 DEF Emptied
    <3>2. \A d \in FileCommands : ~Writing(d)
      BY <2>3, <2>4 DEF On
    <3>3. \A a \in Accounts : pc[a] # "done"
      BY <2>1, <3>1, <3>2 DEF Survive, FileCommands
    <3> QED BY <1>0, <1>1, <3>3 DEF FileCommands
  <2>6. keys' = {}
    BY <1>3, <2>2 DEF OpenPiece, WritePiece
  <2>7. CASE OpenPiece(c)
    <3>1. piece'["accounts"] = "torn" /\ Filling(c)' /\ ~Asking(c)' /\ ~Writing(c)' /\ ~Putting(c)'
      BY <2>7, <1>0, <1>3 DEF OpenPiece, TypeInv, FilesTypeOK, Pieces, Filling, Asking,
         Writing, Putting, At, Of
    <3> QED BY <2>4, <2>5, <2>6, <3>1
            DEF OneWriter, FreshCopy, Emptied, FileWhole, Survive, On, FileCommands
  <2>8. CASE WritePiece(c)
    <3>1. piece'["accounts"] = "whole" /\ ~On(c)'
      BY <2>8, <1>0, <1>3, OffAfter DEF WritePiece, TypeInv, FilesTypeOK, Pieces
    <3> QED BY <2>4, <2>5, <2>6, <3>1
            DEF OneWriter, FreshCopy, Emptied, FileWhole, Survive, On, FileCommands
  <2> QED BY <2>2, <2>7, <2>8
<1> QED BY <1>2, <1>3

LEMMA ContractAccounts ==
    ASSUME TypeInv, AccountsInv, NEW c \in FileCommands,
           CheckComponent(c) \/ MakeDirectory(c) \/ OpenFile(c) \/ WriteFile(c) \/ ReadFile(c)
    PROVE  AccountsInv'
<1>0. \A d \in FileCommands \ {c} : pc'[d] = pc[d] /\ plan'[d] = plan[d]
  BY GoToMoves, AdvanceMoves
     DEF CheckComponent, MakeDirectory, OpenFile, WriteFile, ReadFile, Fails
<1>1. c \notin Accounts /\ UNCHANGED <<copy, keys, mixed, cut>>
  BY AtTask DEF CheckComponent, MakeDirectory, OpenFile, WriteFile, ReadFile
<1>2. ~On(c)
  BY OffTask DEF CheckComponent, MakeDirectory, OpenFile, WriteFile, ReadFile
<1>3. ~On(c)'
  <2>1. CASE CheckComponent(c) \/ MakeDirectory(c) \/ WriteFile(c)
    BY <2>1, GoToMoves, AdvanceMoves, OffAfter DEF CheckComponent, MakeDirectory, WriteFile, Fails
  <2>2. CASE OpenFile(c) \/ ReadFile(c)
    BY <2>2, GoToMoves DEF OpenFile, ReadFile, On, Asking, Writing, Putting, Filling, At
  <2> QED BY <2>1, <2>2
<1>4. piece'["accounts"] = piece["accounts"]
  <2>1. MakeDirectory(c) => Of(c) \in Dirs
    BY AtTask DEF MakeDirectory
  <2> QED BY <2>1 DEF CheckComponent, MakeDirectory, OpenFile, WriteFile, ReadFile,
                      TypeInv, FilesTypeOK, Pieces, Dirs
<1> QED BY <1>0, <1>1, <1>2, <1>3, <1>4, Elsewhere DEF Undisturbed

LEMMA StartAccounts ==
    ASSUME TypeInv, AccountsInv, NEW c \in FileCommands, Start(c) PROVE AccountsInv'
<1>1. /\ \A d \in FileCommands \ {c} : pc'[d] = pc[d] /\ plan'[d] = plan[d]
      /\ pc'[c] \in {"begin", "failed"}
      /\ ~On(c)
  BY GoToMoves DEF Start, Fails, On, Asking, Writing, Putting, Filling, At
<1>2. ~On(c)'
  BY <1>1, OffAfter
<1> QED BY <1>1, <1>2, Elsewhere DEF Start, Undisturbed

\* A killed command leaves the file torn only while it writes it.
LEMMA KillAccounts ==
    ASSUME TypeInv, AccountsInv, NEW c \in FileCommands, Kill(c) PROVE AccountsInv'
<1> SUFFICES ASSUME Undisturbed' PROVE (OneWriter /\ FreshCopy /\ Emptied /\ FileWhole /\ Survive)'
  BY DEF AccountsInv
<1>0. /\ \A d \in FileCommands \ {c} : pc'[d] = pc[d] /\ plan'[d] = plan[d]
      /\ pc'[c] = "killed"
      /\ UNCHANGED <<piece, keys, copy>>
  BY GoToMoves DEF Kill
<1>1. OneWriter /\ FreshCopy /\ Emptied /\ FileWhole /\ Survive
  BY DEF Kill, AccountsInv, Undisturbed
<1>2. ~Writing(c) /\ ~Filling(c)
  <2>1. ASSUME Writing(c) \/ Filling(c) PROVE "accounts" \in cut'
    <3>1. Of(c) = "accounts"
      BY <2>1, AtTask DEF Writing, Filling
    <3> QED BY <2>1, <3>1 DEF Kill, Writing, Filling, At
  <2> QED BY <2>1 DEF Undisturbed
<1>3. ~On(c)'
  BY <1>0, OffAfter
<1>4. \A d \in FileCommands : d # c =>
        (Asking(d)' <=> Asking(d)) /\ (Writing(d)' <=> Writing(d)) /\ (Putting(d)' <=> Putting(d))
        /\ (Filling(d)' <=> Filling(d)) /\ (On(d)' <=> On(d))
  BY <1>0, Stays
<1>5. ~Asking(c)' /\ ~Writing(c)' /\ ~Putting(c)' /\ ~Filling(c)'
  BY <1>3 DEF On
<1>6. OneWriter'
  BY <1>1, <1>3, <1>4 DEF OneWriter
<1>7. FreshCopy'
  BY <1>0, <1>1, <1>4, <1>5 DEF FreshCopy, FileCommands
<1>8. Emptied'
  BY <1>0, <1>1, <1>4, <1>5 DEF Emptied
<1>9. FileWhole'
  BY <1>0, <1>1, <1>2, <1>4 DEF FileWhole
<1>10. Survive'
  BY <1>0, <1>1, <1>2, <1>4 DEF Survive, FileCommands
<1> QED BY <1>6, <1>7, <1>8, <1>9, <1>10

LEMMA LoadAccounts ==
    ASSUME TypeInv, AccountsInv, NEW c \in Accounts, Load(c) PROVE AccountsInv'
<1>0. /\ \A d \in FileCommands \ {c} : pc'[d] = pc[d] /\ plan'[d] = plan[d]
      /\ plan'[c] = plan[c]
      /\ pc'[c] \in {"failed", "ask"}
      /\ pc'[c] = "ask" => piece["accounts"] # "torn" /\ ~Taken(c)
  BY GoToMoves DEF Load, Fails, FileCommands
<1> SUFFICES ASSUME Undisturbed' PROVE (OneWriter /\ FreshCopy /\ Emptied /\ FileWhole /\ Survive)'
  BY DEF AccountsInv
<1>1. OneWriter /\ FreshCopy /\ Emptied /\ FileWhole /\ Survive
  BY DEF Load, AccountsInv, Undisturbed
<1>2. \A d \in FileCommands : ~On(d)
  BY Alone DEF Load, FileCommands
<1>3. \A d \in FileCommands : d # c => ~On(d)'
  BY <1>0, <1>2, Stays
<1>4. ~Writing(c)' /\ ~Putting(c)' /\ ~Filling(c)'
  BY <1>0 DEF Load, Writing, Putting, Filling, At
<1>5. copy'[c] = keys /\ UNCHANGED <<piece, keys>>
  BY DEF Load, TypeInv, FilesTypeOK
<1>6. Asking(c)' => /\ piece["accounts"] # "torn"
                    /\ \A a \in keys : AliasOf[a] # AliasOf[c]
  BY <1>0 DEF Asking, At, Taken
<1>7. OneWriter'
  BY <1>3 DEF OneWriter
<1>8. FreshCopy'
  BY <1>3, <1>4, <1>5, <1>6 DEF FreshCopy, On, FileCommands
<1>9. Emptied'
  BY <1>3, <1>4 DEF Emptied, On
<1>10. FileWhole'
  BY <1>1, <1>2, <1>5 DEF FileWhole, On
<1>11. Survive'
  BY <1>0, <1>1, <1>2, <1>5 DEF Survive, On, FileCommands
<1> QED BY <1>7, <1>8, <1>9, <1>10, <1>11

LEMMA AnswerAccounts ==
    ASSUME TypeInv, AccountsInv, NEW c \in FileCommands, Answer(c) PROVE AccountsInv'
<1>0. /\ \A d \in FileCommands \ {c} : pc'[d] = pc[d] /\ plan'[d] = plan[d]
      /\ plan'[c] = plan[c] /\ pc'[c] = "open"
      /\ UNCHANGED <<piece, keys, copy, mixed, cut>>
  BY GoToMoves DEF Answer
<1>1. /\ Asking(c) /\ Asking(c)'
      /\ ~Writing(c) /\ ~Putting(c) /\ ~Filling(c)
      /\ ~Writing(c)' /\ ~Putting(c)' /\ ~Filling(c)'
  BY <1>0 DEF Answer, Asking, Writing, Putting, Filling, At
<1>2. \A d \in FileCommands :
        (Asking(d)' <=> Asking(d)) /\ (Writing(d)' <=> Writing(d)) /\ (Putting(d)' <=> Putting(d))
        /\ (Filling(d)' <=> Filling(d)) /\ (On(d)' <=> On(d))
  BY <1>0, <1>1, Stays DEF On
<1> SUFFICES ASSUME Undisturbed' PROVE (OneWriter /\ FreshCopy /\ Emptied /\ FileWhole /\ Survive)'
  BY DEF AccountsInv
<1>3. OneWriter /\ FreshCopy /\ Emptied /\ FileWhole /\ Survive
  BY <1>0 DEF AccountsInv, Undisturbed
<1>4. OneWriter'
  BY <1>2, <1>3 DEF OneWriter
<1>5. FreshCopy'
  BY <1>0, <1>2, <1>3 DEF FreshCopy, FileCommands
<1>6. Emptied'
  BY <1>0, <1>2, <1>3 DEF Emptied
<1>7. FileWhole'
  BY <1>0, <1>2, <1>3 DEF FileWhole
<1>8. Survive'
  BY <1>0, <1>2, <1>3 DEF Survive, FileCommands
<1> QED BY <1>4, <1>5, <1>6, <1>7, <1>8

LEMMA SaveAccounts ==
    ASSUME TypeInv, AccountsInv, NEW c \in Accounts, OpenAccounts(c) \/ WriteAccounts(c)
    PROVE  AccountsInv'
<1>0. /\ \A d \in FileCommands \ {c} : pc'[d] = pc[d] /\ plan'[d] = plan[d]
      /\ OpenAccounts(c) => pc'[c] = "write" /\ plan'[c] = plan[c]
      /\ WriteAccounts(c) => pc'[c] \in {"done", "begin"}
      /\ UNCHANGED <<copy, mixed, cut>> /\ c \in FileCommands
  BY GoToMoves, AdvanceMoves DEF OpenAccounts, WriteAccounts, FileCommands
<1> SUFFICES ASSUME Undisturbed' PROVE (OneWriter /\ FreshCopy /\ Emptied /\ FileWhole /\ Survive)'
  BY DEF AccountsInv
<1>1. OneWriter /\ FreshCopy /\ Emptied /\ FileWhole /\ Survive
  BY <1>0 DEF AccountsInv, Undisturbed
<1>2. /\ On(c) /\ ~Putting(c) /\ ~Filling(c)
      /\ OpenAccounts(c) => Asking(c) /\ ~Writing(c)
      /\ WriteAccounts(c) => Writing(c) /\ ~Asking(c)
  BY DEF OpenAccounts, WriteAccounts, On, Asking, Writing, Putting, Filling, At
<1>3. \A d \in FileCommands : d # c => ~On(d) /\ ~On(d)'
  BY <1>0, <1>1, <1>2, Stays DEF OneWriter
<1>4. \A a \in copy[c] : AliasOf[a] # AliasOf[c]
  BY <1>1, <1>2 DEF FreshCopy
<1>5. CASE OpenAccounts(c)
  <2>1. /\ Writing(c)' /\ ~Asking(c)' /\ ~Putting(c)' /\ ~Filling(c)'
        /\ piece'["accounts"] = "torn" /\ keys' = {}
    BY <1>0, <1>5 DEF OpenAccounts, Asking, Writing, Putting, Filling, At,
       TypeInv, FilesTypeOK, Pieces
  <2>2. \A a \in Accounts : pc'[a] = "done" => a \in copy[c]
    BY <1>0, <1>1, <1>2, <1>3, <1>5 DEF Survive, FreshCopy, On, FileCommands
  <2>3. FreshCopy'
    BY <1>0, <1>3, <1>4, <2>1 DEF FreshCopy, On, FileCommands
  <2>4. OneWriter' /\ Emptied' /\ FileWhole'
    BY <1>0, <1>3, <2>1 DEF OneWriter, Emptied, FileWhole, On
  <2>5. Survive'
    BY <1>0, <2>1, <2>2 DEF Survive
  <2> QED BY <2>3, <2>4, <2>5
<1>6. CASE WriteAccounts(c)
  <2>1. ~On(c)'
    BY <1>0, <1>6, OffAfter
  <2>2. keys = {} /\ piece["accounts"] = "torn"
    BY <1>0, <1>1, <1>2, <1>6 DEF Emptied
  <2>3. piece'["accounts"] = "whole"
    BY <1>6, <2>2 DEF WriteAccounts, TypeInv, FilesTypeOK, Pieces
  <2>4. keys' = copy[c] \cup {c}
    BY <1>4, <1>6 DEF WriteAccounts, TypeInv, FilesTypeOK
  <2>5. \A a \in Accounts : pc'[a] = "done" => a \in keys'
    <3>1. \A a \in Accounts : a # c /\ pc'[a] = "done" => a \in copy[c]
      BY <1>0, <1>1, <1>3, <2>2 DEF Survive, On, FileCommands
    <3> QED BY <2>4, <3>1
  <2>6. OneWriter' /\ FreshCopy' /\ Emptied' /\ FileWhole'
    BY <1>3, <2>1, <2>3 DEF OneWriter, FreshCopy, Emptied, FileWhole, On, FileCommands
  <2>7. Survive'
    BY <2>3, <2>5 DEF Survive
  <2> QED BY <2>6, <2>7
<1> QED BY <1>5, <1>6

LEMMA StepAccounts == TypeInv /\ AccountsInv /\ [FilesNext]_fvars => AccountsInv'
<1> SUFFICES ASSUME TypeInv, AccountsInv, [FilesNext]_fvars PROVE AccountsInv'
  OBVIOUS
<1>1. CASE UNCHANGED fvars
  BY <1>1 DEF fvars, AccountsInv, Undisturbed, OneWriter, FreshCopy, Emptied, FileWhole, Survive,
     On, Asking, Writing, Putting, Filling, At, Of
<1>2. CASE FilesNext
  BY <1>2, StartAccounts, LookAccounts, PieceAccounts, ContractAccounts, LoadAccounts,
     SaveAccounts, AnswerAccounts, KillAccounts DEF FilesNext, Proceed
<1> QED BY <1>1, <1>2

\* An account is lost only by commands that were busy with accounts.json at
\* the same time, or one killed while writing it; for any number of commands.
THEOREM AccountsSurviving == FilesSpec => []AccountsSurvive
<1>1. AccountsInv => AccountsSurvive
  BY DEF AccountsInv, Undisturbed, Survive, AccountsSurvive, Writing
<1>2. FilesSpec => [](TypeInv /\ AccountsInv)
  BY InitTypes, StepTypes, InitAccounts, StepAccounts, PTL DEF FilesSpec
<1> QED BY <1>1, <1>2, PTL

-----------------------------------------------------------------------------
(* accounts.json as a file of records.                                     *)

Shown == IF piece["accounts"] = "whole" THEN keys ELSE {}
Saved == {a \in Accounts : pc[a] = "done"}

\* A step that shows the same accounts, with the same commands writing from
\* the same copies, keeps what is stored.
LEMMA StoredStays ==
    ASSUME Shown' = Shown,
           \A d \in Accounts : Writing(d)' <=> Writing(d),
           \A d \in Accounts : Writing(d) => copy'[d] = copy[d]
    PROVE  Stored' = Stored
<1> DEFINE W == {d \in Accounts : Writing(d)}
<1>1. W' = W
  OBVIOUS
<1>2. {copy'[d] : d \in W} = {copy[d] : d \in W}
  OBVIOUS
<1>3. Stored = Shown \cup UNION {copy[d] : d \in W}
  BY DEF Stored, Shown, Writing
<1>4. Stored' = Shown' \cup UNION {copy'[d] : d \in W'}
  BY DEF Stored, Shown, Writing
<1> QED BY <1>1, <1>2, <1>3, <1>4

\* The steps of a command that is not writing accounts.json, and does not come
\* to its end with it.
LEMMA SavedElsewhere ==
    ASSUME NEW c \in FileCommands,
           \A d \in FileCommands \ {c} : pc'[d] = pc[d] /\ plan'[d] = plan[d],
           ~Writing(c), ~Writing(c)', c \in Accounts => pc[c] # "done" /\ pc'[c] # "done",
           Shown' = Shown, \A d \in Accounts : d # c => copy'[d] = copy[d]
    PROVE  Stored' = Stored /\ Saved' = Saved
<1>1. \A d \in Accounts : d # c => (Writing(d)' <=> Writing(d)) /\ pc'[d] = pc[d]
  BY Stays DEF FileCommands
<1>2. \A d \in Accounts : Writing(d)' <=> Writing(d)
  BY <1>1
<1>3. \A d \in Accounts : Writing(d) => copy'[d] = copy[d]
  OBVIOUS
<1>4. Stored' = Stored
  BY <1>2, <1>3, StoredStays
<1>5. Saved' = Saved
  BY <1>1 DEF Saved
<1> QED BY <1>4, <1>5

\* An undisturbed save.
LEMMA SaveStored ==
    ASSUME TypeInv, AccountsInv, Undisturbed, NEW c \in Accounts,
           OpenAccounts(c) \/ WriteAccounts(c)
    PROVE  AccountsFile!Next \/ (Stored' = Stored /\ Saved' = Saved)
<1>0. /\ \A d \in FileCommands \ {c} : pc'[d] = pc[d] /\ plan'[d] = plan[d]
      /\ OpenAccounts(c) => pc'[c] = "write" /\ plan'[c] = plan[c]
      /\ UNCHANGED <<copy, mixed, cut>> /\ c \in FileCommands
  BY GoToMoves, AdvanceMoves DEF OpenAccounts, WriteAccounts, FileCommands
<1>1. OneWriter /\ FreshCopy /\ Emptied /\ FileWhole
  BY DEF AccountsInv
<1>2. On(c) /\ (OpenAccounts(c) => Asking(c) /\ ~Writing(c)) /\ (WriteAccounts(c) => Writing(c))
  BY DEF OpenAccounts, WriteAccounts, On, Asking, Writing, At
<1>3. \A d \in Accounts : d # c => ~Writing(d) /\ ~Writing(d)' /\ pc'[d] = pc[d]
  BY <1>0, <1>1, <1>2, Stays DEF OneWriter, On, FileCommands
<1> DEFINE W == {d \in Accounts : Writing(d)}
<1>4. Stored = Shown \cup UNION {copy[d] : d \in W} /\ Stored' = Shown' \cup UNION {copy'[d] : d \in W'}
  BY DEF Stored, Shown, Writing
<1>5. {copy[d] : d \in {c}} = {copy[c]} /\ {copy'[d] : d \in {c}} = {copy[c]}
  BY <1>0
<1>6. CASE OpenAccounts(c)
  <2>1. Writing(c)' /\ piece'["accounts"] = "torn" /\ pc[c] # "done" /\ pc'[c] # "done"
    BY <1>0, <1>6 DEF OpenAccounts, Writing, At, TypeInv, FilesTypeOK, Pieces
  <2>2. W = {} /\ W' = {c}
    BY <1>2, <1>3, <1>6, <2>1
  <2>3. Shown = keys /\ Shown' = {} /\ copy[c] = keys
    <3>1. copy[c] = keys /\ piece["accounts"] # "torn"
      BY <1>1, <1>2, <1>6 DEF FreshCopy
    <3>2. piece["accounts"] \in PieceState
      BY DEF TypeInv, FilesTypeOK, Pieces
    <3> QED BY <1>1, <2>1, <3>1, <3>2 DEF Shown, FileWhole, PieceState
  <2>4. Stored = keys /\ Stored' = keys
    BY <1>4, <1>5, <2>2, <2>3
  <2>5. Saved' = Saved
    BY <1>3, <2>1 DEF Saved
  <2> QED BY <2>4, <2>5
<1>7. CASE WriteAccounts(c)
  <2>1. pc'[c] = "done"
    <3>1. Fits(c, plan[c]) /\ plan[c] # <<>>
      BY <1>0, <1>7 DEF TypeInv, PlansFit, WriteAccounts, At
    <3> DEFINE left == Len(plan[c])
    <3>2. left \in Nat \ {0} /\ left <= 1
      BY <3>1, TailFits DEF Fits
    <3> HIDE DEF left
    <3>3. left = 1
      BY <3>2
    <3> QED BY <1>0, <1>7, <3>3 DEF left, WriteAccounts, Advance, TypeInv, FilesTypeOK
  <2>2. ~Writing(c)'
    BY <2>1 DEF Writing, At
  <2>3. W = {c} /\ W' = {}
    BY <1>2, <1>3, <1>7, <2>2
  <2>4. keys = {} /\ piece["accounts"] = "torn" /\ \A a \in copy[c] : AliasOf[a] # AliasOf[c]
    BY <1>0, <1>1, <1>2, <1>7 DEF Emptied, FreshCopy
  <2>5. piece'["accounts"] = "whole" /\ keys' = copy[c] \cup {c}
    BY <1>7, <2>4 DEF WriteAccounts, TypeInv, FilesTypeOK, Pieces
  <2>6. Stored = copy[c] /\ Stored' = copy[c] \cup {c}
    BY <1>4, <1>5, <2>3, <2>4, <2>5 DEF Shown
  <2>7. Saved' = Saved \cup {c}
    BY <1>3, <2>1 DEF Saved
  <2>8. (mixed \/ "accounts" \in cut) = FALSE /\ (mixed \/ "accounts" \in cut)' = FALSE
    BY <1>0 DEF Undisturbed
  <2>9. AccountsFile!Save(c) /\ c \in Stored'
    BY <2>6, <2>7, <2>8 DEF AccountsFile!Save, Saved
  <2> QED BY <2>9 DEF AccountsFile!Next
<1> QED BY <1>6, <1>7

\* init's template is put where no account is.
LEMMA PieceStored ==
    ASSUME TypeInv, AccountsInv, Undisturbed, NEW c \in FileCommands,
           MakePiece(c) \/ OpenPiece(c) \/ WritePiece(c)
    PROVE  Stored' = Stored /\ Saved' = Saved
<1>0. \A d \in FileCommands \ {c} : pc'[d] = pc[d] /\ plan'[d] = plan[d]
  BY GoToMoves, AdvanceMoves DEF MakePiece, OpenPiece, WritePiece, Fails
<1>1. c \notin Accounts /\ UNCHANGED copy
  BY AtTask, FilesAssumption DEF MakePiece, OpenPiece, WritePiece
<1>2. Shown' = Shown
  <2>1. CASE Of(c) # "accounts"
    BY <2>1 DEF MakePiece, OpenPiece, WritePiece, TypeInv, FilesTypeOK, Pieces, Shown
  <2>2. CASE Of(c) = "accounts"
    <3>1. (OpenPiece(c) /\ Putting(c)) \/ (WritePiece(c) /\ Filling(c))
      BY <2>2 DEF MakePiece, Dirs, OpenPiece, WritePiece, Putting, Filling
    <3>2. piece["accounts"] # "whole"
      BY <3>1 DEF AccountsInv, Emptied
    <3>3. keys' = {}
      BY <2>2, <3>1 DEF OpenPiece, WritePiece
    <3> QED BY <3>2, <3>3 DEF Shown
  <2> QED BY <2>1, <2>2
<1>3. \A d \in Accounts : d \in FileCommands /\ d # c
  BY <1>1 DEF FileCommands
<1>4. \A d \in Accounts : (Writing(d)' <=> Writing(d)) /\ pc'[d] = pc[d]
  BY <1>0, <1>3, Stays
<1>5. Stored' = Stored
  BY <1>1, <1>2, <1>4, StoredStays
<1>6. Saved' = Saved
  BY <1>4 DEF Saved
<1> QED BY <1>5, <1>6

LEMMA StepStored ==
    ASSUME TypeInv, AccountsInv, [FilesNext]_fvars, Undisturbed'
    PROVE  Undisturbed /\ (AccountsFile!Next \/ (Stored' = Stored /\ Saved' = Saved))
<1> DEFINE Calm == AccountsFile!Next \/ (Stored' = Stored /\ Saved' = Saved)
<1>1. ASSUME UNCHANGED fvars PROVE Undisturbed /\ Calm
  <2>1. Undisturbed
    BY <1>1 DEF fvars, Undisturbed
  <2>2. Stored' = Stored /\ Saved' = Saved
    BY <1>1, Zenon DEF fvars, Stored, Saved, At
  <2> QED BY <2>1, <2>2
<1>2. ASSUME NEW c \in FileCommands, Start(c) \/ Answer(c) PROVE Undisturbed /\ Calm
  <2>1. /\ \A d \in FileCommands \ {c} : pc'[d] = pc[d] /\ plan'[d] = plan[d]
        /\ pc[c] # "done" /\ pc[c] # "write" /\ pc'[c] \in {"begin", "failed", "open"}
        /\ UNCHANGED <<copy, piece, keys, mixed, cut>>
    BY <1>2, GoToMoves DEF Start, Answer, Fails, At
  <2>2. ~Writing(c) /\ ~Writing(c)' /\ Shown' = Shown
    BY <2>1 DEF Writing, At, Shown
  <2>3. Undisturbed
    BY <2>1 DEF Undisturbed
  <2> QED BY <2>1, <2>2, <2>3, SavedElsewhere
<1>3. ASSUME NEW c \in FileCommands, Look(c) PROVE Undisturbed /\ Calm
  <2>1. /\ \A d \in FileCommands \ {c} : pc'[d] = pc[d] /\ plan'[d] = plan[d]
        /\ pc'[c] \in {"done", "begin", "open"}
        /\ c \notin Accounts /\ UNCHANGED <<piece, keys, copy, cut>> /\ (mixed => mixed')
    BY <1>3, GoToMoves, AdvanceMoves, AtTask, FilesAssumption DEF Look
  <2>2. ~Writing(c) /\ ~Writing(c)' /\ Shown' = Shown
    BY <1>3, <2>1 DEF Look, Writing, At, Shown
  <2>3. Undisturbed
    BY <2>1 DEF Undisturbed
  <2> QED BY <2>1, <2>2, <2>3, SavedElsewhere
<1>4. ASSUME NEW c \in FileCommands, MakePiece(c) \/ OpenPiece(c) \/ WritePiece(c)
      PROVE  Undisturbed /\ Calm
  <2>1. Undisturbed
    BY <1>4 DEF MakePiece, OpenPiece, WritePiece, Undisturbed
  <2> QED BY <1>4, <2>1, PieceStored
<1>5. ASSUME NEW c \in FileCommands,
             CheckComponent(c) \/ MakeDirectory(c) \/ OpenFile(c) \/ WriteFile(c) \/ ReadFile(c)
      PROVE  Undisturbed /\ Calm
  <2>1. \A d \in FileCommands \ {c} : pc'[d] = pc[d] /\ plan'[d] = plan[d]
    BY <1>5, GoToMoves, AdvanceMoves
       DEF CheckComponent, MakeDirectory, OpenFile, WriteFile, ReadFile, Fails
  <2>2. c \notin Accounts /\ UNCHANGED <<copy, keys, mixed, cut>>
    BY <1>5, AtTask DEF CheckComponent, MakeDirectory, OpenFile, WriteFile, ReadFile
  <2>3. piece'["accounts"] = piece["accounts"]
    <3>1. MakeDirectory(c) => Of(c) \in Dirs
      BY AtTask DEF MakeDirectory
    <3> QED BY <1>5, <3>1 DEF CheckComponent, MakeDirectory, OpenFile, WriteFile, ReadFile,
                              TypeInv, FilesTypeOK, Pieces, Dirs
  <2>4. \A d \in Accounts : d \in FileCommands /\ d # c
    BY <2>2 DEF FileCommands
  <2>5. \A d \in Accounts : (Writing(d)' <=> Writing(d)) /\ pc'[d] = pc[d]
    BY <2>1, <2>4, Stays
  <2>6. Stored' = Stored
    BY <2>2, <2>3, <2>5, StoredStays DEF Shown
  <2>7. Saved' = Saved
    BY <2>5 DEF Saved
  <2>8. Undisturbed
    BY <2>2 DEF Undisturbed
  <2> QED BY <2>6, <2>7, <2>8
<1>6. ASSUME NEW c \in Accounts, Load(c) PROVE Undisturbed /\ Calm
  <2>1. /\ \A d \in FileCommands \ {c} : pc'[d] = pc[d] /\ plan'[d] = plan[d]
        /\ pc[c] = "begin" /\ pc'[c] \in {"failed", "ask"} /\ c \in FileCommands
        /\ UNCHANGED <<piece, keys, cut>> /\ (mixed => mixed')
        /\ \A d \in Accounts : d # c => copy'[d] = copy[d]
    BY <1>6, GoToMoves DEF Load, Fails, FileCommands, At, TypeInv, FilesTypeOK
  <2>2. ~Writing(c) /\ ~Writing(c)' /\ Shown' = Shown
    BY <2>1 DEF Writing, At, Shown
  <2>3. Undisturbed
    BY <2>1 DEF Undisturbed
  <2> QED BY <2>1, <2>2, <2>3, SavedElsewhere
<1>7. ASSUME NEW c \in Accounts, OpenAccounts(c) \/ WriteAccounts(c) PROVE Undisturbed /\ Calm
  <2>1. Undisturbed
    BY <1>7 DEF OpenAccounts, WriteAccounts, Undisturbed
  <2> QED BY <1>7, <2>1, SaveStored
<1>8. ASSUME NEW c \in FileCommands, Kill(c) PROVE Undisturbed /\ Calm
  <2>1. /\ \A d \in FileCommands \ {c} : pc'[d] = pc[d] /\ plan'[d] = plan[d]
        /\ pc[c] # "done" /\ pc'[c] = "killed"
        /\ UNCHANGED <<copy, piece, keys, mixed>> /\ cut \subseteq cut'
    BY <1>8, GoToMoves DEF Kill, Busy
  <2>2. ~Writing(c)
    <3>1. ASSUME Writing(c) PROVE "accounts" \in cut'
      <4>1. Of(c) = "accounts"
        BY <3>1, AtTask DEF Writing
      <4> QED BY <1>8, <3>1, <4>1 DEF Kill, Writing, At
    <3> QED BY <3>1 DEF Undisturbed
  <2>3. ~Writing(c)' /\ Shown' = Shown
    BY <2>1 DEF Writing, At, Shown
  <2>4. Undisturbed
    BY <2>1 DEF Undisturbed
  <2> QED BY <2>1, <2>2, <2>3, <2>4, SavedElsewhere
<1> HIDE DEF Calm
<1>9. Undisturbed /\ Calm
  BY <1>1, <1>2, <1>3, <1>4, <1>5, <1>6, <1>7, <1>8 DEF FilesNext, Proceed
<1> QED BY <1>9 DEF Calm

\* A step of the files is one of the record file: a save, or a disturbance.
LEMMA FilesAreRecords ==
    ASSUME TypeInv, AccountsInv, [FilesNext]_fvars
    PROVE  [AccountsFile!Next]_(AccountsFile!vars)
<1>1. CASE Undisturbed'
  <2>1. Undisturbed /\ (AccountsFile!Next \/ (Stored' = Stored /\ Saved' = Saved))
    BY <1>1, StepStored
  <2>2. (mixed \/ "accounts" \in cut) = FALSE /\ (mixed \/ "accounts" \in cut)' = FALSE
    BY <1>1, <2>1 DEF Undisturbed
  <2> QED BY <2>1, <2>2 DEF AccountsFile!vars, Saved
<1>2. CASE ~Undisturbed'
  <2>1. (mixed \/ "accounts" \in cut)' = TRUE
    BY <1>2 DEF Undisturbed
  <2>2. AccountsFile!Disturb
    BY <2>1 DEF AccountsFile!Disturb
  <2> QED BY <2>2 DEF AccountsFile!Next
<1> QED BY <1>1, <1>2

LEMMA InitRecords == FilesInit => AccountsFile!Init
<1> SUFFICES ASSUME FilesInit PROVE AccountsFile!Init
  OBVIOUS
<1>1. \A a \in Accounts : pc[a] = "idle"
  BY DEF FilesInit, FileCommands
<1>2. {e \in Accounts : At(e, "account", "write")} = {} /\ Saved = {}
  BY <1>1 DEF At, Saved
<1>3. keys = {} /\ ~mixed /\ "accounts" \notin cut
  BY DEF FilesInit
<1>4. Stored = {}
  BY <1>2, <1>3 DEF Stored
<1> QED BY <1>2, <1>3, <1>4 DEF AccountsFile!Init, Saved

-----------------------------------------------------------------------------
(* Turns: how much of a plan is left tells the task.                       *)

Left(c) == Len(plan[c])

Written == {"put", "copy", "edit", "account"}

\* What is left of a plan is the end of it; only some tasks write.
PlansRest == \A c \in FileCommands :
    /\ pc[c] = "idle" => plan[c] = Plan(c)
    /\ pc[c] = "write" => Head(plan[c]).do \in Written
    /\ Left(c) <= Len(Plan(c))
    /\ \A i \in 1..Left(c) : plan[c][i] = Plan(c)[Len(Plan(c)) - Left(c) + i]
    /\ pc[c] = "done" => plan[c] = <<>>

\* What is left when a piece's turn comes, and a file's.
Due == [contracts |-> 17, tests |-> 16, gitignore |-> 15, tsconfig |-> 14,
        config |-> 13, accounts |-> 12, scripts |-> 11]
CopyAt == [f \in Files |-> CASE f = "Cargo.toml" -> 8 [] f = "lib.rs" -> 7 [] f = "test" -> 2]
EditAt == [f \in Files |-> CASE f = "Cargo.toml" -> 6 [] f = "lib.rs" -> 5 [] f = "test" -> 1]

LEMMA PlanTurns ==
    /\ \A c \in Inits : /\ Len(Plan(c)) = 17
                        /\ \A i \in 1..17 : Plan(c)[i] = IF i <= 7 THEN PutAll[i] ELSE CreateNew[i - 7]
    /\ \A c \in Creates : Plan(c) = CreateNew
    /\ Len(CreateNew) = 10
<1>1. Len(PutAll) = 7 /\ Len(CreateNew) = 10 /\ PutAll \in Seq(Task) /\ CreateNew \in Seq(Task)
  BY DEF PutAll, CreateNew, Task, Pieces, Dirs, Files, To
<1>2. ASSUME NEW s \in Seq(Task), NEW t \in Seq(Task), Len(s) = 7, Len(t) = 10
      PROVE  Len(s \o t) = 17 /\ \A i \in 1..17 : (s \o t)[i] = IF i <= 7 THEN s[i] ELSE t[i - 7]
  <2> DEFINE u == s \o t
  <2>1. \A i \in 1..(Len(s) + Len(t)) : u[i] = IF i <= Len(s) THEN s[i] ELSE t[i - Len(s)]
    OBVIOUS
  <2>2. Len(u) = Len(s) + Len(t)
    OBVIOUS
  <2> HIDE DEF u
  <2>3. Len(u) = 17 /\ \A i \in 1..17 : u[i] = IF i <= 7 THEN s[i] ELSE t[i - 7]
    BY <1>2, <2>1, <2>2
  <2> QED BY <2>3 DEF u
<1>3. /\ Len(PutAll \o CreateNew) = 17
      /\ \A i \in 1..17 : (PutAll \o CreateNew)[i] = IF i <= 7 THEN PutAll[i] ELSE CreateNew[i - 7]
  BY <1>1, <1>2
<1> QED BY <1>1, <1>3, FilesAssumption DEF Plan

LEMMA TurnOf ==
    ASSUME TypeInv, PlansRest, NEW c \in Inits \cup Creates, plan[c] # <<>>
    PROVE  /\ Left(c) \in 1..17
           /\ c \in Creates => Left(c) <= 10
           /\ Head(plan[c]) = IF Left(c) > 10 THEN PutAll[18 - Left(c)] ELSE CreateNew[11 - Left(c)]
<1>1. c \in FileCommands /\ Fits(c, plan[c])
  BY DEF FileCommands, TypeInv, PlansFit
<1>2. /\ Head(plan[c]) = plan[c][1] /\ Left(c) \in Nat \ {0} /\ 1 \in 1..Left(c)
  BY <1>1, TailFits DEF Left
<1>3. Left(c) <= Len(Plan(c)) /\ plan[c][1] = Plan(c)[Len(Plan(c)) - Left(c) + 1]
  BY <1>1, <1>2 DEF PlansRest
<1> DEFINE L == Left(c)
<1>4. CASE c \in Inits
  <2>1. Len(Plan(c)) = 17 /\ c \notin Creates
    BY <1>4, PlanTurns, FilesAssumption
  <2>2. L \in Nat \ {0} /\ L <= 17 /\ plan[c][1] = Plan(c)[17 - L + 1]
    BY <1>2, <1>3, <2>1
  <2> HIDE DEF L
  <2>3. L \in 1..17 /\ 17 - L + 1 = 18 - L /\ (18 - L) \in 1..17 /\ (18 - L) - 7 = 11 - L
        /\ (18 - L <= 7 <=> L > 10)
    BY <2>2
  <2>4. Plan(c)[18 - L] = IF 18 - L <= 7 THEN PutAll[18 - L] ELSE CreateNew[(18 - L) - 7]
    BY <1>4, <2>3, PlanTurns
  <2>5. plan[c][1] = IF L > 10 THEN PutAll[18 - L] ELSE CreateNew[11 - L]
    BY <2>2, <2>3, <2>4
  <2> QED BY <1>2, <2>1, <2>3, <2>5 DEF L
<1>5. CASE c \in Creates
  <2>1. Len(Plan(c)) = 10 /\ Plan(c) = CreateNew
    BY <1>5, PlanTurns
  <2>2. L \in Nat \ {0} /\ L <= 10 /\ plan[c][1] = CreateNew[10 - L + 1]
    BY <1>2, <1>3, <2>1
  <2> HIDE DEF L
  <2>3. L \in 1..17 /\ L <= 10 /\ ~(L > 10) /\ plan[c][1] = CreateNew[11 - L]
    <3>1. 10 - L + 1 = 11 - L
      BY <2>2
    <3> QED BY <2>2, <3>1
  <2> QED BY <1>2, <2>3 DEF L
<1> QED BY <1>4, <1>5

\* The task at hand tells what is left.
LEMMA Turns ==
    ASSUME TypeInv, PlansRest, NEW c \in Inits \cup Creates, NEW do, NEW place, At(c, do, place)
    PROVE  /\ Left(c) \in 1..17
           /\ do = "put" => Left(c) > 10 /\ Left(c) = Due[Of(c)]
           /\ do = "check" => \/ Left(c) = 10 /\ Of(c) = "contracts"
                              \/ Left(c) = 4 /\ Of(c) = "tests"
           /\ do = "mkdir" => \/ Left(c) = 9 /\ Of(c) = "contracts"
                              \/ Left(c) = 3 /\ Of(c) = "tests"
           /\ do = "copy" => Of(c) \in Files /\ Left(c) = CopyAt[Of(c)]
           /\ do = "edit" => Of(c) \in Files /\ Left(c) = EditAt[Of(c)]
<1> DEFINE L == Left(c)
<1>1. /\ L \in 1..17
      /\ Head(plan[c]) = IF L > 10 THEN PutAll[18 - L] ELSE CreateNew[11 - L]
  BY TurnOf DEF At
<1>2. Head(plan[c]).do = do /\ Of(c) = Head(plan[c]).of
  BY DEF At, Of
<1>3. CASE L > 10
  <2>1. /\ PutAll[1] = To("put", "contracts") /\ PutAll[2] = To("put", "tests")
        /\ PutAll[3] = To("put", "gitignore") /\ PutAll[4] = To("put", "tsconfig")
        /\ PutAll[5] = To("put", "config") /\ PutAll[6] = To("put", "accounts")
        /\ PutAll[7] = To("put", "scripts")
    BY DEF PutAll
  <2>2. L \in {11, 12, 13, 14, 15, 16, 17}
    BY <1>1, <1>3
  <2> HIDE DEF L
  <2>3. do = "put" /\ L = Due[Of(c)]
    BY <1>1, <1>2, <1>3, <2>1, <2>2 DEF To, Due
  <2> QED BY <1>1, <1>3, <2>3 DEF L
<1>4. CASE L <= 10
  <2>1. /\ CreateNew[1] = To("check", "contracts") /\ CreateNew[2] = To("mkdir", "contracts")
        /\ CreateNew[3] = To("copy", "Cargo.toml") /\ CreateNew[4] = To("copy", "lib.rs")
        /\ CreateNew[5] = To("edit", "Cargo.toml") /\ CreateNew[6] = To("edit", "lib.rs")
        /\ CreateNew[7] = To("check", "tests") /\ CreateNew[8] = To("mkdir", "tests")
        /\ CreateNew[9] = To("copy", "test") /\ CreateNew[10] = To("edit", "test")
    BY DEF CreateNew
  <2>2. L \in {1, 2, 3, 4, 5, 6, 7, 8, 9, 10}
    BY <1>1, <1>4
  <2> HIDE DEF L
  <2>3. /\ do # "put"
        /\ do = "check" => (L = 10 /\ Of(c) = "contracts") \/ (L = 4 /\ Of(c) = "tests")
        /\ do = "mkdir" => (L = 9 /\ Of(c) = "contracts") \/ (L = 3 /\ Of(c) = "tests")
        /\ do = "copy" => Of(c) \in Files /\ L = CopyAt[Of(c)]
        /\ do = "edit" => Of(c) \in Files /\ L = EditAt[Of(c)]
    BY <1>1, <1>2, <1>4, <2>1, <2>2 DEF To, Files, CopyAt, EditAt
  <2> QED BY <1>1, <2>3 DEF L
<1> QED BY <1>1, <1>3, <1>4

\* A step of a command leaves the plans of the others; it goes to another
\* place, not to the end, or on to its next task.
Moves(c) ==
    /\ \A d \in FileCommands \ {c} : pc'[d] = pc[d] /\ plan'[d] = plan[d]
    /\ \/ /\ pc'[c] \notin {"done", "idle"} /\ plan'[c] = plan[c]
          /\ pc'[c] = "write" => Head(plan[c]).do \in Written
       \/ /\ plan[c] # <<>> /\ plan'[c] = Tail(plan[c])
          /\ pc'[c] = IF Len(plan[c]) = 1 THEN "done" ELSE "begin"

LEMMA GoToIsMove ==
    ASSUME TypeInv, NEW c \in FileCommands, NEW place, place \notin {"done", "idle"}, GoTo(c, place),
           place = "write" => Head(plan[c]).do \in Written
    PROVE  Moves(c) /\ pc'[c] = place /\ plan'[c] = plan[c]
BY GoToMoves DEF Moves

LEMMA AdvanceIsMove ==
    ASSUME TypeInv, NEW c \in FileCommands, Advance(c), pc[c] \notin Ended
    PROVE  /\ Moves(c) /\ plan[c] # <<>> /\ plan'[c] = Tail(plan[c])
           /\ pc'[c] = IF Len(plan[c]) = 1 THEN "done" ELSE "begin"
<1>1. plan[c] # <<>>
  BY DEF TypeInv, PlansFit
<1>2. plan'[c] = Tail(plan[c]) /\ pc'[c] = IF Len(plan[c]) = 1 THEN "done" ELSE "begin"
  BY DEF TypeInv, FilesTypeOK, Advance
<1> QED BY <1>1, <1>2, AdvanceMoves DEF Moves

LEMMA StepMoves ==
    ASSUME TypeInv, NEW c \in FileCommands, Start(c) \/ Proceed(c) \/ Answer(c) \/ Kill(c)
    PROVE  Moves(c)
<1>1. CASE Start(c) \/ Answer(c) \/ Kill(c)
  BY <1>1, GoToIsMove DEF Start, Answer, Kill, Fails
<1>2. CASE Look(c) \/ MakePiece(c) \/ OpenPiece(c) \/ WritePiece(c)
  BY <1>2, GoToIsMove, AdvanceIsMove
     DEF Look, MakePiece, OpenPiece, WritePiece, Fails, At, Ended, Written
<1>3. CASE CheckComponent(c) \/ MakeDirectory(c) \/ OpenFile(c) \/ WriteFile(c) \/ ReadFile(c)
  BY <1>3, GoToIsMove, AdvanceIsMove
     DEF CheckComponent, MakeDirectory, OpenFile, WriteFile, ReadFile, Fails, At, Ended, Written
<1>4. CASE c \in Accounts /\ (Load(c) \/ OpenAccounts(c) \/ WriteAccounts(c))
  BY <1>4, GoToIsMove, AdvanceIsMove
     DEF Load, OpenAccounts, WriteAccounts, Fails, At, Ended, Written
<1> QED BY <1>1, <1>2, <1>3, <1>4 DEF Proceed

\* With one task less what is left is the end of the plan still.
LEMMA TailRests ==
    ASSUME NEW s \in Seq(Task), s # <<>>, NEW t, NEW k \in Nat, Len(s) <= k,
           \A i \in 1..Len(s) : s[i] = t[k - Len(s) + i]
    PROVE  /\ Len(Tail(s)) = Len(s) - 1 /\ Len(Tail(s)) <= k
           /\ \A i \in 1..Len(Tail(s)) : Tail(s)[i] = t[k - Len(Tail(s)) + i]
           /\ Len(s) = 1 => Tail(s) = <<>>
<1>1. Len(s) \in Nat \ {0} /\ Len(Tail(s)) = Len(s) - 1 /\ Tail(s) \in Seq(Task)
  OBVIOUS
<1>2. ASSUME NEW i \in 1..Len(Tail(s)) PROVE Tail(s)[i] = t[k - Len(Tail(s)) + i]
  <2>1. i + 1 \in 1..Len(s) /\ Tail(s)[i] = s[i + 1]
    BY <1>1
  <2>2. k - Len(s) + (i + 1) = k - Len(Tail(s)) + i
    BY <1>1
  <2> QED BY <2>1, <2>2
<1>3. ASSUME Len(s) = 1, Tail(s) # <<>> PROVE FALSE
  <2>1. Len(Tail(s)) \in Nat \ {0}
    BY <1>1, <1>3, EmptySeq
  <2> QED BY <1>1, <1>3, <2>1
<1> QED BY <1>1, <1>2, <1>3

LEMMA InitRest == FilesInit => PlansRest
<1> SUFFICES ASSUME FilesInit, NEW c \in FileCommands
             PROVE  /\ pc[c] = "idle" => plan[c] = Plan(c)
                    /\ pc[c] = "write" => Head(plan[c]).do \in Written
                    /\ Left(c) <= Len(Plan(c))
                    /\ \A i \in 1..Left(c) : plan[c][i] = Plan(c)[Len(Plan(c)) - Left(c) + i]
                    /\ pc[c] = "done" => plan[c] = <<>>
  BY DEF PlansRest
<1>1. plan[c] = Plan(c) /\ pc[c] = "idle"
  BY DEF FilesInit
<1>2. Len(Plan(c)) \in Nat
  BY PlanFits DEF Fits
<1> QED BY <1>1, <1>2 DEF Left

LEMMA StepRest == TypeInv /\ PlansRest /\ [FilesNext]_fvars => PlansRest'
<1> SUFFICES ASSUME TypeInv, PlansRest, [FilesNext]_fvars PROVE PlansRest'
  OBVIOUS
<1>1. CASE UNCHANGED fvars
  BY <1>1 DEF fvars, PlansRest, Left
<1>2. ASSUME NEW c \in FileCommands, Moves(c) PROVE PlansRest'
  <2> SUFFICES ASSUME NEW d \in FileCommands
               PROVE  /\ pc'[d] = "idle" => plan'[d] = Plan(d)
                      /\ pc'[d] = "write" => Head(plan'[d]).do \in Written
                      /\ Len(plan'[d]) <= Len(Plan(d))
                      /\ \A i \in 1..Len(plan'[d]) :
                            plan'[d][i] = Plan(d)[Len(Plan(d)) - Len(plan'[d]) + i]
                      /\ pc'[d] = "done" => plan'[d] = <<>>
    BY DEF PlansRest, Left
  <2>0. /\ pc[d] = "idle" => plan[d] = Plan(d)
        /\ pc[d] = "write" => Head(plan[d]).do \in Written
        /\ Len(plan[d]) <= Len(Plan(d))
        /\ \A i \in 1..Len(plan[d]) : plan[d][i] = Plan(d)[Len(Plan(d)) - Len(plan[d]) + i]
        /\ pc[d] = "done" => plan[d] = <<>>
    BY DEF PlansRest, Left
  <2>1. CASE /\ plan'[d] = plan[d]
             /\ \A place \in {"done", "idle"} : pc'[d] = place => pc[d] = place
             /\ pc'[d] = "write" => Head(plan[d]).do \in Written
    BY <2>0, <2>1
  <2>2. CASE /\ plan[d] # <<>> /\ plan'[d] = Tail(plan[d])
             /\ pc'[d] = IF Len(plan[d]) = 1 THEN "done" ELSE "begin"
    <3>1. Len(Plan(d)) \in Nat /\ plan[d] \in Seq(Task)
      BY PlanFits DEF Fits, TypeInv, PlansFit
    <3>2. /\ Len(Tail(plan[d])) <= Len(Plan(d))
          /\ \A i \in 1..Len(Tail(plan[d])) :
                Tail(plan[d])[i] = Plan(d)[Len(Plan(d)) - Len(Tail(plan[d])) + i]
          /\ Len(plan[d]) = 1 => Tail(plan[d]) = <<>>
      <4> DEFINE s == plan[d]
                 t == Plan(d)
      <4>1. /\ s \in Seq(Task) /\ s # <<>> /\ Len(t) \in Nat /\ Len(s) <= Len(t)
            /\ \A i \in 1..Len(s) : s[i] = t[Len(t) - Len(s) + i]
        BY <2>0, <2>2, <3>1
      <4> HIDE DEF s, t
      <4>2. /\ Len(Tail(s)) <= Len(t)
            /\ \A i \in 1..Len(Tail(s)) : Tail(s)[i] = t[Len(t) - Len(Tail(s)) + i]
            /\ Len(s) = 1 => Tail(s) = <<>>
        BY <4>1, TailRests
      <4> QED BY <4>2 DEF s, t
    <3> QED BY <2>2, <3>2
  <2> QED BY <1>2, <2>0, <2>1, <2>2 DEF Moves
<1> QED BY <1>1, <1>2, StepMoves DEF FilesNext

-----------------------------------------------------------------------------
(* Pieces.                                                                 *)

\* A missing piece is still to come in what is left of every init.
AbsentIsDue == \A p \in Pieces : piece[p] = "absent" => \A c \in Inits : Due[p] <= Left(c)

\* A torn one is being written, or a killed command left it so, or two were
\* on the accounts.
Torn(p) ==
    \/ p \in cut
    \/ p = "accounts" /\ mixed
    \/ \E d \in FileCommands : pc[d] = "write" /\ Of(d) = p

TornIsExplained == \A p \in Pieces : piece[p] = "torn" => Torn(p)

PiecesInv == AbsentIsDue /\ TornIsExplained

LEMMA InitPieces == FilesInit => PiecesInv
<1> SUFFICES ASSUME FilesInit PROVE PiecesInv
  OBVIOUS
<1>1. \A c \in Inits : Left(c) = 17
  BY PlanTurns DEF FilesInit, Left, FileCommands
<1>2. \A p \in Pieces : Due[p] <= 17 /\ piece[p] # "torn"
  BY DEF Due, Pieces, Dirs, FilesInit
<1> QED BY <1>1, <1>2 DEF PiecesInv, AbsentIsDue, TornIsExplained

LEMMA DueOrder ==
    /\ \A p \in Pieces : Due[p] \in 11..17
    /\ \A p, q \in Pieces : Due[p] = Due[q] => p = q
    /\ Pieces \cap Files = {}
BY DEF Due, Pieces, Dirs, Files

\* A move keeps it that is not past a missing piece, and that explains what
\* it tears or stops writing.
LEMMA PiecesMove ==
    ASSUME TypeInv, PiecesInv, NEW c \in FileCommands, Moves(c), cut \subseteq cut', mixed => mixed',
           \A p \in Pieces : piece'[p] = "absent" =>
               /\ piece[p] = "absent"
               /\ c \in Inits /\ plan[c] # <<>> /\ plan'[c] = Tail(plan[c]) => Left(c) # Due[p],
           \A p \in Pieces : piece'[p] = "torn" =>
               \/ Torn(p)'
               \/ piece[p] = "torn" /\ ~(pc[c] = "write" /\ Of(c) = p)
    PROVE  PiecesInv'
<1>1. AbsentIsDue'
  <2> SUFFICES ASSUME NEW p \in Pieces, piece'[p] = "absent", NEW d \in Inits
               PROVE  Due[p] <= Len(plan'[d])
    BY DEF AbsentIsDue, Left
  <2>1. Due[p] <= Len(plan[d]) /\ Due[p] \in Nat /\ d \in FileCommands
    BY DueOrder DEF PiecesInv, AbsentIsDue, Left, FileCommands
  <2>2. CASE plan'[d] = plan[d]
    BY <2>1, <2>2
  <2>3. CASE d = c /\ plan[c] # <<>> /\ plan'[c] = Tail(plan[c])
    <3>1. plan[c] \in Seq(Task)
      BY DEF TypeInv, FilesTypeOK
    <3>2. Len(plan[c]) \in Nat \ {0} /\ Len(Tail(plan[c])) = Len(plan[c]) - 1
      BY <2>3, <3>1
    <3>3. Len(plan[c]) # Due[p]
      BY <2>3 DEF Left
    <3> QED BY <2>1, <2>3, <3>2, <3>3
  <2> QED BY <2>1, <2>2, <2>3 DEF Moves
<1>2. TornIsExplained'
  <2> SUFFICES ASSUME NEW p \in Pieces, piece'[p] = "torn", piece[p] = "torn",
                      ~(pc[c] = "write" /\ Of(c) = p)
               PROVE  Torn(p)'
    BY DEF TornIsExplained
  <2>1. Torn(p)
    BY DEF PiecesInv, TornIsExplained
  <2>2. ASSUME NEW d \in FileCommands, pc[d] = "write", Of(d) = p PROVE pc'[d] = "write" /\ Of(d)' = p
    BY <2>2 DEF Moves, Of
  <2> QED BY <2>1, <2>2 DEF Torn
<1> QED BY <1>1, <1>2 DEF PiecesInv

LEMMA PutPieces ==
    ASSUME TypeInv, PlansRest, PiecesInv, NEW c \in FileCommands,
           Look(c) \/ MakePiece(c) \/ OpenPiece(c) \/ WritePiece(c)
    PROVE  PiecesInv'
<1>0. PICK place : At(c, "put", place)
  BY DEF Look, MakePiece, OpenPiece, WritePiece
<1>1. /\ Moves(c) /\ c \in Inits /\ Of(c) \in Pieces /\ Left(c) = Due[Of(c)]
      /\ cut' = cut /\ (mixed => mixed')
  <2>1. c \in Inits /\ Of(c) \in Pieces
    BY <1>0, AtTask
  <2>2. Left(c) = Due[Of(c)]
    BY <1>0, <2>1, Turns
  <2>3. Moves(c)
    BY StepMoves DEF Proceed
  <2>4. cut' = cut
    BY DEF Look, MakePiece, OpenPiece, WritePiece
  <2>5. mixed => mixed'
    BY DEF Look, MakePiece, OpenPiece, WritePiece
  <2> QED BY <2>1, <2>2, <2>3, <2>4, <2>5
<1>2. \A p \in Pieces : p # Of(c) => Left(c) # Due[p] /\ piece'[p] = piece[p]
  BY <1>1, DueOrder DEF Look, MakePiece, OpenPiece, WritePiece, TypeInv, FilesTypeOK
<1>3. CASE Look(c)
  <2>1. pc[c] # "write" /\ piece' = piece /\ (Exists(Of(c)) \/ plan'[c] = plan[c])
    BY <1>3, GoToMoves DEF Look, At
  <2>2. ASSUME plan[c] # <<>>, plan'[c] = Tail(plan[c]) PROVE plan'[c] # plan[c]
    <3>1. plan[c] \in Seq(Task)
      BY DEF TypeInv, FilesTypeOK
    <3>2. Len(Tail(plan[c])) # Len(plan[c])
      BY <2>2, <3>1
    <3> QED BY <2>2, <3>2
  <2> QED BY <1>1, <1>2, <2>1, <2>2, PiecesMove DEF Exists
<1>4. CASE MakePiece(c) \/ WritePiece(c)
  <2>1. piece'[Of(c)] = "whole"
    BY <1>1, <1>4 DEF MakePiece, WritePiece, TypeInv, FilesTypeOK
  <2> QED BY <1>1, <1>2, <2>1, PiecesMove
<1>5. CASE OpenPiece(c)
  <2>1. piece'[Of(c)] = "torn" /\ pc'[c] = "write" /\ Of(c)' = Of(c) /\ pc[c] # "write"
    BY <1>1, <1>5, GoToMoves DEF OpenPiece, At, Of, TypeInv, FilesTypeOK
  <2>2. Torn(Of(c))'
    BY <2>1 DEF Torn
  <2> QED BY <1>1, <1>2, <2>1, <2>2, PiecesMove
<1> QED BY <1>3, <1>4, <1>5

LEMMA ContractPieces ==
    ASSUME TypeInv, PlansRest, PiecesInv, NEW c \in FileCommands,
           CheckComponent(c) \/ MakeDirectory(c) \/ OpenFile(c) \/ WriteFile(c) \/ ReadFile(c)
    PROVE  PiecesInv'
<1>1. c \in Inits \cup Creates
  BY AtTask DEF CheckComponent, MakeDirectory, OpenFile, WriteFile, ReadFile, FileCommands
<1>2. Left(c) <= 10 /\ (MakeDirectory(c) => Of(c) \in Dirs)
  <2>1. PICK do \in {"check", "mkdir", "copy", "edit"}, place \in Busy :
            At(c, do, place) /\ (MakeDirectory(c) => do = "mkdir")
    BY DEF CheckComponent, MakeDirectory, OpenFile, WriteFile, ReadFile, Busy, At
  <2>2. Left(c) <= 10
    <3>1. CASE do \in {"check", "mkdir"}
      BY <1>1, <2>1, <3>1, Turns
    <3>2. CASE do \in {"copy", "edit"}
      <4>1. Of(c) \in Files /\ (Left(c) = CopyAt[Of(c)] \/ Left(c) = EditAt[Of(c)])
        BY <1>1, <2>1, <3>2, Turns
      <4>2. CopyAt[Of(c)] \in {2, 7, 8} /\ EditAt[Of(c)] \in {1, 5, 6}
        BY <4>1 DEF CopyAt, EditAt, Files
      <4> QED BY <4>1, <4>2
    <3> QED BY <2>1, <3>1, <3>2
  <2> QED BY <2>1, <2>2, AtTask
<1>3. \A p \in Pieces : Left(c) # Due[p]
  BY <1>2, DueOrder
<1>4. /\ Moves(c) /\ cut' = cut /\ mixed' = mixed
  BY StepMoves DEF Proceed, CheckComponent, MakeDirectory, OpenFile, WriteFile, ReadFile
<1>5. \A p \in Pieces : piece'[p] = piece[p] \/ piece'[p] = "whole"
  BY DEF CheckComponent, MakeDirectory, OpenFile, WriteFile, ReadFile, TypeInv, FilesTypeOK
<1>6. pc[c] = "write" => Of(c) \in Files
  BY AtTask DEF CheckComponent, MakeDirectory, OpenFile, WriteFile, ReadFile, At
<1> QED BY <1>3, <1>4, <1>5, <1>6, DueOrder, PiecesMove

LEMMA AccountPieces ==
    ASSUME TypeInv, AccountsInv, PiecesInv, NEW c \in FileCommands,
           Answer(c) \/ (c \in Accounts /\ (Load(c) \/ OpenAccounts(c) \/ WriteAccounts(c)))
    PROVE  PiecesInv'
<1>1. /\ Moves(c) /\ c \notin Inits /\ cut' = cut /\ (mixed => mixed')
  <2>1. Moves(c)
    BY StepMoves DEF Proceed
  <2>2. PICK place : At(c, "account", place)
    BY DEF Answer, Load, OpenAccounts, WriteAccounts
  <2>3. c \notin Inits
    BY <2>2, AtTask, FilesAssumption
  <2>4. cut' = cut
    BY DEF Answer, Load, OpenAccounts, WriteAccounts
  <2>5. mixed => mixed'
    BY DEF Answer, Load, OpenAccounts, WriteAccounts
  <2> QED BY <2>1, <2>3, <2>4, <2>5
<1>2. CASE Answer(c) \/ Load(c)
  <2>1. piece' = piece /\ pc[c] # "write"
    BY <1>2 DEF Answer, Load, At
  <2> QED BY <1>1, <2>1, PiecesMove
<1>3. CASE c \in Accounts /\ (OpenAccounts(c) \/ WriteAccounts(c))
  <2>1. Of(c) = "accounts" /\ \A p \in Pieces : p # "accounts" => piece'[p] = piece[p]
    BY <1>3, AtTask DEF OpenAccounts, WriteAccounts, TypeInv, FilesTypeOK
  <2>2. piece'["accounts"] # "absent"
    BY <1>3 DEF OpenAccounts, WriteAccounts, TypeInv, FilesTypeOK, Pieces
  <2>3. piece'["accounts"] = "torn" => Torn("accounts")'
    <3>1. CASE OpenAccounts(c)
      <4>1. pc'[c] = "write" /\ Of(c)' = Of(c)
        BY <3>1, GoToMoves DEF OpenAccounts, Of
      <4> QED BY <2>1, <4>1 DEF Torn
    <3>2. CASE WriteAccounts(c)
      <4>1. ASSUME piece'["accounts"] = "torn" PROVE keys # {}
        BY <3>2, <4>1 DEF WriteAccounts, TypeInv, FilesTypeOK, Pieces
      <4>2. Undisturbed => keys = {}
        BY <3>2 DEF WriteAccounts, AccountsInv, Emptied, Writing
      <4> QED BY <1>1, <4>1, <4>2 DEF Torn, Undisturbed
    <3> QED BY <1>3, <3>1, <3>2
  <2> QED BY <1>1, <2>1, <2>2, <2>3, PiecesMove
<1> QED BY <1>2, <1>3

\* Whatever is torn when its writer is killed is remembered.
LEMMA KillPieces ==
    ASSUME TypeInv, PlansRest, PiecesInv, NEW c \in FileCommands, Kill(c) PROVE PiecesInv'
<1>1. Moves(c) /\ plan' = plan /\ piece' = piece /\ cut \subseteq cut' /\ mixed' = mixed
  BY StepMoves DEF Kill, GoTo
<1>2. plan[c] # <<>> /\ plan[c] \in Seq(Task)
  BY DEF Kill, TypeInv, PlansFit, FilesTypeOK, Busy, Ended
<1>3. Len(Tail(plan[c])) # Len(plan[c])
  BY <1>2
<1>4. ASSUME NEW p \in Pieces, pc[c] = "write", Of(c) = p PROVE p \in cut'
  <2>1. At(c, Head(plan[c]).do, "write") /\ Head(plan[c]).do \in Written
    BY <1>2, <1>4 DEF At, PlansRest
  <2>2. Head(plan[c]).do \notin {"copy", "edit"}
    BY <1>4, <2>1, AtTask, DueOrder
  <2> QED BY <1>4, <2>1, <2>2 DEF Kill, Written
<1> QED BY <1>1, <1>3, <1>4, PiecesMove DEF Torn

LEMMA StepPieces == TypeInv /\ PlansRest /\ AccountsInv /\ PiecesInv /\ [FilesNext]_fvars => PiecesInv'
<1> SUFFICES ASSUME TypeInv, PlansRest, AccountsInv, PiecesInv, [FilesNext]_fvars PROVE PiecesInv'
  OBVIOUS
<1>1. CASE UNCHANGED fvars
  BY <1>1 DEF fvars, PiecesInv, AbsentIsDue, TornIsExplained, Torn, Left, Of
<1>2. ASSUME NEW c \in FileCommands, Start(c) PROVE PiecesInv'
  <2>1. /\ Moves(c) /\ plan' = plan /\ pc[c] # "write"
        /\ piece' = piece /\ cut' = cut /\ mixed' = mixed
    BY <1>2, StepMoves DEF Start, GoTo, Fails
  <2>2. plan[c] # <<>> => Tail(plan[c]) # plan[c]
    <3>1. plan[c] # <<>> => Len(Tail(plan[c])) # Len(plan[c])
      BY DEF TypeInv, FilesTypeOK
    <3> QED BY <3>1
  <2> QED BY <2>1, <2>2, PiecesMove
<1>3. CASE FilesNext
  BY <1>2, <1>3, PutPieces, ContractPieces, AccountPieces, KillPieces DEF FilesNext, Proceed
<1> QED BY <1>1, <1>3

LEMMA PiecesComplete == TypeInv /\ PlansRest /\ PiecesInv => InitIsComplete
<1> SUFFICES ASSUME TypeInv, PlansRest, PiecesInv, NEW c \in Inits, pc[c] = "done", NEW p \in Pieces
             PROVE  piece[p] = "whole" \/ (piece[p] = "torn" /\ Torn(p))
  BY DEF InitIsComplete, Torn
<1>1. Left(c) = 0
  <2>1. plan[c] = <<>>
    BY DEF PlansRest, FileCommands
  <2>2. Len(<<>>) = 0
    OBVIOUS
  <2> QED BY <2>1, <2>2 DEF Left
<1>2. piece[p] # "absent"
  BY <1>1, DueOrder DEF PiecesInv, AbsentIsDue
<1> QED BY <1>2 DEF TypeInv, FilesTypeOK, PieceState, PiecesInv, TornIsExplained

-----------------------------------------------------------------------------
(* Contracts.                                                              *)

\* What a command has made of its contract, by what is left of its plan.
Progress(c) ==
    LET n == Contract(c) IN
    /\ <<n, "contracts">> \in made <=> Left(c) < 9
    /\ \A f \in Files :
        /\ Left(c) < EditAt[f] => part[n][f] = "done"
        /\ EditAt[f] < Left(c) /\ Left(c) < CopyAt[f] => part[n][f] = "template"
        /\ Left(c) = EditAt[f] => /\ pc[c] = "begin" => part[n][f] = "template"
                                  /\ pc[c] \in {"open", "write"} => seen[c] = "template"

Made(n) == <<n, "contracts">> \in made /\ \A f \in Files : part[n][f] = "done"

\* One command at most is creating it, and it has got as far as its plan
\* says; none is, once one is done.
CreatingFits(n) ==
    /\ \A d, e \in Creating(n) : d = e
    /\ \A d \in Creating(n) : Progress(d)
    /\ \A d \in Inits \cup Creates :
        pc[d] = "done" /\ Contract(d) = n => Made(n) /\ Creating(n) = {}

ContractsInv == \A n \in Names : n \notin crossed => CreatingFits(n)

LEMMA FileOrder ==
    /\ \A f \in Files : /\ CopyAt[f] \in Nat /\ EditAt[f] \in Nat
                        /\ 1 <= EditAt[f] /\ EditAt[f] < CopyAt[f] /\ CopyAt[f] < 9
                        /\ EditAt[f] \notin {3, 4} /\ CopyAt[f] \notin {3, 4}
    /\ \A f, g \in Files : /\ CopyAt[f] = CopyAt[g] => f = g
                           /\ EditAt[f] = EditAt[g] => f = g
                           /\ CopyAt[f] # EditAt[g]
BY DEF Files, CopyAt, EditAt

LEMMA InCreating ==
    ASSUME NEW d, NEW n
    PROVE  d \in Creating(n) <=> /\ d \in Inits \cup Creates /\ pc[d] \in Busy
                                 /\ Contract(d) = n /\ Left(d) < 10
<1>1. Len(CreateNew) = 10
  BY PlanTurns
<1> QED BY <1>1 DEF Creating, Left

\* A command keeps to its place in every plan but its own.
LEMMA OthersCreating ==
    ASSUME NEW c \in FileCommands, Moves(c), NEW d \in FileCommands, d # c, NEW n
    PROVE  d \in Creating(n)' <=> d \in Creating(n)
BY DEF Creating, Moves

LEMMA SameProgress ==
    ASSUME NEW d, pc'[d] = pc[d], plan'[d] = plan[d], seen'[d] = seen[d],
           part'[Contract(d)] = part[Contract(d)],
           <<Contract(d), "contracts">> \in made' <=> <<Contract(d), "contracts">> \in made,
           Progress(d)
    PROVE  Progress(d)'
<1>1. Left(d)' = Left(d) /\ Contract(d)' = Contract(d)
  BY DEF Left, Contract
<1> QED BY <1>1 DEF Progress

\* A command that is not creating a contract leaves it alone.
LEMMA Bystander ==
    ASSUME NEW c \in FileCommands, Moves(c), NEW n, CreatingFits(n),
           c \notin Creating(n), c \notin Creating(n)',
           c \in Inits \cup Creates /\ Contract(c) = n => (pc'[c] = "done" => pc[c] = "done"),
           part'[n] = part[n], <<n, "contracts">> \in made' <=> <<n, "contracts">> \in made,
           \A d \in FileCommands \ {c} : seen'[d] = seen[d]
    PROVE  CreatingFits(n)'
<1>1. Creating(n)' = Creating(n) /\ Creating(n) \subseteq FileCommands
  BY OthersCreating DEF Creating, FileCommands
<1>2. Made(n)' <=> Made(n)
  BY DEF Made
<1>3. ASSUME NEW d \in Creating(n) PROVE Progress(d)'
  <2>1. d \in FileCommands \ {c} /\ Contract(d) = n
    BY <1>1 DEF Creating
  <2>2. pc'[d] = pc[d] /\ plan'[d] = plan[d] /\ seen'[d] = seen[d] /\ Progress(d)
    BY <2>1 DEF Moves, CreatingFits
  <2> QED BY <2>1, <2>2, SameProgress
<1>4. ASSUME NEW d \in Inits \cup Creates, pc'[d] = "done", Contract(d) = n PROVE pc[d] = "done"
  BY <1>4 DEF Moves, FileCommands
<1>5. \A d \in Inits \cup Creates :
        pc'[d] = "done" /\ Contract(d)' = n => Made(n)' /\ Creating(n)' = {}
  BY <1>1, <1>2, <1>4 DEF CreatingFits, Contract
<1> QED BY <1>1, <1>3, <1>5 DEF CreatingFits

\* The one that is creating it goes on, stops or comes to the end.
LEMMA Owner ==
    ASSUME NEW c \in FileCommands, Moves(c), NEW n, CreatingFits(n), c \in Creating(n),
           pc'[c] \in Busy => Progress(c)', pc'[c] = "done" => Made(n)'
    PROVE  CreatingFits(n)'
<1>1. Creating(n) = {c}
  BY DEF CreatingFits
<1>2. Creating(n)' \subseteq {c} /\ (c \in Creating(n)' => pc'[c] \in Busy)
  BY <1>1, OthersCreating DEF Creating, FileCommands
<1>3. ASSUME NEW d \in Inits \cup Creates, pc'[d] = "done", Contract(d) = n
      PROVE  Made(n)' /\ Creating(n)' = {}
  <2>1. d = c
    BY <1>1, <1>3 DEF CreatingFits, Moves, FileCommands
  <2>2. Creating(n)' = {}
    BY <1>2, <1>3, <2>1 DEF Busy
  <2> QED BY <1>3, <2>1, <2>2
<1> QED BY <1>2, <1>3 DEF CreatingFits, Contract

\* On to the next task, with the work of this one done.
LEMMA Onward ==
    ASSUME NEW c, Left(c) \in 1..9, Left(c)' = Left(c) - 1, pc'[c] = "begin", Progress(c),
           <<Contract(c), "contracts">> \in made' <=> Left(c) <= 9,
           \A f \in Files :
               /\ Left(c) = CopyAt[f] => part'[Contract(c)][f] = "template"
               /\ Left(c) = EditAt[f] => part'[Contract(c)][f] = "done"
               /\ Left(c) \notin {CopyAt[f], EditAt[f]}
                    => part'[Contract(c)][f] = part[Contract(c)][f]
    PROVE  Progress(c)'
<1> DEFINE L == Left(c)  n == Contract(c)
<1>1. L \in 1..9 /\ Contract(c)' = n /\ Left(c)' = L - 1
  BY DEF Contract
<1>2. ASSUME NEW f \in Files
      PROVE  /\ L - 1 < EditAt[f] => part'[n][f] = "done"
             /\ EditAt[f] < L - 1 /\ L - 1 < CopyAt[f] => part'[n][f] = "template"
             /\ L - 1 = EditAt[f] => part'[n][f] = "template"
  <2>1. /\ CopyAt[f] \in Nat /\ EditAt[f] \in Nat /\ EditAt[f] < CopyAt[f]
    BY FileOrder
  <2>2. /\ L < EditAt[f] => part[n][f] = "done"
        /\ EditAt[f] < L /\ L < CopyAt[f] => part[n][f] = "template"
    BY DEF Progress
  <2>3. /\ L = CopyAt[f] => part'[n][f] = "template"
        /\ L = EditAt[f] => part'[n][f] = "done"
        /\ L # CopyAt[f] /\ L # EditAt[f] => part'[n][f] = part[n][f]
    OBVIOUS
  <2> HIDE DEF L, n
  <2> QED BY <1>1, <2>1, <2>2, <2>3
<1>3. <<n, "contracts">> \in made' <=> L - 1 < 9
  BY <1>1
<1> HIDE DEF L, n
<1> QED BY <1>1, <1>2, <1>3 DEF Progress

LEMMA InitContracts == FilesInit => ContractsInv
<1> SUFFICES ASSUME FilesInit, NEW n \in Names PROVE CreatingFits(n)
  BY DEF ContractsInv
<1>1. \A d \in Inits \cup Creates : pc[d] = "idle"
  BY DEF FilesInit, FileCommands
<1>2. Creating(n) = {}
  BY <1>1 DEF Creating, Busy
<1> QED BY <1>1, <1>2 DEF CreatingFits

\* The length of a plan with one task less.
LEMMA OneLess ==
    ASSUME TypeInv, NEW c \in FileCommands, plan[c] # <<>>, plan'[c] = Tail(plan[c])
    PROVE  Left(c) \in Nat \ {0} /\ Left(c)' = Left(c) - 1
<1>1. plan[c] \in Seq(Task)
  BY DEF TypeInv, FilesTypeOK
<1> QED BY <1>1 DEF Left

\* The steps that have nothing to do with contracts.
LEMMA ElsewhereContracts ==
    ASSUME TypeInv, PlansRest, ContractsInv, NEW c \in FileCommands,
           \/ Start(c) \/ Look(c) \/ MakePiece(c) \/ OpenPiece(c) \/ WritePiece(c) \/ Answer(c)
           \/ c \in Accounts /\ (Load(c) \/ OpenAccounts(c) \/ WriteAccounts(c))
    PROVE  ContractsInv'
<1>1. Moves(c)
  BY StepMoves DEF Proceed
<1>2. part' = part /\ made' = made /\ crossed' = crossed /\ seen' = seen
  BY DEF Start, Look, MakePiece, OpenPiece, WritePiece, Answer, Load, OpenAccounts, WriteAccounts
<1>3. c \in Inits \cup Creates => Left(c) >= 10 /\ Left(c)' >= 10 /\ pc'[c] # "done"
  <2> SUFFICES ASSUME c \in Inits \cup Creates
               PROVE  Left(c) >= 10 /\ Left(c)' >= 10 /\ pc'[c] # "done"
    OBVIOUS
  <2>1. CASE Start(c)
    <3>1. plan'[c] = plan[c] /\ pc'[c] # "done"
      BY <2>1, GoToMoves DEF Start, Fails
    <3>2. Left(c) = Len(Plan(c)) /\ Left(c)' = Left(c)
      BY <2>1, <3>1 DEF PlansRest, Start, Left
    <3>3. Len(Plan(c)) = 10 \/ Len(Plan(c)) = 17
      BY PlanTurns
    <3> QED BY <3>1, <3>2, <3>3
  <2>2. CASE Look(c) \/ MakePiece(c) \/ OpenPiece(c) \/ WritePiece(c)
    <3>1. PICK place : At(c, "put", place)
      BY <2>2 DEF Look, MakePiece, OpenPiece, WritePiece
    <3>2. Left(c) > 10 /\ Left(c) \in 1..17
      BY <3>1, Turns
    <3>3. CASE plan'[c] = plan[c] /\ pc'[c] # "done"
      <4>1. Left(c)' = Left(c)
        BY <3>3 DEF Left
      <4> QED BY <3>2, <3>3, <4>1
    <3>4. CASE /\ plan[c] # <<>> /\ plan'[c] = Tail(plan[c])
               /\ pc'[c] = IF Len(plan[c]) = 1 THEN "done" ELSE "begin"
      <4>1. Left(c)' = Left(c) - 1
        BY <3>4, OneLess
      <4>2. pc'[c] = "begin"
        <5>1. Left(c) # 1
          BY <3>2
        <5> QED BY <3>4, <5>1 DEF Left
      <4> QED BY <3>2, <4>1, <4>2
    <3> QED BY <1>1, <3>3, <3>4 DEF Moves
  <2>3. CASE Answer(c) \/ (c \in Accounts /\ (Load(c) \/ OpenAccounts(c) \/ WriteAccounts(c)))
    <3>1. PICK place : At(c, "account", place)
      BY <2>3 DEF Answer, Load, OpenAccounts, WriteAccounts
    <3> QED BY <3>1, AtTask, FilesAssumption
  <2> QED BY <2>1, <2>2, <2>3
<1>4. ASSUME NEW n \in Names, n \notin crossed PROVE CreatingFits(n)'
  <2>1. CreatingFits(n)
    BY <1>4 DEF ContractsInv
  <2>2. c \notin Creating(n) /\ c \notin Creating(n)'
    <3>1. Len(CreateNew) = 10
      BY PlanTurns
    <3>2. c \in Inits \cup Creates => ~(Len(plan[c]) < 10) /\ ~(Len(plan'[c]) < 10)
      <4>1. Len(plan[c]) \in Nat /\ Len(plan'[c]) \in Nat
        <5>1. plan[c] \in Seq(Task) /\ (plan'[c] = plan[c] \/ (plan[c] # <<>> /\ plan'[c] = Tail(plan[c])))
          BY <1>1 DEF TypeInv, FilesTypeOK, Moves
        <5> QED BY <5>1
      <4> QED BY <1>3, <4>1 DEF Left
    <3> QED BY <3>1, <3>2 DEF Creating
  <2> QED BY <1>1, <1>2, <1>3, <2>1, <2>2, Bystander
<1> QED BY <1>2, <1>4 DEF ContractsInv

LEMMA KillContracts ==
    ASSUME TypeInv, ContractsInv, NEW c \in FileCommands, Kill(c) PROVE ContractsInv'
<1>1. Moves(c) /\ pc'[c] = "killed"
  BY StepMoves, GoToMoves DEF Kill
<1>2. part' = part /\ made' = made /\ crossed' = crossed /\ seen' = seen
  BY DEF Kill
<1>3. ASSUME NEW n \in Names, n \notin crossed PROVE CreatingFits(n)'
  <2>1. CreatingFits(n) /\ c \notin Creating(n)'
    BY <1>1, <1>3 DEF ContractsInv, Creating, Busy
  <2>2. CASE c \in Creating(n)
    BY <1>1, <2>1, <2>2, Owner DEF Busy
  <2>3. CASE c \notin Creating(n)
    BY <1>1, <1>2, <2>1, <2>3, Bystander
  <2> QED BY <2>2, <2>3
<1> QED BY <1>2, <1>3 DEF ContractsInv

\* A step of createNew is on its own contract.
LEMMA OtherContracts ==
    ASSUME TypeInv, ContractsInv, NEW c \in Inits \cup Creates,
           CheckComponent(c) \/ MakeDirectory(c) \/ OpenFile(c) \/ WriteFile(c) \/ ReadFile(c),
           NEW n \in Names, n \notin crossed, n # Contract(c)
    PROVE  CreatingFits(n)'
<1>1. Moves(c) /\ c \in FileCommands
  BY StepMoves DEF Proceed, FileCommands
<1>2. part'[n] = part[n] /\ (<<n, "contracts">> \in made' <=> <<n, "contracts">> \in made)
  BY DEF CheckComponent, MakeDirectory, OpenFile, WriteFile, ReadFile, Put, TypeInv, FilesTypeOK
<1>3. \A d \in FileCommands \ {c} : seen'[d] = seen[d]
  BY DEF CheckComponent, MakeDirectory, OpenFile, WriteFile, ReadFile, TypeInv, FilesTypeOK
<1>4. c \notin Creating(n) /\ c \notin Creating(n)' /\ CreatingFits(n)
  BY DEF Creating, Contract, ContractsInv
<1> QED BY <1>1, <1>2, <1>3, <1>4, Bystander

\* What createNew's step on to its next task makes of the command.
LEMMA CreatorAdvances ==
    ASSUME TypeInv, NEW c \in Inits \cup Creates, Advance(c), pc[c] \in Busy
    PROVE  /\ Moves(c) /\ Left(c) \in Nat \ {0} /\ Left(c)' = Left(c) - 1
           /\ Left(c) = 1 => pc'[c] = "done"
           /\ Left(c) # 1 => pc'[c] = "begin"
<1>1. c \in FileCommands /\ pc[c] \notin Ended
  BY DEF FileCommands, Busy, Ended
<1>2. /\ Moves(c) /\ plan[c] # <<>> /\ plan'[c] = Tail(plan[c])
      /\ pc'[c] = IF Len(plan[c]) = 1 THEN "done" ELSE "begin"
  BY <1>1, AdvanceIsMove
<1> QED BY <1>1, <1>2, OneLess DEF Left

LEMMA CheckContracts ==
    ASSUME TypeInv, PlansRest, ContractsInv, NEW c \in Inits \cup Creates, CheckComponent(c),
           Contract(c) \notin crossed'
    PROVE  CreatingFits(Contract(c))'
<1> DEFINE n == Contract(c)
<1>1. c \in FileCommands /\ n \in Names /\ Moves(c)
  BY StepMoves, FilesAssumption DEF Proceed, FileCommands, Contract
<1>2. part' = part /\ made' = made /\ seen' = seen /\ pc[c] = "begin"
  BY DEF CheckComponent, At
<1>3. CreatingFits(n) /\ Creating(n) \ {c} = {}
  BY <1>1 DEF CheckComponent, ContractsInv
<1>4. (Left(c) = 10 /\ Of(c) = "contracts") \/ (Left(c) = 4 /\ Of(c) = "tests")
  BY Turns DEF CheckComponent
<1>5. c \in Creating(n) <=> Left(c) < 10
  BY <1>2, InCreating DEF Busy
<1>6. CASE HasDirectory(n, Of(c))
  <2>1. pc'[c] = "failed"
    BY <1>1, <1>6, GoToMoves DEF CheckComponent, Fails
  <2>2. c \notin Creating(n)'
    BY <2>1 DEF Creating, Busy
  <2>3. CASE c \in Creating(n)
    BY <1>1, <1>3, <2>1, <2>3, Owner DEF Busy
  <2>4. CASE c \notin Creating(n)
    BY <1>1, <1>2, <1>3, <2>1, <2>2, <2>4, Bystander
  <2> QED BY <2>3, <2>4
<1>7. CASE ~HasDirectory(n, Of(c))
  <2>1. Left(c)' = Left(c) - 1 /\ pc'[c] = "begin"
    BY <1>2, <1>4, <1>7, CreatorAdvances DEF CheckComponent, Busy
  <2>2. CASE Left(c) = 4
    <3>1. c \in Creating(n) /\ Progress(c)
      BY <1>3, <1>5, <2>2 DEF CreatingFits
    <3>2. \A f \in Files : Left(c) \notin {CopyAt[f], EditAt[f]}
      BY <2>2, FileOrder
    <3>3. <<n, "contracts">> \in made'
      BY <1>2, <2>2, <3>1 DEF Progress
    <3>4. Progress(c)'
      BY <1>2, <2>1, <2>2, <3>1, <3>2, <3>3, Onward
    <3> QED BY <1>1, <1>3, <2>1, <3>1, <3>4, Owner
  <2>3. CASE Left(c) = 10
    <3>1. <<n, "contracts">> \notin made' /\ Left(c)' = 9
      BY <1>2, <1>4, <1>7, <2>1, <2>3 DEF HasDirectory
    <3>2. Progress(c)'
      BY <3>1, FileOrder DEF Progress, Contract
    <3>3. Creating(n)' \subseteq {c}
      BY <1>1, <1>3, <1>5, <2>3, OthersCreating DEF Creating, FileCommands
    <3>4. ASSUME NEW d \in Inits \cup Creates, pc'[d] = "done", Contract(d) = n PROVE FALSE
      <4>1. pc[d] = "done"
        BY <2>1, <1>1, <3>4 DEF Moves, FileCommands
      <4> QED BY <1>2, <1>3, <3>1, <3>4, <4>1 DEF CreatingFits, Made
    <3> QED BY <3>2, <3>3, <3>4 DEF CreatingFits, Contract
  <2> QED BY <1>4, <2>2, <2>3
<1> QED BY <1>6, <1>7

LEMMA DirectoryContracts ==
    ASSUME TypeInv, PlansRest, ContractsInv, NEW c \in Inits \cup Creates, MakeDirectory(c),
           Contract(c) \notin crossed
    PROVE  CreatingFits(Contract(c))'
<1> DEFINE n == Contract(c)
<1>1. c \in FileCommands /\ n \in Names /\ Moves(c)
  BY StepMoves, FilesAssumption DEF Proceed, FileCommands, Contract
<1>2. part' = part /\ made' = made \cup {<<n, Of(c)>>} /\ pc[c] = "begin"
  BY DEF MakeDirectory, At
<1>3. (Left(c) = 9 /\ Of(c) = "contracts") \/ (Left(c) = 3 /\ Of(c) = "tests")
  BY Turns DEF MakeDirectory
<1>4. CreatingFits(n) /\ c \in Creating(n)
  BY <1>1, <1>2, <1>3, InCreating DEF Busy, ContractsInv
<1>5. CASE Fails(c)
  BY <1>1, <1>4, <1>5, GoToMoves, Owner DEF Fails, Busy
<1>6. CASE Advance(c)
  <2>1. Left(c)' = Left(c) - 1 /\ pc'[c] = "begin" /\ Progress(c)
    BY <1>2, <1>3, <1>4, <1>6, CreatorAdvances DEF Busy, CreatingFits
  <2>2. \A f \in Files : Left(c) \notin {CopyAt[f], EditAt[f]}
    BY <1>3, FileOrder
  <2>3. <<n, "contracts">> \in made'
    BY <1>2, <1>3, <2>1 DEF Progress
  <2>4. Progress(c)'
    BY <1>2, <1>3, <2>1, <2>2, <2>3, Onward
  <2> QED BY <1>1, <1>4, <2>1, <2>4, Owner
<1> QED BY <1>5, <1>6 DEF MakeDirectory

LEMMA FileContracts ==
    ASSUME TypeInv, PlansRest, ContractsInv, NEW c \in Inits \cup Creates,
           OpenFile(c) \/ WriteFile(c) \/ ReadFile(c), Contract(c) \notin crossed
    PROVE  CreatingFits(Contract(c))'
<1> DEFINE n == Contract(c)  f == Of(c)
<1>0. PICK do \in {"copy", "edit"}, place \in Busy : At(c, do, place)
  BY DEF OpenFile, WriteFile, ReadFile, Busy, At
<1>1. c \in FileCommands /\ n \in Names /\ Moves(c)
  BY StepMoves, FilesAssumption DEF Proceed, FileCommands, Contract
<1>2. /\ f \in Files /\ Left(c) \in 1..8
      /\ do = "copy" => Left(c) = CopyAt[f]
      /\ do = "edit" => Left(c) = EditAt[f]
  <2>1. f \in Files /\ Left(c) \in 1..17 /\ (Left(c) = CopyAt[f] \/ Left(c) = EditAt[f])
    BY <1>0, Turns
  <2>2. CopyAt[f] \in Nat /\ EditAt[f] \in Nat /\ CopyAt[f] < 9 /\ EditAt[f] < CopyAt[f]
    BY <2>1, FileOrder
  <2>3. Left(c) \in 1..8
    BY <2>1, <2>2
  <2> QED BY <1>0, <2>1, <2>3, Turns
<1>3. CreatingFits(n) /\ c \in Creating(n) /\ Progress(c) /\ made' = made
  BY <1>0, <1>1, <1>2, InCreating
     DEF Busy, At, ContractsInv, CreatingFits, OpenFile, WriteFile, ReadFile
<1>4. \A g \in Files : /\ Left(c) = CopyAt[g] => do = "copy" /\ g = f
                       /\ Left(c) = EditAt[g] => do = "edit" /\ g = f
  BY <1>0, <1>2, FileOrder
<1>5. \A state : Put(c, state) => /\ part'[n][f] = state
                                  /\ \A g \in Files : g # f => part'[n][g] = part[n][g]
  BY <1>1, <1>2 DEF Put, TypeInv, FilesTypeOK
<1>6. <<n, "contracts">> \in made' /\ Left(c) < 9
  BY <1>2, <1>3 DEF Progress
<1>7. CASE OpenFile(c)
  <2>1. /\ pc'[c] = "write" /\ Left(c)' = Left(c) /\ seen' = seen
        /\ \A g \in Files : g # f => part'[n][g] = part[n][g]
        /\ do = "edit" => pc[c] = "open"
    BY <1>0, <1>1, <1>5, <1>7, GoToMoves DEF OpenFile, Left, At
  <2>2. ASSUME NEW g \in Files
        PROVE  /\ Left(c) < EditAt[g] => part'[n][g] = "done"
               /\ EditAt[g] < Left(c) /\ Left(c) < CopyAt[g] => part'[n][g] = "template"
               /\ Left(c) = EditAt[g] => seen'[c] = "template"
    <3>1. g # f => part'[n][g] = part[n][g]
      BY <2>1
    <3>2. g = f => ~(Left(c) < EditAt[g]) /\ ~(EditAt[g] < Left(c) /\ Left(c) < CopyAt[g])
      BY <1>0, <1>2, FileOrder
    <3>3. Left(c) = EditAt[g] => seen'[c] = "template"
      BY <1>3, <1>4, <2>1 DEF Progress
    <3> QED BY <1>3, <3>1, <3>2, <3>3 DEF Progress
  <2>3. Progress(c)'
    BY <1>6, <2>1, <2>2 DEF Progress, Contract
  <2> QED BY <1>1, <1>3, <2>1, <2>3, Owner
<1>8. CASE ReadFile(c)
  <2>1. /\ pc'[c] = "open" /\ pc[c] = "begin" /\ Left(c)' = Left(c) /\ do = "edit"
        /\ seen'[c] = part[n][f] /\ part' = part
    BY <1>0, <1>1, <1>8, GoToMoves DEF ReadFile, Left, At, TypeInv, FilesTypeOK
  <2>2. part[n][f] = "template"
    BY <1>2, <1>3, <2>1 DEF Progress
  <2>3. Progress(c)'
    BY <1>3, <1>6, <2>1, <2>2 DEF Progress, Contract
  <2> QED BY <1>1, <1>3, <2>1, <2>3, Owner
<1>9. CASE WriteFile(c)
  <2>1. /\ part'[n][f] = IF do = "copy" THEN "template" ELSE "done"
        /\ \A g \in Files : g # f => part'[n][g] = part[n][g]
        /\ pc[c] = "write" /\ Advance(c)
    <3>1. do = "edit" => pc[c] = "write" /\ seen[c] = "template"
      BY <1>0, <1>2, <1>3, <1>9 DEF WriteFile, At, Progress
    <3> QED BY <1>0, <1>5, <1>9, <3>1 DEF WriteFile, At
  <2>2. /\ Left(c)' = Left(c) - 1
        /\ Left(c) = 1 => pc'[c] = "done"
        /\ Left(c) # 1 => pc'[c] = "begin"
    BY <2>1, CreatorAdvances DEF Busy
  <2>3. \A g \in Files : /\ Left(c) = CopyAt[g] => part'[n][g] = "template"
                         /\ Left(c) = EditAt[g] => part'[n][g] = "done"
                         /\ Left(c) \notin {CopyAt[g], EditAt[g]} => part'[n][g] = part[n][g]
    BY <1>0, <1>2, <1>4, <2>1
  <2>4. CASE Left(c) = 1
    <3>1. ASSUME NEW g \in Files PROVE part'[n][g] = "done"
      <4>1. 1 <= EditAt[g] /\ EditAt[g] < CopyAt[g] /\ CopyAt[g] \in Nat /\ EditAt[g] \in Nat
        BY FileOrder
      <4>2. CASE EditAt[g] = 1
        BY <2>3, <2>4, <4>2
      <4>3. CASE EditAt[g] # 1
        <5>1. Left(c) < EditAt[g] /\ Left(c) \notin {CopyAt[g], EditAt[g]}
          BY <2>4, <4>1, <4>3
        <5> QED BY <1>3, <2>3, <5>1 DEF Progress
      <4> QED BY <4>2, <4>3
    <3>2. Made(n)'
      BY <1>6, <3>1 DEF Made
    <3> QED BY <1>1, <1>3, <2>2, <2>4, <3>2, Owner DEF Busy
  <2>5. CASE Left(c) # 1
    <3>1. Left(c) \in 1..9 /\ (<<n, "contracts">> \in made' <=> Left(c) <= 9)
      BY <1>2, <1>6
    <3>2. Progress(c)'
      BY <1>3, <2>2, <2>3, <2>5, <3>1, Onward
    <3> QED BY <1>1, <1>3, <2>2, <2>5, <3>2, Owner
  <2> QED BY <2>4, <2>5
<1> QED BY <1>7, <1>8, <1>9

LEMMA SameContracts ==
    ASSUME ContractsInv, UNCHANGED <<pc, plan, seen, made, part, crossed>>
    PROVE  ContractsInv'
<1> SUFFICES ASSUME NEW n \in Names, n \notin crossed' PROVE CreatingFits(n)'
  BY DEF ContractsInv
<1>1. CreatingFits(n)
  BY DEF ContractsInv
<1>2. Creating(n)' = Creating(n) /\ (Made(n)' <=> Made(n))
  BY DEF Creating, Made, Contract
<1>3. \A d \in Creating(n) : Progress(d)'
  BY <1>1, SameProgress DEF CreatingFits
<1>4. \A d : pc'[d] = pc[d] /\ Contract(d)' = Contract(d)
  BY DEF Contract
<1> QED BY <1>1, <1>2, <1>3, <1>4 DEF CreatingFits

LEMMA StepContracts == TypeInv /\ PlansRest /\ ContractsInv /\ [FilesNext]_fvars => ContractsInv'
<1> SUFFICES ASSUME TypeInv, PlansRest, ContractsInv, [FilesNext]_fvars PROVE ContractsInv'
  OBVIOUS
<1>1. CASE UNCHANGED fvars
  BY <1>1, SameContracts DEF fvars
<1>2. ASSUME NEW c \in FileCommands,
             CheckComponent(c) \/ MakeDirectory(c) \/ OpenFile(c) \/ WriteFile(c) \/ ReadFile(c)
      PROVE  ContractsInv'
  <2>1. c \in Inits \cup Creates
    BY <1>2, AtTask DEF CheckComponent, MakeDirectory, OpenFile, WriteFile, ReadFile, FileCommands
  <2>2. crossed \subseteq crossed'
    BY <1>2 DEF CheckComponent, MakeDirectory, OpenFile, WriteFile, ReadFile
  <2> SUFFICES ASSUME NEW n \in Names, n \notin crossed' PROVE CreatingFits(n)'
    BY DEF ContractsInv
  <2>3. CASE n # Contract(c)
    BY <1>2, <2>1, <2>2, <2>3, OtherContracts
  <2>4. CASE n = Contract(c)
    BY <1>2, <2>1, <2>2, <2>4, CheckContracts, DirectoryContracts, FileContracts
  <2> QED BY <2>3, <2>4
<1>3. CASE FilesNext
  BY <1>2, <1>3, ElsewhereContracts, KillContracts DEF FilesNext, Proceed
<1> QED BY <1>1, <1>3

LEMMA CreatedComplete == ContractsInv => ContractsAreComplete
<1>1. \A c \in Inits \cup Creates : Contract(c) \in Names
  BY FilesAssumption DEF Contract
<1> QED BY <1>1 DEF ContractsInv, CreatingFits, Made, ContractsAreComplete

-----------------------------------------------------------------------------
(* The files of a project.                                                 *)

FilesInv == TypeInv /\ PlansRest /\ AccountsInv /\ PiecesInv /\ ContractsInv

LEMMA InitFiles == FilesInit => FilesInv
BY InitTypes, InitRest, InitAccounts, InitPieces, InitContracts DEF FilesInv

LEMMA StepFiles == FilesInv /\ [FilesNext]_fvars => FilesInv'
BY StepTypes, StepRest, StepAccounts, StepPieces, StepContracts DEF FilesInv

LEMMA FilesInvariant == FilesSpec => []FilesInv
BY InitFiles, StepFiles, PTL DEF FilesSpec

\* A contract that createNew made is complete for good, unless two commands
\* were creating it at the same time; for any number of commands.
THEOREM ContractsComplete == FilesSpec => []ContractsAreComplete
<1>1. FilesInv => ContractsAreComplete
  BY CreatedComplete DEF FilesInv
<1> QED BY <1>1, FilesInvariant, PTL

\* When an init is done every piece is whole, but for those that are being
\* written, that a killed command tore, and accounts two commands were busy with.
THEOREM InitComplete == FilesSpec => []InitIsComplete
<1>1. FilesInv => InitIsComplete
  BY PiecesComplete DEF FilesInv
<1> QED BY <1>1, FilesInvariant, PTL

-----------------------------------------------------------------------------
(* The files beside the builds: a build that is killed counts as a kill,   *)
(* and no build does anything else to the files.                           *)

LEMMA KillCounts ==
    ASSUME FilesInv, kills' \in 0..MaxKills,
           UNCHANGED <<session, pc, plan, seen, copy, piece, made, part, keys,
                       mixed, crossed, cut>>
    PROVE  FilesInv'
<1>1. TypeInv'
  BY DEF FilesInv, TypeInv, FilesTypeOK, PlansFit
<1>2. PlansRest'
  BY DEF FilesInv, PlansRest, Left
<1>3. AccountsInv'
  BY DEF FilesInv, AccountsInv, Undisturbed, OneWriter, FreshCopy, Emptied, FileWhole, Survive,
     On, Asking, Writing, Putting, Filling, At, Of
<1>4. PiecesInv'
  BY DEF FilesInv, PiecesInv, AbsentIsDue, TornIsExplained, Torn, Left, Of
<1>5. ContractsInv'
  BY SameContracts DEF FilesInv
<1> QED BY <1>1, <1>2, <1>3, <1>4, <1>5 DEF FilesInv

LEMMA FilesBeside == FilesInv /\ [Next]_vars => FilesInv'
<1> SUFFICES ASSUME FilesInv, [Next]_vars PROVE FilesInv'
  OBVIOUS
<1>1. CASE [FilesNext]_fvars
  BY <1>1, StepFiles
<1>2. CASE /\ \E c \in Builds : KillBuild(c)
           /\ kills' = kills + 1
           /\ UNCHANGED <<session, pc, plan, seen, copy, piece, made, part, keys,
                          mixed, crossed, cut>>
  <2>1. kills' \in 0..MaxKills
    BY <1>2, FilesAssumption DEF KillBuild, FilesInv, TypeInv, FilesTypeOK
  <2> QED BY <1>2, <2>1, KillCounts
<1> QED BY <1>1, <1>2 DEF Next, vars

LEMMA FilesThroughout == Spec => []FilesInv
<1>1. Init => FilesInv
  BY InitFiles DEF Init
<1> QED BY <1>1, FilesBeside, PTL DEF Spec

\* The promises about accounts, contracts and pieces hold of the whole system,
\* with builds that run, fail and are killed beside the commands.
THEOREM FilesKept == Spec => [](AccountsSurvive /\ ContractsAreComplete /\ InitIsComplete)
<1>1. FilesInv => AccountsSurvive
  BY DEF FilesInv, AccountsInv, Undisturbed, Survive, AccountsSurvive, Writing
<1>2. FilesInv => ContractsAreComplete /\ InitIsComplete
  BY CreatedComplete, PiecesComplete DEF FilesInv
<1> QED BY <1>1, <1>2, FilesThroughout, PTL

\* account create and init implement RecordFile, beside any number of other
\* commands and builds: an account that was created is in accounts.json, and
\* no step takes it out, until two commands are busy with the file or one is
\* killed while it writes it.
THEOREM AccountsFiled == Spec => AccountsKept
<1>1. Init => AccountsFile!Init
  BY InitRecords DEF Init
<1>2. FilesInv /\ [Next]_vars => [AccountsFile!Next]_(AccountsFile!vars)
  <2> SUFFICES ASSUME FilesInv, [Next]_vars PROVE [AccountsFile!Next]_(AccountsFile!vars)
    OBVIOUS
  <2>1. CASE [FilesNext]_fvars
    BY <2>1, FilesAreRecords DEF FilesInv
  <2>2. CASE UNCHANGED <<pc, plan, copy, piece, keys, mixed, cut>>
    BY <2>2, Zenon DEF AccountsFile!vars, Stored, At
  <2> QED BY <2>1, <2>2 DEF Next, vars
<1> QED BY <1>1, <1>2, FilesThroughout, PTL DEF Spec, AccountsKept, AccountsFile!Spec

-----------------------------------------------------------------------------
(* Builds: their types.                                                    *)

\* What TypeOK says of the builds.
BuildTypes ==
    /\ at \in [Builds -> Working \cup Ended \cup {"idle"}]
    /\ todo \in [Builds -> SUBSET Names]
    /\ now \in [Builds -> Names]
    /\ child \in [Compiles -> {"none", "waiting", "building", "ok", "bad"}]
    /\ heard \in [Compiles -> BOOLEAN]
    /\ held \in [Builds -> Versions \cup {0}] /\ since \in [Builds -> Versions \cup {0}]
    /\ built \in [Compiles -> Versions]
    /\ source \in [Names -> Versions]
    /\ target \in [Names -> Versions \cup {0}] /\ binding \in [Names -> Versions \cup {0}]
    /\ fresh \in [Names -> Versions \cup {0}]
    /\ artifact \in [Names -> [Kinds -> Versions \cup {0}]]
    /\ builder \in [Names -> Compiles \cup {Nobody}]
    /\ outrun \subseteq Names

\* A step of one build that does more than open a text, as the actions have
\* it, and one of the user.
Acts(c) ==
    \/ Begin(c)
    \/ \E n \in Names : Take(c, n)
    \/ c \in Compiles /\ (CargoReads(c) \/ CargoEnds(c) \/ Output(c) \/ Exit(c))
    \/ Copy(c) \/ NotGenerated(c)
    \/ Validate(c) \/ ReadMetadata(c) \/ SaveBindings(c)
    \/ KillBuild(c)

LEMMA BuildSteps ==
    [Next]_vars => \/ UNCHANGED cvars
                   \/ \E c \in Builds : Acts(c)
                   \/ \E n \in Names : Edit(n)
<1> SUFFICES ASSUME [Next]_vars
             PROVE  UNCHANGED cvars \/ (\E c \in Builds : Acts(c)) \/ \E n \in Names : Edit(n)
  OBVIOUS
<1>1. \/ UNCHANGED bvars \/ \E c \in Builds : OpenText(c)
      \/ \E c \in Builds : Acts(c)
      \/ \E n \in Names : Edit(n)
  BY DEF Next, vars, BuildProceeds, Acts, Builds
<1>2. UNCHANGED bvars \/ (\E c \in Builds : OpenText(c)) => UNCHANGED cvars
  BY DEF bvars, OpenText
<1> QED BY <1>1, <1>2

\* What TypeOK says of the texts.
TextTypes ==
    /\ torn \subseteq Texts /\ slashed \subseteq Texts
    /\ opened \subseteq Builds

LEMMA SplitTypes == TypeOK <=> FilesTypeOK /\ BuildTypes /\ TextTypes
BY DEF TypeOK, BuildTypes, TextTypes

LEMMA InitBuildTypes == Init => BuildTypes
<1>1. 1 \in Versions
  BY BuildAssumption DEF Versions
<1> QED BY <1>1, FilesAssumption DEF Init, BuildTypes, Builds

LEMMA ThroughTypes ==
    ASSUME BuildTypes, NEW c \in Builds, Through(c)
    PROVE  /\ at' \in [Builds -> Working \cup Ended \cup {"idle"}]
           /\ todo' \in [Builds -> SUBSET Names]
           /\ fresh' \in [Names -> Versions \cup {0}]
           /\ builder' \in [Names -> Compiles \cup {Nobody}]
<1>1. at' \in [Builds -> Working \cup Ended \cup {"idle"}]
  BY DEF BuildTypes, Through, Goes, Working, Ended
<1>2. fresh' \in [Names -> Versions \cup {0}]
  BY DEF BuildTypes, Through
<1> QED BY <1>1, <1>2 DEF BuildTypes, Through

LEMMA StepBuildTypes == BuildTypes /\ [Next]_vars => BuildTypes'
<1> SUFFICES ASSUME BuildTypes, [Next]_vars PROVE BuildTypes'
  OBVIOUS
<1>1. CASE UNCHANGED cvars
  BY <1>1 DEF cvars, BuildTypes
<1>2. ASSUME NEW c \in Builds, Begin(c) PROVE BuildTypes'
  BY <1>2, BuildAssumption DEF Begin, BuildTypes, Goes, Working, Ended, Found
<1>3. ASSUME NEW c \in Builds, NEW n \in Names, Take(c, n) PROVE BuildTypes'
  BY <1>3 DEF Take, BuildTypes, Goes, Working
<1>4. ASSUME NEW c \in Compiles, CargoReads(c) PROVE BuildTypes'
  BY <1>4 DEF CargoReads, BuildTypes, Builds
<1>5. ASSUME NEW c \in Compiles, CargoEnds(c) PROVE BuildTypes'
  <2>1. now[c] \in Names /\ built[c] \in Versions
    BY DEF BuildTypes, Builds
  <2>2. child' \in [Compiles -> {"none", "waiting", "building", "ok", "bad"}]
    BY <1>5 DEF CargoEnds, BuildTypes
  <2>3. \/ /\ target' = [target EXCEPT ![now[c]] = built[c]]
           /\ builder' = [builder EXCEPT ![now[c]] = c]
        \/ target' = target /\ builder' = builder
    BY <1>5 DEF CargoEnds
  <2>4. target' \in [Names -> Versions \cup {0}]
    BY <2>1, <2>3 DEF BuildTypes
  <2>5. builder' \in [Names -> Compiles \cup {Nobody}]
    BY <2>1, <2>3 DEF BuildTypes
  <2> QED BY <1>5, <2>2, <2>4, <2>5 DEF CargoEnds, BuildTypes
<1>6. ASSUME NEW c \in Compiles, Output(c) PROVE BuildTypes'
  BY <1>6 DEF Output, BuildTypes
<1>7. ASSUME NEW c \in Compiles, Exit(c) PROVE BuildTypes'
  BY <1>7 DEF Exit, BuildTypes, Goes, Working, Ended, Kinds
<1>8. ASSUME NEW c \in Builds, Copy(c) PROVE BuildTypes'
  BY <1>8 DEF Copy, Copied, BuildTypes, Goes, Working, Kinds
<1>9. ASSUME NEW c \in Builds, Validate(c) PROVE BuildTypes'
  BY <1>9, ThroughTypes DEF Validate, BuildTypes, Goes, Working, Ended
<1>10. ASSUME NEW c \in Builds, ReadMetadata(c) PROVE BuildTypes'
  BY <1>10 DEF ReadMetadata, BuildTypes, Goes, Working, Ended, Kinds
<1>11. ASSUME NEW c \in Builds, SaveBindings(c) PROVE BuildTypes'
  BY <1>11, ThroughTypes DEF SaveBindings, BuildTypes
<1>12. ASSUME NEW c \in Builds, KillBuild(c) PROVE BuildTypes'
  BY <1>12 DEF KillBuild, BuildTypes, Goes, Working, Ended
<1>13. ASSUME NEW n \in Names, Edit(n) PROVE BuildTypes'
  BY <1>13, BuildAssumption DEF Edit, BuildTypes, Versions
<1>14. ASSUME NEW c \in Builds, NotGenerated(c) PROVE BuildTypes'
  BY <1>14 DEF NotGenerated, BuildTypes, Goes, Ended
<1> QED BY <1>1, <1>2, <1>3, <1>4, <1>5, <1>6, <1>7, <1>8, <1>9, <1>10, <1>11, <1>12, <1>13,
           <1>14, BuildSteps DEF Acts

-----------------------------------------------------------------------------
(* Builds: their texts.                                                    *)

\* A command has a text open while it is at it, and what is torn is being
\* written or was when a command was killed.
TextInv ==
    /\ TextTypes
    /\ \A c \in opened : at[c] \in Writes
    /\ \A text \in torn : Explained(text)

LEMMA InitText == Init => TextInv
BY DEF Init, TextInv, TextTypes

\* One command goes on, and has no text open.
LEMMA MoveText ==
    ASSUME TextInv, NEW c, c \notin opened, UNCHANGED texts,
           \A d \in Builds \ {c} : at'[d] = at[d] /\ now'[d] = now[d]
    PROVE  TextInv'
<1>1. UNCHANGED <<torn, opened, slashed>> /\ opened \subseteq Builds
  BY DEF texts, TextInv, TextTypes
<1>2. TextTypes' /\ \A d \in opened' : at'[d] \in Writes
  BY <1>1 DEF TextInv, TextTypes
<1>3. \A d \in opened : Text(d)' = Text(d)
  BY <1>1 DEF Text
<1>4. ASSUME NEW text \in torn' PROVE Explained(text)'
  BY <1>1, <1>3 DEF TextInv, Explained
<1> QED BY <1>2, <1>4 DEF TextInv

LEMMA SameText == TextInv /\ UNCHANGED <<at, now, texts>> => TextInv'
BY DEF TextInv, TextTypes, texts, Explained, Text

LEMMA FilledText ==
    ASSUME TextInv, NEW c \in Builds, Filled(c),
           \A d \in Builds \ {c} : at'[d] = at[d] /\ now'[d] = now[d]
    PROVE  TextInv'
<1>1. /\ opened' = opened \ {c} /\ opened \subseteq Builds
      /\ torn' = torn \ {Text(c)} /\ slashed' = slashed \ {Text(c)}
  BY DEF Filled, TextInv, TextTypes
<1>2. TextTypes' /\ \A d \in opened' : at'[d] \in Writes
  BY <1>1 DEF TextInv, TextTypes
<1>3. \A d \in opened' : Text(d)' = Text(d)
  BY <1>1 DEF Text
<1>4. ASSUME NEW text \in torn' PROVE Explained(text)'
  BY <1>1, <1>3 DEF TextInv, Explained
<1> QED BY <1>2, <1>4 DEF TextInv

LEMMA KilledText ==
    ASSUME BuildTypes, TextInv, NEW c \in Builds, KillBuild(c)
    PROVE  TextInv'
<1>1. /\ opened' = opened \ {c} /\ opened \subseteq Builds
      /\ slashed' = IF c \in opened THEN slashed \cup {Text(c)} ELSE slashed
      /\ UNCHANGED <<torn, now>>
      /\ \A d \in Builds \ {c} : at'[d] = at[d]
  BY DEF KillBuild, Goes, TextInv, TextTypes, BuildTypes
<1>2. c \in opened => Text(c) \in Texts
  BY DEF TextInv, Text, Texts, BuildTypes
<1>3. TextTypes' /\ \A d \in opened' : at'[d] \in Writes
  BY <1>1, <1>2 DEF TextInv, TextTypes
<1>4. \A d \in opened' : Text(d)' = Text(d)
  BY <1>1 DEF Text
<1>5. ASSUME NEW text \in torn' PROVE Explained(text)'
  BY <1>1, <1>4 DEF TextInv, Explained
<1> QED BY <1>3, <1>5 DEF TextInv

LEMMA OpenedText ==
    ASSUME BuildTypes, TextInv, NEW c \in Builds, OpenText(c)
    PROVE  TextInv'
<1>1. /\ opened' = opened \cup {c} /\ torn' = torn \cup {Text(c)} /\ slashed' = slashed
      /\ UNCHANGED <<at, now>> /\ at[c] \in Writes
  BY DEF OpenText, cvars
<1>2. Text(c) \in Texts
  BY <1>1 DEF Text, Texts, BuildTypes
<1>3. TextTypes' /\ \A d \in opened' : at'[d] \in Writes
  BY <1>1, <1>2 DEF TextInv, TextTypes
<1>4. \A d : Text(d)' = Text(d)
  BY <1>1 DEF Text
<1>5. ASSUME NEW text \in torn' PROVE Explained(text)'
  BY <1>1, <1>4 DEF TextInv, Explained
<1> QED BY <1>3, <1>5 DEF TextInv

\* What a command has done since it opened a text is to fill it.
LEMMA ActsText ==
    ASSUME BuildTypes, TextInv, NEW c \in Builds, Acts(c)
    PROVE  TextInv'
<1>1. c \in opened => at[c] \in {"contract", "wasm", "json", "save"}
  BY DEF TextInv, Writes, Kinds
<1>2. CASE Begin(c) \/ (\E n \in Names : Take(c, n)) \/ NotGenerated(c) \/ Validate(c) \/ ReadMetadata(c)
  <2>1. at[c] \in {"idle", "next", "validate", "read"} \/ NotGenerated(c)
    BY <1>2 DEF Begin, Take, Validate, ReadMetadata
  <2>2. c \notin opened /\ UNCHANGED texts
    BY <1>1, <1>2, <2>1 DEF Begin, Take, NotGenerated, Validate, ReadMetadata
  <2>3. \A d \in Builds \ {c} : at'[d] = at[d] /\ now'[d] = now[d]
    BY <1>2 DEF Begin, Take, NotGenerated, Validate, ReadMetadata, Through, Goes, BuildTypes
  <2> QED BY <2>2, <2>3, MoveText
<1>3. CASE c \in Compiles /\ (CargoReads(c) \/ CargoEnds(c) \/ Output(c))
  <2>1. UNCHANGED <<at, now, texts>>
    BY <1>3 DEF CargoReads, CargoEnds, Output
  <2> QED BY <2>1, SameText
<1>4. CASE c \in Compiles /\ Exit(c)
  <2>1. at[c] = "cargo" /\ UNCHANGED texts /\ \A d \in Builds \ {c} : at'[d] = at[d] /\ now'[d] = now[d]
    BY <1>4 DEF Exit, Goes, BuildTypes
  <2> QED BY <1>1, <2>1, MoveText
<1>5. CASE Copy(c) \/ SaveBindings(c)
  <2>1. Filled(c)
    BY <1>5 DEF Copy, SaveBindings
  <2>2. \A d \in Builds \ {c} : at'[d] = at[d] /\ now'[d] = now[d]
    BY <1>5 DEF Copy, SaveBindings, Through, Goes, BuildTypes
  <2> QED BY <2>1, <2>2, FilledText
<1>6. CASE KillBuild(c)
  BY <1>6, KilledText
<1> QED BY <1>2, <1>3, <1>4, <1>5, <1>6 DEF Acts

LEMMA StepText == BuildTypes /\ TextInv /\ [Next]_vars => TextInv'
<1> SUFFICES ASSUME BuildTypes, TextInv, [Next]_vars PROVE TextInv'
  OBVIOUS
<1>1. \/ UNCHANGED bvars \/ \E c \in Builds : OpenText(c)
      \/ \E c \in Builds : Acts(c)
      \/ \E n \in Names : Edit(n)
  BY DEF Next, vars, BuildProceeds, Acts, Builds
<1>2. UNCHANGED bvars \/ (\E n \in Names : Edit(n)) => UNCHANGED <<at, now, texts>>
  BY DEF bvars, cvars, Edit
<1> QED BY <1>1, <1>2, SameText, OpenedText, ActsText

LEMMA TextThroughout == Spec => []TextInv
BY InitBuildTypes, StepBuildTypes, InitText, StepText, PTL DEF Spec

\* Types, of the files and of the builds.
THEOREM TypeCorrect == Spec => []TypeOK
<1>1. Spec => []BuildTypes
  BY InitBuildTypes, StepBuildTypes, PTL DEF Spec
<1>2. FilesInv => FilesTypeOK
  BY DEF FilesInv, TypeInv
<1>3. TextInv => TextTypes
  BY DEF TextInv
<1> QED BY <1>1, <1>2, <1>3, FilesThroughout, TextThroughout, SplitTypes, PTL

-----------------------------------------------------------------------------
(* Builds: nothing older than the source a compile came to.                *)

\* The artifacts a command has copied of the contract it is at.
Behind(c) ==
    CASE at[c] = "wasm" -> {"contract"}
      [] at[c] = "json" -> {"contract", "wasm"}
      [] at[c] \in {"validate", "read", "save"} -> Kinds
      [] OTHER -> {}

\* Its cargo has ended well.
HasBuilt(c) == child[c] = "ok" \/ at[c] \in Kinds \cup {"validate", "read", "save"}

ChildFits == \A c \in Compiles : child[c] # "none" => at[c] \in {"cargo", "killed"}

\* The lock on the target directory.
OneCargo == \A c, d \in Compiles :
    child[c] = "building" /\ child[d] = "building" /\ now[c] = now[d] => c = d

\* Versions only pass from the source to the target to the artifacts.
InOrder == \A n \in Names :
    target[n] <= source[n] /\ \A k \in Kinds : artifact[n][k] <= target[n]

\* How far the source that a compile came to has passed on.
CargoFits(c) ==
    /\ since[c] <= source[now[c]]
    /\ child[c] = "building" =>
           target[now[c]] <= built[c] /\ built[c] <= source[now[c]] /\ since[c] <= built[c]
    /\ HasBuilt(c) => since[c] <= target[now[c]]
    /\ \A k \in Behind(c) : since[c] <= artifact[now[c]][k]

FreshInv ==
    /\ ChildFits /\ OneCargo /\ InOrder
    /\ \A c \in Compiles : CargoFits(c)
    /\ BuildsAreFresh

\* Versions are numbers, which is all the arithmetic below needs of the types.
Numbered ==
    /\ \A c \in Builds : now[c] \in Names /\ since[c] \in Nat
    /\ \A c \in Compiles : c \in Builds /\ built[c] \in Nat
    /\ \A n \in Names : source[n] \in Nat /\ target[n] \in Nat /\ fresh[n] \in Nat
    /\ \A n \in Names, k \in Kinds : artifact[n][k] \in Nat

LEMMA AllNumbered == BuildTypes => Numbered
<1> SUFFICES ASSUME BuildTypes PROVE Numbered
  OBVIOUS
<1>1. Versions \subseteq Nat /\ 0 \in Nat
  BY BuildAssumption DEF Versions
<1>2. \A c \in Builds : now[c] \in Names /\ since[c] \in Nat
  BY <1>1 DEF BuildTypes
<1>3. \A c \in Compiles : c \in Builds /\ built[c] \in Nat
  BY <1>1 DEF BuildTypes, Builds
<1>4. \A n \in Names : source[n] \in Nat /\ target[n] \in Nat /\ fresh[n] \in Nat
  BY <1>1 DEF BuildTypes
<1>5. ASSUME NEW n \in Names, NEW k \in Kinds PROVE artifact[n][k] \in Nat
  <2>1. artifact[n] \in [Kinds -> Versions \cup {0}]
    BY DEF BuildTypes
  <2> QED BY <1>1, <2>1
<1> QED BY <1>2, <1>3, <1>4, <1>5 DEF Numbered

LEMMA NumberedAfter == BuildTypes' => Numbered'
BY AllNumbered, PTL

LEMMA Numbers ==
    ASSUME BuildTypes
    PROVE  /\ \A c \in Builds : now[c] \in Names /\ since[c] \in Nat
           /\ \A c \in Compiles : c \in Builds /\ built[c] \in Nat
           /\ \A n \in Names : source[n] \in Nat /\ target[n] \in Nat /\ fresh[n] \in Nat
           /\ \A n \in Names, k \in Kinds : artifact[n][k] \in Nat
BY AllNumbered DEF Numbered

\* One command moves and leaves the files alone.
CommandMoves(c) ==
    /\ UNCHANGED <<source, target, artifact>>
    /\ \A d \in Builds \ {c} : at'[d] = at[d] /\ now'[d] = now[d] /\ since'[d] = since[d]
    /\ \A d \in Compiles \ {c} : child'[d] = child[d] /\ built'[d] = built[d]

LEMMA SameCargo ==
    ASSUME NEW d \in Compiles, CargoFits(d),
           at'[d] = at[d], now'[d] = now[d], since'[d] = since[d],
           child'[d] = child[d], built'[d] = built[d],
           UNCHANGED <<source, target, artifact>>
    PROVE  CargoFits(d)'
<1>1. Behind(d)' = Behind(d) /\ HasBuilt(d)' = HasBuilt(d)
  BY DEF Behind, HasBuilt
<1> QED BY <1>1 DEF CargoFits

LEMMA MoveFresh ==
    ASSUME FreshInv, NEW c \in Builds, CommandMoves(c),
           c \in Compiles => /\ CargoFits(c)'
                             /\ child'[c] # "none" => at'[c] \in {"cargo", "killed"}
                             /\ child'[c] = "building" => child[c] = "building" /\ now'[c] = now[c],
           BuildsAreFresh'
    PROVE  FreshInv'
<1>1. ASSUME NEW d \in Compiles PROVE CargoFits(d)'
  BY SameCargo DEF FreshInv, CommandMoves, Builds
<1>2. ChildFits'
  BY DEF FreshInv, CommandMoves, ChildFits, Builds
<1>3. \A d \in Compiles : child'[d] = "building" => child[d] = "building" /\ now'[d] = now[d]
  BY DEF CommandMoves, Builds
<1>4. OneCargo'
  BY <1>3 DEF FreshInv, OneCargo
<1>5. InOrder'
  BY DEF FreshInv, InOrder, CommandMoves
<1> QED BY <1>1, <1>2, <1>4, <1>5 DEF FreshInv

LEMMA InitFresh == Init => FreshInv
<1> SUFFICES ASSUME Init PROVE FreshInv
  OBVIOUS
<1>1. BuildTypes
  BY InitBuildTypes
<1>2. ChildFits /\ OneCargo
  BY DEF Init, ChildFits, OneCargo
<1>3. InOrder /\ BuildsAreFresh
  BY DEF Init, InOrder, BuildsAreFresh
<1>4. ASSUME NEW c \in Compiles PROVE CargoFits(c)
  <2>1. c \in Builds /\ Flipper \in Names
    BY FilesAssumption DEF Builds
  <2>2. Behind(c) = {} /\ ~HasBuilt(c) /\ child[c] = "none"
    BY <2>1 DEF Init, Behind, HasBuilt, Kinds
  <2>3. since[c] <= source[now[c]]
    BY <2>1 DEF Init
  <2> QED BY <2>2, <2>3 DEF CargoFits
<1> QED BY <1>2, <1>3, <1>4 DEF FreshInv

\* Coming to a contract, and the ways of a cargo to its end.
LEMMA BeginFresh ==
    ASSUME BuildTypes, FreshInv, NEW c \in Builds,
           Begin(c) \/ KillBuild(c) \/ NotGenerated(c) \/ Validate(c) \/ ReadMetadata(c)
    PROVE  FreshInv'
<1>1. CommandMoves(c) /\ child' = child /\ built' = built /\ now' = now /\ since' = since
  BY DEF Begin, KillBuild, NotGenerated, Validate, Through, ReadMetadata, CommandMoves, Goes, BuildTypes
<1>2. c \in Compiles => fresh' = fresh
  BY BuildAssumption DEF Begin, KillBuild, NotGenerated, Validate, ReadMetadata
<1>3. c \notin Compiles => fresh' = fresh
  BY DEF Begin, KillBuild, NotGenerated, Validate, Through, ReadMetadata
<1>4. BuildsAreFresh'
  BY <1>1, <1>2, <1>3 DEF FreshInv, BuildsAreFresh, CommandMoves
<1>5. ASSUME c \in Compiles PROVE CargoFits(c)' /\ (child'[c] # "none" => at'[c] \in {"cargo", "killed"})
  <2>1. CargoFits(c) /\ (child[c] # "none" => at[c] \in {"cargo", "killed"})
    BY <1>5 DEF FreshInv, ChildFits
  <2>2. at'[c] \in {"next", "failed", "killed"} \/ (at[c] = "validate" /\ at'[c] = "read")
        \/ (at[c] = "read" /\ at'[c] = "save")
    BY <1>5, BuildAssumption DEF Begin, KillBuild, NotGenerated, Validate, ReadMetadata, Goes, BuildTypes
  <2>3. at[c] \in {"idle", "contract", "wasm", "json", "validate", "read"} \/ at'[c] = "killed"
    BY DEF Begin, KillBuild, NotGenerated, Validate, ReadMetadata, Goes, Kinds, BuildTypes
  <2>4. Behind(c)' \subseteq Behind(c) /\ (HasBuilt(c)' => HasBuilt(c))
    BY <1>1, <2>2 DEF Behind, HasBuilt, Kinds
  <2>5. CargoFits(c)'
    BY <1>1, <2>1, <2>4 DEF CargoFits, CommandMoves
  <2> QED BY <1>1, <2>1, <2>3, <2>5
<1> QED BY <1>1, <1>4, <1>5, MoveFresh

LEMMA TakeFresh ==
    ASSUME BuildTypes, FreshInv, NEW c \in Builds, NEW n \in Names, Take(c, n)
    PROVE  FreshInv'
<1>1. CommandMoves(c) /\ built' = built
  BY DEF Take, CommandMoves, Goes, BuildTypes
<1>2. BuildsAreFresh'
  BY DEF Take, FreshInv, BuildsAreFresh
<1>3. ASSUME c \in Compiles
      PROVE  at'[c] = "cargo" /\ child'[c] = "waiting" /\ now'[c] = n /\ since'[c] = source[n]
  BY <1>3 DEF Take, Goes, BuildTypes
<1>4. ASSUME c \in Compiles PROVE CargoFits(c)'
  <2>1. Behind(c)' = {} /\ ~HasBuilt(c)'
    BY <1>3, <1>4 DEF Behind, HasBuilt, Kinds
  <2>2. since'[c] <= source'[now'[c]]
    BY <1>1, <1>3, <1>4, Numbers DEF CommandMoves
  <2> QED BY <1>3, <1>4, <2>1, <2>2 DEF CargoFits
<1> QED BY <1>1, <1>2, <1>3, <1>4, MoveFresh

LEMMA OutputFresh ==
    ASSUME BuildTypes, FreshInv, NEW c \in Compiles, Output(c) \/ Exit(c)
    PROVE  FreshInv'
<1>1. CommandMoves(c) /\ built' = built /\ now' = now /\ since' = since /\ c \in Builds
  BY DEF Output, Exit, CommandMoves, Goes, BuildTypes, Builds
<1>2. BuildsAreFresh'
  BY DEF Output, Exit, FreshInv, BuildsAreFresh
<1>3. CargoFits(c) /\ at[c] = "cargo"
  BY DEF FreshInv, Output, Exit
<1>4. CASE Output(c)
  <2>1. at' = at /\ child' = child
    BY <1>4 DEF Output
  <2>2. CargoFits(c)'
    BY <1>1, <1>3, <2>1, SameCargo DEF CommandMoves
  <2> QED BY <1>1, <1>2, <1>3, <2>1, <2>2, MoveFresh
<1>5. CASE Exit(c)
  <2>1. /\ child'[c] = "none" /\ at'[c] \in {"contract", "failed"}
        /\ at'[c] = "contract" => child[c] = "ok"
    BY <1>1, <1>5 DEF Exit, Goes, BuildTypes
  <2>2. Behind(c)' = {} /\ (HasBuilt(c)' => HasBuilt(c))
    BY <2>1 DEF Behind, HasBuilt, Kinds
  <2>3. CargoFits(c)'
    BY <1>1, <1>3, <2>1, <2>2 DEF CargoFits, CommandMoves
  <2> QED BY <1>1, <1>2, <2>1, <2>3, MoveFresh
<1> QED BY <1>4, <1>5

\* When it is through with a contract it has copied all of them.
LEMMA SaveFresh ==
    ASSUME BuildTypes, FreshInv, NEW c \in Builds, SaveBindings(c)
    PROVE  FreshInv'
<1>1. CommandMoves(c) /\ child' = child /\ built' = built /\ now' = now /\ since' = since
  BY DEF SaveBindings, Through, CommandMoves, Goes, BuildTypes
<1>2. at[c] = "save" /\ at'[c] \in {"done", "next"}
  BY DEF SaveBindings, Through, Goes, BuildTypes
<1>3. ASSUME NEW n \in Names, NEW k \in Kinds PROVE artifact'[n][k] >= fresh'[n]
  <2>1. fresh'[n] = fresh[n] \/ (c \in Compiles /\ n = now[c] /\ fresh'[n] = since[c])
    BY DEF SaveBindings, Through, BuildTypes
  <2>2. c \in Compiles => since[c] <= artifact[now[c]][k]
    BY <1>2 DEF FreshInv, CargoFits, Behind
  <2>3. artifact[n][k] >= fresh[n] /\ artifact' = artifact
    BY <1>1 DEF FreshInv, BuildsAreFresh, CommandMoves
  <2>4. artifact[n][k] \in Nat /\ since[c] \in Nat
    BY Numbers
  <2> QED BY <2>1, <2>2, <2>3, <2>4
<1>4. ASSUME c \in Compiles PROVE CargoFits(c)' /\ child'[c] = "none"
  <2>1. child[c] = "none" /\ CargoFits(c)
    BY <1>2, <1>4 DEF FreshInv, ChildFits
  <2>2. Behind(c)' = {} /\ ~HasBuilt(c)'
    BY <1>1, <1>2, <2>1 DEF Behind, HasBuilt, Kinds
  <2> QED BY <1>1, <2>1, <2>2 DEF CargoFits, CommandMoves
<1>5. BuildsAreFresh'
  BY <1>3 DEF BuildsAreFresh
<1> QED BY <1>1, <1>4, <1>5, MoveFresh

\* Versions only grow while a command stays where it is.
LEMMA Grown ==
    ASSUME BuildTypes, BuildTypes', NEW d \in Compiles, CargoFits(d),
           at'[d] = at[d], now'[d] = now[d], since'[d] = since[d],
           child'[d] = child[d], built'[d] = built[d],
           source[now[d]] <= source'[now[d]], target[now[d]] <= target'[now[d]],
           \A k \in Kinds : artifact[now[d]][k] <= artifact'[now[d]][k],
           child[d] = "building" => target'[now[d]] = target[now[d]]
    PROVE  CargoFits(d)'
<1> DEFINE n == now[d]
<1>1. /\ n \in Names /\ since[d] \in Nat /\ built[d] \in Nat
      /\ source[n] \in Nat /\ target[n] \in Nat
      /\ \A k \in Kinds : artifact[n][k] \in Nat
  BY Numbers
<1>2. source'[n] \in Nat /\ target'[n] \in Nat /\ \A k \in Kinds : artifact'[n][k] \in Nat
  <2>1. n \in Names
    BY <1>1
  <2> HIDE DEF n
  <2> QED BY <2>1, NumberedAfter DEF Numbered
<1>3. Behind(d)' = Behind(d) /\ (HasBuilt(d)' <=> HasBuilt(d)) /\ Behind(d) \subseteq Kinds
  BY DEF Behind, HasBuilt, Kinds
<1>4. since'[d] <= source'[now'[d]]
  BY <1>1, <1>2 DEF CargoFits
<1>5. child'[d] = "building" =>
          target'[now'[d]] <= built'[d] /\ built'[d] <= source'[now'[d]] /\ since'[d] <= built'[d]
  BY <1>1, <1>2 DEF CargoFits
<1>6. HasBuilt(d)' => since'[d] <= target'[now'[d]]
  BY <1>1, <1>2, <1>3 DEF CargoFits
<1>7. \A k \in Behind(d)' : since'[d] <= artifact'[now'[d]][k]
  <2> SUFFICES ASSUME NEW k \in Behind(d)' PROVE since'[d] <= artifact'[now'[d]][k]
    OBVIOUS
  <2>1. k \in Kinds /\ since[d] <= artifact[n][k] /\ artifact[n][k] <= artifact'[n][k]
    BY <1>3 DEF CargoFits
  <2> QED BY <1>1, <1>2, <2>1
<1> QED BY <1>4, <1>5, <1>6, <1>7 DEF CargoFits

\* The one cargo that has the lock builds what it finds.
LEMMA ReadsFresh ==
    ASSUME BuildTypes, FreshInv, NEW c \in Compiles, CargoReads(c)
    PROVE  FreshInv'
<1>1. /\ c \in Builds /\ child[c] = "waiting" /\ child' = [child EXCEPT ![c] = "building"]
      /\ built' = [built EXCEPT ![c] = source[now[c]]]
      /\ UNCHANGED <<at, now, since, source, target, artifact, fresh>>
  BY DEF CargoReads, Builds
<1>2. child'[c] = "building" /\ built'[c] = source[now[c]]
      /\ \A d \in Compiles \ {c} : child'[d] = child[d] /\ built'[d] = built[d]
  BY <1>1 DEF BuildTypes
<1>3. BuildsAreFresh' /\ InOrder'
  BY <1>1 DEF FreshInv, BuildsAreFresh, InOrder
<1>4. OneCargo'
  BY <1>1, <1>2 DEF FreshInv, OneCargo, CargoReads
<1>5. ChildFits'
  BY <1>1, <1>2 DEF FreshInv, ChildFits
<1>6. CargoFits(c)'
  <2>1. CargoFits(c) /\ target[now[c]] <= source[now[c]]
    BY <1>1, Numbers DEF FreshInv, InOrder
  <2>2. Behind(c)' = Behind(c) /\ (HasBuilt(c)' => HasBuilt(c))
    BY <1>1, <1>2 DEF Behind, HasBuilt
  <2>3. source[now[c]] \in Nat
    BY <1>1, Numbers
  <2> QED BY <1>1, <1>2, <2>1, <2>2, <2>3 DEF CargoFits
<1>7. ASSUME NEW d \in Compiles \ {c} PROVE CargoFits(d)'
  BY <1>1, <1>2, SameCargo DEF FreshInv
<1> QED BY <1>3, <1>4, <1>5, <1>6, <1>7 DEF FreshInv

LEMMA EndsFresh ==
    ASSUME BuildTypes, BuildTypes', FreshInv, NEW c \in Compiles, CargoEnds(c)
    PROVE  FreshInv'
<1> DEFINE n == now[c]
<1>1. /\ c \in Builds /\ n \in Names /\ child[c] = "building"
      /\ UNCHANGED <<at, now, since, built, source, artifact, fresh>>
  BY Numbers DEF CargoEnds
<1>2. /\ \A d \in Compiles \ {c} : child'[d] = child[d]
      /\ \/ child'[c] = "ok" /\ target' = [target EXCEPT ![n] = built[c]]
         \/ child'[c] = "bad" /\ target' = target
  BY DEF CargoEnds, BuildTypes
<1>3. /\ CargoFits(c) /\ target[n] <= built[c] /\ built[c] <= source[n] /\ since[c] <= built[c]
      /\ at[c] \in {"cargo", "killed"}
  BY <1>1 DEF FreshInv, CargoFits, ChildFits
<1>4. \A m \in Names : /\ m # n => target'[m] = target[m]
                       /\ target'[n] = target[n] \/ (target'[n] = built[c] /\ child'[c] = "ok")
                       /\ child'[c] = "ok" => target'[n] = built[c]
  BY <1>1, <1>2 DEF BuildTypes
<1>5. built[c] \in Nat /\ since[c] \in Nat /\ \A m \in Names : target[m] \in Nat /\ source[m] \in Nat
  BY <1>1, Numbers
<1>6. \A m \in Names : target[m] <= target'[m] /\ target'[m] <= source[m]
  BY <1>3, <1>4, <1>5 DEF FreshInv, InOrder
<1>7. InOrder'
  <2>1. ASSUME NEW m \in Names, NEW k \in Kinds PROVE artifact[m][k] <= target'[m]
    <3>1. artifact[m][k] <= target[m] /\ artifact[m][k] \in Nat
      BY Numbers DEF FreshInv, InOrder
    <3>2. target'[m] \in Nat
      BY <1>4, <1>5
    <3> QED BY <1>5, <1>6, <3>1, <3>2
  <2> QED BY <1>1, <1>6, <2>1 DEF InOrder
<1>8. OneCargo' /\ ChildFits' /\ BuildsAreFresh'
  <2>1. \A d \in Compiles : child'[d] = "building" => child[d] = "building"
    BY <1>2
  <2> QED BY <1>1, <1>2, <1>3, <2>1 DEF FreshInv, OneCargo, ChildFits, BuildsAreFresh
<1>9. ASSUME NEW d \in Compiles \ {c} PROVE CargoFits(d)'
  <2>1. now[d] \in Names /\ CargoFits(d) /\ source[now[d]] <= source'[now[d]]
        /\ target[now[d]] <= target'[now[d]]
    BY <1>1, <1>5, <1>6, Numbers DEF FreshInv
  <2>2. \A k \in Kinds : artifact[now[d]][k] <= artifact'[now[d]][k]
    BY <1>1, <2>1, Numbers
  <2>3. child[d] = "building" => now[d] # n
    BY <1>1 DEF FreshInv, OneCargo
  <2> HIDE DEF n
  <2> QED BY <1>1, <1>2, <1>4, <2>1, <2>2, <2>3, Grown
<1>10. CargoFits(c)'
  <2>1. Behind(c)' = {} /\ at[c] \notin Kinds \cup {"validate", "read", "save"}
    BY <1>1, <1>3 DEF Behind, Kinds
  <2>2. HasBuilt(c)' => child'[c] = "ok"
    BY <1>1, <2>1 DEF HasBuilt
  <2>3. since[c] <= source[n]
    BY <1>3 DEF CargoFits
  <2> QED BY <1>1, <1>2, <1>3, <1>4, <2>1, <2>2, <2>3 DEF CargoFits
<1> QED BY <1>7, <1>8, <1>9, <1>10 DEF FreshInv

LEMMA CopyFresh ==
    ASSUME BuildTypes, BuildTypes', FreshInv, NEW c \in Builds, Copy(c)
    PROVE  FreshInv'
<1> DEFINE n == now[c]
           kind == at[c]
<1>1. /\ n \in Names /\ kind \in Kinds
      /\ UNCHANGED <<now, since, child, built, source, target, fresh>>
  BY Numbers DEF Copy
<1>2. /\ \A d \in Builds \ {c} : at'[d] = at[d]
      /\ at'[c] = CASE kind = "contract" -> "wasm" [] kind = "wasm" -> "json" [] kind = "json" -> "validate"
  BY DEF Copy, Goes, BuildTypes
<1>3. /\ artifact'[n][kind] = target[n]
      /\ \A m \in Names, k \in Kinds : (m # n \/ k # kind) => artifact'[m][k] = artifact[m][k]
  BY <1>1 DEF Copy, Copied, BuildTypes
<1>4. \A m \in Names, k \in Kinds :
          /\ artifact[m][k] \in Nat /\ artifact'[m][k] \in Nat /\ target[m] \in Nat
          /\ artifact[m][k] <= target[m] /\ fresh[m] \in Nat /\ fresh[m] <= artifact[m][k]
  BY Numbers, NumberedAfter DEF Numbered, FreshInv, InOrder, BuildsAreFresh
<1>5. \A m \in Names, k \in Kinds :
          artifact[m][k] <= artifact'[m][k] /\ artifact'[m][k] <= target[m]
  BY <1>1, <1>3, <1>4
<1>6. InOrder' /\ BuildsAreFresh'
  <2>1. \A m \in Names, k \in Kinds : artifact'[m][k] >= fresh[m]
    BY <1>4, <1>5
  <2> QED BY <1>1, <1>5, <2>1 DEF FreshInv, InOrder, BuildsAreFresh
<1>7. OneCargo' /\ ChildFits'
  <2>1. c \in Compiles => child[c] = "none"
    BY <1>1 DEF FreshInv, ChildFits, Kinds
  <2> QED BY <1>1, <1>2, <2>1 DEF FreshInv, OneCargo, ChildFits, Builds
<1>8. ASSUME NEW d \in Compiles \ {c} PROVE CargoFits(d)'
  <2>1. d \in Builds /\ now[d] \in Names /\ CargoFits(d) /\ source[now[d]] <= source'[now[d]]
        /\ target[now[d]] <= target'[now[d]]
    BY <1>1, Numbers DEF FreshInv
  <2>2. \A k \in Kinds : artifact[now[d]][k] <= artifact'[now[d]][k]
    BY <1>5, <2>1
  <2> QED BY <1>1, <1>2, <2>1, <2>2, Grown
<1>9. ASSUME c \in Compiles PROVE CargoFits(c)'
  <2>1. CargoFits(c) /\ HasBuilt(c) /\ since[c] <= target[n]
    BY <1>1, <1>9 DEF FreshInv, CargoFits, HasBuilt
  <2>2. Behind(c)' \subseteq Behind(c) \cup {kind} /\ Behind(c)' \subseteq Kinds /\ child'[c] # "building"
    <3>1. child[c] = "none"
      BY <1>1, <1>9 DEF FreshInv, ChildFits, Kinds
    <3> QED BY <1>1, <1>2, <3>1 DEF Behind, Kinds
  <2>3. ASSUME NEW k \in Behind(c)' PROVE since[c] <= artifact'[n][k]
    <3>1. k = kind \/ (k \in Kinds /\ k \in Behind(c))
      BY <2>2
    <3>2. k \in Behind(c) => since[c] <= artifact[n][k]
      BY <2>1 DEF CargoFits
    <3>3. since[c] \in Nat
      BY Numbers
    <3> QED BY <1>1, <1>3, <1>4, <1>5, <2>1, <3>1, <3>2, <3>3
  <2> QED BY <1>1, <2>1, <2>2, <2>3 DEF CargoFits
<1> QED BY <1>6, <1>7, <1>8, <1>9 DEF FreshInv

LEMMA EditFresh ==
    ASSUME BuildTypes, BuildTypes', FreshInv, NEW n \in Names, Edit(n)
    PROVE  FreshInv'
<1>1. UNCHANGED <<at, now, since, child, built, target, artifact, fresh>>
  BY DEF Edit
<1>2. \A m \in Names : source[m] \in Nat /\ source'[m] \in Nat /\ source[m] <= source'[m]
                       /\ target[m] \in Nat
  <2>1. \A m \in Names : source[m] \in Nat /\ source'[m] \in Nat /\ target[m] \in Nat
    BY Numbers, NumberedAfter DEF Numbered
  <2>2. \A m \in Names : source'[m] = source[m] \/ source'[m] = source[m] + 1
    BY DEF Edit, BuildTypes
  <2> QED BY <2>1, <2>2
<1>3. InOrder'
  <2>1. \A m \in Names : target[m] <= source'[m]
    BY <1>2 DEF FreshInv, InOrder
  <2> QED BY <1>1, <2>1 DEF FreshInv, InOrder
<1>4. ASSUME NEW d \in Compiles PROVE CargoFits(d)'
  <2>1. now[d] \in Names /\ CargoFits(d)
    BY Numbers DEF FreshInv
  <2>2. \A k \in Kinds : artifact[now[d]][k] <= artifact'[now[d]][k]
    BY <1>1, <2>1, Numbers
  <2>3. source[now[d]] <= source'[now[d]] /\ target[now[d]] <= target'[now[d]]
    BY <1>1, <1>2, <2>1
  <2> QED BY <1>1, <2>1, <2>2, <2>3, Grown
<1>5. OneCargo' /\ ChildFits' /\ BuildsAreFresh'
  BY <1>1 DEF FreshInv, OneCargo, ChildFits, BuildsAreFresh
<1> QED BY <1>3, <1>4, <1>5 DEF FreshInv

LEMMA StepFresh == BuildTypes /\ FreshInv /\ [Next]_vars => FreshInv'
<1> SUFFICES ASSUME BuildTypes, FreshInv, [Next]_vars PROVE FreshInv'
  OBVIOUS
<1>1. BuildTypes'
  BY StepBuildTypes
<1>2. CASE UNCHANGED cvars
  <2>1. UNCHANGED <<at, now, since, child, built, source, target, artifact, fresh>>
    BY <1>2 DEF cvars
  <2>2. \A d \in Compiles : CargoFits(d)'
    BY <2>1, SameCargo DEF FreshInv
  <2> QED BY <2>1, <2>2 DEF FreshInv, OneCargo, ChildFits, BuildsAreFresh, InOrder
<1> QED BY <1>1, <1>2, BuildSteps, BeginFresh, TakeFresh, OutputFresh, SaveFresh, ReadsFresh,
           EndsFresh, CopyFresh, EditFresh DEF Acts

LEMMA FreshThroughout == Spec => [](BuildTypes /\ FreshInv)
BY InitBuildTypes, StepBuildTypes, InitFresh, StepFresh, PTL DEF Spec

\* No compile leaves an artifact that is older than what it set out to build,
\* however many others build, copy and are killed beside it.
THEOREM BuildsFresh == Spec => []BuildsAreFresh
<1>1. FreshInv => BuildsAreFresh
  BY DEF FreshInv
<1> QED BY <1>1, FreshThroughout, PTL

NoneOlder == \A n \in Names :
    /\ target[n] <= target'[n]
    /\ \A k \in Kinds : artifact[n][k] <= artifact'[n][k]

\* Nothing that was built is replaced by something older, wherever a command
\* was delayed between spawning cargo and copying what it left.
NothingOlder == [][NoneOlder]_vars

LEMMA Forward == ASSUME BuildTypes, FreshInv, [Next]_vars PROVE NoneOlder
<1>1. \A n \in Names : target[n] \in Nat /\ \A k \in Kinds : artifact[n][k] \in Nat
  BY Numbers
<1>2. CASE UNCHANGED <<target, artifact>>
  BY <1>1, <1>2 DEF NoneOlder
<1>3. ASSUME NEW c \in Compiles, CargoEnds(c)
      PROVE  artifact' = artifact /\ \A n \in Names : target[n] <= target'[n]
  <2>1. target[now[c]] <= built[c] /\ artifact' = artifact
    BY <1>3 DEF FreshInv, CargoFits, CargoEnds
  <2>2. \A n \in Names : target'[n] = target[n] \/ (n = now[c] /\ target'[n] = built[c])
    BY <1>3 DEF CargoEnds, BuildTypes
  <2> QED BY <1>1, <2>1, <2>2
<1>4. ASSUME NEW c \in Builds, Copy(c)
      PROVE  target' = target /\ \A n \in Names, k \in Kinds : artifact[n][k] <= artifact'[n][k]
  <2>1. \A n \in Names, k \in Kinds : artifact[n][k] <= target[n]
    BY DEF FreshInv, InOrder
  <2>2. \A n \in Names, k \in Kinds : artifact'[n][k] = artifact[n][k] \/ artifact'[n][k] = target[n]
    BY <1>4 DEF Copy, Copied, BuildTypes
  <2> QED BY <1>1, <1>4, <2>1, <2>2 DEF Copy
<1>5. ASSUME NEW c \in Builds, Acts(c), ~UNCHANGED <<target, artifact>>
      PROVE  Copy(c) \/ (c \in Compiles /\ CargoEnds(c))
  BY <1>5 DEF Acts, Begin, Take, CargoReads, Output, Exit, NotGenerated, Validate, ReadMetadata,
     SaveBindings, KillBuild
<1>6. UNCHANGED <<target, artifact>> \/ \E c \in Builds : Copy(c) \/ (c \in Compiles /\ CargoEnds(c))
  BY <1>5, BuildSteps DEF cvars, Edit
<1> QED BY <1>1, <1>2, <1>3, <1>4, <1>6 DEF NoneOlder

\* cargo and the copies of `compile` only ever move a contract forward, for any
\* number of overlapping builds.
THEOREM NeverOlder == Spec => NothingOlder
<1>1. BuildTypes /\ FreshInv /\ [Next]_vars => [NoneOlder]_vars
  BY Forward
<1>2. Spec => [][Next]_vars
  BY PTL DEF Spec
<1> QED BY <1>1, <1>2, FreshThroughout, PTL DEF NothingOlder

-----------------------------------------------------------------------------
(* Builds: the artifacts and the bindings are of one build.                *)

\* The command whose cargo wrote the target directory last is on its way
\* from there to its bindings, and what it has passed is of that build:
\* others can only have copied the same.
Builder(c, n) ==
    /\ now[c] = n
    /\ at[c] \in {"cargo", "failed", "killed", "validate", "read", "save"} \cup Kinds
    /\ at[c] = "cargo" => child[c] = "ok"
    /\ \A k \in Behind(c) : artifact[n][k] = target[n]
    /\ at[c] = "save" => held[c] = target[n]

BuilderFits == \A n \in Names, c \in Compiles : builder[n] = c => Builder(c, n)

LastBuilt == \A n \in Names : builder[n] = Nobody =>
    /\ \A k \in Kinds : artifact[n][k] = target[n]
    /\ n \in outrun \/ binding[n] = target[n]

AgreeInv == BuilderFits /\ LastBuilt

LEMMA SameBuilder ==
    ASSUME NEW c, NEW n, Builder(c, n),
           at'[c] = at[c], now'[c] = now[c], child'[c] = child[c], held'[c] = held[c],
           UNCHANGED <<target, artifact>>
    PROVE  Builder(c, n)'
<1>1. Behind(c)' = Behind(c)
  BY DEF Behind
<1> QED BY <1>1 DEF Builder

\* One command goes on, and leaves the files and the builder alone.
LEMMA MoveAgree ==
    ASSUME AgreeInv, NEW c \in Builds,
           UNCHANGED <<target, artifact, binding, builder, outrun>>,
           \A d \in Builds \ {c} : at'[d] = at[d] /\ now'[d] = now[d] /\ held'[d] = held[d],
           \A d \in Compiles \ {c} : child'[d] = child[d],
           \A n \in Names : c \in Compiles /\ Builder(c, n) => Builder(c, n)'
    PROVE  AgreeInv'
<1>1. ASSUME NEW n \in Names, NEW d \in Compiles, builder'[n] = d PROVE Builder(d, n)'
  <2>1. Builder(d, n) /\ d \in Builds
    BY <1>1 DEF AgreeInv, BuilderFits, Builds
  <2>2. CASE d = c
    BY <1>1, <2>1, <2>2
  <2>3. CASE d # c
    BY <2>1, <2>3, SameBuilder
  <2> QED BY <2>2, <2>3
<1>2. LastBuilt'
  BY DEF AgreeInv, LastBuilt
<1> QED BY <1>1, <1>2 DEF AgreeInv, BuilderFits

LEMMA InitAgree == Init => AgreeInv
<1> SUFFICES ASSUME Init PROVE AgreeInv
  OBVIOUS
<1>1. BuilderFits
  BY BuildAssumption DEF Init, BuilderFits
<1>2. LastBuilt
  BY DEF Init, LastBuilt
<1> QED BY <1>1, <1>2 DEF AgreeInv

LEMMA BeginAgree ==
    ASSUME BuildTypes, AgreeInv, NEW c \in Builds,
           Begin(c) \/ KillBuild(c) \/ NotGenerated(c) \/ ReadMetadata(c) \/ \E n \in Names : Take(c, n)
    PROVE  AgreeInv'
<1>1. /\ UNCHANGED <<target, artifact, binding, builder, outrun>>
      /\ \A d \in Builds \ {c} : at'[d] = at[d] /\ now'[d] = now[d] /\ held'[d] = held[d]
      /\ \A d \in Compiles \ {c} : child'[d] = child[d]
  BY DEF Begin, KillBuild, NotGenerated, ReadMetadata, Take, Goes, BuildTypes
<1>2. ASSUME NEW n \in Names, c \in Compiles, Builder(c, n) PROVE Builder(c, n)'
  <2>1. at[c] \notin {"idle", "next"}
    BY <1>2 DEF Builder, Kinds
  <2>2. CASE KillBuild(c) \/ NotGenerated(c)
    <3>1. at'[c] \in {"killed", "failed"} /\ now' = now
      BY <2>2 DEF KillBuild, NotGenerated, Goes, BuildTypes
    <3>2. Behind(c)' = {}
      BY <3>1 DEF Behind, Kinds
    <3> QED BY <1>2, <3>1, <3>2 DEF Builder
  <2>3. CASE ReadMetadata(c)
    <3>1. /\ at[c] = "read" /\ at'[c] \in {"save", "failed"} /\ now' = now
          /\ held'[c] = artifact[n]["json"]
      BY <1>2, <2>3 DEF ReadMetadata, Goes, BuildTypes, Builder
    <3>2. Behind(c) = Kinds /\ Behind(c)' \subseteq Kinds /\ "json" \in Kinds
      BY <3>1 DEF Behind, Kinds
    <3>3. \A k \in Kinds : artifact[n][k] = target[n]
      BY <1>2, <3>2 DEF Builder
    <3> QED BY <1>1, <1>2, <3>1, <3>2, <3>3 DEF Builder
  <2> QED BY <2>1, <2>2, <2>3 DEF Begin, Take
<1> QED BY <1>1, <1>2, MoveAgree

LEMMA CargoAgree ==
    ASSUME BuildTypes, ChildFits, AgreeInv, NEW c \in Compiles,
           CargoReads(c) \/ Output(c) \/ Exit(c)
    PROVE  AgreeInv'
<1>1. /\ c \in Builds
      /\ UNCHANGED <<target, artifact, binding, builder, outrun, now, held>>
      /\ \A d \in Builds \ {c} : at'[d] = at[d]
      /\ \A d \in Compiles \ {c} : child'[d] = child[d]
  BY DEF CargoReads, Output, Exit, Goes, BuildTypes, Builds
<1>2. ASSUME NEW n \in Names, Builder(c, n) PROVE Builder(c, n)'
  <2>1. CASE CargoReads(c)
    <3>1. at' = at /\ child[c] = "waiting" /\ at[c] # "cargo"
      BY <1>2, <2>1 DEF CargoReads, Builder
    <3>2. Behind(c)' = Behind(c)
      BY <3>1 DEF Behind
    <3> QED BY <1>1, <1>2, <3>1, <3>2 DEF Builder
  <2>2. CASE Output(c)
    BY <1>1, <1>2, <2>2, SameBuilder DEF Output
  <2>3. CASE Exit(c)
    <3>1. at'[c] \in {"contract", "failed"}
      BY <1>1, <2>3 DEF Exit, Goes, BuildTypes
    <3>2. Behind(c)' = {}
      BY <3>1 DEF Behind, Kinds
    <3> QED BY <1>1, <1>2, <3>1, <3>2 DEF Builder, Kinds
  <2> QED BY <2>1, <2>2, <2>3
<1> QED BY <1>1, <1>2, MoveAgree

\* A cargo that ends well makes its command the builder.
LEMMA EndsAgree ==
    ASSUME BuildTypes, ChildFits, AgreeInv, NEW c \in Compiles, CargoEnds(c)
    PROVE  AgreeInv'
<1> DEFINE n == now[c]
<1>1. /\ c \in Builds /\ n \in Names /\ child[c] = "building" /\ at[c] \in {"cargo", "killed"}
      /\ UNCHANGED <<at, now, held, artifact, binding, outrun>>
      /\ \A d \in Compiles \ {c} : child'[d] = child[d]
  BY Numbers DEF CargoEnds, ChildFits, BuildTypes
<1>2. CASE target' = target /\ builder' = builder
  <2>1. ASSUME NEW m \in Names, Builder(c, m) PROVE Builder(c, m)'
    <3>1. at[c] = "killed" /\ Behind(c)' = Behind(c)
      BY <1>1, <2>1 DEF Builder, Behind
    <3> QED BY <1>1, <1>2, <2>1, <3>1 DEF Builder
  <2> QED BY <1>1, <1>2, <2>1, MoveAgree
<1>3. CASE /\ child'[c] = "ok" /\ target' = [target EXCEPT ![n] = built[c]]
           /\ builder' = [builder EXCEPT ![n] = c]
  <2>1. /\ builder'[n] = c /\ c # Nobody
        /\ \A m \in Names \ {n} : builder'[m] = builder[m] /\ target'[m] = target[m]
    BY <1>1, <1>3, BuildAssumption DEF BuildTypes
  <2>2. ASSUME NEW m, m = n, NEW d, d = c PROVE Builder(d, m)'
    <3>1. Behind(d)' = {}
      BY <1>1, <2>2 DEF Behind, Kinds
    <3> QED BY <1>1, <1>3, <2>2, <3>1 DEF Builder
  <2>3. ASSUME NEW m \in Names \ {n}, NEW d \in Compiles, builder'[m] = d PROVE Builder(d, m)'
    <3>1. Builder(d, m) /\ d # c
      BY <2>1, <2>3 DEF AgreeInv, BuilderFits, Builder
    <3>2. Behind(d)' = Behind(d) /\ child'[d] = child[d]
      BY <1>1, <3>1 DEF Behind
    <3> QED BY <1>1, <2>1, <3>1, <3>2 DEF Builder
  <2>4. LastBuilt'
    BY <1>1, <2>1 DEF AgreeInv, LastBuilt
  <2>5. ASSUME NEW m \in Names, NEW d \in Compiles, builder'[m] = d PROVE Builder(d, m)'
    <3>1. CASE m = n
      <4>1. d = c
        BY <2>1, <2>5, <3>1
      <4> QED BY <2>2, <3>1, <4>1
    <3>2. CASE m # n
      BY <2>3, <2>5, <3>2
    <3> QED BY <3>1, <3>2
  <2> QED BY <2>4, <2>5 DEF AgreeInv, BuilderFits
<1>4. \/ /\ child' = [child EXCEPT ![c] = "ok"] /\ target' = [target EXCEPT ![n] = built[c]]
         /\ builder' = [builder EXCEPT ![n] = c]
      \/ target' = target /\ builder' = builder
  BY DEF CargoEnds
<1>5. child' = [child EXCEPT ![c] = "ok"] => child'[c] = "ok"
  BY DEF BuildTypes
<1> QED BY <1>2, <1>3, <1>4, <1>5

\* Whoever copies, the copy is of the last build.
LEMMA CopyAgree ==
    ASSUME BuildTypes, AgreeInv, NEW c \in Builds, Copy(c)
    PROVE  AgreeInv'
<1> DEFINE n == now[c]
           kind == at[c]
<1>1. /\ n \in Names /\ kind \in Kinds
      /\ UNCHANGED <<now, child, held, target, binding, builder, outrun>>
  BY Numbers DEF Copy
<1>2. /\ \A d \in Builds \ {c} : at'[d] = at[d]
      /\ at'[c] = CASE kind = "contract" -> "wasm" [] kind = "wasm" -> "json" [] kind = "json" -> "validate"
  BY DEF Copy, Goes, BuildTypes
<1>3. /\ artifact'[n][kind] = target[n]
      /\ \A m \in Names, k \in Kinds :
             artifact[m][k] = target[m] => artifact'[m][k] = target[m]
  BY <1>1 DEF Copy, Copied, BuildTypes
<1>4. LastBuilt'
  BY <1>1, <1>3 DEF AgreeInv, LastBuilt
<1>5. ASSUME NEW m \in Names, NEW d \in Compiles, builder'[m] = d PROVE Builder(d, m)'
  <2>1. Builder(d, m) /\ d \in Builds
    BY <1>1, <1>5 DEF AgreeInv, BuilderFits, Builds
  <2>2. CASE d = c
    <3>1. m = n
      BY <2>1, <2>2 DEF Builder
    <3>2. Behind(c)' \subseteq Kinds /\ Behind(c)' \subseteq Behind(c) \cup {kind}
      BY <1>1, <1>2 DEF Behind, Kinds
    <3>3. \A k \in Behind(c)' : artifact'[n][k] = target[n]
      BY <1>1, <1>3, <2>1, <2>2, <3>1, <3>2 DEF Builder
    <3>4. at'[c] \in {"wasm", "json", "validate"}
      BY <1>1, <1>2 DEF Kinds
    <3> QED BY <1>1, <2>1, <2>2, <3>1, <3>3, <3>4 DEF Builder, Kinds
  <2>3. CASE d # c
    <3>1. Behind(d)' = Behind(d) /\ Behind(d) \subseteq Kinds
      BY <1>2, <2>1, <2>3 DEF Behind, Kinds
    <3>2. \A k \in Behind(d) : artifact'[m][k] = target[m]
      BY <1>3, <2>1, <3>1 DEF Builder
    <3> QED BY <1>1, <1>2, <2>1, <2>3, <3>1, <3>2 DEF Builder
  <2> QED BY <2>2, <2>3
<1> QED BY <1>4, <1>5 DEF AgreeInv, BuilderFits

LEMMA ValidateAgree ==
    ASSUME BuildTypes, AgreeInv, NEW c \in Builds, Validate(c)
    PROVE  AgreeInv'
<1>1. /\ UNCHANGED <<target, artifact, binding, outrun, now, held, child>>
      /\ \A d \in Builds \ {c} : at'[d] = at[d]
  BY DEF Validate, Through, Goes, BuildTypes
<1>2. builder' = builder
  <2>1. ASSUME c \in Validates, Through(c) PROVE builder' = builder
    <3>1. now[c] \in Names /\ builder[now[c]] \in Compiles \cup {Nobody} /\ c \notin Compiles
      BY <2>1, BuildAssumption DEF BuildTypes
    <3>2. builder[now[c]] = c => [builder EXCEPT ![now[c]] = Nobody] = builder
      BY <3>1 DEF BuildTypes
    <3> QED BY <2>1, <3>2 DEF Through
  <2> QED BY <2>1 DEF Validate
<1>3. ASSUME NEW n \in Names, c \in Compiles, Builder(c, n) PROVE Builder(c, n)'
  <2>1. at[c] = "validate" /\ at'[c] \in {"read", "failed"}
    BY <1>3, BuildAssumption DEF Validate, Goes, BuildTypes
  <2>2. Behind(c)' \subseteq Behind(c)
    BY <2>1 DEF Behind, Kinds
  <2> QED BY <1>1, <1>3, <2>1, <2>2 DEF Builder
<1> QED BY <1>1, <1>2, <1>3, MoveAgree

\* The builder's bindings are of its build; another's are of the metadata in
\* place, or that has been replaced meanwhile.
LEMMA SaveAgree ==
    ASSUME BuildTypes, AgreeInv, NEW c \in Builds, SaveBindings(c)
    PROVE  AgreeInv'
<1> DEFINE n == now[c]
<1>1. /\ n \in Names /\ at[c] = "save"
      /\ UNCHANGED <<target, artifact, now, held, child>>
      /\ \A d \in Builds \ {c} : at'[d] = at[d]
  BY DEF SaveBindings, Through, Goes, BuildTypes
<1>2. /\ binding'[n] = held[c]
      /\ n \notin outrun' => artifact[n]["json"] = held[c]
      /\ \A m \in Names \ {n} : /\ binding'[m] = binding[m] /\ builder'[m] = builder[m]
                                /\ m \in outrun' <=> m \in outrun
      /\ builder'[n] = builder[n] \/ (builder[n] = c /\ builder'[n] = Nobody)
      /\ builder[n] = c => builder'[n] = Nobody
  BY <1>1 DEF SaveBindings, Through, BuildTypes
<1>3. ASSUME NEW m \in Names, NEW d \in Compiles, builder'[m] = d PROVE Builder(d, m)'
  <2>1. builder[m] = d /\ d # Nobody /\ d \in Builds
    BY <1>2, <1>3, BuildAssumption DEF Builds
  <2>2. Builder(d, m)
    BY <2>1 DEF AgreeInv, BuilderFits
  <2>3. d # c
    BY <1>2, <1>3, <2>1, <2>2 DEF Builder
  <2> QED BY <1>1, <2>1, <2>2, <2>3, SameBuilder
<1>4. ASSUME NEW m \in Names, builder'[m] = Nobody
      PROVE  /\ \A k \in Kinds : artifact[m][k] = target[m]
             /\ m \in outrun' \/ binding'[m] = target[m]
  <2>1. CASE m # n
    BY <1>2, <1>4, <2>1 DEF AgreeInv, LastBuilt
  <2>2. CASE m = n /\ builder[n] = Nobody
    <3>1. \A k \in Kinds : artifact[n][k] = target[n]
      BY <1>1, <2>2 DEF AgreeInv, LastBuilt
    <3> QED BY <1>2, <2>2, <3>1 DEF Kinds
  <2>3. CASE m = n /\ builder[n] # Nobody
    <3>1. builder[n] = c /\ c \in Compiles
      BY <1>1, <1>2, <1>4, <2>3 DEF BuildTypes
    <3>2. Builder(c, n) /\ Behind(c) = Kinds
      BY <1>1, <3>1 DEF AgreeInv, BuilderFits, Behind, Kinds
    <3> QED BY <1>1, <1>2, <2>3, <3>2 DEF Builder
  <2> QED BY <2>1, <2>2, <2>3
<1>5. LastBuilt'
  BY <1>1, <1>4 DEF LastBuilt
<1> QED BY <1>3, <1>5 DEF AgreeInv, BuilderFits

LEMMA StepAgree == BuildTypes /\ FreshInv /\ AgreeInv /\ [Next]_vars => AgreeInv'
<1> SUFFICES ASSUME BuildTypes, FreshInv, AgreeInv, [Next]_vars PROVE AgreeInv'
  OBVIOUS
<1>1. CASE UNCHANGED <<at, now, child, held, target, artifact, binding, builder, outrun>>
  <2>1. \A n \in Names, c \in Compiles : builder'[n] = c => Builder(c, n)'
    BY <1>1, SameBuilder DEF AgreeInv, BuilderFits
  <2> QED BY <1>1, <2>1 DEF AgreeInv, BuilderFits, LastBuilt
<1>2. ASSUME NEW n \in Names, Edit(n) PROVE AgreeInv'
  BY <1>1, <1>2 DEF Edit
<1>3. CASE UNCHANGED cvars
  BY <1>1, <1>3 DEF cvars
<1>4. ASSUME NEW c \in Builds, Acts(c) PROVE AgreeInv'
  BY <1>4, BeginAgree, CargoAgree, EndsAgree, CopyAgree, ValidateAgree, SaveAgree DEF Acts, FreshInv
<1> QED BY <1>2, <1>3, <1>4, BuildSteps

\* Artifacts and bindings are of cargo's last build, unless the command it
\* built for is at work, has failed or was killed, and what is torn was left
\* by a command in the middle of writing it; for any number of builds.
THEOREM ArtifactsAgreeing == Spec => []ArtifactsAgree
<1>1. Spec => []AgreeInv
  BY FreshThroughout, InitAgree, StepAgree, PTL DEF Spec
<1>2. AgreeInv /\ TextInv => ArtifactsAgree
  BY DEF AgreeInv, LastBuilt, TextInv, ArtifactsAgree
<1> QED BY <1>1, <1>2, TextThroughout, PTL


-----------------------------------------------------------------------------
(* Builds: versions flow as VersionFlow has it.                            *)

\* What a command copies was built, and the metadata it makes bindings of is
\* or was among the artifacts.
HandsOn(c) ==
    /\ at[c] \in Kinds \/ (c \in Compiles /\ child[c] = "ok") => target[now[c]] # 0
    /\ at[c] = "save" => held[c] \in 1..artifact[now[c]]["json"]

FlowInv == \A c \in Builds : HandsOn(c)

LEMMA InitFlow == Init => FlowInv
BY DEF Init, FlowInv, HandsOn, Kinds, Builds

\* What others do to the files leaves it so.
LEMMA StaysHandsOn ==
    ASSUME BuildTypes, BuildTypes', NoneOlder, NEW c \in Builds, HandsOn(c),
           now'[c] = now[c], at'[c] = at[c], held'[c] = held[c],
           c \in Compiles => child'[c] = child[c]
    PROVE  HandsOn(c)'
<1> DEFINE n == now[c]
<1>1. n \in Names /\ "json" \in Kinds
  BY Numbers DEF Kinds
<1>2. target[n] \in Nat /\ target'[n] \in Nat /\ artifact[n]["json"] \in Nat /\ artifact'[n]["json"] \in Nat
  BY <1>1, Numbers, NumberedAfter DEF Numbered
<1>3. target[n] <= target'[n] /\ artifact[n]["json"] <= artifact'[n]["json"]
  BY <1>1 DEF NoneOlder
<1>4. held[c] \in 1..artifact[n]["json"] => held[c] \in 1..artifact'[n]["json"]
  BY <1>2, <1>3
<1>5. target[n] # 0 => target'[n] # 0
  BY <1>2, <1>3
<1> QED BY <1>4, <1>5 DEF HandsOn

LEMMA ActsHandsOn ==
    ASSUME BuildTypes, BuildTypes', FreshInv, NEW c \in Builds, HandsOn(c), Acts(c)
    PROVE  HandsOn(c)'
<1> USE DEF Kinds
<1>1. CASE \/ Begin(c) \/ NotGenerated(c) \/ Validate(c) \/ SaveBindings(c) \/ KillBuild(c)
           \/ Exit(c) /\ c \in Compiles
  <2>1. /\ now'[c] = now[c] /\ target' = target
        /\ at'[c] \in {"next", "failed", "read", "done", "killed", "contract"}
        /\ c \in Compiles => child'[c] \in {child[c], "none"}
        /\ at'[c] = "contract" => c \in Compiles /\ child[c] = "ok"
    BY <1>1 DEF Begin, NotGenerated, Validate, SaveBindings, KillBuild, Exit, Through, Goes, BuildTypes
  <2> QED BY <2>1 DEF HandsOn
<1>2. CASE \E n \in Names : Take(c, n)
  <2>1. /\ at'[c] \in {"cargo", "validate", "read"}
        /\ c \in Compiles => child'[c] = "waiting"
    BY <1>2 DEF Take, Goes, BuildTypes
  <2> QED BY <2>1 DEF HandsOn
<1>3. CASE c \in Compiles /\ (CargoReads(c) \/ Output(c))
  <2>1. /\ UNCHANGED <<at, now, held, target, artifact>>
        /\ child'[c] \in {child[c], "building"}
    BY <1>3 DEF CargoReads, Output, BuildTypes
  <2> QED BY <2>1 DEF HandsOn
<1>4. CASE c \in Compiles /\ CargoEnds(c)
  <2>1. /\ UNCHANGED <<at, now, held, artifact>> /\ now[c] \in Names
        /\ at[c] \in {"cargo", "killed"}
        /\ child'[c] = "ok" => target'[now[c]] = built[c]
    BY <1>4, Numbers DEF CargoEnds, BuildTypes, FreshInv, ChildFits
  <2>2. built[c] # 0
    BY <1>4 DEF BuildTypes, Versions
  <2> QED BY <2>1, <2>2 DEF HandsOn
<1>5. CASE Copy(c)
  <2>1. /\ UNCHANGED <<now, target, child>>
        /\ at[c] \in Kinds /\ at'[c] \in {"wasm", "json", "validate"}
    BY <1>5 DEF Copy, Goes, BuildTypes
  <2> QED BY <2>1 DEF HandsOn
<1>6. CASE ReadMetadata(c)
  <2>1. /\ UNCHANGED <<now, target, artifact, child>> /\ now[c] \in Names
        /\ held'[c] = artifact[now[c]]["json"]
        /\ at'[c] = "failed" \/ (at'[c] = "save" /\ artifact[now[c]]["json"] # 0)
    BY <1>6, Numbers DEF ReadMetadata, Goes, BuildTypes
  <2>2. artifact[now[c]]["json"] \in Nat
    BY <2>1, Numbers
  <2>3. at'[c] = "save" => held'[c] \in 1..artifact'[now'[c]]["json"]
    BY <2>1, <2>2
  <2> QED BY <2>1, <2>3 DEF HandsOn
<1> QED BY <1>1, <1>2, <1>3, <1>4, <1>5, <1>6 DEF Acts

LEMMA StepFlow == BuildTypes /\ FreshInv /\ FlowInv /\ [Next]_vars => FlowInv'
<1> SUFFICES ASSUME BuildTypes, FreshInv, FlowInv, [Next]_vars, NEW c \in Builds PROVE HandsOn(c)'
  BY DEF FlowInv
<1>1. BuildTypes' /\ NoneOlder /\ HandsOn(c)
  BY StepBuildTypes, Forward DEF FlowInv
<1>2. CASE Acts(c)
  BY <1>1, <1>2, ActsHandsOn
<1>3. CASE UNCHANGED cvars \/ \E n \in Names : Edit(n)
  BY <1>1, <1>3, StaysHandsOn DEF cvars, Edit
<1>4. ASSUME NEW d \in Builds, d # c, Acts(d) PROVE HandsOn(c)'
  <2>1. now'[c] = now[c] /\ at'[c] = at[c] /\ held'[c] = held[c] /\ (c \in Compiles => child'[c] = child[c])
    <3>1. CASE Begin(d) \/ (\E n \in Names : Take(d, n)) \/ KillBuild(d)
      BY <1>4, <3>1 DEF Begin, Take, KillBuild, Goes, BuildTypes
    <3>2. CASE d \in Compiles /\ (CargoReads(d) \/ CargoEnds(d) \/ Output(d) \/ Exit(d))
      BY <1>4, <3>2 DEF CargoReads, CargoEnds, Output, Exit, Goes, BuildTypes
    <3>3. CASE Copy(d) \/ NotGenerated(d) \/ Validate(d) \/ ReadMetadata(d) \/ SaveBindings(d)
      BY <1>4, <3>3 DEF Copy, NotGenerated, Validate, ReadMetadata, SaveBindings, Through, Goes, BuildTypes
    <3> QED BY <1>4, <3>1, <3>2, <3>3 DEF Acts
  <2> QED BY <1>1, <2>1, StaysHandsOn
<1> QED BY <1>2, <1>3, <1>4, BuildSteps

\* What a command does to versions when it is through with a contract.
LEMMA ThroughFlows ==
    ASSUME BuildTypes, BuildTypes', FreshInv, NEW c \in Builds, HandsOn(c), SaveBindings(c)
    PROVE  Flow!Finish(now[c])
<1> DEFINE n == now[c]
           json == artifact[n]["json"]
           read == held[c]
           newest == IF c \in Compiles /\ since[c] > fresh[n] THEN since[c] ELSE fresh[n]
<1>1. /\ n \in Names /\ at[c] = "save" /\ read \in 1..json
      /\ binding' = [binding EXCEPT ![n] = read]
      /\ UNCHANGED <<source, target, artifact>>
  BY Numbers DEF SaveBindings, HandsOn
<1>2. fresh' = [fresh EXCEPT ![n] = newest]
  <2>1. fresh \in [Names -> Versions \cup {0}]
    BY DEF BuildTypes
  <2> QED BY <1>1, <2>1 DEF SaveBindings, Through
<1>3. fresh[n] \in Nat /\ since[c] \in Nat /\ "json" \in Kinds /\ \A k \in Kinds : artifact[n][k] \in Nat
  BY <1>1, Numbers DEF Kinds
<1>4. ASSUME NEW k \in Kinds PROVE newest <= artifact[n][k]
  <2>1. fresh[n] <= artifact[n][k]
    BY <1>1, <1>3 DEF FreshInv, BuildsAreFresh
  <2>2. c \in Compiles => since[c] <= artifact[n][k]
    BY <1>1 DEF FreshInv, CargoFits, Behind
  <2> QED BY <2>1, <2>2
<1>5. newest \in fresh[n]..json
  BY <1>3, <1>4
<1>6. /\ \E v \in 1..json : binding' = [binding EXCEPT ![n] = v]
      /\ \E v \in fresh[n]..json : /\ \A k \in Kinds : v <= artifact[n][k]
                                   /\ fresh' = [fresh EXCEPT ![n] = v]
  <2> HIDE DEF newest, json, read
  <2> QED BY <1>1, <1>2, <1>4, <1>5
<1> QED BY <1>1, <1>6 DEF Flow!Finish

LEMMA StepFlows ==
    ASSUME BuildTypes, BuildTypes', FreshInv, FlowInv, [Next]_vars
    PROVE  Flow!Next \/ UNCHANGED <<source, target, artifact, binding, fresh>>
<1>1. CASE UNCHANGED cvars
  BY <1>1 DEF cvars
<1>2. ASSUME NEW n \in Names, Edit(n) PROVE Flow!Next
  BY <1>2 DEF Edit, Flow!Edit, Flow!Next
<1>3. ASSUME NEW c \in Builds, SaveBindings(c) PROVE Flow!Next
  BY <1>3, ThroughFlows, Numbers DEF FlowInv, Flow!Next
<1>4. ASSUME NEW c \in Builds, Copy(c) PROVE Flow!Next
  <2>1. now[c] \in Names /\ at[c] \in Kinds /\ target[now[c]] # 0
    BY <1>4, Numbers DEF Copy, FlowInv, HandsOn
  <2>2. Flow!Copy(now[c], at[c])
    BY <1>4, <2>1 DEF Copy, Copied, Flow!Copy
  <2> QED BY <2>1, <2>2 DEF Flow!Next
<1>5. ASSUME NEW c \in Compiles, CargoEnds(c), target' # target PROVE Flow!Next
  <2>1. /\ now[c] \in Names /\ target' = [target EXCEPT ![now[c]] = built[c]]
        /\ UNCHANGED <<source, artifact, binding, fresh>>
    BY <1>5, Numbers DEF CargoEnds, Builds
  <2>2. built[c] \in target[now[c]]..source[now[c]]
    <3>1. target[now[c]] <= built[c] /\ built[c] <= source[now[c]]
      BY <1>5 DEF CargoEnds, FreshInv, CargoFits
    <3> QED BY <2>1, <3>1, Numbers
  <2>3. Flow!Build(now[c])
    BY <2>1, <2>2 DEF Flow!Build
  <2> QED BY <2>1, <2>3 DEF Flow!Next
<1>6. ASSUME NEW c \in Builds, Acts(c), ~SaveBindings(c), ~Copy(c)
      PROVE  \/ UNCHANGED <<source, target, artifact, binding, fresh>>
             \/ c \in Compiles /\ CargoEnds(c) /\ target' # target
  <2>1. CASE Validate(c)
    <3>1. fresh' = fresh
      BY <2>1, BuildAssumption DEF Validate, Through
    <3> QED BY <2>1, <3>1 DEF Validate
  <2>2. CASE ~Validate(c)
    BY <1>6, <2>2 DEF Acts, Begin, Take, CargoReads, CargoEnds, Output, Exit, NotGenerated,
       ReadMetadata, KillBuild
  <2> QED BY <2>1, <2>2
<1> QED BY <1>1, <1>2, <1>3, <1>4, <1>5, <1>6, BuildSteps

\* The commands implement VersionFlow: what it says of one build after the
\* other holds of builds that overlap and are killed.
THEOREM Flows == Spec => VersionsFlow
<1>1. Init => Flow!Init
  <2>1. 1 \in Nat
    OBVIOUS
  <2> QED BY <2>1 DEF Init, Flow!Init
<1>2. BuildTypes /\ BuildTypes' /\ FreshInv /\ FlowInv /\ [Next]_vars => [Flow!Next]_(Flow!vars)
  BY StepFlows DEF Flow!vars
<1> QED BY <1>1, <1>2, InitFlow, StepFlow, FreshThroughout, PTL DEF Spec, VersionsFlow, Flow!Spec
=============================================================================
