---------------------------- MODULE ProjectFiles ----------------------------
(***************************************************************************)
(* The files of a project under the commands that create them: `init`,     *)
(* `contract create` and `account create`.  Each command is a process of   *)
(* its own; a step is one call of fs, so that commands interleave between  *)
(* looking at a file and writing it, and may be killed in between.         *)
(***************************************************************************)
EXTENDS Naturals, Sequences

CONSTANTS
    Inits, Creates, Accounts,   \* the commands
    Names, Aliases,             \* of contracts and accounts
    Flipper,                    \* the sample contract of init
    NameOf, AliasOf,            \* what Creates and Accounts ask for
    Sessions,                   \* commands that run beside each other (a bound)
    MaxKills                    \* bound on commands killed

FileCommands == Inits \cup Creates \cup Accounts

ASSUME FilesAssumption ==
    /\ Flipper \in Names
    /\ NameOf \in [Creates -> Names]
    /\ AliasOf \in [Accounts -> Aliases]
    /\ Inits \cap Creates = {} /\ Accounts \cap (Inits \cup Creates) = {}
    /\ MaxKills \in Nat

VARIABLES
    session,   \* the commands of this behaviour
    pc,        \* where each command stands in the first task of its plan
    plan,      \* the tasks it has left
    seen,      \* the text of the file it is replacing placeholders in
    copy,      \* the accounts an `account create` read
    piece,     \* the files and directories init makes
    made,      \* <<contract, component>>: the directories of contracts
    part,      \* the files of each contract
    keys,      \* accounts.json, by the commands that created its accounts
    kills

VARIABLES      \* history, read by the properties only
    mixed,     \* two commands were busy with accounts.json
    crossed,   \* contracts two commands were creating
    cut        \* pieces a command was killed in the middle of

fvars == <<session, pc, plan, seen, copy, piece, made, part, keys, kills,
           mixed, crossed, cut>>

Dirs   == {"contracts", "tests"}
Pieces == Dirs \cup {"gitignore", "tsconfig", "config", "accounts", "scripts"}
Files  == {"Cargo.toml", "lib.rs", "test"}

PieceState == {"absent", "torn", "whole"}
FileState  == {"absent", "torn", "template", "done"}
Busy       == {"begin", "open", "write"}
Ended      == {"done", "failed", "killed"}
Task       == [do : {"put", "check", "mkdir", "copy", "edit", "account"}, of : Pieces \cup Files]

FilesTypeOK ==
    /\ session \in Sessions
    /\ pc \in [FileCommands -> Busy \cup Ended \cup {"idle", "ask"}]
    /\ plan \in [FileCommands -> Seq(Task)]
    /\ seen \in [FileCommands -> FileState]
    /\ copy \in [Accounts -> SUBSET Accounts]
    /\ piece \in [Pieces -> PieceState]
    /\ made \subseteq Names \X Dirs
    /\ part \in [Names -> [Files -> FileState]]
    /\ keys \subseteq Accounts
    /\ kills \in 0..MaxKills
    /\ mixed \in BOOLEAN
    /\ crossed \subseteq Names
    /\ cut \subseteq Pieces

To(do, of) == [do |-> do, of |-> of]

\* _directories, then _templates.
PutAll == <<To("put", "contracts"), To("put", "tests"), To("put", "gitignore"),
            To("put", "tsconfig"), To("put", "config"), To("put", "accounts"),
            To("put", "scripts")>>

\* For each component: its directory, its files, the placeholders in them.
CreateNew == <<To("check", "contracts"), To("mkdir", "contracts"),
               To("copy", "Cargo.toml"), To("copy", "lib.rs"),
               To("edit", "Cargo.toml"), To("edit", "lib.rs"),
               To("check", "tests"), To("mkdir", "tests"),
               To("copy", "test"), To("edit", "test")>>

Plan(c) ==
    IF c \in Inits THEN PutAll \o CreateNew
    ELSE IF c \in Creates THEN CreateNew ELSE <<To("account", "accounts")>>

Contract(c) == IF c \in Creates THEN NameOf[c] ELSE Flipper

\* An empty directory, or a project init has completed.
FilesInit ==
    /\ session \in Sessions
    /\ pc = [c \in FileCommands |-> "idle"]
    /\ plan = [c \in FileCommands |-> Plan(c)]
    /\ seen = [c \in FileCommands |-> "absent"]
    /\ copy = [c \in Accounts |-> {}]
    /\ \/ /\ piece = [p \in Pieces |-> "absent"]
          /\ made = {}
          /\ part = [n \in Names |-> [f \in Files |-> "absent"]]
       \/ /\ piece = [p \in Pieces |-> "whole"]
          /\ made = {Flipper} \X Dirs
          /\ part = [n \in Names |->
                        [f \in Files |-> IF n = Flipper THEN "done" ELSE "absent"]]
    /\ keys = {}
    /\ kills = 0
    /\ mixed = FALSE /\ crossed = {} /\ cut = {}

-----------------------------------------------------------------------------
\* Command c is at a place of a task.
At(c, do, place) == pc[c] = place /\ plan[c] # <<>> /\ Head(plan[c]).do = do

Of(c) == Head(plan[c]).of

GoTo(c, place) == pc' = [pc EXCEPT ![c] = place] /\ UNCHANGED plan

Fails(c) == GoTo(c, "failed")

\* On to the next task.
Advance(c) ==
    /\ plan' = [plan EXCEPT ![c] = Tail(@)]
    /\ pc' = [pc EXCEPT ![c] = IF Len(plan[c]) = 1 THEN "done" ELSE "begin"]

\* init is for a directory without configuration ("Project already
\* initiated"), the others for one with it (requestProjectDirectory); one
\* that is half written may fail to load.
Start(c) ==
    /\ pc[c] = "idle" /\ c \in session
    /\ \/ (c \in Inits) = (piece["config"] = "absent") /\ GoTo(c, "begin")
       \/ (c \in Inits) # (piece["config"] = "absent") /\ Fails(c)
       \/ piece["config"] = "torn" /\ Fails(c)
    /\ UNCHANGED <<session, seen, copy, piece, made, part, keys, kills, mixed,
                   crossed, cut>>

-----------------------------------------------------------------------------
(* Initializer.init.                                                       *)

\* Commands between reading accounts.json, or finding none, and writing it.
OnAccounts == {d \in FileCommands :
    \/ \E place \in {"ask", "open", "write"} : At(d, "account", place)
    \/ \E place \in {"open", "write"} : At(d, "put", place) /\ Of(d) = "accounts"}

\* Slip: the template is looked for, which is always there.
HasTemplate(p) == p \in Pieces

Exists(p) == piece[p] # "absent"

\* What is there is left alone, however it looks.
Look(c) ==
    /\ At(c, "put", "begin")
    /\ IF Exists(Of(c)) THEN Advance(c) ELSE GoTo(c, "open")
    /\ mixed' = (mixed \/ (Of(c) = "accounts" /\ OnAccounts # {}))
    /\ UNCHANGED <<session, seen, copy, piece, made, part, keys, kills, crossed, cut>>

\* mkdirSync throws when another command was faster ...
MakePiece(c) ==
    /\ At(c, "put", "open") /\ Of(c) \in Dirs
    /\ IF Exists(Of(c)) THEN Fails(c) ELSE Advance(c)
    /\ piece' = [piece EXCEPT ![Of(c)] = "whole"]
    /\ UNCHANGED <<session, seen, copy, made, part, keys, kills, mixed, crossed, cut>>

\* ... cpSync replaces what it finds.
OpenPiece(c) ==
    /\ At(c, "put", "open") /\ Of(c) \notin Dirs
    /\ GoTo(c, "write")
    /\ piece' = [piece EXCEPT ![Of(c)] = "torn"]
    /\ keys' = IF Of(c) = "accounts" THEN {} ELSE keys
    /\ UNCHANGED <<session, seen, copy, made, part, kills, mixed, crossed, cut>>

WritePiece(c) ==
    /\ At(c, "put", "write")
    /\ Advance(c)
    /\ piece' = [piece EXCEPT ![Of(c)] = "whole"]
    /\ keys' = IF Of(c) = "accounts" THEN {} ELSE keys
    /\ UNCHANGED <<session, seen, copy, made, part, kills, mixed, crossed, cut>>

-----------------------------------------------------------------------------
(* ContractManager.createNew.                                              *)

Creating(n) == {d \in Inits \cup Creates :
    pc[d] \in Busy /\ Contract(d) = n /\ Len(plan[d]) < Len(CreateNew)}

\* Slip: only its directory of tests is looked for.
HasTests(n, k) == k = "tests" /\ <<n, k>> \in made

HasDirectory(n, k) == <<n, k>> \in made

\* "Contract files already exist".
CheckComponent(c) ==
    /\ At(c, "check", "begin")
    /\ IF HasDirectory(Contract(c), Of(c)) THEN Fails(c) ELSE Advance(c)
    /\ crossed' = IF Creating(Contract(c)) \ {c} # {}
                  THEN crossed \cup {Contract(c)} ELSE crossed
    /\ UNCHANGED <<session, seen, copy, piece, made, part, keys, kills, mixed, cut>>

\* cpSync looks again: it copies into a directory that is there, and throws
\* when that appears between its own look and its mkdir.
MakeDirectory(c) ==
    /\ At(c, "mkdir", "begin")
    /\ \/ Advance(c)
       \/ <<Contract(c), Of(c)>> \in made /\ Fails(c)
    /\ made' = made \cup {<<Contract(c), Of(c)>>}
    /\ piece' = [piece EXCEPT ![Of(c)] = "whole"]
    /\ UNCHANGED <<session, seen, copy, part, keys, kills, mixed, crossed, cut>>

Put(c, state) == part' = [part EXCEPT ![Contract(c)][Of(c)] = state]

\* copyFile creates or empties the file and fills it; a file to edit is read
\* first, then emptied and written.
OpenFile(c) ==
    /\ At(c, "copy", "begin") \/ At(c, "edit", "open")
    /\ GoTo(c, "write")
    /\ Put(c, "torn")
    /\ UNCHANGED <<session, seen, copy, piece, made, keys, kills, mixed, crossed, cut>>

WriteFile(c) ==
    /\ \/ At(c, "copy", "write") /\ Put(c, "template")
       \/ At(c, "edit", "write") /\ Put(c, IF seen[c] = "torn" THEN "torn" ELSE "done")
    /\ Advance(c)
    /\ UNCHANGED <<session, seen, copy, piece, made, keys, kills, mixed, crossed, cut>>

ReadFile(c) ==
    /\ At(c, "edit", "begin")
    /\ GoTo(c, "open")
    /\ seen' = [seen EXCEPT ![c] = part[Contract(c)][Of(c)]]
    /\ UNCHANGED <<session, copy, piece, made, part, keys, kills, mixed, crossed, cut>>

-----------------------------------------------------------------------------
(* AccountManager.createAccount.                                           *)

\* Slip: an alias that is there is not noticed.
NeverTaken(c) == FALSE

Taken(c) == \E a \in keys : AliasOf[a] = AliasOf[c]

\* The file is read; half of one makes JSON.parse throw.
Load(c) ==
    /\ At(c, "account", "begin")
    /\ IF piece["accounts"] = "torn" \/ Taken(c) THEN Fails(c) ELSE GoTo(c, "ask")
    /\ copy' = [copy EXCEPT ![c] = keys]
    /\ mixed' = (mixed \/ OnAccounts # {})
    /\ UNCHANGED <<session, seen, piece, made, part, keys, kills, crossed, cut>>

\* The passphrase is prompted for, unless a flag tells.
Answer(c) ==
    /\ At(c, "account", "ask")
    /\ GoTo(c, "open")
    /\ UNCHANGED <<session, seen, copy, piece, made, part, keys, kills, mixed,
                   crossed, cut>>

\* writeFileSync empties the file ...
OpenAccounts(c) ==
    /\ At(c, "account", "open")
    /\ GoTo(c, "write")
    /\ piece' = [piece EXCEPT !["accounts"] = "torn"]
    /\ keys' = {}
    /\ UNCHANGED <<session, seen, copy, made, part, kills, mixed, crossed, cut>>

\* ... and fills it; what another command wrote meanwhile may stick out
\* behind the new text.
WriteAccounts(c) ==
    /\ At(c, "account", "write")
    /\ Advance(c)
    /\ keys' = {a \in copy[c] : AliasOf[a] # AliasOf[c]} \cup {c}
    /\ \E state \in {"whole", "torn"} :
        /\ state = "torn" => keys # {}
        /\ piece' = [piece EXCEPT !["accounts"] = state]
    /\ UNCHANGED <<session, seen, copy, made, part, kills, mixed, crossed, cut>>

-----------------------------------------------------------------------------
Kill(c) ==
    /\ pc[c] \in Busy \cup {"ask"}
    /\ kills < MaxKills
    /\ kills' = kills + 1
    /\ GoTo(c, "killed")
    /\ cut' = IF pc[c] = "write" /\ Head(plan[c]).do \in {"put", "account"}
              THEN cut \cup {Of(c)} ELSE cut
    /\ UNCHANGED <<session, seen, copy, piece, made, part, keys, mixed, crossed>>

Proceed(c) ==
    \/ Look(c) \/ MakePiece(c) \/ OpenPiece(c) \/ WritePiece(c)
    \/ CheckComponent(c) \/ MakeDirectory(c) \/ OpenFile(c) \/ WriteFile(c) \/ ReadFile(c)
    \/ (c \in Accounts /\ (Load(c) \/ OpenAccounts(c) \/ WriteAccounts(c)))

FilesNext ==
    \E c \in FileCommands : Start(c) \/ Proceed(c) \/ Answer(c) \/ Kill(c)

FilesSpec == FilesInit /\ [][FilesNext]_fvars

-----------------------------------------------------------------------------
(* Properties.                                                             *)

\* An account that was created stays in accounts.json, or in the copy of the
\* command that is writing it.  It gets lost only when two commands were
\* between reading the file and writing it, or one was killed while writing.
AccountsSurvive ==
    mixed \/ "accounts" \in cut \/
        \A a \in Accounts : pc[a] = "done" =>
            \/ piece["accounts"] = "whole" /\ a \in keys
            \/ \E d \in Accounts : At(d, "account", "write") /\ a \in copy[d]

\* The accounts that can be read from accounts.json, or are being put there.
Stored ==
    (IF piece["accounts"] = "whole" THEN keys ELSE {})
        \cup UNION {copy[d] : d \in {e \in Accounts : At(e, "account", "write")}}

\* accounts.json is a RecordFile of the accounts, under `account create` and
\* the template that init copies.
AccountsFile == INSTANCE RecordFile WITH
    kept <- Stored,
    through <- {a \in Accounts : pc[a] = "done"},
    disturbed <- (mixed \/ "accounts" \in cut)

AccountsKept == AccountsFile!Spec

\* A contract that createNew made keeps all its files with their names in
\* place, whatever is created, refused or killed later.  Exempt are commands
\* that created the same contract at the same time.
ContractsAreComplete ==
    \A c \in Inits \cup Creates : pc[c] = "done" =>
        \/ \A f \in Files : part[Contract(c)][f] = "done"
        \/ Contract(c) \in crossed

\* When init says it is done all its pieces are whole, also when another
\* init ran beside it or before it, but for those a killed command left torn
\* and those another command is writing.
InitIsComplete ==
    (\E c \in Inits : pc[c] = "done") =>
        \A p \in Pieces :
            \/ piece[p] = "whole"
            \/ piece[p] = "torn" /\ p \in cut
            \/ \E d \in FileCommands : pc[d] = "write" /\ Of(d) = p
            \/ p = "accounts" /\ mixed

=============================================================================
