--------------------------- MODULE ContractBuild ---------------------------
(***************************************************************************)
(* The commands that build contracts - `contract compile`, `validate` and  *)
(* `typegen` - composed with those that create the files they build from.  *)
(* A compile takes the contracts it matches one after the other (a Listr,  *)
(* which stops at the first error): cargo, the artifacts, their            *)
(* validation, the bindings.  A text is the version last written whole, 0  *)
(* if none was; it is opened, which empties it, and then filled.           *)
(***************************************************************************)
EXTENDS ProjectFiles

CONSTANTS
    Compiles, Validates, Typegens,   \* the commands
    Matched,      \* the contracts each one's criterion admits
    MaxVersion    \* bound on versions of a contract's source

Builds   == Compiles \cup Validates \cup Typegens
Versions == 1..MaxVersion
Nobody   == "nobody"

ASSUME BuildAssumption ==
    /\ Builds \cap FileCommands = {} /\ Nobody \notin Compiles
    /\ Compiles \cap Validates = {} /\ Typegens \cap (Compiles \cup Validates) = {}
    /\ Matched \in [Builds -> SUBSET Names]
    /\ \A c \in Typegens : \E n \in Names : Matched[c] = {n}
    /\ MaxVersion \in Nat \ {0}

VARIABLES
    at,         \* where each command stands
    todo,       \* the contracts it has left, with the one it is at
    now,        \* the contract it is at
    child,      \* its cargo
    heard,      \* outputDirectory is set
    held,       \* the metadata it makes bindings of
    built,      \* the version its cargo builds
    source,     \* what the user has written
    target,     \* what cargo left in the target directory
    artifact,   \* what is in the artifacts directory
    binding,    \* the metadata the bindings were made of
    torn,       \* the artifacts and bindings that are empty or a part
    opened      \* the commands in the middle of writing one

VARIABLES       \* history, read by the properties only
    since,      \* the source when the command came to the contract
    fresh,      \* the newest one whose build was reported
    builder,    \* the command whose cargo was the last to write the target,
                \* until it is through with the contract
    outrun,     \* contracts whose bindings were saved after their metadata
                \* had been replaced
    slashed     \* what a command was killed in the middle of writing, and
                \* none has written since

texts == <<torn, opened, slashed>>
cvars == <<at, todo, now, child, heard, held, built, source, target, artifact,
           binding, since, fresh, builder, outrun>>
bvars == <<cvars, texts>>
vars  == <<fvars, bvars>>

Kinds   == {"contract", "wasm", "json"}
Writes  == Kinds \cup {"save"}
Texts   == Names \X Writes
Working == {"cargo", "validate", "read", "save", "next"} \cup Kinds
Crate   == {"Cargo.toml", "lib.rs"}

TypeOK ==
    /\ FilesTypeOK
    /\ at \in [Builds -> Working \cup Ended \cup {"idle"}]
    /\ todo \in [Builds -> SUBSET Names]
    /\ now \in [Builds -> Names]
    /\ child \in [Compiles -> {"none", "waiting", "building", "ok", "bad"}]
    /\ heard \in [Compiles -> BOOLEAN]
    /\ {held, since} \subseteq [Builds -> Versions \cup {0}]
    /\ built \in [Compiles -> Versions]
    /\ source \in [Names -> Versions]
    /\ {target, binding, fresh} \subseteq [Names -> Versions \cup {0}]
    /\ artifact \in [Names -> [Kinds -> Versions \cup {0}]]
    /\ builder \in [Names -> Compiles \cup {Nobody}]
    /\ outrun \subseteq Names
    /\ torn \subseteq Texts /\ slashed \subseteq Texts
    /\ opened \subseteq Builds

Init ==
    /\ FilesInit
    /\ at = [c \in Builds |-> "idle"]
    /\ todo = [c \in Builds |-> {}]
    /\ now = [c \in Builds |-> Flipper]
    /\ child = [c \in Compiles |-> "none"]
    /\ heard = [c \in Compiles |-> FALSE]
    /\ held = [c \in Builds |-> 0]
    /\ built = [c \in Compiles |-> 1]
    /\ source = [n \in Names |-> 1]
    /\ target = [n \in Names |-> 0]
    /\ artifact = [n \in Names |-> [k \in Kinds |-> 0]]
    /\ binding = target
    /\ since = held /\ fresh = target
    /\ builder = [n \in Names |-> Nobody]
    /\ outrun = {}
    /\ torn = {} /\ opened = {} /\ slashed = {}

Goes(c, place) == at' = [at EXCEPT ![c] = place]

-----------------------------------------------------------------------------
(* MultiContractExecutor.                                                  *)

\* The directories of contracts with a Cargo.toml, complete or not.
Found(c) == {n \in Matched[c] : part[n]["Cargo.toml"] # "absent"}

\* requestProjectDirectory; typegen does not look for the contract.  When
\* nothing matches exec returns null, and null.run() throws.
Begin(c) ==
    LET matched == IF c \in Typegens THEN Matched[c] ELSE Found(c) IN
    /\ at[c] = "idle" /\ c \in session
    /\ todo' = [todo EXCEPT ![c] = matched]
    /\ \/ piece["config"] # "absent" /\ matched # {} /\ Goes(c, "next")
       \/ (piece["config"] # "whole" \/ matched = {}) /\ Goes(c, "failed")
    /\ UNCHANGED <<now, child, heard, held, built, source, target, artifact,
                   binding, since, fresh, builder, outrun, texts>>

\* The next contract: a compile spawns cargo for it.
Take(c, n) ==
    /\ at[c] = "next" /\ n \in todo[c]
    /\ now' = [now EXCEPT ![c] = n]
    /\ since' = [since EXCEPT ![c] = source[n]]
    /\ IF c \in Compiles
       THEN /\ Goes(c, "cargo")
            /\ child' = [child EXCEPT ![c] = "waiting"]
            /\ heard' = [heard EXCEPT ![c] = FALSE]
       ELSE /\ Goes(c, IF c \in Validates THEN "validate" ELSE "read")
            /\ UNCHANGED <<child, heard>>
    /\ UNCHANGED <<todo, held, built, source, target, artifact, binding, fresh,
                   builder, outrun, texts>>

\* It is through with a contract.
Through(c) ==
    LET n == now[c] IN
    /\ todo' = [todo EXCEPT ![c] = @ \ {n}]
    /\ Goes(c, IF todo[c] = {n} THEN "done" ELSE "next")
    /\ fresh' = IF c \in Compiles /\ since[c] > fresh[n]
                THEN [fresh EXCEPT ![n] = since[c]] ELSE fresh
    /\ builder' = IF builder[n] = c THEN [builder EXCEPT ![n] = Nobody] ELSE builder

-----------------------------------------------------------------------------
(* Compiler.compile and its cargo, which outlives a killed command.        *)

\* Cargo locks the target directory before it reads the source.
CargoReads(c) ==
    /\ child[c] = "waiting"
    /\ \A d \in Compiles : child[d] = "building" => now[d] # now[c]
    /\ child' = [child EXCEPT ![c] = "building"]
    /\ built' = [built EXCEPT ![c] = source[now[c]]]
    /\ UNCHANGED <<at, todo, now, heard, held, source, target, artifact, binding,
                   since, fresh, builder, outrun, texts>>

\* It builds what compiles: never the half of a crate or one that has its
\* placeholders.
CargoEnds(c) ==
    LET n == now[c] IN
    /\ child[c] = "building"
    /\ \/ /\ \A f \in Crate : part[n][f] = "done"
          /\ child' = [child EXCEPT ![c] = "ok"]
          /\ target' = [target EXCEPT ![n] = built[c]]
          /\ builder' = [builder EXCEPT ![n] = c]
       \/ /\ child' = [child EXCEPT ![c] = "bad"]
          /\ UNCHANGED <<target, builder>>
    /\ UNCHANGED <<at, todo, now, heard, held, built, source, artifact, binding,
                   since, fresh, outrun, texts>>

\* stdout's 'data' with the JSON of --output-json.
Output(c) ==
    /\ at[c] = "cargo" /\ child[c] = "ok"
    /\ heard' = [heard EXCEPT ![c] = TRUE]
    /\ UNCHANGED <<at, todo, now, child, held, built, source, target, artifact,
                   binding, since, fresh, builder, outrun, texts>>

\* Slip: the output is waited for, which may never parse.
WaitsForOutput(c) == child[c] = "bad" \/ (child[c] = "ok" /\ heard[c])

HasExited(c) == child[c] \in {"ok", "bad"}

\* 'exit', which may come before that: "Unable to detect output directory".
Exit(c) ==
    /\ at[c] = "cargo" /\ HasExited(c)
    /\ Goes(c, IF child[c] = "ok" /\ heard[c] THEN "contract" ELSE "failed")
    /\ child' = [child EXCEPT ![c] = "none"]
    /\ UNCHANGED <<todo, now, heard, held, built, source, target, artifact,
                   binding, since, fresh, builder, outrun, texts>>

\* Slip: an artifact that is there is kept.
KeptArtifact(n, k) == IF artifact[n][k] = 0 THEN target[n] ELSE artifact[n][k]

\* Slip: the bindings' metadata is taken for the copied one.
StaleMetadata(n, k) == IF k = "json" /\ binding[n] # 0 THEN binding[n] ELSE target[n]

Copied(n, k) == target[n]

Text(c) == <<now[c], at[c]>>

\* copyFileSync and writeFileSync empty the file they are to write ...
OpenText(c) ==
    /\ at[c] \in Writes /\ c \notin opened
    /\ opened' = opened \cup {c}
    /\ torn' = torn \cup {Text(c)}
    /\ UNCHANGED <<cvars, slashed>>

\* ... and fill it.
Filled(c) ==
    /\ c \in opened
    /\ opened' = opened \ {c}
    /\ torn' = torn \ {Text(c)} /\ slashed' = slashed \ {Text(c)}

\* The three files are copied one by one.
Copy(c) ==
    LET n == now[c]  k == at[c] IN
    /\ k \in Kinds /\ Filled(c)
    /\ artifact' = [artifact EXCEPT ![n][k] = Copied(n, k)]
    /\ Goes(c, CASE k = "contract" -> "wasm" [] k = "wasm" -> "json" [] k = "json" -> "validate")
    /\ UNCHANGED <<todo, now, child, heard, held, built, source, target, binding,
                   since, fresh, builder, outrun>>

\* cargo left the output of a crate of another name: "not generated under".
NotGenerated(c) ==
    /\ at[c] \in Kinds /\ c \notin opened
    /\ Goes(c, "failed")
    /\ UNCHANGED <<todo, now, child, heard, held, built, source, target, artifact,
                   binding, since, fresh, builder, outrun, texts>>

-----------------------------------------------------------------------------
(* Validator.validate and TypeBinder.createBindings.                       *)

\* No verdict stops a compile: one that is not a string is an exception, and
\* `valid` compares it with the word "string".
Validate(c) ==
    /\ at[c] = "validate"
    /\ \/ c \in Compiles /\ Goes(c, "read") /\ UNCHANGED <<todo, fresh, builder>>
       \/ c \in Validates /\ Through(c)
       \/ /\ artifact[now[c]]["wasm"] # 0 \/ <<now[c], "wasm">> \in torn
          /\ Goes(c, "failed") /\ UNCHANGED <<todo, fresh, builder>>
    /\ UNCHANGED <<now, child, heard, held, built, source, target, artifact,
                   binding, since, outrun, texts>>

\* There may be none, or a part, or a type in it that is refused
\* (TypeBindings).
ReadMetadata(c) ==
    LET json == artifact[now[c]]["json"] IN
    /\ at[c] = "read"
    /\ \/ json # 0 /\ <<now[c], "json">> \notin torn /\ Goes(c, "save")
       \/ Goes(c, "failed")
    /\ held' = [held EXCEPT ![c] = json]
    /\ UNCHANGED <<todo, now, child, heard, built, source, target, artifact,
                   binding, since, fresh, builder, outrun, texts>>

SaveBindings(c) ==
    LET n == now[c] IN
    /\ at[c] = "save" /\ Filled(c)
    /\ binding' = [binding EXCEPT ![n] = held[c]]
    /\ outrun' = IF artifact[n]["json"] = held[c] THEN outrun \ {n} ELSE outrun \cup {n}
    /\ Through(c)
    /\ UNCHANGED <<now, child, heard, held, built, source, target, artifact, since>>

-----------------------------------------------------------------------------
KillBuild(c) ==
    /\ at[c] \in Working
    /\ kills < MaxKills
    /\ Goes(c, "killed")
    /\ opened' = opened \ {c}
    /\ slashed' = IF c \in opened THEN slashed \cup {Text(c)} ELSE slashed
    /\ UNCHANGED <<todo, now, child, heard, held, built, source, target, artifact,
                   binding, since, fresh, builder, outrun, torn>>

\* The user writes a new version of a contract.
Edit(n) ==
    /\ session \cap Compiles # {}
    /\ \A f \in Crate : part[n][f] = "done"
    /\ source[n] < MaxVersion
    /\ source' = [source EXCEPT ![n] = @ + 1]
    /\ UNCHANGED <<at, todo, now, child, heard, held, built, target, artifact,
                   binding, since, fresh, builder, outrun, texts>>

BuildProceeds(c) ==
    \/ \E n \in Names : Take(c, n)
    \/ c \in Compiles /\ (CargoReads(c) \/ CargoEnds(c) \/ Exit(c))
    \/ OpenText(c) \/ Copy(c) \/ NotGenerated(c)
    \/ Validate(c) \/ ReadMetadata(c) \/ SaveBindings(c)

Next ==
    \/ FilesNext /\ UNCHANGED bvars
    \/ /\ \/ \E c \in Builds : Begin(c) \/ BuildProceeds(c)
          \/ \E c \in Compiles : Output(c)
          \/ \E n \in Names : Edit(n)
       /\ UNCHANGED fvars
    \/ /\ \E c \in Builds : KillBuild(c)
       /\ kills' = kills + 1
       /\ UNCHANGED <<session, pc, plan, seen, copy, piece, made, part, keys,
                      mixed, crossed, cut>>

\* A process goes on and cargo ends.  Nobody has to answer a prompt, and
\* nothing makes the output come, or parse, before the exit.
Fairness ==
    /\ \A c \in FileCommands : WF_vars(Proceed(c) /\ UNCHANGED bvars)
    /\ \A c \in Builds : WF_vars(BuildProceeds(c) /\ UNCHANGED fvars)

Spec == Init /\ [][Next]_vars
FairSpec == Spec /\ Fairness

-----------------------------------------------------------------------------
(* Properties.                                                             *)

\* Some command is in the middle of writing the text, or was killed there.
Explained(text) ==
    text \in slashed \/ \E c \in opened : Text(c) = text

\* The three artifacts and the bindings come from one build, cargo's last,
\* however compiles overlap: unless the command whose cargo that was has not
\* come to its end (it is at work, failed or was killed).  Bindings may
\* differ when their metadata was replaced while they were made.  What is
\* torn is being written or was when a command was killed.
ArtifactsAgree ==
    /\ \A n \in Names : builder[n] = Nobody =>
        /\ \A k \in Kinds : artifact[n][k] = target[n]
        /\ n \in outrun \/ binding[n] = target[n]
    /\ \A text \in torn : Explained(text)

\* Once a compile is through with a contract the artifacts written whole are
\* never older than the source was when it came to it, whatever other
\* commands copy, and wherever they are killed.
BuildsAreFresh ==
    \A n \in Names, k \in Kinds : artifact[n][k] >= fresh[n]

\* Versions flow from the source through cargo to the artifacts and bindings
\* and never back, though commands overlap and are killed between any two
\* steps (VersionFlow); a validation, a failure or an opened text changes
\* none.
Flow == INSTANCE VersionFlow
VersionsFlow == Flow!Spec

\* Every command comes to an end, whatever it meets: half-made contracts, a
\* cargo without output, files others are writing.  `account create` may wait
\* for its user.
CommandsEnd ==
    <>[](/\ \A c \in FileCommands : pc[c] \notin Busy
         /\ \A c \in Builds : at[c] \notin Working)

=============================================================================
