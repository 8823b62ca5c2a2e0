# A TLA+ development of devphase

devphase is a command line tool and library for developing Phala "phat" contracts: it
downloads and runs a local stack (node, pRuntime, pherry), provisions its network with a
cluster and drivers, builds, deploys and calls contracts, and runs mocha tests against all
that.  It is TypeScript on one event loop per process; what is hard in it is not parallelism
within a process but what happens between two `await`s: child processes, a chain with forks, a
node's transaction pool, time limits that give a promise up and not the work behind it, and
procedures that are cut off and repeated.

Paths are relative to `src/workspaces/service/src/` unless they start with `src/`.

## The system

| Component | State it keeps | Operations | Talks to |
|---|---|---|---|
| `TxQueue` (`service/api/TxQueue.ts`) | `_nonceTracker` per account | `nextNonce`, `submit` with up to 200 turns and 60 s a turn | node RPC (`accountNextIndex`, `signAndSend` and its status callback) |
| `TxHandler` (`service/api/TxHandler.ts`) | none | `handle`, the same loop with the nonce chosen by the node | same |
| `StackManager` (`service/project/StackManager.ts`) | `_killFlag`, `_processes`; per start: promise, `settled`, 250 ms interval | `startStack`, `stopStack`, `startComponent` | child processes: output, `exit`, `close` |
| `StackSetupService` (`service/api/StackSetupService.ts`) | what it finds on the chain | a list of tasks, each `skip` / transactions / wait | `TxQueue`, the worker's message queue, `waitFor` |
| `StackBinaryDownloader` (`service/project/StackBinaryDownloader.ts`) | `releases.json`, the files of the stack | `getReleases`, `findRelease`, `downloadIfRequired` | GitHub, the disk, other devphase processes |
| mocha hooks (`src/workspaces/service/etc/mocha.global.js`), `Tester` | `devPhase`, `stackManager`, `pinkLogger` of the run | `before`, `afterEach`, `after` | `StackManager`, `DevPhase` |
| `DevPhase` (`service/api/DevPhase.ts`) | connection, accounts, caches of system, driver and registry promises | `create`, `stackSetup`, `cleanup`, `getFactory`, `getSystemContract`, `getDriverContract`, `ensureFundsInCluster` | node, worker, `ContractFactory` |
| `ContractFactory` (`service/api/ContractFactory.ts`) | metadata | `create`, `deploy`, `instantiate`, `estimate`, `attach` | `DevPhase`, `TxHandler`, `waitFor` |
| `EventQueue` (`service/api/EventQueue.ts`) | handlers | `init`, `destroy`, `registerHandler` (never called) | node events |
| `PinkLogger` (`service/api/PinkLogger.ts`) | a pointer per contract | `getNewLogs`, `saveLogs` | the logger contract |
| `RuntimeContext` (`service/project/RuntimeContext.ts`) | paths, configuration, one `DevPhase` per network | `initContext`, `initDevPhase` | the file system |
| `ContractManager`, `Compiler`, `Validator`, `TypeBinder`, `MultiContractExecutor` (`service/project/`) | `contracts.json`, artifacts | create, compile, validate, deploy, call, watch | cargo, `ContractFactory`, chokidar |
| `AccountManager` (`service/project/AccountManager.ts`) | `accounts.json` | `createAccount`, `loadAccounts` | the file system |
| `Initializer`, `DependenciesChecker` | the project directory | `init`, `check` | the file system |
| `AbiTypeBindingProcessor`, `StructTypeBuilder` (`service/type-binding/`) | tables of built types, statements, namespaces | `createTypeBindingFile`: metadata to TypeScript | `TypeBinder` |
| commands (`src/workspaces/cli/src/commands/`) | none | parse flags, call one service | all of the above |

What makes each correct, and what is hard to test about it:

* **Submission.** A promise that resolves was executed; one that rejects left nothing behind;
  a retry does not execute twice; two extrinsics never share a nonce and no nonce is left
  out.  Hard: overlapping calls around the `await` in `nextNonce`, a timeout that does not
  withdraw, reorgs, drops, an RPC that fails inside an async promise executor.
* **Stack.** When the start returned all components run; a stop reaches every child wherever
  the start had got to, and ends.  Hard: a stop in the middle of a start, an error text or a
  ready text racing the stop, the limit and the interval.
* **Setup.** 'Stack is ready' means nothing is missing; a second run does nothing twice.
  Hard: a run cut off between two transactions, calls still in the worker's queue.
* **Binaries.** A command goes on only with whole, executable files.  Hard: kills between two
  writes, two commands in one project, responses that break off.
* **Test run.** Tests run on their stack only; the teardown leaves no child and no connection.
  Hard: a hook that goes on after mocha gave it up, a step that throws.
* **Deployment.** No instance before its code; `contracts.json` names contracts that work and
  keeps them.  Hard: commands in several processes, a file written in place, a deployment cut off
  between its transactions, the timers of `waitFor`.
* **Shared handles.** One connection per network, the driver that was asked for, one deposit, no
  log left out.  Hard: tasks of one script between a check and the store behind the next `await`,
  promises cached before they settle, promises that wait for others of the same cache.
* **Project files.** No account is lost, a project and a contract are made whole.  Hard: commands
  in several processes between looking at a file and writing it, kills between two writes.
* **Builds.** Artifacts and bindings belong together and to the source.  Hard: compiles that
  overlap, a cargo that outlives its command, its exit before its output.
* **Type bindings.** A binding says of a type what the metadata says, wherever it is used.  Hard:
  bindings are texts that name each other through namespaces, which only a TypeScript compiler
  would look at; no test compiles them.

## Modules

| Module | Models | Checked by | Proved in |
|---|---|---|---|
| `TxSubmission` | `TxQueue`, `TxHandler`, `utils/timeout.ts`; node pool and chain as environment | `tx_races`, `tx_faults` | `TxSubmission_proofs` |
| `StackManager` | `StackManager`, `stack run` | `stack_manager`, `stack_orphan` | `StackManager_proofs` |
| `StackSetup` | `StackSetupService`, `waitFor` | `stack_setup`, `setup_rerun` | `StackSetup_proofs` |
| `SetupOrder` | abstract: the order in which a network is provisioned | implemented by `StackSetup` | `StackSetup_proofs` |
| `TestRun` | the mocha hooks, composed with `StackManager` (`S == INSTANCE StackManager`) | `test_run`, `test_connection` | `TestRun_proofs`, over `StackManager_proofs` |
| `StackBinaries` | `StackBinaryDownloader` in several processes | `stack_binaries` | `StackBinaries_proofs` |
| `ContractDeployment` | `ContractFactory`, `ContractManager.deploy` with `contracts.json`, `waitFor` | `deployments` | `ContractDeployment_proofs` |
| `DevPhaseHandles` | `DevPhase` with its caches, `RuntimeContext.initDevPhase`, `PinkLogger` under the tasks of one script | `handles` | `DevPhaseHandles_proofs` |
| `ProjectFiles` | `Initializer`, `ContractManager.createNew`, `AccountManager.createAccount` in several processes | `project` | `ContractBuild_proofs` |
| `ContractBuild` | extends `ProjectFiles` by `Compiler`, `Validator`, `TypeBinder` under `MultiContractExecutor` | `project` | `ContractBuild_proofs` |
| `CallOutcomes` | abstract: what a call that submits an extrinsic promises its caller | implemented by `TxSubmission` | `TxSubmission_proofs` |
| `StackOrder` | abstract: the order in which a stack starts and ends | implemented by `StackManager` | `StackManager_proofs` |
| `RecordFile` | abstract: a JSON file that processes read, extend and write back | implemented by `ContractDeployment` (`contracts.json`), `ProjectFiles` (`accounts.json`) | `ContractDeployment_proofs`, `ContractBuild_proofs` |
| `VersionFlow` | abstract: versions from the source to artifacts and bindings | implemented by `ContractBuild` | `ContractBuild_proofs` |
| `TypeBindings` | `AbiTypeBindingProcessor`, `StructTypeBuilder`: what `typegen` writes, as data | `project` | - |

An operator marked `Slip` above the one it resembles is a mistake a maintainer could make there
(a dropped guard, a value read too early); no action uses it.  Putting it in the place of its
neighbour makes the property that watches over that line fail, which is how the properties
were validated.

### TxSubmission

A *job* is one call of `submit` (`Queued`) or `handle` (`Handled`) for one account; jobs
overlap.  `pc[j]` is where its loop stands, `cost` the loop counter `i`, `seen` and `idx` the
two values `nextNonce` takes the maximum of, `tracker` the account's `_nonceTracker`.
`Attempt` is one turn up to the `await` of `accountNextIndex`, `AnswerIndex` its answer,
`Send` the rest up to `signAndSend`.  Extrinsics are records `[job, att, nonce]` that move
through `wire`, `pool`, `block`, `final`; each status callback is the operator `Verdict`, a
translation of the two status functions, applied in the step that causes the status.
`Timeout` is the 60 s limit (it costs `TimeoutCost` turns and leaves the extrinsic where it
is); `LateSend` is `handle`'s attempt that is sent after it was given up.  Environment faults
(timeouts, lost answers, refusals, usurped, dropped and retracted extrinsics) are bounded by
`MaxFaults`; `good`, `unsure`, `timedOut`, `burnt`, `raced` are history.

Abstracted: the payload; that 200 turns and a cost of 10 are `Budget` and `TimeoutCost`
(3 and 2 in the runs, arbitrary in the proofs); the delivery of a status is one step with its
cause, because a later delivery commutes with the other steps of the attempt.

`CallOutcomes` tells the promise from the chain alone, without tracker, pool, turns or watching: a call
is open, resolved or failed (`Outcome`), its outcome is given once and fits the chain of that moment,
and what comes later does not make it untrue.  `TxSubmission` implements it (`KeepsOutcomes`), with
`chain` its blocks, `sealed` the final ones, `worked` what was executed without an error; `shaken` and
`abandoned` are the two ways in which the code cannot keep the promise, a block that is taken back or
not made final in time and a timed-out attempt.

### StackManager

Components are `1..Last` (node, pRuntime, pherry).  A step is one callback: `ReadyText`,
`ErrorText`, `Exit`, `Close`, `Tick` of the 250 ms interval, `TimeLimit`, `Spawn`,
`SpawnFails`, and the calls `StartStack` and `Stop`; the continuation a callback releases runs
within its step (`GoOn`, `Reject`).  `fs` may throw at three places: at the logs directory, before
there is anything to stop (`StartFails`); before the spawn (`SpawnFails`); and at the log file of a
child that runs already (`LogFails`), which is one of the four ways a child escapes.  `proc` is the
operating system's view, `held` is `_processes`, `missed` records how a child escaped.  The `'error'`
event of a child whose binary is missing is left out (the binaries are checked before).

`StackOrder` is a start without its callbacks: components are launched one by one, each when the one
before is ready, and the start returns when all are or one got ready after a stop.  `StackManager`
implements it (`StartsInOrder`) with `Launched` and `Ready`, two counts told from the stage and from
`_processes`, and `Alive`, the children that run.

### StackSetup and SetupOrder

`Tasks` is the task list of the default setup, of which a mode has the first `Steps(mode)`.  `Check`
is a task's `skip`, the other actions its transactions in order, `Wait` its `waitFor`, `Fail` a
failure anywhere.  Contract calls go to `mq` and are executed later (`Execute`), also after the run
that made them failed.  `Publish` and `GetsReady` are what the network does by itself.

A chain can have several clusters: a run that was given the id of one (`named`) does not look for
those there are and makes another (`Found`), whose key comes before or after theirs (`first`), and
the next run without an id takes the first.  `cluster` is `_clusterInfo`; what is kept per cluster
(`has`, `driver`, `admins`, `torn`, `best`) is named by the run that made it.  A driver's instance
(`Instance`) is that of the run, but the logger's has a fixed salt and is the cluster's.  `torn` and
`best` are history.

`SetupOrder` is the abstract specification: pieces appear only after the pieces they need, and none
is taken away.  `StackSetup` implements it (`ProvidedInOrder == Order!Spec`, with
`provided <- Provided`), with the network as cluster 0 and each cluster with pieces of its own.

### TestRun

`before` and `after` are where the *functions* of the two hooks stand, `main` is where mocha
is: after `BeforeLimit` the function goes on beside the teardown.  `link` is the connection
`DevPhase.create` opens, `devPhase` whether the hook got its result.  The stack's steps are
those of `StackManager`; `Begin` starts it (or fails to), `Stop` stops it, nothing else touches it.
`Stop` throws when the start was refused, as `stopStack` then has no `_processes` to go through.

### StackBinaries

Each process has a `pc` for the command and a `job` for each asset: asked, body, ended,
closed, or stuck.  A file is the set of its chunks that were written and its mode; its size is
its last chunk, so a gap does not show, as in the code.  `Answer` truncates, `Write` writes
where this download is, `End` sets the mode while the last chunk may still be under way,
`Refuse` removes the file, also under another process.  `cut` and `overlap` are history.

### ContractDeployment

A *call* is a run of `contract deploy` (`Commands`) or a script like the template `deploy.ts`
(`Scripts`); all deploy the same contract to the same cluster.  `pc[c]` is the transaction or
wait a call is at, `After` the order of `deploy` and `instantiate`.  A transaction is `sent`,
then `onChain` (in a block, which is when `TxHandler.handle` resolves by default; that a block
may be retracted later is TxSubmission's subject); `Fails` rejects whatever is awaited and
leaves open what became of the transaction.  `poll[c]` is the interval of `waitFor`: `FirstTry`
asks before it is started, `Tick` ends it, `Limit` clears it, a condition that rejects does
not.  `Kill` interrupts a command anywhere; a `writeFileSync` that throws is the case of it in the
middle of a save.  `Load`, `Open`, `Write` are `_addContractDefToStorageFile` across processes: the file is
read, emptied and written in place, `file.size` is its length in records, and `file.whole` says
whether `JSON.parse` accepts it.  `raced`, `cut`, `refused` are history.  The worker (`Register`,
`Publish`) is assumed to instantiate only from code it has.

`contracts.json` is a `RecordFile` of what the commands deployed (`RecordsKept`): a command that is
through has its record there and no record goes, until two saves overlap or a save is cut off.  While
the file is emptied for a moment the records are in the copy about to be written (`Filed`).

### DevPhaseHandles

A *caller* is a task of a script; all run on one event loop, so a step is what happens between
two `await`s.  `pc[c]` is what the caller awaits, `want[c]` the call it is in, `mine[c]` the
`DevPhase` it got from the context (`GetDevPhase`) or is creating (`InitDevPhase`).  An instance
is a `DevPhase.create` that was connected; `cache[i]` holds its promises of system contracts, by
cluster, and of the main cluster's drivers, put there before anything is awaited.  `tables` are the
instances whose `_driverContracts` has an entry for the main cluster: `getDriverContract` makes a promise
only while there is none (`Tabled`, `NewTable`), and returns what the table has under the driver's
name, if anything (`AskDriver`).  A promise
settles by itself (`Resolve`, `Reject`), whoever asked for it, and `Needs` says which other
promise of the cache it waits for: a system contract is attached without its own system contract
(the flag `systemContract` of `ContractFactory.create`), else it would wait for itself.
`ensureFundsInCluster` asks, as the code does, for the balance in the main cluster whatever
cluster it deposits to (`Enough`, `Arrived`).  `cleanup` closes the connection and leaves the
instance in `_devPhases`.  `Provide` and `Write` are the network: a setup elsewhere, a record in
the logger contract.  `answers` (what each call for a driver came to), `crossed`, `stranded`,
`retried`, `ensured`, `mixed`, `read`, `reread` are history.

### ProjectFiles and ContractBuild

Each command is a process and a step is one call of `fs`.  A command of `ProjectFiles` has a
`plan`, the list of tasks it has left, and `pc` says where it stands in the first: `init` puts its
directories and templates and then creates the sample contract, `contract create` looks for a
component's directory, copies it and edits its files, `account create` reads `accounts.json`,
asks, and writes it in place.  A file is absent, torn (emptied, or cut off), a template with
placeholders, or done.  `Kill` ends any command between two steps.  What the user answers is not
modelled; that she takes time is (`Answer`).  `accounts.json` is the other `RecordFile`
(`AccountsKept`, with `Stored` what can be read or is being put there).

`ContractBuild` adds the commands that read those files.  A text is a version of the source:
`source` is the user's, `built[c]` the one the command's cargo read, `target` what cargo left,
`artifact` and `binding` what the project has.  An artifact or binding is written in two steps, as
the files above are: `OpenText` empties it (`torn`, while the command is in `opened`), `Copy` and `SaveBindings`
fill it, and a command killed in between leaves it torn.  `artifact` and `binding` keep the version last
written whole; who reads a torn text fails (`ReadMetadata`, and `Validate` may).  `NotGenerated` is
an artifact that cargo did not leave under the contract's name.  `Output` and `Exit` are two callbacks in either
order, as the code has it: the exit without the output is 'Unable to detect output directory'.
Cargo locks the target directory, ends after the command that spawned it was killed, and compiles
no half-made contract.  `Validate` can throw but refuses nothing, because `valid` compares the
verdict with the word `string`.  `since`, `fresh`, `builder`, `outrun`, `slashed` (texts a kill left
torn) are history.  That cargo holds its lock from reading the source to writing the target is an
assumption about cargo, as is that a copy reads one build's file.

`VersionFlow` has no commands at all: the source gets newer, a build turns the target to a version the
source has had and not to an older one, a copy takes it to an artifact, and bindings are made of
metadata there is or was.  `ContractBuild` implements it (`VersionsFlow`), variable by variable; it
speaks of texts written whole, and what is torn meanwhile is told by `ArtifactsAgree`.

### TypeBindings

What `typegen` makes of a contract's metadata.  A type of the metadata is a record of its kind, path
and the indices of its parts; `faces` is `_builtTypes`, `statements` is `_typeStatements`.
`BuildNext` is a turn of the builder's loop over the types, `Throw` one that ends it with an exception,
`Export` puts what was built into namespaces (`tree`).  `BuildType` and `Build` are `_buildType`:
parts first, then the type's three faces (native, human, codec).  A face is text in the code; here it is the
sequence of its alternatives, each a name, a list, a tuple or an application.  `StatementsOf` and
`Store` fill `_typeStatements` under its keys, `Declarations` the namespaces they are put in, shorter
paths first, and `Query`, `Tx`, `ConstructorParams` what the processor makes of the faces (`NoType` is the return
type of a message that has none).
`Refused` collects what ends a build with an exception, a type that contains itself among it (the
recursion has no end).

`FacesFit` is the reference.  `Read` follows a face from the namespace it stands in, name by name, as
TypeScript does (a name is looked up outwards by its first part: that rule is the only part that is
not the repository's), and `Shape` tells from the metadata alone what it should find.  The two agree
for every type that satisfies `BindsWell`, and each condition in it is needed: without any of them TLC
finds metadata whose bindings say something else.  They are

* no two types with one prepared name: the later declaration replaces the earlier one;
* names that camelCase leaves alone: `PSP22Error` is declared under its own name and
  referred to as `Psp22Error`;
* no module called like the first part of a name, which it would hide;
* in lists, elements of one alternative and with equal native and human faces: `[]` binds to
  the last alternative only (`string | number[][]`), and the human face of a list is made of native ones.

`MCContractBuild` checks it for 4,940 metadata of four types (each made of those after it, built-in
and declared, in paths that meet each other).  The builder touches nothing but its own memory, so that
run has it work in a session without other commands; that it may throw is a branch of
`ContractBuild`'s `ReadMetadata`.  The fixed text around the declarations, the import
statements and the names of messages are left out.

## Runs

| Run | Instance | Shows |
|---|---|---|
| `tx_races` | 2 queued jobs, 1 handled, 1 fault | `RetriesAreSafe`: only a timeout makes an attempt leave something behind. `NoncesAreDistinct`: two extrinsics of the queue share a nonce only after two `nextNonce` overlapped. `NoncesAreContinuous`: a gap comes from a refused or dropped extrinsic only. |
| `tx_faults` | 1 queued, 1 handled, 2 faults, with fairness | `ResolvedMeansExecuted`, `ExecutionsBounded`, the refinement of `CallOutcomes` (`KeepsOutcomes`), and that a call settles unless `accountNextIndex` failed or a burnt nonce blocks it (`Settles`). |
| `stack_manager` | 3 components, with fairness | `RunningIsComplete`, `OrphansExplained` (the four ways a child escapes), the refinement of `StackOrder` (`StartsInOrder`), `StopEnds`. |
| `stack_orphan` | 3 components | **violated**: a component that prints an error text while it starts is never stopped.  The children whose log file could not be opened are exempt here. |
| `stack_setup` | 3 runs, any modes, with or without the id of a cluster, with fairness | `OnlyTornIsMissing`, `RerunIsIdle`, `ClustersAreReused` (a second cluster is made only by a run that was given an id), `RunEnds`, and the refinement of `SetupOrder`. |
| `setup_rerun` | 3 runs | **violated**: after a run cut off in the middle of a task the next one reports a ready stack that has no funds. |
| `test_run` | 3 components, with fairness | `TestsHaveTheirStack`, `ChildrenAreReached`, `ConnectionsExplained`, `RunEnds`. |
| `test_connection` | 3 components | **violated**: `DevPhase.create` fails after it connected, and the finished teardown leaves the connection. |
| `stack_binaries` | 2 commands, one executable and one plain asset of 2 chunks, 1 fault, with fairness | `ReadyMeansWhole`, `ReadyMeansExecutable`, `CompleteStays`, `Recovers`. |
| `deployments` | 2 commands and a script, 1 fault, with fairness | `CodeComesFirst`, `RecordsAreUsable`, the refinement of `RecordFile` (`RecordsKept`: records get lost only by overlapping saves or a process killed while it saves), `DeploymentEnds` (with no interval left unless a condition rejected). |
| `handles` | 2 tasks, 2 clusters, 2 drivers, 2 connections, 1 fault, with fairness | `ConnectionsAreHeld`, `AnswersAgree` (calls for drivers that overlap or repeat give one answer for each driver: that driver, a rejection, or nothing if another driver has the table), `FundsAreEnsured`, `LogsAreRead`, and that every call ends (`CallsEnd`): no promise waits for itself. |
| `project` | 12 commands in 11 sessions of up to 3, 2 contracts, 2 kills, 2 versions, with fairness; 4,940 metadata | `ContractsAreComplete`, `InitIsComplete`, `ArtifactsAgree`, the refinements of `RecordFile` (`AccountsKept`) and `VersionFlow` (`VersionsFlow`), `CommandsEnd`; and `FacesFit`: whatever metadata `typegen` finds, its bindings say the same. |

Type invariants (`TypeOK`) are proved, in every module that has proofs; while they were written TLC
checked them too.  The three violated runs are the findings of `PROJECT.json`.  Next to each of them a property of
the passing run says what the code does guarantee (`OrphansExplained`, `OnlyTornIsMissing`,
`ConnectionsExplained`).

### Bounds

* *TxSubmission*: a nonce conflict needs two queued jobs, a late send one handled one; a fault
  and a retry that exhausts the budget fit in `Budget = 3`.  Larger instances were
  checked with the same result: two queued jobs with `Budget = 5` and 3 faults (6.7 million
  states), three jobs with 2 faults (over 20 million).  The safety properties are
  proved for every instance.
* *StackManager, TestRun*: `Last = 3` is the real stack, without any other bound; the proofs hold
  for any number.
* *StackSetup*: `MaxRuns = 3`: one that fails, one that fails while calls of the first are
  executed, one that completes; and up to three clusters (414,681 states).  The safety properties and
  the refinement are proved for any number.
* *StackBinaries*: two chunks are the least with a gap.  Safety was also checked with two
  faults (1.2 million states), everything with one asset and 3 faults.  How often commands are
  repeated and the cache expires is not bounded.
* *ContractDeployment*: two commands overlap in every way around `contracts.json`, the script
  takes the deposit and shares the code.  Three commands, the least for a text that sticks out
  behind a shorter one, were checked for the safety properties, and these are proved for any.

* *DevPhaseHandles*: two tasks are what an `await` can separate; two connections, one that is
  replaced or lost beside its successor; two clusters, because the balance is asked of the main
  one; two drivers, because the first one asked for hides the other.  A script works with contracts,
  with money or with the log (`Scripts`), as those parts share no state.
* *ContractBuild*: `Sessions` are the commands that meet: those that write the same file, and a
  build beside a command that changes what it reads.  Two kills tear a file and then what was to
  repair it (larger sessions were checked with one kill); two versions tell old from new.  The safety
  properties are proved for any sessions, kills and versions.
* *TypeBindings*: three types are the least for two that are used by a third and meet in a name, and
  a fourth is what they are made of; the paths repeat a crate up to three times, because the name is shortened once.

`CHECK_DEADLOCK FALSE` is set throughout: all of these systems stop when they are done, and a
download may hang.

### Fairness

Weak fairness of what an event loop owes: a ready callback runs, timers and intervals fire,
a continuation goes on.  Of the environment: the node answers, includes and finalizes what it
can (`tx_faults`, `deployments`), a signalled child exits, the worker executes its queue (in the
setup; a deployment has the limits of `waitFor` instead), streams deliver.
Never assumed: that a caller starts a job or stops the stack, that a component gets ready, that
what a hook awaits arrives, or that a fault happens.  `Recovers` assumes that users repeat the
command and time passes, but not that a hanging command is interrupted.  In `handles` the
continuations of each caller run, the limits of `waitFor` and `TxHandler` fire, and requests over
an open connection are answered; over a closed one they may hang.  In `project` each process goes
on and cargo ends; nobody has to answer a prompt, and nothing makes cargo's output come, or parse,
before its exit.

## Proofs

`TxSubmission_proofs` (for every `Queued`, `Handled`, `AwaitFinal`, `Budget`, `TimeoutCost`,
`MaxFaults` satisfying `SubmissionAssumption`):

* `TypeCorrect`.
* `RetriesSafe`: `RetriesAreSafe` is not inductive; `AttemptInv` adds that an attempt
  sends one extrinsic (`OneExtrinsicPerAttempt`), that a job that asks for a nonce, or never
  began, has nothing of its attempt around (`AskingIsFresh`, `IdleIsFresh`), that late sends
  belong to timed-out attempts (`LateIsTimedOut`) and that attempts only grow
  (`AttemptsCount`).
* `NoncesDistinct`: with `TrackerIsAhead`, the tracker is above every nonce of the queue as
  long as no two `nextNonce` overlapped.
* `NoncesContinuous`: `NonceInv` says that everything below the chain's next nonce, the
  tracker, each `byCache` and `byRpc` and each live nonce is held or burnt (`Covered`); one
  argument for all steps: what was covered stays covered, and a new nonce is taken from a
  covered value.
* `ResolvedExecuted` and `FailureFinal`: `VerdictInv` adds to the two that the extrinsic of a job
  that is still sending is on the wire, and one that is watched in a block was executed without an
  error (`WaitingFits`); only a verdict ends the watching, and by `AttemptInv` all other extrinsics of the job have timed out.
* `ExecutionsAreBounded`: `BudgetInv` says that the turns taken pay for the job's timeouts, and that
  a job with no turns left has only timed-out extrinsics; as an attempt sends one extrinsic, those
  executed map one to one into the timeouts and the attempt of the moment.
* `OutcomesKept`, the refinement of `CallOutcomes`.  A call executes nothing beside an extrinsic that
  stands, because a job that begins another attempt left the one before timed out or with nothing in a
  block.  `UnsureIsKnown` adds that an attempt whose block was doubted has no second extrinsic, and none
  to be sent late, so that this attempt is not mistaken for one that left nothing.  `OnceSettled` and
  `Given` are about the outcome (given once, by a verdict that fits).

`StackManager_proofs` (for every `Last > 0`):

* `TypeCorrect`.
* `OrphansAreExplained`: `EscapeInv` adds `ReadyIsHeld`, a child without an interval that did
  not escape is in `_processes` or was signalled.
* `RunningComplete` and `StopNoticed`: `StartInv` ties the promise pending to the stage, the
  children to the stages passed, and a dead child to the stop.
* `Starts`, the refinement of `StackOrder`: `HeldIsResolved` says that a component is in
  `_processes` only when its promise has resolved; with `StartInv` the promise of the present stage then
  tells both counts (`Counts`), which move in turn (`SpawnOrder`, `ReadyOrder`).

`StackBinaries_proofs` (for every `Proc`, `Asset`, `Binary` in `Asset`, `Chunks > 0`,
`MaxFaults`):

* `TypeCorrect`.
* `ReadyWhole`: `WholeInv` says, for an asset no two commands downloaded at a time, that one
  process at most is busy with it, that its file has no gap, that a download wrote exactly what
  is there, that a request is under way for an incomplete file only, and that a command which
  looked at it and is not busy with it found it complete.  A lemma for steps that leave an asset
  alone (`UndisturbedStep`) leaves one lemma for each step that does not.
* `CompleteUntouched`, from the types alone.
* `ReadyExecutable`: `ExecInv` (an ended download has set the mode; a file of full size without
  it has a trace in `cut` or a download at work) on top of `WholeInv` and `NoJobsYet`.

`ContractDeployment_proofs` (for every `Commands`, `Scripts`, `MaxFaults`):

* `TypeCorrect`, with `CommandsSave`: only commands touch `contracts.json`.
* `CodeFirst`: `CodeInv` adds that every place past the wait for the code has it.
* `RecordsUsable`: `UsableInv` says what each place has behind it (`HasPlace`), and that the copies
  commands are about to write name usable contracts too.
* `RecordsSurviving`: `SaveInv` says that until saves overlapped or one was cut off, one command at
  most is saving, from a copy equal to the file, and the file is incomplete only while it writes.
* `RecordsFiled`, the refinement of `RecordFile`, on `SaveInv`: what is read, emptied and written in
  three steps is one `Save` of the file as its readers know it.

`DevPhaseHandles_proofs` (for every set of callers, clusters, drivers and scripts, and every bound):

* `TypeCorrect`, with `PlacesFit`: a caller that awaits something has an instance, and the right
  kind of call.
* `ConnectionsHeld`: `HeldInv` says that as long as no two `initDevPhase` overlapped, one caller at
  most is connecting, with an instance of its own, and an open connection is the context's, that
  caller's, or stranded.
* `DriverAnswersAgree`: `DriverInv` says that an instance has a table exactly when it has a promise for
  some driver, and got it with its system contract (`TablesHold`), and that each answer given so far is
  still what the caches say: the driver whose promise resolved, a rejected promise, or nothing under a
  name the table does not have (`AnswersHold`).
* `LogsRead`: `LogInv` says that unless calls were mixed one caller at most has a `getLog` under way,
  from the logger's pointer, and that pointer ends what was read.
* `FundsEnsured`: `FundsInv` counts: what was sent to a cluster nobody retried is what arrived, or
  one deposit is under way by one caller.

`ContractBuild_proofs` (for every set of commands, sessions, names, aliases and contracts each
command matches, and every number of kills and versions).  First the files alone (`FilesSpec`):

* `FilesTypeCorrect`, with `PlansFit`: what is left of a plan fits the command (accounts are for `account
  create`, whose plan is one task), and a command that did not end has something left.
* `PlansRest`: what is left of a plan is the end of the command's whole plan, so that its length
  alone (`Left`) tells which task it is at (`Turns`).  `Due`, `CopyAt` and `EditAt` are those lengths, and
  the two invariants below speak of them instead of the sequences.
* `AccountsSurviving`: `AccountsInv` says that unless two commands were on `accounts.json` or one was
  killed in its write, one command at most is between reading and writing it (`OneWriter`), with a
  copy that is the file (`FreshCopy`), the file is emptied only by that one and whole otherwise.
* `AccountsFiled`, the refinement of `RecordFile`, on `AccountsInv`: of the steps of all commands, builds
  included, only the last of `account create` adds a record (`SaveStored`), an `init` that puts the template
  adds none (`PieceStored`), and all others leave what is stored alone or disturb it (`StoredStays`).
* `InitComplete`: `PiecesInv` says that a missing piece is still due in every init (`AbsentIsDue`), and
  that a torn one is being written, was torn by a kill, or is the accounts after two commands met on
  them (`TornIsExplained`, which needs `AccountsInv`: otherwise a write of `account create` ends whole).
* `ContractsComplete`: `ContractsInv` says that of a contract nobody crossed one command at most is past
  its first look (`Creating`), that each of its files is as far as that command's plan says (`Progress`:
  a template once it is copied, done once it is edited, and the text it read and has yet to write back
  was the template), and that once a command is done with it nobody is creating it.

Then the builds beside them (`Spec`):

* `FilesKept`: a step of the whole is one of the files, or leaves all but the number of kills alone
  (`KillCounts`); the three promises hold of the composition.
* `TypeCorrect`, from `BuildTypes` and the types of the files.
* `BuildsFresh`: `BuildsAreFresh` is not inductive; `FreshInv` adds that the lock lets one cargo build a
  contract (`OneCargo`), also one whose command was killed (`ChildFits`), that versions pass from the
  source to the target to the artifacts and never overtake (`InOrder`), and that what a compile came to
  has passed as far as the compile stands (`CargoFits`, with `Behind`, the artifacts it has copied).
  A build that goes on leaves this alone for all others (`MoveFresh`); where files change they only
  grow (`Grown`).
* `NeverOlder`, from the same invariant: no step replaces what was built or copied by something older.
* `Flows`, the refinement of `VersionFlow`: `FlowInv` adds to `FreshInv` that the bindings a command is
  about to write are of metadata there was (`HandsOn`); `NeverOlder`'s lemma (`Forward`) gives the order.
* `ArtifactsAgreeing`: `TextInv` says that a command has a text open only while it is at it, and that
  what is torn is open or was when a command was killed; another command that fills the text in
  between makes it whole for both.  `AgreeInv` says of the builder, the command whose cargo wrote the target last,
  that it is on its way from there to its bindings with everything it has passed of that build.  Other
  commands cannot spoil it, because whatever they copy is the target.

`StackSetup_proofs` (for every `MaxRuns > 0`; the queue of calls may have any length):

* `TypeCorrect`, with `Stands` (what `sub` can be at each task) and `HasCluster`: past 'Verify' and
  'Create cluster' a run has a cluster.
* `TornIsMissing`: `Passed` says that what the tasks before the current one leave is there,
  `HalvesFit` that the first half of a task has its second half (a grant in the queue counts), or the
  run is between them, or a run failed there (`torn`).
* `RerunIdle` and `ClustersReused`: `BestFits` says that whatever a run in some mode left behind is
  still there, that a run which was given no id works on the first cluster, and so finds it.
* `Provisions`, the refinement of `SetupOrder`: `NeedsFit` says that each piece has those it needs,
  `GrantsFollow` that a grant in the queue has its driver before it or set.  One lemma for each action
  shows that it maps to a step of the abstract specification or to a stutter.

`TestRun_proofs` (for every `Last > 0`):

* `StackInv` is what `StackManager_proofs` proves (`P == INSTANCE StackManager_proofs`): a test run
  takes only steps of `StackManager` or leaves it alone, so its lemmas carry over.
* `HookInv` ties the hooks to it: `Along` (where mocha is, as against the function of its hook),
  `AtHand` (what the before hook has at each place: the stack's start has returned before it connects),
  `LinkFits` (who accounts for an open connection; an ended teardown has stopped the stack).
* From the two: `TypeCorrect`, `TestsHaveStack`, `ChildrenReached`, `ConnectionExplained`.
* `StackImplemented`: the test run implements `StackManager`; each step maps to one of its steps or
  leaves the stack alone.

The invariants were checked by TLC on the instances of the runs before they were proved.

Five properties are theorems only, and no run checks them any more: `FailureIsFinal`, `StopIsNoticed`,
`RecordsSurvive`, `AccountsSurvive` and `BuildsAreFresh`.  Each says of a state what a refinement of the
same module says of every step that leads there, and the runs check the refinement.

Every invariant, action property and refinement the runs check is proved, but for one.  Only model-checked are

* the liveness properties `Settles`, `StopEnds`, both `RunEnds`, `Recovers`, `DeploymentEnds`, `CallsEnd`
  and `CommandsEnd`: temporal proofs with fairness and ENABLED are out of the prover's reach;
* `FacesFit` of `TypeBindings`: a face is built by recursion over the types and read by recursion over
  texts and namespaces, so that its proof would be an induction over data, whose theorems take an
  operator as a parameter; its operators are RECURSIVE, as the code is, and no module with a theorem
  reaches them.

The claims of docs and comments that the code does not keep (`NoOrphan`, `ReadyMeansComplete`,
`TeardownIsComplete`) are refuted by their runs; what holds instead (`OrphansExplained`,
`OnlyTornIsMissing`, `ConnectionsExplained`) is proved.

## Not modelled, and why

* 24,000 of the 34,000 lines of the implementation are the generated API types of
  `src/workspaces/service/src/api/`: declarations without behaviour.  What is left are some 9,800
  lines, tests, typings and templates included.
* `EventQueue` dispatch: nothing registers a handler.  `PRuntimeApi`: one request without state.
* Cryptography of accounts (`loadAccounts`), the SCALE codec and the chain's own rules beyond
  nonces: libraries.
* Typings, templates, formatting and logs: no behaviour.
* `deploy` with `forceUpload`, `instantiate` without estimation, transfer or stake: nothing in the
  repository asks for them.  `contractCall`: changes no state of the project.  `DevPhase.getFactory`
  and `getPhatRegistry` build objects from what the modelled calls find.
* The watch mode of `MultiContractExecutor` rebuilds nothing: the callback at line 76 makes a `Listr`
  and never runs it (`src/docs/cli-commands.md:129` promises 'Watch changes' only).
* `DependenciesChecker` compares the versions three tools print, `RuntimeContext.initContext` computes
  paths and reads the configuration: neither changes anything.
* The pure helpers of `utils/` other than `timeout` and `waitFor`: one expression each, which a model
  could only repeat.
* Within what is modelled: a file cut off in the middle of one copy counts as torn, not as a prefix; a
  crate whose name differs from its directory; the fixed parts of a binding file.

Read but not made a run of, because nothing in the repository says otherwise: the passphrase typed at the
prompt of `AccountManager.ts:147` is asked for as `password` and read as `passphrase`, so that it is
not used; a driver asked for after another one of its cluster is never looked up and comes back
`undefined` (`DevPhase.ts:327`), which `AnswersAgree` allows in just that case; `Validator` compares its verdict with the word
`string` and so refuses nothing; a `clusterId` that is given is not the cluster set up
(`StackSetupService.ts:190`); the redeployed logger has a salt that is taken (`:330`); references to
namespaces are prepared twice (`StructTypeBuilder.ts:165-204`) and the sort of `refs` (`:191`) has no
effect.

## Plan

Order: what can lose a transaction, a process or money first; what can lose a file next; pure
functions last.

1. done: `TxSubmission`, `StackManager`, `StackBinaries`, `ContractDeployment`, `DevPhaseHandles`,
   `ProjectFiles`, `StackSetup` over `SetupOrder`, `TestRun` over `StackManager` and `ContractBuild` over
   `ProjectFiles`, all with proofs of their safety; `TypeBindings`; the abstract specifications
   `SetupOrder`, `CallOutcomes`, `StackOrder`, `RecordFile` (twice) and `VersionFlow`, with proofs that
   they are implemented.
2. Left: a change of the stack's release between two commands in `StackBinaries`, two setups at a time
   in `StackSetup`.
