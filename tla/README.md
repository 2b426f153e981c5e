# Formal models of XuanLing

TLA+ models of XuanLing: the Blueprint runtime that executes graphs of Agents
durably (`integrations/deepseek-harness/xuanling-blueprint`), its browser
client, the filesystem and process tools, the memory store and the harness
bridge. TLC checks the models on small instances, TLAPS proves what must hold
for every instance. Paths below are relative to the Blueprint package unless
they start with `crates/` or `integrations/`.

## 1. The system

XuanLing is a set of tools for coding agents: a Rust MCP server over a
filesystem and process toolkit and a memory store (`crates/`), a bridge that
runs other harnesses as jobs, and bundles for DeepSeek Harness, of which
Blueprint is by far the largest. Blueprint keeps its own durable state, runs
external effects, recovers from crashes and serves several clients at once. Its
promises are the hardest to keep and to test, so the models are densest there.

| Component | State | Operations | Interacts with |
|---|---|---|---|
| Run aggregate (`persistence/run-store.ts`, `records.ts`, `orchestration/state.ts`) | one JSON record per Run: state, Attempts, TeamStage, admission, `seq` | reducers committed by `applyTransition`: intent, result, skip, wait, decide, cancel, settle, reconcile, TeamStage writes | called by every component below, concurrently between awaits |
| Recovery (`orchestration/recovery.ts`) | none | `reconcileOnStart`, `resolveRecovery` | Run aggregate, at startup and on an operator's request |
| Scheduler (`orchestration/scheduler.ts`) | none | `computeReady` and what it is made of | frozen graph, Attempts |
| Run execution (`service/run-execution.ts`) | jobs, controllers, `rerun`, `backgroundFailures`, `driverTail` | `scheduleRun`, `driveRun`, `executeRunNode` | Scheduler, Run aggregate, Agent executor |
| Service (`index.ts`) | runtime handles, admissions under way | start, cancel, decide, resolve, close, open | all of them |
| Agent executor (`host/agent-executor.ts`) | one native turn per Agent | execute, abort, grace period | DeepSeek Harness (external) |
| Writer lease (`persistence/lease.ts`) | lease file, takeover guard, owner token | acquire, takeover, heartbeat, fence, release | other processes, through the filesystem |
| Directory tables (`persistence/directory-domain.ts`) | a directory of records, an event log | put, update, scan | Writer lease (fence) |
| TeamStage (`teamstage/`) | the sidecar of the Run record | provision, bind, run, accept, cancel | native Teams (external), Run aggregate |
| Managed sessions (`service/managed-node-session.ts`) | registry of idle managed Agents | wait, message | Run aggregate |
| Command admission (`persistence/command-admission.ts`) | one record per start command | admit, bind to a Run | Run creation |
| Workspace write lease (`service/workspace-write-lease.ts`) | queue per process, lease, fence `intent.json` | acquire, guard a tool, finish, review | Run execution, Agent executor, operators |
| Child Runs (`service/child-run-execution.ts`) | parent link and reserved child id | reserve, create, start, wait, join, cancelTree | Run aggregate, Run execution |
| Definition library (`definition/persist.ts`, `service/apply-service.ts`, `service/document-library.ts`) | package files, revision history, commit intent, deletion record | load, propose, save, restore, delete, prune | hosts that share a library |
| Client (`client/`) | editing session, graph and its history, drafts, Run views | edit, save, check, run, undo, clipboard, poll, decide | the service, by calls that answer late or never |
| Memory store (`crates/xuanling-memory`) | proposals, reviews, record versions, full-text rows, in SQLite | propose, review, search, feedback, rebuild, export, import | MCP callers, concurrently |
| Filesystem tools (`crates/xuanling-toolkit/src/fs`) | ChangeSets, one mutation lock | write, edit, patch, batch, commit, rollback, move, copy, remove | editors and processes outside the lock |
| Process tools (`crates/xuanling-toolkit/src/process`) | process trees, sessions, artifact store | run, pipeline, session_exec, close, capture, cleanup | the kernel; other servers on the same store |
| Harness bridge (`crates/xuanling-harness-bridge`) | job registry, a supervisor per job | submit, wait, cancel, shut down | worker processes |
| Other bundles (`integrations/deepseek-harness/xuanling-*`) | bridge client, facade observations | start, dispose; read, hash, write, edit | bridge; the filesystem tools through MCP |
| Codecs, validation, templates, portability, projections, MCP server, launchers | none of their own | pure functions, adapters | everything |

What makes the core hard:

- **Interleaving.** A job reads the record, awaits, and acts on what it read; a
  cancel, a decision, a failing sibling or a close commits meanwhile.
- **At-most-once effects.** An Agent's effect is not transactional. The code
  writes an intent, starts the effect, writes the result; a crash can come
  between any two of them.
- **Unknown outcomes.** After an abort whose grace period ended, or after a
  crash, nobody knows what an Agent did. Such an Attempt must not be settled by
  the machine.
- **Several processes.** Two processes, or two containers with the same pid, may
  open one runtime root. Only files arbitrate.
- **Partial failure.** A record write reports an error although the record was
  replaced, because the append to the event log failed afterwards.

What makes each component correct: a settled fact is final; a cancellation is
not lost; an effect is started at most once and never hidden behind a result;
exactly the selected paths run; every unsettled Run is driven, waits for
somebody, or has its failure on record; at most one process coordinates a root;
a crash locks nobody out; an unknown effect keeps its workspace fenced; a late
answer never replaces a newer picture; a file is overwritten only by who saw its
content; what was stored, published or approved is neither lost nor rewritten.

## 2. The modules

One module per component. The component modules do not depend on each other
except where the code shares the Run record:

    RunRecord -+- Scheduler --- RunDriver
               +- RunStore
               +- RunAdmission
               +- TeamStage

    Canvas ----- refines LinearHistory
    Artifacts -- refines Retention
    Processes, BridgeClient --- ToolCalls (what callers of both are promised)
    Canvas, ConversationView, RunView --- ClientViews (what a user sees)

A module `...Proofs` extends the component it proves about. RunRecordProofs holds
the lemmas about the reducers; RunStoreProofs and PersistenceProofs (admission
and writer lease) extend it.

A module `MC...` puts several components into one state space: its variable
`part` chooses one of them at the start and never changes, and the variables of
the others rest in one initial state. The state space is the union of theirs and
nothing interacts that does not in the code; a property of a part is guarded by
`part = "..."` or, when it holds of a resting component too, by nothing.

| MC module | Components |
|---|---|
| MCRunStore, MCRunDriver | RunStore; RunDriver with Scheduler |
| MCPersistence | RunAdmission, WriterLease, Definitions, MemoryStore |
| MCHost | TeamStage, WorkspaceFence, NodeAgent, ChildRuns |
| MCServiceLive | TeamStage, ChildRuns, NodeAgent, with fairness |
| MCToolsLive | WriterLease, BridgeJobs, BridgeClient, Processes, with fairness |
| MCTools | Artifacts, ToolCalls (Processes, BridgeClient), BridgeJobs |
| MCFiles | FsChanges, FsMoves, LineDiff, FileFacade |
| MCClient | Workspace, ClientViews (Canvas, ConversationView, RunView) |

### RunRecord
The Run aggregate as a record and each reducer as an operator on it. A reducer
`X` has a guard `XOk`; the code throws and writes nothing exactly when the guard
is false. `Applies` and `Commit` are `applyTransition`: the terminal test comes
before the reducer, the state change must be in `ALLOWED`, every write advances
`seq`. An Attempt is identified by its node, because `recordIntent` admits one
Attempt per node. Values, messages and timestamps are left out; a result is
reduced to the kinds the code tells apart.

### RunStore
The aggregate under its most general client: any caller may invoke any operation
at any time, so the driver, requests, late results, the startup scan and
operators interleave freely. What is checked here holds whatever the services
above do. `review` is the record an operator read before submitting a recovery.
A `Do...` action restricts its inputs only by what the callers guarantee: a
dispatch needs captured bindings (`driveRun`), only human nodes wait for a
decision, only plain Agents are managed.

### Scheduler
`orchestration/scheduler.ts` as sets of nodes: an edge is favourable, pending or
unselected, a join merges the selected parents, another node needs all of them.
`OnSelectedPath` is a reference definition for a finished Run, stated on the
graph and the branches taken and not on events.

### RunDriver
One Run, from `startRun` to its settlement, in the process that drives it.
An action is the code between two awaits that another task can observe.

| Variable | Code |
|---|---|
| `run` | the record on disk |
| `drv` | the Run's entry in `handle.jobs`: where `driveRun` is, its stop reason, a fatal error |
| `rec` | the record `driveRun` read last, stale or not |
| `exec` | one `executeRunNode` call per node, its abort signal, its outcome |
| `rerun`, `hung` | `handle.rerun`, `handle.backgroundFailures` |
| `asked` | a request between its store write and what follows it |
| `close`, `up`, `admitted` | closing of the runtime, the process, the admission in `startRun` |
| `effect`, `calls` | ghosts: what became of an external effect, how often it was started |

Actions named `Start`, `Top`, `Act...`, `Race`, `Finally`, `Catch`, `End` are the
job; `Prepare`, `Intent`, `Check`, `Dispatch`, `Result`, `Wait` are a node's call;
`EffectEnds` is the Agent (external); then the requests, `Close...`, `Exit` and
`Restart`. A store write may fail before or after it landed (`Fault`).

### RunAdmission
Start commands: `admitRun` in `index.ts`, `replayRun` and `createRun` of the
store and CommandAdmission. `cmds`, `owner` and `runs` are the two tables (the
commands, and of each Run record its `commandKey` and the rest), `adm` is the
admission under way, `jobs` is `handle.jobs`, `told` is a ghost with every answer
a client got. `admissionTail` runs one admission at a time; a step of it ends at
a durable write or at an answer, which is where a crash makes a difference. A
client may repeat a command at any time, with the same payload or another one.
`Blocked` is every refusal of a new Run that writes nothing (the queue limit, the
preflight, the Team provider); `FreezeFails` is the catch block around freezing.
The second scan for the command's Run in `createRunSerial` finds nothing here,
because `replayRun` made the same scan in the same turn of `admissionTail`; it is
a conjunct of `Admit`. What a Run does once it is scheduled is RunDriver's;
`JobEnds` only settles it.

### WriterLease
`persistence/lease.ts` with one step per filesystem operation, since other
processes run between any two of them. A file carries its owner, the process
that wrote it and whether its mtime is beyond the takeover threshold. `saw` is
what the last `statSync` returned and is used later. `Crash` loses the process,
`Restart` brings a new incarnation under the same pid.

### TeamStage
One stage from admission to settlement. `r` is RunRecord's record with its
sidecar; `rev`, `members` and `caps` are the stage's task revision, member
snapshots and bound outputs. `drv` is the driver (`teamstage/driver.ts`), `comp`
the member scopes (`member-scope.ts`), `can` the cancellation coordinator
(`cancellation.ts`), `native` the external Team they act on. A native call is
sent, takes effect and is answered in separate steps (`calls`), may fail with or
without effect, and goes on after its caller gave up. One step is one store
transaction or one native call taking effect.

### NodeAgent
One Agent Attempt: `BlueprintAgentExecutor.execute` and the managed node's inbox
(`entry`, `letter`), over the Attempt's record (`node`). Agent, session flush and
catalog are external and may fail, throw after they were accepted, or never
return; each await is a step.

### ChildRuns
A chain of Runs: the call of Run *i* executes as Run *i + 1*. `rec` and `att` are
the records, `drive` the jobs, `call` the executions of a node with what they
last read (`snap`) and whether it changed since (`dirty`), `walk` the three ways
a cancellation descends (user, parent's walk, abort listener).

### WorkspaceFence
`line` is the queue of each process, `holder` the writer lease of the fence
directory, `fence` the file `intent.json`, `guard` the lease object of an Attempt
with what it observed. `effects` is what really runs: a tool outlives its Agent,
its Run and its process. `content` is the project as a version, changed by tools
and by an editor nobody coordinates.

### Definitions
One package of a library shared by hosts. A section (a load, a proposal, a save)
is not interrupted by its own host, but every file it writes is a step, after
which it may fail or the host may die. `root` and `hist` are the files, `current`
is a ghost: the document the package stands for. A revision is the document it
is the digest of.

### MemoryStore
`memDb` is the database, `memCall` a call in flight with the snapshot its
transaction read and whether it is still `fresh` (in WAL mode a deferred
transaction whose snapshot is no longer the last commit gets SQLITE_BUSY at its
first write), `memFile` an export.

### Workspace, Canvas, ConversationView, RunView, ClientViews
The client. Workspace is the editing session: two threads of continuations, the
action `perform` admitted (`fore`) and a panel's initialization (`boot`), over
one workspace, its stored drafts and the host's documents; an answer may be an
error although the host did what it was asked. Its histories `crossed`, `orphans`
and `raced` record where the code itself loses track (section 3). Canvas is the graph editor with
its two stacks, the pending layout (`held`), clipboard requests in flight and
pointer gestures; the documents that are opened are a parameter. ConversationView and RunView follow Runs by polling: `wire` and
`asked` are calls in flight, answered in any order, late or never. ClientViews
states together what Canvas and the two views promise.

### LinearHistory
What undo and redo promise: one line of versions, of which the past keeps the
newest `Cap`. `Canvas!HistoryIsLinear` is the refinement; a pending layout counts
as the present it will become.

### FsChanges, FsMoves, LineDiff
Guarded writes under the mutation lock, with ChangeSets and a writer who takes no
lock; moves, copies and removals, one system call per step, a directory removed
member by member, failing or dying between any two; and the line diff, one step per edit distance, over all texts up
to a length, checked against its reference (a shortest script, found by the
longest common subsequence; what `fs_patch` makes of the diff, with lines that end
in a carriage return among them).

### FileFacade
`obs` holds the preimages a session observed, `disk` every content a file has
had, so that the Host's version of a file is the length of that sequence. Every
await is a step.

### Processes, Artifacts, Retention
Process trees with their direct child, descendants, guard and drain tasks;
sessions that may be closed from another thread; a kernel that may refuse a
signal. Artifacts is the store several servers share, one file operation per
step, with a crash between any two. Retention is its abstract specification: an
artifact is readable from its publication until its retention ended, is withdrawn
once and never comes back.

### BridgeJobs, BridgeClient
The bridge's registry, a supervisor task per job, calls under way, the shutdown
and the worker's processes: one critical section or await per step. BridgeClient
is the client's closure state per activation; the bridge shows only as the job it
accepted.

## 3. What is checked

| Run | Instance | Properties | Result |
|---|---|---|---|
| `run_store` | an Agent, a human decision and a TeamStage node with one native effect, 7 writes | `TypeOK`, `StageCutoff`, `AcceptedAtomically`, `RootStartupSettles`, `ReviewedCutOnly`, `TerminalImmutable`, `ResultsFinal`, `CancelWins` | hold |
| `startup_child` | the same | `StartupSettles` | **violated** |
| `run_driver_parallel` | Agents `a1`, `a2`, join `j` over data edges; one exit, one failing write | `EffectsInOrder`, `FailureNotMasked`, `QuietAfterClose` | hold |
| `run_driver_mixed` | condition `c` selects Agent `a`; human `h` beside them; join `j`; the same disturbances | `SucceededOnSelectedPaths`, `WaitsAlone`, `NeverStranded` | hold |
| `run_driver_live` | the parallel graph, one exit, fairness | `CancelSettles` | holds |
| `persistence` | two commands, payloads and Runs; three processes and a lease; one host with a new or a twice saved package; two callers and four proposals | `AdmissionInv`, `LeaseInv`, `DefInv`, `MemInv`, `StoreSteps` | hold |
| `host` | a stage of two members; three writers in two processes; an Agent with a message; a parent and a child Run | `NodeWorkKept`, `FenceInv`, `ChildInv`, `NodeSteps` | hold |
| `service_live` | a stage of one member, a parent and a child Run, an Agent; fairness | `CancelledWorkEnds`, `EndIsHeard` | hold |
| `tools` | two servers on one artifact store; two calls of a session and two closers, a pipeline; two requests and two callers of a bridge; two activations | `ArtifactsKept`, `CallersKept`, `BridgeInv`, `RetentionKept`, `ToolSteps` | hold |
| `tools_live` | two processes with one pid and a guard that ages; one bridge job; one activation; two calls and a pipeline; fairness | `StopsWhenTold`, `WaitsEnd` | hold |
| `files` | twelve guarded calls and their ChangeSets; eight moves, copies and removals from twelve trees; all texts of up to four lines of three, one of them with a carriage return; two facade sessions | `FilesKept`, `FileSteps` | hold |
| `client` | two libraries; a graph of up to three nodes, opened blank or with a hidden side that has edges, and a clipboard; three Runs of two Sessions; two Runs of two gates | `WorkspaceKept`, `CanvasKept`, `ViewsKept`, `PictureSteps`, `HistoryIsLinear` | hold |

A property of a union (`MemInv`, `NodeWorkKept`, `FileSteps`, ...) is a
conjunction of named parts, each stated with its meaning in the component's
module and listed in the comment above the conjunction.

### The disagreement
`startup_child`: `reconcileOnStart` settles an orphaned child Run through
`settleTerminal`, which refuses while the child's TeamStage is provisioning. The
exception leaves the scan and the runtime does not open. Root Runs take another
path and are settled (`RootStartupSettles`).

### Observations the models allow for
Met while modelling; the models contain the behaviour, and the properties above
are stated so that they hold in spite of it.

- A decision whose record was replaced but whose event could not be appended is
  reported as failed, nothing schedules the Run, and a retry finds the decision
  made (`index.ts:2881`). `FaultyRequests` leaves decisions out of the failing
  writes of the RunDriver runs; with them `NeverStranded` fails until a restart.
- In the same way a Run whose creation or binding reported an error stays queued
  without a job until a restart (`index.ts:2456`); `QueuedIsDriven` is therefore
  about `faults = 0`.
- Two contenders that both found the old guard of a crashed third remove it one
  after the other, and both replace the stale owner (`persistence/lease.ts:276`);
  `GuardAges = FALSE` excludes this from `LeaseInv`, and the replaced holder
  retires (`StopsWhenTold`). The in-place fallback creates the lease before its
  owner is written, and a crash in between leaves an empty lease nobody may
  replace (`lease.ts:174`).
- A load that finds a pending commit replays it without the library's writer
  lease (`definition/persist.ts:645`, also `:705`). With two hosts a replay that
  was read before another host finished the commit and saved again writes the
  old closure over the new one and clears what the other host had begun; then
  `NoLostSave` and `LoadIsWhole` fail. The persistence run has one host, and the
  theorems state what they need (`OneHost`, `Exclusive`); that a deleted package
  stays deleted holds of any number.
- With two failing writes a Run can be left open in `backgroundFailures` by the
  catch of scheduleRun (`service/run-execution.ts:111-117`), and a later
  decision reruns it above an effect whose outcome nobody knows.
  `MaxFaults = 1` excludes this from the runs, `OneFault` from the theorems.
- An export can be refused by the importer and pages can shift under concurrent
  approval (`crates/xuanling-memory`: `jsonl.rs:700`, `v2.rs:1341`).
- Two overwriting calls with one destination can leave another call's backup or
  staging entry behind (`copy_move_remove.rs:658`); `MvApart` keeps such calls
  apart, so what `FilesKept` says of moves (`copy_move_remove.rs:607`) is said of
  calls that do not install into one destination at the same time.
- Of a text with CRLF line ends a produced diff cannot be applied again: the
  comment above `make_unified_diff` calls it "re-applicable by `fs_patch`'s
  parser" with a line model that "matches `apply_hunks` exactly"
  (`fs/write.rs:1013-1016`), but the parser reads the diff with `str::lines`,
  which drops the carriage return (`:426`), and `apply_hunks` splits the file at
  `\n` alone (`:565`). A hunk that shows such a line of the old file is refused,
  and an inserted one loses its carriage return. `PatchReproduces` states exactly
  this, over texts with such lines.
- The bridge client listens to the caller's abort signal only until its wait
  loop ends (`bridge-client.mjs:329-331`): after a lost `harness_wait` an abort
  cancels nothing, and the accepted job runs on until somebody disposes the
  activation. `StopsWhenTold` is about aborts it listens to (`Told`). And
  `cancel()` resolves with a final answer once there is one (`:237`), so a
  disposal neither waits for nor reports a cancel that fails after the wait has
  delivered a confirmed final.
- A decision names a Run and no gate. The client keeps one id per Run, node and
  button until a document is loaded (`workspace-run-use-cases.ts:196-197`,
  `workspace-controller.ts:831`), so the same button pressed again is harmless.
  The other button, on a view that still shows the gate because the answer was
  lost, gets an id of its own and settles the next gate; so does a decision from
  before a reload. `DecisionMissesOnlyForOthers` names these and no others.
- A document may hide a port side that has edges; the host validates it, the
  editor loads, imports and pastes it and shows the side all the same
  (`test/definition/node-ux-ports-roundtrip.test.mjs:32-46`,
  `test/browser/node-ux-port-gates.test.mjs:110-139`). `HiddenWasOpened` exempts
  the nodes that were opened so and their copies. What another application puts
  into the clipboard is not modelled.
- A panel that mounts on an asset selects its library outside `perform`
  (`panel-controller.tsx:270-275`). A start of another library's package with the
  same id that is answered afterwards records its Run under the new library
  (`workspace-controller.ts:380`), and the next load of that package shows it; a
  late deletion in the same way clears the stored draft of the new library's
  package (`:753-760`). `crossed` keeps these slots, and `RunIsOfShown` compares
  libraries except for them.
- Restoring a stored draft replaces what was edited while the host validated it
  (`workspace-document-navigation.ts:161-167`); `DraftKept` exempts such a
  document until it is edited again (`raced`).
- A creation is repeated with its request and its text unless the session loses
  its list of libraries in between: then the scope changes and the stored
  creation is not found, although "only a definitive rejection permits a
  corrected payload on this identity" (`workspace-document-writes.ts:66-67`). A
  stored creation also outlives its answer when the session has gone on to
  another document by then. `orphans` keeps both.
- The facade plans edits with `String.replace`, in which `$` patterns of the new
  text are special (`filesystem-facade.mjs:211`); `Edits` carries both outcomes,
  the runs use one where they agree.

### Bounds
Every bound is a constant named in the module that uses it.

- `MaxSeq = 7`: a TeamStage is accepted with the fifth write after admission,
  with the seventh when its native effect is recorded too; captured bindings, an
  intent, its result, a cancellation and a late settlement take five, a recovery
  and its resolution two more.
- RunDriver: `MaxExits = 1` lets a crash hit every point of a Run and the
  restarted process finish it; the restarted driver is in no state a second crash
  would find new, since a restart settles what had an intent. `MaxFaults = 1`: a
  failing write is followed by the code's error path with working storage.
  `Capacity = 2` lets both Agents run at once.
- Admission: one exit and one fault at any of its three writes, two payloads for
  each of two commands. Lease: a dead owner and two contenders, one crash, no
  hard links (`LinkSupported = FALSE`: creating the lease is then two steps; an
  atomic creation is the case in which nothing happens between them). Library:
  three requests, one fault; two retained revisions and no slack, so that the
  second save prunes, and a package that starts with two. Memory: a create and
  its duplicate, a replacement and an archive of the same revision.
- `MaxRev = 2`, `Rooms`: a stage whose members complete the task and are woken
  once, or talk; the native task is revised twice. `MaxTools`, `MaxOutside`,
  `MaxCrashes = 1`: an effect, an outside edit and a crash of the fence. An Agent
  has two turns, a message is asked twice. A chain of two Runs, one crash: a
  longer chain repeats the relation of two neighbours.
- Client: two edits and two commands but three together (`MaxGestures`), one lost
  answer; three commands and two turns of the canvas but four together
  (`MaxActs`), a history of two, so that the cap is met; three operations of the
  conversation view; two reads, decision ids, loads and steps of the Run view,
  enough for an approval that was lost and another button after it.
- Tools: a limit of one or two bytes for two captures of one; `MaxWork = 4`
  bounds jobs, waits, cancels and faults of the bridge together, so that two
  cancels can retry the cleanup of one job while the next one takes its slot
  (`jobs.rs:573`: without the compare-exchange of `MayRelease` this run finds more
  trees than slots); one RPC lost. `MaxLines = 4`: two regions of change can be near enough to share a hunk or
  far enough not to.
- Processes of the lease and callers of the database are interchangeable
  (`SYMMETRY Alike`), so are requests and calls of the bridge and the Runs of the
  Run view (`Interchangeable`); the runs' properties do not tell them apart.

CHECK_DEADLOCK is off: a settled Run, a finished call and a client whose bounds
are spent stop for good.

### Fairness
`RunDriver!FairSpec`: the event loop runs every task that can run (weak fairness
of the job, of each node's call and of what follows a request's write); an
aborted Agent ends, since the executor's grace period ends it; an exited process
is restarted. An Agent nobody aborted owes nothing, because `executeRunNode`
passes no deadline, and clients owe no request.

`MCServiceLive`: the TeamStage's driver, coordinator and native calls go on (a
native call may fail, but is answered); jobs, executions and walks of a chain are
promises the Host keeps running; an Agent's execution and its grace timer run,
and an aborted creation or composition ends. Turns, flushes and people owe
nothing.

`MCToolsLive`: a process runs its synchronous code and its heartbeat timer,
requests for the lease keep arriving, crashed processes come back and the clock
advances; supervisors are polled and killed processes die; every RPC answers or
times out, and a job whose cancel was called settles; calls and drains are
polled, programs may run for ever.

Only one part moves in a behaviour, so weak fairness of a disjunction over the
parts is weak fairness of the part's own step.

## 4. What is proved

Eight modules hold the proofs; each `...Proofs` module extends the component it
is about (HostProofs those of the fence and of child Runs, PersistenceProofs
those of admission, the lease, the memory store and the library, ToolCallsProofs
those of the callers of processes and of the bridge, ClientProofs those of the
canvas and of the two Run views). Every theorem holds for all values of the constants that satisfy the
component's named assumption (`NodesAssumption`, `AdmissionAssumption`,
`FenceAssumption`, ...: names that differ, bounds that are naturals, owners that
exist). Premises beyond those are stated in the theorem and named below. The
argument is the same throughout: an inductive invariant, one lemma per action
(or group of actions with one effect) that it is kept, and lemmas on what the
model's operators return.

| Theorem | Proves | Property of a run |
|---|---|---|
| `RunStoreProofs` | | |
| `TypeCorrect` | `[]TypeOK` | `TypeOK` |
| `TerminalRunsImmutable` | `TerminalImmutable` | the same |
| `CancellationWins` | `CancelWins` | the same |
| `CancelledStageStaysCutOff` | `[]StageCutoff` | `StageCutoff` |
| `SettledAttemptsFinal` | `ResultsFinal` | the same |
| `ResolutionsAreReviewed` | `ReviewedCutOnly` | the same |
| `AcceptanceIsAtomic` | `[]AcceptedAtomically` | `AcceptedAtomically` |
| `RootRunsSettleOnStart` | `[]RootStartupSettles` | `RootStartupSettles` |
| `PersistenceProofs` | | |
| `AdmissionKept` | `[]AdmissionInv` | `AdmissionInv` |
| `CommandsCreateOneRun`, `AnswersOfACommandAgree`, `AdmissionTypeCorrect` | its parts, under weaker invariants | |
| `HoldersOwnTheLease` | `[]LeaseInv` | `LeaseInv` |
| `MemoryConsistent` | `[]MemInv` | `MemInv` |
| `LibraryConsistent` | `[]DefInv`, for one host | `DefInv` |
| `RevisionsResolve`, `LoadsAreWhole` | parts of `DefInv`, the first for several hosts too | |
| `SavesAreExpected`, `DeletedFrozen`, `MemoryHistoryKept` | `NoLostSave`, `DeletedStays`, `HistoryKept` | the parts of `StoreSteps` |
| `RunDriverProofs` | | |
| `SucceedsOnSelectedPaths` | `[]SucceededOnSelectedPaths` | `SucceededOnSelectedPaths` |
| `NothingAfterClose` | `QuietAfterClose` | the same |
| `EffectsAccountedFor` | `[]OneFault => []EffectsInOrder` | `EffectsInOrder` |
| `DecisionsWaitAlone` | `[]OneFault => []WaitsAlone` | `WaitsAlone` |
| `WithOneFault` | both, without the premise if `MaxFaults <= 1` | the same |
| `FailuresSurvive` | `FailureNotMasked` | the same |
| `NobodyStranded` | `[]OneFault => []NeverStranded`, if decisions are written | `NeverStranded` |
| `EffectsHappenOnce`, `InputsComeFirst` | `[]AtMostOnce`, `[]InputsFirst` | parts of `EffectsInOrder` |
| `DriverTypes` | `[]TypeOK` | |
| `HostProofs` | | |
| `EffectsStayFenced` | `[]FenceInv` | `FenceInv` |
| `OutsideEditsKept`, `QueueNeverBusyWithItself` | `OutsideEditKept`, `NotBusyWithItself` | parts of `NodeSteps` |
| `CallsKept` | `[]ChildInv` | `ChildInv` |
| `NothingStartsBelowSettled` | `NoStartBelowSettled` | part of `NodeSteps` |
| `ArtifactsProofs` | | |
| `RetentionImplemented` | `ArtSpec => RetentionKept` | `RetentionKept` |
| `StoreKept` | `[]ArtifactsKept` | `ArtifactsKept` |
| `SweepsReclaim` | `ResidueReclaimed` | part of `ToolSteps` |
| `ToolCallsProofs` | | |
| `CallersLeaveNothing` | `[]CallersKept` | `CallersKept` |
| `RegistryKept` | `[]BridgeInv` | `BridgeInv` |
| `ResultsAreNative` | `NativeResultKept` | part of `ToolSteps` |
| `ClientProofs` | | |
| `GraphKept` | `CanvasSpec => []CanvasKept` | `CanvasKept` |
| `HistoryLinear` | `CanvasSpec => HistoryIsLinear` | `HistoryIsLinear` |
| `ViewsHold` | `ConvSpec /\ RunViewSpec => []ViewsKept` | `ViewsKept` |
| `PicturesForward` | the three specifications `=> PictureSteps` | `PictureSteps` |
| `SeatKept`, `SeatForward`, `RunViewKept`, `RunPictureForward`, `CutsAreCopied` | their parts, each for its own component | |

### The Run aggregate
- `TypeCorrect`: one lemma per group of reducers (RunRecordProofs) says that it
  maps well-formed records to well-formed records; one case per action.
- `TerminalRunsImmutable`: every step that changes the record goes through
  `Write` (`StepWrites`), and `Write` asks `Applies`.
- `CancellationWins`: the state table would allow a cancelling Run to succeed,
  so this is a property of the reducers. `CancellingStays` shows for each that a
  cancelling Run stays within cancelling, cancelled and recovery_required,
  `StageOpsKeepState` that TeamStage writes leave the Run's state alone.
- `CancelledStageStaysCutOff`: inductive together with `TypeOK`.
- `SettledAttemptsFinal`: most reducers move only open Attempts, but one without a
  state also counts as open unless it has a result, so the induction carries
  `Fresh`: an Attempt without a state has no result.
- `ResolutionsAreReviewed`: the reviewed record either is the record or has a
  smaller `seq`, since every write advances it; equality of `seq`, which the
  resolution tests, is then equality of records.
- `AcceptanceIsAtomic`: `Owned` says of one write that it keeps the stage's owner
  and what it accepted; only `settleTeamStageAttempt` accepts for an Attempt
  (`OwnedStep`), and it settles that Attempt in the same write. From then on the
  finality of `SettledAttemptsFinal` keeps the success.
- `RootRunsSettleOnStart`: `settleTerminal` throws only on an open Attempt of a
  provisioning stage. `Idle` (before the admission is captured, Attempts are
  absent or skipped) is inductive because every other write to such a Run is
  `Quiet`; a root Run that the scan settles this way is idle.

### The driver of a Run
`SucceedsOnSelectedPaths`, `NothingAfterClose`, `EffectsHappenOnce`,
`InputsComeFirst` and `DriverTypes` follow from one inductive invariant,
`OrderInv`, and need no premise beyond the assumptions on the constants. Its first part is about who is
active: `Life` (a job and calls only while the process is up, none behind a
finished close), `Unadmitted` (before its bindings are captured a Run is never
driven), `Kinds` (what a call does is fixed by the kind of its node), `Alone`
(beside a Human's call there is no other), `CallsOpen` (from its intent to its
result a call finds its Attempt open) and `Once` (an effect was started at most
once and behind an Attempt). The second part is about the record that driveRun
read before an await: `Stale` says that it differs from the durable one in one
direction (`GrowsTo`: what was started is started, what was settled is unchanged),
`Justified` that whatever the scheduler read of a node's parents to run it
(`Grounded`) or to skip it (`Cut`) still holds, because nothing in it is undone
by growth; `Branched` that a success that chooses has chosen, and `Done` that a
succeeded Run is complete. `SucceedsOnSelectedPaths` then compares, node by node,
what the parents of a finished node look like with the selected paths, which
need no induction over the graph.

The actions are first sorted into classes (`Background`, `Dispatches`,
`CallMoves`), by what they may do to the record, the calls and the effects;
each part of the invariant is then shown once for each class.

That no effect hides behind a result needs to know what becomes of an Attempt
that is left open. `ReadInv`, again without a premise, says what driveRun's
local variables mean at each of its steps: `Seen` and `Paused` what a driver that
stopped for a human has read, `Reading` why it goes on or stops, `Finishing` what
its `finally` finds. `AccountInv` adds `Orphans`: every open Attempt of an open
Run is `Accounted` for by a call that still works on it, by a driver whose
stop reason or fatal error will settle it, or by a job that is to be started,
and `Unknowns`: an effect nobody knows has such an Attempt, so a Run cannot end
above it. The premise of both results, `OneFault`, is about one place,
the catch of scheduleRun (service/run-execution.ts:111-117): if the write that
should settle the Run fails there too, the Run stays open and unowned in
`backgroundFailures`. A later decision reruns it with the effect of the first
job still unknown, and a cancellation then settles it `cancelled`; TLC shows that
behaviour with two failing writes. With at most one (`WithOneFault`) the premise holds by
itself.

`FailuresSurvive` needs no premise. `Unmasked` says of a Run that no client, no
close and no Agent by itself has disturbed (`Undisturbed`) that whatever was
interrupted has an `Excused` cause that outranks it: an aborted call, a
cancelled result on its way, a cancelled Attempt in the record. So when the loop finds
`cancelled` as its stop reason and the calls are drained, nothing has failed.

`NobodyStranded` follows from `Owed`: a job that is about to end over a Run that
was waiting when it was read has to run again (`rerun`), or the decision that
ended the wait is about to schedule it. Its second premise, that `FaultyRequests`
leaves decisions out, is the exception section 3 describes; the first
is needed because the invariant must know that a cancellation of a waiting Run
settles it at once.

### Admission
`OneRunPerCommand` is not inductive: `Put` must know that no Run has the
command's key yet. `IInv` adds `TablesAgree` (a bound command's Run carries its
key, every Run's command has a record), `UnderWay` (past `Admit` the command's
record holds this admission's payload; before `Put` no Run has its key, after it
the new Run does) and `Answered` (an answer's Run carries the command's key and
the command's record its payload, neither of which is rewritten). The rest of
`AdmissionInv` is about Runs and jobs: `Dormant` says what a Run looks like that
only admission, its settlement and a cancellation have touched, `Prepared` ties
the admission under way to the capture of its Run, and `Awaited` says that
without a failed write a queued Run has a job or is the one being admitted.

### The writer lease
`HoldersOwnTheLease` has two premises: no takeover guard is reclaimed while its
taker lives (`~GuardAges`; section 3 has what happens otherwise), and no two
processes have one pid (`DistinctPids`), because a lease under the reader's own
pid counts as left by an earlier incarnation. `TokensDiffer` and `FreshTokens`
(at most one token per process and two in the files are in use, so one of
`2 * |Procs| + 2` is left) make tokens unique. Who believes to hold is then named
by the file because nobody else may touch it: it is created where there is none
and filled by its creator (`Filling`), found only by who installed it
(`Installed`, `Named`), and replaced by the one process that has the guard
(`Guarding`), which found the lease of a process that is gone (`Condemned`).

### The memory store
`MemoryConsistent` follows from `MemIInv`: the database and the exported file are
`Consistent`, and a call that has read a decision or written a feedback event
finds it (`Backed`). `Consistent` says how the tables determine each other: the
unique keys (`UniqueRows`, `ActiveDedupe`), each version made by one applied
proposal (`VersionsMade`), the head of a record at its last version
(`HeadsCurrent`), a decision and its review in one commit (`DecisionsReviewed`)
and each applied change at the revision it was proposed for (`ChangesApplied`).
A write may rest on a snapshot that is no longer the last commit; then it fails,
so every commit starts from the database it changes. An import joins two
consistent databases, and the checks of `ImportWrite` (new keys, no second active
record of a key) are what keeps the join consistent. For the search the
assumption is that the scopes are a chain: two have different distances.

### The library
The invariants come in three layers.

- `LibraryIInv` holds of any number of hosts. `DeletionFenced`: a mutation has
  the library's writer lease, and looked at the deletion record after it got it,
  so it will not write to a deleted package. From this follows `DeletedFrozen`.
- `LibraryWhole` says what a section has in hand: the ghost `current` is the
  stored document, or that of a pending commit; a mutation that loaded the
  package has exactly it, and expected it; a replay has the pending commit, and
  before the commit is cleared the package equals it. This layer is kept while
  `Exclusive`: there is one host, or no commit is pending. A load that finishes a
  pending commit takes no lease, and with two hosts an old replay can undo a
  newer save (section 3). One host is the premise `OneHost` of `LoadsAreWhole`
  and `LibraryConsistent`; `SavesAreExpected` and `RevisionsResolve` need only
  `[]Exclusive`.
- `HistoryIInv` is about the revisions. `ChainOK`: they are listed once, each has
  its entry file, and an entry without files names as parent an older listed
  revision with the same files. `ReadyToSave` says that what a save is about to
  write has this property before it is written: the entry comes before the
  index, files are materialized before the index is cut, entry files go when
  nothing lists them. So a crash between any two of these writes leaves a chain.
  `WalkEnds` then shows that the walk of `Ancestry` ends at the revision's own
  files: each step goes to an older place of the index (`WalkStep`), so it ends
  before the index does. The walk is a recursive function of the number of steps;
  that it exists (`WalkExists`) and what holds after every step (`Steps`) are
  proved by a least counterexample.

### The workspace fence
`EffectsAreFenced` (a running effect is covered by the intent of its own Attempt)
needs `Covered` (a writer that holds, works or closes has the living lease and
the intent), `Calm` (a writer that dispatched nothing, or ends quiescent, has no
effect running) and `Reviewing` (a review holds the lease, and the intent it will
clear belongs to the Run it settles, whose effects are over). `Outdated` relates
what a guard observed to the sources: once somebody edited under a writer, what
it observed is older and none of its tools runs, so none starts. `Queues` says
that a writer has one ticket and that everyone before a holder has released;
from it a writer whose turn has come finds no holder of its own process.

### Child Runs
`OneRun` says how record, Attempt, job and execution of one Run go together,
`OneCall` how a call goes with the Run below it (what it read stays true of a
settled child), `Watched` that a child about to start has a call that listens,
and a walk on its way down if that call was aborted. A step changes one Run
(`RunStep`), a pair (`PairStep`), an execution or a walk; these four lemmas
reduce it to the Runs it touches, so the depth of the chain does not matter.

### The artifact store
`RetentionImplemented` is a refinement: `shelf` is what a reader would find.
`ShelfSteps` shows that every step publishes one artifact, ends or withdraws one,
or changes nothing a reader sees. It needs `Backed` (a record, active or
quarantined, has its object), which in turn needs to know why no step takes a
shared object away: a purge and the orphan sweep ask every directory, and the
rollback of a failed `finalize` removes an object only if it linked it itself
under this lock (`Fresh`: then no other record has it). `Past` says a capture
leaves one record at most, after it is over, so nothing comes back; `Apart` and
`Sweeping` that intents and records exclude one another and that the sweep looks
at records still there. `Held` ties the lock to its server and capture, `Leased`
and `Limited` strengthen `LeaseRespected` and `OneLimit`: the limit is replaced
only when no staging is leased, and an open capture has a lease. The assumption
`ArtConstants` is used for the order of ids (the sweep takes the least) and for
limits being naturals, never the mark of a server that is down.

`StoreKept` adds the bytes. `QuotaIInv` says of each place where the ledger runs
ahead of the disk what is already promised: a granted chunk is in the ledger and
within the limit before it is written (`Granted`), an object about to be linked
takes the place of a staging file of its size, so linking charges nothing new
(`Linking`); a capture that has not begun has an empty file (`Unstarted`), a
store without a limit has published nothing (`Unlimited`), and the sweep that
recomputes the ledger has every purge intent before it (`Intents`, from which
`SweepsReclaim` follows). Usage is a sum over objects and leases. What is needed
of sums is proved from their definition, a recursive function on the subsets of
a finite set: that it exists (`SumsExist`) and unfolds at any element
(`SumTakesAny`), by a smallest counterexample in place of an induction theorem.

### Callers
ToolCalls names what the process calls and the bridge's client promise together.
For the client, `Fits` relates an activation to the one job it has and `Vouched`
a reported cleanup to what the runtime confirmed: a disposal succeeds over a
failed cancel only when the wait had delivered a final answer with a confirmed
cleanup. That an abort leads to a cancel is not claimed; after a lost wait it
leads to none (section 3). For the processes, `CallShape`
says by program counter what became of a call's trees (once it is over, one that
still lives belongs to a call the kernel refused to signal, and its result says
so), `SessionFits` that a session lists only its own running calls, `CloseFits`
that the trees it still lists are among those a closer works through, and that
what a closer calls done is dead. Trees only shrink after their call has left
the spawning part (`TreeDrifts`, `ShapeDrifts`), which makes a closer's snapshot
of them safe to use later.

### The bridge
A step touches one job. `JobFits` relates a job's record, its supervisor and its
live processes (nothing lives before the spawn nor behind a confirmed cleanup or
a released slot), `CallOK` says what a call under way knows of its job,
`Registered` and `Slots` count: job numbers are the interval `1 .. |Known|`, and
the slots in use are those of jobs that have not released theirs, which bounds
the live trees by cardinality. `NativeResultKept` needs `Told`: what a supervisor
about to settle says agrees with the native result it holds. `None` is assumed to
be neither a request, a reason, a status nor a job number.

### The canvas
`GraphKept` follows from `CanvasIInv`: the graph and every graph that can come
back are `Sound`. They come back from the two stacks, from a pending layout,
from the clipboard and from what requests and gestures were started with, so
each of these has its part (`History`, `held`, `IsFragment`, `JobOK`,
`GestureOK`). A fragment is sound with its inner edges only, and what it is bound
to is the graph of that moment, not the present one. `Sound` says of a hidden
side with edges that a document brought it (`Brought`): the assumption on the
documents is what `validateDefinition` makes sure of (`DocumentsAreValid`), which
does not include that hidden sides are free. So `HiddenWasOpened` says what the
commands do: none hides a connected side or connects a hidden one, of a node
that was not opened in that state or copied from such a node.

The hard part is that no command closes a cycle of data edges. `ReachedFrom` is
the search of `checkConnection`, a recursive function of the number of rounds;
that the function exists and that as many rounds as there are nodes are enough is
proved by least numbers. What the search returns is then the
least closed set around the node (`Closed`), and everything else is about closed sets:
an edge added where the search did not find its source closes no cycle, removing
edges or nodes closes none, and edges each of which is accepted beside all the
others close none together (`MoreEdges`). A paste adds nodes with new names (`CopyOf` is
injective and its names are in no graph yet), the inner edges form a copy
of a graph without cycles, and incoming edges only lead into the copy.

`HistoryLinear` maps the stacks, and the graph before a pending layout if there
is one, to LinearHistory's line. Each step is an edit that drops what could be
redone and the oldest version beyond the cap, an undo, a redo, a new document, or
leaves the line alone (`LineStep`). It needs from the invariant that a held entry
differs from the graph in its nodes only, and that both stacks
together never exceed the cap: an undo or a redo then drops nothing.

`NilIsPlain`, the premise of `HistoryLinear` and `CutsAreCopied`, says that the
mark `Nil` for "no layout pending, no request" is no record with a field `graph`.
It is a premise and not an assumption because TLC cannot take the domain of a
model value. `GraphKept` does without it.

### The Run views
Both views keep, of each call in flight, what makes its late answer harmless.
RunView: `ReadOK` (a read is of the binding of its epoch, and the latest read of
an epoch brings nothing older than what is shown), `DecisionIds` and `OneId` (a
decision carries the id kept for its gate and its button since the last load, and
no id settles twice) and `GatesSettled` (what a Run has passed was settled by a
decision on record): a decision that meets another gate than it was meant for
finds one settled that was not its own to settle.
ConversationView: `CallOK` says the same of a page, an inspection or a choice of
the seat, `Wired` that there is one call per epoch and `Polling` that a poll that
was begun is still in flight. `ConversationAssumption` says that `Off` is nothing
that can be shown.

### Only model-checked
- Liveness (`CancelSettles`, `CancelledWorkEnds`, `EndIsHeard`, `StopsWhenTold`,
  `WaitsEnd`): fairness and ENABLED are outside the prover.
- Induction over data: what an iteration of LineDiff computes. (Where the
  recursion only counts rounds, as in the cycle search, the walk through a
  library's revisions or a sum over a finite set, least numbers replace the
  induction theorem.)
- Not proved yet: TeamStage and NodeAgent (`NodeWorkKept`), the file tools
  (`FilesKept`, `FileSteps`), the parts of `NodeSteps` not named above, and the
  editing session of the client (`WorkspaceKept`).
- The library of several hosts while a commit is pending: not true of the code
  in general, and not checked (section 3).

## 5. What is not modelled

`PROJECT.json` lists every component with its status and the reason. In short:
codecs, validation, redaction, templates, archives and projections are functions
of documents; React views and layout geometry; request adapters, launchers and
scripts. Within the modelled components: contents of values and messages;
deadlines (RunDriver's Agents have none); a descendant that leaves its process
group (`setsid`) and keeps a pipe open: `WaitsEnd` assumes that ending the group
ends whoever holds the drains (`process/run.rs:415`, `process/session.rs:380`),
and a call with such a descendant would wait for it (`run.rs:434`,
`session.rs:387`); filesystem errors other than the ones
named; `blueprintCall` and TeamStage nodes in RunDriver (`Team = {}` is an
assumption of that module; ChildRuns and TeamStage model them); several Runs on
one `driverTail`; ranking of search results; approval of resources.

## 6. Plan

The models cover what the inventory called for; what is left is proof, in the
order of what it would say about the system.

1. `WorkspaceKept`: the two threads of continuations of the editing session over
   one workspace, their stored drafts and the host's documents.
2. The locking of the file tools (`FilesKept` for FsChanges).
3. `NodeWorkKept`: a TeamStage's driver, coordinator and native calls, and an
   Agent's execution.

Out of reach for good are liveness and what the line diff computes; their runs
stay as they are.
