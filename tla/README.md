# A verification development for Dbotmux

Dbotmux connects chat threads to coding-agent CLIs. One daemon per bot owns the
chat side, starts one worker process per session, and drives *workflows*: DAGs of
agent tasks that run for hours, survive restarts of the daemon, ask humans for
approval, and can be retried, sent back and cancelled at any moment. The part of
the program whose correctness is hardest to argue and to test is the workflow
engine, version 3, in `src/src/workflows/v3/`. This project models it.

Paths below are relative to `src/`. All commands run in this directory:

    tlc -config MCV3RunRace.cfg MCV3Run.tla
    tlapm V3JournalProofs.tla

## 1. Inventory

### 1.1 The v3 workflow engine (`src/workflows/v3/`)

| Component | State it keeps | Operations | What makes it correct |
|---|---|---|---|
| journal (`journal.ts`, `start-intent.ts`) | one NDJSON file per run, the only durable truth | append, durable append, read-check-append under the file lock, tail repair, start intent | a torn write is never glued to the next record; one history root; readers see an append-only log; a durable append survives power loss |
| state fold (`state.ts`, `event-contract.ts`) | none: `materialize` replays the journal | one case per event type | a cancel request is a cut; a settle of a superseded or struck attempt does not show; first edge verdict and first gate resolution win; a refresh forgets the approval |
| attempt ledger (`attempt-ledger.ts`) | none: derived from the journal | which attempts are open | an attempt closes only by a durable proof that its worker is gone |
| orchestrator (`orchestrator.ts`, `core-control.ts`) | none: a pure function | `decideNext`: start, gate, skip, resolve edge, cancel loser, finish | never skips what could run, never leaves the run without a move, ends it for the right reason |
| shared node runtime (`shared-node-runtime.ts`, `runtime.ts`) | in-memory promises, abort controllers, slot pools | the driver loop, claims, worker promise chain, revisit, quiescence, drain, cancellation | one worker per node, workers accounted for across crashes, quiescent before a terminal state, drives and cancels end |
| human entry points (`daemon-run.ts`) | which runs are being driven | gate click, retry, revisit grant, cancel, re-drive, cold attach | what a human does is recorded once and driven |
| drive lease (`drive-lease.ts`) | a lease file per run | acquire, renew, release, rerun request | one driver per run |
| worker fence and attempt leases (`worker-fence.ts`, `botmux-attempt-lease.ts`, `in-process-attempt-lease.ts`) | fence files with process identities | arm, probe, kill, prove closed, remove | a fence is removed only after the worker is proven gone and the proof is durable |
| gate wait store (`gate-wait-store.ts`, `human-gate.ts`, `gate-policy.ts`) | one wait file per gate | create, resolve, reconcile with the journal | the first resolution wins in both places |
| host executors (`host-execution.ts`, `host-effect-ledger.ts`, `host-bindings.ts`) | intent and effect events | intent, execute, settle, uncertain, retry under a key | an effect is applied at most once, an uncertain one is not repeated blindly |
| structured loops (in `orchestrator.ts`, `shared-node-runtime.ts`) | iteration cursors derived from the journal | start iteration, exit decision, grant | bounded, no iteration runs twice |
| dag, manifest, contracts (`dag.ts`, `manifest.ts`, `artifact-contract.ts`) | none | validation | rejects cycles and bad references |
| authoring, library, distillation, projections, relays | files of their own, views | content pipelines, read-only views | outside the run protocol |

The interactions. A driver (`runWorkflow`) reads the journal, folds it, asks the
orchestrator, and appends what it does. Worker promises append verdicts from their
own callbacks in the same JavaScript thread. Human entry points append from the same
process between awaits. The CLI, or a second daemon during a restart, appends
cancel requests from another process between any two mutations. All of them meet only
in the journal file and its lock. The fence and the leases tie the journal to real
processes.

### 1.2 The rest of the program

| Component | Why it is or is not a candidate |
|---|---|
| file lock (`utils/file-lock.ts`) | creation, stale-holder takeover with claims and epochs, removal; under the journal, the drive lease and the session files; modelled as `FileLock` |
| ask broker (`core/ask-broker.ts`) | pending questions, answers, timeouts, restarts; planned |
| turn queues (`services/bridge-turn-queue.ts`, `services/codex-bridge-queue.ts`) | attribution of output to turns; planned |
| daemon and worker processes (`daemon.ts`, `worker.ts`) | very large wiring; its protocols are the components listed separately |
| subtask orchestrator and store (`services/subtask-orchestrator.ts`, `services/subtask-store.ts`) | a persisted task tree with its own transitions; a candidate after the plan |
| session store and manager, worker pool, trigger sessions | persistence, supervision and wall-clock triggers; large and not yet read closely enough to model |
| meeting agent (`services/vc-meeting-delivery-store.ts`) | delivery receipts, independent of workflow runs; a candidate after the plan |
| chat gateway, cards, CLI adapters, dashboard, desktop, setup, i18n, skills, squad, the Python delegation runtime | rendering, transport, parsing, packaging, or programs of their own |

`PROJECT.json` lists every component with its status, and every hazard found with
its line and the properties that cover it.

## 2. The modules

    Mutex          abstract: one process at a time inside its section
      ^ implemented by
    FileLock       lock file, claims, epochs, one file-system call per step
    FileLockProofs  theorems about FileLock

    V3Log          abstract: an append-only log with durable promises
      ^ implemented by
    V3Journal      the file, its lock holder, torn writes, fsync, power loss
    V3JournalProofs  theorems about V3Journal
    MCV3Journal    deaths or power losses, not both in one behaviour

    V3Lifecycle    abstract: run status and worker processes
      ^ implemented by
    V3Run          the driver, worker promises, humans, cancels, crashes
      EXTENDS V3Orchestrator   decideNext as a function of the fold
      EXTENDS V3State          the fold, the attempt ledger, the counters
    MCV3Run        small DAGs for V3Run
    V3RunProofs, V3RunWorkerProofs, V3RunOutcomeProofs  theorems about V3Run

    V3Drive        which process drives a run; approvals kept in two files
    V3DriveProofs  theorems about V3Drive
    V3HostEffect   one host node: input, approval, intent, effect, recovery
    V3HostEffectProofs  theorems about V3HostEffect
    V3Fence        one attempt, its worker process, its fence, its close proof
    V3FenceProofs  theorems about V3Fence

The modules stand on each other by what they promise:

| Module | takes as given | shown by |
|---|---|---|
| `V3Journal` | one holder of the journal lock at a time | `FileLock` (`ImplementsMutex`) |
| `V3Run` and the three below | a journal mutation is one atomic append | `V3Journal` (`ImplementsLog`) |
| `V3Run` | one driver per run, started again when there is something to do | `V3Drive` (`TypeOK`, `SomebodysTurn`) |
| `V3Run` | a close proof is recorded only when the worker is gone (`DrainClosed`) | `V3Fence` (`ProofMeansDead`) |
| `V3Drive`, `V3Fence` | one holder of the drive lease at a time | `FileLock` |

The other direction is a reduction: `V3Drive` knows of the engine only open attempts and
gates, `V3HostEffect` and `V3Fence` follow one node and one attempt through the parts of the
runtime that `V3Run` leaves out.

### V3Journal

`lines` is the newline-terminated part of the file and `tail` its last physical
segment: nothing, an interrupted record, or a complete record without its newline
(`repairJournalTailForMutation`); `present` says that the file exists, be it empty, which is
what the append looks at (`existsSync`, `journal.ts:155`) when it decides whether the directory
entry must be forced. A mutation is `Enter` (lock and probe),
`RepairTail` and `RepairSync` when the tail is not empty, `AppendLine`, `FsyncFile`
and `FsyncDir` for a durable append, then `Ack` or `Return`. `StartAlreadyThere` is
the path of `persistV3StartIntent` that finds a root. `Kill` is a death between two
steps, `ShortWrite` a death (or a full disk) inside the write, which may have created the file
and written nothing. `PowerLoss` keeps any
prefix that contains what was forced, possibly with a part of the next record, and
nothing at all if the directory entry of a new file was never forced.

Events are two ordinary ones and `Start`; which event it is plays no role beyond that.

### V3State, V3Orchestrator

The program replays the whole journal at every read. `Fold(s, e)` is the effect of one
more event on the snapshot, one operator per event type, named for it. `Ledger` is
`openV3WorkerAttempts`, and `Tally` holds the counters that the runtime re-derives from
the journal (retry reservations, orphan recoveries, revisit budgets, block reasons).
Keeping the fold's result instead of the event list is exact because every fold in the
code is a left fold. It is what makes the state space small.

`V3Orchestrator` defines the activity of an edge, the readiness of a node under its
trigger rule, which failure matters, which loser of an early release may be struck, and
the actions of one tick.

### V3Run

| Model | Code |
|---|---|
| `snap`, `open`, `tally` | `materialize`, `openV3WorkerAttempts`, counters over `readJournal` |
| `alive` | worker process groups that exist |
| `flight` | `inFlight`, the abort controllers and their drain reason |
| `pc`, `plan`, `item`, `todo`, `why`, `progress` | where `runWorkflow` is and its locals |
| `cb` | a callback between two of its own journal mutations |
| `signal`, `kick` | `opts.cancelSignal.aborted`; a drive or re-drive was asked for |
| `approved`, `consumed`, `spawned` | history for the properties, read by no action |

The driver is one JavaScript thread. Between two awaits nothing of its own process can
interleave, so callbacks and human actions need `Quiet`: the driver is at one of its
awaits and no other callback is half way. Another process is not bound by that:
`ForeignCancel` is enabled at every moment, and so is `Crash`, which forgets all
local state and leaves the workers alive. Each journal mutation is its own action, so
both can happen between any two of them: between claim and lease (`ClaimWork`, `Arm`),
between the decision and the publication of a terminal state (`Decide`, `Publish`),
between the records of one revisit (`CbRevisit`, `CbRefresh`).

A worker's result is any of ok, cancelled or an exception; the validation of its manifest
any verdict (`Settle`, `Judge`). A drain kills a worker and records the close proof only
when the worker is gone (`DrainClosed`); a worker that is still there leaves the attempt
open for a later pass (`DrainPassed`, `Wake`).

Outside the model: structured loops, blocking gates (only `suspend` mode is modelled, the
one daemons use), and journals of older versions without instances or drain records. Host
nodes, the wait files and the fence have modules of their own.

### FileLock

`lock` is the file at the lock path, `body` the identity in it, `ino` its inode number,
`claim` the hard link a breaker pins it with, `owner` the epoch files of that claim. Each
process has a `pc` and the locals of `withFileLock` and `resumeStaleBreak`: the file it
created (`mine`), the one it wants to break (`seen`), what its last stat saw (`meta`). One
action is one file-system call, so any other process, a death (`Die`) and a failed call
(`Fault`) fit between any two: `Create`, `WriteIdentity`, `Release`, `UnlinkMine` for the
owner; `Observe`, `LinkClaim`, `Survey`, `Publish`, `Confirm`, `Validate`, `StatLock`,
`ReadLock`, `LstatLock`, `UnlinkLock` for a breaker; `Withdraw`, `UnlinkClaim`, `CleanList`,
`CleanSweep` for its clean-up. A file is the number of its creation; the inode number
of a removed file is handed out again (`Recycle`), because the code compares inode
numbers. `Prompt` says that nobody takes a second from creating a file to writing its
identity, the grace after which the code calls an empty file abandoned.

### V3Drive

`run` and `node` are the journal, folded to what the daemon can tell apart; `wait` is the
wait file of each gate, `card` the approval cards in the chat. A process is at one place of
its drive (`at`): it waits for the lease, runs the engine, posts cards, folds again,
releases. `rerun` is `rerunRequested`. The two records of an approval are two steps
everywhere: a click resolves the wait file (`Click`) and then appends (`ClickAppend`), a
dispatch appends `gateWaiting` (`DispatchGate`) and then writes the wait file (`WriteWait`).
`Crash` fits between them. `ColdAttach` is the start-up reconciliation of
`reconcileV3PendingGates`: it heals the journal from the wait files, decides whether to
drive, and otherwise posts cards again (`ColdPost`). Two processes do all of this at once,
as during a rolling restart.

### V3HostEffect

A host node sends something outside: a chat message, a schedule, a command. `Resolve`
computes the input, `Freeze` writes it beside the run, `Prepare` records its hash,
`DispatchGate` shows it, `Approve` keeps the hash that was approved, `Claim` records the
durable intent and `Send` lets the call go. `original` is that call, `recovery` the request
that the reconciler makes for an open intent, `late` requests in the air that nobody waits
for. What the reconciler can do depends on the provider: submit again under the same key
while the key is remembered (`Resubmit`), look up (`LookUp`; a lookup can also miss what did
happen, `LookupMisses`), or nothing (`GiveUp`).
`Apply` is the effect; `effects` is the provider's own history, which the program sees only
through the provider's answers. `Forget` ends the provider's memory of a key, `Damage` destroys a file, `Crash`
and `Restart` are the driver.

### V3Fence

`fence` is the fence file with its phases `armed`, `active`, `closed`, `noSpawn`. `place`
is where the promise of the worker pool is, from the claim of the dispatch over `Arm`,
`Fork`, `Bind` and `Greet` (the message that carries the goal) to `CloseUnspawned` or
`Settle`. `drain` is the pass of `drainExternallyOwned` for an attempt that no promise of
this drive owns: it reads the fence, finds a worker that was never bound by scanning the
process table (`ScanFinds`, `Activate`), probes, signals with escalation (`Signal`), and
records the proof. Each daemon is one life of a process; lives overlap and die (`Die`). A process drives only
when it has been asked to: `owed` are the living daemons that have been asked and wait for the
lease. The scan of a new process asks (`Start`, `coldAttach`), so does a cancel (`Cancel`,
unless it comes from the command line) and any click (`Request`). A drive that throws (`Throw`)
is only reported and takes the reruns asked for meanwhile with it; a wait for the lease can end
(`TimesOut`). After either nobody drives until somebody asks again. The last look at the identity
of the worker (`Recheck`) and `process.kill` (`Signal`) are two steps. Pids are taken again
(`Reuse`). `struck` records that something other than the worker was signalled.

## 3. The runs

| Run | Instance | Result |
|---|---|---|
| `journal` | 2 writers, 2 events and the start, 4 records; 3 deaths, or 2 power losses | passes |
| `run_race` | A and B race for C (one_success); B and C share one slot; 1 crash, 1 retry, cancels by this process, a bare signal, another process | passes |
| `run_revisit` | A -> B -> C with B gated; D needs both B and a verdict of A; C sends the run back to B; 3 instances, 1 grant or retry, cancels by this process | passes |
| `run_live` | one gated node, 3 crashes, 1 retry, under fairness | passes |
| `file_lock` | 3 processes, 2 of them mortal, 3 lock files, 2 epochs, 1 failed call, inode numbers reused, under fairness | passes |
| `drive` | 2 processes, 2 gates, 1 plain node; one of: a death, a refused card, a lease timeout; under fairness | passes |
| `host_effect` | 2 attempts, 2 inputs, 3 kinds of provider, 1 reconcile retry, 1 death, 1 damaged file, under fairness | passes |
| `fence` | 3 lives of the daemon, 1 lapse (a drive that throws, a wait for the lease that ends, or a start-up that saw nothing to drive), 1 failed call, under fairness | passes |
| `journal_start_retry` | 1 writer, 1 death and 1 power loss | `AckedSurvives` violated (finding 1) |
| `run_torn_refresh` | A -> B -> C, C sends the run back to A, 1 crash | `FreshInputs` violated (finding 2) |
| `drive_cancel` | 1 process, 1 gate, 1 refused card | `CancelNotStranded` violated (finding 3) |
| `file_lock_sweep` | 4 processes, 2 deaths, no inode reuse | `HolderNamed` violated (finding 4) |

What the properties say:

* `NeverGlued`, `OneHistoryRoot`, `AckedSurvives`, `ImplementsLog`: the journal
  promises of section 1. `ImplementsLog` is refinement of `V3Log`: only a power loss
  may shorten what readers saw, and never below what was acknowledged.
* `TerminalQuiescent`, `WorkerAccounted`, `OneWorkerPerNode`, `SlotsHold`: what the
  world sees of a run agrees with the processes on the machine, across crashes. A run
  shown finished has no open attempt; each existing worker is in the ledger; no node
  has two; the slots bound what exists, not what this process started.
* `CutIsFinal`, `LoserStaysOut`: after the durable cancel, and after an attempt lost
  its race, nothing late changes a node.
* `GateBeforeWork`, `FreshInputs`, `SkipJustified`: revisits. An approval belongs to one
  instance; no finished node of a succeeded run was built from a replaced product; a
  skipped node could not have run.
* `BlockedIsRecoverable`, `NoStall`, `NeverStuck`, `AttemptUsedOnce`, `DriveEnds`,
  `CancelConverges`: recovery and progress.
* `ImplementsLifecycle`: `V3Run` refines `V3Lifecycle`, in which a worker starts only
  while the run runs, under a fresh attempt and beside no other worker of its node; a run
  stops only when no worker is left; and a cancel request is answered only by
  `cancelled`.
* `HolderNamed`, `ImplementsMutex`, `StaleReclaimed`: the file lock. While a caller is in
  its section the path names its own file; sections never overlap (refinement of `Mutex`);
  the file of a dead holder leaves the path, also when a breaker dies or fails half way.
* `SomebodysTurn`, `OneAnswer`, `ApprovalActedOn`, `CancelConverges` (of `V3Drive`): when
  all processes rest, the run is finished or on a card somebody can click; journal and
  wait file never disagree on an answer; an answer is carried through; a cancel is carried
  out. Those that speak of cards exempt a card that the chat provider refused, for which
  the code has no retry.
* `AtMostOnce`, `AppliedAsApproved`, `NothingSilent`, `EffectCloses`: a host effect happens
  at most once over attempts, recoveries and deaths; it is what was approved, for that
  attempt; a run at rest has recorded it; every intent closes and a cancel ends.
* `ProofMeansDead`, `StrangerSpared`, `Drained`: the close proof is true when it is
  written and stays true; no other process is signalled; every attempt gets its proof, unless
  a lapse leaves it to nobody for ever (`Stranded`), as finding 3 does to a cancel.

Each property is paired in `PROJECT.json` with a mutated definition (for example
"the retry leaves the run blocked", "a settle does not look whether its attempt was
struck") under which the same run violates it. The mutated forms stand before the
definition they change and are marked as mutants.

### Bounds, and why they are enough

* `MaxInst` bounds the instances of a node. `Judge` only grants a revisit that has room
  (`Room`), and nothing else creates a second instance, so the bound removes behaviours
  with more revisits and never disables a step the code would take otherwise. Two
  instances show staleness; three leave room for a granted revisit.
* `MaxCrash`, `MaxHuman`, `MaxKill`, `MaxPower` and `MaxLen` bound crashes, retries and
  grants, writer deaths, power losses and journal length. One crash at every step meets
  every window of the race; three are needed for the third orphan recovery, which
  blocks the node. `MCV3Journal` keeps deaths and power losses in different behaviours
  because together they show the finding of `journal_start_retry`.
* `GlobalCap = 2` is below the number of nodes, so dispatch under a full cap happens; the
  pool of one slot in `run_race` makes `PassOver` happen.
* The budgets are 1, so the second revisit meets the exhausted budget and the third
  the granted one.
* `file_lock`: a break needs a dead holder and a live waiter; two deaths kill the holder and
  the breaker, so the third process takes over the breaker's epoch; three files let the
  inode of the first come back as the third. A fourth process shows finding 4 and is
  therefore a run of its own.
* `drive`: `MaxFault` bounds the faults of all kinds together. One fault at every step meets
  each window between two records; the clicks, dispatches and start-ups of the two
  processes interleave without bound.
* `host_effect`: `MAX_HOST_RECONCILE_RETRIES` is 10 in the code and 1 here; the code only
  compares with it. The second attempt is the retry of one that was blocked before its intent.
  With one value the run would not see a changed input.
* `fence`: three lives are the daemon that forks, one that starts the pass and dies in it,
  and one that ends it. One lapse and one failure at every step meet each window of the pass.
* Deadlock is not checked because a run does end: a finished run with no cancel left, and
  a journal at its bound, have no next step. `NoStall` and `DriveEnds` say what must not
  stop.

### Fairness

`run_live` assumes weak fairness of the driver (`Drive`, `Tick`), of the callbacks
(`Callback`), of settled promises (`Promises`) and of the end of a worker
(`WorkerExit`). The JavaScript event loop runs every ready callback and the loop's
next turn; `runNode` has a timeout, and a drain kills what it finds, so a worker ends. A
requested drive is scheduled by the daemon in the same turn, or by cold attach when a
new process starts. Nothing is assumed of humans, of other processes or of crashes,
which are bounded.

`file_lock` assumes that a live process goes on with the call it is at (`Step`) and, for
`StaleReclaimed`, that callers keep asking; a lock that nobody wants stays where it is.

`drive` assumes that a live process goes on (`Program`), that the supervisor starts a dead
one again (`StartUp`) and that a start-up posts the cards it found (`Repost`). Clicks,
cancels and faults are never forced.

`host_effect` assumes the loop of a live process (`Loop`), its deadlines, its restart, and that
a call inside the process returns (`LocalCall`); a remote provider owes no answer.

`fence` assumes that a living process that has been asked to drive does so when the lease is
free (`Drive`), and nothing of one that has not. The code asks in three places: the scan of a
new process (`reconcileV3PendingGates`: an open attempt and a cancelling run are always
resumed, `daemon-run.ts:1672-1748`), a cancel (`cancelAndDrive`) and a click. After a drive that
threw (`daemon-run.ts:1544-1551`) or a lease wait that ended nobody is asked, so nothing is
assumed to happen, and `Drained` exempts the attempt as long as nobody asks again. Somebody
starts a daemon when none lives (`Start`).

It assumes weak fairness of the pass, of what the system does (`Exec`, `Release`) and of
the timers (`ScanAges`, `GraceEnds`), and strong fairness of the promise of the pool: the
passes of a drain are 250 ms apart, a promise of the same process gets its turn in
between, but each pass takes the thread, so its steps are not continuously enabled.
`OrphanExits` is the worker's own exit when its channel to the parent is gone and it has no
goal yet (`worker.ts:19531`). `Retire` is the end of the old process of a rolling restart.
Without it `Drained` is false: an armed fence of a process that lives but no longer drives
belongs to that process until it ends or its promise settles. A worker owes nothing
before it is killed.

## 4. Findings

Four disagreements between the code and what it says of itself are runs; the
counterexample is the evidence and `PROJECT.json` quotes the lines.

1. **A retried start is acknowledged without being forced** (`journal_start_retry`).
   `persistV3StartIntent` returns as soon as it finds the root. The process that wrote it
   may have died before its fsync. The retry reports success, and a power loss takes the
   start back. It is enough that the dead process created the file: the retry then forces the
   bytes, but not the directory entry, because the file was there (`journal.ts:155`). A start whose tail needed repair is not affected: the repair flushes.
2. **A crash inside one revisit leaves a half refreshed cone** (`run_torn_refresh`).
   `appendRevisitEvents` supersedes the nodes of the cone in separate appends. After a
   crash between them nothing completes the sweep; the remaining nodes keep results
   built from the replaced product and the run succeeds.
3. **A cancel is forgotten with a drive that a refused card ended** (`drive_cancel`). A cancel
   that arrives while the drive posts a gate card only sets `rerunRequested`. When the post
   is rejected, the error leaves the loop that would fold again, and the `finally` deletes
   the request. The run stays cancelling until a restart or another action.
4. **The clean-up of a withdrawn break deletes a live epoch** (`file_lock_sweep`).
   `cleanStaleClaimOwnership` unlinks every owner file of the claim name. When the break was
   withdrawn, the next waiter has made the claim again under the same name and published its
   epoch; a third is elected beside it, and the slower of the two removes the path of the
   next live holder.

More configurations show behaviour that a maintainer may or may not want. Each is run with
`tlc -config <cfg> <module>` and ends in a counterexample:

| Configuration | Module | What it shows |
|---|---|---|
| `MCV3RunStaleSkip.cfg` | `MCV3Run` | A skipped node has no instance, so a revisit does not reset it and the new verdict of the switch is never asked for on that edge (`SkipJustified`). |
| `MCV3RunStuck.cfg` | `MCV3Run` | A cancel by another process between decision and claim makes the claim fail; the driver finds nothing in flight and throws "no progress possible" instead of cancelling (`NeverStuck`). The next drive does cancel. |
| `MCV3RunLateLoser.cfg` | `MCV3Run` | The drain reason is read before the manifest is awaited and not after it; a loser struck during that await still sends the run back (`LoserStaysOut`). |
| `MCFileLockRecycled.cfg` | `FileLock` | A delayed breaker compares inode numbers; the next holder's file can have the one it saw (`HolderNamed`, 4 processes, two deaths). |
| `MCFileLockSlow.cfg` | `FileLock` | A live creator that needs a second to write its identity is taken for abandoned (`HolderNamed`). |
| `MCV3DriveResume.cfg` | `V3Drive` | Start-up reconciliation posts the pending cards of a run again instead of driving it, so a branch whose approval was recorded before the death waits until somebody answers another gate (`ApprovalResumes`). |

`FreshInputs`, `SkipJustified`, `LoserStaysOut`, `NeverStuck` and `HolderNamed` are also
checked, and hold, on the instances without the trigger (no crash, no revisit of the switch,
no revisiting loser, no other process, three processes with a prompt creator). So `run_revisit`,
which has no crash and never refreshes the switch, says nothing about a torn refresh or a stale
skip: only `run_torn_refresh` and `MCV3RunStaleSkip.cfg` show those.

Three constants name what the code relies on without enforcing it. Setting them the other
way is a one-line change of the configuration and gives a counterexample:

* `V3HostEffect`, `Slow = TRUE`: a request is under way when the provider's hour ends.
  The age of the intent is compared with the full hour and no margin is subtracted for the
  way, so a resubmission can arrive after the key is forgotten: two effects.
* `V3Fence`, `QuickReuse = TRUE`: the activation of a fence from a scan does not compare
  the start time of the scan (`worker-fence.ts:423`), so a pid that changes hands between
  the two is bound, and signalled. The same happens to one that changes hands between the last
  look at its identity and `process.kill` (`worker-fence.ts:715-729`); no code can close this
  second window without a handle on the process.
* `V3Fence`, `PromptExec = FALSE`: the daemon dies between fork and exec, and two empty
  scans later the child is declared gone; it starts afterwards.

`V3Drive`, `Stall = TRUE` is the corresponding scheduling assumption: a process that stops
between `gateWaiting` and the wait file for as long as a person needs to answer overwrites
the answer with a pending one.

Seen while modelling, and consistent with the properties as stated: a proof can be written
while a child forked by an abandoned promise exists, but that child never gets a goal; a
drain by another daemon proves the worker process dead, not descendants that hold its
pipes; a host effect that succeeds after the cancel request is kept as a host event, and its
`nodeSucceeded` is behind the cut; a live daemon does nothing on a click at a host gate
whose frozen file is damaged, until a restart rejects it or somebody cancels.

## 5. Proofs

`V3JournalProofs` proves, for any sets of writers and events and any bounds:

| Theorem | Statement |
|---|---|
| `TypeCorrect` | `Spec => []TypeOK` |
| `NoGluedRecords` | `Spec => []NeverGlued` |
| `SingleRoot` | `Spec => []OneHistoryRoot` |
| `JournalIsALog` | `MaxPower = 0` implies `Spec => ImplementsLog` |
| `DurableAppendsSurvive` | `MaxKill = 0` implies `Spec => []AckedSurvives` |

Assumptions: `ConstantsAssumption` (the start is not an ordinary event, "free" is not a
writer, the corrupt line is not an event, the bounds are naturals). TLC evaluates it in
every journal run.

The argument. `NeverGlued` and `OneHistoryRoot` are not inductive: an append glues only
when the holder is past the probe while the tail is not empty, and a second root is
added only by a start that saw an empty file, or by an ordinary event on an empty file.
`JournalInv` adds `Sealed`, the file has no unterminated tail from the probe to the
release, and `Rooted`, a holder with an ordinary event works behind a root. Each action
preserves it. `JournalIsALog` adds `Backed`: whoever is on
the way to an acknowledgement has left a record. Its step lemma maps `AppendLine` and the
short write of a complete record to `Commit`, an `Ack` that promises more to `Promise`,
and everything else to a stutter.

`DurableAppendsSurvive` needs `DurableInv`: what is acknowledged is flushed, the directory entry is
forced once anything is acknowledged, and the first record is forced with its entry
before a second mutation can enter; a file whose entry is not forced has nothing in it but what
its creator is about to force (`EmptyForced`). The last part is what a death inside the lock
breaks. So the hypothesis `MaxKill = 0` is necessary, and `journal_start_retry` is its
counterexample.

`V3RunProofs`, `V3RunWorkerProofs` and `V3RunOutcomeProofs` stand on each other in this order and
prove for every DAG, every pool and every bound:

| Theorem | Statement |
|---|---|
| `RunTypeCorrect` | `Spec => []TypeOK` |
| `CancelIsCut` | `Spec => CutIsFinal` |
| `AttemptsAreUsedOnce` | `Spec => AttemptUsedOnce` |
| `GatesBeforeWork` | `Spec => []GateBeforeWork` |
| `WorkersAreAccounted` (`V3RunWorkerProofs`) | `Spec => []WorkerAccounted` |
| `TerminalRunsAreQuiescent` (`V3RunWorkerProofs`) | `Spec => []TerminalQuiescent` |
| `OneWorkerOfANode` (`V3RunOutcomeProofs`) | `Spec => []OneWorkerPerNode` |
| `SlotsAreKept` (`V3RunOutcomeProofs`) | `Spec => []SlotsHold` |
| `LifecycleIsImplemented` (`V3RunOutcomeProofs`) | `Spec => ImplementsLifecycle` |
| `BlockedRunsAreRecoverable` (`V3RunOutcomeProofs`) | `Spec => []BlockedIsRecoverable` |
| `NoRunIsLeftStalled` (`V3RunOutcomeProofs`) | `Foreign = FALSE` implies `Spec => []NoStall` |
| `ResultsAreFresh` (`V3RunOutcomeProofs`) | `MaxCrash = 0` or `RevisitTo = {}` implies `Spec => []FreshInputs` |
| `LosersStayOut` (`V3RunOutcomeProofs`) | `RevisitTo = {}` implies `Spec => LoserStaysOut` |
| `DriverIsNeverStuck` (`V3RunOutcomeProofs`) | `Foreign = FALSE` and no cap is zero imply `Spec => []NeverStuck` |
| `SkipsAreJustified` (`V3RunOutcomeProofs`) | `RevisitTo = {}` implies `Spec => []SkipJustified` |

Assumptions: `StateAssumption`, `DagAssumption` and `RunAssumption`, evaluated by TLC in
every run of `MCV3Run`. `TypeOK` is not inductive, because an event is typed only when it
names an instance: `TypeInv` adds that a waiting gate, a planned start and a callback have
one. The cut is the same case analysis: a step leaves the snapshot alone, appends one
event, which behind the cut acts only if it is in `PastCut` (`CutFold`), or strikes a set
of nodes (`CutStrike`).

The next two theorems are about what a dispatch must respect. Both properties are violated or
kept at one step, `Arm`, two journal mutations after the decision, so both need an
invariant over the whole way there. `NumbersInv`: no worker has a number above the last
one dispatched, a reservation not yet consumed is the next number, and between claim and
spawn the claimed number is above every number used. `GateInv`: a cleared gate is one of
the live instance, approved by a human; a start still planned would run the live
instance, and work only behind its gate; the approval stands from the claim to the spawn;
and no callback is half way while the driver is between decision and spawn (`CbWhere`).
Last comes a case split over the actions: most are calm, and the lemmas
on `ClaimWork`, `ClaimGate`, `Arm`, the retries and the click carry the argument.

`V3RunWorkerProofs`, with the views at the end of `V3RunProofs`, proves that no worker is
forgotten and that a run comes to rest only over an empty ledger. An attempt is closed on the ledger by the settle
of its promise, by a drain, or by the strikes of a cancelled run, and each relies on
something else having kept its worker from living on. `WorkerInv` says what, in six parts:

| Part | What it says | Who relies on it |
|---|---|---|
| `ViewInv` | A pending node shows the instance it would start, instances are numbered without gaps, a running instance runs its latest attempt | every claim; the third orphan recovery |
| `FlightInv` | A promise is of the latest attempt of its key, a callback of this process is of the promise it settles, a drain is of no promise of this process | the settles and drains |
| `EngagedInv` | The node of a live instance with a worker, a promise or a claim is running or cancelled | the strikes of pending and waiting nodes; the next start |
| `PlanInv` | What the tick still wants to skip or start fits the views | the skips and starts late in a tick |
| `LedgerInv` | Every worker is on the ledger; what is being settled, drained or validated has no worker | the property itself |
| `QuiescentInv` | A drain on behalf of a cancelled run covers the ledger; the run is finalized over an empty one | `Finalize`, `Publish` |

No part is inductive alone. `LedgerMove` and `SettledIsOver` need `EngagedInv` and
`FlightInv`, which need `ViewInv` and `NumbersInv`; so all parts are proved together, from
lemmas that say what each event does to the views (`...Effect`) and which step makes which
kind of move (`TickMove`, `StartMove`, `SettleMove`, `OutsideMove`, `RunMove`). What the
proof takes from the model and not from the code is that the fence's proof is written only
when the worker is gone (`DrainClosed`); `ProofsAreEarned` of `V3FenceProofs` discharges it.

`V3RunOutcomeProofs` adds what a run shows to the outside, from five more invariants on top
of `WorkerInv`:

- `SoleInv` is behind one worker per node, the slots and the refinement. An instance in use is
  the live one of its node (`Retired`), and while the tick dispatches every worker on the
  machine is that of a promise of a live instance (`TickOwns`): whatever another process left
  behind has been drained before `Decide`. So a node that wants a start has no worker, and the
  workers inject into the promises, which the claim has counted (`SlotFree`, with
  `IsFiniteSet`, because the DAG is finite but its size is a constant).
- The refinement `LifecycleIsImplemented` is proved step by step: `RunTurn` says which step
  moves the run status and that it does so over an empty ledger when it ends the run,
  `WorkersSame` that only `Arm` starts a worker and only `WorkerExit` ends one.
- `RestInv` is behind the runs at rest. A promise that nobody settles yet is of an open attempt
  (`FlightsOpen`), so nothing is in flight or half way when the run rests (`RestsIdle`); what is
  blocked was dispatched (`Worked`), so a retry has an attempt to follow; a driver leaves only
  a run at rest, one that waits for a human, or one somebody was asked to drive again
  (`LeftAtRest`). `NoStall` needs `Foreign = FALSE`: a cancel request that another process
  appends after the driver has left waits for the drive that process starts itself, which
  `V3Run` leaves to `V3Drive`.
- `FreshInv` is behind `ResultsAreFresh`. Each live instance was built from the live instances of
  its inputs, unless the refresh in progress still has to reach it (`Fresh`), and a refresh
  covers everything live downstream of its target (`Whole`, with `AffectedClosed`). A driver
  that dies between two records of one refresh leaves exactly that broken: the hypothesis is
  necessary, and `run_torn_refresh` is its counterexample.
- `LosersInv` is behind `LosersStayOut`. A live instance and its node say the same, or the node
  was skipped (`Mirrored`); a cancelled instance has its latest attempt struck (`StruckDown`), so
  nothing its worker still says moves a node; and what an early release is about to cancel is not
  about to be retried (`RetriesApart`). A revisit asked for by a loser before it was struck is the
  one way back in: the hypothesis is necessary, and
  `MCV3RunLateLoser.cfg` (section 4) is its counterexample.
- `OnwardInv` is behind `DriverIsNeverStuck`. When a driver has nothing else to do it looks at the
  first open node in topological order: its inputs are all settled, or failed without anybody
  needing them, so `decideNext` does not let it wait (`NothingToWaitFor`). If it is at work its
  attempt is on the ledger (`AtWorkOpen`) and in flight, for an orphan is drained before; if it
  is pending it is skipped, asks for a verdict or starts, for it has room for an instance
  (`RoomLeft`, the bound `MaxInst`, looked at before a refresh begins). `MovesOn` carries that
  from the decision over claim, spawn and losers to the end of the tick. A cap of zero is ruled
  out by the command line (`cli-run.ts:158`) and the defaults; `Foreign = FALSE` is necessary,
  and `MCV3RunStuck.cfg` (section 4) is its counterexample.
- `SkipInv` is behind `SkipsAreJustified`. A skip is decided in one step and recorded in a later
  one, and what it was decided on may move in between: verdicts, clicks, retries, cancellations,
  drains and deaths. `SkipsStand` says that a node that is skipped, or in the plan to be, is out
  of reach, and the proof is that reach only shrinks: nothing reopens a node that is done, skipped
  or cancelled (`OverStays`), and no verdict on an edge is taken back (`VerdictsStay`). The first
  needs to know that nobody reaches a node between the decision on a verdict and its record
  (`VerdictStands`) and that no worker is left on a skipped node (`SkippedIdle`). A revisit breaks
  it by design of the refresh: the hypothesis is necessary, and `MCV3RunStaleSkip.cfg` (section 4)
  is its counterexample.

`V3HostEffectProofs` proves, for all values, attempts, retries, deaths and damages:

| Theorem | Statement |
|---|---|
| `TypeCorrect` | `Spec => []TypeOK` |
| `EffectsAsApproved` | `Spec => []AppliedAsApproved` |
| `EffectsAtMostOnce` | `Slow = FALSE` implies `Spec => []AtMostOnce` |
| `NothingIsSilent` | `Spec => []NothingSilent` |

The only assumption is `ConstantsAssumption`; `Slow = FALSE` is necessary, as section 4 says.
`AtMostOnce` counts the provider's history and is far from inductive. `IntentInv`: only the
current attempt can have an intent, because a retry is refused once there is one.
`AirInv`: every call belongs to an intent and carries its recorded input. `EffectInv`: so
does every effect. What is left is to count the requests of one attempt, and that depends
on the provider (`OnceInv`): one that remembers keys drops the second while no request
outlives the key, one that does not has only the original request, because the reconciler
then gives up (`Single`). For silence, `CreditInv` ties everything that claims the effect (a
result, a manifest, a success) to the effect, and `RestInv` says that a run rests only over
closed intents.

`V3FenceProofs` proves, for any number of daemons, lapses and failures:

| Theorem | Statement |
|---|---|
| `FenceTypeCorrect` | `Spec => []TypeOK` |
| `FenceInvariant` | `PromptExec = TRUE` implies the inductive invariant |
| `ProofsAreEarned` | `PromptExec = TRUE` implies `Spec => ProofMeansDead` |
| `OnlyOwnWorkerSignalled` | `QuickReuse = FALSE` implies `Spec => []StrangerSpared` |

Both hypotheses are necessary (section 4). A proof is written from what a drain has read
and scanned some steps before, while the promise of another daemon may go on. So the
invariant has to say why such a conclusion cannot be overtaken: `Gone`, the child is dead or never
comes, or `Shut`, it can no longer be bound. Both are stable. `PlaceInv` and `FenceInv` tie
the place of the promise to the phase of the fence; `ScanInv` is the hard case, an armed
fence of a dead daemon whose child is between fork and exec, where no scan sees it and only
the second scan is late enough; `ProofInv` says that whoever has the proof, or is about to
write it, has `Gone` or `Shut`. `ReuseInv` and `SparedInv` say where a pid can change hands,
that no other process gets into a fence, and that what is about to be killed has just been seen
alive.

`V3DriveProofs` proves, for any number of daemons and gates, of deaths, refused cards and lease
waits:

| Theorem | Statement |
|---|---|
| `DriveTypeCorrect` | `Spec => []TypeOK`, which includes one process at most under the lease |
| `FirstAnswerWins` | `Stall = FALSE` implies `Spec => OneAnswer` |
| `NobodyIsStranded` | `Spec => []SomebodysTurn` |

`SomebodysTurn` speaks of the moment when every process is at rest; its invariant `TurnInv` has
to say, for every window between two records, two files or two processes, who is going to close
it: an open approval has a wait file or somebody between its two records (`Held`), and a card or
somebody about to post it (`Shown`); a run that waits for nobody has a drive that has not
decided yet or is asked to come again (`Moving`), and so has a run to be cancelled (`Cutting`).
All of it holds until a card is refused or a lease wait runs out, which the property exempts.
`FirstAnswerWins` needs that no process stops between the two records of a dispatch for as long
as a person needs to click (`Stall`, section 4). The constants are assumed to have one daemon at
least, for with none nobody would start the run.

`FileLockProofs` proves, for any number of processes and lock files and any failing calls:

| Theorem | Statement |
|---|---|
| `LockTypeCorrect` | `Spec => []TypeOK` |
| `HolderKeepsItsFile` | `Prompt = TRUE` and `MaxKill <= 1` imply `Spec => []HolderNamed` |
| `SectionsExclude` | `Prompt = TRUE` and `MaxKill <= 1` imply `Spec => ImplementsMutex` |

Both hypotheses are necessary. `Prompt` says that a creator writes its identity within the second
the breakers wait (`MCFileLockSlow.cfg`). The bound on deaths is exact for an unbounded number of
processes: after two deaths a breaker with an old view of the path can remove the file of a
live holder (`file_lock_sweep`, four processes); what three processes survive, two deaths
included, is model-checked (`file_lock`). `LockInv` speaks of the two ages of the path. While
the dead creator's file is there (`Stale`), whoever is past its election owns the only claim and
what it saw of the file is true (`OneBreaker`, `AtStale`); `FirstEpoch` is where the bound
enters, for the breakers themselves live. Once that file is gone nobody is about to unlink
(`Removed`): the last look at the path, after the pin, sends every late breaker home. `InodeLeft`
and `MinIn` are there because the model gives a new file the least free inode number.

Model-checked only: everything about liveness and fairness (out of the prover's reach), the
deaths of several lock holders with three processes, and the DAG with a revisit on which
`SkipJustified` holds because the verdict that skips is one of a node the revisit does not
refresh (`run_revisit`).


## 6. Not modelled, and what is left

Not modelled in the components that are: structured loops; blocking gates and approver
policies; in `V3Drive` the retries and grants of two processes, the cards of blocked runs,
host approvals, and the unlocked `runStarted` stamp of the manual command-line path; in
`V3HostEffect` the revisit of a host node and a definition that changed under an open intent;
in `V3Fence` systems other than Linux, where no process table can be scanned.
A few steps are coarser than the code. In `V3Run` a mutation of several appends under one lock
is one step (`StrikeNodes`, `Finalize`), with no death between its appends, and the cone of a revisit
is swept in topological order, not in the order of its discovery (`Affected`; the set is the
same). In `V3Drive` the start-up reconciliation of one run is one step (`ColdAttach`). In
`V3HostEffect` the two files of a result are one (`Publish`). What a
death inside one of these steps leaves behind is not checked.
Validation (`dag.ts`, `manifest.ts`) is sequential and appears by its outcome. Recursive
work over data (hashes, schemas, templates) appears by its outcome too.

Outside the engine nothing is modelled but the file lock. Most of the repository by size is
chat rendering, terminal adapters, the dashboard and wiring; section 1.2 names the parts
with a protocol of their own.

Models, in order:

1. `V3Loop`: iterations, exits, grants, over the fold of `V3State`; bounded, no iteration runs
   twice, an exhausted loop can be granted or ends.
2. Retries and grants of two processes in `V3Drive` (`daemon-run.ts:1362`).
3. The ask broker (`core/ask-broker.ts`): one answer per question, over timeouts and restarts.
4. The turn queues (`services/bridge-turn-queue.ts`, `services/codex-bridge-queue.ts`): output
   goes to the turn that caused it.
5. The subtask orchestrator and its store.

Proofs: the invariants of the models above.
