------------------------------ MODULE V3Fence ------------------------------
(***************************************************************************)
(* One attempt of a goal node, its worker process and its fence            *)
(* (workflows/v3/worker-fence.ts, botmux-attempt-lease.ts,                 *)
(* ephemeral-pool.ts and the dispatch and drain code of                    *)
(* shared-node-runtime.ts).                                                *)
(*                                                                         *)
(* The daemon that dispatches the attempt publishes a fence file before it *)
(* forks, binds the identity of the child to it before the child gets its  *)
(* goal, and closes it when the child has closed.  If the daemon dies, or  *)
(* the drive that started the attempt throws, a later drive finds out from *)
(* the file and from the process table whether a worker is left, stops it, *)
(* and records in the journal that it is gone.  Only this record lets the  *)
(* engine dispatch the node again: V3Run takes it for granted              *)
(* (DrainClosed), here it is earned.                                       *)
(*                                                                         *)
(* Every daemon is one life of a process, so it is its own identity (pid   *)
(* and start time).  Processes overlap during a rolling restart; the drive *)
(* lease (V3Drive, FileLock) lets one of them drive.                       *)
(***************************************************************************)
EXTENDS Naturals

CONSTANTS
  MaxLife,      \* bound on lives of the daemon
  MaxLapse,     \* bound on drives that throw and start-ups that ask for none
  MaxFail,      \* bound on reads, writes and scans that fail
  PromptExec,   \* a forked child executes its program within the time of a double scan
  QuickReuse    \* a pid may be taken again between a look at it and the next call that uses it

ASSUME ConstantsAssumption ==
  /\ MaxLife \in Nat \ {0} /\ MaxLapse \in Nat /\ MaxFail \in Nat
  /\ PromptExec \in BOOLEAN /\ QuickReuse \in BOOLEAN

Daemon == 1 .. MaxLife
Nobody == 0
None == "none"

Phase == {"missing", "armed", "active", "closed", "noSpawn"}
Identity == {"worker", "stranger"}
Fence == [phase : Phase, owner : Daemon \cup {Nobody}, who : Identity \cup {None}]
NoFence == [phase |-> "missing", owner |-> Nobody, who |-> None]
Armed(d) == [phase |-> "armed", owner |-> d, who |-> None]

\* The promise of the pool, from the claim of the dispatch to its last clean-up.
Place == {None, "claimed", "armed", "setup", "unspawned", "forking", "binding", "greeting",
          "bound", "stopping", "refusing", "closed", "proved"}
Blocking == {"claimed", "armed", "forking", "binding", "greeting"}

VARIABLES
  run, dispatched, proof,   \* the journal: status, nodeDispatched, the close proof
  fence,                    \* the fence file
  worker,                   \* the child; "exited" is gone, "closed" has let go of its pipes
  reused,                   \* another process has taken the pid of the child
  alive, lives, driver,     \* living daemons, lives begun, the holder of the drive lease
  owed,                     \* daemons that have been asked to drive and wait for the lease
  place, by,                \* the promise of the pool and the daemon it runs in
  mine,                     \* controllerAttemptIds of the drive knows the attempt
  drain, seen,              \* the drain pass of the drive, and the fence it has read
  since,                    \* missingFenceNoneSince: never, recent or old enough
  sent,                     \* externalDrainSignals
  struck,                   \* a process that is not the worker has got a signal
  lapses, fails

journal == <<run, dispatched, proof>>
os == <<worker, reused, struck>>
daemons == <<alive, lives, driver, owed>>
pool == <<place, by, mine>>
pass == <<drain, seen, since, sent>>
faults == <<lapses, fails>>
vars == <<journal, fence, os, daemons, pool, pass, faults>>

Init ==
  /\ run = "running" /\ dispatched = FALSE /\ proof = None
  /\ fence = NoFence
  /\ worker = None /\ reused = FALSE /\ struck = FALSE
  /\ alive = {1} /\ lives = 1 /\ driver = Nobody /\ owed = {1}
  /\ place = None /\ by = Nobody /\ mine = FALSE
  /\ drain = "idle" /\ seen = NoFence /\ since = "never" /\ sent = None
  /\ lapses = 0 /\ fails = 0

----------------------------------------------------------------------------
Live == {"started", "working"}                  \* the child runs the worker program
Free(d) == d \in alive /\ ~(driver = d /\ drain # "idle")
At(p) == place = p /\ Free(by)                  \* the promise has its turn
Goto(p) == place' = p /\ UNCHANGED <<by, mine>>
\* Mutant: the controller of a settled promise stays registered.
DropKeeps == place' = None /\ by' = Nobody /\ UNCHANGED mine

\* The promise has settled; its controller goes with it.
Drop == place' = None /\ by' = Nobody /\ mine' = (mine /\ by # driver)
Fail == fails < MaxFail /\ fails' = fails + 1 /\ UNCHANGED lapses
Prove(how) == proof' = (IF proof = None THEN how ELSE proof) /\ UNCHANGED <<run, dispatched>>

\* closeV3ArmedFenceWithoutSpawn, by the live owner and from armed only.
CloseUnspawned(d) ==
  fence' = IF fence = Armed(d) THEN [fence EXCEPT !.phase = "noSpawn"] ELSE fence

(***************************************************************************)
(* Dispatch: startWork and runEphemeralNode                                *)
(***************************************************************************)
\* A request to drive, that of a click or a command: one more to the daemon that drives already,
\* or waits, is only a rerun, and this goes with the drive if it throws.
Request(d) ==
  /\ d \in alive \ (owed \cup {driver})
  /\ owed' = owed \cup {d}
  /\ UNCHANGED <<journal, fence, os, alive, lives, driver, pool, pass, faults>>

\* V3_DRIVE_LEASE_MAX_WAIT_MS: the wait for the lease of another process is over, and with it
\* the drive; only the cancel of a run waits on.
TimesOut(d) ==
  /\ d \in owed /\ driver # Nobody /\ run = "running" /\ lapses < MaxLapse
  /\ owed' = owed \ {d} /\ lapses' = lapses + 1
  /\ UNCHANGED <<journal, fence, os, alive, lives, driver, pool, pass, fails>>

\* A drive begins with no controllers and, as each gets a lease provider of its own, with
\* nothing remembered of earlier scans and signals.
Drive(d) ==
  /\ d \in owed /\ driver = Nobody /\ proof = None
  /\ driver' = d /\ owed' = owed \ {d} /\ mine' = FALSE
  /\ drain' = "idle" /\ seen' = NoFence /\ since' = "never" /\ sent' = None
  /\ UNCHANGED <<journal, fence, os, alive, lives, place, by, faults>>

Claim ==
  /\ driver # Nobody /\ ~dispatched /\ run = "running"
  /\ dispatched' = TRUE
  /\ place' = "claimed" /\ by' = driver
  /\ UNCHANGED <<run, proof, fence, os, daemons, mine, pass, faults>>

Arm ==
  /\ At("claimed")
  /\ fence' = Armed(by) /\ Goto("armed")
  /\ UNCHANGED <<journal, os, daemons, pass, faults>>

\* The fence cannot be published: the node fails without a worker.
ArmFails ==
  /\ At("claimed") /\ Fail
  /\ Prove("local") /\ Drop
  /\ UNCHANGED <<fence, os, daemons, pass>>

\* nodeWorkerFenceArmed; a cancel that came in between stops the dispatch here, and the
\* attempt is left to the drain.
MaySpawn ==
  /\ At("armed")
  /\ IF run = "running"
       THEN place' = "setup" /\ mine' = TRUE /\ UNCHANGED <<fence, by>>
       ELSE CloseUnspawned(by) /\ Drop
  /\ UNCHANGED <<journal, os, daemons, pass, faults>>

\* The journal cannot be written, and perhaps the fence cannot be closed either.
MaySpawnFails ==
  /\ At("armed") /\ Fail
  /\ CloseUnspawned(by) \/ UNCHANGED fence
  /\ Prove("local") /\ Drop
  /\ UNCHANGED <<os, daemons, pass>>

\* No secret, no directory, or an abort before the fork.
SetupEnds ==
  /\ At("setup") /\ Goto("unspawned")
  /\ UNCHANGED <<journal, fence, os, daemons, pass, faults>>

Unspawn ==
  /\ At("unspawned")
  /\ CloseUnspawned(by) /\ Goto("closed")
  /\ UNCHANGED <<journal, os, daemons, pass, faults>>

Fork ==
  /\ At("setup")
  /\ worker' = "forked" /\ Goto("forking")
  /\ UNCHANGED <<journal, fence, reused, struck, daemons, pass, faults>>

\* spawn returns when the child has executed its program.
Forked ==
  /\ At("forking") /\ worker # "forked"
  /\ Goto("binding")
  /\ UNCHANGED <<journal, fence, os, daemons, pass, faults>>

\* bindV3AttemptWorkerFence: armed by this process becomes active; anything else is refused.
Bind ==
  /\ At("binding")
  /\ IF fence = Armed(by)
       THEN Goto("greeting") /\ fence' = [fence EXCEPT !.phase = "active", !.who = "worker"]
       ELSE Goto("refusing") /\ UNCHANGED fence
  /\ UNCHANGED <<journal, os, daemons, pass, faults>>

\* The write fails before or after the rename.
BindFails ==
  /\ At("binding") /\ Fail
  /\ \/ UNCHANGED fence
     \/ fence = Armed(by) /\ fence' = [fence EXCEPT !.phase = "active", !.who = "worker"]
  /\ Goto("refusing")
  /\ UNCHANGED <<journal, os, daemons, pass>>

\* The init message: from here on the child works on the goal.
Greet ==
  /\ At("greeting")
  /\ worker' = IF worker = "started" THEN "working" ELSE worker
  /\ Goto("bound")
  /\ UNCHANGED <<journal, fence, reused, struck, daemons, pass, faults>>

\* A result, the deadline, or an abort: close, SIGINT or SIGTERM, then SIGKILL.
Stop ==
  /\ At("bound") /\ Goto("stopping")
  /\ UNCHANGED <<journal, fence, os, daemons, pass, faults>>

Kill ==
  /\ place \in {"stopping", "refusing"} /\ Free(by) /\ worker \in Live
  /\ worker' = "exited"
  /\ UNCHANGED <<journal, fence, reused, struck, daemons, pool, pass, faults>>

\* The close event of the child settles the promise and closes the fence.
Closed ==
  /\ place \in {"bound", "stopping"} /\ Free(by) /\ worker = "closed"
  /\ fence' = IF fence.phase = "active" /\ fence.owner = by
              THEN [fence EXCEPT !.phase = "closed"] ELSE fence
  /\ Goto("closed")
  /\ UNCHANGED <<journal, os, daemons, pass, faults>>

\* The fence cannot be closed, with a worker or without; the promise settles all the same.
CloseFails ==
  /\ \/ place = "unspawned"
     \/ place \in {"bound", "stopping", "refusing"} /\ worker = "closed"
  /\ Free(by) /\ Fail
  /\ Goto("closed")
  /\ UNCHANGED <<journal, fence, os, daemons, pass>>

\* The child that could not be bound is gone: a closed fence stays, an armed one goes.
Refused ==
  /\ At("refusing") /\ worker = "closed"
  /\ fence' = CASE fence.phase = "active" -> [fence EXCEPT !.phase = "closed"]
                [] fence.phase = "armed"  -> NoFence
                [] OTHER                  -> fence
  /\ Goto("closed")
  /\ UNCHANGED <<journal, os, daemons, pass, faults>>

\* The verdict or nodeAttemptDrained, durable before the fence goes.
Settle ==
  /\ At("closed")
  /\ Prove("local") /\ Goto("proved")
  /\ UNCHANGED <<fence, os, daemons, pass, faults>>

SettleFails ==
  /\ At("closed") /\ Fail
  /\ Drop
  /\ UNCHANGED <<journal, fence, os, daemons, pass>>

Alive(who) == IF who = "worker" THEN worker \in Live ELSE reused

\* cleanupSettled: a fence that is armed or whose process is dead.
CleanUp ==
  /\ At("proved")
  /\ fence' = IF fence.phase = "active" /\ Alive(fence.who) THEN fence ELSE NoFence
  /\ Drop
  /\ UNCHANGED <<journal, os, daemons, pass, faults>>

(***************************************************************************)
(* Drain: drainExternallyOwnedAttempts and drainExternallyOwned            *)
(***************************************************************************)
\* An open attempt that this drive has no controller for; while the process is inside a
\* synchronous part of the pool it does not drain.
Drains(where) ==
  /\ driver # Nobody /\ drain = where
  /\ dispatched /\ proof = None /\ ~mine
  /\ ~(by = driver /\ place \in Blocking)

ToProve(f) == drain' = "prove" /\ seen' = f
Later == drain' = "idle" /\ seen' = NoFence

\* discoverV3AttemptWorker: worker program and attempt directory both match.
ScanFinds == worker \in Live

\* Mutant: one empty scan is enough.
NothingFoundOnce(f) == ToProve(f) /\ UNCHANGED <<since, sent>>

\* emptyDiscoveryIsStable: two empty scans some time apart.
NothingFound(f) ==
  IF since = "old" THEN ToProve(f) /\ UNCHANGED <<since, sent>>
  ELSE /\ since' = (IF since = "never" THEN "recent" ELSE since)
       /\ Later /\ UNCHANGED sent

DrainArmedMine ==
  /\ Drains("idle") /\ fence = Armed(driver)
  /\ IF ScanFinds
       THEN drain' = "activate" /\ seen' = fence /\ UNCHANGED <<fence, since, sent>>
       ELSE /\ fence' = IF since = "old" THEN [fence EXCEPT !.phase = "noSpawn"] ELSE fence
            /\ NothingFound(fence')
  /\ UNCHANGED <<journal, os, daemons, pool, faults>>

\* recoverV3ArmedFenceWorker: only when the process that armed it is dead.
DrainArmedOther ==
  /\ Drains("idle") /\ fence.phase = "armed" /\ fence.owner # driver
  /\ IF fence.owner \in alive
       THEN since' = "never" /\ Later /\ UNCHANGED <<fence, sent>>
       ELSE IF ScanFinds
         THEN /\ fence' = [fence EXCEPT !.phase = "active", !.who = "worker"]
              /\ drain' = "probe" /\ seen' = fence' /\ since' = "never" /\ UNCHANGED sent
         ELSE NothingFound(fence) /\ UNCHANGED fence
  /\ UNCHANGED <<journal, os, daemons, pool, faults>>

DrainMissing ==
  /\ Drains("idle") /\ fence = NoFence
  /\ IF ScanFinds
       THEN /\ fence' = Armed(driver) /\ drain' = "activate" /\ seen' = fence'
            /\ UNCHANGED <<since, sent>>
       ELSE NothingFound(NoFence) /\ UNCHANGED fence
  /\ UNCHANGED <<journal, os, daemons, pool, faults>>

\* activateV3AttemptWorkerFence takes the identity the pid has now, not the scanned one.
Activate ==
  /\ Drains("activate")
  /\ IF fence = Armed(driver) /\ (Alive("worker") \/ reused)
       THEN /\ fence' = [fence EXCEPT !.phase = "active",
                                      !.who = IF Alive("worker") THEN "worker" ELSE "stranger"]
            /\ drain' = "probe" /\ seen' = fence' /\ since' = "never"
       ELSE Later /\ UNCHANGED <<fence, since>>
  /\ UNCHANGED <<journal, os, daemons, pool, sent, faults>>

DrainBound ==
  /\ Drains("idle") /\ fence.phase \in {"active", "closed", "noSpawn"}
  /\ drain' = "probe" /\ seen' = fence
  /\ UNCHANGED <<journal, fence, os, daemons, pool, since, sent, faults>>

Due == sent \in {None, "interrupted"}

\* Mutant: any process with the pid is taken for the worker.
ProbePid ==
  /\ Drains("probe")
  /\ IF fence.phase \in {"closed", "noSpawn"} \/ (fence.phase = "active" /\ worker \notin Live /\ ~reused)
       THEN ToProve(fence)
       ELSE IF fence.phase = "active" /\ Due THEN drain' = "signal" /\ seen' = fence
       ELSE Later
  /\ UNCHANGED <<journal, fence, os, daemons, pool, since, sent, faults>>

\* probeV3AttemptWorkerFence: dead only when closed, or when nobody has the pid with that
\* start time.
Probe ==
  /\ Drains("probe")
  /\ IF fence.phase \in {"closed", "noSpawn"} \/ (fence.phase = "active" /\ ~Alive(fence.who))
       THEN ToProve(fence)
       ELSE IF fence.phase = "active" /\ Due THEN drain' = "signal" /\ seen' = fence
       ELSE Later
  /\ UNCHANGED <<journal, fence, os, daemons, pool, since, sent, faults>>

\* Mutant: the identity is not checked again before the signal.
RecheckNothing ==
  /\ Drains("signal") /\ drain' = "kill"
  /\ UNCHANGED <<journal, fence, os, daemons, pool, seen, since, sent, faults>>

\* signalV3AttemptWorker: the fence and the identity behind the pid are read once more.
Recheck ==
  /\ Drains("signal")
  /\ CASE fence.phase = "active" /\ fence = seen /\ Alive(fence.who) ->
            drain' = "kill" /\ UNCHANGED seen
       [] fence.phase = "closed" \/ (fence = seen /\ ~Alive(fence.who)) -> ToProve(fence)
       [] OTHER -> Later
  /\ UNCHANGED <<journal, fence, os, daemons, pool, since, sent, faults>>

\* process.kill: SIGINT, and SIGKILL after the grace, to whoever has the pid now; a pid that
\* nobody has (ESRCH) is a dead worker.
Signal ==
  /\ driver # Nobody /\ drain = "kill"
  /\ IF worker \in Live \/ reused
       THEN /\ worker' = IF worker \in Live /\ sent = "interrupted" THEN "exited" ELSE worker
            /\ struck' = (struck \/ worker \notin Live)
            /\ sent' = IF sent = None THEN "graced" ELSE "killed"
            /\ Later
       ELSE ToProve(seen) /\ UNCHANGED <<worker, struck, sent>>
  /\ UNCHANGED <<journal, fence, reused, daemons, pool, since, faults>>

\* appendAttemptDrained: the proof before the removal.
Record ==
  /\ driver # Nobody /\ drain = "prove"
  /\ Prove("drained") /\ drain' = "finalize"
  /\ UNCHANGED <<fence, os, daemons, pool, seen, since, sent, faults>>

\* removeV3AttemptWorkerFence, of exactly the fence the proof is about.
Finalize ==
  /\ driver # Nobody /\ drain = "finalize"
  /\ fence' = IF seen # NoFence /\ fence = seen THEN NoFence ELSE fence
  /\ Later /\ since' = "never" /\ sent' = None
  /\ UNCHANGED <<journal, os, daemons, pool, faults>>

\* A read, a write or a scan of the drain fails or is ambiguous.
DrainFails ==
  /\ driver # Nobody /\ dispatched /\ proof = None /\ ~mine /\ Fail
  /\ ~(by = driver /\ place \in Blocking)
  /\ since' = (IF drain = "idle" THEN "never" ELSE since)
  /\ Later
  /\ UNCHANGED <<journal, fence, os, daemons, pool, sent>>

(***************************************************************************)
(* The world                                                               *)
(***************************************************************************)
\* The cancel of a daemon asks it to drive; that of the command line only writes the journal.
Cancel ==
  /\ run = "running" /\ run' = "cancelling"
  /\ \E d \in alive \cup {Nobody} : owed' = owed \cup ({d} \ {driver, Nobody})
  /\ UNCHANGED <<dispatched, proof, fence, os, alive, lives, driver, pool, pass, faults>>

\* The drive throws, and whatever was asked of its process meanwhile is dropped; what it
\* started goes on in the same process.
Throw ==
  /\ driver # Nobody /\ drain = "idle" /\ lapses < MaxLapse
  /\ ~(by = driver /\ place \in Blocking)
  /\ driver' = Nobody /\ mine' = FALSE /\ lapses' = lapses + 1
  /\ UNCHANGED <<journal, fence, os, alive, lives, owed, place, by, pass, fails>>

\* Mutant: the scan passes over a run that has an open attempt.
StartOverlooks ==
  /\ lives < MaxLife /\ lives' = lives + 1
  /\ alive' = alive \cup {lives + 1}
  /\ owed' = IF run = "cancelling" THEN owed \cup {lives + 1} ELSE owed
  /\ UNCHANGED <<journal, fence, os, driver, pool, pass, faults>>

\* A new process, after the death of the last one or beside it.  Its scan of the runs asks for
\* a drive of one that has an open attempt or is being cancelled; before the dispatch the run
\* may be waiting for a gate, and is only looked at.
Start ==
  /\ lives < MaxLife /\ lives' = lives + 1
  /\ alive' = alive \cup {lives + 1}
  /\ \/ owed' = owed \cup {lives + 1} /\ UNCHANGED lapses
     \/ /\ ~dispatched /\ run = "running" /\ lapses < MaxLapse
        /\ lapses' = lapses + 1 /\ UNCHANGED owed
  /\ UNCHANGED <<journal, fence, os, driver, pool, pass, fails>>

\* The bound on lives must not leave the run without a process for ever.
Die(d) ==
  /\ d \in alive /\ (lives < MaxLife \/ alive # {d})
  /\ alive' = alive \ {d} /\ owed' = owed \ {d}
  /\ driver' = IF driver = d THEN Nobody ELSE driver
  /\ mine' = (mine /\ driver # d)
  /\ IF by = d THEN place' = None /\ by' = Nobody ELSE UNCHANGED <<place, by>>
  /\ drain' = (IF driver = d THEN "idle" ELSE drain)
  /\ seen' = (IF driver = d THEN NoFence ELSE seen)
  /\ UNCHANGED <<journal, fence, os, lives, since, sent, faults>>

Exec ==
  /\ worker = "forked" /\ worker' = "started"
  /\ UNCHANGED <<journal, fence, reused, struck, daemons, pool, pass, faults>>

Exit ==
  /\ worker \in Live /\ worker' = "exited"
  /\ UNCHANGED <<journal, fence, reused, struck, daemons, pool, pass, faults>>

\* Whatever held the pipes of the child lets go.
Release ==
  /\ worker = "exited" /\ worker' = "closed"
  /\ UNCHANGED <<journal, fence, reused, struck, daemons, pool, pass, faults>>

\* Another process gets the pid of the dead child, or ends.
Reuse ==
  /\ worker \in {"exited", "closed"}
  /\ reused \/ drain \notin {"activate", "kill"} \/ QuickReuse
  /\ reused' = ~reused
  /\ UNCHANGED <<journal, fence, worker, struck, daemons, pool, pass, faults>>

\* MISSING_FENCE_DOUBLE_SCAN_MS and EXTERNAL_CANCEL_KILL_GRACE_MS pass.
ScanAges ==
  /\ since = "recent" /\ (PromptExec => worker # "forked")
  /\ since' = "old"
  /\ UNCHANGED <<journal, fence, os, daemons, pool, drain, seen, sent, faults>>

GraceEnds ==
  /\ sent = "graced" /\ sent' = "interrupted"
  /\ UNCHANGED <<journal, fence, os, daemons, pool, drain, seen, since, faults>>

Pool ==
  \/ Arm \/ MaySpawn \/ SetupEnds \/ Unspawn \/ Fork \/ Forked \/ Bind \/ Greet \/ Stop
  \/ Kill \/ Closed \/ Refused \/ Settle \/ CleanUp

Pass ==
  \/ DrainArmedMine \/ DrainArmedOther \/ DrainMissing \/ Activate \/ DrainBound
  \/ Probe \/ Recheck \/ Signal \/ Record \/ Finalize

Failure ==
  \/ ArmFails \/ MaySpawnFails \/ BindFails \/ CloseFails \/ SettleFails \/ DrainFails

Next ==
  \/ \E d \in Daemon : Request(d) \/ TimesOut(d) \/ Drive(d) \/ Die(d)
  \/ Claim \/ Pool \/ Pass \/ Failure
  \/ Cancel \/ Throw \/ Start
  \/ Exec \/ Exit \/ Release \/ Reuse \/ ScanAges \/ GraceEnds

Spec == Init /\ [][Next]_vars

\* A child without a parent that has no goal yet leaves on the loss of its channel.
OrphanExits == worker = "started" /\ by = Nobody /\ Exit

\* A process beside the driver is the old one of a rolling restart.
Retire == \E d \in Daemon : driver \notin {Nobody, d} /\ Die(d)

\* Processes run, are started again and drive what they are asked to, timers fire, the system executes
\* what is forked and pipes close in the end; a worker owes nothing before SIGKILL.  The
\* passes of the drain are 250 ms apart: a promise of the same process gets its turn between
\* them, hence SF.
FairSpec ==
  /\ Spec
  /\ WF_vars(alive = {} /\ Start) /\ WF_vars(Retire) /\ WF_vars(\E d \in Daemon : Drive(d))
  /\ SF_vars(Pool) /\ WF_vars(Pass) /\ WF_vars(ScanAges) /\ WF_vars(GraceEnds)
  /\ WF_vars(Exec) /\ WF_vars(Release) /\ WF_vars(OrphanExits)

----------------------------------------------------------------------------
TypeOK ==
  /\ run \in {"running", "cancelling"} /\ dispatched \in BOOLEAN
  /\ proof \in {None, "local", "drained"} /\ (proof # None => dispatched)
  /\ fence \in Fence /\ (fence.phase \in {"active", "closed"} <=> fence.who # None)
  /\ worker \in {None, "forked", "exited", "closed"} \cup Live
  /\ reused \in BOOLEAN /\ struck \in BOOLEAN
  /\ alive \subseteq 1 .. lives /\ lives \in Daemon /\ driver \in alive \cup {Nobody}
  /\ owed \subseteq alive \ {driver}
  /\ place \in Place /\ by \in alive \cup {Nobody} /\ (place = None <=> by = Nobody)
  /\ mine \in BOOLEAN /\ (mine => by = driver /\ driver # Nobody)
  /\ drain \in {"idle", "activate", "probe", "signal", "kill", "prove", "finalize"} /\ seen \in Fence
  /\ since \in {"never", "recent", "old"}
  /\ sent \in {None, "graced", "interrupted", "killed"}
  /\ lapses \in 0 .. MaxLapse /\ fails \in 0 .. MaxFail

\* The journal declares an attempt closed only when no worker process of it is left - when
\* its own daemon says so, none of its pipes either.  The one exception is a child forked by
\* an abandoned promise after the fence was closed without it; neither this one nor any that
\* appears later ever gets a goal (appendWorkerOutcome, appendAttemptDrained).
ProofMeansDead ==
  [][/\ proof = None /\ proof' # None =>
          worker' # "working" /\ (worker' \in {"forked", "started"} => fence.phase = "noSpawn")
     /\ proof = None /\ proof' = "local" => worker' \in {None, "closed"}
     /\ worker # "working" /\ worker' = "working" => proof = None]_vars

\* Only the attempt's own worker is ever signalled, though its pid may belong to another
\* process by then (signalV3AttemptWorker).
StrangerSpared == ~struck

\* Nobody who lives drives the run or is asked to, until a restart, a click or a cancel.
Stranded == driver = Nobody /\ owed = {}

\* Every attempt gets its proof in the end, through deaths, failures and workers that ignore
\* SIGINT, unless the last drive of it threw, or nobody was asked for one before it began, and
\* nobody asks again; and no worker outlives its proof for long (drainExternallyOwned, drive,
\* coldAttach).
Drained ==
  /\ (dispatched ~> proof # None) \/ <>[](Stranded /\ lapses > 0)
  /\ proof # None ~> worker \notin {"forked"} \cup Live
=============================================================================
