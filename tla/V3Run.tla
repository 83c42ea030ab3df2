------------------------------- MODULE V3Run -------------------------------
(***************************************************************************)
(* One v3 workflow run: the driver loop of shared-node-runtime.ts          *)
(* `runWorkflow`, the worker promises it starts, the human entry points of *)
(* daemon-run.ts, run cancellation, and crashes of the driving process.    *)
(*                                                                         *)
(* The driver is one JavaScript thread.  Between two awaits nothing of the *)
(* same process can interleave with it; another process (a second daemon,  *)
(* the standalone CLI) can append a cancel request between any two journal *)
(* mutations, and the process can die there.  So every journal mutation is *)
(* one action, `pc` is where the loop is, `cb` is a callback between two   *)
(* of its own mutations, and Quiet says that the thread is at an await.    *)
(***************************************************************************)
EXTENDS V3Orchestrator

CONSTANTS
  RevisitTo,      \* pairs <<n, m>>: n may send the run back to its ancestor m
  Pools,          \* records [nodes, cap]: nodes sharing a bot or CLI slot pool
  GlobalCap,      \* globalConcurrency
  PairLimit,      \* DEFAULT_REVISIT_BUDGET_PER_PAIR
  RunLimit,       \* DEFAULT_REVISIT_BUDGET_PER_RUN
  Foreign,        \* another process may append the cancel request at any moment
  MaxCrash,       \* bound on process deaths
  MaxHuman        \* bound on retries and budget grants

ASSUME RunAssumption ==
  /\ RevisitTo \subseteq Node \X Node
  /\ \A p \in Pools : p.nodes \subseteq Node /\ p.cap \in Nat
  /\ GlobalCap \in Nat /\ PairLimit \in Nat /\ RunLimit \in Nat
  /\ Foreign \in BOOLEAN /\ MaxCrash \in Nat /\ MaxHuman \in Nat

VARIABLES
  snap,      \* materialize(journal)
  open,      \* openV3WorkerAttempts(journal)
  tally,     \* counters over the journal
  alive,     \* worker process groups that exist
  flight,    \* per dispatch key: inFlight promise, controller and its abort reason
  pc,        \* the driver
  plan,      \* actions of this tick not yet carried out
  item,      \* the dispatch between claim and spawn
  todo,      \* attempts being quiesced or drained
  why,       \* the drain reason of todo
  progress,  \* startedThisTick, cancelledThisTick
  cb,        \* a callback between two journal mutations
  signal,    \* opts.cancelSignal.aborted
  kick,      \* somebody asked for a (re-)drive
  approved,  \* history: instances whose gate a human approved
  consumed,  \* history: the instances whose products an instance was given
  spawned,   \* history: attempts that ever had a worker
  crashes, humans

journal == <<snap, open, tally>>
local == <<flight, pc, plan, item, todo, why, progress, cb, signal>>
history == <<approved, consumed, spawned>>
vars == <<journal, alive, local, kick, history, crashes, humans>>

----------------------------------------------------------------------------
NoFlight == [att |-> 0, phase |-> "none", abort |-> "none"]
Phase == {"none", "run", "check"}
Abort == {"none", "run"} \cup DrainReason

NoPlan == {}
NoProgress == [started |-> FALSE, lost |-> FALSE]
AnyNode == First(Node)
NoItem == Act("work", AnyNode, AnyNode, 0)

CbStep == {"none", "verdict", "revisit", "refresh", "drain", "cancelled", "retry"}
NoCb == [step |-> "none", n |-> AnyNode, k |-> 0, a |-> 0, x |-> "none", m |-> AnyNode,
         type |-> "nodeFailed", refresh |-> {}, mine |-> FALSE]
Cb(step, n, k, a) == [NoCb EXCEPT !.step = step, !.n = n, !.k = k, !.a = a, !.mine = TRUE]

InFlight == {key \in Key : flight[key].att # 0}
Busy == Cardinality(InFlight)

\* The awaits of the driver, and no callback half way through its mutations.
Awaits == {"off", "stuck", "wait", "race", "quiesce", "sleep"}
Quiet == pc \in Awaits /\ cb.step = "none"
Driving == pc \notin {"off", "stuck"}
Steps == cb.step = "none"

\* appendEvent: one journal mutation.
Append(e) ==
  /\ snap' = Fold(snap, e)
  /\ open' = Ledger(open, e)
  /\ tally' = Count(tally, e)

Idling == UNCHANGED <<plan, item, todo, why, progress>>
Outside == UNCHANGED <<alive, kick, history, crashes, humans>>

Init ==
  /\ snap = EmptySnapshot /\ open = {} /\ tally = EmptyTally
  /\ alive = {} /\ flight = [key \in Key |-> NoFlight]
  /\ pc = "off" /\ plan = NoPlan /\ item = NoItem /\ todo = {} /\ why = "orphanRecovery"
  /\ progress = NoProgress /\ cb = NoCb /\ signal = FALSE
  /\ kick = TRUE
  /\ approved = {} /\ consumed = [key \in Key |-> {}] /\ spawned = {}
  /\ crashes = 0 /\ humans = 0

----------------------------------------------------------------------------
(* Entering and leaving the loop.                                          *)

\* driveV3Run -> runWorkflow: a fresh process-local state over the same journal.
Drive ==
  /\ pc \in {"off", "stuck"} /\ kick
  /\ pc' = "top" /\ kick' = FALSE
  /\ UNCHANGED <<journal, alive, flight, cb, signal, history, crashes, humans>> /\ Idling

\* runWorkflow returns: its controllers and its cancel signal are gone.
Return ==
  /\ pc' = "off" /\ signal' = FALSE
  /\ plan' = NoPlan /\ progress' = NoProgress
  /\ UNCHANGED <<journal, flight, item, todo, why, cb>> /\ Outside

\* runWorkflow throws "no progress possible"; a re-drive asked for meanwhile is forgotten.
GiveUp ==
  /\ pc' = "stuck" /\ signal' = FALSE /\ kick' = FALSE
  /\ plan' = NoPlan /\ progress' = NoProgress
  /\ UNCHANGED <<journal, flight, item, todo, why, cb, alive, history, crashes, humans>>

Goto(where) == pc' = where /\ UNCHANGED <<flight, cb, signal>>

\* A signal becomes a durable request before anything else is decided.
SignalToJournal ==
  /\ pc = "top" /\ Steps
  /\ signal /\ snap.run \notin TrueTerminal \cup {"cancelling"}
  /\ Append(Ev("runCancelRequested", AnyNode, 0, 0))
  /\ Goto("top") /\ Idling /\ Outside

\* The loop looks further only when the signal needs no request of its own.
Top == pc = "top" /\ Steps /\ ~(signal /\ snap.run \notin TrueTerminal \cup {"cancelling"})

AbortAll(S, reason) ==
  [key \in Key |-> IF key \in S /\ flight[key].att # 0 /\ flight[key].abort = "none"
                   THEN [flight[key] EXCEPT !.abort = reason] ELSE flight[key]]

----------------------------------------------------------------------------
(* Quiescence: abort what this process owns and await it, drain the rest.  *)

Forget == todo' = {} /\ why' = "orphanRecovery"

\* quiesceAttempts
Quiesce(S, reason) ==
  LET own == {key \in Key : flight[key].att # 0 /\ <<key[1], key[2], flight[key].att>> \in S}
  IN /\ flight' = AbortAll(own, reason)
     /\ todo' = IF own # {} THEN {<<key[1], key[2], flight[key].att>> : key \in own} ELSE S
     /\ pc' = IF own # {} THEN "quiesce" ELSE "drain"
     /\ why' = reason
     /\ UNCHANGED <<journal, plan, item, progress, cb, signal>> /\ Outside

\* Promise.allSettled over the aborted promises.
Quiesced ==
  /\ pc = "quiesce" /\ Steps
  /\ \A x \in todo : flight[<<x[1], x[2]>>].att # x[3]
  /\ Goto("top") /\ Forget
  /\ UNCHANGED <<journal, plan, item, progress>> /\ Outside

ProvesClosed(S) ==
  /\ pc = "drain" /\ Steps
  /\ \E x \in S :
       /\ todo' = todo \ {x}
       /\ cb' = [Cb("drain", x[1], x[2], x[3]) EXCEPT !.x = why, !.mine = FALSE]
  /\ UNCHANGED <<journal, flight, pc, plan, item, why, progress, signal>> /\ Outside

\* Mutant: the drain is recorded without a proof that the worker is gone.
DrainUnproven == ProvesClosed(todo)

\* drainExternallyOwnedAttempts: the fence proves the outer process closed; the proof is
\* durable before the fence is removed.  A live worker is killed and left for a later pass.
DrainClosed == ProvesClosed(todo \ alive)

\* Mutant: the pass ends although workers it could not close are left.
DrainPassedEarly ==
  /\ pc = "drain" /\ Steps
  /\ Goto(IF why = "runCancellation" THEN "finalize" ELSE "top") /\ Forget
  /\ UNCHANGED <<journal, plan, item, progress>> /\ Outside

DrainPassed ==
  /\ pc = "drain" /\ Steps
  /\ todo \subseteq alive
  /\ Goto(IF todo # {} THEN "sleep" ELSE IF why = "runCancellation" THEN "finalize" ELSE "top")
  /\ Forget
  /\ UNCHANGED <<journal, plan, item, progress>> /\ Outside

Wake ==
  /\ pc = "sleep" /\ Steps
  /\ Goto("top") /\ Idling /\ UNCHANGED journal /\ Outside

----------------------------------------------------------------------------
(* Cancellation.                                                           *)

\* One locked mutation strikes every node in S.  An attempt-scoped record closes it.
StrikeNodes(S) ==
  /\ snap' = StrikeAll(snap, S, tally.last)
  /\ open' = open \ {<<n, snap.eff[n], tally.last[<<n, snap.eff[n]>>]>> :
                        n \in {o \in S : snap.eff[o] # 0}}
  /\ UNCHANGED tally

\* The cancelling branch: stop the workers, strike what has none, then wait or drain.
Cancelling ==
  /\ Top /\ snap.run = "cancelling"
  /\ StrikeNodes({n \in Node : snap.status[n] \in {"pending", "gateWaiting"}})
  /\ flight' = AbortAll(InFlight, "run")
  /\ pc' = IF InFlight # {} THEN "race" ELSE "drain"
  /\ todo' = IF InFlight # {} THEN {} ELSE open
  /\ why' = "runCancellation"
  /\ UNCHANGED <<plan, item, progress, cb, signal>> /\ Outside

\* finalizeRuntimeCancellation
Finalize ==
  /\ pc = "finalize" /\ Steps
  /\ LET S == {n \in Node : snap.status[n] \in {"pending", "gateWaiting", "running"}}
         struck == StrikeAll(snap, S, tally.last)
     IN /\ snap' = IF snap.run = "cancelling"
                   THEN Fold(struck, Ev("runCancelled", AnyNode, 0, 0)) ELSE snap
        /\ open' = IF snap.run = "cancelling"
                   THEN open \ {<<n, snap.eff[n], tally.last[<<n, snap.eff[n]>>]>> :
                                  n \in {o \in S : snap.eff[o] # 0}}
                   ELSE open
  /\ UNCHANGED tally
  /\ Goto("top") /\ Idling /\ Outside

----------------------------------------------------------------------------
(* The tick.                                                               *)

\* A terminal or blocked run: clean up what an older history left open, then return.
Boundary ==
  /\ Top /\ snap.run \in TrueTerminal \cup {"blocked"}
  /\ IF open # {}
     THEN Quiesce(open, IF snap.run = "blocked" THEN "terminalPeer" ELSE "orphanRecovery")
     ELSE Return

Obsolete == {x \in open : snap.inst[<<x[1], x[2]>>] \in {"cancelled", "superseded"}}
Orphaned == {x \in open : flight[<<x[1], x[2]>>].att # x[3]}

Running == Top /\ snap.run = "running"

DropObsolete == Running /\ Obsolete # {} /\ Quiesce(Obsolete, "obsoleteAttempt")

DropOrphaned ==
  Running /\ Obsolete = {} /\ Orphaned # {} /\ Quiesce(Orphaned, "orphanRecovery")

Decide ==
  /\ Running /\ Obsolete = {} /\ Orphaned = {}
  /\ IF TerminalEvent(snap) # {}
     THEN IF open # {} THEN Quiesce(open, "terminalPeer")
          ELSE Goto("publish") /\ Idling /\ UNCHANGED journal /\ Outside
     ELSE /\ plan' = IF Controls(snap) # {} THEN Controls(snap) ELSE Plan(snap)
          /\ Goto(IF Controls(snap) # {} THEN "control" ELSE "dispatch")
          /\ progress' = NoProgress
          /\ UNCHANGED <<journal, item, todo, why>> /\ Outside

\* appendRunTerminalIfQuiescent re-derives the boundary under the journal lock.
Publish ==
  /\ pc = "publish" /\ Steps
  /\ IF snap.run = "running" /\ open = {}
     THEN \E e \in TerminalEvent(snap) : Append(e)
     ELSE UNCHANGED journal
  /\ Goto("top") /\ Idling /\ Outside

\* applyResolveEdge: the source's result.json decides the edge of its live instance.
ResolveEdge ==
  /\ pc = "control" /\ Steps
  /\ \E act \in plan, verdict \in {"active", "inactive"} :
       /\ act.kind = "edge"
       /\ Append(EvM("edgeResolved", act.m, snap.eff[act.m], 0, act.n, verdict))
       /\ plan' = plan \ {act}
  /\ UNCHANGED <<flight, pc, item, todo, why, progress, cb, signal>> /\ Outside

SkipNode ==
  /\ pc = "control" /\ Steps
  /\ \E act \in plan :
       /\ act.kind = "skip"
       /\ Append(Ev("nodeSkipped", act.n, 0, 0))
       /\ plan' = plan \ {act}
  /\ UNCHANGED <<flight, pc, item, todo, why, progress, cb, signal>> /\ Outside

Controlled ==
  /\ pc = "control" /\ Steps /\ plan = {}
  /\ Goto("top") /\ Idling /\ UNCHANGED journal /\ Outside

----------------------------------------------------------------------------
(* Dispatch, in topological order, under the concurrency caps.             *)

Starts == {act \in plan : act.kind \in {"gate", "work"}}
NextStart(act) == act \in Starts /\ \A other \in Starts : Rank[act.n] <= Rank[other.n]

\* Mutant: one slot too many.
PoolNearlyFree(n) ==
  \A p \in Pools : n \in p.nodes => Cardinality({key \in InFlight : key[1] \in p.nodes}) <= p.cap

PoolFree(n) ==
  \A p \in Pools : n \in p.nodes => Cardinality({key \in InFlight : key[1] \in p.nodes}) < p.cap

\* claimDispatch: the lock re-checks that nothing overtook the decision.
Claimable(n) == snap.run = "running" /\ snap.status[n] = "pending"

\* The products handed to an instance: those of the live instances of its active inputs.
Inputs(n) == {<<m, snap.eff[m]>> : m \in With(snap, n, {"active"})}

ClaimWork ==
  /\ pc = "dispatch" /\ Steps /\ Busy < GlobalCap
  /\ \E act \in plan :
       /\ NextStart(act) /\ act.kind = "work" /\ PoolFree(act.n) /\ Claimable(act.n)
       /\ LET a == NextAttempt(tally, act.n, act.k)
          IN Append(Ev("nodeDispatched", act.n, act.k, a))
       /\ consumed' = [consumed EXCEPT ![<<act.n, act.k>>] = Inputs(act.n)]
       /\ item' = act
       /\ plan' = plan \ {act}
  /\ pc' = "arm"
  /\ UNCHANGED <<flight, todo, why, progress, cb, signal, alive, kick, approved, spawned,
                 crashes, humans>>

ClaimGate ==
  /\ pc = "dispatch" /\ Steps /\ Busy < GlobalCap
  /\ \E act \in plan :
       /\ NextStart(act) /\ act.kind = "gate" /\ Claimable(act.n)
       /\ Append(Ev("gateDispatched", act.n, act.k, 0))
       /\ plan' = plan \ {act}
  /\ progress' = [progress EXCEPT !.started = TRUE]
  /\ UNCHANGED <<flight, pc, item, todo, why, cb, signal>> /\ Outside

\* A full slot pool or a lost claim leaves the node for a later tick.
PassOver ==
  /\ pc = "dispatch" /\ Steps /\ Busy < GlobalCap
  /\ \E act \in plan :
       /\ NextStart(act)
       /\ ~Claimable(act.n) \/ (act.kind = "work" /\ ~PoolFree(act.n))
       /\ plan' = plan \ {act}
  /\ UNCHANGED <<journal, flight, pc, item, todo, why, progress, cb, signal>> /\ Outside

Dispatched ==
  /\ pc = "dispatch" /\ Steps /\ (Starts = {} \/ Busy >= GlobalCap)
  /\ plan' = plan \ Starts
  /\ Goto("losers")
  /\ UNCHANGED <<journal, item, todo, why, progress>> /\ Outside

ItemAttempt == <<item.n, item.k, tally.last[<<item.n, item.k>>]>>
Started == progress' = [progress EXCEPT !.started = TRUE]

ArmIf(maySpawn) ==
  /\ pc = "arm" /\ Steps
  /\ Append(Ev("nodeWorkerFenceArmed", item.n, item.k, ItemAttempt[3]))
  /\ IF maySpawn
     THEN /\ flight' = [flight EXCEPT ![<<item.n, item.k>>] =
                          [att |-> ItemAttempt[3], phase |-> "run",
                           abort |-> IF signal THEN "run" ELSE "none"]]
          /\ alive' = alive \cup {ItemAttempt}
          /\ spawned' = spawned \cup {ItemAttempt}
     ELSE UNCHANGED <<flight, alive, spawned>>
  /\ Started /\ item' = NoItem /\ pc' = "dispatch"
  /\ UNCHANGED <<plan, todo, why, cb, signal, kick, approved, consumed, crashes, humans>>

\* Mutant: the worker starts whatever happened since the claim.
ArmAnyway == ArmIf(TRUE)

\* The lease is acquired and recorded; the worker starts only if no cancel got in between.
Arm == ArmIf(snap.run = "running")

\* The lease could not be acquired or recorded: WORKER_FENCE_ARM_FAILED.
ArmFailed ==
  /\ pc = "arm" /\ Steps
  /\ Append(Ev("nodeFailed", item.n, item.k, ItemAttempt[3]))
  /\ Started /\ item' = NoItem /\ pc' = "dispatch"
  /\ UNCHANGED <<flight, plan, todo, why, cb, signal>> /\ Outside

\* applyCancelNode: the early-release loser, re-read before it is struck.
CancelLoser ==
  /\ pc = "losers" /\ Steps
  /\ \E act \in plan :
       /\ plan' = plan \ {act}
       /\ IF snap.status[act.n] \in {"pending", "gateWaiting", "running"}
          THEN LET k == snap.eff[act.n]
                   a == IF k = 0 THEN 0 ELSE tally.last[<<act.n, k>>]
               IN /\ Append(EvX("nodeCancelled", act.n, k, a, "loser"))
                  /\ flight' = AbortAll({<<act.n, k>>}, "obsoleteAttempt")
                  /\ progress' = [progress EXCEPT !.lost = TRUE]
          ELSE UNCHANGED <<journal, flight, progress>>
  /\ UNCHANGED <<pc, item, todo, why, cb, signal>> /\ Outside

Waiting == {n \in Node : snap.status[n] = "gateWaiting"}

\* The end of the tick: again, wait for a settle, hand over to a human, or give up.
EndTick ==
  /\ pc = "losers" /\ Steps /\ plan = {}
  /\ IF progress.lost \/ (InFlight = {} /\ progress.started)
     THEN Goto("top") /\ Idling /\ UNCHANGED journal /\ Outside
     ELSE IF InFlight # {}
     THEN Goto("wait") /\ Idling /\ UNCHANGED journal /\ Outside
     ELSE IF Waiting = {} THEN GiveUp
     ELSE IF open # {} THEN Quiesce(open, "orphanRecovery")
     ELSE Return

\* waitForInFlightOrDurableCancellation polls the journal and listens to the signal.
NoticeCancel ==
  /\ pc = "wait" /\ Steps /\ (signal \/ snap.run = "cancelling")
  /\ Goto("top") /\ Idling /\ UNCHANGED journal /\ Outside

----------------------------------------------------------------------------
(* The worker promise (startWork's .then/.catch/.finally chain).           *)

WorkerExit ==
  /\ \E x \in alive : alive' = alive \ {x}
  /\ UNCHANGED <<journal, local, kick, history, crashes, humans>>

Result == {"ok", "cancelled", "throw"}
CancelActive == signal \/ snap.run = "cancelling"

Verdict(n, k, a, type, code) == [Cb("verdict", n, k, a) EXCEPT !.type = type, !.x = code]
DrainProof(n, k, a, reason) == [Cb("drain", n, k, a) EXCEPT !.x = reason]

\* runNode settled: a drain or a cancel ends the attempt here; otherwise the manifest is
\* validated, behind an await.
Settle ==
  /\ Quiet /\ Driving
  /\ \E n \in Node, k \in Inst, result \in Result :
       LET f == flight[<<n, k>>]
       IN /\ f.phase = "run" /\ <<n, k, f.att>> \notin alive
          /\ IF f.abort \in DrainReason
             THEN cb' = DrainProof(n, k, f.att, f.abort) /\ UNCHANGED flight
             ELSE IF \/ result = "cancelled" /\ ~CancelActive
                     \/ result = "throw" /\ snap.run # "cancelling"
             THEN cb' = Verdict(n, k, f.att, "nodeFailed", "none") /\ UNCHANGED flight
             ELSE IF CancelActive
             THEN cb' = DrainProof(n, k, f.att, "runCancellation") /\ UNCHANGED flight
             ELSE /\ flight' = [flight EXCEPT ![<<n, k>>].phase = "check"]
                  /\ UNCHANGED cb
  /\ UNCHANGED <<journal, pc, plan, item, todo, why, progress, signal>> /\ Outside

Finds == {"done", "failed", "blocked", "reviseWorkflow", "revisit", "throw"}

\* Mutant: the revisited node alone.
AffectedTarget(m) == {m}

\* affectedNodesFrom: the node and everything reachable from it.
Affected(m) ==
  {n \in Node : \A S \in SUBSET Node :
     (m \in S /\ \A d \in Dep : d[1] \in S => d[2] \in S) => n \in S}

\* revisitBudgetStatus
BudgetOk(n, m) ==
  /\ tally.used[<<n, m>>] < PairLimit + tally.granted[<<n, m>>]
  /\ tally.runUsed < RunLimit + tally.runGranted

RevisitCb(n, k, a, m) ==
  [Cb("revisit", n, k, a) EXCEPT
     !.m = m, !.refresh = {o \in Affected(m) : snap.eff[o] # 0}]

BudgetCb(n, k, a, m) == [Verdict(n, k, a, "nodeBlocked", "budget") EXCEPT !.m = m]

\* MaxInst bounds the model: nobody asks for a refresh there is no room for.
Room(m) == \A o \in Affected(m) : snap.eff[o] # 0 => NextInstance(snap, o) <= MaxInst

\* What the manifest says decides what is appended.  Only the error path looks at the
\* drain reason and at the cancel again.
Judgement(find, n, k, f, m) ==
  CASE find = "done" -> Verdict(n, k, f.att, "nodeSucceeded", "none")
    [] find = "failed" -> Verdict(n, k, f.att, "nodeFailed", "none")
    [] find = "blocked" -> Verdict(n, k, f.att, "nodeBlocked", "plain")
    [] find = "reviseWorkflow" -> Verdict(n, k, f.att, "nodeBlocked", "reviseWorkflow")
    [] find = "revisit" -> IF <<n, m>> \notin RevisitTo THEN Verdict(n, k, f.att, "nodeBlocked", "plain")
                           ELSE IF BudgetOk(n, m) THEN RevisitCb(n, k, f.att, m)
                           ELSE BudgetCb(n, k, f.att, m)
    [] find = "throw" -> IF f.abort \in DrainReason THEN DrainProof(n, k, f.att, f.abort)
                         ELSE IF snap.run = "cancelling" THEN DrainProof(n, k, f.att, "runCancellation")
                         ELSE Verdict(n, k, f.att, "nodeFailed", "none")

\* validateManifest answered: the verdict is appended, or the run is sent back.
Judge ==
  /\ Quiet /\ Driving
  /\ \E n \in Node, k \in Inst, find \in Finds, m \in Node :
       /\ flight[<<n, k>>].phase = "check"
       /\ IF find = "revisit" THEN BudgetOk(n, m) => Room(m) ELSE m = n
       /\ cb' = Judgement(find, n, k, flight[<<n, k>>], m)
  /\ UNCHANGED <<journal, flight, pc, plan, item, todo, why, progress, signal>> /\ Outside

\* Mutant: the settled promise does not wake the loop.
FinallyNoWake ==
  /\ cb' = NoCb
  /\ flight' = IF cb.mine THEN [flight EXCEPT ![<<cb.n, cb.k>>] = NoFlight] ELSE flight
  /\ UNCHANGED <<pc, plan, item, todo, why, progress, signal>> /\ Outside

\* .finally: the slots and the in-flight entry are released, an awaiting loop wakes.
Finally ==
  /\ cb' = NoCb
  /\ IF cb.mine
     THEN /\ flight' = [flight EXCEPT ![<<cb.n, cb.k>>] = NoFlight]
          /\ pc' = IF pc \in {"wait", "race"} THEN "top" ELSE pc
     ELSE UNCHANGED <<flight, pc>>
  /\ UNCHANGED <<plan, item, todo, why, progress, signal>> /\ Outside

CbEvent(type) == EvM(type, cb.n, cb.k, cb.a, cb.m, cb.x)

CbVerdict == cb.step = "verdict" /\ Append(CbEvent(cb.type)) /\ Finally

\* appendAttemptDrained: only an open attempt is drained; the third orphan recovery of an
\* instance that is still running blocks the node instead.
OrphanExhausted ==
  /\ cb.x = "orphanRecovery"
  /\ tally.orphans[<<cb.n, cb.k>>] >= 2
  /\ snap.run = "running" /\ snap.inst[<<cb.n, cb.k>>] = "running"
  /\ tally.last[<<cb.n, cb.k>>] = cb.a

CbDrain ==
  /\ cb.step = "drain"
  /\ IF <<cb.n, cb.k, cb.a>> \notin open THEN UNCHANGED journal
     ELSE IF OrphanExhausted THEN Append(EvX("nodeBlocked", cb.n, cb.k, cb.a, "orphan"))
     ELSE Append(CbEvent("nodeAttemptDrained"))
  /\ IF cb.x = "runCancellation"
     THEN /\ cb' = [cb EXCEPT !.step = "cancelled"]
          /\ UNCHANGED <<flight, pc, plan, item, todo, why, progress, signal>> /\ Outside
     ELSE Finally

\* appendCancelledAttempt; the drain pass asks for it only when the instance is running.
CbCancelled ==
  /\ cb.step = "cancelled"
  /\ IF /\ snap.run = "cancelling" /\ snap.inst[<<cb.n, cb.k>>] # "cancelled"
        /\ cb.mine \/ snap.inst[<<cb.n, cb.k>>] = "running"
     THEN Append(EvX("nodeCancelled", cb.n, cb.k, cb.a, "runCancellation"))
     ELSE UNCHANGED journal
  /\ Finally

\* appendRevisitEvents: the request, then one record per affected node, the target first.
Refreshing(rest) ==
  cb' = IF rest = {} THEN [cb EXCEPT !.step = "drain", !.x = "obsoleteAttempt", !.refresh = {}]
        ELSE [cb EXCEPT !.step = "refresh", !.refresh = rest]

CbRevisit ==
  /\ cb.step = "revisit"
  /\ Append(CbEvent("nodeRevisitRequested"))
  /\ Refreshing(cb.refresh)
  /\ UNCHANGED <<flight, pc, plan, item, todo, why, progress, signal>> /\ Outside

CbRefresh ==
  /\ cb.step = "refresh"
  /\ LET n == First(cb.refresh)
         k == snap.eff[n]
     IN /\ Append(EvM("nodeInstanceSuperseded", n, k, 0, cb.m, "none"))
        /\ flight' = AbortAll({<<n, k>>}, "obsoleteAttempt")
        /\ Refreshing(cb.refresh \ {n})
  /\ UNCHANGED <<pc, plan, item, todo, why, progress, signal>> /\ Outside

----------------------------------------------------------------------------
(* Humans and other processes.                                             *)

Click(drive) ==
  /\ Quiet /\ snap.run = "running"
  /\ \E n \in Node, choice \in {"approved", "rejected"} :
       /\ snap.status[n] = "gateWaiting"
       /\ Append(EvX("gateResolved", n, snap.eff[n], 0, choice))
       /\ approved' = IF choice = "approved" THEN approved \cup {<<n, snap.eff[n]>>} ELSE approved
  /\ kick' = drive
  /\ UNCHANGED <<alive, local, consumed, spawned, crashes, humans>>

\* Mutant: the click is recorded and nobody drives the run.
ClickOnly == Click(kick)

\* resolveV3GateClick: the card must be of the live instance and still wait.
GateClick == Click(TRUE)

\* requestV3Retry on a blocked node: a new attempt of the same instance is reserved.
CanRetry(n) ==
  /\ snap.status[n] = "blocked" /\ snap.eff[n] # 0
  /\ tally.last[<<n, snap.eff[n]>>] # 0
  /\ tally.block[n].code # "reviseWorkflow"

RetryEvent(n) ==
  Ev("nodeRetryRequested", n, snap.eff[n], NextAttempt(tally, n, snap.eff[n]))

Retry ==
  /\ Quiet /\ humans < MaxHuman
  /\ \E n \in Node : CanRetry(n) /\ Append(RetryEvent(n))
  /\ kick' = TRUE /\ humans' = humans + 1
  /\ UNCHANGED <<alive, local, history, crashes>>

\* requestRevisitGrant: one more revisit for the pair or the run, unless an earlier call
\* died after granting it; then the retry, as a second append.
GrantRevisit ==
  /\ Quiet /\ humans < MaxHuman
  /\ \E n \in snap.blockedNode, scope \in {"pair", "run"} :
       /\ tally.block[n].code = "budget"
       /\ IF BudgetOk(n, tally.block[n].to) THEN UNCHANGED journal
          ELSE Append(EvM("revisitBudgetGranted", n, 0, 0, tally.block[n].to, scope))
       /\ cb' = [NoCb EXCEPT !.step = "retry", !.n = n]
  /\ humans' = humans + 1
  /\ UNCHANGED <<flight, pc, plan, item, todo, why, progress, signal, alive, kick, history, crashes>>

CbRetry ==
  /\ cb.step = "retry"
  /\ IF CanRetry(cb.n) THEN Append(RetryEvent(cb.n)) ELSE UNCHANGED journal
  /\ kick' = TRUE
  /\ cb' = NoCb
  /\ UNCHANGED <<flight, pc, plan, item, todo, why, progress, signal, alive, history, crashes, humans>>

\* requestV3RunCancel by the owning daemon: persisted, then signalled to this process.
CancelAnd(drive) ==
  /\ Quiet /\ snap.run \notin TrueTerminal \cup {"cancelling"}
  /\ Append(Ev("runCancelRequested", AnyNode, 0, 0))
  /\ signal' = Driving
  /\ flight' = AbortAll(InFlight, "run")
  /\ kick' = drive
  /\ UNCHANGED <<pc, plan, item, todo, why, progress, cb, alive, history, crashes, humans>>

\* Mutant: only a run that is being driven is driven to its cancellation.
CancelOnly == CancelAnd(kick)

Cancel == CancelAnd(TRUE)

\* The same by another process: only the journal knows.
ForeignCancel ==
  /\ Foreign /\ snap.run \notin TrueTerminal \cup {"cancelling"}
  /\ Append(Ev("runCancelRequested", AnyNode, 0, 0))
  /\ UNCHANGED <<alive, local, kick, history, crashes, humans>>

\* A caller of runWorkflow aborts its signal without a request.
BareAbort ==
  /\ Quiet /\ Driving /\ ~signal
  /\ signal' = TRUE
  /\ flight' = AbortAll(InFlight, "run")
  /\ UNCHANGED <<journal, pc, plan, item, todo, why, progress, cb>> /\ Outside

\* The process dies; the workers live on.  A new process drives the run again.
Crash ==
  /\ crashes < MaxCrash /\ (Driving \/ ~Steps)
  /\ crashes' = crashes + 1
  /\ flight' = [key \in Key |-> NoFlight]
  /\ pc' = "off" /\ plan' = NoPlan /\ item' = NoItem /\ todo' = {} /\ why' = "orphanRecovery"
  /\ progress' = NoProgress /\ cb' = NoCb /\ signal' = FALSE
  /\ kick' = TRUE
  /\ UNCHANGED <<journal, alive, history, humans>>

----------------------------------------------------------------------------
Tick ==
  \/ SignalToJournal \/ Cancelling \/ Finalize
  \/ Boundary \/ DropObsolete \/ DropOrphaned \/ Decide \/ Publish
  \/ Quiesced \/ DrainClosed \/ DrainPassed \/ Wake
  \/ ResolveEdge \/ SkipNode \/ Controlled
  \/ ClaimWork \/ ClaimGate \/ PassOver \/ Dispatched \/ Arm \/ ArmFailed
  \/ CancelLoser \/ EndTick \/ NoticeCancel

Callback ==
  CbVerdict \/ CbDrain \/ CbCancelled \/ CbRevisit \/ CbRefresh \/ CbRetry

Promises == Settle \/ Judge
Human == GateClick \/ Retry \/ GrantRevisit
Environment == Cancel \/ ForeignCancel \/ BareAbort \/ Crash

Next == Drive \/ Tick \/ Callback \/ Promises \/ WorkerExit \/ Human \/ Environment

Spec == Init /\ [][Next]_vars

\* The event loop runs ready callbacks and the driver; a worker ends (timeoutSec, or it is
\* killed by the drain); a requested drive starts.  Humans and crashes owe nothing.
Fairness ==
  /\ WF_vars(Drive) /\ WF_vars(Tick) /\ WF_vars(Callback) /\ WF_vars(Promises)
  /\ WF_vars(WorkerExit)

FairSpec == Spec /\ Fairness

----------------------------------------------------------------------------
TypeOK ==
  /\ snap \in Snapshot /\ open \subseteq Attempt /\ tally \in Tally
  /\ alive \subseteq Attempt
  /\ flight \in [Key -> [att : Nat, phase : Phase, abort : Abort]]
  /\ pc \in {"off", "stuck", "top", "control", "dispatch", "arm", "losers", "publish",
             "quiesce", "drain", "finalize", "race", "sleep", "wait"}
  /\ plan \subseteq Action /\ item \in Action
  /\ todo \subseteq Attempt /\ why \in DrainReason
  /\ progress \in [started : BOOLEAN, lost : BOOLEAN]
  /\ cb \in [step : CbStep, n : Node, k : 0 .. MaxInst, a : Nat, x : Detail, m : Node,
             type : EventType, refresh : SUBSET Node, mine : BOOLEAN]
  /\ signal \in BOOLEAN /\ kick \in BOOLEAN
  /\ approved \subseteq Key /\ consumed \in [Key -> SUBSET (Node \X (0 .. MaxInst))]
  /\ spawned \subseteq Attempt
  /\ crashes \in Nat /\ humans \in Nat

(* A run is shown finished or blocked only when the ledger has closed every attempt *)
(* (appendRunTerminalIfQuiescent, finalizeRuntimeCancellation), whatever crashed or *)
(* was cancelled on the way.                                                        *)
TerminalQuiescent == snap.run \in TrueTerminal \cup {"blocked"} => open = {}

(* No worker process is ever forgotten: what runs on the machine is in the ledger,  *)
(* from before its spawn until the proof that it closed.                            *)
WorkerAccounted == alive \subseteq open

(* Revisits, retries and orphan recoveries never leave two workers of one node      *)
(* running side by side.                                                            *)
OneWorkerPerNode == \A x, y \in alive : x[1] = y[1] => x = y

(* The slot pools and the global cap bound the workers on the machine, not only     *)
(* those this process started: workers that outlive their driver are drained before *)
(* a new one takes their slot.                                                      *)
SlotsHold ==
  /\ Cardinality(alive) <= GlobalCap
  /\ \A p \in Pools : Cardinality({x \in alive : x[1] \in p.nodes}) <= p.cap

(* An attempt directory is used once: no crash, retry or drain makes the runtime    *)
(* hand the same attempt number to a second worker.                                 *)
AttemptUsedOnce == [][\A x \in alive' \ alive : x \notin spawned]_vars

(* A gated node works only under an approval given to that very instance: an        *)
(* approval does not outlive a refresh of the node.                                 *)
GateBeforeWork == \A x \in spawned : x[1] \in Gated => <<x[1], x[2]>> \in approved

(* In a succeeded run no finished node was built from a product that a later        *)
(* revisit replaced ("every result derived from it is stale").                      *)
FreshInputs ==
  snap.run = "succeeded" =>
    \A n \in Node : snap.status[n] = "done" =>
      \A input \in consumed[<<n, snap.eff[n]>>] : snap.eff[input[1]] = input[2]

(* When every node has been decided, a node that was skipped really could not have  *)
(* run: its trigger rule is out of reach of the verdicts of the live instances.     *)
Decided == \A n \in Node : snap.status[n] \in {"done", "skipped", "cancelled"}

SkipJustified ==
  snap.run \in {"succeeded", "failed"} /\ Decided =>
    \A n \in Node : snap.status[n] = "skipped" =>
      Cardinality({m \in Upstream(n) : Activity(snap, m, n) # "inactive"}) < Required(n)

(* The cancel request is a cut: from there the run only moves to cancelled, and no  *)
(* late verdict, click or control event changes a node except to cancel it.         *)
CutIsFinal ==
  [][Cut(snap) =>
       /\ Cut(snap')
       /\ \A n \in Node : snap'.status[n] \in {snap.status[n], "cancelled"}]_vars

(* An attempt that lost an early release is out of the race: nothing its late       *)
(* settle appends changes the state of any node.                                    *)
LoserStaysOut ==
  [][cb.step # "none" /\ cb.mine /\ snap.inst[<<cb.n, cb.k>>] = "cancelled"
       => snap'.status = snap.status]_vars

(* A blocked run names a node whose latest attempt a retry can still replace.       *)
BlockedIsRecoverable ==
  snap.run = "blocked" =>
    \E n \in Node : /\ snap.blockedNode = {n} /\ snap.status[n] = "blocked"
                     /\ snap.eff[n] # 0 /\ tally.last[<<n, snap.eff[n]>>] > 0

(* "a correct decideNext never gets here": the driver never finds itself with       *)
(* nothing running, nothing to start and no human to wait for.                      *)
NeverStuck == pc # "stuck"

(* When nobody drives the run any more, it is finished, blocked on a human's retry  *)
(* or waiting for a human's approval: no progress was left behind.                  *)
NoStall ==
  pc = "off" /\ ~kick /\ Steps => snap.run \in TrueTerminal \cup {"blocked"} \/ Waiting # {}

(* Every drive ends.                                                                *)
DriveEnds == Driving ~> ~Driving

(* A cancel request is always carried out, although workers, crashes and half       *)
(* finished verdicts are in its way.                                                *)
CancelConverges == snap.run = "cancelling" ~> snap.run = "cancelled"

(* The run keeps the promises of V3Lifecycle.                                       *)
Lifecycle == INSTANCE V3Lifecycle
  WITH Worker <- Attempt, run <- snap.run, live <- alive, used <- spawned
ImplementsLifecycle == Lifecycle!Spec
=============================================================================
