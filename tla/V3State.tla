------------------------------ MODULE V3State ------------------------------
(***************************************************************************)
(* The folded journal of one v3 workflow run: what workflows/v3/state.ts   *)
(* `materialize` computes from the events, what attempt-ledger.ts says of  *)
(* open worker attempts, and the counters the runtime derives from the     *)
(* same events (attempt numbers, orphan recoveries, revisit budget).       *)
(*                                                                         *)
(* The program replays the whole file at every read.  Each fold is a left  *)
(* fold, so the state after one more event is a function of the state      *)
(* before it and of the event: that function is what this module defines.  *)
(*                                                                         *)
(* Scope: plain goal nodes, each running as an instance `A#001`, `A#002`.. *)
(* with numbered attempts.  Host effects and structured loops have events  *)
(* of their own and are not part of this fold.                             *)
(***************************************************************************)
EXTENDS Naturals, FiniteSets

CONSTANTS
  Node,      \* definition nodes of the frozen DAG
  MaxInst    \* bound on the instances of one node

ASSUME StateAssumption == Node # {} /\ MaxInst \in Nat \ {0}

Inst == 1 .. MaxInst
Key == Node \X Inst           \* a runtime instance: `A#002` is <<"A", 2>>
Attempt == Node \X Inst \X Nat

NodeStatus == {"pending", "gateWaiting", "running", "done", "failed", "blocked",
               "skipped", "cancelled"}
InstStatus == NodeStatus \cup {"absent", "superseded"}
RunStatus == {"running", "blocked", "cancelling", "succeeded", "failed", "cancelled"}
TrueTerminal == {"succeeded", "failed", "cancelled"}
DrainReason == {"runCancellation", "obsoleteAttempt", "orphanRecovery", "terminalPeer"}
BlockCode == {"none", "plain", "reviseWorkflow", "budget", "orphan"}

EventType ==
  {"nodeDispatched", "nodeWorkerFenceArmed", "nodeSucceeded", "nodeFailed", "nodeBlocked",
   "nodeRetryRequested", "nodeRevisitRequested", "nodeInstanceSuperseded",
   "revisitBudgetGranted", "gateDispatched", "gateResolved", "edgeResolved", "nodeSkipped",
   "nodeCancelled", "nodeAttemptDrained", "runCancelRequested", "runCancelled",
   "runSucceeded", "runFailed", "runBlocked"}

Detail == DrainReason \cup BlockCode
            \cup {"approved", "rejected", "active", "inactive", "loser", "pair", "run"}

\* One record shape for every event: n, k, a name the attempt (k = 0: no instance,
\* a = 0: no attempt), m a second node, x the part of the payload the folds read.
Event == [type : EventType, n : Node, k : 0 .. MaxInst, a : Nat, m : Node, x : Detail]

Ev(type, n, k, a) == [type |-> type, n |-> n, k |-> k, a |-> a, m |-> n, x |-> "none"]
EvX(type, n, k, a, x) == [type |-> type, n |-> n, k |-> k, a |-> a, m |-> n, x |-> x]
EvM(type, n, k, a, m, x) == [type |-> type, n |-> n, k |-> k, a |-> a, m |-> m, x |-> x]

----------------------------------------------------------------------------
(* materialize: the scheduling snapshot.                                   *)

Snapshot ==
  [run : RunStatus,
   blockedNode : SUBSET Node,                     \* blockedNodeId: empty or one node
   status : [Node -> NodeStatus],                 \* the node view
   eff : [Node -> 0 .. MaxInst],                  \* effectiveInstanceId, 0: none
   cleared : [Node -> BOOLEAN],                   \* gateCleared
   inst : [Key -> InstStatus],                    \* the instance view
   att : [Key -> Nat],                            \* attempts: dispatched or reserved number
   edge : [Key \X Node -> {"unresolved", "active", "inactive"}],
   struck : SUBSET Attempt,                       \* cancelledAttempts, attempt 0: any
   resolved : SUBSET Key]                         \* resolvedWaitIds

EmptySnapshot ==
  [run |-> "running", blockedNode |-> {},
   status |-> [n \in Node |-> "pending"], eff |-> [n \in Node |-> 0],
   cleared |-> [n \in Node |-> FALSE],
   inst |-> [key \in Key |-> "absent"], att |-> [key \in Key |-> 0],
   edge |-> [e \in Key \X Node |-> "unresolved"],
   struck |-> {}, resolved |-> {}]

\* The durable cancel request is in the journal.
Cut(s) == s.run \in {"cancelling", "cancelled"}

\* The only events that still act after the cut.
PastCut == {"runCancelRequested", "nodeCancelled", "nodeAttemptDrained", "runCancelled"}

Settled(s, n) == s.status[n] \in {"done", "skipped", "cancelled", "failed", "blocked"}

CancelledCovers(s, n, k, a) == <<n, k, 0>> \in s.struck \/ <<n, k, a>> \in s.struck

\* recordInstance for a settle: a superseded instance is frozen, and only the effective
\* instance shows on the node.
Record(s, n, k, status) ==
  IF s.inst[<<n, k>>] = "superseded" THEN s
  ELSE [s EXCEPT !.inst[<<n, k>>] = status,
                 !.status[n] = IF s.eff[n] = k THEN status ELSE @]

\* recordInstance for a dispatch: the instance becomes the effective one.
RecordEffective(s, n, k, status) ==
  IF s.inst[<<n, k>>] = "superseded" THEN s
  ELSE [s EXCEPT !.inst[<<n, k>>] = status, !.status[n] = status, !.eff[n] = k]

Unblock(s) == IF s.run = "blocked" THEN [s EXCEPT !.run = "running", !.blockedNode = {}] ELSE s

OnDispatched(s, e) ==
  IF s.inst[<<e.n, e.k>>] = "cancelled" THEN s
  ELSE [RecordEffective(s, e.n, e.k, "running") EXCEPT !.att[<<e.n, e.k>>] = e.a]

\* Mutant: a settle does not look whether its attempt was struck.
OnSettleLate(s, e, status) == Record(s, e.n, e.k, status)

OnSettle(s, e, status) ==
  IF CancelledCovers(s, e.n, e.k, e.a) THEN s ELSE Record(s, e.n, e.k, status)

\* Mutant: the retry leaves the run blocked.
OnRetryStaysBlocked(s, e) ==
  [s EXCEPT !.status[e.n] = "pending", !.inst[<<e.n, e.k>>] = "pending", !.att[<<e.n, e.k>>] = e.a]

\* A retry is a new attempt inside the same instance; it re-opens a blocked run.
OnRetry(s, e) ==
  Unblock([s EXCEPT !.status[e.n] = "pending",
                    !.inst[<<e.n, e.k>>] = "pending",
                    !.att[<<e.n, e.k>>] = e.a])

\* Mutant: the gate approval of the refreshed node is kept.
OnSupersededStillApproved(s, e) ==
  LET live == s.eff[e.n] = e.k
      t == [s EXCEPT !.inst[<<e.n, e.k>>] = "superseded",
                     !.status[e.n] = IF live THEN "pending" ELSE @,
                     !.eff[e.n] = IF live THEN 0 ELSE @]
  IN IF e.n \in s.blockedNode THEN Unblock(t) ELSE t

\* The live instance of a refreshed node is forgotten, with its gate approval.
OnSuperseded(s, e) ==
  LET live == s.eff[e.n] = e.k
      t == [s EXCEPT !.inst[<<e.n, e.k>>] = "superseded",
                     !.status[e.n] = IF live THEN "pending" ELSE @,
                     !.eff[e.n] = IF live THEN 0 ELSE @,
                     !.cleared[e.n] = IF live THEN FALSE ELSE @]
  IN IF e.n \in s.blockedNode THEN Unblock(t) ELSE t

OnGateDispatched(s, e) ==
  IF <<e.n, e.k>> \in s.resolved \/ s.status[e.n] = "cancelled" THEN s
  ELSE [s EXCEPT !.inst[<<e.n, e.k>>] = "gateWaiting", !.status[e.n] = "gateWaiting",
                 !.eff[e.n] = e.k]

\* The first resolution of a wait wins; it shows on the node only for the live instance.
OnGateResolved(s, e) ==
  LET status == IF e.x = "approved" THEN "pending" ELSE "failed"
      t == [s EXCEPT !.resolved = @ \cup {<<e.n, e.k>>}]
  IN IF <<e.n, e.k>> \in s.resolved THEN s
     ELSE IF s.status[e.n] = "cancelled" THEN t
     ELSE [t EXCEPT !.inst[<<e.n, e.k>>] = status,
                    !.status[e.n] = IF s.eff[e.n] = e.k THEN status ELSE @,
                    !.cleared[e.n] = IF s.eff[e.n] = e.k /\ e.x = "approved" THEN TRUE ELSE @]

\* A verdict belongs to the source instance; the first one wins.
OnEdgeResolved(s, e) ==
  IF s.edge[<<<<e.n, e.k>>, e.m>>] # "unresolved" THEN s
  ELSE [s EXCEPT !.edge[<<<<e.n, e.k>>, e.m>>] = e.x]

OnSkipped(s, e) == IF Settled(s, e.n) THEN s ELSE [s EXCEPT !.status[e.n] = "skipped"]

OnCancelled(s, e) ==
  IF Settled(s, e.n) THEN s
  ELSE IF e.k = 0 THEN [s EXCEPT !.status[e.n] = "cancelled"]
  ELSE Record([s EXCEPT !.struck = @ \cup {<<e.n, e.k, e.a>>}], e.n, e.k, "cancelled")

\* Mutant: a drained attempt is forgotten together with its instance.
OnDrainedForgets(s, e) ==
  IF s.att[<<e.n, e.k>>] = e.a /\ s.inst[<<e.n, e.k>>] = "running"
  THEN [s EXCEPT !.inst[<<e.n, e.k>>] = "absent", !.status[e.n] = "absent"] ELSE s

\* A drained attempt is retryable only while it is the exact current running one.
OnDrained(s, e) ==
  IF /\ s.run \in {"running", "blocked"}
     /\ s.att[<<e.n, e.k>>] = e.a
     /\ s.inst[<<e.n, e.k>>] = "running"
  THEN [s EXCEPT !.inst[<<e.n, e.k>>] = "pending",
                 !.status[e.n] = IF s.eff[e.n] = e.k /\ @ = "running" THEN "pending" ELSE @]
  ELSE s

OnCancelRequested(s) ==
  IF Cut(s) \/ s.run \in TrueTerminal THEN s
  ELSE [s EXCEPT !.run = "cancelling", !.blockedNode = {}]

OnRunEvent(s, e) ==
  CASE e.type = "runCancelRequested" -> OnCancelRequested(s)
    [] e.type = "runCancelled" -> IF Cut(s) THEN [s EXCEPT !.run = "cancelled", !.blockedNode = {}] ELSE s
    [] e.type = "runSucceeded" -> [s EXCEPT !.run = "succeeded"]
    [] e.type = "runFailed" -> [s EXCEPT !.run = "failed"]
    [] e.type = "runBlocked" -> [s EXCEPT !.run = "blocked", !.blockedNode = {e.n}]
    [] OTHER -> s

OnNodeEvent(s, e) ==
  CASE e.type = "nodeDispatched" -> OnDispatched(s, e)
    [] e.type = "nodeSucceeded" -> OnSettle(s, e, "done")
    [] e.type = "nodeFailed" -> OnSettle(s, e, "failed")
    [] e.type = "nodeBlocked" -> OnSettle(s, e, "blocked")
    [] e.type = "nodeRetryRequested" -> OnRetry(s, e)
    [] e.type = "nodeInstanceSuperseded" -> OnSuperseded(s, e)
    [] e.type = "gateDispatched" -> OnGateDispatched(s, e)
    [] e.type = "gateResolved" -> OnGateResolved(s, e)
    [] e.type = "edgeResolved" -> OnEdgeResolved(s, e)
    [] e.type = "nodeSkipped" -> OnSkipped(s, e)
    [] e.type = "nodeCancelled" -> OnCancelled(s, e)
    [] e.type = "nodeAttemptDrained" -> OnDrained(s, e)
    [] OTHER -> s

RunEvent == {"runCancelRequested", "runCancelled", "runSucceeded", "runFailed", "runBlocked"}

Applied(s, e) == IF e.type \in RunEvent THEN OnRunEvent(s, e) ELSE OnNodeEvent(s, e)

\* Mutant: events behind the cut still act.
FoldNoCut(s, e) == Applied(s, e)

\* One more event of the journal.
Fold(s, e) ==
  IF Cut(s) /\ e.type \notin PastCut THEN s ELSE Applied(s, e)

\* nodeCancelled for a whole set of nodes in one locked mutation, each stamped with its
\* live instance and that instance's latest dispatched attempt.
StrikeAll(s, S, latest) ==
  [s EXCEPT
     !.status = [n \in Node |-> IF n \in S THEN "cancelled" ELSE @[n]],
     !.inst = [key \in Key |->
                 IF key[1] \in S /\ s.eff[key[1]] = key[2] /\ @[key] # "superseded"
                 THEN "cancelled" ELSE @[key]],
     !.struck = @ \cup {<<n, s.eff[n], latest[<<n, s.eff[n]>>]>> :
                          n \in {o \in S : s.eff[o] # 0}}]

----------------------------------------------------------------------------
(* attempt-ledger.ts: worker attempts without a durable close proof.       *)

Opens == {"nodeDispatched", "nodeWorkerFenceArmed"}
Closes == {"nodeSucceeded", "nodeFailed", "nodeBlocked", "nodeAttemptDrained"}

\* Mutant: every nodeCancelled counts as a close proof.
LedgerClosesLosers(open, e) ==
  LET x == <<e.n, e.k, e.a>>
  IN IF e.type \in Opens THEN open \cup {x}
     ELSE IF e.type \in Closes \cup {"nodeCancelled"} THEN open \ {x} ELSE open

Ledger(open, e) ==
  LET x == <<e.n, e.k, e.a>>
  IN CASE e.type \in Opens -> open \cup {x}
       [] e.type \in Closes -> open \ {x}
       [] e.type = "nodeCancelled" /\ e.x = "runCancellation" -> open \ {x}
       [] OTHER -> open

----------------------------------------------------------------------------
(* Counters over the same events.                                          *)

Tally ==
  [last : [Key -> Nat],                           \* latestAttemptIdFor: highest number dispatched
   reserved : [Key -> Nat],                       \* a retry's number not yet dispatched, 0: none
   orphans : [Key -> Nat],                        \* orphan recoveries drained so far
   block : [Node -> [code : BlockCode, to : Node, a : Nat]],   \* blockedInfoFor
   used : [Node \X Node -> Nat], runUsed : Nat,             \* revisits requested
   granted : [Node \X Node -> Nat], runGranted : Nat]       \* revisitBudgetGranted

EmptyTally ==
  [last |-> [key \in Key |-> 0], reserved |-> [key \in Key |-> 0], orphans |-> [key \in Key |-> 0],
   block |-> [n \in Node |-> [code |-> "none", to |-> n, a |-> 0]],
   used |-> [p \in Node \X Node |-> 0], runUsed |-> 0,
   granted |-> [p \in Node \X Node |-> 0], runGranted |-> 0]

Count(t, e) ==
  CASE e.type = "nodeDispatched" ->
         [t EXCEPT !.last[<<e.n, e.k>>] = IF e.a > @ THEN e.a ELSE @,
                   !.reserved[<<e.n, e.k>>] = IF e.a = @ THEN 0 ELSE @]
    [] e.type = "nodeRetryRequested" -> [t EXCEPT !.reserved[<<e.n, e.k>>] = e.a]
    [] e.type = "nodeBlocked" -> [t EXCEPT !.block[e.n] = [code |-> e.x, to |-> e.m, a |-> e.a]]
    [] e.type = "nodeAttemptDrained" /\ e.x = "orphanRecovery" ->
         [t EXCEPT !.orphans[<<e.n, e.k>>] = @ + 1]
    [] e.type = "nodeRevisitRequested" ->
         [t EXCEPT !.used[<<e.n, e.m>>] = @ + 1, !.runUsed = @ + 1]
    [] e.type = "revisitBudgetGranted" /\ e.x = "pair" -> [t EXCEPT !.granted[<<e.n, e.m>>] = @ + 1]
    [] e.type = "revisitBudgetGranted" /\ e.x = "run" -> [t EXCEPT !.runGranted = @ + 1]
    [] OTHER -> t

\* Mutant: the number of a drained attempt is used again.
NextAttemptReused(t, n, k) ==
  IF t.reserved[<<n, k>>] # 0 THEN t.reserved[<<n, k>>]
  ELSE IF t.orphans[<<n, k>>] # 0 THEN t.last[<<n, k>>] ELSE t.last[<<n, k>>] + 1

\* nextAttemptIdFor: an unconsumed reservation, else the number after the last one seen.
NextAttempt(t, n, k) ==
  IF t.reserved[<<n, k>>] # 0 THEN t.reserved[<<n, k>>] ELSE t.last[<<n, k>>] + 1
=============================================================================
