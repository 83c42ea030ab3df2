---------------------------- MODULE V3RunProofs ----------------------------
(***************************************************************************)
(* Proofs about V3Run, for every DAG, every pool and every bound: the type *)
(* invariant, that a cancel request is a cut, what a dispatch must respect *)
(* (AttemptUsedOnce, GateBeforeWork), and how the views the driver works   *)
(* from hang together.                                                     *)
(*                                                                         *)
(* The first part is about the folds of V3State: they keep their types,    *)
(* and past the cancel cut they only cancel.                               *)
(*                                                                         *)
(* TypeOK is not inductive.  An event is only typed when it names an       *)
(* instance, so one has to know that a node waiting at a gate has one,     *)
(* that the planned starts and the callbacks carry one, and that a refresh *)
(* still to be carried out has a node left.  TypeInv adds that.            *)
(* The step lemmas prove StepOK, the types and the cut together: both need *)
(* the same case analysis of which event a step appends.                   *)
(*                                                                         *)
(* The last part is about the node view and the instance view of the       *)
(* folded journal, the attempt numbers, the promises of the process and    *)
(* its callbacks: what they say of each other in every state.              *)
(***************************************************************************)
EXTENDS V3Run, FiniteSetTheorems, WellFoundedInduction, TLAPS

----------------------------------------------------------------------------
(* The folds.                                                              *)

\* What a writer owes the fold: an event that opens, resolves or closes names an instance,
\* and a block carries one of the block codes.
WellFormed(e) ==
  /\ e \in Event
  /\ e.type \in Opens \cup {"gateDispatched", "gateResolved",
                           "nodeRetryRequested", "nodeAttemptDrained"} => e.k # 0
  /\ e.type = "nodeBlocked" => e.x \in BlockCode
  /\ e.type = "edgeResolved" => e.x \in {"active", "inactive"}

\* Recording a settle gives a snapshot again.
LEMMA RecordType ==
  ASSUME NEW s \in Snapshot, NEW n \in Node, NEW k \in 0 .. MaxInst, NEW status \in NodeStatus
  PROVE  Record(s, n, k, status) \in Snapshot
BY DEF Record, Snapshot, InstStatus

\* So does re-opening a blocked run.
LEMMA UnblockType == ASSUME NEW s \in Snapshot PROVE Unblock(s) \in Snapshot
BY DEF Unblock, Snapshot, RunStatus

\* Every node event the folds know maps a snapshot to a snapshot.
LEMMA NodeEventType ==
  ASSUME NEW s \in Snapshot, NEW e, WellFormed(e)
  PROVE  OnNodeEvent(s, e) \in Snapshot
<1>. USE DEF WellFormed, Event
<1>. e.n \in Node /\ e.k \in 0 .. MaxInst /\ e.a \in Nat /\ e.m \in Node /\ e.x \in Detail
  OBVIOUS
<1>1. OnDispatched(s, e) \in Snapshot
  BY DEF OnDispatched, RecordEffective, Snapshot, NodeStatus, InstStatus
<1>2. ASSUME NEW st \in NodeStatus PROVE OnSettle(s, e, st) \in Snapshot
  BY RecordType DEF OnSettle
<1>3. OnRetry(s, e) \in Snapshot
  BY DEF OnRetry, Unblock, Snapshot, NodeStatus, InstStatus, RunStatus
<1>4. OnSuperseded(s, e) \in Snapshot
  <2>. DEFINE live == s.eff[e.n] = e.k
              t == [s EXCEPT !.inst[<<e.n, e.k>>] = "superseded",
                             !.status[e.n] = IF live THEN "pending" ELSE @,
                             !.eff[e.n] = IF live THEN 0 ELSE @,
                             !.cleared[e.n] = IF live THEN FALSE ELSE @]
  <2>1. t \in Snapshot
    <3>1. CASE live
      <4>1. [s.inst EXCEPT ![<<e.n, e.k>>] = "superseded"] \in [Key -> InstStatus]
        BY DEF Snapshot, InstStatus
      <4>2. [s.status EXCEPT ![e.n] = "pending"] \in [Node -> NodeStatus]
        BY DEF Snapshot, NodeStatus
      <4>3. [s.eff EXCEPT ![e.n] = 0] \in [Node -> 0 .. MaxInst]
        BY StateAssumption DEF Snapshot
      <4>4. [s.cleared EXCEPT ![e.n] = FALSE] \in [Node -> BOOLEAN]
        BY DEF Snapshot
      <4>. QED BY <3>1, <4>1, <4>2, <4>3, <4>4 DEF Snapshot
    <3>2. CASE ~live
      BY ZenonT(30), <3>2 DEF Snapshot, NodeStatus, InstStatus
    <3>. QED BY <3>1, <3>2
  <2>2. Unblock(t) \in Snapshot
    BY <2>1, UnblockType
  <2>. QED BY <2>1, <2>2 DEF OnSuperseded
<1>5. OnGateDispatched(s, e) \in Snapshot
  BY DEF OnGateDispatched, Snapshot, NodeStatus, InstStatus
<1>6. e.type = "gateResolved" => OnGateResolved(s, e) \in Snapshot
  <2>. SUFFICES ASSUME e.type = "gateResolved" PROVE OnGateResolved(s, e) \in Snapshot
    OBVIOUS
  <2>. DEFINE st == IF e.x = "approved" THEN "pending" ELSE "failed"
              t == [s EXCEPT !.resolved = @ \cup {<<e.n, e.k>>}]
              u == [t EXCEPT !.inst[<<e.n, e.k>>] = st,
                    !.status[e.n] = IF s.eff[e.n] = e.k THEN st ELSE @,
                    !.cleared[e.n] = IF s.eff[e.n] = e.k /\ e.x = "approved" THEN TRUE ELSE @]
  <2>1. t \in Snapshot
    <3>1. <<e.n, e.k>> \in Key
      BY DEF Key, Inst
    <3>. HIDE DEF u, st
    <3>. QED BY <3>1 DEF Snapshot
  <2>2. st \in NodeStatus /\ st \in InstStatus
    BY DEF NodeStatus, InstStatus
  <2>3. u \in Snapshot
    <3>. HIDE DEF t, st
    <3>. QED BY <2>1, <2>2 DEF Snapshot
  <2>. QED BY <2>1, <2>3 DEF OnGateResolved
<1>7. e.type = "edgeResolved" => OnEdgeResolved(s, e) \in Snapshot
  BY DEF OnEdgeResolved, Snapshot
<1>8. OnSkipped(s, e) \in Snapshot
  BY DEF OnSkipped, Snapshot, NodeStatus
<1>9. OnCancelled(s, e) \in Snapshot
  <2>1. [s EXCEPT !.status[e.n] = "cancelled"] \in Snapshot
    BY DEF Snapshot, NodeStatus
  <2>2. e.k # 0 => [s EXCEPT !.struck = @ \cup {<<e.n, e.k, e.a>>}] \in Snapshot
    BY SMTT(30) DEF Snapshot, Attempt, Inst
  <2>. QED BY <2>1, <2>2, RecordType DEF OnCancelled, NodeStatus
<1>10. OnDrained(s, e) \in Snapshot
  BY DEF OnDrained, Snapshot, NodeStatus, InstStatus
<1>. QED BY <1>1, <1>2, <1>3, <1>4, <1>5, <1>6, <1>7, <1>8, <1>9, <1>10 DEF OnNodeEvent, NodeStatus

\* Every run event maps a snapshot to a snapshot.
LEMMA RunEventType ==
  ASSUME NEW s \in Snapshot, NEW e, WellFormed(e)
  PROVE  OnRunEvent(s, e) \in Snapshot
BY DEF OnRunEvent, OnCancelRequested, Snapshot, RunStatus, WellFormed, Event

\* The fold of state.ts `materialize` maps snapshots to snapshots.
LEMMA FoldType ==
  ASSUME NEW s \in Snapshot, NEW e, WellFormed(e)
  PROVE  Fold(s, e) \in Snapshot
BY NodeEventType, RunEventType DEF Fold, Applied

\* Cancelling a set of nodes at once gives a snapshot.
LEMMA StrikeAllType ==
  ASSUME NEW s \in Snapshot, NEW S \in SUBSET Node, NEW latest \in [Key -> Nat]
  PROVE  StrikeAll(s, S, latest) \in Snapshot
<1>1. [n \in Node |-> IF n \in S THEN "cancelled" ELSE s.status[n]] \in [Node -> NodeStatus]
  BY DEF Snapshot, NodeStatus
<1>2. [key \in Key |-> IF key[1] \in S /\ s.eff[key[1]] = key[2] /\ s.inst[key] # "superseded"
                      THEN "cancelled" ELSE s.inst[key]] \in [Key -> InstStatus]
  BY DEF Snapshot, InstStatus, NodeStatus
<1>3. {<<n, s.eff[n], latest[<<n, s.eff[n]>>]>> : n \in {o \in S : s.eff[o] # 0}} \subseteq Attempt
  <2>1. ASSUME NEW n \in S, s.eff[n] # 0 PROVE <<n, s.eff[n], latest[<<n, s.eff[n]>>]>> \in Attempt
    BY <2>1 DEF Snapshot, Key, Inst, Attempt
  <2>. QED BY <2>1
<1>. QED BY <1>1, <1>2, <1>3 DEF StrikeAll, Snapshot

\* openV3WorkerAttempts collects attempts and nothing else.
LEMMA LedgerType ==
  ASSUME NEW o \in SUBSET Attempt, NEW e, WellFormed(e)
  PROVE  Ledger(o, e) \in SUBSET Attempt
BY DEF Ledger, WellFormed, Event, Attempt, Inst

\* The counters stay counters.
LEMMA CountType ==
  ASSUME NEW t \in Tally, NEW e, WellFormed(e)
  PROVE  Count(t, e) \in Tally
<1>. USE DEF WellFormed, Event
<1>1. e.k # 0 => <<e.n, e.k>> \in Key
  BY DEF Key, Inst
<1>2. CASE e.type = "nodeDispatched"
  <2>1. <<e.n, e.k>> \in Key
    BY <1>1, <1>2 DEF Opens
  <2>2. [t.last EXCEPT ![<<e.n, e.k>>] = IF e.a > @ THEN e.a ELSE @] \in [Key -> Nat]
    BY <2>1 DEF Tally
  <2>3. [t.reserved EXCEPT ![<<e.n, e.k>>] = IF e.a = @ THEN 0 ELSE @] \in [Key -> Nat]
    BY <2>1 DEF Tally
  <2>. QED BY <1>2, <2>2, <2>3 DEF Count, Tally
<1>7. CASE e.type = "nodeRetryRequested"
  BY <1>7 DEF Count, Tally
<1>3. CASE e.type = "nodeBlocked"
  BY <1>3 DEF Count, Tally
<1>4. CASE e.type = "nodeAttemptDrained"
  <2>1. <<e.n, e.k>> \in Key /\ t.orphans[<<e.n, e.k>>] \in Nat
    BY <1>1, <1>4 DEF Tally
  <2>2. [t.orphans EXCEPT ![<<e.n, e.k>>] = @ + 1] \in [Key -> Nat]
    BY <2>1 DEF Tally
  <2>. QED BY <1>4, <2>2 DEF Count, Tally
<1>5. CASE e.type = "nodeRevisitRequested"
  <2>1. <<e.n, e.m>> \in Node \X Node /\ t.used[<<e.n, e.m>>] \in Nat /\ t.runUsed + 1 \in Nat
    BY DEF Tally
  <2>2. [t.used EXCEPT ![<<e.n, e.m>>] = @ + 1] \in [Node \X Node -> Nat]
    BY <2>1 DEF Tally
  <2>. QED BY <1>5, <2>1, <2>2 DEF Count, Tally
<1>6. CASE e.type = "revisitBudgetGranted"
  <2>1. <<e.n, e.m>> \in Node \X Node /\ t.granted[<<e.n, e.m>>] \in Nat /\ t.runGranted + 1 \in Nat
    BY DEF Tally
  <2>2. [t.granted EXCEPT ![<<e.n, e.m>>] = @ + 1] \in [Node \X Node -> Nat]
    BY <2>1 DEF Tally
  <2>. QED BY <1>6, <2>1, <2>2 DEF Count, Tally
<1>. QED BY <1>2, <1>3, <1>4, <1>5, <1>6, <1>7 DEF Count

\* nextAttemptIdFor hands out a proper attempt number.
LEMMA NextAttemptType ==
  ASSUME NEW t \in Tally, NEW n \in Node, NEW k \in Inst
  PROVE  NextAttempt(t, n, k) \in Nat \ {0}
BY DEF NextAttempt, Tally, Key

----------------------------------------------------------------------------
\* Status s2 is s1, or the node was cancelled.
OnlyCancels(s, t) ==
  /\ Cut(t)
  /\ \A n \in Node : t.status[n] \in {s.status[n], "cancelled"}

\* Past the durable cancel request one more event can only cancel nodes: a late verdict, a
\* click or a control event does not reach them.
LEMMA CutFold ==
  ASSUME NEW s \in Snapshot, NEW e, WellFormed(e), Cut(s)
  PROVE  OnlyCancels(s, Fold(s, e))
<1>. USE DEF WellFormed, Event, OnlyCancels, Cut
<1>1. CASE e.type \notin PastCut
  BY <1>1 DEF Fold
<1>2. CASE e.type = "runCancelRequested"
  BY <1>2 DEF Fold, PastCut, Applied, RunEvent, OnRunEvent, OnCancelRequested
<1>3. CASE e.type = "runCancelled"
  BY <1>3 DEF Fold, PastCut, Applied, RunEvent, OnRunEvent, Snapshot
<1>4. CASE e.type = "nodeCancelled"
  BY <1>4 DEF Fold, PastCut, Applied, RunEvent, OnNodeEvent, OnCancelled, Record, Snapshot
<1>5. CASE e.type = "nodeAttemptDrained"
  BY <1>5 DEF Fold, PastCut, Applied, RunEvent, OnNodeEvent, OnDrained
<1>. QED BY <1>1, <1>2, <1>3, <1>4, <1>5 DEF PastCut

\* Striking nodes only cancels them.
LEMMA CutStrike ==
  ASSUME NEW s \in Snapshot, NEW S \in SUBSET Node, NEW latest, Cut(s)
  PROVE  OnlyCancels(s, StrikeAll(s, S, latest))
BY DEF OnlyCancels, Cut, StrikeAll, Snapshot
----------------------------------------------------------------------------
\* A node that waits for a human waits at an instance.
GatesNamed(s) == \A n \in Node : s.status[n] = "gateWaiting" => s.eff[n] # 0

\* No event makes a node wait for a human without an instance to approve.
LEMMA GatesFold ==
  ASSUME NEW s \in Snapshot, NEW e, WellFormed(e), GatesNamed(s)
  PROVE  GatesNamed(Fold(s, e))
<1>. USE DEF WellFormed, Event, GatesNamed
<1>1. GatesNamed(OnRunEvent(s, e))
  BY DEF OnRunEvent, OnCancelRequested, Snapshot
<1>2. GatesNamed(OnDispatched(s, e))
  BY DEF OnDispatched, RecordEffective, Snapshot
<1>3. ASSUME NEW st \in {"done", "failed", "blocked"} PROVE GatesNamed(OnSettle(s, e, st))
  BY DEF OnSettle, Record, Snapshot
<1>4. GatesNamed(OnRetry(s, e))
  BY DEF OnRetry, Unblock, Snapshot
<1>5. GatesNamed(OnSuperseded(s, e))
  BY DEF OnSuperseded, Unblock, Snapshot
<1>6. e.k # 0 => GatesNamed(OnGateDispatched(s, e))
  BY DEF OnGateDispatched, Snapshot
<1>7. GatesNamed(OnGateResolved(s, e))
  BY DEF OnGateResolved, Snapshot
<1>8. GatesNamed(OnEdgeResolved(s, e)) /\ GatesNamed(OnSkipped(s, e))
  BY DEF OnEdgeResolved, OnSkipped, Snapshot
<1>9. GatesNamed(OnCancelled(s, e))
  BY DEF OnCancelled, Record, Snapshot
<1>10. GatesNamed(OnDrained(s, e))
  BY DEF OnDrained, Snapshot
<1>. QED
  BY <1>1, <1>2, <1>3, <1>4, <1>5, <1>6, <1>7, <1>8, <1>9, <1>10 DEF Fold, Applied, OnNodeEvent

\* Neither does a cancellation.
LEMMA GatesStrike ==
  ASSUME NEW s \in Snapshot, NEW S \in SUBSET Node, NEW latest, GatesNamed(s)
  PROVE  GatesNamed(StrikeAll(s, S, latest))
BY DEF GatesNamed, StrikeAll, Snapshot


----------------------------------------------------------------------------
(* Helpers of the scheduler.                                               *)

\* The first node of a non-empty set is one of them, and has the lowest rank: ranks are natural numbers.
LEMMA FirstOf ==
  ASSUME NEW S, S \subseteq Node, S # {}
  PROVE  First(S) \in S /\ \A m \in S : Rank[First(S)] <= Rank[m]
<1>. DEFINE R == OpToRel(<, Nat)
            T == {Rank[n] : n \in S}
<1>1. T \subseteq Nat /\ T # {}
  BY DagAssumption
<1>2. \E x \in T : \A y \in T : ~(<<y, x>> \in R)
  <2>. HIDE DEF R, T
  <2>1. IsWellFoundedOn(R, Nat)
    BY NatLessThanWellFounded DEF R
  <2>. QED BY <1>1, <2>1, WFMin
<1>3. \A x, y \in Nat : ~(<<y, x>> \in R) => x <= y
  BY DEF OpToRel
<1>4. \E n \in S : \A m \in S : Rank[n] <= Rank[m]
  BY <1>1, <1>2, <1>3
<1>. QED BY <1>4 DEF First

\* There is a node to fill the unused fields with.
LEMMA AnyNodeType == AnyNode \in Node
BY FirstOf, StateAssumption DEF AnyNode

\* nextInstanceId counts from one.
LEMMA InstanceType ==
  ASSUME NEW s \in Snapshot, NEW n \in Node
  PROVE  InstanceFor(s, n) \in Nat \ {0}
<1>. DEFINE T == {k \in Inst : s.inst[<<n, k>>] # "absent"}
<1>1. Cardinality(T) \in Nat
  <2>1. IsFiniteSet(Inst)
    BY FS_Interval, StateAssumption DEF Inst
  <2>2. IsFiniteSet(T)
    BY <2>1, FS_Subset
  <2>. QED BY <2>2, FS_CardinalityType
<1>2. s.eff[n] \in 0 .. MaxInst
  BY DEF Snapshot
<1>. QED BY <1>1, <1>2, StateAssumption DEF InstanceFor, NextInstance

----------------------------------------------------------------------------
(* The type invariant needs a little more than the types.                  *)

JournalOK == snap \in Snapshot /\ open \in SUBSET Attempt /\ tally \in Tally /\ GatesNamed(snap)

FlightOK ==
  /\ flight \in [Key -> [att : Nat, phase : Phase, abort : Abort]]
  /\ signal \in BOOLEAN

PlanOK == plan \subseteq Action /\ \A act \in plan : act.kind \in {"gate", "work"} => act.k # 0

DriverOK ==
  /\ pc \in {"off", "stuck", "top", "control", "dispatch", "arm", "losers", "publish",
             "quiesce", "drain", "finalize", "race", "sleep", "wait"}
  /\ PlanOK
  /\ item \in Action /\ (pc = "arm" => item.k # 0)
  /\ todo \in SUBSET Attempt /\ why \in DrainReason
  /\ progress \in [started : BOOLEAN, lost : BOOLEAN]

CbType ==
  [step : CbStep, n : Node, k : 0 .. MaxInst, a : Nat, x : Detail, m : Node,
   type : EventType, refresh : SUBSET Node, mine : BOOLEAN]

CbOK ==
  /\ cb \in CbType
  /\ cb.step \notin {"none", "retry"} => cb.k # 0
  /\ cb.type \in {"nodeSucceeded", "nodeFailed", "nodeBlocked"}
  /\ cb.step = "verdict" => cb.x \in BlockCode
  /\ cb.step = "refresh" => cb.refresh # {}

OutsideOK ==
  /\ alive \in SUBSET Attempt /\ kick \in BOOLEAN
  /\ approved \subseteq Key /\ consumed \in [Key -> SUBSET (Node \X (0 .. MaxInst))]
  /\ spawned \subseteq Attempt /\ crashes \in Nat /\ humans \in Nat

TypeInv == JournalOK /\ FlightOK /\ DriverOK /\ CbOK /\ OutsideOK

\* The strengthened type invariant implies the one the runs check.
LEMMA TypeInvImplies == TypeInv => TypeOK
BY DEF TypeInv, TypeOK, JournalOK, FlightOK, PlanOK, DriverOK, CbType, CbOK, OutsideOK

\* What a step does to the journal: it keeps the types, and past the cut it only cancels.
JournalStep == JournalOK' /\ (Cut(snap) => OnlyCancels(snap, snap'))

StepOK == JournalStep /\ FlightOK' /\ DriverOK' /\ CbOK' /\ OutsideOK'

\* A step that leaves the snapshot alone respects the cut.
LEMMA Stays == ASSUME NEW s \in Snapshot, Cut(s) PROVE OnlyCancels(s, s)
BY DEF OnlyCancels

\* Appending a well-formed event keeps the journal typed and respects the cut.
LEMMA AppendType ==
  ASSUME JournalOK, NEW e, WellFormed(e), Append(e)
  PROVE  JournalStep
<1>1. JournalOK'
  BY FoldType, GatesFold, LedgerType, CountType DEF JournalOK, Append
<1>2. Cut(snap) => OnlyCancels(snap, snap')
  BY CutFold DEF JournalOK, Append
<1>. QED BY <1>1, <1>2 DEF JournalStep

\* The three constructors build events.
LEMMA EvType ==
  ASSUME NEW type \in EventType, NEW n \in Node, NEW k \in 0 .. MaxInst, NEW a \in Nat, NEW m \in Node,
         NEW x \in Detail
  PROVE  /\ Ev(type, n, k, a) \in Event /\ EvX(type, n, k, a, x) \in Event
         /\ EvM(type, n, k, a, m, x) \in Event
BY DEF Ev, EvX, EvM, Event, Detail, BlockCode

\* Every event of the run as a whole is well-formed.
LEMMA RunEventFormed ==
  ASSUME NEW type \in RunEvent, NEW n \in Node
  PROVE  WellFormed(Ev(type, n, 0, 0))
<1>. DEFINE e == Ev(type, n, 0, 0)
<1>1. type \in EventType /\ 0 \in 0 .. MaxInst /\ 0 \in Nat /\ "none" \in Detail
  BY StateAssumption DEF RunEvent, EventType, Detail, BlockCode
<1>2. e \in Event
  BY <1>1 DEF Ev, Event
<1>3. e.type = type
  BY DEF Ev
<1>4. WellFormed(e)
  <2>. HIDE DEF e
  <2>. QED BY <1>2, <1>3 DEF WellFormed, RunEvent, Opens
<1>. QED BY <1>4

\* Aborting controllers keeps the in-flight table typed.
LEMMA AbortType ==
  ASSUME FlightOK, NEW S, NEW reason \in Abort \ {"none"}
  PROVE  AbortAll(S, reason) \in [Key -> [att : Nat, phase : Phase, abort : Abort]]
BY DEF FlightOK, AbortAll

\* The idle callback has its type.
LEMMA NoCbType == NoCb \in CbType /\ NoCb.type = "nodeFailed" /\ NoCb.step = "none" /\ NoCb.x = "none"
BY AnyNodeType, StateAssumption DEF NoCb, CbType, CbStep, EventType, Detail, BlockCode

\* A callback of an attempt has its type and names an instance.
LEMMA CbValue ==
  ASSUME NEW step \in CbStep, NEW n \in Node, NEW k \in Inst, NEW a \in Nat
  PROVE  /\ Cb(step, n, k, a) \in CbType
         /\ Cb(step, n, k, a) = [NoCb EXCEPT !.step = step, !.n = n, !.k = k, !.a = a, !.mine = TRUE]
         /\ k # 0 /\ k \in 0 .. MaxInst
<1>1. k # 0 /\ k \in 0 .. MaxInst
  BY StateAssumption DEF Inst
<1>. QED BY <1>1, NoCbType DEF Cb, CbType

\* The empty dispatch item has its type.
LEMMA NoItemType == NoItem \in Action
BY AnyNodeType, StateAssumption DEF NoItem, Act, Action

\* The initial state is well typed.
LEMMA InitType == Init => TypeInv
<1>. SUFFICES ASSUME Init PROVE TypeInv
  OBVIOUS
<1>1. JournalOK
  <2>1. EmptySnapshot \in Snapshot /\ GatesNamed(EmptySnapshot)
    BY StateAssumption DEF EmptySnapshot, Snapshot, GatesNamed, RunStatus, NodeStatus, InstStatus
  <2>2. EmptyTally \in Tally
    BY DEF EmptyTally, Tally, BlockCode
  <2>. QED BY <2>1, <2>2 DEF Init, JournalOK
<1>2. FlightOK
  BY DEF Init, FlightOK, NoFlight, Phase, Abort
<1>3. DriverOK
  BY NoItemType DEF Init, DriverOK, PlanOK, NoPlan, NoProgress, DrainReason
<1>4. CbOK
  BY NoCbType DEF Init, CbOK
<1>5. OutsideOK
  BY DEF Init, OutsideOK
<1>. QED BY <1>1, <1>2, <1>3, <1>4, <1>5 DEF TypeInv

----------------------------------------------------------------------------
(* Every step keeps it.                                                    *)

\* What a step leaves alone stays well typed.
LEMMA IdleTypes ==
  ASSUME TypeInv
  PROVE  /\ UNCHANGED journal => JournalStep
         /\ UNCHANGED <<flight, signal>> => FlightOK'
         /\ UNCHANGED cb => CbOK'
         /\ UNCHANGED <<alive, kick, history, crashes, humans>> => OutsideOK'
<1>1. UNCHANGED journal => JournalStep
  BY Stays DEF TypeInv, JournalOK, journal, JournalStep
<1>2. UNCHANGED <<flight, signal>> => FlightOK'
  BY DEF TypeInv, FlightOK
<1>3. UNCHANGED cb => CbOK'
  BY DEF TypeInv, CbOK
<1>4. UNCHANGED <<alive, kick, history, crashes, humans>> => OutsideOK'
  BY DEF TypeInv, OutsideOK, history
<1>. QED BY <1>1, <1>2, <1>3, <1>4

\* quiesceAttempts, from wherever it is called.
LEMMA QuiesceType ==
  ASSUME TypeInv, NEW S \in SUBSET open, NEW reason \in DrainReason, Quiesce(S, reason)
  PROVE  StepOK
<1>1. FlightOK'
  BY AbortType DEF TypeInv, Quiesce, FlightOK, Abort, DrainReason
<1>2. todo' \in SUBSET Attempt
  BY DEF TypeInv, Quiesce, JournalOK, FlightOK, Key, Attempt
<1>3. DriverOK'
  BY <1>2 DEF TypeInv, Quiesce, DriverOK, PlanOK
<1>. QED BY <1>1, <1>3, IdleTypes DEF StepOK, Quiesce, Outside

\* Leaving the loop.
LEMMA ReturnType == ASSUME TypeInv, Return PROVE StepOK
<1>1. DriverOK'
  BY DEF TypeInv, Return, DriverOK, PlanOK, NoPlan, NoProgress
<1>2. FlightOK'
  BY DEF TypeInv, Return, FlightOK
<1>. QED BY <1>1, <1>2, IdleTypes DEF StepOK, Return, Outside

\* Entering, leaving and cancelling the loop; drains.
LEMMA LoopType ==
  ASSUME TypeInv,
         \/ Drive \/ SignalToJournal \/ Cancelling \/ Finalize \/ Boundary \/ DropObsolete
         \/ DropOrphaned \/ Quiesced \/ DrainClosed \/ DrainPassed \/ Wake
  PROVE  StepOK
<1>1. CASE Drive
  <2>1. DriverOK' /\ OutsideOK'
    BY <1>1 DEF TypeInv, Drive, DriverOK, PlanOK, Idling, OutsideOK, history
  <2>. QED BY <1>1, <2>1, IdleTypes DEF StepOK, Drive
<1>2. CASE SignalToJournal
  <2>1. JournalStep
    BY <1>2, RunEventFormed, AnyNodeType, AppendType DEF TypeInv, SignalToJournal, RunEvent
  <2>2. DriverOK'
    BY <1>2 DEF TypeInv, SignalToJournal, DriverOK, PlanOK, Idling, Goto
  <2>. QED BY <1>2, <2>1, <2>2, IdleTypes DEF StepOK, SignalToJournal, Goto, Outside
<1>3. CASE Cancelling
  <2>1. JournalStep
    BY <1>3, StrikeAllType, GatesStrike, CutStrike
    DEF TypeInv, Cancelling, StrikeNodes, JournalOK, JournalStep, Tally
  <2>2. FlightOK'
    BY <1>3, AbortType DEF TypeInv, Cancelling, FlightOK, Abort
  <2>3. DriverOK'
    BY <1>3 DEF TypeInv, Cancelling, DriverOK, PlanOK, JournalOK, DrainReason
  <2>. QED BY <1>3, <2>1, <2>2, <2>3, IdleTypes DEF StepOK, Cancelling, Outside
<1>4. CASE Finalize
  <2>. DEFINE S == {n \in Node : snap.status[n] \in {"pending", "gateWaiting", "running"}}
              struck == StrikeAll(snap, S, tally.last)
              e == Ev("runCancelled", AnyNode, 0, 0)
  <2>1. struck \in Snapshot /\ GatesNamed(struck)
    BY StrikeAllType, GatesStrike DEF TypeInv, JournalOK, Tally
  <2>2. WellFormed(e)
    BY RunEventFormed, AnyNodeType DEF RunEvent
  <2>3. Fold(struck, e) \in Snapshot /\ GatesNamed(Fold(struck, e))
    <3>. HIDE DEF struck, e
    <3>. QED BY <2>1, <2>2, FoldType, GatesFold
  <2>4. JournalOK'
    BY <1>4, <2>3 DEF TypeInv, Finalize, JournalOK
  <2>6. Cut(snap) => OnlyCancels(snap, snap')
    <3>1. Cut(snap) => OnlyCancels(snap, struck)
      BY CutStrike DEF TypeInv, JournalOK
    <3>2. Cut(snap) => OnlyCancels(struck, Fold(struck, e))
      <4>. HIDE DEF struck, e
      <4>. QED BY <2>1, <2>2, <3>1, CutFold DEF OnlyCancels
    <3>3. Cut(snap) => OnlyCancels(snap, Fold(struck, e))
      <4>. HIDE DEF struck, e
      <4>. QED BY <3>1, <3>2 DEF OnlyCancels
    <3>4. snap' = snap \/ snap' = Fold(struck, e)
      BY <1>4 DEF Finalize
    <3>. QED BY <3>3, <3>4, Stays DEF TypeInv, JournalOK
  <2>5. DriverOK'
    BY <1>4 DEF TypeInv, Finalize, DriverOK, PlanOK, Idling, Goto
  <2>. QED BY <1>4, <2>4, <2>5, <2>6, IdleTypes DEF StepOK, JournalStep, Finalize, Goto, Outside
<1>5. CASE Boundary
  <2>1. CASE open # {}
    BY <1>5, QuiesceType, <2>1 DEF Boundary, DrainReason
  <2>2. CASE open = {}
    BY <1>5, <2>2, ReturnType DEF Boundary
  <2>. QED BY <2>1, <2>2
<1>6. CASE DropObsolete
  BY <1>6, QuiesceType DEF TypeInv, DropObsolete, Obsolete, DrainReason
<1>7. CASE DropOrphaned
  BY <1>7, QuiesceType DEF TypeInv, DropOrphaned, Orphaned, DrainReason
<1>8. CASE Quiesced
  <2>1. DriverOK'
    BY <1>8 DEF TypeInv, Quiesced, DriverOK, PlanOK, Goto, Forget, DrainReason
  <2>. QED BY <1>8, <2>1, IdleTypes DEF StepOK, Quiesced, Goto, Outside
<1>9. CASE DrainClosed
  <2>1. DriverOK'
    BY <1>9 DEF TypeInv, DrainClosed, ProvesClosed, DriverOK, PlanOK
  <2>2. CbOK'
    <3>1. PICK x \in todo : cb' = [Cb("drain", x[1], x[2], x[3]) EXCEPT !.x = why, !.mine = FALSE]
      BY <1>9 DEF DrainClosed, ProvesClosed
    <3>2. x[1] \in Node /\ x[2] \in Inst /\ x[3] \in Nat /\ why \in Detail
      BY DEF TypeInv, DriverOK, Attempt, Detail
    <3>3. "drain" \in CbStep
      BY DEF CbStep
    <3>4. x[2] # 0 /\ Cb("drain", x[1], x[2], x[3]) \in CbType
      BY <3>2, <3>3, CbValue
    <3>5. cb'.type = "nodeFailed" /\ cb'.step = "drain" /\ cb'.k = x[2] /\ cb' \in CbType
      BY <3>1, <3>2, <3>4, NoCbType DEF CbType, Cb
    <3>. QED BY <3>4, <3>5 DEF StepOK, CbOK
  <2>. QED BY <1>9, <2>1, <2>2, IdleTypes DEF StepOK, DrainClosed, ProvesClosed, Outside
<1>10. CASE DrainPassed
  <2>1. DriverOK'
    BY <1>10 DEF TypeInv, DrainPassed, DriverOK, PlanOK, Goto, Forget, DrainReason
  <2>. QED BY <1>10, <2>1, IdleTypes DEF StepOK, DrainPassed, Goto, Outside
<1>11. CASE Wake
  <2>1. DriverOK'
    BY <1>11 DEF TypeInv, Wake, DriverOK, PlanOK, Goto, Idling
  <2>. QED BY <1>11, <2>1, IdleTypes DEF StepOK, Wake, Goto, Outside
<1>. QED BY <1>1, <1>2, <1>3, <1>4, <1>5, <1>6, <1>7, <1>8, <1>9, <1>10, <1>11

\* decideNext returns actions, and what it starts names an instance.
LEMMA PlanType ==
  ASSUME NEW s \in Snapshot, NEW act \in Controls(s) \cup Plan(s)
  PROVE  act \in Action /\ (act.kind \in {"gate", "work"} => act.k # 0)
<1>1. CASE act \in EdgeActions(s)
  <2>1. PICK n \in Node : /\ With(s, n, {"unresolved"}) # {}
                          /\ act = Act("edge", n, First(With(s, n, {"unresolved"})), 0)
    <3>1. ASSUME NEW n \in Idle(s, "resolveEdge") PROVE n \in Node /\ With(s, n, {"unresolved"}) # {}
      BY <3>1 DEF Idle, Open, Readiness, NeedsVerdict
    <3>. QED BY <1>1, <3>1 DEF EdgeActions
  <2>2. First(With(s, n, {"unresolved"})) \in Node
    BY <2>1, FirstOf DEF With, Upstream
  <2>. QED BY <2>1, <2>2, StateAssumption DEF Act, Action
<1>2. CASE act \in SkipActions(s)
  BY <1>2, StateAssumption DEF SkipActions, Idle, Open, Act, Action
<1>3. CASE act \in StartActions(s)
  <2>1. PICK n \in Startable(s) :
           act = Act(IF WantsGate(s, n) THEN "gate" ELSE "work", n, n, InstanceFor(s, n))
    BY <1>3 DEF StartActions
  <2>2. n \in Node /\ InstanceFor(s, n) <= MaxInst
    BY DEF Startable, Idle, Open
  <2>3. InstanceFor(s, n) \in 0 .. MaxInst /\ InstanceFor(s, n) # 0
    BY <2>2, InstanceType, StateAssumption
  <2>. QED BY <2>1, <2>2, <2>3 DEF Act, Action
<1>4. CASE act \in CancelActions(s)
  <2>1. PICK n \in Startable(s) : \E m \in Losers(s, n) : act = Act("cancel", m, n, 0)
    BY <1>4 DEF CancelActions
  <2>2. n \in Node /\ Losers(s, n) \subseteq Node
    BY DEF Startable, Idle, Open, Losers, With, Upstream
  <2>. QED BY <2>1, <2>2, StateAssumption DEF Act, Action
<1>. QED BY <1>1, <1>2, <1>3, <1>4 DEF Controls, Plan

\* The run-level verdict is a well-formed event.
LEMMA TerminalEventFormed ==
  ASSUME NEW s \in Snapshot, NEW e \in TerminalEvent(s)
  PROVE  WellFormed(e)
<1>1. FailedRelevant(s) \subseteq Node /\ BlockedRelevant(s) \subseteq Node
  BY DEF FailedRelevant, BlockedRelevant
<1>2. \E type \in RunEvent, n \in Node : e = Ev(type, n, 0, 0)
  BY <1>1, FirstOf, StateAssumption DEF TerminalEvent, RunEvent
<1>. QED BY <1>2, RunEventFormed

\* Deciding, publishing, resolving edges, skipping, striking losers, ending a tick.
LEMMA TickType ==
  ASSUME TypeInv,
         \/ Decide \/ Publish \/ ResolveEdge \/ SkipNode \/ Controlled \/ PassOver \/ Dispatched
         \/ CancelLoser \/ EndTick \/ NoticeCancel
  PROVE  StepOK
<1>1. CASE Decide
  <2>1. CASE TerminalEvent(snap) # {} /\ open # {}
    BY <1>1, <2>1, QuiesceType DEF Decide, DrainReason
  <2>2. CASE TerminalEvent(snap) # {} /\ open = {}
    <3>1. DriverOK'
      BY <1>1, <2>2 DEF TypeInv, Decide, DriverOK, PlanOK, Goto, Idling
    <3>. QED BY <1>1, <2>2, <3>1, IdleTypes DEF StepOK, Decide, Goto, Outside
  <2>3. CASE TerminalEvent(snap) = {}
    <3>1. PlanOK'
      BY <1>1, <2>3, PlanType DEF TypeInv, JournalOK, Decide, PlanOK
    <3>2. /\ pc' \in {"control", "dispatch"} /\ progress' = NoProgress
          /\ item' = item /\ todo' = todo /\ why' = why
      BY <1>1, <2>3 DEF Decide, Goto
    <3>3. DriverOK'
      BY <3>1, <3>2 DEF TypeInv, DriverOK, NoProgress
    <3>. QED BY <1>1, <2>3, <3>3, IdleTypes DEF StepOK, Decide, Goto, Outside
  <2>. QED BY <2>1, <2>2, <2>3
<1>2. CASE Publish
  <2>1. JournalStep
    <3>1. ASSUME NEW e \in TerminalEvent(snap), Append(e) PROVE JournalStep
      BY <3>1, TerminalEventFormed, AppendType DEF TypeInv, JournalOK
    <3>2. CASE UNCHANGED journal
      BY <3>2, IdleTypes
    <3>. QED BY <1>2, <3>1, <3>2 DEF Publish
  <2>2. DriverOK'
    BY <1>2 DEF TypeInv, Publish, DriverOK, PlanOK, Goto, Idling
  <2>. QED BY <1>2, <2>1, <2>2, IdleTypes DEF StepOK, Publish, Goto, Outside
<1>3. CASE ResolveEdge
  <2>1. PICK act \in plan, verdict \in {"active", "inactive"} :
           /\ Append(EvM("edgeResolved", act.m, snap.eff[act.m], 0, act.n, verdict))
           /\ plan' = plan \ {act}
    BY <1>3 DEF ResolveEdge
  <2>2. act.m \in Node /\ act.n \in Node /\ snap.eff[act.m] \in 0 .. MaxInst
    BY DEF TypeInv, DriverOK, PlanOK, Action, JournalOK, Snapshot
  <2>3. WellFormed(EvM("edgeResolved", act.m, snap.eff[act.m], 0, act.n, verdict))
    BY <2>2, EvType DEF WellFormed, EventType, EvM, Opens, Detail
  <2>4. JournalStep
    BY <2>1, <2>3, AppendType DEF TypeInv
  <2>5. DriverOK'
    BY <1>3, <2>1 DEF TypeInv, ResolveEdge, DriverOK, PlanOK
  <2>. QED BY <1>3, <2>4, <2>5, IdleTypes DEF StepOK, ResolveEdge, Outside
<1>4. CASE SkipNode
  <2>1. PICK act \in plan : Append(Ev("nodeSkipped", act.n, 0, 0)) /\ plan' = plan \ {act}
    BY <1>4 DEF SkipNode
  <2>2. act.n \in Node
    BY DEF TypeInv, DriverOK, PlanOK, Action
  <2>3. WellFormed(Ev("nodeSkipped", act.n, 0, 0))
    BY <2>2, EvType, StateAssumption DEF WellFormed, EventType, Ev, Opens, Detail, BlockCode
  <2>4. JournalStep
    BY <2>1, <2>3, AppendType DEF TypeInv
  <2>5. DriverOK'
    BY <1>4, <2>1 DEF TypeInv, SkipNode, DriverOK, PlanOK
  <2>. QED BY <1>4, <2>4, <2>5, IdleTypes DEF StepOK, SkipNode, Outside
<1>5. CASE Controlled
  <2>1. DriverOK'
    BY <1>5 DEF TypeInv, Controlled, DriverOK, PlanOK, Goto, Idling
  <2>. QED BY <1>5, <2>1, IdleTypes DEF StepOK, Controlled, Goto, Outside
<1>6. CASE PassOver
  <2>1. DriverOK'
    BY <1>6 DEF TypeInv, PassOver, DriverOK, PlanOK
  <2>. QED BY <1>6, <2>1, IdleTypes DEF StepOK, PassOver, Outside
<1>7. CASE Dispatched
  <2>1. DriverOK'
    BY <1>7 DEF TypeInv, Dispatched, DriverOK, PlanOK, Goto
  <2>. QED BY <1>7, <2>1, IdleTypes DEF StepOK, Dispatched, Goto, Outside
<1>8. CASE CancelLoser
  <2>1. PICK act \in plan :
          /\ plan' = plan \ {act}
          /\ IF snap.status[act.n] \in {"pending", "gateWaiting", "running"}
             THEN LET k == snap.eff[act.n]
                      a == IF k = 0 THEN 0 ELSE tally.last[<<act.n, k>>]
                  IN /\ Append(EvX("nodeCancelled", act.n, k, a, "loser"))
                     /\ flight' = AbortAll({<<act.n, k>>}, "obsoleteAttempt")
                     /\ progress' = [progress EXCEPT !.lost = TRUE]
             ELSE UNCHANGED <<journal, flight, progress>>
    BY <1>8 DEF CancelLoser
  <2>. DEFINE k == snap.eff[act.n]
              a == IF k = 0 THEN 0 ELSE tally.last[<<act.n, k>>]
  <2>2. act.n \in Node /\ k \in 0 .. MaxInst
    BY DEF TypeInv, DriverOK, PlanOK, Action, JournalOK, Snapshot
  <2>3. a \in Nat
    <3>1. k # 0 => <<act.n, k>> \in Key
      BY <2>2, StateAssumption DEF Key, Inst
    <3>. QED BY <3>1 DEF TypeInv, JournalOK, Tally
  <2>4. WellFormed(EvX("nodeCancelled", act.n, k, a, "loser"))
    <3>. HIDE DEF k, a
    <3>. QED BY <2>2, <2>3, EvType DEF WellFormed, EventType, EvX, Opens, Detail
  <2>5. JournalStep
    BY <2>1, <2>4, AppendType, IdleTypes DEF TypeInv, journal
  <2>6. FlightOK'
    BY <1>8, <2>1, AbortType DEF TypeInv, FlightOK, CancelLoser, Abort, DrainReason
  <2>7. DriverOK'
    BY <1>8, <2>1 DEF TypeInv, CancelLoser, DriverOK, PlanOK
  <2>. QED BY <1>8, <2>5, <2>6, <2>7, IdleTypes DEF StepOK, CancelLoser, Outside
<1>9. CASE EndTick
  <2>1. CASE GiveUp
    <3>1. DriverOK' /\ FlightOK'
      BY <2>1 DEF TypeInv, GiveUp, DriverOK, PlanOK, NoPlan, NoProgress, FlightOK
    <3>2. OutsideOK'
      BY <2>1 DEF TypeInv, GiveUp, OutsideOK, history
    <3>. QED BY <2>1, <3>1, <3>2, IdleTypes DEF StepOK, GiveUp
  <2>2. CASE Return
    BY <2>2, ReturnType
  <2>3. CASE Quiesce(open, "orphanRecovery")
    BY <2>3, QuiesceType DEF DrainReason
  <2>4. CASE \E where \in {"top", "wait"} : Goto(where) /\ Idling /\ UNCHANGED journal /\ Outside
    <3>1. DriverOK'
      BY <2>4 DEF TypeInv, DriverOK, PlanOK, Goto, Idling
    <3>. QED BY <2>4, <3>1, IdleTypes DEF StepOK, Goto, Outside
  <2>. QED BY <1>9, <2>1, <2>2, <2>3, <2>4 DEF EndTick
<1>10. CASE NoticeCancel
  <2>1. DriverOK'
    BY <1>10 DEF TypeInv, NoticeCancel, DriverOK, PlanOK, Goto, Idling
  <2>. QED BY <1>10, <2>1, IdleTypes DEF StepOK, NoticeCancel, Goto, Outside
<1>. QED BY <1>1, <1>2, <1>3, <1>4, <1>5, <1>6, <1>7, <1>8, <1>9, <1>10

\* Claiming a node or a gate, and starting its worker.
LEMMA StartType ==
  ASSUME TypeInv, ClaimWork \/ ClaimGate \/ Arm \/ ArmFailed
  PROVE  StepOK
<1>a. ASSUME NEW act \in plan, act.kind \in {"gate", "work"}
      PROVE  act.n \in Node /\ act.k \in Inst /\ act.k \in 0 .. MaxInst /\ act.k # 0
  BY <1>a, StateAssumption DEF TypeInv, DriverOK, PlanOK, Action, Inst
<1>1. CASE ClaimWork
  <2>1. PICK act \in plan :
          /\ act.kind = "work" /\ item' = act /\ plan' = plan \ {act}
          /\ Append(Ev("nodeDispatched", act.n, act.k, NextAttempt(tally, act.n, act.k)))
          /\ consumed' = [consumed EXCEPT ![<<act.n, act.k>>] = Inputs(act.n)]
    BY <1>1 DEF ClaimWork
  <2>2. NextAttempt(tally, act.n, act.k) \in Nat
    BY <1>a, <2>1, NextAttemptType DEF TypeInv, JournalOK
  <2>3. WellFormed(Ev("nodeDispatched", act.n, act.k, NextAttempt(tally, act.n, act.k)))
    BY <1>a, <2>1, <2>2, EvType DEF WellFormed, EventType, Ev, Detail, BlockCode
  <2>4. JournalStep
    BY <2>1, <2>3, AppendType DEF TypeInv
  <2>5. DriverOK'
    BY <1>1, <1>a, <2>1 DEF TypeInv, ClaimWork, DriverOK, PlanOK
  <2>6. OutsideOK'
    <3>1. Inputs(act.n) \subseteq Node \X (0 .. MaxInst)
      <4>1. ASSUME NEW m \in With(snap, act.n, {"active"})
            PROVE  <<m, snap.eff[m]>> \in Node \X (0 .. MaxInst)
        BY DEF TypeInv, JournalOK, Snapshot, With, Upstream
      <4>. QED BY <4>1 DEF Inputs
    <3>. QED BY <1>1, <2>1, <3>1 DEF TypeInv, ClaimWork, OutsideOK
  <2>. QED BY <1>1, <2>4, <2>5, <2>6, IdleTypes DEF StepOK, ClaimWork
<1>2. CASE ClaimGate
  <2>1. PICK act \in plan : /\ act.kind = "gate" /\ plan' = plan \ {act}
                            /\ Append(Ev("gateDispatched", act.n, act.k, 0))
    BY <1>2 DEF ClaimGate
  <2>2. WellFormed(Ev("gateDispatched", act.n, act.k, 0))
    BY <1>a, <2>1, EvType DEF WellFormed, EventType, Ev, Detail, BlockCode
  <2>3. JournalStep
    BY <2>1, <2>2, AppendType DEF TypeInv
  <2>4. DriverOK'
    BY <1>2, <2>1 DEF TypeInv, ClaimGate, DriverOK, PlanOK
  <2>. QED BY <1>2, <2>3, <2>4, IdleTypes DEF StepOK, ClaimGate, Outside
<1>b. ASSUME pc = "arm"
      PROVE  /\ item.n \in Node /\ item.k \in Inst /\ item.k \in 0 .. MaxInst /\ item.k # 0
             /\ ItemAttempt \in Attempt /\ ItemAttempt[3] \in Nat
  <2>1. item.n \in Node /\ item.k \in Inst /\ item.k \in 0 .. MaxInst /\ item.k # 0
    BY <1>b, StateAssumption DEF TypeInv, DriverOK, Action, Inst
  <2>2. tally.last[<<item.n, item.k>>] \in Nat
    BY <2>1 DEF TypeInv, JournalOK, Tally, Key
  <2>. QED BY <2>1, <2>2 DEF ItemAttempt, Attempt
<1>3. CASE Arm
  <2>1. WellFormed(Ev("nodeWorkerFenceArmed", item.n, item.k, ItemAttempt[3]))
    BY <1>3, <1>b, EvType DEF Arm, ArmIf, WellFormed, EventType, Ev, Detail, BlockCode
  <2>2. JournalStep
    BY <1>3, <2>1, AppendType DEF TypeInv, Arm, ArmIf
  <2>3. DriverOK'
    BY <1>3, NoItemType DEF TypeInv, Arm, ArmIf, DriverOK, PlanOK, Started
  <2>4. FlightOK'
    BY <1>3, <1>b DEF TypeInv, Arm, ArmIf, FlightOK, Phase, Abort
  <2>5. OutsideOK'
    BY <1>3, <1>b DEF TypeInv, Arm, ArmIf, OutsideOK
  <2>. QED BY <1>3, <2>2, <2>3, <2>4, <2>5, IdleTypes DEF StepOK, Arm, ArmIf
<1>4. CASE ArmFailed
  <2>1. WellFormed(Ev("nodeFailed", item.n, item.k, ItemAttempt[3]))
    BY <1>4, <1>b, EvType DEF ArmFailed, WellFormed, EventType, Ev, Detail, BlockCode, Opens
  <2>2. JournalStep
    BY <1>4, <2>1, AppendType DEF TypeInv, ArmFailed
  <2>3. DriverOK'
    BY <1>4, NoItemType DEF TypeInv, ArmFailed, DriverOK, PlanOK, Started
  <2>. QED BY <1>4, <2>2, <2>3, IdleTypes DEF StepOK, ArmFailed, Outside
<1>. QED BY <1>1, <1>2, <1>3, <1>4

\* The end of a worker promise.
LEMMA FinallyType ==
  ASSUME TypeInv, Finally
  PROVE  FlightOK' /\ DriverOK' /\ CbOK' /\ OutsideOK'
<1>1. FlightOK'
  BY DEF TypeInv, Finally, FlightOK, NoFlight, Phase, Abort
<1>2. DriverOK'
  BY DEF TypeInv, Finally, DriverOK, PlanOK
<1>3. CbOK'
  BY NoCbType DEF Finally, CbOK
<1>. QED BY <1>1, <1>2, <1>3, IdleTypes DEF Finally, Outside

\* A retry reserves a proper attempt of a real instance.
LEMMA RetryFormed ==
  ASSUME TypeInv, NEW n \in Node, CanRetry(n)
  PROVE  WellFormed(RetryEvent(n))
<1>1. snap.eff[n] \in Inst /\ snap.eff[n] \in 0 .. MaxInst /\ snap.eff[n] # 0
  BY StateAssumption DEF TypeInv, JournalOK, Snapshot, CanRetry, Inst
<1>2. NextAttempt(tally, n, snap.eff[n]) \in Nat
  BY <1>1, NextAttemptType DEF TypeInv, JournalOK
<1>. QED BY <1>1, <1>2, EvType DEF RetryEvent, WellFormed, EventType, Ev, Detail, BlockCode

\* The mutations of a settled worker promise.
LEMMA CallbackType ==
  ASSUME TypeInv, Callback
  PROVE  StepOK
<1>0. /\ cb.step \in CbStep /\ cb.n \in Node /\ cb.k \in 0 .. MaxInst /\ cb.a \in Nat
      /\ cb.x \in Detail /\ cb.m \in Node /\ cb.refresh \subseteq Node
      /\ cb.type \in {"nodeSucceeded", "nodeFailed", "nodeBlocked"}
  BY DEF TypeInv, CbOK, CbType
<1>a. UNCHANGED <<pc, plan, item, todo, why, progress>> => DriverOK'
  BY DEF TypeInv, DriverOK, PlanOK
<1>1. CASE CbVerdict
  <2>1. WellFormed(CbEvent(cb.type))
    BY <1>0, <1>1, EvType DEF CbVerdict, TypeInv, CbOK, WellFormed, EventType, CbEvent, EvM, Opens
  <2>2. JournalStep
    BY <1>1, <2>1, AppendType DEF TypeInv, CbVerdict
  <2>. QED BY <1>1, <2>2, FinallyType DEF StepOK, CbVerdict
<1>2. CASE CbDrain
  <2>1. WellFormed(EvX("nodeBlocked", cb.n, cb.k, cb.a, "orphan"))
    BY <1>0, EvType DEF WellFormed, EventType, EvX, Opens, BlockCode, Detail
  <2>2. WellFormed(CbEvent("nodeAttemptDrained"))
    BY <1>0, <1>2, EvType DEF CbDrain, TypeInv, CbOK, WellFormed, EventType, CbEvent, EvM, Opens
  <2>3. JournalStep
    BY <1>2, <2>1, <2>2, AppendType, IdleTypes DEF TypeInv, CbDrain
  <2>4. CASE cb.x = "runCancellation"
    <3>1. cb' = [cb EXCEPT !.step = "cancelled"] /\ cb.k # 0
      BY <1>2, <2>4 DEF CbDrain, TypeInv, CbOK
    <3>2. CbOK'
      BY <3>1 DEF TypeInv, CbOK, CbType, CbStep
    <3>. QED BY <1>2, <1>a, <2>3, <2>4, <3>2, IdleTypes DEF CbDrain, Outside, StepOK
  <2>5. CASE cb.x # "runCancellation"
    BY <1>2, <2>3, <2>5, FinallyType DEF StepOK, CbDrain
  <2>. QED BY <2>4, <2>5
<1>3. CASE CbCancelled
  <2>1. WellFormed(EvX("nodeCancelled", cb.n, cb.k, cb.a, "runCancellation"))
    BY <1>0, EvType DEF WellFormed, EventType, EvX, Opens, Detail, DrainReason
  <2>2. JournalStep
    BY <1>3, <2>1, AppendType, IdleTypes DEF TypeInv, CbCancelled
  <2>. QED BY <1>3, <2>2, FinallyType DEF StepOK, CbCancelled
<1>b. ASSUME NEW rest \in SUBSET Node, Refreshing(rest), cb.k # 0 PROVE CbOK'
  BY <1>b DEF Refreshing, TypeInv, CbOK, CbType, CbStep, Detail, DrainReason
<1>4. CASE CbRevisit
  <2>1. WellFormed(CbEvent("nodeRevisitRequested"))
    BY <1>0, EvType DEF WellFormed, EventType, CbEvent, EvM, Opens
  <2>2. JournalStep
    BY <1>4, <2>1, AppendType DEF TypeInv, CbRevisit
  <2>3. CbOK'
    BY <1>0, <1>4, <1>b DEF CbRevisit, TypeInv, CbOK
  <2>. QED BY <1>4, <1>a, <2>2, <2>3, IdleTypes DEF CbRevisit, Outside, StepOK
<1>5. CASE CbRefresh
  <2>. DEFINE n == First(cb.refresh)
  <2>1. n \in Node
    BY <1>0, <1>5, FirstOf DEF CbRefresh, TypeInv, CbOK
  <2>2. WellFormed(EvM("nodeInstanceSuperseded", n, snap.eff[n], 0, cb.m, "none"))
    <3>1. snap.eff[n] \in 0 .. MaxInst
      BY <2>1 DEF TypeInv, JournalOK, Snapshot
    <3>. HIDE DEF n
    <3>. QED BY <1>0, <2>1, <3>1, EvType DEF WellFormed, EventType, EvM, Opens, Detail, BlockCode
  <2>3. JournalStep
    BY <1>5, <2>2, AppendType DEF TypeInv, CbRefresh
  <2>4. CbOK'
    BY <1>0, <1>5, <1>b DEF CbRefresh, TypeInv, CbOK
  <2>5. FlightOK'
    BY <1>5, AbortType DEF TypeInv, FlightOK, CbRefresh, Abort, DrainReason
  <2>. QED BY <1>5, <1>a, <2>3, <2>4, <2>5, IdleTypes DEF CbRefresh, Outside, StepOK
<1>6. CASE CbRetry
  <2>1. JournalStep
    BY <1>0, <1>6, RetryFormed, AppendType, IdleTypes DEF TypeInv, CbRetry
  <2>2. CbOK'
    BY <1>6, NoCbType DEF CbRetry, CbOK
  <2>3. OutsideOK'
    BY <1>6 DEF CbRetry, TypeInv, OutsideOK, history
  <2>. QED BY <1>6, <1>a, <2>1, <2>2, <2>3, IdleTypes DEF CbRetry, StepOK
<1>. QED BY <1>1, <1>2, <1>3, <1>4, <1>5, <1>6 DEF Callback

\* A worker promise settles, its manifest is judged.
LEMMA PromiseType ==
  ASSUME TypeInv, Promises
  PROVE  StepOK
<1>a. UNCHANGED <<pc, plan, item, todo, why, progress>> => DriverOK'
  BY DEF TypeInv, DriverOK, PlanOK
<1>b. ASSUME NEW n \in Node, NEW k \in Inst
      PROVE  LET f == flight[<<n, k>>] IN f.att \in Nat /\ f.phase \in Phase /\ f.abort \in Abort
  BY DEF TypeInv, FlightOK, Key
<1>c. ASSUME NEW n \in Node, NEW k \in Inst, NEW a \in Nat, NEW x \in BlockCode,
             NEW type \in {"nodeSucceeded", "nodeFailed", "nodeBlocked"}, NEW m \in Node,
             \/ cb' = Verdict(n, k, a, type, x)
             \/ cb' = [Verdict(n, k, a, type, x) EXCEPT !.m = m]
      PROVE  CbOK'
  <2>1. k # 0 /\ k \in 0 .. MaxInst
    BY CbValue DEF CbStep
  <2>2. cb' \in CbType
    BY ZenonT(30), <1>c, <2>1, AnyNodeType DEF Verdict, Cb, NoCb, CbType, CbStep, Detail, EventType
  <2>3. cb'.k = k /\ cb'.type = type /\ cb'.step = "verdict" /\ cb'.x = x
    BY <1>c DEF Verdict, Cb, NoCb
  <2>. QED BY <2>1, <2>2, <2>3 DEF CbOK
<1>d. ASSUME NEW n \in Node, NEW k \in Inst, NEW a \in Nat, NEW reason \in DrainReason,
             cb' = DrainProof(n, k, a, reason)
      PROVE  CbOK'
  <2>1. k # 0 /\ k \in 0 .. MaxInst
    BY CbValue DEF CbStep
  <2>2. cb' \in CbType
    BY <1>d, <2>1, AnyNodeType DEF DrainProof, Cb, NoCb, CbType, CbStep, Detail, EventType
  <2>3. cb'.k = k /\ cb'.type = "nodeFailed" /\ cb'.step = "drain"
    BY <1>d DEF DrainProof, Cb, NoCb
  <2>. QED BY <2>1, <2>2, <2>3 DEF CbOK
<1>1. CASE Settle
  <2>1. PICK n \in Node, k \in Inst :
          LET f == flight[<<n, k>>]
          IN \/ f.abort \in DrainReason /\ cb' = DrainProof(n, k, f.att, f.abort) /\ UNCHANGED flight
             \/ cb' = Verdict(n, k, f.att, "nodeFailed", "none") /\ UNCHANGED flight
             \/ cb' = DrainProof(n, k, f.att, "runCancellation") /\ UNCHANGED flight
             \/ flight' = [flight EXCEPT ![<<n, k>>].phase = "check"] /\ UNCHANGED cb
    BY <1>1 DEF Settle
  <2>. DEFINE f == flight[<<n, k>>]
  <2>a. f.att \in Nat
    BY <1>b
  <2>b. "runCancellation" \in DrainReason /\ "none" \in BlockCode
    BY DEF DrainReason, BlockCode
  <2>2. CbOK'
    <3>1. CASE f.abort \in DrainReason /\ cb' = DrainProof(n, k, f.att, f.abort)
      BY <1>d, <2>a, <3>1
    <3>2. CASE cb' = Verdict(n, k, f.att, "nodeFailed", "none")
      BY <1>c, <2>a, <2>b, <3>2
    <3>3. CASE cb' = DrainProof(n, k, f.att, "runCancellation")
      BY <1>d, <2>a, <2>b, <3>3
    <3>4. CASE UNCHANGED cb
      BY <3>4, IdleTypes
    <3>. QED BY <2>1, <3>1, <3>2, <3>3, <3>4
  <2>3. FlightOK'
    BY SMTT(30), <1>1, <2>1 DEF Settle, TypeInv, FlightOK, Phase
  <2>. QED BY <1>1, <1>a, <2>2, <2>3, IdleTypes DEF Settle, Outside, StepOK
<1>2. CASE Judge
  <2>1. PICK n \in Node, k \in Inst, find \in Finds, m \in Node :
          cb' = Judgement(find, n, k, flight[<<n, k>>], m)
    BY <1>2 DEF Judge
  <2>. DEFINE f == flight[<<n, k>>]
  <2>2. f.att \in Nat
    BY <1>b
  <2>3. ASSUME cb' = RevisitCb(n, k, f.att, m) PROVE CbOK'
    <3>1. k # 0 /\ k \in 0 .. MaxInst
      BY CbValue DEF CbStep
    <3>2. {o \in Affected(m) : snap.eff[o] # 0} \subseteq Node
      BY DEF Affected
    <3>3. cb' \in CbType
      BY <2>2, <2>3, <3>1, <3>2, AnyNodeType
      DEF RevisitCb, Cb, NoCb, CbType, CbStep, Detail, BlockCode, EventType
    <3>4. cb'.k = k /\ cb'.type = "nodeFailed" /\ cb'.step = "revisit"
      BY <2>3 DEF RevisitCb, Cb, NoCb
    <3>. QED BY <3>1, <3>3, <3>4 DEF CbOK
  <2>4. ASSUME \/ f.abort \in DrainReason /\ cb' = DrainProof(n, k, f.att, f.abort)
               \/ cb' = DrainProof(n, k, f.att, "runCancellation")
        PROVE  CbOK'
    <3>1. "runCancellation" \in DrainReason
      BY DEF DrainReason
    <3>2. CASE f.abort \in DrainReason /\ cb' = DrainProof(n, k, f.att, f.abort)
      BY <1>d, <2>2, <3>2
    <3>3. CASE cb' = DrainProof(n, k, f.att, "runCancellation")
      BY <1>d, <2>2, <3>1, <3>3
    <3>. QED BY <2>4, <3>2, <3>3
  <2>5. ASSUME \E type \in {"nodeSucceeded", "nodeFailed", "nodeBlocked"}, x \in BlockCode :
                 \/ cb' = Verdict(n, k, f.att, type, x)
                 \/ cb' = [Verdict(n, k, f.att, type, x) EXCEPT !.m = m]
        PROVE  CbOK'
    <3>1. PICK type \in {"nodeSucceeded", "nodeFailed", "nodeBlocked"}, x \in BlockCode :
               \/ cb' = Verdict(n, k, f.att, type, x)
               \/ cb' = [Verdict(n, k, f.att, type, x) EXCEPT !.m = m]
      BY <2>5
    <3>. QED BY <1>c, <2>2, <3>1
  <2>6. CbOK'
    <3>. HIDE DEF f
    <3>1. {"none", "plain", "reviseWorkflow", "budget"} \subseteq BlockCode
      BY DEF BlockCode
    <3>2. cb' = Judgement(find, n, k, f, m)
      BY <2>1 DEF f
    <3>3. CASE find = "done"
      BY <2>5, <3>1, <3>2, <3>3 DEF Judgement
    <3>4. CASE find = "failed"
      BY <2>5, <3>1, <3>2, <3>4 DEF Judgement
    <3>5. CASE find = "blocked"
      BY <2>5, <3>1, <3>2, <3>5 DEF Judgement
    <3>6. CASE find = "reviseWorkflow"
      BY <2>5, <3>1, <3>2, <3>6 DEF Judgement
    <3>7. CASE find = "revisit"
      BY <2>3, <2>5, <3>1, <3>2, <3>7 DEF Judgement, BudgetCb
    <3>8. CASE find = "throw"
      BY <2>4, <2>5, <3>1, <3>2, <3>8 DEF Judgement
    <3>. QED BY <3>3, <3>4, <3>5, <3>6, <3>7, <3>8 DEF Finds
  <2>. QED BY <1>2, <1>a, <2>6, IdleTypes DEF Judge, Outside, StepOK
<1>. QED BY <1>1, <1>2 DEF Promises

\* Workers that exit, humans, cancel requests, process deaths.
LEMMA OutsideType ==
  ASSUME TypeInv, WorkerExit \/ Human \/ Environment
  PROVE  StepOK
<1>a. UNCHANGED <<pc, plan, item, todo, why, progress>> => DriverOK'
  BY DEF TypeInv, DriverOK, PlanOK
<1>b. JournalOK /\ FlightOK /\ DriverOK /\ CbOK /\ OutsideOK
  BY DEF TypeInv
<1>1. CASE WorkerExit
  <2>1. OutsideOK'
    BY <1>1, <1>b DEF WorkerExit, OutsideOK, history
  <2>. QED BY <1>1, <1>a, <2>1, IdleTypes DEF WorkerExit, local, StepOK
<1>2. CASE GateClick
  <2>1. PICK n \in Node, choice \in {"approved", "rejected"} :
          /\ snap.status[n] = "gateWaiting"
          /\ Append(EvX("gateResolved", n, snap.eff[n], 0, choice))
          /\ approved' = IF choice = "approved" THEN approved \cup {<<n, snap.eff[n]>>} ELSE approved
    BY <1>2 DEF GateClick, Click
  <2>2. snap.eff[n] \in Inst /\ snap.eff[n] \in 0 .. MaxInst /\ snap.eff[n] # 0
    BY <1>b, <2>1, StateAssumption DEF JournalOK, GatesNamed, Snapshot, Inst
  <2>3. WellFormed(EvX("gateResolved", n, snap.eff[n], 0, choice))
    BY <2>2, EvType DEF WellFormed, EventType, EvX, Detail
  <2>4. JournalStep
    BY <1>b, <2>1, <2>3, AppendType
  <2>5. approved' \subseteq Key
    BY <1>b, <2>1, <2>2 DEF OutsideOK, Key
  <2>6. OutsideOK'
    BY <1>2, <1>b, <2>5 DEF GateClick, Click, OutsideOK
  <2>. QED BY <1>2, <1>a, <2>4, <2>6, IdleTypes DEF GateClick, Click, local, StepOK
<1>3. CASE Retry
  <2>1. JournalStep
    BY <1>3, <1>b, RetryFormed, AppendType DEF Retry
  <2>2. OutsideOK'
    BY <1>3, <1>b DEF Retry, OutsideOK, history
  <2>. QED BY <1>3, <1>a, <2>1, <2>2, IdleTypes DEF Retry, local, StepOK
<1>4. CASE GrantRevisit
  <2>1. PICK n \in snap.blockedNode, scope \in {"pair", "run"} :
          /\ \/ UNCHANGED journal
             \/ Append(EvM("revisitBudgetGranted", n, 0, 0, tally.block[n].to, scope))
          /\ cb' = [NoCb EXCEPT !.step = "retry", !.n = n]
    BY <1>4 DEF GrantRevisit
  <2>2. n \in Node
    BY <1>b DEF JournalOK, Snapshot
  <2>3. tally.block[n].to \in Node
    BY <1>b, <2>2 DEF JournalOK, Tally
  <2>4. WellFormed(EvM("revisitBudgetGranted", n, 0, 0, tally.block[n].to, scope))
    BY <2>2, <2>3, EvType, StateAssumption DEF WellFormed, EventType, EvM, Detail, Opens
  <2>5. JournalStep
    BY <1>b, <2>1, <2>4, AppendType, IdleTypes
  <2>6. CbOK'
    BY <2>1, <2>2, NoCbType DEF CbOK, CbType, CbStep
  <2>7. OutsideOK'
    BY <1>4, <1>b DEF GrantRevisit, OutsideOK, history
  <2>. QED BY <1>4, <1>a, <2>5, <2>6, <2>7, IdleTypes DEF GrantRevisit, StepOK
<1>c. ASSUME Append(Ev("runCancelRequested", AnyNode, 0, 0)) PROVE JournalStep
  BY <1>b, <1>c, RunEventFormed, AnyNodeType, AppendType DEF RunEvent
<1>d. ASSUME flight' = AbortAll(InFlight, "run"), signal' \in BOOLEAN PROVE FlightOK'
  BY <1>b, <1>d, AbortType DEF FlightOK, Abort
<1>5. CASE Cancel
  <2>1. OutsideOK'
    BY <1>5, <1>b DEF Cancel, CancelAnd, OutsideOK, history
  <2>2. JournalStep /\ FlightOK'
    BY <1>5, <1>c, <1>d DEF Cancel, CancelAnd, Driving
  <2>. QED BY <1>5, <1>a, <2>1, <2>2, IdleTypes DEF Cancel, CancelAnd, StepOK
<1>6. CASE ForeignCancel
  <2>1. UNCHANGED <<flight, pc, plan, item, todo, why, progress, cb, signal, alive, kick,
                    history, crashes, humans>>
    BY <1>6 DEF ForeignCancel, local
  <2>. QED BY <1>6, <1>a, <1>c, <2>1, IdleTypes DEF ForeignCancel, StepOK
<1>7. CASE BareAbort
  <2>1. FlightOK'
    BY <1>7, <1>d DEF BareAbort
  <2>. QED BY <1>7, <1>a, <2>1, IdleTypes DEF BareAbort, Outside, StepOK
<1>8. CASE Crash
  <2>1. FlightOK'
    BY <1>8 DEF Crash, FlightOK, NoFlight, Phase, Abort
  <2>2. DriverOK'
    BY <1>8, NoItemType DEF Crash, DriverOK, PlanOK, NoPlan, NoProgress, DrainReason
  <2>3. CbOK'
    BY <1>8, NoCbType DEF Crash, CbOK
  <2>4. OutsideOK'
    BY <1>8, <1>b DEF Crash, OutsideOK, history
  <2>. QED BY <1>8, <2>1, <2>2, <2>3, <2>4, IdleTypes DEF Crash, StepOK
<1>. QED BY <1>1, <1>2, <1>3, <1>4, <1>5, <1>6, <1>7, <1>8 DEF Human, Environment

\* Every step of the run is one of them.
LEMMA Step == ASSUME TypeInv, [Next]_vars PROVE StepOK
<1>1. CASE Next
  BY <1>1, LoopType, TickType, StartType, CallbackType, PromiseType, OutsideType DEF Next, Tick
<1>2. CASE UNCHANGED vars
  <2>1. DriverOK'
    BY <1>2 DEF vars, local, TypeInv, DriverOK, PlanOK
  <2>. QED BY <1>2, <2>1, IdleTypes DEF vars, local, StepOK
<1>. QED BY <1>1, <1>2

\* The strengthened type invariant holds of every run.
THEOREM TypeInvariant == Spec => []TypeInv
<1>1. ASSUME TypeInv, [Next]_vars PROVE TypeInv'
  BY <1>1, Step DEF StepOK, JournalStep, TypeInv
<1>. QED BY <1>1, InitType, PTL DEF Spec

\* Type correctness of the whole run: whatever crashes, cancels, revisits and retries do, the
\* folded journal, the ledger, the counters and the driver's tables keep their types.
THEOREM RunTypeCorrect == Spec => []TypeOK
BY TypeInvariant, TypeInvImplies, PTL

\* The cancel request of daemon-run.ts is a cut for every DAG and every schedule: from there
\* the run only moves to cancelled, and no late verdict, gate click, retry, revisit or control
\* event changes a node except to cancel it.
THEOREM CancelIsCut == Spec => CutIsFinal
<1>1. ASSUME TypeInv, [Next]_vars, Cut(snap)
      PROVE  Cut(snap') /\ \A n \in Node : snap'.status[n] \in {snap.status[n], "cancelled"}
  BY <1>1, Step DEF StepOK, JournalStep, OnlyCancels
<1>. QED BY <1>1, TypeInvariant, PTL DEF Spec, CutIsFinal

----------------------------------------------------------------------------
(* Dispatch.                                                               *)
(*                                                                         *)
(* AttemptUsedOnce and GateBeforeWork are about one step, Arm, but what    *)
(* makes them true is spread over several: the decision, the claim a       *)
(* journal mutation later, the spawn one more mutation later, the retries, *)
(* drains and refreshes that came before.  NumbersInv and GateInv tie      *)
(* these steps together.                                                   *)

KeyOf(x) == <<x[1], x[2]>>
ItemKey == <<item.n, item.k>>

\* No worker has a number above the last dispatched one.
NumbersCounted == \A x \in spawned : x[3] <= tally.last[KeyOf(x)]

\* A reservation that is not consumed yet is the next number.
ReservedIsNext == \A key \in Key : tally.reserved[key] # 0 => tally.reserved[key] = tally.last[key] + 1

\* Between the claim and the spawn the number claimed is above every number ever used.
ClaimIsNew == pc = "arm" => \A x \in spawned : KeyOf(x) = ItemKey => x[3] < tally.last[ItemKey]

NumbersInv == NumbersCounted /\ ReservedIsNext /\ ClaimIsNew

\* A step that neither numbers an attempt nor starts a worker.
Calm ==
  /\ tally'.last = tally.last /\ tally'.reserved = tally.reserved
  /\ spawned' = spawned /\ alive' \subseteq alive
  /\ pc' = "arm" => pc = "arm" /\ item' = item

\* Such a step keeps the numbers in order.
LEMMA CalmNumbers == ASSUME NumbersInv, Calm PROVE NumbersInv'
BY DEF NumbersInv, NumbersCounted, ReservedIsNext, ClaimIsNew, Calm, ItemKey

\* Only a dispatch and a retry request touch the numbers.
LEMMA OtherEvents ==
  ASSUME JournalOK, NEW e, Append(e), e.type \notin {"nodeDispatched", "nodeRetryRequested"}
  PROVE  tally'.last = tally.last /\ tally'.reserved = tally.reserved
BY DEF JournalOK, Tally, Append, Count

\* The next number is one above the last, whether it was reserved or not.
LEMMA NextIsNext ==
  ASSUME TypeInv, NumbersInv, NEW n \in Node, NEW k \in Inst
  PROVE  NextAttempt(tally, n, k) = tally.last[<<n, k>>] + 1
BY DEF NumbersInv, ReservedIsNext, NextAttempt, Key

\* A retry request reserves the next number.
LEMMA RetryNumbers ==
  ASSUME TypeInv, NumbersInv, NEW n \in Node, CanRetry(n), Append(RetryEvent(n)),
         UNCHANGED <<spawned, pc, item>>
  PROVE  NumbersInv'
<1>. DEFINE k == snap.eff[n]
            key == <<n, k>>
<1>1. k \in Inst /\ key \in Key
  BY StateAssumption DEF TypeInv, JournalOK, Snapshot, CanRetry, Inst, Key
<1>2. /\ tally'.last = tally.last
      /\ tally'.reserved = [tally.reserved EXCEPT ![key] = tally.last[key] + 1]
  BY <1>1, NextIsNext DEF TypeInv, JournalOK, Tally, Append, Count, RetryEvent, Ev, EvX, EvM
<1>3. ReservedIsNext'
  BY <1>1, <1>2 DEF NumbersInv, ReservedIsNext, TypeInv, JournalOK, Tally
<1>4. NumbersCounted' /\ ClaimIsNew'
  BY <1>2 DEF NumbersInv, NumbersCounted, ClaimIsNew, ItemKey
<1>. QED BY <1>3, <1>4 DEF NumbersInv

\* claimDispatch consumes the reservation or counts on: its number was never used.
LEMMA ClaimNumbers ==
  ASSUME TypeInv, NumbersInv, ClaimWork
  PROVE  NumbersInv'
<1>1. PICK act \in plan :
        /\ act.kind = "work" /\ item' = act
        /\ Append(Ev("nodeDispatched", act.n, act.k, NextAttempt(tally, act.n, act.k)))
  BY DEF ClaimWork
<1>. DEFINE key == <<act.n, act.k>>
            a == NextAttempt(tally, act.n, act.k)
<1>2. act.n \in Node /\ act.k \in Inst /\ key \in Key
  BY <1>1, StateAssumption DEF TypeInv, DriverOK, PlanOK, Action, Inst, Key
<1>3. a = tally.last[key] + 1 /\ tally.last[key] \in Nat /\ tally.reserved[key] \in Nat
  BY <1>2, NextIsNext DEF TypeInv, JournalOK, Tally
<1>4. /\ tally'.last = [tally.last EXCEPT ![key] = a]
      /\ tally'.reserved = [tally.reserved EXCEPT ![key] = 0]
  <2>1. tally' = [tally EXCEPT !.last[key] = IF a > @ THEN a ELSE @,
                               !.reserved[key] = IF a = @ THEN 0 ELSE @]
    BY <1>1 DEF Append, Count, Ev, EvX, EvM
  <2>2. tally.reserved[key] # 0 => a = tally.reserved[key]
    BY DEF NextAttempt
  <2>3. a > tally.last[key]
    BY <1>3
  <2>4. (IF a = tally.reserved[key] THEN 0 ELSE tally.reserved[key]) = 0
    BY <2>2
  <2>. QED BY <1>2, <2>1, <2>3, <2>4 DEF TypeInv, JournalOK, Tally
<1>5. spawned' = spawned /\ ItemKey' = key
  BY <1>1 DEF ClaimWork, ItemKey
<1>6. \A x \in spawned : KeyOf(x) \in Key /\ x[3] \in Nat
  BY DEF TypeInv, OutsideOK, Attempt, KeyOf, Key
<1>7. tally.last \in [Key -> Nat] /\ tally.reserved \in [Key -> Nat]
  BY DEF TypeInv, JournalOK, Tally
<1>8. /\ tally'.last[key] = tally.last[key] + 1 /\ tally'.reserved[key] = 0
      /\ \A other \in Key \ {key} : /\ tally'.last[other] = tally.last[other]
                                   /\ tally'.reserved[other] = tally.reserved[other]
  <2>. HIDE DEF key, a
  <2>. QED BY <1>2, <1>3, <1>4, <1>7
<1>. HIDE DEF key, a
<1>9. ReservedIsNext'
  BY <1>8 DEF NumbersInv, ReservedIsNext
<1>10. NumbersCounted' /\ ClaimIsNew'
  <2>1. \A x \in spawned : x[3] <= tally.last[KeyOf(x)] /\ tally.last[KeyOf(x)] \in Nat
    BY <1>6, <1>7 DEF NumbersInv, NumbersCounted
  <2>2. \A x \in spawned : KeyOf(x) = key => x[3] < tally'.last[key]
    BY <1>6, <1>8, <2>1
  <2>3. \A x \in spawned : x[3] <= tally'.last[KeyOf(x)]
    <3>1. ASSUME NEW x \in spawned, KeyOf(x) = key PROVE x[3] <= tally'.last[KeyOf(x)]
      BY <1>3, <1>6, <1>8, <2>2, <3>1
    <3>2. ASSUME NEW x \in spawned, KeyOf(x) # key PROVE x[3] <= tally'.last[KeyOf(x)]
      BY <1>6, <1>8, <2>1, <3>2
    <3>. QED BY <3>1, <3>2
  <2>. QED BY <1>5, <2>2, <2>3 DEF NumbersCounted, ClaimIsNew
<1>. QED BY <1>9, <1>10 DEF NumbersInv

\* The spawn uses the number of its claim.
LEMMA ArmNumbers ==
  ASSUME TypeInv, NumbersInv, Arm
  PROVE  NumbersInv' /\ \A x \in alive' \ alive : x \notin spawned
<1>1. pc = "arm" /\ pc' = "dispatch" /\ item.n \in Node /\ item.k \in Inst /\ ItemKey \in Key
  BY StateAssumption DEF Arm, ArmIf, TypeInv, DriverOK, Action, Inst, ItemKey, Key
<1>2. tally'.last = tally.last /\ tally'.reserved = tally.reserved
  BY OtherEvents DEF Arm, ArmIf, TypeInv, Ev, EvX, EvM
<1>3. spawned' \subseteq spawned \cup {ItemAttempt} /\ alive' \subseteq alive \cup {ItemAttempt}
  BY DEF Arm, ArmIf
<1>4. KeyOf(ItemAttempt) = ItemKey /\ ItemAttempt[3] = tally.last[ItemKey] /\ tally.last[ItemKey] \in Nat
  BY <1>1 DEF KeyOf, ItemAttempt, ItemKey, TypeInv, JournalOK, Tally
<1>5. ItemAttempt \notin spawned
  BY <1>1, <1>4 DEF NumbersInv, ClaimIsNew
<1>6. NumbersCounted'
  BY <1>2, <1>3, <1>4 DEF NumbersInv, NumbersCounted
<1>. QED BY <1>1, <1>2, <1>3, <1>5, <1>6 DEF NumbersInv, ReservedIsNext, ClaimIsNew
----------------------------------------------------------------------------
(* Every step.                                                             *)

\* A step of the loop without a journal mutation, or with another event, is calm.
LEMMA TickCalm ==
  ASSUME TypeInv, Drive \/ (Tick /\ ~ClaimWork /\ ~Arm)
  PROVE  Calm
<1>. USE DEF Calm, Outside, history, Idling, Goto, journal
<1>a. JournalOK
  BY DEF TypeInv
<1>b. ASSUME NEW e, Append(e), e.type \notin {"nodeDispatched", "nodeRetryRequested"}
      PROVE  tally'.last = tally.last /\ tally'.reserved = tally.reserved
  BY <1>a, <1>b, OtherEvents
<1>c. ASSUME NEW S, NEW reason, Quiesce(S, reason) PROVE Calm
  BY <1>c DEF Quiesce
<1>1. CASE Drive \/ Quiesced \/ DrainClosed \/ DrainPassed \/ Wake \/ Controlled \/ PassOver
           \/ Dispatched \/ NoticeCancel
  BY <1>1 DEF Drive, Quiesced, DrainClosed, ProvesClosed, DrainPassed, Wake, Controlled, PassOver,
              Dispatched, NoticeCancel
<1>2. CASE SignalToJournal
  BY <1>2, <1>b DEF SignalToJournal, Ev, EvX, EvM
<1>3. CASE Cancelling
  BY <1>3 DEF Cancelling, StrikeNodes
<1>4. CASE Finalize
  BY <1>4 DEF Finalize
<1>5. CASE Boundary
  BY <1>5, <1>c DEF Boundary, Return
<1>6. CASE DropObsolete \/ DropOrphaned
  BY <1>6, <1>c DEF DropObsolete, DropOrphaned
<1>7. CASE Decide
  BY <1>7, <1>c DEF Decide
<1>8. CASE Publish
  <2>1. \A e \in TerminalEvent(snap) : e.type \notin {"nodeDispatched", "nodeRetryRequested"}
    BY DEF TerminalEvent, Ev, EvX, EvM
  <2>2. UNCHANGED tally \/ \E e \in TerminalEvent(snap) : Append(e)
    BY <1>8 DEF Publish
  <2>. QED BY <1>8, <1>b, <2>1, <2>2 DEF Publish
<1>9. CASE ResolveEdge
  BY <1>9, <1>b DEF ResolveEdge, EvM
<1>10. CASE SkipNode
  BY <1>10, <1>b DEF SkipNode, Ev, EvX, EvM
<1>11. CASE ClaimGate
  BY <1>11, <1>b DEF ClaimGate, Ev, EvX, EvM
<1>12. CASE ArmFailed
  BY <1>12, <1>b DEF ArmFailed, Ev, EvX, EvM
<1>13. CASE CancelLoser
  BY <1>13, <1>b DEF CancelLoser, EvX, EvM
<1>14. CASE EndTick
  BY <1>14, <1>c DEF EndTick, GiveUp, Return
<1>. QED BY <1>1, <1>2, <1>3, <1>4, <1>5, <1>6, <1>7, <1>8, <1>9, <1>10, <1>11, <1>12, <1>13, <1>14
         DEF Tick

\* So are the callbacks, the promises, the workers' exits, the humans but for the retry,
\* the cancel requests and the process deaths.
LEMMA OutsideCalm ==
  ASSUME TypeInv, \/ (Callback /\ ~CbRetry) \/ Promises \/ WorkerExit
                  \/ GateClick \/ GrantRevisit \/ Environment
  PROVE  Calm
<1>. USE DEF Calm, Outside, history, journal, local
<1>a. JournalOK
  BY DEF TypeInv
<1>b. ASSUME NEW e, Append(e), e.type \notin {"nodeDispatched", "nodeRetryRequested"}
      PROVE  tally'.last = tally.last /\ tally'.reserved = tally.reserved
  BY <1>a, <1>b, OtherEvents
<1>c. Finally /\ tally'.last = tally.last /\ tally'.reserved = tally.reserved => Calm
  BY DEF Finally
<1>1. CASE CbVerdict
  BY <1>1, <1>b, <1>c DEF CbVerdict, CbEvent, EvM, TypeInv, CbOK
<1>2. CASE CbDrain
  <2>1. tally'.last = tally.last /\ tally'.reserved = tally.reserved
    BY <1>2, <1>b DEF CbDrain, CbEvent, EvX, EvM
  <2>. QED BY <1>2, <1>c, <2>1 DEF CbDrain
<1>3. CASE CbCancelled
  <2>1. tally'.last = tally.last /\ tally'.reserved = tally.reserved
    BY <1>3, <1>b DEF CbCancelled, EvX, EvM
  <2>. QED BY <1>3, <1>c, <2>1 DEF CbCancelled
<1>4. CASE CbRevisit
  BY <1>4, <1>b DEF CbRevisit, CbEvent, EvM
<1>5. CASE CbRefresh
  BY <1>5, <1>b DEF CbRefresh, EvM
<1>6. CASE Promises \/ WorkerExit
  BY <1>6 DEF Promises, Settle, Judge, WorkerExit
<1>7. CASE GateClick
  BY <1>7, <1>b DEF GateClick, Click, EvX, EvM
<1>8. CASE GrantRevisit
  BY <1>8, <1>b DEF GrantRevisit, EvM
<1>9. CASE Environment
  BY <1>9, <1>b DEF Environment, Cancel, CancelAnd, ForeignCancel, BareAbort, Crash, Ev, EvX, EvM
<1>. QED BY <1>1, <1>2, <1>3, <1>4, <1>5, <1>6, <1>7, <1>8, <1>9 DEF Callback

\* Only the spawn starts workers, and no step mixes up the numbers.
LEMMA NumbersStep ==
  ASSUME TypeInv, NumbersInv, [Next]_vars
  PROVE  NumbersInv' /\ \A x \in alive' \ alive : x \notin spawned
<1>1. CASE ClaimWork
  BY <1>1, ClaimNumbers DEF ClaimWork
<1>2. CASE Arm
  BY <1>2, ArmNumbers
<1>3. CASE Retry
  BY <1>3, RetryNumbers DEF Retry, local, history
<1>4. CASE CbRetry
  <2>1. CASE CanRetry(cb.n)
    BY <1>4, <2>1, RetryNumbers DEF CbRetry, history, TypeInv, CbOK, CbType
  <2>2. CASE ~CanRetry(cb.n)
    BY <1>4, <2>2, CalmNumbers DEF CbRetry, Calm, journal, history
  <2>. QED BY <1>4, <2>1, <2>2 DEF CbRetry
<1>5. CASE Calm
  BY <1>5, CalmNumbers DEF Calm
<1>6. CASE UNCHANGED vars
  BY <1>6, <1>5 DEF vars, Calm, journal, local, history
<1>. QED
  BY <1>1, <1>2, <1>3, <1>4, <1>5, <1>6, TickCalm, OutsideCalm DEF Next, Human, Callback, Tick

\* Numbers are in order in every run.
THEOREM NumbersInvariant == Spec => []NumbersInv
<1>1. Init => NumbersInv
  BY DEF Init, NumbersInv, NumbersCounted, ReservedIsNext, ClaimIsNew, EmptyTally
<1>2. TypeInv /\ NumbersInv /\ [Next]_vars => NumbersInv'
  BY NumbersStep
<1>. QED BY <1>1, <1>2, TypeInvariant, PTL DEF Spec

\* The claim of shared-node-runtime.ts and the retry of daemon-run.ts (nextAttemptIdFor) never
\* hand the same attempt directory to two workers, whatever is retried, drained, revisited or
\* cancelled and whenever the driver dies.
THEOREM AttemptsAreUsedOnce == Spec => AttemptUsedOnce
<1>1. TypeInv /\ NumbersInv /\ [Next]_vars => [\A x \in alive' \ alive : x \notin spawned]_vars
  BY NumbersStep
<1>. QED BY <1>1, NumbersInvariant, TypeInvariant, PTL DEF Spec, AttemptUsedOnce

----------------------------------------------------------------------------
(* Gates.                                                                  *)

\* An approval on the node view is one of the live instance.
ClearedApproved ==
  \A n \in Node : snap.cleared[n] => snap.eff[n] # 0 /\ <<n, snap.eff[n]>> \in approved

\* A planned start of node n would run its live instance, and work only behind its gate.
Allowed(s, act) ==
  act.kind \in {"gate", "work"} /\ s.status[act.n] = "pending" =>
    /\ s.eff[act.n] # 0 => act.k = s.eff[act.n]
    /\ act.kind = "work" /\ act.n \in Gated => s.cleared[act.n]

\* What this tick still wants to start is what it would decide now.
PlanAllowed == pc \in {"dispatch", "arm"} => \A act \in plan : Allowed(snap, act)

\* Between the claim and the spawn the approval stands.
ItemApproved == pc = "arm" /\ item.n \in Gated => ItemKey \in approved

\* No callback is half way while the driver decides, dispatches or publishes.
CbWhere == cb.step # "none" => pc \in Awaits \cup {"drain", "top"}

GateInv == ClearedApproved /\ PlanAllowed /\ ItemApproved /\ CbWhere /\ GateBeforeWork

\* No gate was cleared, and a cleared node kept its instance.
GateStay(s, t) == \A n \in Node : t.cleared[n] => s.cleared[n] /\ t.eff[n] = s.eff[n]

\* Only a dispatch and a click could do that.
LEMMA GateFold ==
  ASSUME NEW s \in Snapshot, NEW e, e.type \notin {"nodeDispatched", "gateDispatched", "gateResolved"}
  PROVE  GateStay(s, Fold(s, e))
<1>. USE DEF GateStay
<1>1. GateStay(s, OnRunEvent(s, e))
  BY DEF OnRunEvent, OnCancelRequested, Snapshot
<1>2. ASSUME NEW st \in NodeStatus PROVE GateStay(s, OnSettle(s, e, st))
  BY DEF OnSettle, Record, Snapshot
<1>3. GateStay(s, OnRetry(s, e))
  BY DEF OnRetry, Unblock, Snapshot
<1>4. GateStay(s, OnSuperseded(s, e))
  BY DEF OnSuperseded, Unblock, Snapshot
<1>5. GateStay(s, OnEdgeResolved(s, e)) /\ GateStay(s, OnSkipped(s, e))
  BY DEF OnEdgeResolved, OnSkipped, Snapshot
<1>6. GateStay(s, OnCancelled(s, e))
  BY DEF OnCancelled, Record, Snapshot
<1>7. GateStay(s, OnDrained(s, e))
  BY DEF OnDrained, Snapshot
<1>. QED
  BY ZenonT(30), <1>1, <1>2, <1>3, <1>4, <1>5, <1>6, <1>7 DEF Fold, Applied, OnNodeEvent, NodeStatus

\* Nor does striking nodes.
LEMMA GateStrike ==
  ASSUME NEW s \in Snapshot, NEW S \in SUBSET Node, NEW latest
  PROVE  GateStay(s, StrikeAll(s, S, latest))
BY DEF GateStay, StrikeAll, Snapshot

\* A start makes its instance the live one, or does nothing to the node.
StartsOnly(s, t, n, k) ==
  /\ t.cleared = s.cleared
  /\ \A m \in Node \ {n} : t.status[m] = s.status[m] /\ t.eff[m] = s.eff[m]
  /\ \/ t.status[n] # "pending" /\ t.eff[n] = k
     \/ t.status[n] = s.status[n] /\ t.eff[n] = s.eff[n]

\* The two events that start a node do no more than that.
LEMMA StartFold ==
  ASSUME NEW s \in Snapshot, NEW e, WellFormed(e), e.type \in {"nodeDispatched", "gateDispatched"}
  PROVE  StartsOnly(s, Fold(s, e), e.n, e.k)
<1>. USE DEF WellFormed, Event, StartsOnly
<1>1. StartsOnly(s, s, e.n, e.k)
  OBVIOUS
<1>2. StartsOnly(s, OnDispatched(s, e), e.n, e.k)
  BY DEF OnDispatched, RecordEffective, Snapshot
<1>3. StartsOnly(s, OnGateDispatched(s, e), e.n, e.k)
  BY DEF OnGateDispatched, Snapshot
<1>. QED BY <1>1, <1>2, <1>3 DEF Fold, Applied, RunEvent, OnNodeEvent

\* A click clears at most the gate it answers, and moves no instance.
LEMMA ClickFold ==
  ASSUME NEW s \in Snapshot, NEW e, WellFormed(e), e.type = "gateResolved"
  PROVE  /\ Fold(s, e).eff = s.eff
         /\ \A n \in Node : Fold(s, e).cleared[n] =>
               s.cleared[n] \/ (n = e.n /\ s.eff[n] = e.k /\ e.x = "approved")
<1>1. /\ OnGateResolved(s, e).eff = s.eff
      /\ \A n \in Node : OnGateResolved(s, e).cleared[n] =>
            s.cleared[n] \/ (n = e.n /\ s.eff[n] = e.k /\ e.x = "approved")
  BY DEF OnGateResolved, Snapshot, WellFormed, Event
<1>. QED BY <1>1 DEF Fold, Applied, RunEvent, OnNodeEvent

\* An event that leaves the planned starts as they are.
PlanStay(s, t) ==
  /\ t.eff = s.eff /\ t.cleared = s.cleared
  /\ \A n \in Node : t.status[n] = "pending" => s.status[n] = "pending"

\* A failed arming, a fence record and a cancel request are such events.
LEMMA PlanFold ==
  ASSUME NEW s \in Snapshot, NEW e, WellFormed(e),
         e.type \in {"nodeFailed", "nodeWorkerFenceArmed", "runCancelRequested"}
  PROVE  PlanStay(s, Fold(s, e))
<1>. USE DEF WellFormed, Event, PlanStay
<1>1. PlanStay(s, s)
  OBVIOUS
<1>2. PlanStay(s, OnSettle(s, e, "failed"))
  BY DEF OnSettle, Record, Snapshot
<1>3. PlanStay(s, OnCancelRequested(s))
  BY DEF OnCancelRequested, Snapshot
<1>. QED BY <1>1, <1>2, <1>3 DEF Fold, Applied, RunEvent, OnNodeEvent, OnRunEvent

\* What decideNext plans is allowed.
LEMMA PlanIsAllowed ==
  ASSUME NEW s \in Snapshot, NEW act \in Plan(s)
  PROVE  Allowed(s, act)
<1>1. CASE act \in StartActions(s)
  <2>1. PICK n \in Startable(s) :
           act = Act(IF WantsGate(s, n) THEN "gate" ELSE "work", n, n, InstanceFor(s, n))
    BY <1>1 DEF StartActions
  <2>. QED BY <2>1 DEF Act, Allowed, WantsGate, InstanceFor
<1>2. CASE act \in CancelActions(s)
  BY <1>2 DEF CancelActions, Act, Allowed
<1>. QED BY <1>1, <1>2 DEF Plan

\* The parts about approvals; CbWhere has a proof of its own.
Approvals == ClearedApproved /\ PlanAllowed /\ ItemApproved /\ GateBeforeWork

\* A step outside the dispatch that clears no gate.
AwayFromDispatch ==
  /\ GateStay(snap, snap') /\ approved' = approved /\ spawned' = spawned
  /\ pc' \notin {"dispatch", "arm"}

\* A step, maybe between a decision and its spawn, that leaves the planned starts as they are.
BesideDispatch ==
  /\ PlanStay(snap, snap') /\ approved' = approved /\ spawned' = spawned /\ plan' \subseteq plan
  /\ pc' = "arm" => pc = "arm" /\ item' = item
  /\ pc' = "dispatch" => pc \in {"dispatch", "arm"}

\* Neither kind of step disturbs the approvals.
LEMMA CalmApprovals ==
  ASSUME TypeInv, Approvals, AwayFromDispatch \/ BesideDispatch
  PROVE  Approvals'
<1>. USE DEF Approvals
<1>1. CASE AwayFromDispatch
  BY <1>1 DEF AwayFromDispatch, GateStay, ClearedApproved, PlanAllowed, ItemApproved, GateBeforeWork
<1>2. CASE BesideDispatch
  <2>1. ClearedApproved' /\ GateBeforeWork'
    BY <1>2 DEF BesideDispatch, PlanStay, ClearedApproved, GateBeforeWork
  <2>2. \A act \in plan : act.n \in Node
    BY DEF TypeInv, DriverOK, PlanOK, Action
  <2>3. PlanAllowed'
    BY <1>2, <2>2 DEF BesideDispatch, PlanStay, PlanAllowed, Allowed
  <2>4. ItemApproved'
    BY <1>2 DEF BesideDispatch, ItemApproved, ItemKey
  <2>. QED BY <2>1, <2>3, <2>4
<1>. QED BY <1>1, <1>2

\* A dispatch of an allowed start of a pending node keeps the approvals on the node view, and
\* what else is planned stays allowed.
LEMMA StartApprovals ==
  ASSUME TypeInv, Approvals, pc = "dispatch",
         NEW act \in plan, act.kind \in {"gate", "work"}, snap.status[act.n] = "pending",
         StartsOnly(snap, snap', act.n, act.k),
         approved' = approved, plan' = plan \ {act}
  PROVE  ClearedApproved' /\ \A other \in plan' : Allowed(snap', other)
<1>1. \A other \in plan : other.n \in Node /\ (other.kind \in {"gate", "work"} => other.k # 0)
  BY DEF TypeInv, DriverOK, PlanOK, Action
<1>2. \A other \in plan : Allowed(snap, other)
  BY DEF Approvals, PlanAllowed
<1>3. snap.cleared[act.n] => act.k = snap.eff[act.n]
  BY <1>1, <1>2 DEF Approvals, ClearedApproved, Allowed
<1>4. snap'.cleared = snap.cleared
  BY DEF StartsOnly
<1>5. \A n \in Node : snap.cleared[n] => snap'.eff[n] = snap.eff[n]
  BY <1>3 DEF StartsOnly
<1>6. ClearedApproved'
  BY <1>4, <1>5 DEF Approvals, ClearedApproved
<1>7. \A n \in Node : snap'.status[n] = "pending" =>
        snap.status[n] = "pending" /\ snap'.eff[n] = snap.eff[n]
  BY DEF StartsOnly
<1>8. ASSUME NEW other \in plan' PROVE Allowed(snap', other)
  BY <1>1, <1>2, <1>4, <1>7 DEF Allowed
<1>. QED BY <1>6, <1>8

\* Deciding, claiming, arming, and passing over.
LEMMA DispatchApprovals ==
  ASSUME TypeInv, Approvals, Decide \/ ClaimWork \/ ClaimGate \/ PassOver \/ Arm \/ ArmFailed
  PROVE  Approvals'
<1>a. JournalOK /\ snap \in Snapshot /\ tally \in Tally /\ plan \subseteq Action
      /\ \A act \in plan : act.kind \in {"gate", "work"} => act.k # 0
  BY DEF TypeInv, JournalOK, DriverOK, PlanOK
<1>1. CASE Decide
  <2>1. UNCHANGED <<snap, approved, spawned>>
    BY <1>1 DEF Decide, Quiesce, Idling, Outside, history, journal
  <2>2. pc' # "arm" /\ (pc' = "dispatch" => plan' = Plan(snap))
    BY <1>1 DEF Decide, Quiesce, Goto
  <2>3. PlanAllowed'
    BY <2>1, <2>2, PlanIsAllowed, <1>a DEF PlanAllowed
  <2>. QED BY <2>1, <2>2, <2>3 DEF Approvals, ClearedApproved, ItemApproved, GateBeforeWork
<1>2. CASE ClaimWork
  <2>1. PICK act \in plan :
          /\ act.kind = "work" /\ snap.status[act.n] = "pending"
          /\ Append(Ev("nodeDispatched", act.n, act.k, NextAttempt(tally, act.n, act.k)))
          /\ item' = act /\ plan' = plan \ {act}
    BY <1>2 DEF ClaimWork, Claimable
  <2>. DEFINE e == Ev("nodeDispatched", act.n, act.k, NextAttempt(tally, act.n, act.k))
  <2>2. act.n \in Node /\ act.k \in 0 .. MaxInst /\ act.k \in Inst
    BY <1>a, <2>1, StateAssumption DEF Action, Inst
  <2>3. WellFormed(e) /\ e.type = "nodeDispatched" /\ e.n = act.n /\ e.k = act.k
    <3>1. NextAttempt(tally, act.n, act.k) \in Nat
      BY <1>a, <2>2, NextAttemptType
    <3>2. e \in Event
      BY <2>2, <3>1, EvType DEF EventType, Detail, BlockCode
    <3>. QED BY <1>a, <2>1, <3>2 DEF WellFormed, Ev, Opens
  <2>4. StartsOnly(snap, snap', act.n, act.k)
    <3>. HIDE DEF e
    <3>. QED BY <1>a, <2>1, <2>3, StartFold DEF Append, e
  <2>5. pc = "dispatch" /\ approved' = approved /\ spawned' = spawned
    BY <1>2 DEF ClaimWork
  <2>6. ClearedApproved' /\ \A other \in plan' : Allowed(snap', other)
    BY <2>1, <2>4, <2>5, StartApprovals
  <2>7. ItemApproved'
    <3>1. Allowed(snap, act)
      BY <2>5 DEF Approvals, PlanAllowed
    <3>. QED BY <2>1, <2>2, <2>5, <3>1 DEF Allowed, Approvals, ClearedApproved, ItemApproved, ItemKey
  <2>. QED BY <2>5, <2>6, <2>7 DEF Approvals, PlanAllowed, GateBeforeWork
<1>3. CASE ClaimGate
  <2>1. PICK act \in plan :
          /\ act.kind = "gate" /\ snap.status[act.n] = "pending"
          /\ Append(Ev("gateDispatched", act.n, act.k, 0)) /\ plan' = plan \ {act}
    BY <1>3 DEF ClaimGate, Claimable
  <2>. DEFINE e == Ev("gateDispatched", act.n, act.k, 0)
  <2>2. act.n \in Node /\ act.k \in 0 .. MaxInst /\ act.k # 0
    BY <1>a, <2>1 DEF Action
  <2>3. WellFormed(e) /\ e.type = "gateDispatched" /\ e.n = act.n /\ e.k = act.k
    <3>1. e \in Event
      BY <2>2, EvType DEF EventType, Detail, BlockCode
    <3>. QED BY <2>2, <3>1 DEF WellFormed, Ev
  <2>4. StartsOnly(snap, snap', act.n, act.k)
    <3>. HIDE DEF e
    <3>. QED BY <1>a, <2>1, <2>3, StartFold DEF Append, e
  <2>5. pc = "dispatch" /\ pc' = "dispatch" /\ approved' = approved /\ spawned' = spawned
    BY <1>3 DEF ClaimGate, Outside, history
  <2>6. ClearedApproved' /\ \A other \in plan' : Allowed(snap', other)
    BY <2>1, <2>4, <2>5, StartApprovals
  <2>. QED BY <2>5, <2>6 DEF Approvals, PlanAllowed, ItemApproved, GateBeforeWork
<1>4. CASE PassOver
  <2>1. BesideDispatch
    BY <1>4 DEF PassOver, BesideDispatch, PlanStay, journal, Outside, history
  <2>. QED BY <2>1, CalmApprovals
<1>b. pc = "arm" => item.n \in Node /\ item.k \in 0 .. MaxInst /\ item.k # 0 /\ ItemAttempt[3] \in Nat
  BY <1>a, StateAssumption DEF TypeInv, DriverOK, Action, ItemAttempt, Tally, Key, Inst
<1>c. ASSUME NEW type \in {"nodeFailed", "nodeWorkerFenceArmed"}, pc = "arm",
             Append(Ev(type, item.n, item.k, ItemAttempt[3]))
      PROVE  PlanStay(snap, snap')
  <2>. DEFINE e == Ev(type, item.n, item.k, ItemAttempt[3])
  <2>1. e \in Event /\ e.type = type /\ e.k # 0
    BY <1>b, <1>c, EvType DEF EventType, Detail, BlockCode, Ev
  <2>2. WellFormed(e)
    BY <2>1 DEF WellFormed
  <2>. HIDE DEF e
  <2>. QED BY <1>a, <1>c, <2>1, <2>2, PlanFold DEF Append, e
<1>5. CASE Arm
  <2>1. PlanStay(snap, snap') /\ pc = "arm" /\ pc' = "dispatch" /\ UNCHANGED <<plan, approved>>
    BY <1>5, <1>c DEF Arm, ArmIf
  <2>2. spawned' \subseteq spawned \cup {ItemAttempt}
    BY <1>5 DEF Arm, ArmIf
  <2>3. GateBeforeWork'
    <3>1. ItemAttempt[1] \in Gated => <<ItemAttempt[1], ItemAttempt[2]>> \in approved
      BY <2>1 DEF Approvals, ItemApproved, ItemAttempt, ItemKey
    <3>. QED BY <2>1, <2>2, <3>1 DEF Approvals, GateBeforeWork
  <2>4. \A act \in plan : act.n \in Node
    BY <1>a DEF Action
  <2>5. PlanAllowed'
    BY <2>1, <2>4 DEF PlanStay, Approvals, PlanAllowed, Allowed
  <2>6. ClearedApproved' /\ ItemApproved'
    BY <2>1 DEF PlanStay, Approvals, ClearedApproved, ItemApproved
  <2>. QED BY <2>3, <2>5, <2>6 DEF Approvals
<1>6. CASE ArmFailed
  <2>1. BesideDispatch
    BY <1>6, <1>c DEF ArmFailed, BesideDispatch, Outside, history
  <2>. QED BY <2>1, CalmApprovals
<1>. QED BY <1>1, <1>2, <1>3, <1>4, <1>5, <1>6

\* The rest of the loop works outside the dispatch and clears no gate.
LEMMA LoopAway ==
  ASSUME TypeInv, Drive \/ Tick,
         ~(Decide \/ ClaimWork \/ ClaimGate \/ PassOver \/ Arm \/ ArmFailed)
  PROVE  AwayFromDispatch
<1>. USE DEF AwayFromDispatch, Outside, history, Idling, Goto, journal
<1>a. snap \in Snapshot /\ GateStay(snap, snap)
  BY DEF TypeInv, JournalOK, GateStay
<1>b. ASSUME NEW e, Append(e), e.type \notin {"nodeDispatched", "gateDispatched", "gateResolved"}
      PROVE  GateStay(snap, snap')
  BY <1>a, <1>b, GateFold DEF Append
<1>c. ASSUME NEW S, NEW reason, Quiesce(S, reason) PROVE AwayFromDispatch
  BY <1>a, <1>c DEF Quiesce
<1>1. CASE Drive \/ Quiesced \/ DrainClosed \/ DrainPassed \/ Wake \/ Controlled
           \/ Dispatched \/ NoticeCancel
  BY <1>a, <1>1 DEF Drive, Quiesced, DrainClosed, ProvesClosed, DrainPassed, Wake, Controlled,
              Dispatched, NoticeCancel
<1>2. CASE SignalToJournal
  BY <1>2, <1>b DEF SignalToJournal, Ev
<1>3. CASE Cancelling
  BY <1>3, <1>a, GateStrike DEF Cancelling, StrikeNodes
<1>4. CASE Finalize
  <2>. DEFINE S == {n \in Node : snap.status[n] \in {"pending", "gateWaiting", "running"}}
              struck == StrikeAll(snap, S, tally.last)
              e == Ev("runCancelled", AnyNode, 0, 0)
  <2>1. struck \in Snapshot /\ GateStay(snap, struck)
    BY <1>a, StrikeAllType, GateStrike DEF TypeInv, JournalOK, Tally
  <2>2. GateStay(struck, Fold(struck, e))
    <3>1. e.type \notin {"nodeDispatched", "gateDispatched", "gateResolved"}
      BY DEF Ev
    <3>. HIDE DEF struck, e
    <3>. QED BY <2>1, <3>1, GateFold
  <2>3. GateStay(snap, Fold(struck, e))
    <3>. HIDE DEF struck, e
    <3>. QED BY <2>1, <2>2 DEF GateStay
  <2>4. snap' = snap \/ snap' = Fold(struck, e)
    BY <1>4 DEF Finalize
  <2>. QED BY <1>4, <1>a, <2>3, <2>4 DEF Finalize
<1>5. CASE Boundary
  BY <1>a, <1>5, <1>c DEF Boundary, Return
<1>6. CASE DropObsolete \/ DropOrphaned
  BY <1>6, <1>c DEF DropObsolete, DropOrphaned
<1>7. CASE Publish
  <2>1. \A e \in TerminalEvent(snap) : e.type \notin {"nodeDispatched", "gateDispatched", "gateResolved"}
    BY DEF TerminalEvent, Ev
  <2>2. UNCHANGED snap \/ \E e \in TerminalEvent(snap) : Append(e)
    BY <1>7 DEF Publish
  <2>. QED BY <1>7, <1>a, <1>b, <2>1, <2>2 DEF Publish
<1>8. CASE ResolveEdge
  BY <1>8, <1>b DEF ResolveEdge, EvM
<1>9. CASE SkipNode
  BY <1>9, <1>b DEF SkipNode, Ev
<1>10. CASE CancelLoser
  BY <1>10, <1>a, <1>b DEF CancelLoser, EvX
<1>11. CASE EndTick
  BY <1>11, <1>a, <1>c DEF EndTick, GiveUp, Return
<1>. QED BY <1>1, <1>2, <1>3, <1>4, <1>5, <1>6, <1>7, <1>8, <1>9, <1>10, <1>11 DEF Tick

\* Callbacks, promises and humans act outside the dispatch; only a click clears a gate, and
\* of the live instance.
LEMMA OutsideApprovals ==
  ASSUME TypeInv, Approvals, CbWhere, Callback \/ Promises \/ WorkerExit \/ Human \/ Environment
  PROVE  Approvals'
<1>. USE DEF Outside, history, journal, local
<1>a. snap \in Snapshot /\ GateStay(snap, snap) /\ PlanStay(snap, snap)
  BY DEF TypeInv, JournalOK, GateStay, PlanStay
<1>b. ASSUME NEW e, Append(e), e.type \notin {"nodeDispatched", "gateDispatched", "gateResolved"}
      PROVE  GateStay(snap, snap')
  BY <1>a, <1>b, GateFold DEF Append
<1>c. Quiet \/ cb.step # "none" => pc \notin {"dispatch", "arm"}
  BY DEF CbWhere, Quiet, Awaits
<1>d. Finally => /\ pc' \in {pc, "top"}
                 /\ UNCHANGED <<approved, spawned>>
  BY DEF Finally
<1>1. CASE CbVerdict
  BY <1>1, <1>b, <1>c, <1>d, CalmApprovals DEF CbVerdict, CbEvent, EvM, TypeInv, CbOK, AwayFromDispatch
<1>2. CASE CbDrain
  <2>1. GateStay(snap, snap')
    BY <1>2, <1>a, <1>b DEF CbDrain, CbEvent, EvX, EvM
  <2>. QED BY <1>2, <1>c, <1>d, <2>1, CalmApprovals DEF CbDrain, AwayFromDispatch
<1>3. CASE CbCancelled
  <2>1. GateStay(snap, snap')
    BY <1>3, <1>a, <1>b DEF CbCancelled, EvX
  <2>. QED BY <1>3, <1>c, <1>d, <2>1, CalmApprovals DEF CbCancelled, AwayFromDispatch
<1>4. CASE CbRevisit
  BY <1>4, <1>b, <1>c, CalmApprovals DEF CbRevisit, CbEvent, EvM, AwayFromDispatch
<1>5. CASE CbRefresh
  BY <1>5, <1>b, <1>c, CalmApprovals DEF CbRefresh, EvM, AwayFromDispatch
<1>6. CASE CbRetry
  <2>1. GateStay(snap, snap')
    BY <1>6, <1>a, <1>b DEF CbRetry, RetryEvent, Ev
  <2>. QED BY <1>6, <1>c, <2>1, CalmApprovals DEF CbRetry, AwayFromDispatch
<1>7. CASE Promises
  BY <1>7, <1>a, <1>c, CalmApprovals DEF Promises, Settle, Judge, AwayFromDispatch
<1>8. CASE WorkerExit
  BY <1>8, <1>a, CalmApprovals DEF WorkerExit, BesideDispatch
<1>9. CASE GateClick
  <2>1. PICK n \in Node, choice \in {"approved", "rejected"} :
          /\ snap.status[n] = "gateWaiting"
          /\ Append(EvX("gateResolved", n, snap.eff[n], 0, choice))
          /\ approved' = IF choice = "approved" THEN approved \cup {<<n, snap.eff[n]>>} ELSE approved
    BY <1>9 DEF GateClick, Click
  <2>. DEFINE e == EvX("gateResolved", n, snap.eff[n], 0, choice)
  <2>2. snap.eff[n] \in 0 .. MaxInst /\ snap.eff[n] # 0
    BY <1>a, <2>1 DEF TypeInv, JournalOK, GatesNamed, Snapshot
  <2>3. WellFormed(e) /\ e.type = "gateResolved" /\ e.n = n /\ e.k = snap.eff[n] /\ e.x = choice
    BY <2>2, EvType DEF WellFormed, EventType, EvX, Detail
  <2>4. /\ snap'.eff = snap.eff
        /\ \A m \in Node : snap'.cleared[m] => snap.cleared[m] \/ (m = n /\ choice = "approved")
    <3>. HIDE DEF e
    <3>1. snap' = Fold(snap, e)
      BY <2>1 DEF Append, e
    <3>. QED BY <1>a, <2>3, <3>1, ClickFold
  <2>5. ClearedApproved'
    BY <2>1, <2>2, <2>4 DEF Approvals, ClearedApproved
  <2>6. GateBeforeWork'
    BY <1>9, <2>1 DEF GateClick, Click, Approvals, GateBeforeWork
  <2>7. pc' \notin {"dispatch", "arm"}
    BY <1>9, <1>c DEF GateClick, Click
  <2>. QED BY <2>5, <2>6, <2>7 DEF Approvals, PlanAllowed, ItemApproved
<1>10. CASE Retry
  BY <1>10, <1>b, <1>c, CalmApprovals DEF Retry, RetryEvent, Ev, AwayFromDispatch
<1>11. CASE GrantRevisit
  <2>1. GateStay(snap, snap')
    BY <1>11, <1>a, <1>b DEF GrantRevisit, EvM
  <2>. QED BY <1>11, <1>c, <2>1, CalmApprovals DEF GrantRevisit, AwayFromDispatch
<1>12. CASE Cancel
  BY <1>12, <1>b, <1>c, CalmApprovals DEF Cancel, CancelAnd, Ev, AwayFromDispatch
<1>13. CASE ForeignCancel
  <2>. DEFINE e == Ev("runCancelRequested", AnyNode, 0, 0)
  <2>1. WellFormed(e) /\ e.type = "runCancelRequested"
    BY RunEventFormed, AnyNodeType DEF RunEvent, Ev
  <2>2. PlanStay(snap, snap')
    <3>1. snap' = Fold(snap, e)
      BY <1>13 DEF ForeignCancel, Append
    <3>. HIDE DEF e
    <3>. QED BY <1>a, <2>1, <3>1, PlanFold
  <2>. QED BY <1>13, <2>2, CalmApprovals DEF ForeignCancel, BesideDispatch
<1>14. CASE BareAbort
  BY <1>14, <1>a, <1>c, CalmApprovals DEF BareAbort, AwayFromDispatch
<1>15. CASE Crash
  BY <1>15, <1>a, CalmApprovals DEF Crash, AwayFromDispatch
<1>. QED BY <1>1, <1>2, <1>3, <1>4, <1>5, <1>6, <1>7, <1>8, <1>9, <1>10, <1>11, <1>12, <1>13, <1>14,
            <1>15 DEF Callback, Human, Environment

\* The driver leaves an await only when no callback is half way, and callbacks begin at awaits.
LEMMA CbWhereStep ==
  ASSUME TypeInv, CbWhere, [Next]_vars
  PROVE  CbWhere'
<1>. USE DEF CbWhere, Steps, Awaits, Quiet
<1>1. CASE UNCHANGED <<pc, cb>>
  BY <1>1
<1>2. CASE cb.step = "none" /\ UNCHANGED cb
  BY <1>2
<1>3. CASE cb' = NoCb
  BY <1>3 DEF NoCb
<1>4. CASE UNCHANGED pc /\ (Quiet \/ pc = "drain" \/ cb.step # "none")
  BY <1>4
<1>5. CASE Drive
  BY <1>5 DEF Drive
<1>6. CASE Tick
  BY <1>2, <1>4, <1>6 DEF Tick, SignalToJournal, Cancelling, Finalize, Boundary, DropObsolete, DropOrphaned,
        Decide, Publish, Quiesced, DrainClosed, ProvesClosed, DrainPassed, Wake, ResolveEdge, SkipNode,
        Controlled, ClaimWork, ClaimGate, PassOver, Dispatched, Arm, ArmIf, ArmFailed, CancelLoser,
        EndTick, NoticeCancel, Running, Top, Quiesce, Return, GiveUp, Goto
<1>7. CASE Callback
  BY <1>3, <1>4, <1>7 DEF Callback, CbVerdict, CbDrain, CbCancelled, CbRevisit, CbRefresh, CbRetry, Finally
<1>8. CASE Promises \/ WorkerExit \/ Human
  BY <1>1, <1>4, <1>8 DEF Promises, Settle, Judge, WorkerExit, Human, GateClick, Click, Retry, GrantRevisit,
        local
<1>9. CASE Environment
  BY <1>1, <1>3, <1>9 DEF Environment, Cancel, CancelAnd, ForeignCancel, BareAbort, Crash, local
<1>10. CASE UNCHANGED vars
  BY <1>1, <1>10 DEF vars, local
<1>. QED BY <1>5, <1>6, <1>7, <1>8, <1>9, <1>10 DEF Next

\* The approvals are in order in every run.
THEOREM GateInvariant == Spec => []GateInv
<1>1. Init => GateInv
  BY DEF Init, GateInv, ClearedApproved, PlanAllowed, ItemApproved, CbWhere, GateBeforeWork,
         EmptySnapshot, NoCb
<1>2. ASSUME TypeInv, GateInv, [Next]_vars PROVE GateInv'
  <2>1. CbWhere'
    BY <1>2, CbWhereStep DEF GateInv
  <2>2. CASE UNCHANGED vars
    BY <2>2, <1>2 DEF vars, journal, local, history, GateInv, ClearedApproved, PlanAllowed, Allowed,
       ItemApproved, ItemKey, CbWhere, GateBeforeWork
  <2>3. CASE Next
    <3>1. Approvals
      BY <1>2 DEF GateInv, Approvals
    <3>2. Approvals'
      BY <1>2, <2>3, <3>1, DispatchApprovals, LoopAway, CalmApprovals, OutsideApprovals DEF Next, GateInv
    <3>. QED BY <2>1, <3>2 DEF GateInv, Approvals
  <2>. QED BY <1>2, <2>2, <2>3
<1>. QED BY <1>1, <1>2, TypeInvariant, PTL DEF Spec

\* A gated node works only under an approval given to that very instance: no revisit, retry,
\* crash or re-drive lets a worker start behind an approval of an earlier instance.
THEOREM GatesBeforeWork == Spec => []GateBeforeWork
<1>1. GateInv => GateBeforeWork
  BY DEF GateInv
<1>. QED BY <1>1, GateInvariant, PTL


----------------------------------------------------------------------------
(* What an event does to the views.                                        *)

\* Nothing the driver's bookkeeping depends on has changed.
SameNodes(s, t) ==
  /\ t.status = s.status /\ t.eff = s.eff /\ t.inst = s.inst /\ t.att = s.att

Silent == RunEvent \cup {"nodeWorkerFenceArmed", "nodeRevisitRequested", "revisitBudgetGranted",
                         "edgeResolved"}

\* Run events, edges, fences and budgets do not touch a node.
LEMMA SilentFold ==
  ASSUME NEW s \in Snapshot, NEW e, e.type \in Silent
  PROVE  SameNodes(s, Fold(s, e))
<1>1. CASE e.type \in RunEvent
  BY <1>1 DEF Fold, Applied, OnRunEvent, OnCancelRequested, SameNodes, Snapshot, RunEvent
<1>2. CASE e.type \notin RunEvent
  BY <1>2 DEF Fold, Applied, OnNodeEvent, OnEdgeResolved, SameNodes, Snapshot, Silent
<1>. QED BY <1>1, <1>2

\* Only the node and the instance an event names can change, and no instance vanishes.
FrameOf(s, t, n, k) ==
  /\ \A m \in Node : m # n => t.status[m] = s.status[m] /\ t.eff[m] = s.eff[m]
  /\ \A key \in Key : /\ key # <<n, k>> => t.inst[key] = s.inst[key] /\ t.att[key] = s.att[key]
                      /\ s.inst[key] # "absent" => t.inst[key] # "absent"

\* Every event keeps to its frame.
LEMMA FrameFold ==
  ASSUME NEW s \in Snapshot, NEW e, WellFormed(e)
  PROVE  FrameOf(s, Fold(s, e), e.n, e.k)
<1>. USE DEF FrameOf, Snapshot, WellFormed, Event
<1>1. FrameOf(s, OnRunEvent(s, e), e.n, e.k)
  BY DEF OnRunEvent, OnCancelRequested
<1>2. FrameOf(s, OnDispatched(s, e), e.n, e.k)
  BY DEF OnDispatched, RecordEffective
<1>3. ASSUME NEW st \in {"done", "failed", "blocked"} PROVE FrameOf(s, OnSettle(s, e, st), e.n, e.k)
  BY DEF OnSettle, Record
<1>4. FrameOf(s, OnRetry(s, e), e.n, e.k)
  BY DEF OnRetry, Unblock
<1>5. FrameOf(s, OnSuperseded(s, e), e.n, e.k)
  BY DEF OnSuperseded, Unblock
<1>6. FrameOf(s, OnGateDispatched(s, e), e.n, e.k)
  BY DEF OnGateDispatched
<1>7. FrameOf(s, OnGateResolved(s, e), e.n, e.k)
  BY DEF OnGateResolved
<1>8. FrameOf(s, OnEdgeResolved(s, e), e.n, e.k) /\ FrameOf(s, OnSkipped(s, e), e.n, e.k)
  BY DEF OnEdgeResolved, OnSkipped
<1>9. FrameOf(s, OnCancelled(s, e), e.n, e.k)
  BY DEF OnCancelled, Record
<1>10. FrameOf(s, OnDrained(s, e), e.n, e.k)
  BY DEF OnDrained
<1>. QED
  BY <1>1, <1>2, <1>3, <1>4, <1>5, <1>6, <1>7, <1>8, <1>9, <1>10 DEF Fold, Applied, OnNodeEvent

\* Instance k of node n gets a status, and shows it on the node if it is the live one.
Shows(s, t, n, k, st) ==
  /\ t.inst[<<n, k>>] = st /\ t.eff = s.eff
  /\ t.status[n] = IF s.eff[n] = k THEN st ELSE s.status[n]

\* A settle, or nothing.
LEMMA SettleEffect ==
  ASSUME NEW s \in Snapshot, NEW e, WellFormed(e), e.k # 0,
         e.type \in {"nodeSucceeded", "nodeFailed", "nodeBlocked"}
  PROVE  LET t == Fold(s, e) IN
         /\ t.att = s.att
         /\ SameNodes(s, t) \/ \E st \in {"done", "failed", "blocked"} : Shows(s, t, e.n, e.k, st)
<1>1. e.n \in Node /\ <<e.n, e.k>> \in Key
  BY DEF WellFormed, Event, Key, Inst
<1>2. Fold(s, e) = s \/ \E st \in {"done", "failed", "blocked"} : Fold(s, e) = Record(s, e.n, e.k, st)
  BY DEF Fold, Applied, RunEvent, OnNodeEvent, OnSettle
<1>3. ASSUME NEW st, s.inst[<<e.n, e.k>>] # "superseded"
      PROVE  Shows(s, Record(s, e.n, e.k, st), e.n, e.k, st) /\ Record(s, e.n, e.k, st).att = s.att
  BY <1>1, <1>3 DEF Record, Shows, Snapshot
<1>4. ASSUME NEW st, s.inst[<<e.n, e.k>>] = "superseded" PROVE Record(s, e.n, e.k, st) = s
  BY <1>4 DEF Record
<1>. QED BY <1>2, <1>3, <1>4 DEF SameNodes

\* A cancelled node or instance, or nothing.
LEMMA CancelledEffect ==
  ASSUME NEW s \in Snapshot, NEW e, WellFormed(e), e.type = "nodeCancelled"
  PROVE  LET t == Fold(s, e) IN
         /\ t.att = s.att
         /\ \/ SameNodes(s, t)
            \/ e.k # 0 /\ Shows(s, t, e.n, e.k, "cancelled")
            \/ e.k = 0 /\ t.eff = s.eff /\ t.inst = s.inst /\ t.status[e.n] = "cancelled"
<1>1. e.n \in Node /\ (e.k # 0 => <<e.n, e.k>> \in Key)
  BY DEF WellFormed, Event, Key, Inst
<1>. DEFINE u == [s EXCEPT !.struck = @ \cup {<<e.n, e.k, e.a>>}]
<1>2. \/ Fold(s, e) = s
      \/ e.k = 0 /\ Fold(s, e) = [s EXCEPT !.status[e.n] = "cancelled"]
      \/ e.k # 0 /\ Fold(s, e) = Record(u, e.n, e.k, "cancelled")
  BY DEF Fold, Applied, RunEvent, OnNodeEvent, OnCancelled
<1>3. u.att = s.att /\ SameNodes(s, u)
  BY DEF Snapshot, SameNodes
<1>4. CASE e.k # 0 /\ Fold(s, e) = Record(u, e.n, e.k, "cancelled")
  <2>1. CASE s.inst[<<e.n, e.k>>] = "superseded"
    BY <1>3, <1>4, <2>1 DEF Record, SameNodes
  <2>2. CASE s.inst[<<e.n, e.k>>] # "superseded"
    BY <1>1, <1>4, <2>2 DEF Record, Shows, Snapshot
  <2>. QED BY <2>1, <2>2
<1>5. CASE e.k = 0 /\ Fold(s, e) = [s EXCEPT !.status[e.n] = "cancelled"]
  BY <1>1, <1>5 DEF Snapshot
<1>. QED BY <1>2, <1>4, <1>5 DEF SameNodes

\* A retry of the live instance, or nothing.
LEMMA RetryEffect ==
  ASSUME NEW s \in Snapshot, NEW e, WellFormed(e), e.type = "nodeRetryRequested", s.eff[e.n] = e.k
  PROVE  LET t == Fold(s, e) IN SameNodes(s, t) \/ Shows(s, t, e.n, e.k, "pending")
<1>1. e.n \in Node /\ <<e.n, e.k>> \in Key
  BY DEF WellFormed, Event, Key, Inst
<1>2. Fold(s, e) = s \/ Fold(s, e) = OnRetry(s, e)
  BY DEF Fold, Applied, RunEvent, OnNodeEvent
<1>3. Shows(s, OnRetry(s, e), e.n, e.k, "pending")
  BY <1>1 DEF OnRetry, Unblock, Shows, Snapshot
<1>. QED BY <1>2, <1>3 DEF SameNodes

\* A refreshed node forgets its live instance, or nothing happens.
LEMMA SupersededEffect ==
  ASSUME NEW s \in Snapshot, NEW e, WellFormed(e), e.type = "nodeInstanceSuperseded",
         s.eff[e.n] = e.k
  PROVE  LET t == Fold(s, e) IN
         SameNodes(s, t) \/ (t.att = s.att /\ t.eff[e.n] = 0 /\ t.status[e.n] = "pending"
                              /\ (e.k # 0 => t.inst[<<e.n, e.k>>] = "superseded"))
<1>1. e.n \in Node /\ (e.k # 0 => <<e.n, e.k>> \in Key)
  BY DEF WellFormed, Event, Key, Inst
<1>2. Fold(s, e) = s \/ Fold(s, e) = OnSuperseded(s, e)
  BY DEF Fold, Applied, RunEvent, OnNodeEvent
<1>. DEFINE u == [s EXCEPT !.inst[<<e.n, e.k>>] = "superseded", !.status[e.n] = "pending",
                          !.eff[e.n] = 0, !.cleared[e.n] = FALSE]
<1>3. /\ u.att = s.att /\ u.eff[e.n] = 0 /\ u.status[e.n] = "pending"
      /\ (e.k # 0 => u.inst[<<e.n, e.k>>] = "superseded")
  BY <1>1 DEF Snapshot
<1>4. SameNodes(u, Unblock(u)) /\ Unblock(u).att = u.att
  BY DEF Unblock, SameNodes, Snapshot
<1>5. OnSuperseded(s, e) \in {u, Unblock(u)}
  BY DEF OnSuperseded
<1>. HIDE DEF u
<1>. QED BY <1>2, <1>3, <1>4, <1>5 DEF SameNodes

\* A skipped node, or nothing.
LEMMA SkippedEffect ==
  ASSUME NEW s \in Snapshot, NEW e, WellFormed(e), e.type = "nodeSkipped"
  PROVE  LET t == Fold(s, e) IN
         /\ t.eff = s.eff /\ t.inst = s.inst /\ t.att = s.att
         /\ t.status = s.status \/ t.status[e.n] = "skipped"
<1>1. e.n \in Node
  BY DEF WellFormed, Event
<1>2. Fold(s, e) = s \/ Fold(s, e) = OnSkipped(s, e)
  BY DEF Fold, Applied, RunEvent, OnNodeEvent
<1>. QED BY <1>1, <1>2 DEF OnSkipped, Snapshot

\* The current running attempt goes back to pending, or nothing happens.
LEMMA DrainedEffect ==
  ASSUME NEW s \in Snapshot, NEW e, WellFormed(e), e.type = "nodeAttemptDrained"
  PROVE  LET t == Fold(s, e) IN
         \/ SameNodes(s, t)
         \/ /\ s.inst[<<e.n, e.k>>] = "running" /\ s.att[<<e.n, e.k>>] = e.a
            /\ t.eff = s.eff /\ t.att = s.att /\ t.inst[<<e.n, e.k>>] = "pending"
            /\ t.status = s.status \/ (s.eff[e.n] = e.k /\ t.status[e.n] = "pending")
<1>1. e.n \in Node /\ <<e.n, e.k>> \in Key
  BY DEF WellFormed, Event, Key, Inst
<1>2. \/ Fold(s, e) = s
      \/ /\ s.inst[<<e.n, e.k>>] = "running" /\ s.att[<<e.n, e.k>>] = e.a
         /\ Fold(s, e) = [s EXCEPT !.inst[<<e.n, e.k>>] = "pending",
                 !.status[e.n] = IF s.eff[e.n] = e.k /\ @ = "running" THEN "pending" ELSE @]
  BY DEF Fold, Applied, RunEvent, OnNodeEvent, OnDrained
<1>. DEFINE u == [s EXCEPT !.inst[<<e.n, e.k>>] = "pending",
                 !.status[e.n] = IF s.eff[e.n] = e.k /\ @ = "running" THEN "pending" ELSE @]
<1>3. /\ u.eff = s.eff /\ u.att = s.att /\ u.inst[<<e.n, e.k>>] = "pending"
      /\ u.status = s.status \/ (s.eff[e.n] = e.k /\ u.status[e.n] = "pending")
  BY <1>1 DEF Snapshot
<1>. HIDE DEF u
<1>4. \/ Fold(s, e) = s
      \/ s.inst[<<e.n, e.k>>] = "running" /\ s.att[<<e.n, e.k>>] = e.a /\ Fold(s, e) = u
  BY <1>2 DEF u
<1>. QED BY <1>3, <1>4 DEF SameNodes

\* The click's answer shows on the live instance, or nothing happens.
LEMMA ClickEffect ==
  ASSUME NEW s \in Snapshot, NEW e, WellFormed(e), e.type = "gateResolved", s.eff[e.n] = e.k
  PROVE  LET t == Fold(s, e) IN
         /\ t.att = s.att
         /\ SameNodes(s, t) \/ \E st \in {"pending", "failed"} : Shows(s, t, e.n, e.k, st)
<1>1. e.n \in Node /\ <<e.n, e.k>> \in Key
  BY DEF WellFormed, Event, Key, Inst
<1>. DEFINE st == IF e.x = "approved" THEN "pending" ELSE "failed"
            u == [s EXCEPT !.resolved = @ \cup {<<e.n, e.k>>}]
            v == [u EXCEPT !.inst[<<e.n, e.k>>] = st,
                    !.status[e.n] = IF s.eff[e.n] = e.k THEN st ELSE @,
                    !.cleared[e.n] = IF s.eff[e.n] = e.k /\ e.x = "approved" THEN TRUE ELSE @]
<1>2. Fold(s, e) = s \/ Fold(s, e) = u \/ Fold(s, e) = v
  BY DEF Fold, Applied, RunEvent, OnNodeEvent, OnGateResolved
<1>3. SameNodes(s, u) /\ u.att = s.att
  BY DEF SameNodes, Snapshot
<1>4. st \in {"pending", "failed"} /\ Shows(s, v, e.n, e.k, st) /\ v.att = s.att
  BY <1>1 DEF Shows, Snapshot
<1>. HIDE DEF st, u, v
<1>. QED BY <1>2, <1>3, <1>4 DEF SameNodes

\* A start puts the node and its instance to work, or at the gate.
Begins(s, t, n, k, st) == t.inst[<<n, k>>] = st /\ t.status[n] = st /\ t.eff[n] = k

\* A gate begins its instance, unless the node was cancelled or the click came first.
LEMMA GateEffect ==
  ASSUME NEW s \in Snapshot, NEW e, WellFormed(e), e.type = "gateDispatched"
  PROVE  LET t == Fold(s, e) IN
         t.att = s.att /\ (SameNodes(s, t) \/ Begins(s, t, e.n, e.k, "gateWaiting"))
<1>1. e.n \in Node /\ <<e.n, e.k>> \in Key
  BY DEF WellFormed, Event, Key, Inst
<1>2. \/ Fold(s, e) = s
      \/ Fold(s, e) = [s EXCEPT !.inst[<<e.n, e.k>>] = "gateWaiting", !.status[e.n] = "gateWaiting",
                               !.eff[e.n] = e.k]
  BY DEF Fold, Applied, RunEvent, OnNodeEvent, OnGateDispatched
<1>. DEFINE u == [s EXCEPT !.inst[<<e.n, e.k>>] = "gateWaiting", !.status[e.n] = "gateWaiting",
                          !.eff[e.n] = e.k]
<1>3. Begins(s, u, e.n, e.k, "gateWaiting") /\ u.att = s.att
  BY <1>1 DEF Begins, Snapshot
<1>. HIDE DEF u
<1>4. Fold(s, e) = s \/ Fold(s, e) = u
  BY <1>2 DEF u
<1>. QED BY <1>3, <1>4 DEF SameNodes

\* A dispatch of an instance that is new or pending begins it, under the number it names.
LEMMA DispatchedEffect ==
  ASSUME NEW s \in Snapshot, NEW e, WellFormed(e), e.type = "nodeDispatched", ~Cut(s),
         s.inst[<<e.n, e.k>>] \notin {"cancelled", "superseded"}
  PROVE  LET t == Fold(s, e) IN
         t.run = s.run /\ Begins(s, t, e.n, e.k, "running") /\ t.att[<<e.n, e.k>>] = e.a
<1>1. e.n \in Node /\ <<e.n, e.k>> \in Key
  BY DEF WellFormed, Event, Opens, Key, Inst
<1>2. Fold(s, e) = OnDispatched(s, e)
  BY DEF Fold, Applied, RunEvent, OnNodeEvent
<1>. QED BY <1>1, <1>2 DEF OnDispatched, RecordEffective, Snapshot, Begins

\* A strike shows on its nodes and on their live instances, and on nothing else.
LEMMA StrikeEffect ==
  ASSUME NEW s \in Snapshot, NEW S \in SUBSET Node, NEW latest
  PROVE  LET t == StrikeAll(s, S, latest) IN
         /\ t.eff = s.eff /\ t.att = s.att /\ t.run = s.run
         /\ \A n \in Node : t.status[n] = IF n \in S THEN "cancelled" ELSE s.status[n]
         /\ \A key \in Key :
              \/ t.inst[key] = s.inst[key]
              \/ t.inst[key] = "cancelled" /\ key[1] \in S /\ s.eff[key[1]] = key[2]
BY DEF StrikeAll, Snapshot

----------------------------------------------------------------------------
(* The node view and the instance view agree.                              *)

\* A node that could be started again shows the instance it would start.
Mirror(s) == \A n \in Node : s.status[n] = "pending" /\ s.eff[n] # 0 => s.inst[<<n, s.eff[n]>>] = "pending"

\* The live instance exists.
Exists(s) == \A n \in Node : s.eff[n] # 0 => s.inst[<<n, s.eff[n]>>] # "absent"

\* The instances of a node are numbered without gaps.
Gapless(s) ==
  \A n \in Node : \A k, j \in Inst : j < k /\ s.inst[<<n, k>>] # "absent" => s.inst[<<n, j>>] # "absent"

Views(s) == Mirror(s) /\ Exists(s) /\ Gapless(s)

\* So nextInstanceId, which counts them, names a new one, right behind the others.
LEMMA NextIsFresh ==
  ASSUME NEW s \in Snapshot, Gapless(s), NEW n \in Node, NextInstance(s, n) \in Inst
  PROVE  /\ s.inst[<<n, NextInstance(s, n)>>] = "absent"
         /\ \A j \in Inst : j < NextInstance(s, n) => s.inst[<<n, j>>] # "absent"
<1>. DEFINE T == {k \in Inst : s.inst[<<n, k>>] # "absent"}
            m == NextInstance(s, n)
<1>1. IsFiniteSet(T) /\ Cardinality(T) \in Nat /\ m = 1 + Cardinality(T)
  <2>1. IsFiniteSet(Inst)
    BY FS_Interval, StateAssumption DEF Inst
  <2>2. IsFiniteSet(T)
    BY <2>1, FS_Subset
  <2>. QED BY <2>2, FS_CardinalityType DEF NextInstance
<1>2. \A k \in T, j \in Inst : j < k => j \in T
  BY DEF Gapless
<1>3. \A b \in Nat : IsFiniteSet(1 .. b) /\ Cardinality(1 .. b) = b
  <2>. SUFFICES ASSUME NEW b \in Nat PROVE IsFiniteSet(1 .. b) /\ Cardinality(1 .. b) = b
    OBVIOUS
  <2>1. IsFiniteSet(1 .. b) /\ Cardinality(1 .. b) = IF 1 > b THEN 0 ELSE b - 1 + 1
    BY FS_Interval
  <2>. QED BY <2>1
<1>4. m \in Nat /\ \A k \in Inst : k \in Nat /\ 1 <= k /\ k <= MaxInst
  BY <1>1, StateAssumption DEF Inst
<1>5. m \notin T
  <2>. SUFFICES ASSUME m \in T PROVE FALSE
    OBVIOUS
  <2>1. 1 .. m \subseteq T
    <3>1. m \in Inst
      OBVIOUS
    <3>. HIDE DEF T, m
    <3>2. \A j \in 1 .. m : j \in Inst /\ (j < m \/ j = m)
      BY <3>1, StateAssumption DEF Inst
    <3>. QED BY <1>2, <3>2
  <2>2. Cardinality(1 .. m) <= Cardinality(T)
    BY <1>1, <2>1, FS_Subset
  <2>. QED BY <1>1, <1>3, <1>4, <2>2
<1>6. ASSUME NEW j \in Inst, j < m, j \notin T PROVE FALSE
  <2>1. T \subseteq 1 .. (j - 1)
    <3>. SUFFICES ASSUME NEW k \in T PROVE k \in 1 .. (j - 1)
      OBVIOUS
    <3>1. k \in Inst /\ ~(j < k) /\ k # j
      BY <1>2, <1>6
    <3>2. k \in Nat /\ j \in Nat /\ 1 <= k
      BY <1>4, <3>1
    <3>. QED BY <3>1, <3>2
  <2>2. j - 1 \in Nat /\ j \in Nat
    BY <1>4
  <2>4. IsFiniteSet(1 .. (j - 1)) /\ Cardinality(1 .. (j - 1)) = j - 1
    BY <1>3, <2>2
  <2>3. Cardinality(T) <= j - 1
    BY <2>1, <2>4, FS_Subset
  <2>. QED BY <1>1, <1>6, <2>2, <2>3
<1>. QED BY <1>5, <1>6

\* A worker or a promise of the live instance shows on its node, until it settles.
Engaged == {"running", "cancelled"}

\* What a writer owes the views: a start is of the instance decideNext would start, a settle of
\* one that exists, a retry, a refresh and a click of the live one, and only cancels and settles
\* end what is at work.
Fits(s, e) ==
  /\ e.type \in {"nodeDispatched", "gateDispatched"} =>
       e.k = InstanceFor(s, e.n) /\ s.status[e.n] = "pending"
  /\ e.type \in {"nodeSucceeded", "nodeFailed", "nodeBlocked", "nodeCancelled"} /\ e.k # 0 =>
       s.inst[<<e.n, e.k>>] # "absent"
  /\ e.type \in {"nodeSucceeded", "nodeFailed", "nodeBlocked"} => e.k # 0
  /\ e.type \in {"nodeRetryRequested", "nodeInstanceSuperseded", "gateResolved"} => e.k = s.eff[e.n]
  /\ e.type \in {"nodeSkipped", "nodeRetryRequested", "gateResolved"} => s.status[e.n] \notin Engaged

\* The instance that would be started is pending or new: the start takes effect.
LEMMA StartIsFree ==
  ASSUME NEW s \in Snapshot, Views(s), NEW n \in Node, s.status[n] = "pending",
         InstanceFor(s, n) \in Inst
  PROVE  /\ s.inst[<<n, InstanceFor(s, n)>>] \in {"pending", "absent"}
         /\ s.eff[n] = 0 => s.inst[<<n, InstanceFor(s, n)>>] = "absent"
         /\ \A j \in Inst : j < InstanceFor(s, n) => s.inst[<<n, j>>] # "absent"
<1>1. CASE s.eff[n] = 0
  BY <1>1, NextIsFresh DEF Views, InstanceFor
<1>2. CASE s.eff[n] # 0
  <2>1. InstanceFor(s, n) = s.eff[n]
    BY <1>2 DEF InstanceFor
  <2>2. s.inst[<<n, InstanceFor(s, n)>>] = "pending"
    BY <1>2, <2>1 DEF Views, Mirror
  <2>. QED BY <1>2, <2>2 DEF Views, Gapless
<1>. QED BY <1>1, <1>2

\* Every event that fits keeps the views in step.
LEMMA ViewsFold ==
  ASSUME NEW s \in Snapshot, NEW e, WellFormed(e), Views(s), Fits(s, e)
  PROVE  Views(Fold(s, e))
<1>. DEFINE t == Fold(s, e)
            key == <<e.n, e.k>>
<1>a. t \in Snapshot
  BY FoldType
<1>b. e.n \in Node /\ e.k \in 0 .. MaxInst /\ (e.k # 0 => e.k \in Inst)
  BY StateAssumption DEF WellFormed, Event, Inst
<1>c. FrameOf(s, t, e.n, e.k)
  BY FrameFold
<1>d. s.eff \in [Node -> 0 .. MaxInst] /\ t.eff \in [Node -> 0 .. MaxInst]
  BY <1>a DEF Snapshot
<1>e. \A n \in Node : s.eff[n] # 0 => s.eff[n] \in Inst
  BY <1>d, StateAssumption DEF Inst
<1>. SUFFICES Views(t)
  OBVIOUS
<1>. HIDE DEF t
<1>f. SameNodes(s, t) => Views(t)
  BY DEF SameNodes, Views, Mirror, Exists, Gapless
\* A status on an existing instance.
<1>g. ASSUME NEW st, Shows(s, t, e.n, e.k, st), e.k # 0, s.inst[key] # "absent", st # "absent",
             st = "pending" => s.eff[e.n] = e.k
      PROVE  Views(t)
  <2>1. Gapless(t)
    <3>1. \A k2 \in Key : t.inst[k2] # "absent" <=> s.inst[k2] # "absent"
      BY <1>c, <1>g DEF FrameOf, Shows
    <3>. QED BY <3>1 DEF Views, Gapless, Key
  <2>2. Exists(t)
    BY <1>c, <1>e, <1>g DEF FrameOf, Shows, Views, Exists, Key
  <2>3. Mirror(t)
    <3>. SUFFICES ASSUME NEW n \in Node, t.status[n] = "pending", t.eff[n] # 0
                  PROVE  t.inst[<<n, t.eff[n]>>] = "pending"
      BY DEF Mirror
    <3>1. t.eff[n] = s.eff[n] /\ s.eff[n] \in Inst /\ <<n, s.eff[n]>> \in Key
      BY <1>e, <1>g DEF Shows, Key
    <3>2. CASE n # e.n
      <4>1. t.status[n] = s.status[n] /\ t.inst[<<n, s.eff[n]>>] = s.inst[<<n, s.eff[n]>>]
        BY <1>c, <3>1, <3>2 DEF FrameOf
      <4>. QED BY <3>1, <4>1 DEF Views, Mirror
    <3>3. CASE n = e.n /\ s.eff[n] = e.k
      BY <1>g, <3>1, <3>3 DEF Shows
    <3>4. CASE n = e.n /\ s.eff[n] # e.k
      <4>1. t.status[n] = s.status[n] /\ t.inst[<<n, s.eff[n]>>] = s.inst[<<n, s.eff[n]>>]
        BY <1>c, <1>g, <3>1, <3>4 DEF FrameOf, Shows
      <4>. QED BY <3>1, <4>1 DEF Views, Mirror
    <3>. QED BY <3>2, <3>3, <3>4
  <2>. QED BY <2>1, <2>2, <2>3 DEF Views
\* A start.
<1>h. ASSUME NEW st, Begins(s, t, e.n, e.k, st), st \notin {"absent", "pending"}, e.k # 0,
             e.k = InstanceFor(s, e.n), s.status[e.n] = "pending"
      PROVE  Views(t)
  <2>1. /\ e.k \in Inst /\ key \in Key
        /\ \A j \in Inst : j < e.k => s.inst[<<e.n, j>>] # "absent"
    BY <1>b, <1>h, StartIsFree DEF Key
  <2>2. \A k2 \in Key : t.inst[k2] # "absent" <=> s.inst[k2] # "absent" \/ k2 = key
    BY <1>c, <1>h DEF FrameOf, Begins
  <2>3. Gapless(t)
    <3>. SUFFICES ASSUME NEW n \in Node, NEW k \in Inst, NEW j \in Inst, j < k, t.inst[<<n, k>>] # "absent"
                  PROVE  t.inst[<<n, j>>] # "absent"
      BY DEF Gapless
    <3>1. <<n, k>> \in Key /\ <<n, j>> \in Key
      BY DEF Key
    <3>2. CASE <<n, k>> = key
      BY <2>1, <2>2, <3>1, <3>2
    <3>3. CASE <<n, k>> # key
      BY <2>2, <3>1, <3>3 DEF Views, Gapless
    <3>. QED BY <3>2, <3>3
  <2>4. \A n \in Node \ {e.n} :
          /\ t.status[n] = s.status[n] /\ t.eff[n] = s.eff[n]
          /\ s.eff[n] # 0 => t.inst[<<n, s.eff[n]>>] = s.inst[<<n, s.eff[n]>>]
    BY <1>c, <1>e DEF FrameOf, Key
  <2>5. Mirror(t) /\ Exists(t)
    BY ZenonT(30), <1>h, <2>4 DEF Begins, Views, Mirror, Exists
  <2>. QED BY <2>3, <2>5 DEF Views
<1>1. CASE e.type \in Silent
  BY <1>1, <1>f, SilentFold DEF t
<1>2. CASE e.type \in {"nodeSucceeded", "nodeFailed", "nodeBlocked"}
  BY <1>2, <1>f, <1>g, SettleEffect DEF t, Fits
<1>3. CASE e.type = "nodeCancelled"
  <2>1. CASE e.k = 0 /\ t.eff = s.eff /\ t.inst = s.inst /\ t.status[e.n] = "cancelled"
    BY <2>1, <1>c DEF FrameOf, Views, Mirror, Exists, Gapless
  <2>. QED BY <1>3, <1>f, <1>g, <2>1, CancelledEffect DEF t, Fits
<1>4. CASE e.type = "nodeRetryRequested"
  <2>1. e.k # 0 /\ s.inst[key] # "absent"
    BY <1>4, <1>b DEF WellFormed, Fits, Views, Exists
  <2>. QED BY <1>4, <1>f, <1>g, <2>1, RetryEffect DEF t, Fits
<1>5. CASE e.type = "gateResolved"
  <2>1. e.k # 0 /\ s.inst[key] # "absent"
    BY <1>5, <1>b DEF WellFormed, Fits, Views, Exists
  <2>. QED BY <1>5, <1>f, <1>g, <2>1, ClickEffect DEF t, Fits
<1>6. CASE e.type = "nodeDispatched"
  <2>1. e.k # 0 /\ s.inst[key] \notin {"cancelled", "superseded"}
    BY <1>6, <1>b, StartIsFree DEF WellFormed, Fits, Opens
  <2>2. CASE Cut(s)
    BY <1>6, <1>f, <2>2 DEF t, Fold, PastCut, SameNodes
  <2>3. CASE ~Cut(s)
    BY <1>6, <1>h, <2>1, <2>3, DispatchedEffect DEF t, Fits
  <2>. QED BY <2>2, <2>3
<1>7. CASE e.type = "gateDispatched"
  BY <1>7, <1>f, <1>h, GateEffect DEF t, Fits, WellFormed
<1>8. CASE e.type = "nodeSkipped"
  <2>1. t.eff = s.eff /\ t.inst = s.inst /\ (t.status = s.status \/ t.status[e.n] = "skipped")
    BY <1>8, SkippedEffect DEF t
  <2>. QED BY <2>1, <1>c DEF FrameOf, Views, Mirror, Exists, Gapless
<1>9. CASE e.type = "nodeInstanceSuperseded"
  <2>1. CASE t.eff[e.n] = 0 /\ (e.k # 0 => t.inst[key] = "superseded")
    <3>1. \A k2 \in Key : t.inst[k2] # "absent" <=> s.inst[k2] # "absent"
      <4>1. e.k # 0 => s.inst[key] # "absent"
        BY <1>9, <1>b DEF Fits, Views, Exists
      <4>2. \A k2 \in Key : k2 = key => e.k # 0
        BY StateAssumption DEF Key, Inst
      <4>. QED BY <1>c, <2>1, <4>1, <4>2 DEF FrameOf
    <3>2. Gapless(t)
      BY <3>1 DEF Views, Gapless, Key
    <3>3. \A n \in Node \ {e.n} :
            /\ t.status[n] = s.status[n] /\ t.eff[n] = s.eff[n]
            /\ s.eff[n] # 0 => t.inst[<<n, s.eff[n]>>] = s.inst[<<n, s.eff[n]>>]
      BY <1>c, <1>e DEF FrameOf, Key
    <3>. QED BY ZenonT(30), <2>1, <3>2, <3>3 DEF Views, Mirror, Exists
  <2>. QED BY <1>9, <1>f, <2>1, SupersededEffect DEF t, Fits
<1>10. CASE e.type = "nodeAttemptDrained"
  <2>1. CASE SameNodes(s, t)
    BY <1>f, <2>1
  <2>2. CASE /\ s.inst[key] = "running" /\ t.eff = s.eff /\ t.inst[key] = "pending"
             /\ t.status = s.status \/ (s.eff[e.n] = e.k /\ t.status[e.n] = "pending")
    <3>1. \A k2 \in Key : t.inst[k2] # "absent" <=> s.inst[k2] # "absent"
      BY <1>c, <2>2 DEF FrameOf
    <3>2. Gapless(t)
      BY <3>1 DEF Views, Gapless, Key
    <3>3. Exists(t)
      BY <1>e, <2>2, <3>1 DEF Views, Exists, Key
    <3>4. Mirror(t)
      <4>. SUFFICES ASSUME NEW n \in Node, t.status[n] = "pending", t.eff[n] # 0
                    PROVE  t.inst[<<n, t.eff[n]>>] = "pending"
        BY DEF Mirror
      <4>1. t.eff[n] = s.eff[n] /\ <<n, s.eff[n]>> \in Key
        BY <1>e, <2>2 DEF Key
      <4>2. CASE <<n, s.eff[n]>> = key
        BY <2>2, <4>1, <4>2
      <4>3. CASE <<n, s.eff[n]>> # key
        <5>1. t.inst[<<n, s.eff[n]>>] = s.inst[<<n, s.eff[n]>>] /\ t.status[n] = s.status[n]
          BY <1>c, <2>2, <4>1, <4>3 DEF FrameOf
        <5>. QED BY <4>1, <5>1 DEF Views, Mirror
      <4>. QED BY <4>2, <4>3
    <3>. QED BY <3>2, <3>3, <3>4 DEF Views
  <2>. QED BY <1>10, <2>1, <2>2, DrainedEffect DEF t
<1>. QED
  BY <1>1, <1>2, <1>3, <1>4, <1>5, <1>6, <1>7, <1>8, <1>9, <1>10
  DEF t, WellFormed, Event, EventType, Silent, RunEvent

\* Striking nodes keeps the views in step.
LEMMA ViewsStrike ==
  ASSUME NEW s \in Snapshot, NEW S \in SUBSET Node, NEW latest, Views(s)
  PROVE  Views(StrikeAll(s, S, latest))
<1>. DEFINE t == StrikeAll(s, S, latest)
<1>1. /\ t.eff = s.eff
      /\ \A n \in Node : t.status[n] = IF n \in S THEN "cancelled" ELSE s.status[n]
      /\ \A key \in Key :
           \/ t.inst[key] = s.inst[key]
           \/ t.inst[key] = "cancelled" /\ key[1] \in S /\ s.eff[key[1]] = key[2]
  BY DEF StrikeAll, Snapshot
<1>2. \A n \in Node : s.eff[n] # 0 => <<n, s.eff[n]>> \in Key
  BY StateAssumption DEF Snapshot, Key, Inst
<1>. SUFFICES Views(t)
  OBVIOUS
<1>. HIDE DEF t
<1>3. \A key \in Key : t.inst[key] = "absent" <=> s.inst[key] = "absent"
  <2>1. \A key \in Key : t.inst[key] # s.inst[key] => s.inst[key] # "absent" /\ t.inst[key] = "cancelled"
    <3>. SUFFICES ASSUME NEW key \in Key, t.inst[key] # s.inst[key]
                  PROVE  s.inst[key] # "absent" /\ t.inst[key] = "cancelled"
      OBVIOUS
    <3>1. key = <<key[1], key[2]>> /\ key[1] \in Node /\ key[2] # 0
      BY StateAssumption DEF Key, Inst
    <3>. QED BY <1>1, <3>1 DEF Views, Exists
  <2>. QED BY <2>1
<1>4. Gapless(t) /\ Exists(t)
  BY <1>1, <1>2, <1>3 DEF Views, Gapless, Exists, Key
<1>5. Mirror(t)
  BY <1>1, <1>2 DEF Views, Mirror
<1>. QED BY <1>4, <1>5 DEF Views

\* Only a dispatch makes an instance run, or numbers one that runs.
RunsStay(s, t) ==
  \A key \in Key : t.inst[key] = "running" => s.inst[key] = "running" /\ t.att[key] = s.att[key]

\* No event but a dispatch makes an instance run.
LEMMA RunsFold ==
  ASSUME NEW s \in Snapshot, NEW e, WellFormed(e), Fits(s, e), e.type # "nodeDispatched"
  PROVE  RunsStay(s, Fold(s, e))
<1>. DEFINE t == Fold(s, e)
            key == <<e.n, e.k>>
<1>1. \A k2 \in Key : k2 # key => t.inst[k2] = s.inst[k2] /\ t.att[k2] = s.att[k2]
  BY FrameFold DEF FrameOf
<1>2. key \in Key => e.k # 0
  BY StateAssumption DEF Key, Inst
<1>. SUFFICES ASSUME key \in Key
              PROVE  t.inst[key] = "running" => s.inst[key] = "running" /\ t.att[key] = s.att[key]
  BY <1>1 DEF RunsStay
<1>3. CASE e.type \in Silent
  BY <1>3, SilentFold DEF SameNodes
<1>4. CASE e.type \in {"nodeSucceeded", "nodeFailed", "nodeBlocked"}
  BY <1>2, <1>4, SettleEffect DEF SameNodes, Shows
<1>5. CASE e.type = "nodeCancelled"
  BY <1>2, <1>5, CancelledEffect DEF SameNodes, Shows
<1>6. CASE e.type = "nodeRetryRequested"
  BY <1>6, RetryEffect DEF SameNodes, Shows, Fits
<1>7. CASE e.type = "gateResolved"
  BY <1>7, ClickEffect DEF SameNodes, Shows, Fits
<1>8. CASE e.type = "gateDispatched"
  BY <1>8, GateEffect DEF SameNodes, Begins
<1>9. CASE e.type = "nodeSkipped"
  BY <1>9, SkippedEffect
<1>10. CASE e.type = "nodeInstanceSuperseded"
  BY <1>2, <1>10, SupersededEffect DEF SameNodes, Fits
<1>11. CASE e.type = "nodeAttemptDrained"
  BY <1>11, DrainedEffect DEF SameNodes
<1>. QED
  BY <1>3, <1>4, <1>5, <1>6, <1>7, <1>8, <1>9, <1>10, <1>11
  DEF WellFormed, Event, EventType, Silent, RunEvent

\* Nor does striking.
LEMMA RunsStrike ==
  ASSUME NEW s \in Snapshot, NEW S \in SUBSET Node, NEW latest
  PROVE  RunsStay(s, StrikeAll(s, S, latest))
BY StrikeEffect DEF RunsStay

----------------------------------------------------------------------------
(* The invariant.                                                          *)

CbKey == <<cb.n, cb.k>>
CbAttempt == <<cb.n, cb.k, cb.a>>

\* A settling attempt is half way through its journal mutations.
CbBusy == cb.step \notin {"none", "retry"}

\* A running instance runs its latest attempt.
LatestRuns == \A key \in Key : snap.inst[key] = "running" => snap.att[key] = tally.last[key]

\* What had a worker, or has a promise, is an instance the journal knows.
WorkersKnown ==
  /\ alive \subseteq spawned
  /\ \A x \in spawned : snap.inst[KeyOf(x)] # "absent"
  /\ \A key \in Key : flight[key].att # 0 => snap.inst[key] # "absent"

ViewInv == Views(snap) /\ LatestRuns /\ WorkersKnown

\* An in-flight promise is of the latest attempt; the claimed instance has none yet.
FlightIsLatest ==
  /\ \A key \in Key : (flight[key].phase # "none" <=> flight[key].att # 0)
                      /\ (flight[key].att # 0 => flight[key].att = tally.last[key])
  /\ pc = "arm" => flight[ItemKey].att = 0 /\ tally.last[ItemKey] # 0

\* A callback of this process is of the attempt in flight; a drain is of another one.
CbInFlight ==
  /\ CbBusy /\ cb.mine => flight[CbKey].att = cb.a /\ cb.a # 0
  /\ CbBusy /\ ~cb.mine => cb.step \in {"drain", "cancelled"} /\ flight[CbKey].att \in {0} \cup (Nat \ {cb.a})
  /\ pc = "drain" => \A x \in todo : flight[KeyOf(x)].att # 0 => flight[KeyOf(x)].att # x[3]

FlightInv == FlightIsLatest /\ CbInFlight

\* The node of a live instance with a worker, a promise or a claim is at work or cancelled.
EngagedInv ==
  /\ \A x \in alive : x[2] = snap.eff[x[1]] /\ x[3] = tally.last[KeyOf(x)] => snap.status[x[1]] \in Engaged
  /\ \A key \in Key :
       /\ flight[key].att # 0 /\ snap.eff[key[1]] = key[2]
       /\ ~(CbBusy /\ cb.mine /\ CbKey = key)
       => snap.status[key[1]] \in Engaged
  /\ pc = "arm" => snap.eff[item.n] = item.k /\ snap.status[item.n] = "running"

\* What the tick still wants to do fits the views.
PlanInv ==
  /\ pc = "control" => \A act \in plan : act.kind = "skip" => snap.status[act.n] \in {"pending", "skipped"}
  /\ pc \in {"dispatch", "arm"} => \A act \in plan :
       act.kind \in {"gate", "work"} /\ snap.status[act.n] = "pending" => act.k = InstanceFor(snap, act.n)

\* The ledger: every worker is in it, and what is being closed has no worker.
LedgerInv ==
  /\ WorkerAccounted
  /\ CbBusy => CbAttempt \notin alive
  /\ \A key \in Key : flight[key].phase = "check" => <<key[1], key[2], flight[key].att>> \notin alive

\* A cancelled run is finalized, and a finished run shown, over an empty ledger.
QuiescentInv ==
  /\ pc = "drain" /\ why = "runCancellation" =>
       open \subseteq todo \cup (IF cb.step = "drain" THEN {CbAttempt} ELSE {})
  /\ pc = "finalize" => open = {}
  /\ pc = "arm" => snap.run \in {"running", "cancelling"}
  /\ TerminalQuiescent

WorkerInv == ViewInv /\ FlightInv /\ EngagedInv /\ PlanInv /\ LedgerInv /\ QuiescentInv
AllInv == TypeInv /\ NumbersInv /\ GateInv /\ WorkerInv

----------------------------------------------------------------------------
(* Attempt numbers and promises.                                           *)

\* Only a claim raises an attempt number.
LEMMA LastStays ==
  ASSUME TypeInv, [Next]_vars, ~ClaimWork
  PROVE  tally'.last = tally.last
<1>a. ASSUME NEW n \in Node, Append(RetryEvent(n)) PROVE tally'.last = tally.last
  BY <1>a DEF TypeInv, JournalOK, Tally, Append, Count, RetryEvent, Ev
<1>1. CASE Arm
  BY <1>1, OtherEvents DEF Arm, ArmIf, TypeInv, Ev
<1>2. CASE Retry
  BY <1>2, <1>a DEF Retry
<1>3. CASE CbRetry
  BY <1>3, <1>a DEF CbRetry, TypeInv, CbOK, CbType, journal
<1>4. CASE UNCHANGED vars
  BY <1>4 DEF vars, journal
<1>. QED BY <1>1, <1>2, <1>3, <1>4, TickCalm, OutsideCalm DEF Next, Human, Callback, Tick, Calm

\* A pending node has neither a worker nor a promise of the attempt its next start would follow.
LEMMA PendingIsIdle ==
  ASSUME AllInv, cb.step = "none", NEW n \in Node, snap.status[n] = "pending",
         NEW k \in Inst, k = InstanceFor(snap, n)
  PROVE  /\ flight[<<n, k>>].att = 0
         /\ \A x \in alive : KeyOf(x) = <<n, k>> => x[3] # tally.last[<<n, k>>]
         /\ snap.eff[n] = 0 => \A x \in spawned : KeyOf(x) # <<n, k>>
<1>. <<n, k>> \in Key /\ snap \in Snapshot
  BY DEF Key, AllInv, TypeInv, JournalOK
<1>1. CASE snap.eff[n] = 0
  <2>1. snap.inst[<<n, k>>] = "absent"
    BY <1>1, StartIsFree DEF AllInv, WorkerInv, ViewInv
  <2>. QED BY <2>1 DEF AllInv, WorkerInv, ViewInv, WorkersKnown, NumbersInv, TypeInv, OutsideOK, LedgerInv,
              KeyOf, WorkerAccounted
<1>2. CASE snap.eff[n] # 0
  <2>1. k = snap.eff[n]
    BY <1>2 DEF InstanceFor
  <2>2. flight[<<n, k>>].att = 0
    BY <2>1 DEF AllInv, WorkerInv, EngagedInv, CbBusy, Engaged
  <2>3. \A x \in alive : KeyOf(x) = <<n, k>> => x[3] # tally.last[<<n, k>>]
    BY <2>1 DEF AllInv, WorkerInv, EngagedInv, Engaged, KeyOf
  <2>. QED BY <1>2, <2>2, <2>3
<1>. QED BY <1>1, <1>2

\* The attempts in flight and their phases stay, or promises are done with.
FlightCalm ==
  /\ tally'.last = tally.last
  /\ \A key \in Key : \/ flight'[key].att = flight[key].att /\ flight'[key].phase = flight[key].phase
                      \/ flight'[key].att = 0 /\ flight'[key].phase = "none"
  /\ pc' = "arm" => pc = "arm" /\ item' = item
  /\ pc' = "drain" => pc = "drain" /\ todo' \subseteq todo

\* The callback goes on, or none is half way.
CbCalm ==
  \/ cb'.step \in {"none", "retry"}
  \/ /\ CbBusy /\ CbKey' = CbKey /\ cb'.a = cb.a /\ cb'.mine = cb.mine
     /\ cb.mine \/ cb'.step \in {"drain", "cancelled"}
     /\ flight'[CbKey].att = flight[CbKey].att

\* A step that is calm in both senses keeps promises and attempts together.
LEMMA FlightStays ==
  ASSUME AllInv, FlightCalm, CbCalm
  PROVE  FlightInv'
<1>. FlightInv /\ todo \subseteq Attempt
  BY DEF AllInv, WorkerInv, TypeInv, DriverOK
<1>1. FlightIsLatest'
  <2>1. \A key \in Key : (flight'[key].phase # "none" <=> flight'[key].att # 0)
                      /\ (flight'[key].att # 0 => flight'[key].att = tally'.last[key])
    BY DEF FlightInv, FlightIsLatest, FlightCalm
  <2>2. pc' = "arm" => flight'[ItemKey'].att = 0 /\ tally'.last[ItemKey'] # 0
    <3>1. pc = "arm" => ItemKey \in Key
      BY StateAssumption DEF AllInv, TypeInv, DriverOK, Action, ItemKey, Key, Inst
    <3>. QED BY <3>1 DEF FlightInv, FlightIsLatest, FlightCalm, ItemKey
  <2>. QED BY <2>1, <2>2 DEF FlightIsLatest
<1>2. CbInFlight'
  <2>1. CbBusy' => CbBusy /\ CbKey' = CbKey /\ cb'.a = cb.a /\ cb'.mine = cb.mine
                    /\ (cb.mine \/ cb'.step \in {"drain", "cancelled"})
                    /\ flight'[CbKey].att = flight[CbKey].att
    BY DEF CbCalm, CbBusy
  <2>2. \A x \in todo : KeyOf(x) \in Key
    BY DEF Attempt, KeyOf, Key
  <2>3. pc' = "drain" => \A x \in todo' : flight'[KeyOf(x)].att # 0 => flight'[KeyOf(x)].att # x[3]
    BY <2>2 DEF FlightInv, CbInFlight, FlightCalm
  <2>. QED BY <2>1, <2>3 DEF FlightInv, CbInFlight
<1>. QED BY <1>1, <1>2 DEF FlightInv

\* Aborting a controller leaves its attempt in flight.
LEMMA AbortKeeps ==
  ASSUME FlightOK, NEW S, NEW reason, flight' = AbortAll(S, reason)
  PROVE  \A key \in Key : flight'[key].att = flight[key].att /\ flight'[key].phase = flight[key].phase
BY DEF FlightOK, AbortAll

\* quiesceAttempts drains what this process does not own.
LEMMA QuiesceFlight ==
  ASSUME AllInv, NEW S \in SUBSET open, NEW reason, Quiesce(S, reason), cb.step = "none"
  PROVE  FlightInv'
<1>1. \A key \in Key : flight'[key].att = flight[key].att /\ flight'[key].phase = flight[key].phase
  BY AbortKeeps DEF AllInv, TypeInv, Quiesce
<1>2. FlightIsLatest'
  BY <1>1 DEF AllInv, WorkerInv, FlightInv, FlightIsLatest, Quiesce, journal
<1>3. pc' = "drain" => \A x \in todo' : flight'[KeyOf(x)].att # 0 => flight'[KeyOf(x)].att # x[3]
  <2>. SUFFICES ASSUME pc' = "drain", NEW x \in todo', flight'[KeyOf(x)].att = x[3], x[3] # 0
                PROVE  FALSE
    OBVIOUS
  <2>1. {key \in Key : flight[key].att # 0 /\ <<key[1], key[2], flight[key].att>> \in S} = {} /\ x \in S
    BY DEF Quiesce
  <2>2. x \in Attempt
    BY <2>1 DEF AllInv, TypeInv, JournalOK
  <2>3. KeyOf(x) \in Key /\ x = <<KeyOf(x)[1], KeyOf(x)[2], x[3]>>
    BY <2>2 DEF Attempt, KeyOf, Key
  <2>. QED BY <1>1, <2>1, <2>3
<1>. QED BY <1>2, <1>3 DEF FlightInv, CbInFlight, CbBusy, Quiesce

\* A settled promise leaves the table.
LEMMA FinallyFlight ==
  ASSUME AllInv, Finally, tally'.last = tally.last, CbBusy
  PROVE  FlightInv'
<1>1. CbKey \in Key
  BY StateAssumption DEF AllInv, TypeInv, CbOK, CbType, CbBusy, CbKey, Key, Inst
<1>2. FlightCalm
  <2>1. flight' = [flight EXCEPT ![CbKey] = NoFlight] \/ flight' = flight
    BY DEF Finally, CbKey
  <2>2. flight \in [Key -> [att : Nat, phase : Phase, abort : Abort]]
    BY DEF AllInv, TypeInv, FlightOK
  <2>3. \A key \in Key : \/ flight'[key].att = flight[key].att /\ flight'[key].phase = flight[key].phase
                         \/ flight'[key].att = 0 /\ flight'[key].phase = "none"
    BY <1>1, <2>1, <2>2 DEF NoFlight
  <2>. QED BY <2>3 DEF Finally, FlightCalm
<1>3. CbCalm
  BY DEF Finally, CbCalm, NoCb
<1>. QED BY <1>2, <1>3, FlightStays

\* The loop.
LEMMA TickFlight ==
  ASSUME AllInv, Drive \/ (Tick /\ ~ClaimWork /\ ~Arm)
  PROVE  FlightInv'
<1>. USE DEF FlightCalm, CbCalm, Goto, Idling
<1>a. tally'.last = tally.last
  BY TickCalm DEF AllInv, Calm
<1>b. FlightOK /\ open \subseteq Attempt /\ flight \in [Key -> [att : Nat, phase : Phase, abort : Abort]]
  BY DEF AllInv, TypeInv, JournalOK, FlightOK
<1>c. CbBusy \/ cb.step \in {"none", "retry"}
  BY DEF CbBusy
<1>d. CbInFlight
  BY DEF AllInv, WorkerInv, FlightInv
<1>1. CASE Drive \/ SignalToJournal \/ Finalize \/ Publish \/ Quiesced \/ DrainPassed \/ Wake
           \/ ResolveEdge \/ SkipNode \/ Controlled \/ ClaimGate \/ PassOver \/ Dispatched
           \/ ArmFailed \/ NoticeCancel
  <2>1. UNCHANGED <<flight, cb>>
    BY <1>1 DEF Drive, SignalToJournal, Finalize, Publish, Quiesced, DrainPassed, Wake, ResolveEdge,
         SkipNode, Controlled, ClaimGate, PassOver, Dispatched, ArmFailed, NoticeCancel
  <2>2. pc' \notin {"arm", "drain"}
    BY <1>1 DEF Drive, SignalToJournal, Finalize, Publish, Quiesced, DrainPassed, Wake, ResolveEdge,
         SkipNode, Controlled, ClaimGate, PassOver, Dispatched, ArmFailed, NoticeCancel
  <2>3. CbCalm
    BY <1>c, <1>d, <2>1 DEF CbKey, CbInFlight
  <2>. QED BY <1>a, <2>1, <2>2, <2>3, FlightStays
<1>2. CASE Cancelling
  <2>1. \A key \in Key : flight'[key].att = flight[key].att /\ flight'[key].phase = flight[key].phase
    BY <1>2, <1>b, AbortKeeps DEF Cancelling
  <2>2. pc' = "drain" => \A key \in Key : flight'[key].att = 0
    BY <1>2, <2>1 DEF Cancelling, InFlight
  <2>3. pc' = "drain" => \A x \in todo' : KeyOf(x) \in Key
    BY <1>2, <1>b DEF Cancelling, Attempt, Key, KeyOf
  <2>4. pc' # "arm" /\ cb'.step = "none"
    BY <1>2 DEF Cancelling, Top, Steps
  <2>5. FlightIsLatest'
    BY <1>a, <2>1, <2>4 DEF AllInv, WorkerInv, FlightInv, FlightIsLatest
  <2>6. CbInFlight'
    BY <2>2, <2>3, <2>4 DEF CbInFlight, CbBusy
  <2>. QED BY <2>5, <2>6 DEF FlightInv
<1>3. CASE Boundary \/ DropObsolete \/ DropOrphaned \/ Decide \/ EndTick
  <2>1. \/ \E S \in SUBSET open, reason \in DrainReason : Quiesce(S, reason)
        \/ UNCHANGED flight /\ cb' = cb /\ pc' \notin {"arm", "drain"}
    <3>1. CASE Boundary
      BY <3>1 DEF Boundary, Return, DrainReason
    <3>2. CASE DropObsolete \/ DropOrphaned
      BY <3>2 DEF DropObsolete, DropOrphaned, Obsolete, Orphaned, DrainReason
    <3>3. CASE Decide
      BY <3>3 DEF Decide, DrainReason
    <3>4. CASE EndTick
      BY <3>4 DEF EndTick, GiveUp, Return, DrainReason
    <3>. QED BY <1>3, <3>1, <3>2, <3>3, <3>4
  <2>2. cb.step = "none"
    BY <1>3 DEF Boundary, DropObsolete, DropOrphaned, Decide, EndTick, Running, Top, Steps
  <2>. QED BY <1>a, <2>1, <2>2, QuiesceFlight, FlightStays
<1>4. CASE DrainClosed
  <2>1. PICK x \in todo : cb' = [Cb("drain", x[1], x[2], x[3]) EXCEPT !.x = why, !.mine = FALSE]
    BY <1>4 DEF DrainClosed, ProvesClosed
  <2>2. x \in Attempt /\ KeyOf(x) \in Key
    BY DEF AllInv, TypeInv, DriverOK, Attempt, KeyOf, Key
  <2>3. cb'.n = x[1] /\ cb'.k = x[2] /\ cb'.a = x[3] /\ cb'.step = "drain" /\ ~cb'.mine
    BY <2>1, AnyNodeType DEF Cb, NoCb
  <2>4. UNCHANGED flight /\ pc = "drain" /\ pc' = "drain" /\ todo' \subseteq todo
    BY <1>4 DEF DrainClosed, ProvesClosed
  <2>5. FlightIsLatest'
    BY <1>a, <2>4 DEF AllInv, WorkerInv, FlightInv, FlightIsLatest
  <2>6. flight[KeyOf(x)].att \in Nat /\ (flight[KeyOf(x)].att # 0 => flight[KeyOf(x)].att # x[3])
    BY <1>b, <1>d, <2>2, <2>4 DEF CbInFlight
  <2>7. CbInFlight'
    BY <1>d, <2>3, <2>4, <2>6 DEF CbInFlight, CbBusy, CbKey, KeyOf
  <2>. QED BY <2>5, <2>7 DEF FlightInv
<1>5. CASE CancelLoser
  <2>1. \A key \in Key : flight'[key].att = flight[key].att /\ flight'[key].phase = flight[key].phase
    BY <1>5, <1>b, AbortKeeps DEF CancelLoser
  <2>. QED BY <1>5, <1>a, <2>1, FlightStays DEF CancelLoser, Steps
<1>. QED BY <1>1, <1>2, <1>3, <1>4, <1>5 DEF Tick

\* Claims and spawns.
LEMMA StartFlight ==
  ASSUME AllInv, ClaimWork \/ Arm
  PROVE  FlightInv'
<1>a. flight \in [Key -> [att : Nat, phase : Phase, abort : Abort]] /\ plan \subseteq Action
  BY DEF AllInv, TypeInv, FlightOK, DriverOK, PlanOK
<1>b. cb.step = "none" /\ cb' = cb /\ pc' # "drain"
  BY DEF ClaimWork, Arm, ArmIf, Steps
<1>c. CbInFlight'
  BY <1>b DEF CbInFlight, CbBusy
<1>1. CASE ClaimWork
  <2>1. PICK act \in plan :
          /\ act.kind = "work" /\ item' = act /\ snap.status[act.n] = "pending"
          /\ Append(Ev("nodeDispatched", act.n, act.k, NextAttempt(tally, act.n, act.k)))
    BY <1>1 DEF ClaimWork, Claimable
  <2>. DEFINE key == <<act.n, act.k>>
              a == NextAttempt(tally, act.n, act.k)
  <2>2. act.n \in Node /\ act.k \in Inst /\ key \in Key
    BY <1>a, <2>1, StateAssumption DEF AllInv, TypeInv, DriverOK, PlanOK, Action, Inst, Key
  <2>3. act.k = InstanceFor(snap, act.n)
    BY <1>1, <2>1 DEF ClaimWork, AllInv, WorkerInv, PlanInv
  <2>4. flight[key].att = 0
    BY <1>b, <2>1, <2>2, <2>3, PendingIsIdle
  <2>5. a = tally.last[key] + 1 /\ tally.last[key] \in Nat
    BY <2>2, NextIsNext DEF AllInv, TypeInv, JournalOK, Tally
  <2>0. tally' = [tally EXCEPT !.last[key] = IF a > @ THEN a ELSE @,
                               !.reserved[key] = IF a = @ THEN 0 ELSE @]
    BY <2>1 DEF Append, Count, Ev
  <2>6. tally'.last = [tally.last EXCEPT ![key] = a]
    <3>1. (IF a > tally.last[key] THEN a ELSE tally.last[key]) = a
      BY <2>5
    <3>2. tally \in Tally
      BY DEF AllInv, TypeInv, JournalOK
    <3>3. tally'.last = [tally.last EXCEPT ![key] = IF a > @ THEN a ELSE @]
      BY <2>0, <3>2 DEF Tally
    <3>. HIDE DEF key, a
    <3>. QED BY <3>1, <3>3
  <2>7. tally'.last[key] = a /\ \A other \in Key : other # key => tally'.last[other] = tally.last[other]
    BY <2>2, <2>6 DEF AllInv, TypeInv, JournalOK, Tally
  <2>8. flight' = flight /\ ItemKey' = key
    BY <1>1, <2>1 DEF ClaimWork, ItemKey
  <2>. HIDE DEF key, a
  <2>9. FlightIsLatest'
    BY <2>4, <2>5, <2>7, <2>8 DEF AllInv, WorkerInv, FlightInv, FlightIsLatest
  <2>. QED BY <1>c, <2>9 DEF FlightInv
<1>2. CASE Arm
  <2>1. tally'.last = tally.last /\ tally.last \in [Key -> Nat]
    BY <1>2, OtherEvents DEF Arm, ArmIf, Ev, AllInv, TypeInv, JournalOK, Tally
  <2>2. ItemKey \in Key /\ ItemKey = <<item.n, item.k>> /\ tally.last[ItemKey] # 0
    BY <1>2, StateAssumption DEF Arm, ArmIf, AllInv, TypeInv, DriverOK, Action, Inst, Key, ItemKey,
       WorkerInv, FlightInv, FlightIsLatest
  <2>3. \/ flight' = flight
        \/ flight' = [flight EXCEPT ![ItemKey] = [att |-> tally.last[ItemKey], phase |-> "run",
                           abort |-> IF signal THEN "run" ELSE "none"]]
    BY <1>2 DEF Arm, ArmIf, ItemAttempt, ItemKey
  <2>4. \A key \in Key :
          \/ flight'[key] = flight[key]
          \/ key = ItemKey /\ flight'[key].att = tally.last[ItemKey] /\ flight'[key].phase = "run"
    BY <1>a, <2>2, <2>3
  <2>5. pc' # "arm"
    BY <1>2 DEF Arm, ArmIf
  <2>6. FlightIsLatest'
    BY <2>1, <2>2, <2>4, <2>5 DEF AllInv, WorkerInv, FlightInv, FlightIsLatest
  <2>. QED BY <1>c, <2>6 DEF FlightInv
<1>. QED BY <1>1, <1>2

\* Callbacks, promises and everybody else.
LEMMA OutsideFlight ==
  ASSUME AllInv, Callback \/ Promises \/ WorkerExit \/ Human \/ Environment
  PROVE  FlightInv'
<1>. USE DEF FlightCalm, Outside, journal, local
<1>a. tally'.last = tally.last
  <2>1. ~ClaimWork \/ tally'.last = tally.last
    BY DEF Callback, CbVerdict, CbDrain, CbCancelled, CbRevisit, CbRefresh, CbRetry, Promises, Settle,
       Judge, WorkerExit, Human, GateClick, Click, Retry, GrantRevisit, Environment, Cancel, CancelAnd,
       ForeignCancel, BareAbort, Crash, ClaimWork, Steps, Quiet, Awaits, history
  <2>. QED BY <2>1, LastStays DEF Next, AllInv
<1>b. FlightOK /\ flight \in [Key -> [att : Nat, phase : Phase, abort : Abort]]
  BY DEF AllInv, TypeInv, FlightOK
<1>c. CbBusy \/ cb.step \in {"none", "retry"}
  BY DEF CbBusy
<1>d. CbInFlight /\ FlightIsLatest
  BY DEF AllInv, WorkerInv, FlightInv
<1>e. Quiet => pc \notin {"arm", "drain"}
  BY DEF Quiet, Awaits
<1>1. CASE CbVerdict
  BY <1>1, <1>a, FinallyFlight DEF CbVerdict, CbBusy
<1>f. UNCHANGED cb => CbCalm \/ flight'[CbKey].att # flight[CbKey].att
  BY <1>c, <1>d DEF CbCalm, CbKey, CbInFlight
<1>g. CbBusy => CbKey \in Key
  BY StateAssumption DEF AllInv, TypeInv, CbOK, CbType, CbBusy, CbKey, Key, Inst
<1>2. CASE CbDrain
  <2>1. CASE cb.x = "runCancellation"
    <3>1. UNCHANGED <<flight, pc, item, todo>> /\ cb' = [cb EXCEPT !.step = "cancelled"]
      BY <1>2, <2>1 DEF CbDrain
    <3>2. CbCalm
      BY <1>2, <3>1 DEF CbDrain, CbCalm, CbBusy, CbKey, AllInv, TypeInv, CbOK, CbType
    <3>. QED BY <1>a, <3>1, <3>2, FlightStays
  <2>. QED BY <1>2, <1>a, <2>1, FinallyFlight DEF CbDrain, CbBusy
<1>3. CASE CbCancelled
  BY <1>3, <1>a, FinallyFlight DEF CbCancelled, CbBusy
<1>4. CASE CbRevisit \/ CbRefresh
  <2>1. \A key \in Key : flight'[key].att = flight[key].att /\ flight'[key].phase = flight[key].phase
    BY <1>4, <1>b, AbortKeeps DEF CbRevisit, CbRefresh
  <2>2. CbBusy /\ cb.mine
    BY <1>4, <1>d DEF CbRevisit, CbRefresh, CbBusy, CbInFlight
  <2>3. CbCalm
    BY <1>4, <1>g, <2>1, <2>2 DEF CbRevisit, CbRefresh, Refreshing, CbCalm, CbKey, AllInv, TypeInv, CbOK, CbType
  <2>. QED BY <1>4, <1>a, <2>1, <2>3, FlightStays DEF CbRevisit, CbRefresh
<1>5. CASE CbRetry
  BY <1>5, <1>a, FlightStays DEF CbRetry, CbCalm, NoCb
<1>6. CASE Settle
  <2>1. PICK n \in Node, k \in Inst : /\ flight[<<n, k>>].phase = "run"
          /\ \/ UNCHANGED flight /\ \E reason \in Abort \cup DrainReason : cb' = DrainProof(n, k, flight[<<n, k>>].att, reason)
             \/ UNCHANGED flight /\ cb' = Verdict(n, k, flight[<<n, k>>].att, "nodeFailed", "none")
             \/ flight' = [flight EXCEPT ![<<n, k>>].phase = "check"] /\ UNCHANGED cb
    BY <1>6 DEF Settle, DrainReason
  <2>2. <<n, k>> \in Key /\ flight[<<n, k>>].att # 0
    BY <1>d, <2>1 DEF FlightIsLatest, Key
  <2>3. \A key \in Key : flight'[key].att = flight[key].att /\ (flight'[key].phase # "none" <=> flight[key].phase # "none")
    BY <1>b, <2>1, <2>2
  <2>4. pc' = pc /\ Quiet
    BY <1>6 DEF Settle
  <2>5. FlightIsLatest'
    BY <1>a, <1>d, <1>e, <2>3, <2>4 DEF FlightIsLatest
  <2>6. CbBusy' => cb'.mine /\ CbKey' = <<n, k>> /\ cb'.a = flight[<<n, k>>].att
    BY <2>1, <2>4 DEF CbBusy, CbKey, DrainProof, Verdict, Cb, NoCb, Quiet
  <2>7. CbInFlight'
    BY <1>e, <2>2, <2>3, <2>4, <2>6 DEF CbInFlight
  <2>. QED BY <2>5, <2>7 DEF FlightInv
<1>7. CASE Judge
  <2>1. PICK n \in Node, k \in Inst, find \in Finds, m \in Node :
          /\ flight[<<n, k>>].phase = "check"
          /\ cb' = Judgement(find, n, k, flight[<<n, k>>], m)
    BY <1>7 DEF Judge
  <2>2. <<n, k>> \in Key /\ flight[<<n, k>>].att # 0
    BY <1>d, <2>1 DEF FlightIsLatest, Key
  <2>3. UNCHANGED <<flight, pc>> /\ Quiet
    BY <1>7 DEF Judge
  <2>4. cb'.mine /\ CbKey' = <<n, k>> /\ cb'.a = flight[<<n, k>>].att
    BY <2>1 DEF Judgement, RevisitCb, BudgetCb, CbKey, DrainProof, Verdict, Cb, NoCb, Finds
  <2>5. FlightIsLatest'
    BY <1>a, <1>d, <1>e, <2>3 DEF FlightIsLatest
  <2>6. CbInFlight'
    BY <1>e, <2>2, <2>3, <2>4 DEF CbInFlight
  <2>. QED BY <2>5, <2>6 DEF FlightInv
<1>8. CASE WorkerExit \/ GateClick \/ Retry \/ ForeignCancel
  <2>1. UNCHANGED <<flight, pc, item, todo, cb>>
    BY <1>8 DEF WorkerExit, GateClick, Click, Retry, ForeignCancel
  <2>. QED BY <1>a, <1>f, <2>1, FlightStays
<1>9. CASE GrantRevisit
  <2>1. UNCHANGED <<flight, pc, item, todo>> /\ cb'.step = "retry"
    BY <1>9 DEF GrantRevisit, NoCb
  <2>. QED BY <1>a, <2>1, FlightStays DEF CbCalm
<1>10. CASE Cancel \/ BareAbort
  <2>1. \A key \in Key : flight'[key].att = flight[key].att /\ flight'[key].phase = flight[key].phase
    BY <1>10, <1>b, AbortKeeps DEF Cancel, CancelAnd, BareAbort
  <2>2. UNCHANGED <<pc, item, todo, cb>> /\ cb.step = "none"
    BY <1>10 DEF Cancel, CancelAnd, BareAbort, Quiet
  <2>. QED BY <1>a, <2>1, <2>2, FlightStays DEF CbCalm
<1>11. CASE Crash
  <2>1. \A key \in Key : flight'[key].att = 0 /\ flight'[key].phase = "none"
    BY <1>11 DEF Crash, NoFlight
  <2>. QED BY <1>11, <1>a, <2>1, FlightStays DEF Crash, CbCalm, NoCb
<1>. QED BY <1>1, <1>2, <1>3, <1>4, <1>5, <1>6, <1>7, <1>8, <1>9, <1>10, <1>11
         DEF Callback, Promises, Human, Environment

\* Every step keeps promises and attempts together.
LEMMA FlightStep == ASSUME AllInv, [Next]_vars PROVE FlightInv'
<1>1. CASE UNCHANGED vars
  BY <1>1 DEF vars, journal, local, AllInv, WorkerInv, FlightInv, FlightIsLatest, CbInFlight, CbBusy,
     CbKey, ItemKey
<1>. QED BY <1>1, TickFlight, StartFlight, OutsideFlight DEF Next, Tick

=============================================================================
