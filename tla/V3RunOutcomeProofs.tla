------------------------ MODULE V3RunOutcomeProofs -------------------------
(***************************************************************************)
(* Proofs, for every DAG, every pool and every bound, of what a run shows  *)
(* to the world outside its driver: one worker of a node at a time and no  *)
(* more than the slots allow, the lifecycle it implements step by step,    *)
(* what it leaves behind when it comes to rest, that what it delivers was  *)
(* built from what is still in force, that who lost a race stays out, that *)
(* a driver which runs always finds something to do, and that what it      *)
(* skipped could not have run.                                             *)
(*                                                                         *)
(* Two workers of one node could only be those of two of its instances, or *)
(* of two attempts of one.  Retired says that only the live instance of a  *)
(* node is neither new nor superseded.  The tick drains what is superseded,*)
(* cancelled or not its own before it decides, so while it dispatches      *)
(* every worker on the machine is that of a promise of a live instance     *)
(* (Owned); a node that wants a start has none.                            *)
(***************************************************************************)
EXTENDS V3RunWorkerProofs

----------------------------------------------------------------------------
(* One worker per node.                                                    *)

\* Whatever instance of a node is in use is its live one.
Retired(s) == \A n \in Node, k \in Inst : s.inst[<<n, k>>] \notin {"absent", "superseded"} => s.eff[n] = k

\* Settles and cancels do not reach a superseded instance.
LEMMA FrozenFold ==
  ASSUME NEW s \in Snapshot, NEW e, WellFormed(e), e.k # 0, s.inst[<<e.n, e.k>>] = "superseded",
         e.type \in {"nodeSucceeded", "nodeFailed", "nodeBlocked", "nodeCancelled"}
  PROVE  SameNodes(s, Fold(s, e))
<1>. DEFINE u == [s EXCEPT !.struck = @ \cup {<<e.n, e.k, e.a>>}]
<1>1. SameNodes(s, u) /\ u.inst = s.inst
  BY DEF SameNodes, Snapshot
<1>2. Fold(s, e) \in {s, u}
  <2>1. CASE e.type = "nodeCancelled"
    BY <1>1, <2>1 DEF Fold, Applied, RunEvent, OnNodeEvent, OnCancelled, Record
  <2>2. CASE e.type # "nodeCancelled"
    BY <2>2 DEF Fold, Applied, RunEvent, OnNodeEvent, OnSettle, Record
  <2>. QED BY <2>1, <2>2
<1>. QED BY <1>1, <1>2 DEF SameNodes

\* A start retires nothing: it takes the live instance, or a new one when there is none.
LEMMA BeginsRetired ==
  ASSUME NEW s \in Snapshot, NEW t, NEW n \in Node, NEW k \in Inst, NEW st, Retired(s),
         k = InstanceFor(s, n), Begins(s, t, n, k, st), FrameOf(s, t, n, k)
  PROVE  Retired(t)
<1>. SUFFICES ASSUME NEW m \in Node, NEW j \in Inst, t.inst[<<m, j>>] \notin {"absent", "superseded"}
              PROVE  t.eff[m] = j
  BY DEF Retired
<1>0. <<m, j>> \in Key
  BY DEF Key
<1>1. CASE <<m, j>> = <<n, k>>
  BY <1>1 DEF Begins
<1>2. CASE <<m, j>> # <<n, k>>
  <2>1. s.eff[m] = j
    BY <1>0, <1>2 DEF FrameOf, Retired
  <2>2. CASE m # n
    BY <2>1, <2>2 DEF FrameOf
  <2>3. CASE m = n
    <3>1. k = j
      BY <2>1, <2>3, StateAssumption DEF InstanceFor, Inst
    <3>. QED BY <1>2, <2>3, <3>1
  <2>. QED BY <2>2, <2>3
<1>. QED BY <1>1, <1>2

\* Every other event in order retires the live instance or shows on it.
LEMMA RetiredFold ==
  ASSUME NEW s \in Snapshot, NEW e, WellFormed(e), Fits(s, e), Views(s), Retired(s),
         e.type \in Loud \cup Soft
  PROVE  Retired(Fold(s, e))
<1>. DEFINE t == Fold(s, e)
            key == <<e.n, e.k>>
<1>a. e.n \in Node /\ e.k \in 0 .. MaxInst /\ (e.k # 0 => e.k \in Inst /\ key \in Key)
  BY StateAssumption DEF WellFormed, Event, Inst, Key
<1>b. FrameOf(s, t, e.n, e.k)
  BY FrameFold
<1>. SUFFICES Retired(t)
  OBVIOUS
<1>. HIDE DEF t
<1>c. SameNodes(s, t) => Retired(t)
  BY DEF SameNodes, Retired
<1>d. ASSUME t.eff[e.n] = s.eff[e.n],
             e.k # 0 => t.inst[key] = s.inst[key] \/ s.eff[e.n] = e.k \/ s.inst[key] \notin {"absent", "superseded"}
      PROVE  Retired(t)
  <2>. SUFFICES ASSUME NEW m \in Node, NEW j \in Inst, t.inst[<<m, j>>] \notin {"absent", "superseded"}
                PROVE  t.eff[m] = j
    BY DEF Retired
  <2>1. <<m, j>> \in Key /\ t.eff[m] = s.eff[m] /\ j # 0
    BY <1>b, <1>d, StateAssumption DEF FrameOf, Key, Inst
  <2>2. CASE <<m, j>> = key
    BY <1>a, <1>d, <2>1, <2>2 DEF Retired
  <2>3. CASE <<m, j>> # key
    BY <1>b, <2>1, <2>3 DEF FrameOf, Retired
  <2>. QED BY <2>2, <2>3
<1>1. CASE e.type \in {"nodeSucceeded", "nodeFailed", "nodeBlocked"}
  <2>1. e.k # 0 /\ s.inst[key] # "absent"
    BY <1>1 DEF Fits
  <2>2. CASE s.inst[key] = "superseded"
    BY <1>1, <1>c, <2>1, <2>2, FrozenFold DEF t
  <2>3. CASE s.inst[key] # "superseded"
    <3>1. SameNodes(s, t) \/ t.eff = s.eff
      BY <1>1, <2>1, SettleEffect DEF t, Shows
    <3>. QED BY <1>c, <1>d, <2>1, <2>3, <3>1
  <2>. QED BY <2>2, <2>3
<1>2. CASE e.type = "nodeCancelled"
  <2>1. CASE e.k # 0 /\ s.inst[key] = "superseded"
    BY <1>2, <1>c, <2>1, FrozenFold DEF t
  <2>2. CASE ~(e.k # 0 /\ s.inst[key] = "superseded")
    <3>1. SameNodes(s, t) \/ t.eff = s.eff
      BY <1>2, CancelledEffect DEF t, Shows
    <3>2. e.k # 0 => s.inst[key] # "absent"
      BY <1>2 DEF Fits
    <3>. QED BY <1>c, <1>d, <2>2, <3>1, <3>2
  <2>. QED BY <2>1, <2>2
<1>3. CASE e.type \in {"nodeRetryRequested", "gateResolved"}
  <2>1. s.eff[e.n] = e.k
    BY <1>3 DEF Fits
  <2>2. SameNodes(s, t) \/ t.eff = s.eff
    BY <1>3, <2>1, RetryEffect, ClickEffect DEF t, Shows
  <2>. QED BY <1>c, <1>d, <2>1, <2>2
<1>4. CASE e.type = "nodeInstanceSuperseded"
  <2>1. s.eff[e.n] = e.k
    BY <1>4 DEF Fits
  <2>2. CASE t.eff[e.n] = 0 /\ (e.k # 0 => t.inst[key] = "superseded")
    <3>. SUFFICES ASSUME NEW m \in Node, NEW j \in Inst, t.inst[<<m, j>>] \notin {"absent", "superseded"}
                  PROVE  t.eff[m] = j
      BY DEF Retired
    <3>1. <<m, j>> \in Key /\ j # 0
      BY StateAssumption DEF Key, Inst
    <3>2. <<m, j>> # key
      BY <2>2, <3>1
    <3>3. s.eff[m] = j
      BY <1>b, <3>1, <3>2 DEF FrameOf, Retired
    <3>. QED BY <1>b, <2>1, <3>2, <3>3 DEF FrameOf
  <2>. QED BY <1>4, <1>c, <2>1, <2>2, SupersededEffect DEF t
<1>5. CASE e.type = "nodeSkipped"
  <2>1. t.eff = s.eff /\ t.inst = s.inst
    BY <1>5, SkippedEffect DEF t
  <2>. QED BY <2>1 DEF Retired
<1>6. CASE e.type = "nodeAttemptDrained"
  <2>1. SameNodes(s, t) \/ (s.inst[key] = "running" /\ t.eff = s.eff)
    BY <1>6, DrainedEffect DEF t
  <2>. QED BY <1>c, <1>d, <2>1
<1>7. CASE e.type = "gateDispatched"
  <2>1. e.k # 0 /\ e.k = InstanceFor(s, e.n)
    BY <1>7 DEF Fits, WellFormed
  <2>2. SameNodes(s, t) \/ Begins(s, t, e.n, e.k, "gateWaiting")
    BY <1>7, GateEffect DEF t
  <2>. QED BY <1>a, <1>b, <1>c, <2>1, <2>2, BeginsRetired
<1>. QED BY <1>1, <1>2, <1>3, <1>4, <1>5, <1>6, <1>7 DEF Loud, Soft

\* So does every step.
LEMMA RetiredStep == ASSUME AllInv, [Next]_vars, Retired(snap) PROVE Retired(snap')
<1>a. snap \in Snapshot /\ Views(snap)
  BY DEF AllInv, TypeInv, JournalOK, WorkerInv, ViewInv
<1>1. CASE ClaimWork
  <2>1. PICK act, a : Claims(act, a)
    BY <1>1, ClaimEffect
  <2>. QED BY <1>a, <2>1, BeginsRetired DEF Claims
<1>2. CASE SameNodes(snap, snap')
  BY <1>2 DEF SameNodes, Retired
<1>3. CASE Appends(Loud \cup Soft)
  BY <1>a, <1>3, RetiredFold DEF Appends, InOrder, Append
<1>4. CASE \E S \in SUBSET Node : SameNodes(StrikeAll(snap, S, tally.last), snap')
  <2>1. PICK S \in SUBSET Node : SameNodes(StrikeAll(snap, S, tally.last), snap')
    BY <1>4
  <2>. DEFINE s == StrikeAll(snap, S, tally.last)
  <2>2. /\ s.eff = snap.eff
        /\ \A key \in Key : s.inst[key] = snap.inst[key] \/ snap.eff[key[1]] = key[2]
    BY <1>a DEF StrikeAll, Snapshot
  <2>. HIDE DEF s
  <2>3. SameNodes(s, snap')
    BY <2>1 DEF s
  <2>. QED BY <2>2, <2>3 DEF SameNodes, Retired, Key
<1>. QED BY <1>1, <1>2, <1>3, <1>4, EveryMove

\* Attempt numbers count from one.
Numbered == \A x \in spawned : x[3] # 0

\* While the tick dispatches, every worker is that of a promise of a live instance, and the
\* claimed node has none.
TickOwns ==
  /\ pc \in {"dispatch", "arm"} => \A x \in alive : x[2] = snap.eff[x[1]] /\ flight[KeyOf(x)].att = x[3]
  /\ pc = "arm" => \A x \in alive : x[1] # item.n

SoleInv == Retired(snap) /\ Numbered /\ TickOwns /\ OneWorkerPerNode

\* A node that the tick may start has no worker.
LEMMA StartsAlone ==
  ASSUME AllInv, SoleInv, pc = "dispatch", NEW n \in Node, snap.status[n] = "pending", NEW x \in alive
  PROVE  x[1] # n
<1>. SUFFICES ASSUME x[1] = n PROVE FALSE
  OBVIOUS
<1>1. x \in spawned /\ x[2] \in Inst /\ x[2] # 0 /\ KeyOf(x) = <<n, x[2]>>
  BY StateAssumption DEF AllInv, TypeInv, OutsideOK, Attempt, Inst, KeyOf, WorkerInv, ViewInv, WorkersKnown
<1>2. x[2] = snap.eff[n] /\ flight[<<n, x[2]>>].att = x[3]
  BY <1>1 DEF SoleInv, TickOwns
<1>3. x[2] = InstanceFor(snap, n)
  BY <1>1, <1>2 DEF InstanceFor
<1>4. cb.step = "none"
  BY DEF AllInv, GateInv, CbWhere, Awaits
<1>5. flight[<<n, x[2]>>].att = 0
  BY <1>1, <1>3, <1>4, PendingIsIdle
<1>. QED BY <1>1, <1>2, <1>5 DEF SoleInv, Numbered

\* When decideNext is asked, every worker is that of a promise of a live instance.
LEMMA DecideOwns ==
  ASSUME AllInv, SoleInv, Decide, NEW x \in alive
  PROVE  x[2] = snap.eff[x[1]] /\ flight[KeyOf(x)].att = x[3]
<1>1. x \in open /\ snap.inst[KeyOf(x)] # "absent" /\ x[1] \in Node /\ x[2] \in Inst
      /\ KeyOf(x) = <<x[1], x[2]>>
  BY DEF AllInv, WorkerInv, LedgerInv, WorkerAccounted, ViewInv, WorkersKnown, TypeInv, OutsideOK, Attempt, KeyOf
<1>2. snap.inst[KeyOf(x)] # "superseded" /\ flight[KeyOf(x)].att = x[3]
  BY <1>1 DEF Decide, Obsolete, Orphaned
<1>. QED BY <1>1, <1>2 DEF SoleInv, Retired

\* Every step of the tick keeps its workers its own.
LEMMA TickOwnsStep == ASSUME AllInv, SoleInv, [Next]_vars PROVE TickOwns'
<1>. SUFFICES ASSUME pc' \in {"dispatch", "arm"} PROVE TickOwns'
  BY DEF TickOwns
<1>a. /\ snap \in Snapshot /\ TickOwns /\ alive \subseteq spawned
      /\ \A x \in alive : x[1] \in Node /\ KeyOf(x) \in Key
  BY DEF AllInv, TypeInv, JournalOK, OutsideOK, Attempt, KeyOf, Key, SoleInv, WorkerInv, ViewInv, WorkersKnown
<1>b. ASSUME pc \in {"dispatch", "arm"}, pc' # "arm", alive' \subseteq alive, UNCHANGED flight,
             \A x \in alive : snap'.eff[x[1]] = snap.eff[x[1]]
      PROVE  TickOwns'
  BY <1>a, <1>b DEF TickOwns, KeyOf
<1>1. CASE Decide
  <2>1. UNCHANGED <<snap, flight, alive>> /\ pc' # "arm"
    BY <1>1 DEF Decide, Quiesce, Goto, journal, Outside
  <2>. QED BY <1>1, <2>1, DecideOwns DEF TickOwns, KeyOf
<1>2. CASE ResolveEdge \/ SkipNode
  BY <1>2 DEF ResolveEdge, SkipNode
<1>3. CASE ClaimWork
  <2>1. PICK act, a : Claims(act, a)
    BY <1>3, ClaimEffect
  <2>2. UNCHANGED <<flight, alive>> /\ pc = "dispatch"
    BY <1>3 DEF ClaimWork
  <2>3. act.n \in Node /\ item' = act /\ FrameOf(snap, snap', act.n, act.k) /\ snap.status[act.n] = "pending"
    BY <2>1 DEF Claims
  <2>4. \A x \in alive : x[1] # act.n
    BY <2>2, <2>3, StartsAlone
  <2>5. \A x \in alive : snap'.eff[x[1]] = snap.eff[x[1]]
    BY <1>a, <2>3, <2>4 DEF FrameOf
  <2>. QED BY <1>a, <2>2, <2>3, <2>4, <2>5 DEF TickOwns, KeyOf
<1>4. CASE ClaimGate
  <2>1. PICK e : WellFormed(e) /\ Fits(snap, e) /\ e.type = "gateDispatched" /\ snap' = Fold(snap, e)
    BY <1>4, StartMove DEF Appends, InOrder, Append
  <2>2. e.n \in Node /\ snap.status[e.n] = "pending" /\ FrameOf(snap, snap', e.n, e.k)
    BY <1>a, <2>1, FrameFold DEF WellFormed, Event, Fits
  <2>3. UNCHANGED <<flight, alive>> /\ pc = "dispatch" /\ pc' = "dispatch"
    BY <1>4 DEF ClaimGate, Outside
  <2>4. \A x \in alive : x[1] # e.n
    BY <2>2, <2>3, StartsAlone
  <2>. QED BY <1>a, <1>b, <2>2, <2>3, <2>4 DEF FrameOf
<1>5. CASE PassOver
  BY <1>5, <1>b DEF PassOver, journal, Outside
<1>6. CASE Arm
  <2>1. pc = "arm" /\ pc' = "dispatch" /\ SameNodes(snap, snap') /\ snap.eff[item.n] = item.k
    BY <1>6, ArmEffect DEF Arm, ArmIf, AllInv, WorkerInv, EngagedInv
  <2>2. CASE UNCHANGED <<flight, alive, spawned>>
    BY <1>b, <2>1, <2>2 DEF SameNodes
  <2>3. CASE /\ alive' = alive \cup {ItemAttempt}
             /\ flight'[ItemKey].att = tally.last[ItemKey]
             /\ \A key \in Key : key # ItemKey => flight'[key] = flight[key]
    <3>1. ItemAttempt[1] = item.n /\ ItemAttempt[2] = item.k /\ ItemAttempt[3] = tally.last[ItemKey]
          /\ KeyOf(ItemAttempt) = ItemKey
      BY <1>6, ArmEffect DEF KeyOf
    <3>2. \A x \in alive : KeyOf(x) # ItemKey
      BY <1>a, <2>1 DEF TickOwns, KeyOf, ItemKey
    <3>3. \A x \in alive' : x[2] = snap.eff[x[1]] /\ flight'[KeyOf(x)].att = x[3]
      BY <1>a, <2>1, <2>3, <3>1, <3>2 DEF TickOwns
    <3>. QED BY <2>1, <3>3 DEF TickOwns, SameNodes, KeyOf
  <2>. QED BY <1>6, <2>2, <2>3, ArmEffect
<1>7. CASE ArmFailed
  <2>1. PICK e : WellFormed(e) /\ Fits(snap, e) /\ e.type = "nodeFailed" /\ snap' = Fold(snap, e)
    BY <1>7, StartMove DEF InOrder, Append, Ev
  <2>2. \A n \in Node : snap'.eff[n] = snap.eff[n]
    <3>1. e.n \in Node /\ e.type \in SettleTypes
      BY <2>1 DEF WellFormed, Event, SettleTypes
    <3>2. /\ \A n \in Node : n # e.n => Fold(snap, e).eff[n] = snap.eff[n]
          /\ Fold(snap, e).eff[e.n] = snap.eff[e.n]
      BY <1>a, <2>1, <3>1, SettleEngages
    <3>. QED BY <2>1, <3>2
  <2>3. UNCHANGED <<flight, alive>> /\ pc = "arm" /\ pc' = "dispatch"
    BY <1>7 DEF ArmFailed, Outside
  <2>. QED BY <1>a, <1>b, <2>2, <2>3
<1>8. CASE UNCHANGED local /\ SameNodes(snap, snap') /\ alive' \subseteq alive
  BY <1>a, <1>8 DEF local, TickOwns, SameNodes, KeyOf
<1>. QED BY <1>1, <1>2, <1>3, <1>4, <1>5, <1>6, <1>7, <1>8, InsideTick

\* Every step keeps one worker to a node.
LEMMA SoleStep == ASSUME AllInv, SoleInv, [Next]_vars PROVE SoleInv'
<1>1. Retired(snap')
  BY RetiredStep DEF SoleInv
<1>2. Numbered' /\ OneWorkerPerNode'
  <2>1. CASE Arm
    <3>1. /\ alive' \subseteq alive \cup {ItemAttempt} /\ spawned' \subseteq spawned \cup {ItemAttempt}
          /\ ItemAttempt[1] = item.n /\ ItemAttempt[3] = tally.last[ItemKey] /\ pc = "arm"
      BY <2>1, ArmEffect DEF Arm, ArmIf
    <3>2. tally.last[ItemKey] # 0 /\ \A x \in alive : x[1] # item.n
      BY <3>1 DEF AllInv, WorkerInv, FlightInv, FlightIsLatest, SoleInv, TickOwns
    <3>. QED BY <3>1, <3>2 DEF SoleInv, Numbered, OneWorkerPerNode
  <2>2. CASE ~Arm
    BY <2>2, WorkersStay DEF SoleInv, Numbered, OneWorkerPerNode
  <2>. QED BY <2>1, <2>2
<1>. QED BY <1>1, <1>2, TickOwnsStep DEF SoleInv

\* Only the live instance of a node is in use, and only it can have a worker the tick counts on.
THEOREM SoleInvariant == Spec => []SoleInv
<1>1. Init => SoleInv
  BY DEF Init, SoleInv, Retired, Numbered, TickOwns, OneWorkerPerNode, EmptySnapshot, Key
<1>2. ASSUME TypeInv, NumbersInv, GateInv, WorkerInv, SoleInv, [Next]_vars PROVE SoleInv'
  BY <1>2, SoleStep DEF AllInv
<1>. QED BY <1>1, <1>2, TypeInvariant, NumbersInvariant, GateInvariant, WorkerInvariant, PTL DEF Spec

\* Revisits, retries and orphan recoveries never leave two workers of one node side by side.
THEOREM OneWorkerOfANode == Spec => []OneWorkerPerNode
<1>1. SoleInv => OneWorkerPerNode
  BY DEF SoleInv
<1>. QED BY <1>1, SoleInvariant, PTL

----------------------------------------------------------------------------
(* Slots.                                                                  *)

\* What the claim has checked holds until the spawn.
SlotFree == pc = "arm" => Busy < GlobalCap /\ PoolFree(item.n)

SlotInv == IsFiniteSet(alive) /\ IsFiniteSet(InFlight) /\ SlotFree /\ SlotsHold

\* Workers of different nodes have different promises.
LEMMA WorkersHaveSlots ==
  ASSUME AllInv, SoleInv, pc \in {"dispatch", "arm"}, NEW A \in SUBSET alive, NEW K \in SUBSET InFlight,
         IsFiniteSet(InFlight), \A x \in A : KeyOf(x) \in K
  PROVE  IsFiniteSet(A) /\ Cardinality(A) \in Nat /\ Cardinality(K) \in Nat /\ Cardinality(A) <= Cardinality(K)
<1>. DEFINE f == [x \in A |-> KeyOf(x)]
<1>1. f \in [A -> K]
  OBVIOUS
<1>2. \A x, y \in A : f[x] = f[y] => x = y
  BY DEF SoleInv, OneWorkerPerNode, KeyOf
<1>3. f \in Injection(A, K)
  BY <1>1, <1>2 DEF Injection, IsInjective
<1>4. IsFiniteSet(K)
  BY FS_Subset
<1>. QED BY <1>3, <1>4, FS_Injection, FS_CardinalityType

\* Every worker of the dispatching tick has a promise.
LEMMA WorkersInFlight ==
  ASSUME AllInv, SoleInv, pc \in {"dispatch", "arm"}, NEW x \in alive
  PROVE  KeyOf(x) \in InFlight /\ KeyOf(x)[1] = x[1]
<1>1. x \in spawned /\ KeyOf(x) \in Key /\ KeyOf(x)[1] = x[1] /\ x[3] # 0
  BY DEF AllInv, TypeInv, OutsideOK, Attempt, KeyOf, Key, WorkerInv, ViewInv, WorkersKnown, SoleInv, Numbered
<1>. QED BY <1>1 DEF SoleInv, TickOwns, InFlight

\* One more worker takes a slot that is free.
LEMMA OneMore ==
  ASSUME NEW A, NEW x, NEW B, NEW c \in Nat, NEW K, IsFiniteSet(A), Cardinality(A) \in Nat,
         Cardinality(K) \in Nat, Cardinality(A) <= Cardinality(K), Cardinality(K) < c, B \subseteq A \cup {x}
  PROVE  Cardinality(B) <= c
<1>1. IsFiniteSet(A \cup {x}) /\ Cardinality(A \cup {x}) = IF x \in A THEN Cardinality(A) ELSE Cardinality(A) + 1
  BY FS_AddElement
<1>2. Cardinality(A \cup {x}) \in {Cardinality(A), Cardinality(A) + 1}
  BY <1>1
<1>3. Cardinality(B) <= Cardinality(A \cup {x}) /\ IsFiniteSet(B)
  BY <1>1, FS_Subset
<1>4. Cardinality(B) \in Nat
  BY <1>3, FS_CardinalityType
<1>. QED BY <1>2, <1>3, <1>4

\* The spawn keeps to the slots.
LEMMA ArmSlots ==
  ASSUME AllInv, SoleInv, SlotInv, Arm
  PROVE  SlotsHold' /\ IsFiniteSet(alive') /\ IsFiniteSet(InFlight')
<1>1. /\ pc = "arm" /\ Busy < GlobalCap /\ PoolFree(item.n)
      /\ IsFiniteSet(alive) /\ IsFiniteSet(InFlight)
  BY DEF Arm, ArmIf, SlotInv, SlotFree
<1>2. /\ alive' \subseteq alive \cup {ItemAttempt} /\ ItemAttempt[1] = item.n
      /\ \A key \in Key : key # ItemKey => flight'[key] = flight[key]
  BY ArmEffect
<1>3. InFlight' \subseteq InFlight \cup {ItemKey}
  BY <1>2 DEF InFlight
<1>4. IsFiniteSet(alive') /\ IsFiniteSet(InFlight')
  BY <1>1, <1>2, <1>3, FS_AddElement, FS_Subset
<1>5. \A x \in alive : KeyOf(x) \in InFlight /\ KeyOf(x)[1] = x[1]
  BY <1>1, WorkersInFlight
<1>6. Cardinality(alive') <= GlobalCap
  <2>1. Cardinality(alive) \in Nat /\ Cardinality(InFlight) \in Nat /\ Cardinality(alive) <= Cardinality(InFlight)
    BY <1>1, <1>5, WorkersHaveSlots
  <2>2. Cardinality(InFlight) < GlobalCap /\ GlobalCap \in Nat
    BY <1>1, RunAssumption DEF Busy
  <2>. QED BY <1>1, <1>2, <2>1, <2>2, OneMore
<1>7. ASSUME NEW p \in Pools
      PROVE  Cardinality({x \in alive' : x[1] \in p.nodes}) <= p.cap
  <2>. DEFINE A == {x \in alive : x[1] \in p.nodes}
              B == {x \in alive' : x[1] \in p.nodes}
              K == {key \in InFlight : key[1] \in p.nodes}
  <2>0. p.cap \in Nat
    BY RunAssumption
  <2>1. CASE item.n \in p.nodes
    <3>1. Cardinality(K) < p.cap
      BY <1>1, <2>1 DEF PoolFree
    <3>2. A \in SUBSET alive /\ K \in SUBSET InFlight /\ \A x \in A : KeyOf(x) \in K
      BY <1>5
    <3>3. B \subseteq A \cup {ItemAttempt}
      BY <1>2
    <3>. HIDE DEF A, B, K
    <3>4. IsFiniteSet(A) /\ Cardinality(A) \in Nat /\ Cardinality(K) \in Nat /\ Cardinality(A) <= Cardinality(K)
      BY <1>1, <3>2, WorkersHaveSlots
    <3>5. Cardinality(B) <= p.cap
      BY <2>0, <3>1, <3>3, <3>4, OneMore
    <3>. QED BY <3>5 DEF B
  <2>2. CASE item.n \notin p.nodes
    <3>1. B \subseteq A
      BY <1>2, <2>2
    <3>2. IsFiniteSet(A) /\ Cardinality(A) <= p.cap
      BY <1>1, FS_Subset DEF SlotInv, SlotsHold
    <3>. HIDE DEF A, B
    <3>3. Cardinality(B) <= Cardinality(A) /\ Cardinality(A) \in Nat /\ Cardinality(B) \in Nat
      BY <3>1, <3>2, FS_Subset, FS_CardinalityType
    <3>4. Cardinality(B) <= p.cap
      BY <2>0, <3>2, <3>3
    <3>. QED BY <3>4 DEF B
  <2>. QED BY <2>1, <2>2
<1>. QED BY <1>4, <1>6, <1>7 DEF SlotsHold

\* Every other step takes no slot.
LEMMA CalmSlots ==
  ASSUME AllInv, SlotInv, [Next]_vars, ~Arm
  PROVE  SlotsHold' /\ IsFiniteSet(alive') /\ IsFiniteSet(InFlight')
<1>1. alive' \subseteq alive
  BY WorkersStay
<1>2. InFlight' \subseteq InFlight
  BY PromisesStay DEF InFlight
<1>3. IsFiniteSet(alive') /\ IsFiniteSet(InFlight')
  BY <1>1, <1>2, FS_Subset DEF SlotInv
<1>4. ASSUME NEW A, NEW B, NEW c \in Nat, A \subseteq alive, B \subseteq A, Cardinality(A) <= c
      PROVE  Cardinality(B) <= c
  <2>1. IsFiniteSet(A) /\ IsFiniteSet(B) /\ Cardinality(B) <= Cardinality(A)
    BY <1>4, FS_Subset DEF SlotInv
  <2>2. Cardinality(A) \in Nat /\ Cardinality(B) \in Nat
    BY <2>1, FS_CardinalityType
  <2>. QED BY <1>4, <2>1, <2>2
<1>5. Cardinality(alive') <= GlobalCap
  BY <1>1, <1>4, RunAssumption DEF SlotInv, SlotsHold
<1>6. ASSUME NEW p \in Pools
      PROVE  Cardinality({x \in alive' : x[1] \in p.nodes}) <= p.cap
  <2>. DEFINE A == {x \in alive : x[1] \in p.nodes}
              B == {x \in alive' : x[1] \in p.nodes}
  <2>1. A \subseteq alive /\ B \subseteq A /\ Cardinality(A) <= p.cap /\ p.cap \in Nat
    BY <1>1, RunAssumption DEF SlotInv, SlotsHold
  <2>. HIDE DEF A, B
  <2>2. Cardinality(B) <= p.cap
    BY <1>4, <2>1
  <2>. QED BY <2>2 DEF B
<1>. QED BY <1>3, <1>5, <1>6 DEF SlotsHold

\* Nobody takes the slot between the claim and the spawn.
LEMMA SlotFreeStep == ASSUME AllInv, SlotFree, [Next]_vars PROVE SlotFree'
<1>. SUFFICES ASSUME pc' = "arm" PROVE Busy' < GlobalCap /\ PoolFree(item.n)'
  BY DEF SlotFree
<1>1. CASE ClaimWork
  <2>1. PICK act \in plan : PoolFree(act.n) /\ item' = act
    BY <1>1 DEF ClaimWork
  <2>2. Busy < GlobalCap /\ UNCHANGED flight
    BY <1>1 DEF ClaimWork
  <2>. QED BY <2>1, <2>2 DEF Busy, InFlight, PoolFree
<1>2. CASE UNCHANGED local
  BY <1>2 DEF local, SlotFree, Busy, InFlight, PoolFree
<1>3. CASE Decide \/ ResolveEdge \/ SkipNode \/ ClaimGate \/ PassOver \/ Arm \/ ArmFailed
  BY <1>3 DEF Decide, Quiesce, Goto, ResolveEdge, SkipNode, ClaimGate, PassOver, Arm, ArmIf, ArmFailed
<1>. QED BY <1>1, <1>2, <1>3, InsideTick

\* The slot pools and the global cap bound the workers on the machine, whoever started them.
THEOREM SlotInvariant == Spec => []SlotInv
<1>1. Init => SlotInv
  <2>. SUFFICES ASSUME Init PROVE SlotInv
    OBVIOUS
  <2>1. alive = {} /\ InFlight = {} /\ SlotFree
    BY DEF Init, InFlight, NoFlight, SlotFree
  <2>2. \A p \in Pools : {x \in alive : x[1] \in p.nodes} = {}
    BY <2>1
  <2>. QED BY <2>1, <2>2, FS_EmptySet, RunAssumption DEF SlotInv, SlotsHold
<1>2. ASSUME TypeInv, NumbersInv, GateInv, WorkerInv, SoleInv, SlotInv, [Next]_vars PROVE SlotInv'
  <2>1. AllInv /\ SlotFree
    BY <1>2 DEF AllInv, SlotInv
  <2>. QED BY <1>2, <2>1, ArmSlots, CalmSlots, SlotFreeStep DEF SlotInv
<1>. QED
  BY <1>1, <1>2, TypeInvariant, NumbersInvariant, GateInvariant, WorkerInvariant, SoleInvariant, PTL DEF Spec

\* No more workers on the machine than slots, globally and in every pool.
THEOREM SlotsAreKept == Spec => []SlotsHold
<1>1. SlotInv => SlotsHold
  BY DEF SlotInv
<1>. QED BY <1>1, SlotInvariant, PTL

----------------------------------------------------------------------------
(* The run as its readers see it.                                          *)

\* The verdict on a run is published over an empty ledger; a blocked run names a blocked node.
LEMMA PublishEffect ==
  ASSUME AllInv, Publish
  PROVE  \/ UNCHANGED snap
         \/ /\ snap.run = "running" /\ open = {} /\ SameNodes(snap, snap')
            /\ \/ snap'.run \in {"succeeded", "failed"}
               \/ snap'.run = "blocked" /\ \E n \in Node : snap'.blockedNode = {n} /\ snap.status[n] = "blocked"
<1>1. CASE UNCHANGED journal
  BY <1>1 DEF journal
<1>2. CASE snap.run = "running" /\ open = {} /\ \E e \in TerminalEvent(snap) : Append(e)
  <2>1. PICK e \in TerminalEvent(snap) : Append(e)
    BY <1>2
  <2>2. \/ e.type \in {"runSucceeded", "runFailed"}
        \/ e.type = "runBlocked" /\ e.n = First(BlockedRelevant(snap)) /\ BlockedRelevant(snap) # {}
    BY DEF TerminalEvent, Ev
  <2>3. snap' = OnRunEvent(snap, e) /\ snap \in Snapshot
    BY <1>2, <2>1, <2>2 DEF Append, Fold, Applied, RunEvent, Cut, AllInv, TypeInv, JournalOK
  <2>4. CASE e.type \in {"runSucceeded", "runFailed"}
    BY <1>2, <2>3, <2>4 DEF OnRunEvent, SameNodes, Snapshot
  <2>5. CASE e.type = "runBlocked" /\ e.n = First(BlockedRelevant(snap)) /\ BlockedRelevant(snap) # {}
    <3>1. e.n \in BlockedRelevant(snap)
      BY <2>5, FirstOf DEF BlockedRelevant
    <3>2. e.n \in Node /\ snap.status[e.n] = "blocked"
      BY <3>1 DEF BlockedRelevant
    <3>. QED BY <1>2, <2>3, <2>5, <3>2 DEF OnRunEvent, SameNodes, Snapshot
  <2>. QED BY <2>2, <2>4, <2>5
<1>. QED BY <1>1, <1>2 DEF Publish

\* A run is finalized over an empty ledger.
LEMMA FinalizeEffect ==
  ASSUME AllInv, Finalize
  PROVE  \/ UNCHANGED snap
         \/ snap.run = "cancelling" /\ snap'.run = "cancelled" /\ open = {}
<1>1. CASE snap.run = "cancelling"
  <2>. DEFINE S == {n \in Node : snap.status[n] \in {"pending", "gateWaiting", "running"}}
              struck == StrikeAll(snap, S, tally.last)
              e == Ev("runCancelled", AnyNode, 0, 0)
  <2>1. snap' = Fold(struck, e)
    BY <1>1 DEF Finalize
  <2>2. struck.run = "cancelling" /\ struck \in Snapshot
    <3>1. snap \in Snapshot /\ tally.last \in [Key -> Nat]
      BY DEF AllInv, TypeInv, JournalOK, Tally
    <3>2. struck.run = snap.run
      BY <3>1 DEF StrikeAll, Snapshot
    <3>. QED BY <1>1, <3>1, <3>2, StrikeAllType
  <2>3. e.type = "runCancelled"
    BY DEF Ev
  <2>. HIDE DEF struck, e
  <2>4. Fold(struck, e).run = "cancelled"
    BY <2>2, <2>3 DEF Fold, Applied, RunEvent, OnRunEvent, Cut, PastCut, Snapshot
  <2>5. open = {}
    BY RunMove
  <2>. QED BY <1>1, <2>1, <2>4, <2>5
<1>2. CASE snap.run # "cancelling"
  BY <1>2 DEF Finalize
<1>. QED BY <1>1, <1>2

\* How the status shown for a run moves.
RunTurns ==
  \/ snap'.run = snap.run
  \/ snap.run \in {"running", "blocked"} /\ snap'.run = "cancelling"
  \/ snap.run = "blocked" /\ snap'.run = "running"
  \/ Publish /\ snap.run = "running" /\ snap'.run \in {"succeeded", "failed", "blocked"} /\ open = {}
  \/ Finalize /\ snap.run = "cancelling" /\ snap'.run = "cancelled" /\ open = {}

\* No step moves it otherwise.
LEMMA RunTurn == ASSUME AllInv, [Next]_vars PROVE RunTurns
<1>s. snap \in Snapshot
  BY DEF AllInv, TypeInv, JournalOK
<1>a. ASSUME NEW types, Appends(types), types \subseteq Loud \cup Soft PROVE RunTurns
  <2>1. PICK e : snap' = Fold(snap, e) /\ e.type \in Loud \cup Soft
    BY <1>a DEF Appends, Append
  <2>. QED BY <1>s, <2>1, NodeRun DEF RunTurns
<1>b. Still => RunTurns
  BY DEF Still, RunTurns
<1>c. UNCHANGED snap => RunTurns
  BY DEF RunTurns
<1>1. CASE UNCHANGED vars
  BY <1>1, <1>c DEF vars, journal
<1>2. CASE ClaimWork
  BY <1>2, ClaimEffect DEF Claims, RunTurns
<1>3. CASE Arm
  BY <1>3, ArmEffect DEF RunTurns
<1>4. CASE ClaimGate
  BY <1>4, <1>a, StartMove DEF Loud
<1>5. CASE ArmFailed
  BY <1>a, <1>5, StartMove DEF Ev, Loud, Appends
<1>6. CASE Cancelling
  BY <1>6, RunMove DEF RunTurns
<1>7. CASE Finalize \/ Publish
  BY <1>7, <1>c, PublishEffect, FinalizeEffect DEF RunTurns
<1>8. CASE CbVerdict \/ CbDrain \/ CbCancelled
  BY <1>8, <1>a, <1>c, SettleMove DEF SettleTypes, journal, Appends, Loud, Soft
<1>9. CASE Still \/ Appends({"nodeSkipped", "nodeCancelled"})
           \/ Appends({"nodeInstanceSuperseded", "nodeRetryRequested", "gateResolved"})
  BY <1>9, <1>a, <1>b DEF Soft
<1>. QED BY <1>1, <1>2, <1>3, <1>4, <1>5, <1>6, <1>7, <1>8, <1>9, TickMove, OutsideMove DEF Next

\* Workers come with the spawn and go with their exit.
LEMMA WorkersSame ==
  ASSUME [Next]_vars, ~Arm, ~WorkerExit
  PROVE  UNCHANGED <<alive, spawned>>
<1>. USE DEF Outside, history
<1>1. CASE Drive \/ Tick
  BY <1>1 DEF Drive, Tick, SignalToJournal, Cancelling, Finalize, Boundary, DropObsolete, DropOrphaned,
     Decide, Publish, Quiesced, DrainClosed, ProvesClosed, DrainPassed, Wake, ResolveEdge, SkipNode,
     Controlled, ClaimWork, ClaimGate, PassOver, Dispatched, ArmFailed, CancelLoser,
     EndTick, NoticeCancel, Quiesce, Return, GiveUp
<1>2. CASE Callback
  BY <1>2 DEF Callback, CbVerdict, CbDrain, CbCancelled, CbRevisit, CbRefresh, CbRetry, Finally
<1>3. CASE Promises \/ Human \/ Environment \/ UNCHANGED vars
  BY <1>3 DEF Promises, Settle, Judge, Human, GateClick, Click, Retry, GrantRevisit,
     Environment, Cancel, CancelAnd, ForeignCancel, BareAbort, Crash, vars
<1>. QED BY <1>1, <1>2, <1>3 DEF Next

\* The run keeps the promises of the lifecycle: the first state is its first state, and every
\* step is one of its steps or none.
THEOREM LifecycleIsImplemented == Spec => ImplementsLifecycle
<1>1. Init => Lifecycle!Init
  BY DEF Init, Lifecycle!Init, EmptySnapshot
<1>2. ASSUME TypeInv, NumbersInv, GateInv, WorkerInv, SoleInv, [Next]_vars
      PROVE  [Lifecycle!Next]_(Lifecycle!lifeVars)
  <2>a. AllInv
    BY <1>2 DEF AllInv
  <2>1. CASE Arm
    <3>1. CASE UNCHANGED <<alive, spawned>>
      BY <2>a, <2>1, <3>1, ArmEffect DEF Lifecycle!lifeVars
    <3>2. CASE alive' = alive \cup {ItemAttempt} /\ spawned' = spawned \cup {ItemAttempt} /\ snap.run = "running"
      <4>1. ItemAttempt \in Attempt /\ ItemAttempt[1] = item.n /\ snap'.run = snap.run
        BY <2>a, <2>1, ArmEffect
      <4>2. ItemAttempt \notin spawned
        <5>. SUFFICES ASSUME ItemAttempt \in spawned PROVE FALSE
          OBVIOUS
        <5>1. pc = "arm" /\ KeyOf(ItemAttempt) = ItemKey /\ ItemAttempt[3] = tally.last[ItemKey]
              /\ tally.last[ItemKey] \in Nat
          BY <2>a, <2>1, ArmEffect DEF Arm, ArmIf, KeyOf, AllInv, TypeInv, JournalOK, Tally
        <5>. QED BY <1>2, <5>1 DEF NumbersInv, ClaimIsNew
      <4>3. \A y \in alive : y[1] # item.n
        BY <1>2, <2>1 DEF SoleInv, TickOwns, Arm, ArmIf
      <4>4. Lifecycle!StartWorker(ItemAttempt)
        BY <3>2, <4>1, <4>2, <4>3 DEF Lifecycle!StartWorker
      <4>. QED BY <3>2, <4>1, <4>4 DEF Lifecycle!Next
    <3>. QED BY <2>1, <3>1, <3>2 DEF Arm, ArmIf
  <2>2. CASE WorkerExit
    <3>1. PICK x \in alive : alive' = alive \ {x}
      BY <2>2 DEF WorkerExit
    <3>2. snap'.run = snap.run /\ spawned' = spawned
      BY <2>2 DEF WorkerExit, journal, history
    <3>. QED BY <3>1, <3>2 DEF Lifecycle!Next, Lifecycle!EndWorker
  <2>3. CASE ~Arm /\ ~WorkerExit
    <3>1. UNCHANGED <<alive, spawned>>
      BY <1>2, <2>3, WorkersSame
    <3>2. open = {} => alive = {}
      BY <1>2 DEF WorkerInv, LedgerInv, WorkerAccounted
    <3>3. RunTurns
      BY <1>2, <2>a, RunTurn
    <3>. QED BY <3>1, <3>2, <3>3 DEF RunTurns, Lifecycle!Next, Lifecycle!Stop, Lifecycle!Reopen,
                Lifecycle!RequestCancel, Lifecycle!Cancelled, Lifecycle!lifeVars
  <2>. QED BY <2>1, <2>2, <2>3
<1>. QED
  BY <1>1, <1>2, TypeInvariant, NumbersInvariant, GateInvariant, WorkerInvariant, SoleInvariant, PTL
  DEF Spec, ImplementsLifecycle, Lifecycle!Spec

----------------------------------------------------------------------------
(* A run at rest.                                                          *)

Rest == TrueTerminal \cup {"blocked"}

\* A promise nobody settles yet is of an open attempt.
FlightsOpen ==
  \A key \in Key : flight[key].att # 0 /\ ~(CbBusy /\ cb.mine /\ CbKey = key)
                     => <<key[1], key[2], flight[key].att>> \in open

\* At rest, and whenever the driver has left, nothing is in flight and nothing half way.
RestsIdle ==
  /\ snap.run \in Rest => pc \in {"top", "off"} /\ InFlight = {} /\ ~CbBusy
  /\ pc \in {"off", "stuck"} => InFlight = {} /\ ~CbBusy

\* What is finished or blocked was once dispatched.
Worked ==
  /\ \A key \in Key : snap.inst[key] = "running" => tally.last[key] # 0
  /\ \A n \in Node : snap.status[n] \in {"done", "blocked"} =>
       snap.eff[n] # 0 /\ tally.last[<<n, snap.eff[n]>>] # 0

\* A blocked run names a blocked node.
BlockedNamed ==
  snap.run = "blocked" => \E n \in Node : snap.blockedNode = {n} /\ snap.status[n] = "blocked"

\* No driver leaves a run that could go on, if nobody cancels it from elsewhere.
LeftAtRest == ~Foreign /\ pc = "off" /\ ~kick => snap.run \in Rest \/ Waiting # {}

RestInv == FlightsOpen /\ RestsIdle /\ Worked /\ BlockedNamed /\ LeftAtRest

\* Who takes an attempt off the ledger: its settle, the failed spawn of its claim, or a strike
\* of a node that is not at work.
LEMMA LedgerLoses ==
  ASSUME AllInv, [Next]_vars, NEW x \in open, x \notin open'
  PROVE  \/ (CbVerdict \/ CbDrain \/ CbCancelled) /\ CbBusy /\ x = CbAttempt
         \/ ArmFailed /\ x = ItemAttempt
         \/ \E n \in Node : /\ snap.status[n] \in {"pending", "gateWaiting"}
                            /\ x = <<n, snap.eff[n], tally.last[<<n, snap.eff[n]>>]>>
<1>a. ASSUME NEW types, Appends(types), types \cap (Closes \cup {"nodeCancelled"}) = {} PROVE open \subseteq open'
  <2>1. PICK e : Append(e) /\ e.type \in types
    BY <1>a DEF Appends
  <2>. QED BY <1>a, <2>1, LedgerEffect DEF Append
<1>b. Still => open' = open
  BY DEF Still
<1>1. CASE UNCHANGED vars
  BY <1>1 DEF vars, journal
<1>2. CASE ClaimWork
  BY <1>2, ClaimEffect DEF Claims
<1>3. CASE Arm
  BY <1>3, ArmEffect
<1>4. CASE ClaimGate
  BY <1>4, <1>a, StartMove DEF Closes
<1>5. CASE ArmFailed
  <2>1. open' = open \ {ItemAttempt}
    BY <1>5, StartMove, LedgerEffect DEF Append, Ev, Closes, ItemAttempt
  <2>. QED BY <1>5, <2>1
<1>6. CASE Cancelling
  BY <1>6 DEF Cancelling, StrikeNodes
<1>7. CASE Finalize \/ Publish
  BY <1>7, RunMove
<1>8. CASE CbVerdict \/ CbDrain \/ CbCancelled
  <2>1. CASE UNCHANGED journal
    BY <2>1 DEF journal
  <2>2. ASSUME NEW e, Append(e), e.n = cb.n, e.k = cb.k, e.a = cb.a, e.type \in SettleTypes
        PROVE  open' = open \ {CbAttempt} \/ open' = open
    BY <2>2, LedgerEffect DEF Append, SettleTypes, Closes, Opens, CbAttempt
  <2>3. CbBusy
    BY <1>8 DEF CbVerdict, CbDrain, CbCancelled, CbBusy
  <2>. QED BY <1>8, <2>1, <2>2, <2>3, SettleMove
<1>9. CASE Still \/ (Appends({"nodeSkipped", "nodeCancelled"}) /\ open' = open)
           \/ Appends({"nodeInstanceSuperseded", "nodeRetryRequested", "gateResolved"})
  BY <1>9, <1>a, <1>b DEF Closes
<1>. QED BY <1>1, <1>2, <1>3, <1>4, <1>5, <1>6, <1>7, <1>8, <1>9, TickMove, OutsideMove DEF Next

\* Every step keeps the promises on the ledger.
LEMMA FlightsOpenStep == ASSUME AllInv, FlightsOpen, [Next]_vars PROVE FlightsOpen'
<1>. SUFFICES ASSUME NEW key \in Key, flight'[key].att # 0, ~(CbBusy' /\ cb'.mine /\ CbKey' = key)
              PROVE  <<key[1], key[2], flight'[key].att>> \in open'
  BY DEF FlightsOpen
<1>. DEFINE x == <<key[1], key[2], flight[key].att>>
<1>1. CASE Arm
  <2>1. /\ ItemKey = <<item.n, item.k>> /\ ItemAttempt = <<item.n, item.k, tally.last[ItemKey]>>
        /\ open' = open \cup {ItemAttempt} /\ cb.step = "none"
        /\ flight'[key] = flight[key] \/ (key = ItemKey /\ flight'[key].att = tally.last[ItemKey])
    BY <1>1, ArmEffect DEF Arm, ArmIf, Steps
  <2>. QED BY <2>1 DEF FlightsOpen, CbBusy
<1>2. CASE ~Arm
  <2>1. flight'[key].att = flight[key].att /\ flight[key].att # 0
    BY <1>2, PromisesStay
  <2>2. ~(CbBusy /\ cb.mine /\ CbKey = key)
    BY <2>1, CallbackStays
  <2>3. x \in open /\ key = <<key[1], key[2]>> /\ key[1] \in Node
    BY <2>1, <2>2 DEF FlightsOpen, Key
  <2>4. CASE x \notin open'
    <3>a. flight[key].att = tally.last[key]
      BY <2>1 DEF AllInv, WorkerInv, FlightInv, FlightIsLatest
    <3>1. CASE CbBusy /\ x = CbAttempt
      <4>1. CbKey = key /\ flight[key].att = cb.a
        BY <2>3, <3>1 DEF CbAttempt, CbKey
      <4>. QED BY <2>1, <2>2, <3>1, <4>1 DEF AllInv, WorkerInv, FlightInv, CbInFlight
    <3>2. CASE ArmFailed /\ x = ItemAttempt
      <4>1. ItemKey = key /\ pc = "arm"
        BY <2>3, <3>2 DEF ArmFailed, ItemAttempt, ItemKey
      <4>. QED BY <2>1, <3>2, <4>1 DEF AllInv, WorkerInv, FlightInv, FlightIsLatest
    <3>3. ASSUME NEW n \in Node, snap.status[n] \in {"pending", "gateWaiting"},
                 x = <<n, snap.eff[n], tally.last[<<n, snap.eff[n]>>]>>
          PROVE  FALSE
      BY <2>1, <2>2, <2>3, <3>3 DEF AllInv, WorkerInv, EngagedInv, Engaged
    <3>. QED BY <2>3, <2>4, <3>1, <3>2, <3>3, LedgerLoses
  <2>. QED BY <2>1, <2>4
<1>. QED BY <1>1, <1>2

\* When nothing is in flight nothing begins to settle, except a drain.
LEMMA IdleStays ==
  ASSUME AllInv, [Next]_vars, ~Arm, ~DrainClosed, InFlight = {}, ~CbBusy
  PROVE  InFlight' = {} /\ ~CbBusy'
<1>1. InFlight' = {}
  BY PromisesStay DEF InFlight
<1>. SUFFICES ~CbBusy'
  BY <1>1
<1>2. ~Promises
  <2>1. \A key \in Key : flight[key].phase = "none"
    BY DEF InFlight, AllInv, WorkerInv, FlightInv, FlightIsLatest
  <2>2. \A n \in Node, k \in Inst : flight[<<n, k>>].phase = "none"
    BY <2>1 DEF Key
  <2>. QED BY <2>2 DEF Promises, Settle, Judge
<1>3. ~CbVerdict /\ ~CbDrain /\ ~CbCancelled /\ ~CbRevisit /\ ~CbRefresh
  BY DEF CbBusy, CbVerdict, CbDrain, CbCancelled, CbRevisit, CbRefresh
<1>4. UNCHANGED cb => ~CbBusy'
  BY DEF CbBusy
<1>5. CASE Drive \/ Tick
  BY <1>4, <1>5 DEF Drive, Tick, SignalToJournal, Cancelling, Finalize, Boundary, DropObsolete, DropOrphaned,
     Decide, Publish, Quiesced, DrainPassed, Wake, ResolveEdge, SkipNode,
     Controlled, ClaimWork, ClaimGate, PassOver, Dispatched, ArmFailed, CancelLoser,
     EndTick, NoticeCancel, Quiesce, Return, GiveUp, Goto
<1>6. CASE CbRetry \/ WorkerExit \/ GateClick \/ Retry \/ Environment \/ UNCHANGED vars
  BY <1>4, <1>6 DEF CbRetry, WorkerExit, GateClick, Click, Retry, Environment, Cancel, CancelAnd, ForeignCancel,
     BareAbort, Crash, vars, local, NoCb, CbBusy
<1>7. CASE GrantRevisit
  BY <1>7 DEF GrantRevisit, NoCb, CbBusy
<1>. QED BY <1>2, <1>3, <1>5, <1>6, <1>7 DEF Next, Callback, Human

\* How the driver leaves.
LEMMA Leaving ==
  ASSUME [Next]_vars, pc' \in {"off", "stuck"}
  PROVE  \/ pc = pc' /\ ~Arm /\ ~DrainClosed
         \/ Crash
         \/ /\ Boundary /\ snap.run \in Rest /\ open = {} /\ Return
         \/ /\ EndTick /\ InFlight = {} /\ cb.step = "none" /\ Waiting # {} /\ Return
         \/ /\ EndTick /\ InFlight = {} /\ cb.step = "none" /\ pc' = "stuck" /\ GiveUp
<1>a. UNCHANGED pc => pc = pc' /\ ~Arm /\ ~DrainClosed
  BY DEF Arm, ArmIf, DrainClosed, ProvesClosed
<1>b. ASSUME NEW S, NEW reason, Quiesce(S, reason) PROVE FALSE
  BY <1>b DEF Quiesce
<1>1. CASE (Drive \/ Tick) /\ ~Boundary /\ ~EndTick
  BY <1>1, <1>a, <1>b DEF Drive, Tick, SignalToJournal, Cancelling, Finalize, DropObsolete, DropOrphaned,
     Decide, Publish, Quiesced, DrainClosed, ProvesClosed, DrainPassed, Wake, ResolveEdge, SkipNode,
     Controlled, ClaimWork, ClaimGate, PassOver, Dispatched, Arm, ArmIf, ArmFailed, CancelLoser,
     NoticeCancel, Goto, Running, Top
<1>2. CASE Boundary
  BY <1>2, <1>b DEF Boundary, Rest
<1>3. CASE EndTick
  BY <1>3, <1>b DEF EndTick, Steps, Goto, GiveUp
<1>4. CASE Callback
  BY <1>4, <1>a DEF Callback, CbVerdict, CbDrain, CbCancelled, CbRevisit, CbRefresh, CbRetry, Finally
<1>5. CASE Promises \/ WorkerExit \/ Human \/ Cancel \/ ForeignCancel \/ BareAbort \/ UNCHANGED vars
  BY <1>5, <1>a DEF Promises, Settle, Judge, WorkerExit, Human, GateClick, Click, Retry, GrantRevisit,
     Cancel, CancelAnd, ForeignCancel, BareAbort, vars, local
<1>. QED BY <1>1, <1>2, <1>3, <1>4, <1>5 DEF Next, Environment

\* The driver of a run at rest is about to leave, or has left.
LEMMA RestingMoves ==
  ASSUME [Next]_vars, snap.run \in Rest, open = {}, pc \in {"top", "off"}
  PROVE  pc' \in {"top", "off"}
<1>1. CASE (Drive \/ Tick) /\ ~Boundary
  BY <1>1 DEF Drive, Tick, SignalToJournal, Cancelling, Finalize, DropObsolete, DropOrphaned,
     Decide, Publish, Quiesced, DrainClosed, ProvesClosed, DrainPassed, Wake, ResolveEdge, SkipNode,
     Controlled, ClaimWork, ClaimGate, PassOver, Dispatched, Arm, ArmIf, ArmFailed, CancelLoser, EndTick,
     NoticeCancel, Goto, Running, Top, Rest, TrueTerminal
<1>2. CASE Boundary
  BY <1>2 DEF Boundary, Return
<1>3. CASE Callback
  BY <1>3 DEF Callback, CbVerdict, CbDrain, CbCancelled, CbRevisit, CbRefresh, CbRetry, Finally
<1>4. CASE Promises \/ WorkerExit \/ Human \/ Environment \/ UNCHANGED vars
  BY <1>4 DEF Promises, Settle, Judge, WorkerExit, Human, GateClick, Click, Retry, GrantRevisit,
     Environment, Cancel, CancelAnd, ForeignCancel, BareAbort, Crash, vars, local
<1>. QED BY <1>1, <1>2, <1>3, <1>4 DEF Next

\* Every step that ends a run, or the drive of one, leaves nothing behind.
LEMMA RestsIdleStep == ASSUME AllInv, FlightsOpen, RestsIdle, [Next]_vars PROVE RestsIdle'
<1>1. ASSUME pc' \in {"off", "stuck"} PROVE InFlight' = {} /\ ~CbBusy'
  <2>1. CASE pc = pc' /\ ~Arm /\ ~DrainClosed
    BY <1>1, <2>1, IdleStays DEF RestsIdle
  <2>2. CASE Crash
    BY <2>2 DEF Crash, InFlight, NoFlight, NoCb, CbBusy
  <2>3. CASE Boundary /\ snap.run \in Rest
    <3>1. ~Arm /\ ~DrainClosed
      BY <2>3 DEF Boundary, Top, Arm, ArmIf, DrainClosed, ProvesClosed
    <3>. QED BY <2>3, <3>1, IdleStays DEF RestsIdle
  <2>4. CASE EndTick /\ InFlight = {} /\ cb.step = "none"
    <3>1. ~Arm /\ ~DrainClosed /\ ~CbBusy
      BY <2>4 DEF EndTick, Arm, ArmIf, DrainClosed, ProvesClosed, CbBusy
    <3>. QED BY <2>4, <3>1, IdleStays
  <2>. QED BY <1>1, <2>1, <2>2, <2>3, <2>4, Leaving
<1>2. ASSUME snap'.run \in Rest PROVE pc' \in {"top", "off"} /\ InFlight' = {} /\ ~CbBusy'
  <2>1. CASE snap'.run = snap.run
    <3>1. pc \in {"top", "off"} /\ InFlight = {} /\ ~CbBusy
      BY <1>2, <2>1 DEF RestsIdle
    <3>2. open = {}
      BY <1>2, <2>1 DEF AllInv, WorkerInv, QuiescentInv, TerminalQuiescent, Rest
    <3>3. ~Arm /\ ~DrainClosed
      BY <3>1 DEF Arm, ArmIf, DrainClosed, ProvesClosed
    <3>. QED BY <1>2, <2>1, <3>1, <3>2, <3>3, IdleStays, RestingMoves
  <2>2. CASE (Publish \/ Finalize) /\ open = {}
    <3>1. pc' = "top" /\ UNCHANGED <<flight, cb>> /\ cb.step = "none"
      BY <2>2 DEF Publish, Finalize, Steps, Goto
    <3>2. InFlight = {}
      BY <2>2, <3>1 DEF FlightsOpen, InFlight, CbBusy
    <3>. QED BY <3>1, <3>2 DEF InFlight, CbBusy
  <2>. QED BY <1>2, <2>1, <2>2, RunTurn DEF RunTurns, Rest, TrueTerminal
<1>. QED BY <1>1, <1>2 DEF RestsIdle

\* A node is found finished or blocked as it was, or by a settle of its live instance.
LEMMA DoneFold ==
  ASSUME NEW s \in Snapshot, NEW e, WellFormed(e), Fits(s, e), e.type \in Loud \cup Soft,
         NEW n \in Node, Fold(s, e).status[n] \in {"done", "blocked"}
  PROVE  \/ Fold(s, e).status[n] = s.status[n] /\ Fold(s, e).eff[n] = s.eff[n]
         \/ /\ n = e.n /\ Fold(s, e).eff[n] = e.k /\ e.k # 0
            /\ e.type \in {"nodeSucceeded", "nodeFailed", "nodeBlocked"}
<1>. DEFINE t == Fold(s, e)
<1>a. n # e.n => t.status[n] = s.status[n] /\ t.eff[n] = s.eff[n]
  BY FrameFold DEF FrameOf
<1>. SUFFICES ASSUME n = e.n
              PROVE  \/ t.status[n] = s.status[n] /\ t.eff[n] = s.eff[n]
                     \/ /\ t.eff[n] = e.k /\ e.k # 0
                        /\ e.type \in {"nodeSucceeded", "nodeFailed", "nodeBlocked"}
  BY <1>a
<1>0. t.status[n] \in {"done", "blocked"} /\ e.n \in Node
  OBVIOUS
<1>. HIDE DEF t
<1>1. CASE e.type \in {"nodeSucceeded", "nodeFailed", "nodeBlocked"}
  BY <1>1, SettleEffect DEF t, SameNodes, Shows, Fits
<1>2. CASE e.type = "nodeCancelled"
  BY <1>0, <1>2, CancelledEffect DEF t, SameNodes, Shows
<1>3. CASE e.type = "nodeRetryRequested"
  BY <1>0, <1>3, RetryEffect DEF t, SameNodes, Shows, Fits
<1>4. CASE e.type = "gateResolved"
  BY <1>0, <1>4, ClickEffect DEF t, SameNodes, Shows, Fits
<1>5. CASE e.type = "nodeInstanceSuperseded"
  BY <1>0, <1>5, SupersededEffect DEF t, SameNodes, Fits
<1>6. CASE e.type = "nodeSkipped"
  BY <1>0, <1>6, SkippedEffect DEF t
<1>7. CASE e.type = "nodeAttemptDrained"
  BY <1>0, <1>7, DrainedEffect DEF t, SameNodes
<1>8. CASE e.type = "gateDispatched"
  BY <1>0, <1>8, GateEffect DEF t, SameNodes, Begins
<1>. QED BY <1>1, <1>2, <1>3, <1>4, <1>5, <1>6, <1>7, <1>8 DEF Loud, Soft

\* Every step but a claim finishes only what was dispatched.
LEMMA DoneWorked ==
  ASSUME AllInv, Worked, [Next]_vars, ~ClaimWork, NEW n \in Node, snap'.status[n] \in {"done", "blocked"}
  PROVE  snap'.eff[n] # 0 /\ tally.last[<<n, snap'.eff[n]>>] # 0
<1>. DEFINE Goal == snap'.eff[n] # 0 /\ tally.last[<<n, snap'.eff[n]>>] # 0
            Settles == {"nodeSucceeded", "nodeFailed", "nodeBlocked"}
<1>. USE DEF Outside, journal
<1>s. snap \in Snapshot /\ tally.last \in [Key -> Nat]
  BY DEF AllInv, TypeInv, JournalOK, Tally
<1>a. snap'.status[n] = snap.status[n] /\ snap'.eff[n] = snap.eff[n] => Goal
  BY DEF Worked
<1>b. ASSUME NEW e, Append(e), InOrder(e), e.type \in Loud \cup Soft,
             e.type \in Settles /\ e.k # 0 => tally.last[<<e.n, e.k>>] # 0
      PROVE  Goal
  <2>1. snap' = Fold(snap, e) /\ WellFormed(e) /\ Fits(snap, e)
    BY <1>b DEF Append, InOrder
  <2>2. \/ Fold(snap, e).status[n] = snap.status[n] /\ Fold(snap, e).eff[n] = snap.eff[n]
        \/ n = e.n /\ Fold(snap, e).eff[n] = e.k /\ e.k # 0 /\ e.type \in Settles
    BY <1>s, <1>b, <2>1, DoneFold
  <2>. QED BY <1>a, <1>b, <2>1, <2>2
<1>c. ASSUME NEW types, Appends(types), types \subseteq Loud \cup Soft, types \cap Settles = {} PROVE Goal
  BY <1>b, <1>c DEF Appends
<1>d. SameNodes(snap, snap') => Goal
  BY <1>a DEF SameNodes
<1>. SUFFICES Goal
  OBVIOUS
<1>. HIDE DEF Goal
<1>1. CASE UNCHANGED vars
  BY <1>d, <1>1 DEF vars, SameNodes
<1>2. CASE Arm
  BY <1>2, <1>d, ArmEffect
<1>3. CASE ClaimGate
  BY <1>3, <1>c, StartMove DEF Loud
<1>4. CASE ArmFailed
  <2>1. tally.last[<<item.n, item.k>>] # 0
    BY <1>4 DEF ArmFailed, AllInv, WorkerInv, FlightInv, FlightIsLatest, ItemKey
  <2>. DEFINE e == Ev("nodeFailed", item.n, item.k, ItemAttempt[3])
  <2>2. Append(e) /\ InOrder(e)
    BY <1>4, StartMove
  <2>3. e.type = "nodeFailed" /\ e.n = item.n /\ e.k = item.k
    BY DEF Ev
  <2>. HIDE DEF e
  <2>. QED BY <1>b, <2>1, <2>2, <2>3 DEF Loud
<1>5. CASE Cancelling \/ Finalize
  <2>1. CASE UNCHANGED snap
    BY <1>d, <2>1 DEF SameNodes
  <2>2. ASSUME NEW S \in SUBSET Node, SameNodes(StrikeAll(snap, S, tally.last), snap')
        PROVE  Goal
    <3>1. /\ StrikeAll(snap, S, tally.last).eff = snap.eff
          /\ \A m \in Node : StrikeAll(snap, S, tally.last).status[m] =
                               IF m \in S THEN "cancelled" ELSE snap.status[m]
      BY <1>s DEF StrikeAll, Snapshot
    <3>. QED BY <1>a, <2>2, <3>1 DEF SameNodes
  <2>3. UNCHANGED snap \/ \E S \in SUBSET Node : SameNodes(StrikeAll(snap, S, tally.last), snap')
    BY <1>5, RunMove DEF StrikeNodes, SameNodes
  <2>. QED BY <2>1, <2>2, <2>3
<1>6. CASE Publish
  BY <1>6, <1>d, RunMove
<1>7. CASE CbVerdict \/ CbDrain \/ CbCancelled
  <2>1. CASE UNCHANGED journal
    BY <1>d, <2>1 DEF SameNodes
  <2>2. ASSUME NEW e, Append(e), InOrder(e), e.type \in SettleTypes, e.n = cb.n, e.k = cb.k,
               cb.mine \/ e.type \in {"nodeAttemptDrained", "nodeCancelled"}
                 \/ (tally.last[CbKey] = cb.a /\ snap.inst[CbKey] = "running")
        PROVE  Goal
    <3>1. CbBusy
      BY <1>7 DEF CbVerdict, CbDrain, CbCancelled, CbBusy
    <3>2. e.type \in Settles /\ e.k # 0 => tally.last[<<e.n, e.k>>] # 0
      <4>. SUFFICES ASSUME e.type \in Settles, e.k # 0 PROVE tally.last[CbKey] # 0
        BY <2>2 DEF CbKey
      <4>1. CbKey \in Key
        BY <2>2 DEF InOrder, WellFormed, Event, CbKey, Key, Inst
      <4>2. cb.mine => tally.last[CbKey] # 0
        BY <3>1, <4>1 DEF AllInv, WorkerInv, FlightInv, FlightIsLatest, CbInFlight
      <4>3. snap.inst[CbKey] = "running" => tally.last[CbKey] # 0
        BY <4>1 DEF Worked
      <4>. QED BY <2>2, <4>2, <4>3
    <3>. QED BY <1>b, <2>2, <3>2 DEF SettleTypes, Loud, Soft
  <2>. QED BY <1>7, <2>1, <2>2, SettleMove
<1>8. CASE Still \/ Appends({"nodeSkipped", "nodeCancelled"})
           \/ Appends({"nodeInstanceSuperseded", "nodeRetryRequested", "gateResolved"})
  BY <1>8, <1>c, <1>d DEF Still, Soft
<1>. QED BY <1>1, <1>2, <1>3, <1>4, <1>5, <1>6, <1>7, <1>8, TickMove, OutsideMove DEF Next

\* Every step does.
LEMMA WorkedStep == ASSUME AllInv, Worked, [Next]_vars PROVE Worked'
<1>a. snap \in Snapshot /\ Views(snap) /\ tally.last \in [Key -> Nat]
  BY DEF AllInv, TypeInv, JournalOK, Tally, WorkerInv, ViewInv
<1>1. CASE ClaimWork
  <2>1. PICK act, a : Claims(act, a)
    BY <1>1, ClaimEffect
  <2>2. \A key \in Key : snap'.inst[key] = "running" => tally'.last[key] # 0
    BY <1>a, <2>1 DEF Worked, Claims, FrameOf
  <2>3. ASSUME NEW n \in Node, snap'.status[n] \in {"done", "blocked"}
        PROVE  snap'.eff[n] # 0 /\ tally'.last[<<n, snap'.eff[n]>>] # 0
    <3>1. n # act.n /\ snap'.status[n] = snap.status[n] /\ snap'.eff[n] = snap.eff[n]
      BY <2>1, <2>3 DEF Claims, Begins, FrameOf
    <3>2. snap.eff[n] # 0 /\ tally.last[<<n, snap.eff[n]>>] # 0
      BY <2>3, <3>1 DEF Worked
    <3>3. <<n, snap.eff[n]>> \in Key
      BY <1>a, <3>2 DEF Snapshot, Key, Inst
    <3>. QED BY <2>1, <3>1, <3>2, <3>3 DEF Claims
  <2>. QED BY <2>2, <2>3 DEF Worked
<1>2. CASE ~ClaimWork
  <2>1. tally'.last = tally.last
    BY <1>2, LastStays DEF AllInv
  <2>2. RunsStay(snap, snap')
    BY <1>2, EveryMove, MoveEffect
  <2>. QED BY <1>2, <2>1, <2>2, DoneWorked DEF RunsStay, Worked
<1>. QED BY <1>1, <1>2

\* A run that stays blocked stays as it is.
LEMMA BlockedStays ==
  ASSUME AllInv, RestsIdle, [Next]_vars, snap.run = "blocked", snap'.run = "blocked"
  PROVE  snap' = snap
<1>. USE DEF Outside, Idling, Goto, journal
<1>a. snap \in Snapshot /\ pc \in {"top", "off"} /\ ~CbBusy /\ \A key \in Key : flight[key].phase = "none"
  BY DEF AllInv, TypeInv, JournalOK, RestsIdle, Rest, InFlight, WorkerInv, FlightInv, FlightIsLatest
<1>b. ASSUME NEW n \in Node, Append(RetryEvent(n)) PROVE FALSE
  BY <1>a, <1>b DEF Append, RetryEvent, Ev, Fold, Applied, RunEvent, Cut, OnNodeEvent, OnRetry, Unblock, Snapshot
<1>c. ASSUME Append(Ev("runCancelRequested", AnyNode, 0, 0)) PROVE FALSE
  BY <1>a, <1>c DEF Append, Ev, Fold, Applied, RunEvent, Cut, OnRunEvent, OnCancelRequested, Snapshot, TrueTerminal
<1>1. CASE Drive \/ Tick
  BY <1>1, <1>a, <1>c DEF Drive, Tick, SignalToJournal, Cancelling, Finalize, Boundary, DropObsolete, DropOrphaned,
     Decide, Publish, Quiesced, DrainClosed, ProvesClosed, DrainPassed, Wake, ResolveEdge, SkipNode,
     Controlled, ClaimWork, ClaimGate, PassOver, Dispatched, Arm, ArmIf, ArmFailed, CancelLoser, EndTick,
     NoticeCancel, Quiesce, Return, Running, Top
<1>2. CASE Callback
  <2>1. CbRetry
    BY <1>2, <1>a DEF Callback, CbBusy, CbVerdict, CbDrain, CbCancelled, CbRevisit, CbRefresh
  <2>. QED BY <2>1, <1>b DEF CbRetry, AllInv, TypeInv, CbOK, CbType
<1>3. CASE Promises
  <2>1. \A n \in Node, k \in Inst : flight[<<n, k>>].phase = "none"
    BY <1>a DEF Key
  <2>. QED BY <1>3, <2>1 DEF Promises, Settle, Judge
<1>4. CASE GrantRevisit
  <2>1. PICK n, m, x : UNCHANGED snap \/ Append(EvM("revisitBudgetGranted", n, 0, 0, m, x))
    BY <1>4 DEF GrantRevisit
  <2>. QED BY <2>1 DEF Append, EvM, Fold, Applied, RunEvent, OnNodeEvent
<1>5. CASE GateClick
  BY <1>5 DEF GateClick, Click
<1>6. CASE Retry
  BY <1>6, <1>b DEF Retry
<1>7. CASE Cancel \/ ForeignCancel
  BY <1>7, <1>c DEF Cancel, CancelAnd, ForeignCancel
<1>8. CASE WorkerExit \/ BareAbort \/ Crash \/ UNCHANGED vars
  BY <1>8 DEF WorkerExit, BareAbort, Crash, vars
<1>. QED BY <1>1, <1>2, <1>3, <1>4, <1>5, <1>6, <1>7, <1>8 DEF Next, Human, Environment

\* Every step that leaves a run blocked leaves it naming a blocked node.
LEMMA BlockedNamedStep == ASSUME AllInv, RestsIdle, BlockedNamed, [Next]_vars PROVE BlockedNamed'
<1>. SUFFICES ASSUME snap'.run = "blocked"
              PROVE  \E n \in Node : snap'.blockedNode = {n} /\ snap'.status[n] = "blocked"
  BY DEF BlockedNamed
<1>1. CASE snap.run = "blocked"
  BY <1>1, BlockedStays DEF BlockedNamed
<1>2. CASE snap.run # "blocked"
  <2>1. Publish
    BY <1>2, RunTurn DEF RunTurns
  <2>. QED BY <1>2, <2>1, PublishEffect DEF SameNodes
<1>. QED BY <1>1, <1>2

\* Every step that leaves the driver away, and nobody asked to come back, leaves a run at rest.
LEMMA LeftAtRestStep == ASSUME AllInv, RestsIdle, LeftAtRest, [Next]_vars PROVE LeftAtRest'
<1>. SUFFICES ASSUME ~Foreign, pc' = "off", ~kick' PROVE snap'.run \in Rest \/ Waiting' # {}
  BY DEF LeftAtRest
<1>a. snap'.run = snap.run /\ snap'.status = snap.status /\ (snap.run \in Rest \/ Waiting # {})
      => snap'.run \in Rest \/ Waiting' # {}
  BY DEF Waiting
<1>1. CASE pc = "off"
  <2>1. ~CbBusy
    BY <1>1 DEF RestsIdle
  <2>2. \/ UNCHANGED journal /\ kick' = kick
        \/ GrantRevisit
    <3>1. CASE Drive \/ Tick
      BY <1>1, <3>1 DEF Drive, Tick, SignalToJournal, Cancelling, Finalize, Boundary, DropObsolete, DropOrphaned,
         Decide, Publish, Quiesced, DrainClosed, ProvesClosed, DrainPassed, Wake, ResolveEdge, SkipNode,
         Controlled, ClaimWork, ClaimGate, PassOver, Dispatched, Arm, ArmIf, ArmFailed, CancelLoser, EndTick,
         NoticeCancel, Running, Top
    <3>2. CASE Callback
      BY <2>1, <3>2 DEF Callback, CbBusy, CbVerdict, CbDrain, CbCancelled, CbRevisit, CbRefresh, CbRetry
    <3>3. CASE Promises \/ BareAbort
      BY <1>1, <3>3 DEF Promises, Settle, Judge, BareAbort, Driving
    <3>4. CASE WorkerExit \/ UNCHANGED vars
      BY <3>4 DEF WorkerExit, vars
    <3>5. CASE GateClick \/ Retry \/ Cancel \/ ForeignCancel \/ Crash
      BY <3>5 DEF GateClick, Click, Retry, Cancel, CancelAnd, ForeignCancel, Crash
    <3>. QED BY <3>1, <3>2, <3>3, <3>4, <3>5 DEF Next, Human, Environment
  <2>3. CASE UNCHANGED journal /\ kick' = kick
    BY <1>1, <1>a, <2>3 DEF journal, LeftAtRest
  <2>4. CASE GrantRevisit
    <3>1. PICK n, m, x : UNCHANGED snap \/ Append(EvM("revisitBudgetGranted", n, 0, 0, m, x))
      BY <2>4 DEF GrantRevisit, journal
    <3>2. snap' = snap
      BY <3>1 DEF Append, EvM, Fold, Applied, RunEvent, OnNodeEvent
    <3>3. kick' = kick
      BY <2>4 DEF GrantRevisit
    <3>. QED BY <1>1, <1>a, <3>2, <3>3 DEF LeftAtRest
  <2>. QED BY <2>2, <2>3, <2>4
<1>2. CASE pc # "off"
  <2>1. CASE Crash
    BY <2>1 DEF Crash
  <2>2. CASE (snap.run \in Rest \/ Waiting # {}) /\ Return
    BY <1>a, <2>2 DEF Return, journal
  <2>. QED BY <1>2, <2>1, <2>2, Leaving DEF GiveUp
<1>. QED BY <1>1, <1>2

\* Nothing is in flight or half way in a run at rest, it names what blocks it, and nobody leaves
\* a run that could go on.
THEOREM RestInvariant == Spec => []RestInv
<1>1. Init => RestInv
  BY DEF Init, RestInv, FlightsOpen, RestsIdle, Worked, BlockedNamed, LeftAtRest, EmptySnapshot, NoFlight, NoCb,
     InFlight, CbBusy, Rest, TrueTerminal
<1>2. ASSUME TypeInv, NumbersInv, GateInv, WorkerInv, RestInv, [Next]_vars PROVE RestInv'
  <2>1. AllInv
    BY <1>2 DEF AllInv
  <2>. QED BY <1>2, <2>1, FlightsOpenStep, RestsIdleStep, WorkedStep, BlockedNamedStep, LeftAtRestStep DEF RestInv
<1>. QED BY <1>1, <1>2, TypeInvariant, NumbersInvariant, GateInvariant, WorkerInvariant, PTL DEF Spec

\* A run that is shown blocked names exactly one node, that node is blocked at a live instance,
\* and the instance has an attempt which requestV3Retry can follow up.
THEOREM BlockedRunsAreRecoverable == Spec => []BlockedIsRecoverable
<1>1. TypeInv /\ RestInv => BlockedIsRecoverable
  <2>. SUFFICES ASSUME TypeInv, RestInv, snap.run = "blocked" PROVE BlockedIsRecoverable
    BY DEF BlockedIsRecoverable
  <2>1. PICK n \in Node : snap.blockedNode = {n} /\ snap.status[n] = "blocked"
    BY DEF RestInv, BlockedNamed
  <2>2. snap.eff[n] # 0 /\ tally.last[<<n, snap.eff[n]>>] # 0
    BY <2>1 DEF RestInv, Worked
  <2>3. tally.last[<<n, snap.eff[n]>>] \in Nat
    <3>1. <<n, snap.eff[n]>> \in Key
      BY <2>2 DEF TypeInv, JournalOK, Snapshot, Key, Inst
    <3>. QED BY <3>1 DEF TypeInv, JournalOK, Tally
  <2>. QED BY <2>1, <2>2, <2>3 DEF BlockedIsRecoverable
<1>. QED BY <1>1, TypeInvariant, RestInvariant, PTL

\* When nobody drives a run any more and nobody was asked to, the run is finished, blocked or
\* waits for a human: a crash, a worker that ends late or a retry never leaves it behind.  A
\* cancel request that another process appends after the driver left has no driver of its own,
\* so the theorem is about runs that only their owner cancels.
THEOREM NoRunIsLeftStalled == ASSUME Foreign = FALSE PROVE Spec => []NoStall
<1>1. RestInv => NoStall
  BY DEF RestInv, LeftAtRest, NoStall, Rest
<1>. QED BY <1>1, RestInvariant, PTL

----------------------------------------------------------------------------
(* Fresh inputs.                                                           *)

\* Only a start and a refresh touch which instances are live.
EffStays(s, t) == t.eff = s.eff

\* No other event does.
LEMMA EffFold ==
  ASSUME NEW s \in Snapshot, NEW e,
         e.type \notin {"nodeDispatched", "gateDispatched", "nodeInstanceSuperseded"}
  PROVE  EffStays(s, Fold(s, e))
<1>. USE DEF EffStays
<1>1. EffStays(s, OnRunEvent(s, e))
  BY DEF OnRunEvent, OnCancelRequested, Snapshot
<1>2. ASSUME NEW st \in NodeStatus PROVE EffStays(s, OnSettle(s, e, st))
  BY DEF OnSettle, Record, Snapshot
<1>3. EffStays(s, OnRetry(s, e))
  BY DEF OnRetry, Unblock, Snapshot
<1>4. EffStays(s, OnGateResolved(s, e))
  BY DEF OnGateResolved, Snapshot
<1>5. EffStays(s, OnEdgeResolved(s, e)) /\ EffStays(s, OnSkipped(s, e))
  BY DEF OnEdgeResolved, OnSkipped, Snapshot
<1>6. EffStays(s, OnCancelled(s, e))
  BY DEF OnCancelled, Record, Snapshot
<1>7. EffStays(s, OnDrained(s, e))
  BY DEF OnDrained, Snapshot
<1>. QED
  BY <1>1, <1>2, <1>3, <1>4, <1>5, <1>6, <1>7 DEF Fold, Applied, OnNodeEvent, NodeStatus

\* So every step but a start and a refresh leaves the live instances alone.
LEMMA LiveStays ==
  ASSUME TypeInv, [Next]_vars, ~ClaimWork, ~ClaimGate, ~CbRefresh
  PROVE  snap'.eff = snap.eff
<1>. USE DEF Outside, Idling, Goto, journal
<1>s. snap \in Snapshot
  BY DEF TypeInv, JournalOK
<1>a. ASSUME NEW e, Append(e), e.type \notin {"nodeDispatched", "gateDispatched", "nodeInstanceSuperseded"}
      PROVE  snap'.eff = snap.eff
  BY <1>s, <1>a, EffFold DEF Append, EffStays
<1>b. ASSUME NEW S PROVE StrikeAll(snap, S, tally.last).eff = snap.eff
  BY <1>s DEF StrikeAll, Snapshot
<1>1. CASE Drive \/ SignalToJournal \/ Boundary \/ DropObsolete \/ DropOrphaned \/ Decide \/ Quiesced
           \/ DrainClosed \/ DrainPassed \/ Wake \/ ResolveEdge \/ SkipNode \/ Controlled
  BY <1>1, <1>a DEF Drive, SignalToJournal, Boundary, DropObsolete, DropOrphaned, Decide, Quiesced,
     DrainClosed, ProvesClosed, DrainPassed, Wake, ResolveEdge, SkipNode, Controlled, Quiesce, Return, Ev, EvM
<1>2. CASE Cancelling \/ Finalize
  <2>1. CASE Cancelling
    BY <2>1, <1>b DEF Cancelling, StrikeNodes
  <2>2. CASE Finalize
    <3>. DEFINE S == {n \in Node : snap.status[n] \in {"pending", "gateWaiting", "running"}}
                t == StrikeAll(snap, S, tally.last)
    <3>1. snap' = snap \/ snap' = Fold(t, Ev("runCancelled", AnyNode, 0, 0))
      BY <2>2 DEF Finalize
    <3>2. t \in Snapshot
      BY <1>s, StrikeAllType DEF TypeInv, JournalOK, Tally
    <3>3. Fold(t, Ev("runCancelled", AnyNode, 0, 0)).eff = t.eff
      <4>1. Ev("runCancelled", AnyNode, 0, 0).type = "runCancelled"
        BY DEF Ev
      <4>. HIDE DEF t
      <4>. QED BY <3>2, <4>1, EffFold DEF EffStays
    <3>. QED BY <1>b, <3>1, <3>3
  <2>. QED BY <1>2, <2>1, <2>2
<1>3. CASE Publish
  <2>1. \A e \in TerminalEvent(snap) : e.type \in {"runFailed", "runBlocked", "runSucceeded"}
    BY DEF TerminalEvent, Ev
  <2>. QED BY <1>3, <1>a, <2>1 DEF Publish
<1>4. CASE PassOver \/ Dispatched \/ Arm \/ ArmFailed \/ CancelLoser \/ EndTick \/ NoticeCancel
  BY <1>4, <1>a DEF PassOver, Dispatched, Arm, ArmIf, ArmFailed, CancelLoser, EndTick, NoticeCancel,
     Quiesce, Return, GiveUp, Ev, EvX
<1>5. CASE CbVerdict \/ CbDrain \/ CbCancelled \/ CbRevisit \/ CbRetry
  BY <1>5, <1>a DEF CbVerdict, CbDrain, CbCancelled, CbRevisit, CbRetry, CbEvent, EvM, EvX, Ev, RetryEvent,
     TypeInv, CbOK
<1>6. CASE Promises \/ WorkerExit \/ Human \/ Environment \/ UNCHANGED vars
  BY <1>6, <1>a DEF Promises, Settle, Judge, WorkerExit, Human, GateClick, Click, Retry, GrantRevisit,
     Environment, Cancel, CancelAnd, ForeignCancel, BareAbort, Crash, vars, RetryEvent, Ev, EvX, EvM
<1>. QED BY <1>1, <1>2, <1>3, <1>4, <1>5, <1>6 DEF Next, Tick, Callback

\* No driver dies, or no node sends the run back: no refresh is left half way.
Careful == MaxCrash = 0 \/ RevisitTo = {}

Refreshes == cb.step \in {"revisit", "refresh"}

\* An instance that does not exist was given nothing.
Unborn == \A key \in Key : snap.inst[key] = "absent" => consumed[key] = {}

\* The run is sent back only along a declared pair.
Sent == Refreshes => <<cb.n, cb.m>> \in RevisitTo

\* The refresh still has to reach the node.
Doomed(n) == cb.step = "refresh" /\ n \in cb.refresh

\* A live instance was built from the live instances of its inputs, or is about to be refreshed.
Fresh ==
  ~Cut(snap) => \A n \in Node : snap.eff[n] # 0 => \A i \in consumed[<<n, snap.eff[n]>>] :
    i[1] \in Upstream(n) /\ i[2] # 0 /\ (snap.eff[i[1]] = i[2] \/ Doomed(n))

\* A refresh reaches everything downstream of its target that is live.
Whole ==
  ~Cut(snap) /\ Refreshes =>
    /\ \A n \in Affected(cb.m) : snap.eff[n] # 0 => n \in cb.refresh
    /\ cb.refresh \subseteq Affected(cb.m)

FreshInv == Unborn /\ Sent /\ Fresh /\ Whole

\* affectedNodesFrom is closed under the dependencies.
LEMMA AffectedClosed ==
  ASSUME NEW m \in Node, NEW n \in Affected(m), NEW o \in Node, <<n, o>> \in Dep
  PROVE  o \in Affected(m)
BY DEF Affected

\* The budget is checked and the affected nodes are read in one breath with the manifest.
LEMMA JudgeEffect ==
  ASSUME TypeInv, Judge
  PROVE  /\ UNCHANGED <<journal, consumed>> /\ cb.step = "none" /\ cb'.step # "refresh"
         /\ cb'.step = "revisit" => /\ <<cb'.n, cb'.m>> \in RevisitTo
                                    /\ cb'.refresh = {o \in Affected(cb'.m) : snap.eff[o] # 0}
                                    /\ \A o \in cb'.refresh : NextInstance(snap, o) <= MaxInst
<1>1. UNCHANGED <<journal, consumed>> /\ cb.step = "none"
  BY DEF Judge, Quiet, Outside, history
<1>2. PICK n \in Node, k \in Inst, find \in Finds, m \in Node :
        /\ cb' = Judgement(find, n, k, flight[<<n, k>>], m)
        /\ find = "revisit" /\ BudgetOk(n, m) => Room(m)
  BY DEF Judge
<1>. DEFINE a == flight[<<n, k>>].att
<1>3. \/ cb' = RevisitCb(n, k, a, m) /\ <<n, m>> \in RevisitTo /\ Room(m)
      \/ \E type, code : cb' = Verdict(n, k, a, type, code) \/ cb' = [Verdict(n, k, a, type, code) EXCEPT !.m = m]
      \/ \E reason : cb' = DrainProof(n, k, a, reason)
  BY <1>2 DEF Judgement, Finds, BudgetCb
<1>4. CASE cb' = RevisitCb(n, k, a, m) /\ <<n, m>> \in RevisitTo /\ Room(m)
  <2>1. cb'.step = "revisit" /\ cb'.n = n /\ cb'.m = m /\ cb'.refresh = {o \in Affected(m) : snap.eff[o] # 0}
    BY <1>4 DEF RevisitCb, Cb, NoCb
  <2>. QED BY <1>1, <1>4, <2>1 DEF Room
<1>5. ASSUME NEW type, NEW code,
             cb' = Verdict(n, k, a, type, code) \/ cb' = [Verdict(n, k, a, type, code) EXCEPT !.m = m]
      PROVE  cb'.step = "verdict"
  BY <1>5 DEF Verdict, Cb, NoCb
<1>6. ASSUME NEW reason, cb' = DrainProof(n, k, a, reason) PROVE cb'.step = "drain"
  BY <1>6 DEF DrainProof, Cb, NoCb
<1>. QED BY <1>1, <1>3, <1>4, <1>5, <1>6

\* Nothing else begins a refresh, and only its own steps and a death end it.
LEMMA RefreshStays ==
  ASSUME [Next]_vars, ~CbRevisit, ~CbRefresh, ~Judge, ~Crash
  PROVE  UNCHANGED cb \/ (~Refreshes /\ ~Refreshes')
<1>. SUFFICES ASSUME cb' # cb PROVE ~Refreshes /\ ~Refreshes'
  OBVIOUS
<1>1. CASE Drive \/ Tick
  <2>1. DrainClosed
    BY <1>1 DEF Drive, Tick, SignalToJournal, Cancelling, Finalize, Boundary, DropObsolete, DropOrphaned,
       Decide, Publish, Quiesced, DrainPassed, Wake, ResolveEdge, SkipNode,
       Controlled, ClaimWork, ClaimGate, PassOver, Dispatched, Arm, ArmIf, ArmFailed, CancelLoser,
       EndTick, NoticeCancel, Quiesce, Return, GiveUp, Goto
  <2>2. cb'.step = "drain" /\ cb.step = "none"
    BY <2>1 DEF DrainClosed, ProvesClosed, Steps, Cb, NoCb
  <2>. QED BY <2>2 DEF Refreshes
<1>2. CASE CbVerdict \/ CbDrain \/ CbCancelled \/ CbRetry
  <2>1. ~Refreshes
    BY <1>2 DEF CbVerdict, CbDrain, CbCancelled, CbRetry, Refreshes
  <2>2. cb' = NoCb \/ cb' = [cb EXCEPT !.step = "cancelled"]
    BY <1>2 DEF CbVerdict, CbDrain, CbCancelled, CbRetry, Finally
  <2>3. cb' = [cb EXCEPT !.step = "cancelled"] => cb'.step \in {"cancelled", cb.step}
    OBVIOUS
  <2>. QED BY <2>1, <2>2, <2>3 DEF NoCb, Refreshes
<1>3. CASE Settle
  <2>1. cb.step = "none" /\ \E n, k, a, y : cb' \in {Verdict(n, k, a, "nodeFailed", "none"), DrainProof(n, k, a, y)}
    BY <1>3 DEF Settle, Quiet
  <2>2. ASSUME NEW n, NEW k, NEW a, NEW y
        PROVE  /\ Verdict(n, k, a, "nodeFailed", "none").step = "verdict"
               /\ DrainProof(n, k, a, y).step = "drain"
    BY DEF Verdict, DrainProof, Cb, NoCb
  <2>. QED BY <2>1, <2>2 DEF Refreshes
<1>4. CASE GrantRevisit
  BY <1>4 DEF GrantRevisit, Quiet, NoCb, Refreshes
<1>5. CASE WorkerExit \/ GateClick \/ Retry \/ Environment \/ UNCHANGED vars
  BY <1>5 DEF WorkerExit, GateClick, Click, Retry, Environment, Cancel, CancelAnd, ForeignCancel, BareAbort,
     vars, local
<1>. QED BY <1>1, <1>2, <1>3, <1>4, <1>5 DEF Next, Callback, Promises, Human

\* No step makes a known instance unknown.
LEMMA UnbornStays ==
  ASSUME AllInv, [Next]_vars, ~ClaimWork, Unborn, UNCHANGED consumed
  PROVE  Unborn'
<1>1. KeepsInstances(snap, snap')
  BY EveryMove, MoveEffect
<1>. QED BY <1>1 DEF KeepsInstances, Unborn

\* What is handed to an instance is read and recorded by its claim alone.
LEMMA ConsumedStays == ASSUME [Next]_vars, ~ClaimWork PROVE UNCHANGED consumed
<1>. USE DEF Outside, history
<1>1. CASE Drive \/ Tick
  BY <1>1 DEF Drive, Tick, SignalToJournal, Cancelling, Finalize, Boundary, DropObsolete, DropOrphaned,
     Decide, Publish, Quiesced, DrainClosed, ProvesClosed, DrainPassed, Wake, ResolveEdge, SkipNode,
     Controlled, ClaimGate, PassOver, Dispatched, Arm, ArmIf, ArmFailed, CancelLoser,
     EndTick, NoticeCancel, Quiesce, Return, GiveUp
<1>2. CASE Callback
  BY <1>2 DEF Callback, CbVerdict, CbDrain, CbCancelled, CbRevisit, CbRefresh, CbRetry, Finally
<1>3. CASE Promises \/ WorkerExit \/ Human \/ Environment \/ UNCHANGED vars
  BY <1>3 DEF Promises, Settle, Judge, WorkerExit, Human, GateClick, Click, Retry, GrantRevisit,
     Environment, Cancel, CancelAnd, ForeignCancel, BareAbort, Crash, vars
<1>. QED BY <1>1, <1>2, <1>3 DEF Next

\* A claim hands over the products of live instances.
LEMMA ClaimFresh == ASSUME AllInv, Worked, FreshInv, ClaimWork PROVE FreshInv'
<1>1. PICK act, a : Claims(act, a)
  BY ClaimEffect
<1>2. cb.step = "none" /\ UNCHANGED cb
  BY DEF ClaimWork, Steps
<1>3. consumed' = [consumed EXCEPT ![<<act.n, act.k>>] = Inputs(act.n)]
  BY <1>1 DEF ClaimWork, Claims
<1>4. act.n \in Node /\ act.k \in Inst /\ <<act.n, act.k>> \in Key
  BY <1>1 DEF Claims, Key
<1>t. snap \in Snapshot /\ consumed \in [Key -> SUBSET (Node \X (0 .. MaxInst))]
  BY DEF AllInv, TypeInv, JournalOK, OutsideOK
<1>5. ~Cut(snap)
  BY <1>1 DEF Claims, Cut
<1>6. \A m \in Node : snap.eff[m] # 0 => snap'.eff[m] = snap.eff[m]
  <2>1. \A m \in Node : m # act.n => snap'.eff[m] = snap.eff[m]
    BY <1>1 DEF Claims, FrameOf
  <2>2. snap'.eff[act.n] = act.k /\ act.k = InstanceFor(snap, act.n)
    BY <1>1 DEF Claims, Begins
  <2>. QED BY <2>1, <2>2 DEF InstanceFor
<1>7. Unborn'
  BY <1>1, <1>3, <1>4, <1>t DEF FreshInv, Unborn, Claims, Begins, FrameOf
<1>8. Fresh'
  <2>. SUFFICES ASSUME NEW n \in Node, snap'.eff[n] # 0, NEW i \in consumed'[<<n, snap'.eff[n]>>]
                PROVE  i[1] \in Upstream(n) /\ i[2] # 0 /\ snap'.eff[i[1]] = i[2]
    BY DEF Fresh
  <2>1. CASE n = act.n
    <3>1. snap'.eff[n] = act.k
      BY <1>1, <2>1 DEF Claims, Begins
    <3>2. i \in Inputs(n)
      BY <1>3, <1>4, <1>t, <2>1, <3>1
    <3>3. PICK m \in With(snap, n, {"active"}) : i = <<m, snap.eff[m]>>
      BY <3>2 DEF Inputs
    <3>4. m \in Upstream(n) /\ m \in Node /\ Activity(snap, m, n) = "active"
      BY <3>3 DEF With, Upstream
    <3>5. snap.status[m] = "done"
      <4>. SUFFICES ASSUME snap.status[m] # "done" PROVE FALSE
        OBVIOUS
      <4>. QED BY <3>4 DEF Activity
    <3>6. snap.eff[m] # 0
      BY <3>4, <3>5 DEF Worked
    <3>. QED BY <1>6, <3>3, <3>4, <3>6
  <2>2. CASE n # act.n
    <3>1. snap'.eff[n] = snap.eff[n]
      BY <1>1, <2>2 DEF Claims, FrameOf
    <3>2. <<n, snap.eff[n]>> \in Key
      BY <1>t, <3>1 DEF Snapshot, Key, Inst
    <3>3. i \in consumed[<<n, snap.eff[n]>>]
      BY <1>3, <1>4, <1>t, <2>2, <3>1, <3>2
    <3>4. i[1] \in Upstream(n) /\ i[2] # 0 /\ snap.eff[i[1]] = i[2]
      BY <1>2, <1>5, <3>1, <3>3 DEF FreshInv, Fresh, Doomed
    <3>. QED BY <1>6, <3>4 DEF Upstream
  <2>. QED BY <2>1, <2>2
<1>. QED BY <1>2, <1>7, <1>8 DEF FreshInv, Sent, Whole, Refreshes

\* A gate opens the live instance, or one that was given nothing.
LEMMA GateFresh == ASSUME AllInv, FreshInv, [Next]_vars, ClaimGate PROVE FreshInv'
<1>1. PICK e : Append(e) /\ InOrder(e) /\ e.type = "gateDispatched"
  BY StartMove DEF Appends
<1>2. cb.step = "none" /\ UNCHANGED cb /\ UNCHANGED consumed /\ ~ClaimWork
  <2>1. ~ClaimWork
    BY DEF ClaimGate, ClaimWork
  <2>. QED BY <2>1, ConsumedStays DEF ClaimGate, Steps
<1>t. snap \in Snapshot /\ Views(snap)
  BY DEF AllInv, TypeInv, JournalOK, WorkerInv, ViewInv
<1>3. snap' = Fold(snap, e) /\ WellFormed(e) /\ e.n \in Node /\ e.k \in 0 .. MaxInst /\ e.k # 0
      /\ e.k = InstanceFor(snap, e.n)
  BY <1>1 DEF Append, InOrder, WellFormed, Event, Fits
<1>4. \A m \in Node : m # e.n => snap'.eff[m] = snap.eff[m]
  BY <1>3, <1>t, FrameFold DEF FrameOf
<1>5. snap'.eff[e.n] \in {snap.eff[e.n], e.k}
  BY <1>1, <1>3, <1>t, GateEffect DEF SameNodes, Begins
<1>6. snap.eff[e.n] = 0 => consumed[<<e.n, e.k>>] = {}
  <2>. SUFFICES ASSUME snap.eff[e.n] = 0 PROVE consumed[<<e.n, e.k>>] = {}
    OBVIOUS
  <2>1. e.k = NextInstance(snap, e.n) /\ e.k \in Inst
    BY <1>3 DEF InstanceFor, Inst
  <2>2. snap.inst[<<e.n, e.k>>] = "absent"
    BY <1>3, <1>t, <2>1, NextIsFresh DEF Views
  <2>. QED BY <1>3, <2>1, <2>2 DEF FreshInv, Unborn, Key
<1>7. Fresh'
  <2>. SUFFICES ASSUME ~Cut(snap'), NEW n \in Node, snap'.eff[n] # 0, NEW i \in consumed[<<n, snap'.eff[n]>>]
                PROVE  i[1] \in Upstream(n) /\ i[2] # 0 /\ snap'.eff[i[1]] = i[2]
    BY <1>2 DEF Fresh
  <2>1. ~Cut(snap)
    BY Step DEF AllInv, StepOK, JournalStep, OnlyCancels
  <2>2. snap.eff[n] # 0 /\ snap'.eff[n] = snap.eff[n]
    BY <1>3, <1>4, <1>5, <1>6 DEF InstanceFor
  <2>3. i[1] \in Upstream(n) /\ i[2] # 0 /\ snap.eff[i[1]] = i[2]
    BY <1>2, <2>1, <2>2 DEF FreshInv, Fresh, Doomed
  <2>. QED BY <1>3, <1>4, <1>5, <2>3 DEF InstanceFor, Upstream
<1>8. Unborn'
  BY <1>2, UnbornStays DEF FreshInv
<1>. QED BY <1>2, <1>7, <1>8 DEF FreshInv, Sent, Whole, Refreshes

\* One refreshed node loses its live instance; what was built from it comes later in the refresh.
LEMMA RefreshFresh == ASSUME AllInv, FreshInv, [Next]_vars, CbRefresh PROVE FreshInv'
<1>. DEFINE n == First(cb.refresh)
            k == snap.eff[n]
            e == EvM("nodeInstanceSuperseded", n, k, 0, cb.m, "none")
            rest == cb.refresh \ {n}
<1>t. snap \in Snapshot /\ cb \in CbType /\ cb.refresh # {} /\ cb.refresh \subseteq Node /\ cb.m \in Node
  BY DEF AllInv, TypeInv, JournalOK, CbOK, CbType, CbRefresh
<1>1. n \in cb.refresh /\ n \in Node
  BY <1>t, FirstOf
<1>2. snap' = Fold(snap, e) /\ Refreshing(rest) /\ cb.step = "refresh"
  BY DEF CbRefresh, Append
<1>3. UNCHANGED consumed /\ ~ClaimWork
  <2>1. ~ClaimWork
    BY <1>2 DEF ClaimWork, Steps
  <2>. QED BY <2>1, ConsumedStays
<1>4. \/ rest = {} /\ cb'.step = "drain"
      \/ rest # {} /\ cb'.step = "refresh" /\ cb'.refresh = rest /\ cb'.n = cb.n /\ cb'.m = cb.m
  BY <1>2, <1>t DEF Refreshing, CbType
<1>5. ~Cut(snap') => ~Cut(snap)
  BY Step DEF AllInv, StepOK, JournalStep, OnlyCancels
<1>6. ~Cut(snap) => snap'.eff = [snap.eff EXCEPT ![n] = 0]
  <2>. SUFFICES ASSUME ~Cut(snap) PROVE snap'.eff = [snap.eff EXCEPT ![n] = 0]
    OBVIOUS
  <2>0. e.type = "nodeInstanceSuperseded" /\ e.n = n /\ e.k = snap.eff[e.n]
    BY DEF e, EvM
  <2>. HIDE DEF e, n
  <2>1. snap' = OnSuperseded(snap, e)
    BY <1>2, <2>0 DEF Fold, Applied, RunEvent, OnNodeEvent
  <2>. QED BY <1>t, <1>1, <2>0, <2>1 DEF OnSuperseded, Unblock, Snapshot
<1>. HIDE DEF n, e
<1>7. Unborn'
  BY <1>3, UnbornStays DEF FreshInv
<1>8. Sent'
  BY <1>2, <1>4 DEF FreshInv, Sent, Refreshes
<1>9. Fresh'
  <2>. SUFFICES ASSUME ~Cut(snap'), NEW o \in Node, snap'.eff[o] # 0, NEW i \in consumed[<<o, snap'.eff[o]>>]
                PROVE  i[1] \in Upstream(o) /\ i[2] # 0 /\ (snap'.eff[i[1]] = i[2] \/ Doomed(o)')
    BY <1>3 DEF Fresh, Doomed
  <2>1. o # n /\ snap'.eff[o] = snap.eff[o] /\ snap.eff[o] # 0
    BY <1>t, <1>1, <1>5, <1>6 DEF Snapshot
  <2>2. i[1] \in Upstream(o) /\ i[2] # 0 /\ (snap.eff[i[1]] = i[2] \/ Doomed(o))
    BY <1>5, <2>1 DEF FreshInv, Fresh
  <2>3. Doomed(o) => Doomed(o)'
    BY <1>4, <2>1 DEF Doomed
  <2>4. i[1] = n => Doomed(o)
    <3>. SUFFICES ASSUME i[1] = n PROVE Doomed(o)
      OBVIOUS
    <3>1. cb.refresh \subseteq Affected(cb.m) /\ \A x \in Affected(cb.m) : snap.eff[x] # 0 => x \in cb.refresh
      BY <1>2, <1>5 DEF FreshInv, Whole, Refreshes
    <3>2. <<n, o>> \in Dep
      BY <2>2 DEF Upstream
    <3>3. o \in Affected(cb.m)
      BY <1>t, <1>1, <3>1, <3>2, AffectedClosed
    <3>. QED BY <1>2, <2>1, <3>1, <3>3 DEF Doomed
  <2>5. i[1] # n => snap'.eff[i[1]] = snap.eff[i[1]]
    BY <1>t, <1>5, <1>6, <2>2 DEF Snapshot, Upstream
  <2>. QED BY <2>2, <2>3, <2>4, <2>5
<1>10. Whole'
  <2>. SUFFICES ASSUME ~Cut(snap'), Refreshes'
                PROVE  /\ \A o \in Affected(cb'.m) : snap'.eff[o] # 0 => o \in cb'.refresh
                       /\ cb'.refresh \subseteq Affected(cb'.m)
    BY DEF Whole
  <2>1. cb'.refresh = rest /\ cb'.m = cb.m
    BY <1>4 DEF Refreshes
  <2>2. cb.refresh \subseteq Affected(cb.m) /\ \A o \in Affected(cb.m) : snap.eff[o] # 0 => o \in cb.refresh
    BY <1>2, <1>5 DEF FreshInv, Whole, Refreshes
  <2>3. \A o \in Node : snap'.eff[o] # 0 => o # n /\ snap.eff[o] # 0
    BY <1>t, <1>1, <1>5, <1>6 DEF Snapshot
  <2>. QED BY <2>1, <2>2, <2>3 DEF Affected
<1>. QED BY <1>7, <1>8, <1>9, <1>10 DEF FreshInv

\* Every step keeps the inputs fresh, when no refresh can be torn.
LEMMA FreshStep == ASSUME Careful, AllInv, Worked, FreshInv, [Next]_vars PROVE FreshInv'
<1>5. ~Cut(snap') => ~Cut(snap)
  BY Step DEF AllInv, StepOK, JournalStep, OnlyCancels
<1>1. CASE ClaimWork \/ ClaimGate \/ CbRefresh
  BY <1>1, ClaimFresh, GateFresh, RefreshFresh
<1>2. CASE ~ClaimWork /\ ~ClaimGate /\ ~CbRefresh
  <2>1. snap'.eff = snap.eff /\ UNCHANGED consumed
    BY <1>2, LiveStays, ConsumedStays DEF AllInv
  <2>2. Unborn'
    BY <1>2, <2>1, UnbornStays DEF FreshInv
  <2>. SUFFICES Sent' /\ (Refreshes => UNCHANGED cb \/ CbRevisit) /\ Whole'
    <3>. SUFFICES ASSUME Refreshes => UNCHANGED cb \/ CbRevisit PROVE Fresh'
      BY <2>2 DEF FreshInv
    <3>1. \A o \in Node : Doomed(o) => Doomed(o)'
      <4>1. CbRevisit => cb.step = "revisit"
        BY DEF CbRevisit
      <4>. QED BY <4>1 DEF Doomed, Refreshes
    <3>2. ~Cut(snap') => \A o \in Node : snap'.eff[o] # 0 => \A i \in consumed'[<<o, snap'.eff[o]>>] :
                           i[1] \in Upstream(o) /\ i[2] # 0 /\ (snap'.eff[i[1]] = i[2] \/ Doomed(o)')
      BY <1>5, <2>1, <3>1 DEF FreshInv, Fresh
    <3>. QED BY <3>2 DEF Fresh, Doomed
  <2>3. CASE UNCHANGED cb \/ (~Refreshes /\ ~Refreshes')
    BY <1>5, <2>1, <2>3 DEF FreshInv, Sent, Whole, Refreshes
  <2>4. CASE CbRevisit
    <3>1. cb.step = "revisit" /\ Refreshing(cb.refresh) /\ cb \in CbType
      BY <2>4 DEF CbRevisit, AllInv, TypeInv, CbOK
    <3>2. \/ cb'.step = "drain"
          \/ cb'.step = "refresh" /\ cb'.refresh = cb.refresh /\ cb'.n = cb.n /\ cb'.m = cb.m
      BY <3>1 DEF Refreshing, CbType
    <3>. QED BY <1>5, <2>1, <2>4, <3>1, <3>2 DEF FreshInv, Sent, Whole, Refreshes
  <2>5. CASE Judge
    <3>1. cb.step = "none" /\ cb'.step # "refresh" /\ snap' = snap
          /\ (cb'.step = "revisit" => <<cb'.n, cb'.m>> \in RevisitTo
                                      /\ cb'.refresh = {o \in Affected(cb'.m) : snap.eff[o] # 0})
      BY <2>5, JudgeEffect DEF AllInv, journal
    <3>. QED BY <3>1 DEF Sent, Whole, Refreshes
  <2>6. CASE Crash
    <3>1. cb'.step = "none"
      BY <2>6 DEF Crash, NoCb
    <3>2. ~Refreshes
      <4>1. MaxCrash # 0
        BY <2>6, RunAssumption DEF Crash, AllInv, TypeInv, OutsideOK
      <4>. QED BY <4>1 DEF Careful, FreshInv, Sent
    <3>. QED BY <3>1, <3>2 DEF Sent, Whole, Refreshes
  <2>. QED BY <1>2, <2>3, <2>4, <2>5, <2>6, RefreshStays
<1>. QED BY <1>1, <1>2

\* Without a driver that dies half way through a refresh, every live instance was built from live
\* ones or is about to be refreshed.
THEOREM FreshInvariant == ASSUME Careful PROVE Spec => []FreshInv
<1>1. Init => FreshInv
  BY DEF Init, FreshInv, Unborn, Sent, Fresh, Whole, Refreshes, NoCb, EmptySnapshot
<1>2. ASSUME TypeInv, NumbersInv, GateInv, WorkerInv, RestInv, FreshInv, [Next]_vars PROVE FreshInv'
  BY <1>2, FreshStep DEF AllInv, RestInv
<1>. QED
  BY <1>1, <1>2, TypeInvariant, NumbersInvariant, GateInvariant, WorkerInvariant, RestInvariant, PTL DEF Spec

\* In a succeeded run no finished node was built from a product that a later revisit replaced,
\* for every DAG and any number of revisits, retries and cancels: the refresh reaches everything
\* downstream of its target.  A driver that dies half way through the records of one refresh
\* leaves the rest unwritten, so the theorem is about runs whose drivers survive their refreshes.
THEOREM ResultsAreFresh == ASSUME MaxCrash = 0 \/ RevisitTo = {} PROVE Spec => []FreshInputs
<1>1. RestInv /\ FreshInv => FreshInputs
  <2>. SUFFICES ASSUME RestInv, FreshInv, snap.run = "succeeded", NEW n \in Node, snap.status[n] = "done",
                       NEW i \in consumed[<<n, snap.eff[n]>>]
                PROVE  snap.eff[i[1]] = i[2]
    BY DEF FreshInputs
  <2>1. ~Cut(snap) /\ snap.eff[n] # 0 /\ ~CbBusy
    BY DEF Cut, RestInv, Worked, RestsIdle, Rest, TrueTerminal
  <2>. QED BY <2>1 DEF FreshInv, Fresh, Doomed, CbBusy
<1>2. Spec => []FreshInv
  BY FreshInvariant DEF Careful
<1>. QED BY <1>1, <1>2, RestInvariant, PTL

----------------------------------------------------------------------------
(* Losers stay out.                                                        *)

\* A live node shows its instance, or was skipped before it started.
Shown(s, n) ==
  s.eff[n] # 0 =>
    /\ s.inst[<<n, s.eff[n]>>] # "superseded"
    /\ \/ s.status[n] = s.inst[<<n, s.eff[n]>>]
       \/ s.status[n] = "skipped" /\ s.inst[<<n, s.eff[n]>>] # "cancelled"

\* Nodes and live instances do not drift apart.
Mirrored(s) == \A n \in Node : Shown(s, n)

\* An instance with a struck attempt is out of the race.
StruckDown == \A x \in snap.struck : snap.inst[KeyOf(x)] \in {"cancelled", "superseded"}

\* Before the cut, a cancelled instance is one whose latest attempt was struck.
LosersStruck ==
  ~Cut(snap) => \A key \in Key :
    snap.inst[key] = "cancelled" => CancelledCovers(snap, key[1], key[2], tally.last[key])

\* A retry behind a grant is nobody's attempt.
RetriesApart == cb.step = "retry" => ~cb.mine

LosersInv == Mirrored(snap) /\ StruckDown /\ LosersStruck

\* Only a cancellation strikes.
LEMMA StruckFold ==
  ASSUME NEW s \in Snapshot, NEW e, e.type # "nodeCancelled"
  PROVE  Fold(s, e).struck = s.struck
<1>1. OnRunEvent(s, e).struck = s.struck
  BY DEF OnRunEvent, OnCancelRequested, Snapshot
<1>2. ASSUME NEW st PROVE OnSettle(s, e, st).struck = s.struck
  BY DEF OnSettle, Record, Snapshot
<1>3. OnDispatched(s, e).struck = s.struck /\ OnGateDispatched(s, e).struck = s.struck
  BY DEF OnDispatched, RecordEffective, OnGateDispatched, Snapshot
<1>4. OnRetry(s, e).struck = s.struck
  BY DEF OnRetry, Unblock, Snapshot
<1>5. OnSuperseded(s, e).struck = s.struck
  BY DEF OnSuperseded, Unblock, Snapshot
<1>6. OnGateResolved(s, e).struck = s.struck
  BY DEF OnGateResolved, Snapshot
<1>7. OnEdgeResolved(s, e).struck = s.struck /\ OnSkipped(s, e).struck = s.struck /\ OnDrained(s, e).struck = s.struck
  BY DEF OnEdgeResolved, OnSkipped, OnDrained, Snapshot
<1>. QED BY <1>1, <1>2, <1>3, <1>4, <1>5, <1>6, <1>7 DEF Fold, Applied, OnNodeEvent

\* A cancellation that strikes an attempt takes its instance out of the race.
LEMMA CancelledStrikes ==
  ASSUME NEW s \in Snapshot, NEW e, WellFormed(e), e.type = "nodeCancelled"
  PROVE  LET t == Fold(s, e) IN
         \/ SameNodes(s, t) /\ t.struck = s.struck
         \/ e.k = 0 /\ t.inst = s.inst /\ t.struck = s.struck
         \/ /\ e.k # 0 /\ t.struck = s.struck \cup {<<e.n, e.k, e.a>>}
            /\ \/ SameNodes(s, t) /\ s.inst[<<e.n, e.k>>] = "superseded"
               \/ Shows(s, t, e.n, e.k, "cancelled")
<1>1. e.n \in Node /\ (e.k # 0 => <<e.n, e.k>> \in Key)
  BY DEF WellFormed, Event, Key, Inst
<1>. DEFINE u == [s EXCEPT !.struck = @ \cup {<<e.n, e.k, e.a>>}]
<1>2. \/ Fold(s, e) = s
      \/ e.k = 0 /\ Fold(s, e) = [s EXCEPT !.status[e.n] = "cancelled"]
      \/ e.k # 0 /\ Fold(s, e) = Record(u, e.n, e.k, "cancelled")
  BY DEF Fold, Applied, RunEvent, OnNodeEvent, OnCancelled
<1>3. u.struck = s.struck \cup {<<e.n, e.k, e.a>>} /\ SameNodes(s, u)
  BY DEF Snapshot, SameNodes
<1>4. CASE e.k # 0 /\ Fold(s, e) = Record(u, e.n, e.k, "cancelled")
  <2>1. CASE s.inst[<<e.n, e.k>>] = "superseded"
    <3>1. Fold(s, e) = u
      BY <1>3, <1>4, <2>1 DEF Record, SameNodes
    <3>. QED BY <1>3, <1>4, <2>1, <3>1
  <2>2. CASE s.inst[<<e.n, e.k>>] # "superseded"
    <3>1. Fold(s, e).struck = u.struck
      BY <1>4, <2>2 DEF Record, Snapshot
    <3>2. Shows(s, Fold(s, e), e.n, e.k, "cancelled")
      BY <1>1, <1>4, <2>2 DEF Record, Shows, Snapshot
    <3>. QED BY <1>3, <1>4, <3>1, <3>2
  <2>. QED BY <2>1, <2>2
<1>5. CASE e.k = 0 /\ Fold(s, e) = [s EXCEPT !.status[e.n] = "cancelled"]
  BY <1>5 DEF Snapshot
<1>6. CASE Fold(s, e) = s
  BY <1>6 DEF SameNodes
<1>. QED BY <1>2, <1>4, <1>5, <1>6

\* Every event keeps a live node showing its instance.
LEMMA MirroredFold ==
  ASSUME NEW s \in Snapshot, NEW e, WellFormed(e), Fits(s, e), Mirrored(s), e.type \in Loud \cup Soft,
         e.type = "nodeCancelled" /\ e.k = 0 => s.eff[e.n] = 0
  PROVE  Mirrored(Fold(s, e))
<1>. DEFINE t == Fold(s, e)
<1>1. e.n \in Node /\ s.eff \in [Node -> 0 .. MaxInst]
  BY DEF WellFormed, Event, Snapshot
<1>2. \A m \in Node : m # e.n => t.status[m] = s.status[m] /\ t.eff[m] = s.eff[m]
                                 /\ (s.eff[m] # 0 => t.inst[<<m, s.eff[m]>>] = s.inst[<<m, s.eff[m]>>])
  <2>1. FrameOf(s, t, e.n, e.k)
    BY FrameFold
  <2>2. \A m \in Node : s.eff[m] # 0 => <<m, s.eff[m]>> \in Key
    BY <1>1 DEF Key, Inst
  <2>. HIDE DEF t
  <2>. QED BY <2>1, <2>2 DEF FrameOf
<1>3. s.eff[e.n] # 0 /\ s.eff[e.n] # e.k => t.inst[<<e.n, s.eff[e.n]>>] = s.inst[<<e.n, s.eff[e.n]>>]
  <2>1. FrameOf(s, t, e.n, e.k)
    BY FrameFold
  <2>2. s.eff[e.n] # 0 => <<e.n, s.eff[e.n]>> \in Key
    BY <1>1 DEF Key, Inst
  <2>. HIDE DEF t
  <2>. QED BY <2>1, <2>2 DEF FrameOf
<1>4. \A m \in Node : m # e.n => Shown(t, m)
  <2>. HIDE DEF t
  <2>. SUFFICES ASSUME NEW m \in Node, m # e.n PROVE Shown(t, m)
    OBVIOUS
  <2>1. t.status[m] = s.status[m] /\ t.eff[m] = s.eff[m] /\ Shown(s, m)
    BY <1>2 DEF Mirrored
  <2>2. CASE s.eff[m] = 0
    BY <2>1, <2>2 DEF Shown
  <2>3. CASE s.eff[m] # 0
    <3>1. t.inst[<<m, s.eff[m]>>] = s.inst[<<m, s.eff[m]>>]
      BY <1>2, <2>3
    <3>. QED BY <2>1, <3>1 DEF Shown
  <2>. QED BY <2>2, <2>3
<1>a. SameNodes(s, t) => Mirrored(t)
  BY DEF SameNodes, Mirrored, Shown
<1>b. ASSUME NEW st, st # "superseded", Shows(s, t, e.n, e.k, st) PROVE Mirrored(t)
  <2>. HIDE DEF t
  <2>1. Shown(t, e.n)
    BY <1>1, <1>3, <1>b DEF Shows, Mirrored, Shown
  <2>. QED BY <1>4, <2>1 DEF Mirrored
<1>. SUFFICES Mirrored(t)
  OBVIOUS
<1>5. CASE e.type \in {"nodeSucceeded", "nodeFailed", "nodeBlocked"}
  BY <1>5, <1>a, <1>b, SettleEffect DEF Fits
<1>6. CASE e.type = "nodeCancelled"
  <2>1. e.k = 0 /\ t.eff = s.eff /\ t.inst = s.inst => Mirrored(t)
    <3>. HIDE DEF t
    <3>. QED BY <1>1, <1>4, <1>6 DEF Mirrored, Shown
  <2>. QED BY <1>6, <1>a, <1>b, <2>1, CancelledEffect
<1>7. CASE e.type = "nodeRetryRequested"
  BY <1>7, <1>a, <1>b, RetryEffect DEF Fits
<1>8. CASE e.type = "gateResolved"
  BY <1>8, <1>a, <1>b, ClickEffect DEF Fits
<1>9. CASE e.type = "nodeInstanceSuperseded"
  <2>1. t.eff[e.n] = 0 => Mirrored(t)
    <3>. HIDE DEF t
    <3>. QED BY <1>1, <1>4 DEF Mirrored, Shown
  <2>. QED BY <1>9, <1>a, <2>1, SupersededEffect DEF Fits
<1>10. CASE e.type = "nodeSkipped"
  <2>1. t.eff = s.eff /\ t.inst = s.inst /\ (t.status = s.status \/ t.status[e.n] = "skipped")
    BY <1>10, SkippedEffect
  <2>2. s.status[e.n] # "cancelled"
    BY <1>10 DEF Fits, Engaged
  <2>. HIDE DEF t
  <2>3. Shown(t, e.n)
    <3>1. Shown(s, e.n)
      BY <1>1 DEF Mirrored
    <3>. QED BY <2>1, <2>2, <3>1 DEF Shown
  <2>. QED BY <1>4, <2>3 DEF Mirrored
<1>11. CASE e.type = "gateDispatched"
  <2>1. Begins(s, t, e.n, e.k, "gateWaiting") => Mirrored(t)
    <3>. HIDE DEF t
    <3>1. Begins(s, t, e.n, e.k, "gateWaiting") => Shown(t, e.n)
      BY DEF Begins, Shown
    <3>. QED BY <1>4, <3>1 DEF Mirrored
  <2>. QED BY <1>11, <1>a, <2>1, GateEffect
<1>12. CASE e.type = "nodeAttemptDrained"
  <2>1. CASE SameNodes(s, t)
    BY <1>a, <2>1
  <2>2. CASE ~SameNodes(s, t)
    <3>1. <<e.n, e.k>> \in Key
      BY <1>1, <1>12 DEF WellFormed, Event, Key, Inst
    <3>2. t = OnDrained(s, e)
      <4>. HIDE DEF SameNodes
      <4>1. SameNodes(s, s)
        BY DEF SameNodes
      <4>. QED BY <1>12, <2>2, <4>1 DEF Fold, Applied, RunEvent, OnNodeEvent
    <3>3. t # s
      BY <2>2 DEF SameNodes
    <3>. HIDE DEF t
    <3>4. s.inst[<<e.n, e.k>>] = "running" /\ t.inst[<<e.n, e.k>>] = "pending" /\ t.eff = s.eff
          /\ (s.eff[e.n] = e.k /\ s.status[e.n] = "running" => t.status[e.n] = "pending")
          /\ (s.status[e.n] # "running" \/ s.eff[e.n] # e.k => t.status[e.n] = s.status[e.n])
      BY <1>1, <3>1, <3>2, <3>3 DEF OnDrained, Snapshot
    <3>5. Shown(t, e.n)
      <4>1. Shown(s, e.n)
        BY <1>1 DEF Mirrored
      <4>2. CASE s.eff[e.n] = e.k
        BY <3>4, <4>1, <4>2 DEF Shown
      <4>3. CASE s.eff[e.n] # e.k
        BY <1>3, <3>4, <4>1, <4>3 DEF Shown
      <4>. QED BY <4>2, <4>3
    <3>. QED BY <1>4, <3>5 DEF Mirrored
  <2>. QED BY <2>1, <2>2
<1>. QED BY <1>5, <1>6, <1>7, <1>8, <1>9, <1>10, <1>11, <1>12 DEF Loud, Soft

\* What is out of the race stays out: a late settle of a struck attempt does nothing.
LEMMA DownStays ==
  ASSUME NEW s \in Snapshot, NEW e, WellFormed(e), Fits(s, e), Views(s), Mirrored(s), e.type \in Loud \cup Soft,
         NEW key \in Key, s.inst[key] \in {"cancelled", "superseded"},
         e.type \in {"nodeSucceeded", "nodeFailed", "nodeBlocked"} /\ key = <<e.n, e.k>> /\ s.inst[key] = "cancelled"
           => Cut(s) \/ CancelledCovers(s, e.n, e.k, e.a)
  PROVE  Fold(s, e).inst[key] \in {"cancelled", "superseded"}
<1>. DEFINE t == Fold(s, e)
<1>1. e.n \in Node /\ s.eff \in [Node -> 0 .. MaxInst]
  BY DEF WellFormed, Event, Snapshot
<1>2. key # <<e.n, e.k>> => t.inst[key] = s.inst[key]
  <2>1. FrameOf(s, t, e.n, e.k)
    BY FrameFold
  <2>. HIDE DEF t
  <2>. QED BY <2>1 DEF FrameOf
<1>. SUFFICES ASSUME key = <<e.n, e.k>> PROVE t.inst[key] \in {"cancelled", "superseded"}
  BY <1>2
<1>a. t = s \/ SameNodes(s, t) => t.inst[key] = s.inst[key]
  BY DEF SameNodes
<1>b. s.inst[key] = "superseded" => s.eff[e.n] # e.k
  BY <1>1 DEF Mirrored, Shown, Key, Inst
<1>3. CASE e.type \in {"nodeSucceeded", "nodeFailed", "nodeBlocked"}
  <2>1. s.inst[key] = "cancelled" => t = s
    BY <1>3 DEF Fold, Applied, RunEvent, OnNodeEvent, OnSettle, PastCut
  <2>2. s.inst[key] = "superseded" => t = s
    BY <1>3 DEF Fold, Applied, RunEvent, OnNodeEvent, OnSettle, Record
  <2>. QED BY <1>a, <2>1, <2>2
<1>4. CASE e.type = "nodeCancelled"
  <2>1. SameNodes(s, t) \/ t.inst = s.inst \/ t.inst[<<e.n, e.k>>] = "cancelled"
    BY <1>4, CancelledEffect DEF Shows
  <2>. QED BY <1>a, <2>1
<1>5. CASE e.type \in {"nodeRetryRequested", "gateResolved"}
  <2>1. FALSE
    BY <1>1, <1>5, <1>b DEF Fits, Mirrored, Shown, Engaged, Key, Inst
  <2>. QED BY <2>1
<1>6. CASE e.type = "nodeInstanceSuperseded"
  <2>1. e.k # 0
    BY DEF Key, Inst
  <2>. QED BY <1>6, <1>a, <2>1, SupersededEffect DEF Fits
<1>7. CASE e.type = "nodeSkipped"
  BY <1>7, SkippedEffect
<1>8. CASE e.type = "nodeAttemptDrained"
  <2>1. SameNodes(s, t)
    BY <1>8, DrainedEffect
  <2>. QED BY <1>a, <2>1
<1>9. CASE e.type = "gateDispatched"
  <2>1. e.k \in Inst
    BY DEF Key
  <2>2. s.inst[key] \in {"pending", "absent"}
    BY <1>1, <1>9, <2>1, StartIsFree DEF Fits
  <2>. QED BY <2>2
<1>. QED BY <1>3, <1>4, <1>5, <1>6, <1>7, <1>8, <1>9 DEF Loud, Soft

\* No other event than a cancellation makes an instance cancelled.
LEMMA NotCancelled ==
  ASSUME NEW s \in Snapshot, NEW e, WellFormed(e), Fits(s, e), e.type \in (Loud \cup Soft) \ {"nodeCancelled"},
         NEW key \in Key, Fold(s, e).inst[key] = "cancelled"
  PROVE  s.inst[key] = "cancelled"
<1>. DEFINE t == Fold(s, e)
<1>1. e.n \in Node
  BY DEF WellFormed, Event
<1>2. key # <<e.n, e.k>> => t.inst[key] = s.inst[key]
  <2>1. FrameOf(s, t, e.n, e.k)
    BY FrameFold
  <2>. HIDE DEF t
  <2>. QED BY <2>1 DEF FrameOf
<1>a. t.inst[key] = "cancelled"
  OBVIOUS
<1>. SUFFICES ASSUME key = <<e.n, e.k>> PROVE s.inst[key] = "cancelled"
  BY <1>2
<1>b. SameNodes(s, t) => s.inst[key] = "cancelled"
  BY DEF SameNodes
<1>k. e.k # 0
  BY DEF Key, Inst
<1>. HIDE DEF t
<1>3. CASE e.type \in {"nodeSucceeded", "nodeFailed", "nodeBlocked"}
  BY <1>3, <1>a, <1>b, <1>k, SettleEffect DEF Shows, t
<1>4. CASE e.type = "nodeRetryRequested"
  BY <1>4, <1>a, <1>b, RetryEffect DEF Shows, Fits, t
<1>5. CASE e.type = "gateResolved"
  BY <1>5, <1>a, <1>b, ClickEffect DEF Shows, Fits, t
<1>6. CASE e.type = "nodeInstanceSuperseded"
  BY <1>6, <1>a, <1>b, <1>k, SupersededEffect DEF Fits, t
<1>7. CASE e.type = "nodeSkipped"
  BY <1>7, <1>a, SkippedEffect DEF t
<1>8. CASE e.type = "nodeAttemptDrained"
  BY <1>8, <1>a, <1>b, DrainedEffect DEF t
<1>9. CASE e.type = "gateDispatched"
  BY <1>9, <1>a, <1>b, GateEffect DEF Begins, t
<1>. QED BY <1>3, <1>4, <1>5, <1>6, <1>7, <1>8, <1>9 DEF Loud, Soft

\* One more record keeps the losers out, if what settles is a latest attempt or a running one, and
\* what is struck is a latest attempt.
LEMMA LosersFold ==
  ASSUME AllInv, LosersInv, [Next]_vars, tally'.last = tally.last,
         NEW e, Append(e), InOrder(e), e.type \in Loud \cup Soft,
         e.type \in {"nodeSucceeded", "nodeFailed", "nodeBlocked"} =>
           e.a = tally.last[<<e.n, e.k>>] \/ snap.inst[<<e.n, e.k>>] # "cancelled",
         e.type = "nodeCancelled" =>
           IF e.k = 0 THEN snap.eff[e.n] = 0 ELSE Cut(snap) \/ e.a = tally.last[<<e.n, e.k>>]
  PROVE  LosersInv'
<1>s. /\ snap \in Snapshot /\ Views(snap) /\ Mirrored(snap) /\ WellFormed(e) /\ Fits(snap, e)
      /\ snap' = Fold(snap, e) /\ snap.struck \subseteq Attempt /\ snap' \in Snapshot
  <2>1. snap' \in Snapshot
    BY Step DEF AllInv, StepOK, JournalStep, JournalOK
  <2>2. snap.struck \subseteq Attempt
    BY DEF AllInv, TypeInv, JournalOK, Snapshot
  <2>. QED BY <2>1, <2>2 DEF AllInv, TypeInv, JournalOK, WorkerInv, ViewInv, LosersInv, InOrder, Append
<1>c. ~Cut(snap') => ~Cut(snap)
  BY Step DEF AllInv, StepOK, JournalStep, OnlyCancels
<1>1. Mirrored(snap')
  BY <1>s, MirroredFold
<1>2. \A key \in Key : snap.inst[key] \in {"cancelled", "superseded"} => snap'.inst[key] \in {"cancelled", "superseded"}
  <2>. SUFFICES ASSUME NEW key \in Key, snap.inst[key] \in {"cancelled", "superseded"}
                PROVE  snap'.inst[key] \in {"cancelled", "superseded"}
    OBVIOUS
  <2>1. e.type \in {"nodeSucceeded", "nodeFailed", "nodeBlocked"} /\ key = <<e.n, e.k>> /\ snap.inst[key] = "cancelled"
          => Cut(snap) \/ CancelledCovers(snap, e.n, e.k, e.a)
    <3>. SUFFICES ASSUME e.type \in {"nodeSucceeded", "nodeFailed", "nodeBlocked"}, key = <<e.n, e.k>>,
                         snap.inst[key] = "cancelled", ~Cut(snap)
                  PROVE  CancelledCovers(snap, e.n, e.k, e.a)
      OBVIOUS
    <3>1. key[1] = e.n /\ key[2] = e.k
      OBVIOUS
    <3>3. e.a = tally.last[<<e.n, e.k>>] \/ snap.inst[<<e.n, e.k>>] # "cancelled"
      OBVIOUS
    <3>4. e.a = tally.last[key]
      BY <3>3
    <3>2. CancelledCovers(snap, key[1], key[2], tally.last[key])
      BY DEF LosersInv, LosersStruck
    <3>. QED BY <3>1, <3>2, <3>4
  <2>. QED BY <1>s, <2>1, DownStays
<1>k. e.k # 0 => <<e.n, e.k>> \in Key
  BY <1>s DEF WellFormed, Event, Key, Inst
<1>4. CASE e.type # "nodeCancelled"
  <2>1. snap'.struck = snap.struck
    BY <1>s, <1>4, StruckFold
  <2>2. StruckDown'
    <3>. SUFFICES ASSUME NEW x \in snap'.struck PROVE snap'.inst[KeyOf(x)] \in {"cancelled", "superseded"}
      BY DEF StruckDown
    <3>1. x \in snap.struck /\ KeyOf(x) \in Key
      BY <1>s, <2>1 DEF KeyOf, Attempt, Key
    <3>. QED BY <1>2, <3>1 DEF LosersInv, StruckDown
  <2>3. LosersStruck'
    <3>. SUFFICES ASSUME ~Cut(snap'), NEW key \in Key, snap'.inst[key] = "cancelled"
                  PROVE  CancelledCovers(snap', key[1], key[2], tally'.last[key])
      BY DEF LosersStruck
    <3>1. snap.inst[key] = "cancelled"
      BY <1>s, <1>4, NotCancelled
    <3>. QED BY <1>c, <2>1, <3>1 DEF LosersInv, LosersStruck, CancelledCovers
  <2>. QED BY <1>1, <2>2, <2>3 DEF LosersInv
<1>5. CASE e.type = "nodeCancelled"
  <2>1. \/ SameNodes(snap, snap') /\ snap'.struck = snap.struck
        \/ e.k = 0 /\ snap'.inst = snap.inst /\ snap'.struck = snap.struck
        \/ /\ e.k # 0 /\ snap'.struck = snap.struck \cup {<<e.n, e.k, e.a>>}
           /\ \/ SameNodes(snap, snap') /\ snap.inst[<<e.n, e.k>>] = "superseded"
              \/ Shows(snap, snap', e.n, e.k, "cancelled")
    BY <1>s, <1>5, CancelledStrikes
  <2>2. StruckDown'
    <3>. SUFFICES ASSUME NEW x \in snap'.struck PROVE snap'.inst[KeyOf(x)] \in {"cancelled", "superseded"}
      BY DEF StruckDown
    <3>1. CASE x \in snap.struck
      BY <1>s, <1>2, <3>1 DEF LosersInv, StruckDown, KeyOf, Attempt, Key
    <3>2. CASE x \notin snap.struck
      <4>1. x = <<e.n, e.k, e.a>> /\ KeyOf(x) = <<e.n, e.k>>
        BY <2>1, <3>2 DEF KeyOf
      <4>. QED BY <2>1, <3>2, <4>1 DEF SameNodes, Shows
    <3>. QED BY <3>1, <3>2
  <2>3. LosersStruck'
    <3>. SUFFICES ASSUME ~Cut(snap'), NEW key \in Key, snap'.inst[key] = "cancelled"
                  PROVE  CancelledCovers(snap', key[1], key[2], tally.last[key])
      BY DEF LosersStruck
    <3>1. snap.inst[key] = "cancelled" => CancelledCovers(snap, key[1], key[2], tally.last[key])
      BY <1>c DEF LosersInv, LosersStruck
    <3>2. snap.struck \subseteq snap'.struck
      BY <2>1
    <3>3. CASE snap.inst[key] = "cancelled"
      BY <3>1, <3>2, <3>3 DEF CancelledCovers
    <3>4. CASE snap.inst[key] # "cancelled"
      <4>1. key = <<e.n, e.k>>
        <5>1. FrameOf(snap, snap', e.n, e.k)
          BY <1>s, FrameFold
        <5>. QED BY <3>4, <5>1 DEF FrameOf
      <4>2. e.k # 0 /\ <<e.n, e.k, e.a>> \in snap'.struck
        BY <2>1, <3>4 DEF SameNodes
      <4>3. key[1] = e.n /\ key[2] = e.k /\ e.a = tally.last[key]
        BY <1>5, <1>c, <4>1, <4>2
      <4>. QED BY <4>2, <4>3 DEF CancelledCovers
    <3>. QED BY <3>3, <3>4
  <2>. QED BY <1>1, <2>2, <2>3 DEF LosersInv
<1>. QED BY <1>4, <1>5

\* Only the cancellations strike.
LEMMA StruckStays ==
  ASSUME TypeInv, [Next]_vars, ~Cancelling, ~Finalize, ~CancelLoser, ~CbCancelled
  PROVE  snap'.struck = snap.struck
<1>. USE DEF Outside, Idling, Goto, journal
<1>s. snap \in Snapshot
  BY DEF TypeInv, JournalOK
<1>a. ASSUME NEW e, Append(e), e.type # "nodeCancelled"
      PROVE  snap'.struck = snap.struck
  BY <1>s, <1>a, StruckFold DEF Append
<1>1. CASE Drive \/ SignalToJournal \/ Boundary \/ DropObsolete \/ DropOrphaned \/ Decide \/ Quiesced
           \/ DrainClosed \/ DrainPassed \/ Wake \/ ResolveEdge \/ SkipNode \/ Controlled
  BY <1>1, <1>a DEF Drive, SignalToJournal, Boundary, DropObsolete, DropOrphaned, Decide, Quiesced,
     DrainClosed, ProvesClosed, DrainPassed, Wake, ResolveEdge, SkipNode, Controlled, Quiesce, Return, Ev, EvM
<1>3. CASE Publish
  <2>1. \A e \in TerminalEvent(snap) : e.type \in {"runFailed", "runBlocked", "runSucceeded"}
    BY DEF TerminalEvent, Ev
  <2>. QED BY <1>3, <1>a, <2>1 DEF Publish
<1>4. CASE ClaimWork \/ ClaimGate \/ PassOver \/ Dispatched \/ Arm \/ ArmFailed \/ EndTick \/ NoticeCancel
  BY <1>4, <1>a DEF ClaimWork, ClaimGate, PassOver, Dispatched, Arm, ArmIf, ArmFailed, EndTick, NoticeCancel,
     Quiesce, Return, GiveUp, Ev, EvX
<1>5. CASE CbVerdict \/ CbDrain \/ CbRevisit \/ CbRefresh \/ CbRetry
  BY <1>5, <1>a DEF CbVerdict, CbDrain, CbRevisit, CbRefresh, CbRetry, CbEvent, EvM, EvX, Ev, RetryEvent,
     TypeInv, CbOK
<1>6. CASE Promises \/ WorkerExit \/ Human \/ Environment \/ UNCHANGED vars
  BY <1>6, <1>a DEF Promises, Settle, Judge, WorkerExit, Human, GateClick, Click, Retry, GrantRevisit,
     Environment, Cancel, CancelAnd, ForeignCancel, BareAbort, Crash, vars, RetryEvent, Ev, EvX, EvM
<1>. QED BY <1>1, <1>3, <1>4, <1>5, <1>6 DEF Next, Tick, Callback

\* What touches no node and strikes nothing keeps the losers out.
LEMMA QuietLosers ==
  ASSUME AllInv, LosersInv, [Next]_vars, NEW s \in Snapshot, SameNodes(s, snap'), snap'.struck = s.struck,
         Mirrored(s), \A x \in s.struck : s.inst[KeyOf(x)] \in {"cancelled", "superseded"},
         \/ Cut(snap)
         \/ SameNodes(s, snap) /\ s.struck = snap.struck /\ tally'.last = tally.last
  PROVE  LosersInv'
<1>1. Mirrored(snap')
  BY DEF SameNodes, Mirrored, Shown
<1>2. StruckDown'
  BY DEF SameNodes, StruckDown
<1>3. Cut(snap) => Cut(snap')
  BY Step DEF AllInv, StepOK, JournalStep, OnlyCancels
<1>4. LosersStruck'
  BY <1>3 DEF LosersInv, LosersStruck, SameNodes, CancelledCovers
<1>. QED BY <1>1, <1>2, <1>4 DEF LosersInv

\* A claim starts an instance that was never struck.
LEMMA ClaimLosers == ASSUME AllInv, LosersInv, [Next]_vars, ClaimWork PROVE LosersInv'
<1>1. PICK act, a : Claims(act, a)
  BY ClaimEffect
<1>. DEFINE key == <<act.n, act.k>>
<1>2. /\ snap \in Snapshot /\ Views(snap) /\ snap.struck \subseteq Attempt /\ key \in Key
      /\ act.n \in Node /\ act.k \in Inst
  BY <1>1 DEF AllInv, TypeInv, JournalOK, WorkerInv, ViewInv, Snapshot, Claims, Key
<1>3. snap'.struck = snap.struck
  BY StruckStays DEF AllInv, ClaimWork, Cancelling, Finalize, CancelLoser, CbCancelled, Top, Steps
<1>4. snap.inst[key] \in {"pending", "absent"}
  BY <1>1, <1>2, StartIsFree DEF Claims
<1>5. snap'.inst[key] = "running" /\ snap'.status[act.n] = "running" /\ snap'.eff[act.n] = act.k
  BY <1>1 DEF Claims, Begins
<1>6. \A other \in Key : other # key => snap'.inst[other] = snap.inst[other] /\ tally'.last[other] = tally.last[other]
  BY <1>1 DEF Claims, FrameOf
<1>7. \A m \in Node : m # act.n => snap'.status[m] = snap.status[m] /\ snap'.eff[m] = snap.eff[m]
  BY <1>1 DEF Claims, FrameOf
<1>. HIDE DEF key
<1>8. Mirrored(snap')
  <2>. SUFFICES ASSUME NEW n \in Node, snap'.eff[n] # 0
                PROVE  /\ snap'.inst[<<n, snap'.eff[n]>>] # "superseded"
                       /\ \/ snap'.status[n] = snap'.inst[<<n, snap'.eff[n]>>]
                          \/ snap'.status[n] = "skipped" /\ snap'.inst[<<n, snap'.eff[n]>>] # "cancelled"
    BY DEF Mirrored, Shown
  <2>1. CASE n = act.n
    BY <1>5, <2>1 DEF key
  <2>2. CASE n # act.n
    <3>1. snap.eff[n] # 0 /\ <<n, snap.eff[n]>> \in Key /\ <<n, snap.eff[n]>> # key
      BY <1>2, <1>7, <2>2 DEF key, Key, Inst, Snapshot
    <3>. QED BY <1>6, <1>7, <2>2, <3>1 DEF LosersInv, Mirrored, Shown
  <2>. QED BY <2>1, <2>2
<1>9. StruckDown'
  <2>. SUFFICES ASSUME NEW x \in snap.struck PROVE snap'.inst[KeyOf(x)] \in {"cancelled", "superseded"}
    BY <1>3 DEF StruckDown
  <2>1. KeyOf(x) \in Key /\ snap.inst[KeyOf(x)] \in {"cancelled", "superseded"}
    BY <1>2 DEF LosersInv, StruckDown, KeyOf, Attempt, Key
  <2>. QED BY <1>4, <1>6, <2>1
<1>10. LosersStruck'
  <2>. SUFFICES ASSUME NEW other \in Key, snap'.inst[other] = "cancelled"
                PROVE  CancelledCovers(snap', other[1], other[2], tally'.last[other])
    BY DEF LosersStruck
  <2>1. other # key /\ snap.inst[other] = "cancelled" /\ tally'.last[other] = tally.last[other]
    BY <1>5, <1>6
  <2>2. ~Cut(snap)
    BY <1>1 DEF Claims, Cut
  <2>. QED BY <1>3, <2>1, <2>2 DEF LosersInv, LosersStruck, CancelledCovers
<1>. QED BY <1>8, <1>9, <1>10 DEF LosersInv

\* Striking a set of nodes takes their live instances out of the race.
LEMMA StrikeLosers ==
  ASSUME NEW s \in Snapshot, Mirrored(s), NEW S \in SUBSET Node, NEW latest \in [Key -> Nat], Views(s),
         s.struck \subseteq Attempt, \A x \in s.struck : s.inst[KeyOf(x)] \in {"cancelled", "superseded"}
  PROVE  LET t == StrikeAll(s, S, latest) IN
         Mirrored(t) /\ \A x \in t.struck : t.inst[KeyOf(x)] \in {"cancelled", "superseded"}
<1>. DEFINE t == StrikeAll(s, S, latest)
<1>1. /\ t.eff = s.eff
      /\ \A n \in Node : t.status[n] = IF n \in S THEN "cancelled" ELSE s.status[n]
      /\ \A key \in Key : t.inst[key] = IF key[1] \in S /\ s.eff[key[1]] = key[2] /\ s.inst[key] # "superseded"
                                        THEN "cancelled" ELSE s.inst[key]
      /\ t.struck = s.struck \cup {<<n, s.eff[n], latest[<<n, s.eff[n]>>]>> : n \in {o \in S : s.eff[o] # 0}}
  BY DEF StrikeAll, Snapshot
<1>. HIDE DEF t
<1>2. \A n \in Node : s.eff[n] # 0 => <<n, s.eff[n]>> \in Key
  BY DEF Key, Inst, Snapshot
<1>3. Mirrored(t)
  BY <1>1, <1>2 DEF Mirrored, Shown
<1>4. ASSUME NEW x \in t.struck PROVE t.inst[KeyOf(x)] \in {"cancelled", "superseded"}
  <2>1. CASE x \in s.struck
    <3>1. KeyOf(x) \in Key
      BY <2>1 DEF KeyOf, Attempt, Key
    <3>. QED BY <1>1, <2>1, <3>1
  <2>2. CASE x \notin s.struck
    <3>1. PICK n \in S : s.eff[n] # 0 /\ x = <<n, s.eff[n], latest[<<n, s.eff[n]>>]>>
      BY <1>1, <2>2
    <3>2. KeyOf(x) = <<n, s.eff[n]>> /\ KeyOf(x) \in Key
      BY <1>2, <3>1 DEF KeyOf
    <3>. QED BY <1>1, <3>1, <3>2
  <2>. QED BY <2>1, <2>2
<1>. QED BY <1>3, <1>4 DEF t

\* Only a grant begins a retry.
LEMMA RetriesApartStep == ASSUME AllInv, RetriesApart, [Next]_vars PROVE RetriesApart'
<1>. SUFFICES ASSUME cb'.step = "retry", cb' # cb PROVE ~cb'.mine
  BY DEF RetriesApart
<1>1. CASE Drive \/ Tick
  <2>1. DrainClosed
    BY <1>1 DEF Drive, Tick, SignalToJournal, Cancelling, Finalize, Boundary, DropObsolete, DropOrphaned,
       Decide, Publish, Quiesced, DrainPassed, Wake, ResolveEdge, SkipNode,
       Controlled, ClaimWork, ClaimGate, PassOver, Dispatched, Arm, ArmIf, ArmFailed, CancelLoser,
       EndTick, NoticeCancel, Quiesce, Return, GiveUp, Goto
  <2>2. cb'.step = "drain"
    BY <2>1 DEF DrainClosed, ProvesClosed, Cb, NoCb
  <2>. QED BY <2>2
<1>2. CASE CbVerdict \/ CbDrain \/ CbCancelled \/ CbRetry
  <2>1. cb' = NoCb \/ cb' = [cb EXCEPT !.step = "cancelled"]
    BY <1>2 DEF CbVerdict, CbDrain, CbCancelled, CbRetry, Finally
  <2>2. cb' = [cb EXCEPT !.step = "cancelled"] => cb'.step = "cancelled"
    BY DEF AllInv, TypeInv, CbOK, CbType
  <2>. QED BY <2>1, <2>2 DEF NoCb
<1>3. CASE CbRevisit \/ CbRefresh
  <2>1. PICK rest : Refreshing(rest)
    BY <1>3 DEF CbRevisit, CbRefresh
  <2>2. cb'.step \in {"drain", "refresh"}
    BY <2>1 DEF Refreshing, AllInv, TypeInv, CbOK, CbType
  <2>. QED BY <2>2
<1>4. CASE Settle
  <2>1. UNCHANGED cb \/ \E n, k, a, y : cb' \in {Verdict(n, k, a, "nodeFailed", "none"), DrainProof(n, k, a, y)}
    BY <1>4 DEF Settle
  <2>2. ASSUME NEW n, NEW k, NEW a, NEW y
        PROVE  /\ Verdict(n, k, a, "nodeFailed", "none").step = "verdict"
               /\ DrainProof(n, k, a, y).step = "drain"
    BY DEF Verdict, DrainProof, Cb, NoCb
  <2>. QED BY <2>1, <2>2
<1>5. CASE Judge
  <2>1. PICK n \in Node, k \in Inst, find \in Finds, m \in Node : cb' = Judgement(find, n, k, flight[<<n, k>>], m)
    BY <1>5 DEF Judge
  <2>. DEFINE a == flight[<<n, k>>].att
  <2>2. \/ cb' = RevisitCb(n, k, a, m)
        \/ \E type, code : cb' = Verdict(n, k, a, type, code) \/ cb' = [Verdict(n, k, a, type, code) EXCEPT !.m = m]
        \/ \E reason : cb' = DrainProof(n, k, a, reason)
    BY <2>1 DEF Judgement, Finds, BudgetCb
  <2>3. cb' = RevisitCb(n, k, a, m) => cb'.step = "revisit"
    BY DEF RevisitCb, Cb, NoCb
  <2>4. \A type, code : cb' = Verdict(n, k, a, type, code) \/ cb' = [Verdict(n, k, a, type, code) EXCEPT !.m = m]
                          => cb'.step = "verdict"
    BY DEF Verdict, Cb, NoCb
  <2>5. \A reason : cb' = DrainProof(n, k, a, reason) => cb'.step = "drain"
    BY DEF DrainProof, Cb, NoCb
  <2>. HIDE DEF a
  <2>. QED BY <2>2, <2>3, <2>4, <2>5
<1>6. CASE GrantRevisit
  BY <1>6 DEF GrantRevisit, NoCb
<1>7. CASE WorkerExit \/ GateClick \/ Retry \/ Environment \/ UNCHANGED vars
  BY <1>7 DEF WorkerExit, GateClick, Click, Retry, Environment, Cancel, CancelAnd, ForeignCancel, BareAbort,
     Crash, NoCb, vars, local
<1>. QED BY <1>1, <1>2, <1>3, <1>4, <1>5, <1>6, <1>7 DEF Next, Callback, Promises, Human

\* Apart from starts, skips, strikes and publications, the loop touches no node.
LEMMA TickQuiet ==
  ASSUME AllInv, Drive \/ Tick, ~ClaimWork, ~ClaimGate, ~ArmFailed, ~SkipNode, ~CancelLoser, ~Cancelling, ~Finalize
  PROVE  SameNodes(snap, snap')
<1>1. CASE Arm
  BY <1>1, ArmEffect
<1>2. CASE Publish
  BY <1>2, RunMove
<1>3. CASE ~Arm /\ ~Publish
  <2>. USE DEF Outside, Idling, Goto, journal
  <2>1. CASE Drive \/ Boundary \/ DropObsolete \/ DropOrphaned \/ Decide \/ Quiesced
           \/ DrainClosed \/ DrainPassed \/ Wake \/ Controlled
    <3>1. UNCHANGED snap
      BY <2>1 DEF Drive, Boundary, DropObsolete, DropOrphaned, Decide, Quiesced,
         DrainClosed, ProvesClosed, DrainPassed, Wake, Controlled, Quiesce, Return
    <3>. QED BY <3>1 DEF SameNodes
  <2>2. CASE PassOver \/ Dispatched \/ EndTick \/ NoticeCancel
    <3>1. UNCHANGED snap
      BY <2>2 DEF PassOver, Dispatched, EndTick, NoticeCancel, Quiesce, Return, GiveUp
    <3>. QED BY <3>1 DEF SameNodes
  <2>3. ASSUME NEW e, Append(e), e.type \in {"runCancelRequested", "edgeResolved"} PROVE SameNodes(snap, snap')
    BY <2>3, StillFold DEF Still
  <2>4. CASE SignalToJournal
    BY <2>3, <2>4 DEF SignalToJournal, Ev
  <2>5. CASE ResolveEdge
    BY <2>3, <2>5 DEF ResolveEdge, EvM
  <2>. QED BY <1>3, <2>1, <2>2, <2>4, <2>5 DEF Tick
<1>. QED BY <1>1, <1>2, <1>3

\* Every step keeps the losers out.
LEMMA LosersStep == ASSUME AllInv, LosersInv, [Next]_vars PROVE LosersInv'
<1>s. /\ snap \in Snapshot /\ Views(snap) /\ Mirrored(snap) /\ snap.struck \subseteq Attempt
      /\ \A x \in snap.struck : snap.inst[KeyOf(x)] \in {"cancelled", "superseded"}
      /\ tally.last \in [Key -> Nat]
  BY DEF AllInv, TypeInv, JournalOK, WorkerInv, ViewInv, LosersInv, StruckDown, Snapshot, Tally
<1>1. CASE ClaimWork
  BY <1>1, ClaimLosers
<1>2. CASE ~ClaimWork
  <2>a. tally'.last = tally.last
    BY <1>2, LastStays DEF AllInv
  <2>b. SameNodes(snap, snap') /\ snap'.struck = snap.struck => LosersInv'
    <3>1. SameNodes(snap, snap)
      BY DEF SameNodes
    <3>. QED BY <1>s, <2>a, <3>1, QuietLosers
  <2>c. Appends((Loud \cup Soft) \ {"nodeSucceeded", "nodeFailed", "nodeBlocked", "nodeCancelled"}) => LosersInv'
    BY <2>a, LosersFold DEF Appends
  <2>1. CASE ClaimGate
    BY <2>1, <2>c, StartMove DEF Appends, Loud
  <2>2. CASE ArmFailed
    <3>. DEFINE e == Ev("nodeFailed", item.n, item.k, ItemAttempt[3])
    <3>1. Append(e) /\ InOrder(e)
      BY <2>2, StartMove
    <3>2. e.type = "nodeFailed" /\ e.a = tally.last[<<e.n, e.k>>]
      BY DEF Ev, ItemAttempt
    <3>. HIDE DEF e
    <3>. QED BY <2>a, <3>1, <3>2, LosersFold DEF Loud
  <2>3. CASE SkipNode
    <3>1. PICK act \in plan : act.kind = "skip" /\ pc = "control" /\ Append(Ev("nodeSkipped", act.n, 0, 0))
      BY <2>3 DEF SkipNode
    <3>. QED BY <2>c, <3>1, TickFits DEF Ev, Appends, Soft
  <2>4. CASE CancelLoser
    <3>1. PICK act \in plan :
            \/ UNCHANGED journal
            \/ Append(EvX("nodeCancelled", act.n, snap.eff[act.n],
                          IF snap.eff[act.n] = 0 THEN 0 ELSE tally.last[<<act.n, snap.eff[act.n]>>], "loser"))
      BY <2>4 DEF CancelLoser
    <3>2. CASE UNCHANGED journal
      BY <2>b, <3>2 DEF journal, SameNodes
    <3>3. CASE ~UNCHANGED journal
      <4>. DEFINE k == snap.eff[act.n]
                  a == IF k = 0 THEN 0 ELSE tally.last[<<act.n, k>>]
                  e == EvX("nodeCancelled", act.n, k, a, "loser")
      <4>1. act.n \in Node
        BY DEF AllInv, TypeInv, DriverOK, PlanOK, Action
      <4>2. Append(e) /\ InOrder(e)
        BY <3>1, <3>3, <4>1, TickFits
      <4>3. e.type = "nodeCancelled" /\ e.n = act.n /\ e.k = k /\ e.a = a
        BY DEF EvX
      <4>4. IF e.k = 0 THEN snap.eff[e.n] = 0 ELSE e.a = tally.last[<<e.n, e.k>>]
        BY <4>3
      <4>. HIDE DEF e
      <4>. QED BY <2>a, <4>2, <4>3, <4>4, LosersFold DEF Soft
    <3>. QED BY <3>2, <3>3
  <2>5. CASE Cancelling
    <3>. DEFINE S == {n \in Node : snap.status[n] \in {"pending", "gateWaiting"}}
    <3>1. snap' = StrikeAll(snap, S, tally.last) /\ Cut(snap) /\ snap' \in Snapshot
      BY <2>5, Step DEF Cancelling, StrikeNodes, Cut, AllInv, StepOK, JournalStep, JournalOK
    <3>2. S \in SUBSET Node
      OBVIOUS
    <3>. HIDE DEF S
    <3>3. Mirrored(snap') /\ \A x \in snap'.struck : snap'.inst[KeyOf(x)] \in {"cancelled", "superseded"}
      BY <1>s, <3>1, <3>2, StrikeLosers
    <3>. QED BY <3>1, <3>3, QuietLosers DEF SameNodes
  <2>6. CASE Finalize
    <3>1. CASE snap.run # "cancelling"
      BY <2>6, <2>b, <3>1 DEF Finalize, SameNodes
    <3>2. CASE snap.run = "cancelling"
      <4>. DEFINE S == {n \in Node : snap.status[n] \in {"pending", "gateWaiting", "running"}}
                  t == StrikeAll(snap, S, tally.last)
                  e == Ev("runCancelled", AnyNode, 0, 0)
      <4>1. snap' = Fold(t, e) /\ Cut(snap)
        BY <2>6, <3>2 DEF Finalize, Cut
      <4>2. S \in SUBSET Node /\ e.type = "runCancelled"
        BY DEF Ev
      <4>. HIDE DEF S, e
      <4>3. Mirrored(t) /\ \A x \in t.struck : t.inst[KeyOf(x)] \in {"cancelled", "superseded"}
        BY <1>s, <4>2, StrikeLosers
      <4>4. t \in Snapshot
        BY <1>s, <4>2, StrikeAllType
      <4>. HIDE DEF t
      <4>5. SameNodes(t, snap') /\ snap'.struck = t.struck
        BY <4>1, <4>2, <4>4, SilentFold, StruckFold DEF Silent, RunEvent
      <4>. QED BY <4>1, <4>3, <4>4, <4>5, QuietLosers
    <3>. QED BY <3>1, <3>2
  <2>7. CASE CbVerdict \/ CbDrain
    <3>1. CASE UNCHANGED journal
      BY <2>b, <3>1 DEF journal, SameNodes
    <3>2. ASSUME NEW e, Append(e), InOrder(e), e.type \in SettleTypes \ {"nodeCancelled"},
                 e.n = cb.n, e.k = cb.k, e.a = cb.a,
                 cb.mine \/ e.type = "nodeAttemptDrained" \/ (tally.last[CbKey] = cb.a /\ snap.inst[CbKey] = "running")
          PROVE  LosersInv'
      <4>1. CbKey \in Key /\ CbKey = <<e.n, e.k>>
        BY <2>7, <3>2 DEF CbKey, Key, Inst, AllInv, TypeInv, CbOK, CbType, CbVerdict, CbDrain
      <4>2. cb.mine => tally.last[CbKey] = cb.a
        BY <2>7, <4>1 DEF AllInv, WorkerInv, FlightInv, CbInFlight, FlightIsLatest, CbBusy, CbVerdict, CbDrain
      <4>. QED BY <2>a, <3>2, <4>1, <4>2, LosersFold DEF SettleTypes, Loud
    <3>. QED BY <2>7, <3>1, <3>2, SettleMove DEF CbVerdict, CbDrain
  <2>8. CASE CbCancelled
    <3>1. CASE UNCHANGED journal
      BY <2>b, <3>1 DEF journal, SameNodes
    <3>2. CASE ~UNCHANGED journal
      <4>. DEFINE e == EvX("nodeCancelled", cb.n, cb.k, cb.a, "runCancellation")
      <4>1. Append(e) /\ snap.run = "cancelling" /\ (cb.mine \/ snap.inst[CbKey] = "running")
        BY <2>8, <3>2 DEF CbCancelled, CbKey
      <4>2. InOrder(e)
        BY <2>8, <4>1, CbFits DEF CbBusy, CbCancelled
      <4>3. e.type = "nodeCancelled" /\ e.k # 0
        BY <2>8 DEF EvX, CbCancelled, AllInv, TypeInv, CbOK
      <4>. HIDE DEF e
      <4>. QED BY <2>a, <4>1, <4>2, <4>3, LosersFold DEF Soft, Cut
    <3>. QED BY <3>1, <3>2
  <2>9. CASE /\ Callback \/ Promises \/ WorkerExit \/ Human \/ Environment
             /\ ~CbCancelled /\ ~Cancelling /\ ~Finalize /\ ~CancelLoser
    <3>1. CASE Still
      <4>1. snap'.struck = snap.struck
        BY <2>9, StruckStays DEF AllInv
      <4>. QED BY <2>b, <3>1, <4>1 DEF Still
    <3>2. CASE Appends({"nodeInstanceSuperseded", "nodeRetryRequested", "gateResolved"})
      BY <2>c, <3>2 DEF Appends, Soft
    <3>. QED BY <2>7, <2>9, <3>1, <3>2, OutsideMove
  <2>10. CASE UNCHANGED vars
    BY <2>10, <2>b DEF vars, journal, SameNodes
  <2>11. CASE /\ Drive \/ Tick
              /\ ~ClaimGate /\ ~ArmFailed /\ ~SkipNode /\ ~CancelLoser /\ ~Cancelling /\ ~Finalize /\ ~CbCancelled
    <3>1. SameNodes(snap, snap')
      BY <1>2, <2>11, TickQuiet
    <3>2. snap'.struck = snap.struck
      BY <2>11, StruckStays DEF AllInv
    <3>. QED BY <2>b, <3>1, <3>2
  <2>. QED BY <2>1, <2>2, <2>3, <2>4, <2>5, <2>6, <2>8, <2>9, <2>10, <2>11 DEF Next
<1>. QED BY <1>1, <1>2

\* Without refreshes, what a settling attempt of this process appends changes no node once its
\* instance is cancelled.
LEMMA LoserIsMute ==
  ASSUME AllInv, LosersInv, RetriesApart, [Next]_vars, ~Refreshes,
         cb.step # "none", cb.mine, snap.inst[CbKey] = "cancelled"
  PROVE  snap'.status = snap.status
<1>s. /\ snap \in Snapshot /\ CbBusy /\ CbKey \in Key /\ cb.a = tally.last[CbKey]
      /\ cb.step \in {"verdict", "drain", "cancelled"}
  <2>1. CbBusy /\ CbKey \in Key /\ cb.step \in {"verdict", "drain", "cancelled"}
    BY DEF RetriesApart, CbBusy, Refreshes, AllInv, TypeInv, CbOK, CbType, CbStep, CbKey, Key, Inst
  <2>2. cb.a = tally.last[CbKey]
    BY <2>1 DEF AllInv, WorkerInv, FlightInv, CbInFlight, FlightIsLatest
  <2>. QED BY <2>1, <2>2 DEF AllInv, TypeInv, JournalOK
<1>a. SameNodes(snap, snap') => snap'.status = snap.status
  BY DEF SameNodes
<1>1. CASE CbVerdict
  <2>. DEFINE e == CbEvent(cb.type)
  <2>1. /\ snap' = Fold(snap, e) /\ e.type \in {"nodeSucceeded", "nodeFailed", "nodeBlocked"}
        /\ e.n = cb.n /\ e.k = cb.k /\ e.a = cb.a
    BY <1>1 DEF CbVerdict, Append, CbEvent, EvM, AllInv, TypeInv, CbOK
  <2>. HIDE DEF e
  <2>2. CASE Cut(snap)
    BY <2>1, <2>2 DEF Fold, PastCut
  <2>3. CASE ~Cut(snap)
    <3>1. CbKey[1] = e.n /\ CbKey[2] = e.k
      BY <2>1 DEF CbKey
    <3>2. CancelledCovers(snap, e.n, e.k, e.a)
      BY <1>s, <2>1, <2>3, <3>1 DEF LosersInv, LosersStruck
    <3>. QED BY <2>1, <3>2 DEF Fold, Applied, RunEvent, OnNodeEvent, OnSettle
  <2>. QED BY <2>2, <2>3
<1>2. CASE CbDrain
  <2>1. ~OrphanExhausted
    BY DEF OrphanExhausted, CbKey
  <2>2. CASE UNCHANGED journal
    BY <2>2 DEF journal
  <2>3. CASE ~UNCHANGED journal
    <3>. DEFINE e == CbEvent("nodeAttemptDrained")
    <3>1. snap' = Fold(snap, e)
      BY <1>2, <2>1, <2>3 DEF CbDrain, Append
    <3>2. WellFormed(e) /\ e.type = "nodeAttemptDrained" /\ <<e.n, e.k>> = CbKey
      BY <1>s, CbFits DEF InOrder, CbEvent, EvM, CbKey
    <3>. HIDE DEF e
    <3>3. SameNodes(snap, Fold(snap, e))
      BY <1>s, <3>2, DrainedEffect
    <3>. QED BY <1>a, <3>1, <3>3
  <2>. QED BY <2>2, <2>3
<1>3. CASE CbCancelled
  BY <1>3 DEF CbCancelled, CbKey, journal
<1>4. CASE WorkerExit \/ Crash \/ UNCHANGED vars
  BY <1>4 DEF WorkerExit, Crash, vars, journal
<1>5. CASE Drive
  BY <1>5 DEF Drive, journal
<1>6. CASE ForeignCancel
  BY <1>6, <1>a, StillFold DEF ForeignCancel, Ev, Still
<1>7. ~Tick
  BY DEF Tick, SignalToJournal, Cancelling, Finalize, Boundary, DropObsolete, DropOrphaned,
     Decide, Publish, Quiesced, DrainClosed, ProvesClosed, DrainPassed, Wake, ResolveEdge, SkipNode,
     Controlled, ClaimWork, ClaimGate, PassOver, Dispatched, Arm, ArmIf, ArmFailed, CancelLoser,
     EndTick, NoticeCancel, Running, Top, Steps
<1>8. ~Promises /\ ~Human /\ ~Cancel /\ ~BareAbort
  BY DEF Promises, Settle, Judge, Human, GateClick, Click, Retry, GrantRevisit, Cancel, CancelAnd, BareAbort, Quiet
<1>9. ~CbRevisit /\ ~CbRefresh /\ ~CbRetry
  BY <1>s DEF CbRevisit, CbRefresh, CbRetry
<1>. QED BY <1>1, <1>2, <1>3, <1>4, <1>5, <1>6, <1>7, <1>8, <1>9 DEF Next, Callback, Environment

\* What is cancelled was struck, what was struck is out of the race, live nodes show their instance.
THEOREM LosersInvariant == Spec => [](LosersInv /\ RetriesApart)
<1>1. Init => LosersInv /\ RetriesApart
  BY DEF Init, LosersInv, Mirrored, Shown, StruckDown, LosersStruck, RetriesApart, EmptySnapshot, NoCb
<1>2. ASSUME TypeInv, NumbersInv, GateInv, WorkerInv, LosersInv /\ RetriesApart, [Next]_vars
      PROVE  (LosersInv /\ RetriesApart)'
  <2>1. AllInv
    BY <1>2 DEF AllInv
  <2>. QED BY <1>2, <2>1, LosersStep, RetriesApartStep
<1>. QED BY <1>1, <1>2, TypeInvariant, NumbersInvariant, GateInvariant, WorkerInvariant, PTL DEF Spec

\* An attempt that lost an early release, or whose node was cancelled, is out of the race: nothing
\* its late settle appends changes the state of any node, whoever else cancels, clicks, retries or
\* dies meanwhile.  A loser's late manifest can still ask for a revisit, which the runtime carries
\* out, so the theorem is about DAGs whose nodes send nothing back.
THEOREM LosersStayOut == ASSUME RevisitTo = {} PROVE Spec => LoserStaysOut
<1>1. ASSUME TypeInv, NumbersInv, GateInv, WorkerInv, LosersInv /\ RetriesApart, FreshInv, [Next]_vars
      PROVE  [cb.step # "none" /\ cb.mine /\ snap.inst[<<cb.n, cb.k>>] = "cancelled"
                => snap'.status = snap.status]_vars
  <2>1. AllInv /\ ~Refreshes
    BY <1>1 DEF AllInv, FreshInv, Sent
  <2>. QED BY <1>1, <2>1, LoserIsMute DEF CbKey
<1>. QED
  BY <1>1, LosersInvariant, FreshInvariant, TypeInvariant, NumbersInvariant, GateInvariant, WorkerInvariant,
     PTL DEF Spec, LoserStaysOut, Careful

----------------------------------------------------------------------------
(* A driver that always finds something to do.                             *)

\* A node at work has its latest attempt on the ledger.
AtWorkOpen ==
  ~Cut(snap) => \A n \in Node : snap.status[n] = "running" =>
    snap.eff[n] # 0 /\ <<n, snap.eff[n], tally.last[<<n, snap.eff[n]>>]>> \in open

HasRoom(n) == NextInstance(snap, n) <= MaxInst

\* What has no instance, or is about to lose it, has room for the next one.
RoomLeft ==
  /\ \A n \in Node : snap.eff[n] = 0 => HasRoom(n)
  /\ Refreshes => \A n \in cb.refresh : HasRoom(n)

\* The tick has started something, or there is something to wait for.
Lively == progress.started \/ InFlight # {} \/ Waiting # {}

\* The driver goes on.
MovesOn ==
  /\ pc \in {"dispatch", "arm"} => snap.run = "running"
  /\ pc = "dispatch" => Lively \/ \E act \in Starts : snap.status[act.n] = "pending"
  /\ pc = "losers" => Lively \/ progress.lost
  /\ pc # "stuck"

OnwardInv == AtWorkOpen /\ RoomLeft /\ MovesOn

\* Only a dispatch puts a node to work.
LEMMA WorkFold ==
  ASSUME NEW s \in Snapshot, NEW e, WellFormed(e), Fits(s, e), e.type \in Loud \cup Soft,
         NEW n \in Node, Fold(s, e).status[n] = "running"
  PROVE  s.status[n] = "running" /\ Fold(s, e).eff[n] = s.eff[n]
<1>. DEFINE t == Fold(s, e)
<1>a. n # e.n => t.status[n] = s.status[n] /\ t.eff[n] = s.eff[n]
  BY FrameFold DEF FrameOf
<1>. SUFFICES ASSUME n = e.n PROVE s.status[n] = "running" /\ t.eff[n] = s.eff[n]
  BY <1>a
<1>0. t.status[n] = "running" /\ e.n \in Node
  OBVIOUS
<1>. HIDE DEF t
<1>b. SameNodes(s, t) => s.status[n] = "running" /\ t.eff[n] = s.eff[n]
  BY <1>0 DEF SameNodes
<1>1. CASE e.type \in {"nodeSucceeded", "nodeFailed", "nodeBlocked"}
  BY <1>0, <1>1, <1>b, SettleEffect DEF t, Shows, Fits
<1>2. CASE e.type = "nodeCancelled"
  BY <1>0, <1>2, <1>b, CancelledEffect DEF t, Shows
<1>3. CASE e.type = "nodeRetryRequested"
  BY <1>0, <1>3, <1>b, RetryEffect DEF t, Shows, Fits
<1>4. CASE e.type = "gateResolved"
  BY <1>0, <1>4, <1>b, ClickEffect DEF t, Shows, Fits
<1>5. CASE e.type = "nodeInstanceSuperseded"
  BY <1>0, <1>5, <1>b, SupersededEffect DEF t, Fits
<1>6. CASE e.type = "nodeSkipped"
  BY <1>0, <1>6, SkippedEffect DEF t
<1>7. CASE e.type = "nodeAttemptDrained"
  BY <1>0, <1>7, <1>b, DrainedEffect DEF t
<1>8. CASE e.type = "gateDispatched"
  BY <1>0, <1>8, <1>b, GateEffect DEF t, Begins
<1>. QED BY <1>1, <1>2, <1>3, <1>4, <1>5, <1>6, <1>7, <1>8 DEF Loud, Soft

\* The settle of an attempt at work ends the work of its node.
LEMMA SettleEnds ==
  ASSUME AllInv, LosersInv, NEW e, Append(e), InOrder(e), e.type \in Closes, e.k # 0,
         snap.status[e.n] = "running", snap.eff[e.n] = e.k, e.a = tally.last[<<e.n, e.k>>],
         snap.run \in {"running", "blocked"}
  PROVE  snap'.status[e.n] # "running"
<1>1. snap \in Snapshot /\ snap' = Fold(snap, e) /\ e.n \in Node /\ <<e.n, e.k>> \in Key /\ ~Cut(snap)
  BY DEF AllInv, TypeInv, JournalOK, Append, InOrder, WellFormed, Event, Key, Inst, Cut
<1>2. snap.inst[<<e.n, e.k>>] = "running"
  BY <1>1 DEF LosersInv, Mirrored, Shown
<1>3. snap.att[<<e.n, e.k>>] = e.a
  BY <1>1, <1>2 DEF AllInv, WorkerInv, ViewInv, LatestRuns
<1>4. ~CancelledCovers(snap, e.n, e.k, e.a)
  <2>1. \A b : KeyOf(<<e.n, e.k, b>>) = <<e.n, e.k>>
    BY DEF KeyOf
  <2>. QED BY <1>2, <2>1 DEF LosersInv, StruckDown, CancelledCovers
<1>5. CASE e.type = "nodeAttemptDrained"
  <2>1. snap' = OnDrained(snap, e)
    BY <1>1, <1>5 DEF Fold, Applied, RunEvent, OnNodeEvent
  <2>. QED BY <1>1, <1>2, <1>3, <2>1 DEF OnDrained, Snapshot
<1>6. ASSUME NEW st \in {"done", "failed", "blocked"}, snap' = OnSettle(snap, e, st)
      PROVE  snap'.status[e.n] # "running"
  BY <1>1, <1>2, <1>4, <1>6 DEF OnSettle, Record, Snapshot
<1>7. CASE e.type # "nodeAttemptDrained"
  <2>1. \E st \in {"done", "failed", "blocked"} : snap' = OnSettle(snap, e, st)
    BY <1>1, <1>7 DEF Fold, Applied, RunEvent, OnNodeEvent, Closes
  <2>. QED BY <1>6, <2>1
<1>. QED BY <1>5, <1>7

\* Nothing comes to work but by a claim.
LEMMA StaysAtWork ==
  ASSUME AllInv, [Next]_vars, ~ClaimWork, NEW n \in Node, snap'.status[n] = "running"
  PROVE  snap.status[n] = "running" /\ snap'.eff[n] = snap.eff[n]
<1>s. snap \in Snapshot
  BY DEF AllInv, TypeInv, JournalOK
<1>1. CASE SameNodes(snap, snap')
  BY <1>1 DEF SameNodes
<1>2. CASE Appends(Loud \cup Soft)
  BY <1>s, <1>2, WorkFold DEF Appends, Append, InOrder
<1>3. ASSUME NEW S \in SUBSET Node, SameNodes(StrikeAll(snap, S, tally.last), snap')
      PROVE  snap.status[n] = "running" /\ snap'.eff[n] = snap.eff[n]
  BY <1>s, <1>3, StrikeEffect DEF SameNodes
<1>. QED BY <1>1, <1>2, <1>3, EveryMove

\* An attempt leaves the ledger only with the work of its node.
LEMMA AtWorkOpenStep == ASSUME AllInv, LosersInv, AtWorkOpen, [Next]_vars PROVE AtWorkOpen'
<1>s. snap \in Snapshot /\ tally.last \in [Key -> Nat]
  BY DEF AllInv, TypeInv, JournalOK, Tally
<1>. SUFFICES ASSUME ~Cut(snap'), NEW n \in Node, snap'.status[n] = "running"
              PROVE  snap'.eff[n] # 0 /\ <<n, snap'.eff[n], tally'.last[<<n, snap'.eff[n]>>]>> \in open'
  BY DEF AtWorkOpen
<1>1. ~Cut(snap)
  BY Step DEF AllInv, StepOK, JournalStep, OnlyCancels
<1>2. CASE ClaimWork
  <2>1. PICK act, a : Claims(act, a)
    BY <1>2, ClaimEffect
  <2>2. CASE n = act.n
    BY <2>1, <2>2 DEF Claims, Begins, Inst
  <2>3. CASE n # act.n
    <3>1. snap'.status[n] = snap.status[n] /\ snap'.eff[n] = snap.eff[n]
      BY <2>1, <2>3 DEF Claims, FrameOf
    <3>2. snap.eff[n] # 0 /\ <<n, snap.eff[n], tally.last[<<n, snap.eff[n]>>]>> \in open
      BY <1>1, <3>1 DEF AtWorkOpen
    <3>3. <<n, snap.eff[n]>> \in Key
      BY <1>s, <3>2 DEF Snapshot, Key, Inst
    <3>. QED BY <2>1, <2>3, <3>1, <3>2, <3>3 DEF Claims
  <2>. QED BY <2>2, <2>3
<1>3. CASE ~ClaimWork
  <2>. DEFINE k == snap.eff[n]
              x == <<n, k, tally.last[<<n, k>>]>>
  <2>1. snap.status[n] = "running" /\ snap'.eff[n] = k /\ tally'.last = tally.last
    BY <1>3, StaysAtWork, LastStays DEF AllInv
  <2>2. k # 0 /\ x \in open
    BY <1>1, <2>1 DEF AtWorkOpen
  <2>3. snap.run \in {"running", "blocked"}
    BY <1>1, <1>s, <2>2 DEF AllInv, WorkerInv, QuiescentInv, TerminalQuiescent, Cut, Snapshot, RunStatus, TrueTerminal
  <2>. HIDE DEF x, k
  <2>4. ASSUME NEW e, Append(e), InOrder(e), e.type \in Closes, <<e.n, e.k, e.a>> = x PROVE FALSE
    <3>1. e.n = n /\ e.k = k /\ e.a = tally.last[<<n, k>>]
      BY <2>4 DEF x
    <3>. QED BY <2>1, <2>2, <2>3, <2>4, <3>1, SettleEnds DEF k
  <2>5. CASE x \notin open'
    <3>1. CASE ArmFailed /\ x = ItemAttempt
      <4>. DEFINE e == Ev("nodeFailed", item.n, item.k, ItemAttempt[3])
      <4>1. Append(e) /\ InOrder(e)
        BY <3>1, StartMove
      <4>2. e.type \in Closes /\ <<e.n, e.k, e.a>> = ItemAttempt
        BY DEF Ev, Closes, ItemAttempt
      <4>. HIDE DEF e
      <4>. QED BY <2>4, <3>1, <4>1, <4>2
    <3>2. CASE (CbVerdict \/ CbDrain \/ CbCancelled) /\ x = CbAttempt
      <4>1. ~UNCHANGED journal
        BY <2>2, <2>5 DEF journal
      <4>2. PICK e : /\ Append(e) /\ InOrder(e) /\ e.type \in SettleTypes
                     /\ e.n = cb.n /\ e.k = cb.k /\ e.a = cb.a
                     /\ e.type # "nodeCancelled" \/ cb.step = "cancelled"
        BY <3>2, <4>1, SettleMove
      <4>3. ~CbCancelled
        BY <2>3, <4>1 DEF CbCancelled
      <4>4. e.type \in Closes
        BY <3>2, <4>2, <4>3 DEF CbVerdict, CbDrain, SettleTypes, Closes
      <4>. QED BY <2>4, <3>2, <4>2, <4>4 DEF CbAttempt
    <3>3. ASSUME NEW m \in Node, snap.status[m] \in {"pending", "gateWaiting"},
                 x = <<m, snap.eff[m], tally.last[<<m, snap.eff[m]>>]>>
          PROVE  FALSE
      BY <2>1, <3>3 DEF x
    <3>. QED BY <2>2, <2>5, <3>1, <3>2, <3>3, LedgerLoses
  <2>. QED BY <2>1, <2>2, <2>5 DEF x
<1>. QED BY <1>2, <1>3

\* Only a start makes an instance.
LEMMA BirthFold ==
  ASSUME NEW s \in Snapshot, NEW e, WellFormed(e), Fits(s, e), Views(s),
         e.type \in (Loud \cup Soft) \ {"gateDispatched"},
         NEW key \in Key, Fold(s, e).inst[key] # "absent"
  PROVE  s.inst[key] # "absent"
<1>. DEFINE t == Fold(s, e)
<1>1. key # <<e.n, e.k>> => t.inst[key] = s.inst[key]
  <2>1. FrameOf(s, t, e.n, e.k)
    BY FrameFold
  <2>. HIDE DEF t
  <2>. QED BY <2>1 DEF FrameOf
<1>2. e.n \in Node /\ t.inst[key] # "absent"
  BY DEF WellFormed, Event
<1>. HIDE DEF t
<1>. SUFFICES ASSUME key = <<e.n, e.k>> PROVE s.inst[key] # "absent"
  BY <1>1, <1>2
<1>k. e.k # 0
  BY DEF Key, Inst
<1>3. CASE e.type \in {"nodeSucceeded", "nodeFailed", "nodeBlocked", "nodeCancelled"}
  BY <1>3, <1>k DEF Fits
<1>4. CASE e.type \in {"nodeRetryRequested", "gateResolved", "nodeInstanceSuperseded"}
  BY <1>2, <1>4, <1>k DEF Fits, Views, Exists
<1>5. CASE e.type = "nodeSkipped"
  BY <1>2, <1>5, SkippedEffect DEF t
<1>6. CASE e.type = "nodeAttemptDrained"
  BY <1>2, <1>6, DrainedEffect DEF t, SameNodes
<1>. QED BY <1>3, <1>4, <1>5, <1>6 DEF Loud, Soft

\* A node whose instances stay as they are keeps its room.
LEMMA SameRoom ==
  ASSUME NEW s, NEW t, NEW n \in Node,
         \A k \in Inst : t.inst[<<n, k>>] # "absent" <=> s.inst[<<n, k>>] # "absent"
  PROVE  NextInstance(t, n) = NextInstance(s, n)
<1>1. {k \in Inst : t.inst[<<n, k>>] # "absent"} = {k \in Inst : s.inst[<<n, k>>] # "absent"}
  OBVIOUS
<1>. QED BY <1>1 DEF NextInstance

\* Every step but a start leaves the room as it is.
LEMMA RoomStays ==
  ASSUME AllInv, [Next]_vars, ~ClaimWork, ~ClaimGate, NEW n \in Node
  PROVE  NextInstance(snap', n) = NextInstance(snap, n)
<1>s. snap \in Snapshot /\ Views(snap)
  BY DEF AllInv, TypeInv, JournalOK, WorkerInv, ViewInv
<1>1. KeepsInstances(snap, snap')
  BY EveryMove, MoveEffect
<1>2. \A key \in Key : snap'.inst[key] # "absent" => snap.inst[key] # "absent"
  <2>1. CASE SameNodes(snap, snap')
    BY <2>1 DEF SameNodes
  <2>2. CASE Appends((Loud \cup Soft) \ {"gateDispatched"})
    BY <1>s, <2>2, BirthFold DEF Appends, Append, InOrder
  <2>3. ASSUME NEW S \in SUBSET Node, SameNodes(StrikeAll(snap, S, tally.last), snap')
        PROVE  \A key \in Key : snap'.inst[key] # "absent" => snap.inst[key] # "absent"
    <3>. DEFINE t == StrikeAll(snap, S, tally.last)
    <3>a. \A key \in Key : \/ t.inst[key] = snap.inst[key]
                           \/ key[1] \in S /\ snap.eff[key[1]] = key[2]
      <4>1. ASSUME NEW key \in Key
            PROVE  t.inst[key] = snap.inst[key] \/ (key[1] \in S /\ snap.eff[key[1]] = key[2])
        BY <1>s DEF StrikeAll, Snapshot
      <4>. QED BY <4>1
    <3>b. SameNodes(t, snap')
      BY <2>3
    <3>. HIDE DEF t
    <3>1. \A key \in Key : \/ snap'.inst[key] = snap.inst[key]
                           \/ key[1] \in S /\ snap.eff[key[1]] = key[2]
      BY <3>a, <3>b DEF SameNodes
    <3>2. \A key \in Key : key[1] \in Node /\ key[2] # 0 /\ key = <<key[1], key[2]>>
      BY DEF Key, Inst
    <3>. QED BY <1>s, <3>1, <3>2 DEF Views, Exists
  <2>. QED BY <2>1, <2>2, <2>3, QuietMove
<1>3. \A k \in Inst : snap'.inst[<<n, k>>] # "absent" <=> snap.inst[<<n, k>>] # "absent"
  BY <1>1, <1>2 DEF KeepsInstances, Key
<1>. QED BY <1>3, SameRoom

\* A node that has just been started has an instance, and the others keep their room.
LEMMA StartRoom ==
  ASSUME RoomLeft, NEW n \in Node, NEW k \in Inst, ~Refreshes, UNCHANGED cb,
         \/ SameNodes(snap, snap')
         \/ FrameOf(snap, snap', n, k) /\ snap'.eff[n] = k
  PROVE  RoomLeft'
<1>. SUFFICES ASSUME NEW m \in Node, snap'.eff[m] = 0 PROVE NextInstance(snap', m) <= MaxInst
  BY DEF RoomLeft, HasRoom, Refreshes
<1>1. snap.eff[m] = 0 /\ \A j \in Inst : snap'.inst[<<m, j>>] = snap.inst[<<m, j>>]
  BY StateAssumption DEF SameNodes, FrameOf, Inst, Key
<1>. QED BY <1>1, SameRoom DEF RoomLeft, HasRoom

\* Every step leaves room: the budget and the bound were looked at before the refresh began.
LEMMA RoomLeftStep == ASSUME AllInv, RoomLeft, [Next]_vars PROVE RoomLeft'
<1>s. snap \in Snapshot /\ cb \in CbType
  BY DEF AllInv, TypeInv, JournalOK, CbOK
<1>1. CASE ClaimWork
  <2>1. PICK act, a : Claims(act, a)
    BY <1>1, ClaimEffect
  <2>2. UNCHANGED cb /\ ~Refreshes
    BY <1>1 DEF ClaimWork, Steps, Refreshes
  <2>. QED BY <2>1, <2>2, StartRoom DEF Claims, Begins
<1>2. CASE ClaimGate
  <2>1. PICK e : Append(e) /\ InOrder(e) /\ e.type = "gateDispatched"
    BY <1>2, StartMove DEF Appends
  <2>2. UNCHANGED cb /\ ~Refreshes
    BY <1>2 DEF ClaimGate, Steps, Refreshes
  <2>3. snap' = Fold(snap, e) /\ WellFormed(e) /\ e.n \in Node /\ e.k \in Inst
    BY <2>1 DEF Append, InOrder, WellFormed, Event, Inst
  <2>4. FrameOf(snap, snap', e.n, e.k)
    BY <1>s, <2>3, FrameFold
  <2>5. SameNodes(snap, snap') \/ snap'.eff[e.n] = e.k
    BY <1>s, <2>1, <2>3, GateEffect DEF Begins
  <2>. QED BY <2>2, <2>3, <2>4, <2>5, StartRoom
<1>3. CASE ~ClaimWork /\ ~ClaimGate
  <2>1. \A n \in Node : NextInstance(snap', n) = NextInstance(snap, n)
    BY <1>3, RoomStays
  <2>2. \A n \in Node : snap'.eff[n] = 0 => HasRoom(n)
    <3>1. CASE ~CbRefresh
      <4>1. snap'.eff = snap.eff
        BY <1>3, <3>1, LiveStays DEF AllInv
      <4>. QED BY <4>1 DEF RoomLeft
    <3>2. CASE CbRefresh
      <4>. DEFINE m == First(cb.refresh)
                  e == EvM("nodeInstanceSuperseded", m, snap.eff[m], 0, cb.m, "none")
      <4>1. cb.step = "refresh" /\ snap' = Fold(snap, e) /\ cb.refresh # {} /\ cb.refresh \subseteq Node
        BY <1>s, <3>2 DEF CbRefresh, Append, AllInv, TypeInv, CbOK, CbType
      <4>2. m \in cb.refresh /\ m \in Node
        BY <4>1, FirstOf
      <4>3. WellFormed(e) /\ e.n = m
        <5>1. snap.eff[m] \in 0 .. MaxInst /\ cb.m \in Node
          BY <1>s, <4>2 DEF Snapshot, CbType
        <5>2. "nodeInstanceSuperseded" \in EventType /\ "none" \in Detail /\ 0 \in Nat
          BY DEF EventType, Detail, BlockCode
        <5>3. e \in Event /\ e.type = "nodeInstanceSuperseded" /\ e.n = m
          BY <4>2, <5>1, <5>2, EvType DEF EvM
        <5>. HIDE DEF e, m
        <5>. QED BY <5>3 DEF WellFormed, Opens
      <4>. HIDE DEF e, m
      <4>4. \A n \in Node : n # m => snap'.eff[n] = snap.eff[n]
        BY <1>s, <4>1, <4>3, FrameFold DEF FrameOf
      <4>. QED BY <4>1, <4>2, <4>4 DEF RoomLeft, Refreshes
    <3>. QED BY <3>1, <3>2
  <2>3. Refreshes' => cb'.refresh \subseteq Node /\ \A n \in cb'.refresh : HasRoom(n)
    <3>. SUFFICES ASSUME Refreshes' PROVE cb'.refresh \subseteq Node /\ \A n \in cb'.refresh : HasRoom(n)
      OBVIOUS
    <3>1. CASE CbRevisit \/ CbRefresh
      <4>1. Refreshes /\ \E rest \in SUBSET cb.refresh : Refreshing(rest)
        BY <3>1 DEF CbRevisit, CbRefresh, Refreshes
      <4>2. cb'.refresh \subseteq cb.refresh
        BY <1>s, <4>1 DEF Refreshing, CbType
      <4>. QED BY <1>s, <4>1, <4>2 DEF RoomLeft, CbType
    <3>2. CASE Judge
      <4>1. cb'.step = "revisit" /\ \A o \in cb'.refresh : o \in Node /\ HasRoom(o)
        BY <3>2, JudgeEffect DEF AllInv, Refreshes, Affected, HasRoom
      <4>. QED BY <4>1
    <3>3. CASE Crash
      BY <3>3 DEF Crash, NoCb, Refreshes
    <3>4. CASE UNCHANGED cb
      BY <1>s, <3>4 DEF RoomLeft, Refreshes, CbType
    <3>. QED BY <3>1, <3>2, <3>3, <3>4, RefreshStays
  <2>. QED BY <2>1, <2>2, <2>3 DEF RoomLeft, HasRoom
<1>. QED BY <1>1, <1>2, <1>3

\* The inputs of a node have lower ranks, so they are finitely many.
LEMMA InputsFinite == ASSUME NEW n \in Node PROVE IsFiniteSet(Upstream(n))
<1>. DEFINE f == [m \in Upstream(n) |-> Rank[m]]
<1>1. f \in Injection(Upstream(n), 0 .. Rank[n])
  BY DagAssumption DEF Upstream, Injection, IsInjective
<1>2. IsFiniteSet(0 .. Rank[n])
  BY FS_Interval, DagAssumption
<1>. HIDE DEF f
<1>. QED BY <1>1, <1>2, FS_Injection

\* A node whose inputs are all settled, or have failed without anybody needing them, is decided.
LEMMA NothingToWaitFor ==
  ASSUME NEW s \in Snapshot, NEW n \in Node, ~Settled(s, n), \A m \in Upstream(n) : IsAcceptableTerminal(s, m)
  PROVE  Readiness(s, n) # "wait"
<1>. DEFINE A == With(s, n, {"active"})
<1>1. /\ Cardinality(Upstream(n)) \in Nat
      /\ \A T \in SUBSET Upstream(n) : IsFiniteSet(T) /\ Cardinality(T) \in Nat
      /\ \A T \in SUBSET Upstream(n) : Cardinality(T) <= Cardinality(Upstream(n))
  BY InputsFinite, FS_Subset, FS_CardinalityType
<1>2. A \in SUBSET Upstream(n) /\ Cardinality(A) \in Nat /\ Active(s, n) = Cardinality(A) /\ Required(n) \in Nat
  BY <1>1, DagAssumption DEF With, Required, Active
<1>3. ASSUME NEW m \in With(s, n, {"unsettled"})
      PROVE  n \notin AllSuccess /\ Active(s, n) >= Required(n)
  <2>1. m \in Node /\ m \in Upstream(n) /\ n \in Downstream(m) /\ Activity(s, m, n) = "unsettled"
    BY <1>3 DEF With, Upstream, Downstream
  <2>2. m \notin A
    BY <2>1 DEF With
  <2>3. s.status[m] \notin {"skipped", "cancelled", "done"}
    BY <2>1 DEF Activity, Snapshot, Upstream, Key, Inst
  <2>4. ~IsFailureRelevant(s, m)
    BY <2>1, <2>3 DEF IsAcceptableTerminal
  <2>5. Cardinality(A \ {m}) >= Required(n)
    BY <2>1, <2>4 DEF IsFailureRelevant, IsSatisfiedWithoutSource
  <2>6. A \ {m} = A
    BY <2>2
  <2>7. ASSUME n \in AllSuccess PROVE FALSE
    <3>1. IsFiniteSet(Upstream(n) \ {m}) /\ Cardinality(Upstream(n) \ {m}) = Cardinality(Upstream(n)) - 1
      BY <2>1, InputsFinite, FS_RemoveElement
    <3>2. Cardinality(A) <= Cardinality(Upstream(n) \ {m})
      <4>. HIDE DEF A
      <4>1. A \subseteq Upstream(n) \ {m}
        BY <1>2, <2>2
      <4>. QED BY <3>1, <4>1, FS_Subset
    <3>3. Required(n) = Cardinality(Upstream(n))
      BY <2>7 DEF Required
    <3>. HIDE DEF A
    <3>. QED BY <1>1, <1>2, <2>5, <2>6, <3>1, <3>2, <3>3
  <2>. HIDE DEF A
  <2>. QED BY <1>2, <2>5, <2>6, <2>7
<1>4. ASSUME With(s, n, {"unsettled"}) = {}, With(s, n, {"unresolved"}) = {}
      PROVE  Possible(s, n) = Active(s, n)
  <2>1. With(s, n, {"active"} \cup Maybe) = A
    BY <1>4 DEF With, Maybe
  <2>. QED BY <2>1 DEF Possible, Active
<1>. HIDE DEF A
<1>. QED BY <1>2, <1>3, <1>4 DEF Readiness, NeedsVerdict

\* A driver that decides on nothing but a dispatch has something in flight, a human to wait for or
\* a node to start: the first open node in topological order waits for nobody else.
LEMMA DecideMoves ==
  ASSUME AllInv, LosersInv, Worked, AtWorkOpen, RoomLeft, snap.run = "running", Orphaned = {},
         TerminalEvent(snap) = {}, Controls(snap) = {}
  PROVE  \/ InFlight # {} \/ Waiting # {}
         \/ \E act \in Plan(snap) : act.kind \in {"gate", "work"} /\ snap.status[act.n] = "pending"
<1>s. snap \in Snapshot
  BY DEF AllInv, TypeInv, JournalOK
<1>. DEFINE n == First(Open(snap))
<1>1. FailedRelevant(snap) = {} /\ BlockedRelevant(snap) = {} /\ Open(snap) # {} /\ Open(snap) \subseteq Node
  BY DEF TerminalEvent, Open
<1>2. n \in Open(snap) /\ n \in Node /\ \A m \in Open(snap) : Rank[n] <= Rank[m]
  BY <1>1, FirstOf
<1>. HIDE DEF n
<1>3. snap.status[n] \in {"pending", "gateWaiting", "running"}
  BY <1>s, <1>1, <1>2 DEF Open, IsAcceptableTerminal, FailedRelevant, BlockedRelevant, Snapshot, NodeStatus
<1>4. CASE snap.status[n] = "running"
  <2>. DEFINE key == <<n, snap.eff[n]>>
  <2>1. snap.eff[n] # 0 /\ <<n, snap.eff[n], tally.last[key]>> \in open
    BY <1>2, <1>4 DEF AtWorkOpen, Cut
  <2>2. key \in Key
    BY <1>s, <1>2, <2>1 DEF Snapshot, Key, Inst
  <2>3. snap.inst[key] = "running"
    BY <1>2, <1>4, <2>1 DEF LosersInv, Mirrored, Shown
  <2>4. tally.last[key] # 0
    BY <2>2, <2>3 DEF Worked
  <2>5. flight[key].att = tally.last[key]
    BY <2>1 DEF Orphaned
  <2>. QED BY <2>2, <2>4, <2>5 DEF InFlight
<1>5. CASE snap.status[n] = "gateWaiting"
  BY <1>2, <1>5 DEF Waiting
<1>6. CASE snap.status[n] = "pending"
  <2>1. ~Settled(snap, n)
    BY <1>6 DEF Settled
  <2>2. \A m \in Upstream(n) : IsAcceptableTerminal(snap, m)
    <3>. SUFFICES ASSUME NEW m \in Upstream(n), ~IsAcceptableTerminal(snap, m) PROVE FALSE
      OBVIOUS
    <3>1. m \in Open(snap) /\ <<m, n>> \in Dep /\ m \in Node
      BY DEF Open, Upstream
    <3>2. Rank[m] < Rank[n] /\ Rank[m] \in Nat /\ Rank[n] \in Nat
      BY <1>2, <3>1, DagAssumption
    <3>. QED BY <1>2, <3>1, <3>2
  <2>3. Readiness(snap, n) \in {"ready", "resolveEdge", "skip"}
    BY <1>s, <1>2, <2>1, <2>2, NothingToWaitFor DEF Readiness
  <2>4. n \in Idle(snap, Readiness(snap, n))
    BY <1>2, <1>6 DEF Idle
  <2>5. Readiness(snap, n) # "resolveEdge" /\ Readiness(snap, n) # "skip"
    BY <2>4 DEF Controls, EdgeActions, SkipActions
  <2>6. InstanceFor(snap, n) <= MaxInst
    BY <1>s, <1>2 DEF InstanceFor, RoomLeft, HasRoom, Snapshot
  <2>7. n \in Startable(snap)
    BY <2>3, <2>4, <2>5, <2>6 DEF Startable
  <2>. DEFINE act == Act(IF WantsGate(snap, n) THEN "gate" ELSE "work", n, n, InstanceFor(snap, n))
  <2>8. act \in Plan(snap) /\ act.kind \in {"gate", "work"} /\ act.n = n
    BY <2>7 DEF Plan, StartActions, Act
  <2>. QED BY <1>6, <2>8
<1>. QED BY <1>3, <1>4, <1>5, <1>6

\* Who else moves while the driver carries out a dispatch leaves it as it is.
LEMMA InsideDispatch ==
  ASSUME AllInv, [Next]_vars, ~Foreign, pc' \in {"dispatch", "arm", "losers"}
  PROVE  \/ Decide \/ ClaimWork \/ ClaimGate \/ PassOver \/ Dispatched \/ Arm \/ ArmFailed \/ CancelLoser
         \/ UNCHANGED <<local, snap>>
<1>1. CASE UNCHANGED vars
  BY <1>1 DEF vars, local, journal
<1>2. CASE WorkerExit \/ ForeignCancel
  BY <1>2 DEF WorkerExit, ForeignCancel, journal, local
<1>3. CASE Drive \/ Tick
  BY <1>3 DEF Drive, Tick, SignalToJournal, Cancelling, Finalize, Boundary, DropObsolete, DropOrphaned,
     Publish, Quiesced, DrainClosed, ProvesClosed, DrainPassed, Wake, ResolveEdge, SkipNode, Controlled,
     EndTick, NoticeCancel, Goto, Quiesce, Return, GiveUp
<1>4. CASE Callback
  <2>1. cb.step # "none"
    BY <1>4 DEF Callback, CbVerdict, CbDrain, CbCancelled, CbRevisit, CbRefresh, CbRetry
  <2>2. pc \notin {"dispatch", "arm", "losers"}
    BY <2>1 DEF AllInv, GateInv, CbWhere, Awaits
  <2>3. pc' \in {pc, "top"}
    BY <1>4 DEF Callback, CbVerdict, CbDrain, CbCancelled, CbRevisit, CbRefresh, CbRetry, Finally
  <2>. QED BY <2>2, <2>3
<1>5. CASE Promises \/ Human \/ Cancel \/ BareAbort
  BY <1>5 DEF Promises, Settle, Judge, Human, GateClick, Click, Retry, GrantRevisit, Cancel, CancelAnd,
     BareAbort, Quiet, Awaits, local
<1>6. CASE Crash
  BY <1>6 DEF Crash
<1>. QED BY <1>1, <1>2, <1>3, <1>4, <1>5, <1>6 DEF Next, Environment

\* A node that is passed over was no longer pending, or its pool is full of promises.
LEMMA PassOverMoves ==
  ASSUME TypeInv, PassOver, \A p \in Pools : p.cap # 0, snap.run = "running",
         Lively \/ \E act \in Starts : snap.status[act.n] = "pending"
  PROVE  Lively' \/ (\E act \in Starts : snap.status[act.n] = "pending")'
<1>1. UNCHANGED <<snap, flight, progress>>
  BY DEF PassOver, journal
<1>2. CASE Lively
  BY <1>1, <1>2 DEF Lively, InFlight, Waiting
<1>3. CASE InFlight = {} /\ \E act \in Starts : snap.status[act.n] = "pending"
  <2>1. PICK b \in Starts : snap.status[b.n] = "pending"
    BY <1>3
  <2>2. PICK c \in plan : /\ ~Claimable(c.n) \/ (c.kind = "work" /\ ~PoolFree(c.n))
                          /\ plan' = plan \ {c}
    BY DEF PassOver
  <2>3. PoolFree(b.n)
    <3>. SUFFICES ASSUME NEW p \in Pools PROVE Cardinality({key \in InFlight : key[1] \in p.nodes}) < p.cap
      BY DEF PoolFree
    <3>. DEFINE T == {key \in InFlight : key[1] \in p.nodes}
    <3>1. T = {}
      BY <1>3
    <3>2. p.cap \in Nat /\ p.cap # 0
      BY RunAssumption
    <3>. HIDE DEF T
    <3>3. Cardinality(T) < p.cap
      BY <3>1, <3>2, FS_EmptySet
    <3>. QED BY <3>3 DEF T
  <2>4. b # c
    BY <2>1, <2>2, <2>3 DEF Claimable
  <2>5. b \in Starts'
    BY <2>2, <2>4 DEF Starts
  <2>. QED BY <1>1, <2>1, <2>5
<1>. QED BY <1>2, <1>3 DEF Lively

\* Every step keeps the driver going.
LEMMA MovesOnStep ==
  ASSUME AllInv, LosersInv, Worked, OnwardInv, [Next]_vars,
         ~Foreign, GlobalCap # 0, \A p \in Pools : p.cap # 0
  PROVE  MovesOn'
<1>s. snap \in Snapshot /\ progress \in [started : BOOLEAN, lost : BOOLEAN]
  BY DEF AllInv, TypeInv, JournalOK, DriverOK
<1>o. MovesOn /\ AtWorkOpen /\ RoomLeft
  BY DEF OnwardInv
<1>1. pc' # "stuck"
  <2>. SUFFICES ASSUME pc' = "stuck" PROVE FALSE
    OBVIOUS
  <2>1. ~Return /\ ~Crash /\ pc # "stuck"
    BY <1>o DEF Return, Crash, MovesOn
  <2>2. EndTick /\ InFlight = {}
    BY <2>1, Leaving
  <2>3. progress.lost \/ progress.started \/ Waiting # {}
    BY <1>o, <2>2 DEF EndTick, MovesOn, Lively
  <2>. QED BY <2>1, <2>2, <2>3 DEF EndTick, Goto, Quiesce
<1>a. ASSUME Started PROVE Lively'
  BY <1>s, <1>a DEF Started, Lively
<1>b. ASSUME UNCHANGED <<snap, flight, progress>> PROVE Lively <=> Lively'
  BY <1>b DEF Lively, InFlight, Waiting
<1>c. ASSUME NEW e, Append(e), e.type \in Loud, snap.run = "running" PROVE snap'.run = "running"
  BY <1>s, <1>c, NodeRun DEF Append
<1>d. MovesOn' <=> /\ pc' \in {"dispatch", "arm"} => snap'.run = "running"
                   /\ pc' = "dispatch" => Lively' \/ (\E act \in Starts : snap.status[act.n] = "pending")'
                   /\ pc' = "losers" => Lively' \/ progress'.lost
  BY <1>1 DEF MovesOn
<1>2. CASE Decide /\ pc' \in {"dispatch", "arm", "losers"}
  <2>1. /\ TerminalEvent(snap) = {} /\ Controls(snap) = {} /\ plan' = Plan(snap) /\ pc' = "dispatch"
        /\ snap.run = "running" /\ Orphaned = {} /\ UNCHANGED <<snap, flight>>
    BY <1>2 DEF Decide, Running, Quiesce, Goto, journal
  <2>2. \/ InFlight # {} \/ Waiting # {}
        \/ \E act \in Plan(snap) : act.kind \in {"gate", "work"} /\ snap.status[act.n] = "pending"
    BY <1>o, <2>1, DecideMoves
  <2>3. CASE InFlight # {} \/ Waiting # {}
    BY <1>d, <2>1, <2>3 DEF Lively, InFlight, Waiting
  <2>4. CASE \E act \in Plan(snap) : act.kind \in {"gate", "work"} /\ snap.status[act.n] = "pending"
    <3>1. PICK act \in Plan(snap) : act.kind \in {"gate", "work"} /\ snap.status[act.n] = "pending"
      BY <2>4
    <3>2. act \in Starts'
      BY <2>1, <3>1 DEF Starts
    <3>. QED BY <1>d, <2>1, <3>1, <3>2
  <2>. QED BY <2>2, <2>3, <2>4
<1>3. CASE ClaimWork
  BY <1>3, <1>d, ClaimEffect DEF ClaimWork, Claims
<1>4. CASE ClaimGate
  <2>1. pc = "dispatch" /\ pc' = "dispatch" /\ Started
    BY <1>4 DEF ClaimGate, Started
  <2>2. \E e : Append(e) /\ e.type \in Loud
    BY <1>4, StartMove DEF Appends, Loud
  <2>. QED BY <1>a, <1>c, <1>d, <1>o, <2>1, <2>2 DEF MovesOn
<1>5. CASE ArmFailed
  <2>1. pc = "arm" /\ pc' = "dispatch" /\ Started
    BY <1>5 DEF ArmFailed
  <2>2. \E e : Append(e) /\ e.type \in Loud
    BY <1>5, StartMove DEF Ev, Loud
  <2>. QED BY <1>a, <1>c, <1>d, <1>o, <2>1, <2>2 DEF MovesOn
<1>6. CASE Arm
  <2>1. pc = "arm" /\ pc' = "dispatch" /\ Started
    BY <1>6 DEF Arm, ArmIf
  <2>. QED BY <1>6, <1>a, <1>d, <1>o, <2>1, ArmEffect DEF MovesOn
<1>7. CASE PassOver
  <2>1. pc = "dispatch" /\ pc' = "dispatch" /\ UNCHANGED snap
    BY <1>7 DEF PassOver, journal
  <2>. QED BY <1>7, <1>d, <1>o, <2>1, PassOverMoves DEF MovesOn, AllInv
<1>8. CASE Dispatched
  <2>1. pc = "dispatch" /\ pc' = "losers" /\ UNCHANGED <<snap, flight, progress>>
        /\ (Starts = {} \/ Busy >= GlobalCap)
    BY <1>8 DEF Dispatched, Goto, journal
  <2>2. CASE Starts = {}
    BY <1>b, <1>d, <1>o, <2>1, <2>2 DEF MovesOn
  <2>3. CASE Busy >= GlobalCap
    <3>1. InFlight # {}
      <4>1. Cardinality({}) = 0 /\ GlobalCap \in Nat /\ GlobalCap # 0
        BY RunAssumption, FS_EmptySet
      <4>. QED BY <2>3, <4>1 DEF Busy
    <3>. QED BY <1>b, <1>d, <2>1, <3>1 DEF Lively
  <2>. QED BY <2>1, <2>2, <2>3
<1>9. CASE CancelLoser
  <2>1. pc = "losers" /\ pc' = "losers"
    BY <1>9 DEF CancelLoser
  <2>2. progress' = [progress EXCEPT !.lost = TRUE] \/ UNCHANGED <<snap, flight, progress>>
    BY <1>9 DEF CancelLoser, journal
  <2>3. CASE progress' = [progress EXCEPT !.lost = TRUE]
    BY <1>s, <1>d, <2>1, <2>3
  <2>4. CASE UNCHANGED <<snap, flight, progress>>
    BY <1>b, <1>d, <1>o, <2>1, <2>4 DEF MovesOn
  <2>. QED BY <2>2, <2>3, <2>4
<1>10. CASE UNCHANGED <<local, snap>>
  <2>1. UNCHANGED <<snap, flight, progress, pc, plan>>
    BY <1>10 DEF local
  <2>. QED BY <1>b, <1>d, <1>o, <2>1 DEF MovesOn, Starts
<1>11. CASE pc' \notin {"dispatch", "arm", "losers"}
  BY <1>11, <1>d
<1>. QED BY <1>2, <1>3, <1>4, <1>5, <1>6, <1>7, <1>8, <1>9, <1>10, <1>11, InsideDispatch

\* Whenever the driver decides there is something in flight, a human to wait for or a node to start.
THEOREM OnwardInvariant ==
  ASSUME Foreign = FALSE, GlobalCap # 0, \A p \in Pools : p.cap # 0
  PROVE  Spec => []OnwardInv
<1>1. Init => OnwardInv
  <2>. SUFFICES ASSUME Init PROVE OnwardInv
    OBVIOUS
  <2>1. AtWorkOpen /\ MovesOn
    BY DEF Init, AtWorkOpen, MovesOn, EmptySnapshot
  <2>2. RoomLeft
    <3>1. ~Refreshes
      BY DEF Init, Refreshes, NoCb
    <3>2. ASSUME NEW n \in Node PROVE HasRoom(n)
      <4>. DEFINE T == {k \in Inst : snap.inst[<<n, k>>] # "absent"}
      <4>1. T = {}
        BY DEF Init, EmptySnapshot, Key
      <4>2. NextInstance(snap, n) = 1 + Cardinality(T)
        BY DEF NextInstance
      <4>. HIDE DEF T
      <4>. QED BY <4>1, <4>2, FS_EmptySet, StateAssumption DEF HasRoom
    <3>. QED BY <3>1, <3>2 DEF RoomLeft
  <2>. QED BY <2>1, <2>2 DEF OnwardInv
<1>2. ASSUME TypeInv, NumbersInv, GateInv, WorkerInv, RestInv, LosersInv /\ RetriesApart, OnwardInv, [Next]_vars
      PROVE  OnwardInv'
  <2>1. AllInv /\ Worked /\ AtWorkOpen /\ RoomLeft
    BY <1>2 DEF AllInv, RestInv, OnwardInv
  <2>2. AtWorkOpen' /\ RoomLeft'
    BY <1>2, <2>1, AtWorkOpenStep, RoomLeftStep
  <2>3. MovesOn'
    BY <1>2, <2>1, MovesOnStep
  <2>. QED BY <2>2, <2>3 DEF OnwardInv
<1>. QED
  BY <1>1, <1>2, TypeInvariant, NumbersInvariant, GateInvariant, WorkerInvariant, RestInvariant, LosersInvariant,
     PTL DEF Spec

\* "a correct decideNext never gets here": the driver never finds itself with nothing running, nothing
\* to start and no human to wait for, whatever the DAG, the retries, the revisits and the deaths of the
\* driver.  The command line and the defaults give every cap at least one slot; a cancel request
\* appended by another process in the middle of a tick can make a correct driver give up, so the
\* theorem is about runs only the owning process cancels.
THEOREM DriverIsNeverStuck ==
  ASSUME Foreign = FALSE, GlobalCap # 0, \A p \in Pools : p.cap # 0
  PROVE  Spec => []NeverStuck
<1>1. OnwardInv => NeverStuck
  BY DEF OnwardInv, MovesOn, NeverStuck
<1>. QED BY <1>1, OnwardInvariant, PTL

----------------------------------------------------------------------------
(* Skips are justified.                                                    *)

\* Decided for good, as long as no revisit refreshes the node.
Over == {"done", "skipped", "cancelled"}

VerdictTypes == {"nodeSucceeded", "nodeFailed", "nodeBlocked"}

\* The events that could reopen or overwrite what is decided.
Reopens == VerdictTypes \cup {"nodeRetryRequested", "nodeInstanceSuperseded", "gateResolved"}

\* Until its verdict is appended a live attempt shows on its node, or was struck.
VerdictStands == cb.step = "verdict" /\ cb.k = snap.eff[cb.n] => snap.status[cb.n] \in Engaged

\* A skipped node has no instance at work.
SkippedIdle ==
  \A n \in Node : snap.status[n] = "skipped" /\ snap.eff[n] # 0 => snap.inst[<<n, snap.eff[n]>>] # "running"

\* What was skipped, and what the driver is about to skip, is out of reach.
SkipsStand ==
  /\ \A n \in Node : snap.status[n] = "skipped" => IsImpossibleNow(snap, n)
  /\ pc = "control" => \A act \in plan : act.kind = "skip" => IsImpossibleNow(snap, act.n)

SkipInv == VerdictStands /\ SkippedIdle /\ SkipsStand

\* An event leaves what is decided alone, unless it takes effect on a live instance.
LEMMA OverFold ==
  ASSUME NEW s \in Snapshot, NEW e, WellFormed(e), Fits(s, e), e.type \in Loud \cup Soft,
         NEW n \in Node, s.status[n] \in Over,
         e.n = n /\ e.type \in Reopens => Fold(s, e) = s \/ (e.type \in VerdictTypes /\ e.k # s.eff[n])
  PROVE  Fold(s, e).status[n] = s.status[n] /\ Fold(s, e).eff[n] = s.eff[n]
<1>. DEFINE t == Fold(s, e)
<1>a. n # e.n => t.status[n] = s.status[n] /\ t.eff[n] = s.eff[n]
  BY FrameFold DEF FrameOf
<1>. SUFFICES ASSUME n = e.n, t # s PROVE t.status[n] = s.status[n] /\ t.eff[n] = s.eff[n]
  BY <1>a
<1>1. CASE e.type \in VerdictTypes
  <2>1. e.k # s.eff[n] /\ e.k # 0
    BY <1>1 DEF Reopens, Fits, VerdictTypes
  <2>2. SameNodes(s, t) \/ \E st \in {"done", "failed", "blocked"} : Shows(s, t, e.n, e.k, st)
    BY <1>1, <2>1, SettleEffect DEF VerdictTypes
  <2>. HIDE DEF t
  <2>. QED BY <2>1, <2>2 DEF SameNodes, Shows
<1>2. CASE e.type \in {"nodeCancelled", "nodeSkipped"}
  <2>1. Settled(s, e.n)
    BY DEF Settled, Over
  <2>. QED BY <1>2, <2>1 DEF Fold, Applied, RunEvent, OnNodeEvent, OnCancelled, OnSkipped
<1>3. CASE e.type = "nodeAttemptDrained"
  <2>1. t = OnDrained(s, e) /\ s.status[e.n] # "running"
    BY <1>3 DEF Fold, Applied, RunEvent, OnNodeEvent, Over
  <2>. QED BY <2>1 DEF OnDrained, Snapshot
<1>4. CASE e.type = "gateDispatched"
  BY <1>4 DEF Fits, Over
<1>5. CASE e.type \in {"nodeRetryRequested", "nodeInstanceSuperseded", "gateResolved"}
  BY <1>5 DEF Reopens, VerdictTypes
<1>. QED BY <1>1, <1>2, <1>3, <1>4, <1>5 DEF Loud, Soft, VerdictTypes

\* Without a refresh, what is decided stays decided, in the same instance: a late verdict, drain,
\* retry, click or cancellation does not reach it.
LEMMA OverStays ==
  ASSUME AllInv, LosersInv, VerdictStands, SkippedIdle, [Next]_vars, ~CbRefresh,
         NEW n \in Node, snap.status[n] \in Over
  PROVE  snap'.status[n] = snap.status[n] /\ snap'.eff[n] = snap.eff[n]
<1>. DEFINE Goal == snap'.status[n] = snap.status[n] /\ snap'.eff[n] = snap.eff[n]
<1>. USE DEF Outside, journal
<1>s. snap \in Snapshot /\ tally.last \in [Key -> Nat]
  BY DEF AllInv, TypeInv, JournalOK, Tally
<1>a. SameNodes(snap, snap') => Goal
  BY DEF SameNodes
<1>b. UNCHANGED snap => Goal
  OBVIOUS
<1>c. ASSUME NEW e, Append(e), InOrder(e), e.type \in Loud \cup Soft,
             e.n = n /\ e.type \in Reopens => snap' = snap \/ (e.type \in VerdictTypes /\ e.k # snap.eff[n])
      PROVE  Goal
  BY <1>s, <1>c, OverFold DEF Append, InOrder
<1>d. ASSUME NEW e, Append(e), InOrder(e), e.type \in Loud \cup Soft, snap.status[e.n] \notin Over PROVE Goal
  BY <1>c, <1>d
<1>e. ASSUME NEW types, Appends(types), types \subseteq Loud \cup Soft, types \cap Reopens = {} PROVE Goal
  BY <1>c, <1>e DEF Appends
<1>f. ASSUME NEW S \in SUBSET Node, SameNodes(StrikeAll(snap, S, tally.last), snap'), n \notin S PROVE Goal
  BY <1>s, <1>f, StrikeEffect DEF SameNodes
<1>. SUFFICES Goal
  OBVIOUS
<1>. HIDE DEF Goal
<1>1. CASE ClaimWork
  <2>1. PICK act, a : Claims(act, a)
    BY <1>1, ClaimEffect
  <2>. QED BY <2>1 DEF Claims, FrameOf, Over, Goal
<1>2. CASE ClaimGate
  BY <1>2, <1>e, StartMove DEF Loud, Reopens, VerdictTypes
<1>3. CASE ArmFailed
  <2>. DEFINE e == Ev("nodeFailed", item.n, item.k, ItemAttempt[3])
  <2>1. Append(e) /\ InOrder(e) /\ e.type = "nodeFailed" /\ e.n = item.n
    BY <1>3, StartMove DEF Ev
  <2>2. snap.status[item.n] \notin Over
    BY <1>3 DEF ArmFailed, AllInv, WorkerInv, EngagedInv, Over
  <2>. HIDE DEF e
  <2>. QED BY <1>d, <2>1, <2>2 DEF Loud
<1>4. CASE Cancelling
  <2>. DEFINE S == {m \in Node : snap.status[m] \in {"pending", "gateWaiting"}}
  <2>1. S \in SUBSET Node /\ n \notin S /\ SameNodes(StrikeAll(snap, S, tally.last), snap')
    BY <1>4 DEF Cancelling, StrikeNodes, SameNodes, Over
  <2>. HIDE DEF S
  <2>. QED BY <1>f, <2>1
<1>5. CASE Finalize
  <2>. DEFINE S == {m \in Node : snap.status[m] \in {"pending", "gateWaiting", "running"}}
              t == StrikeAll(snap, S, tally.last)
              e == Ev("runCancelled", AnyNode, 0, 0)
  <2>1. S \in SUBSET Node /\ n \notin S /\ (snap' = snap \/ snap' = Fold(t, e)) /\ e.type \in Silent
    BY <1>5 DEF Finalize, Over, Ev, Silent, RunEvent
  <2>. HIDE DEF S, e
  <2>2. t \in Snapshot
    BY <1>s, <2>1, StrikeAllType
  <2>. HIDE DEF t
  <2>3. SameNodes(t, Fold(t, e))
    BY <2>1, <2>2, SilentFold
  <2>. QED BY <1>b, <1>f, <2>1, <2>3 DEF t
<1>6. CASE CbVerdict
  <2>. DEFINE e == CbEvent(cb.type)
  <2>1. /\ Append(e) /\ InOrder(e) /\ e.type \in VerdictTypes /\ e.n = cb.n /\ e.k = cb.k /\ e.a = cb.a
        /\ cb.step = "verdict" /\ CbKey \in Key /\ cb.k # 0
    BY <1>6, CbFits DEF CbVerdict, CbBusy, CbEvent, EvM, VerdictTypes, AllInv, TypeInv, CbOK, CbType, CbKey, Key, Inst
  <2>. HIDE DEF e
  <2>2. cb.n = n /\ cb.k = snap.eff[n] => snap' = snap
    <3>. SUFFICES ASSUME cb.n = n, cb.k = snap.eff[n] PROVE snap' = snap
      OBVIOUS
    <3>1. snap.status[n] = "cancelled"
      BY <2>1 DEF VerdictStands, Over, Engaged
    <3>2. snap.inst[CbKey] = "cancelled" /\ CbKey[1] = e.n /\ CbKey[2] = e.k
      BY <2>1, <3>1 DEF LosersInv, Mirrored, Shown, CbKey
    <3>3. e.a = tally.last[CbKey]
      BY <2>1 DEF AllInv, WorkerInv, FlightInv, CbInFlight, FlightIsLatest, CbBusy
    <3>4. Cut(snap) \/ CancelledCovers(snap, e.n, e.k, e.a)
      BY <2>1, <3>2, <3>3 DEF LosersInv, LosersStruck
    <3>. QED BY <2>1, <3>4 DEF Append, Fold, Applied, RunEvent, OnNodeEvent, OnSettle, PastCut, VerdictTypes
  <2>. QED BY <1>c, <2>1, <2>2 DEF Loud, VerdictTypes
<1>7. CASE CbDrain
  <2>1. CASE UNCHANGED journal
    BY <1>b, <2>1
  <2>2. CASE ~UNCHANGED journal /\ OrphanExhausted
    <3>. DEFINE e == EvX("nodeBlocked", cb.n, cb.k, cb.a, "orphan")
    <3>1. Append(e) /\ InOrder(e) /\ e.type = "nodeBlocked" /\ e.n = cb.n /\ e.k = cb.k
      BY <1>7, <2>2, CbFits DEF CbDrain, CbBusy, EvX
    <3>2. cb.k = snap.eff[cb.n] => snap.status[cb.n] \notin Over
      <4>. SUFFICES ASSUME cb.k = snap.eff[cb.n] PROVE snap.status[cb.n] \notin Over
        OBVIOUS
      <4>1. snap.inst[<<cb.n, snap.eff[cb.n]>>] = "running" /\ cb.n \in Node /\ snap.eff[cb.n] # 0
        BY <1>7, <2>2 DEF OrphanExhausted, CbDrain, AllInv, TypeInv, CbOK, CbType
      <4>. QED BY <4>1 DEF LosersInv, Mirrored, Shown, SkippedIdle, Over
    <3>. HIDE DEF e
    <3>. QED BY <1>c, <3>1, <3>2 DEF Loud, VerdictTypes
  <2>3. CASE ~UNCHANGED journal /\ ~OrphanExhausted
    <3>1. Append(CbEvent("nodeAttemptDrained")) /\ InOrder(CbEvent("nodeAttemptDrained"))
      BY <1>7, <2>3, CbFits DEF CbDrain, CbBusy
    <3>2. CbEvent("nodeAttemptDrained").type = "nodeAttemptDrained"
      BY DEF CbEvent, EvM
    <3>. QED BY <1>c, <3>1, <3>2 DEF Loud, Reopens, VerdictTypes
  <2>. QED BY <2>1, <2>2, <2>3
<1>8. CASE CbCancelled
  <2>1. CASE UNCHANGED journal
    BY <1>b, <2>1
  <2>2. CASE ~UNCHANGED journal
    <3>. DEFINE e == EvX("nodeCancelled", cb.n, cb.k, cb.a, "runCancellation")
    <3>1. Append(e) /\ InOrder(e) /\ e.type = "nodeCancelled"
      BY <1>8, <2>2, CbFits DEF CbCancelled, CbBusy, CbKey, EvX
    <3>. HIDE DEF e
    <3>. QED BY <1>c, <3>1 DEF Soft, Reopens, VerdictTypes
  <2>. QED BY <2>1, <2>2
<1>9. CASE (Drive \/ Tick) /\ ~ClaimWork /\ ~ClaimGate /\ ~ArmFailed /\ ~Cancelling /\ ~Finalize
  <2>1. CASE SkipNode \/ CancelLoser
    <3>1. Still \/ Appends({"nodeSkipped", "nodeCancelled"})
      BY <1>9, <2>1, TickMove DEF SkipNode, CancelLoser, Arm, ArmIf, Publish
    <3>. QED BY <1>a, <1>e, <3>1 DEF Still, Soft, Reopens, VerdictTypes
  <2>2. CASE ~SkipNode /\ ~CancelLoser
    BY <1>9, <1>a, <2>2, TickQuiet
  <2>. QED BY <2>1, <2>2
<1>10. CASE Retry \/ CbRetry \/ GateClick
  <2>1. ASSUME NEW m \in Node, CanRetry(m), Append(RetryEvent(m)) PROVE Goal
    <3>1. WellFormed(RetryEvent(m))
      BY <2>1, RetryFormed DEF AllInv, TypeInv, JournalOK
    <3>2. RetryEvent(m).type = "nodeRetryRequested" /\ RetryEvent(m).n = m /\ RetryEvent(m).k = snap.eff[m]
      BY DEF RetryEvent, Ev
    <3>3. InOrder(RetryEvent(m)) /\ snap.status[m] \notin Over
      BY <2>1, <3>1, <3>2 DEF InOrder, Fits, Safe, Closes, CanRetry, Engaged, Over
    <3>. QED BY <1>d, <2>1, <3>2, <3>3 DEF Soft
  <2>2. CASE Retry
    BY <2>1, <2>2 DEF Retry
  <2>3. CASE CbRetry
    <3>1. cb.n \in Node
      BY DEF AllInv, TypeInv, CbOK, CbType
    <3>. QED BY <1>b, <2>1, <2>3, <3>1 DEF CbRetry
  <2>4. CASE GateClick
    <3>1. PICK m \in Node, choice \in {"approved", "rejected"} :
            snap.status[m] = "gateWaiting" /\ Append(EvX("gateResolved", m, snap.eff[m], 0, choice))
      BY <2>4 DEF GateClick, Click
    <3>. DEFINE e == EvX("gateResolved", m, snap.eff[m], 0, choice)
    <3>2. snap.eff[m] \in 0 .. MaxInst /\ snap.eff[m] # 0
      BY <1>s, <3>1 DEF AllInv, TypeInv, JournalOK, GatesNamed, Snapshot
    <3>3. e \in Event
      BY <3>2, EvType DEF EventType, Detail
    <3>4. Append(e) /\ e.type = "gateResolved" /\ e.n = m /\ e.k = snap.eff[m]
      BY <3>1 DEF EvX
    <3>. HIDE DEF e
    <3>5. InOrder(e)
      BY <3>1, <3>2, <3>3, <3>4 DEF InOrder, WellFormed, Fits, Safe, Closes, Opens, Engaged
    <3>. QED BY <1>d, <3>1, <3>4, <3>5 DEF Soft, Over
  <2>. QED BY <1>10, <2>2, <2>3, <2>4
<1>11. CASE CbRevisit \/ GrantRevisit \/ Cancel \/ ForeignCancel
  BY <1>11, <1>a, <1>b, StillFold DEF CbRevisit, CbEvent, GrantRevisit, Cancel, CancelAnd, ForeignCancel,
     EvM, Ev, Still
<1>12. CASE Promises \/ WorkerExit \/ BareAbort \/ Crash \/ UNCHANGED vars
  BY <1>12, <1>b DEF Promises, Settle, Judge, WorkerExit, BareAbort, Crash, vars
<1>. QED
  BY <1>1, <1>2, <1>3, <1>4, <1>5, <1>6, <1>7, <1>8, <1>9, <1>10, <1>11, <1>12
  DEF Next, Callback, Human, Environment


\* The first verdict on an edge stays.
LEMMA EdgeFold ==
  ASSUME NEW s \in Snapshot, NEW e, NEW x \in Key \X Node, s.edge[x] # "unresolved"
  PROVE  Fold(s, e).edge[x] = s.edge[x]
<1>. DEFINE Same(t) == t.edge[x] = s.edge[x]
<1>1. Same(OnRunEvent(s, e))
  BY DEF OnRunEvent, OnCancelRequested, Snapshot
<1>2. ASSUME NEW st PROVE Same(OnSettle(s, e, st))
  BY DEF OnSettle, Record, Snapshot
<1>3. Same(OnDispatched(s, e)) /\ Same(OnGateDispatched(s, e))
  BY DEF OnDispatched, RecordEffective, OnGateDispatched, Snapshot
<1>4. Same(OnRetry(s, e)) /\ Same(OnSuperseded(s, e))
  BY DEF OnRetry, OnSuperseded, Unblock, Snapshot
<1>5. Same(OnGateResolved(s, e)) /\ Same(OnSkipped(s, e)) /\ Same(OnDrained(s, e))
  BY DEF OnGateResolved, OnSkipped, OnDrained, Snapshot
<1>6. Same(OnCancelled(s, e))
  BY DEF OnCancelled, Record, Snapshot
<1>7. Same(OnEdgeResolved(s, e))
  BY DEF OnEdgeResolved, Snapshot
<1>8. Same(s)
  OBVIOUS
<1>. HIDE DEF Same
<1>9. Same(Fold(s, e))
  BY <1>1, <1>2, <1>3, <1>4, <1>5, <1>6, <1>7, <1>8 DEF Fold, Applied, OnNodeEvent
<1>. QED BY <1>9 DEF Same

\* The journal moves by one record, or by one strike of many.
LEMMA JournalMoves ==
  ASSUME [Next]_vars
  PROVE  \/ UNCHANGED snap
         \/ \E e : snap' = Fold(snap, e)
         \/ \E S \in SUBSET Node : \E e :
              snap' \in {StrikeAll(snap, S, tally.last), Fold(StrikeAll(snap, S, tally.last), e)}
<1>. USE DEF Outside, Idling, Goto, journal, Append
<1>1. CASE Drive \/ SignalToJournal \/ Boundary \/ DropObsolete \/ DropOrphaned \/ Decide \/ Quiesced
           \/ DrainClosed \/ DrainPassed \/ Wake \/ ResolveEdge \/ SkipNode \/ Controlled
  BY <1>1 DEF Drive, SignalToJournal, Boundary, DropObsolete, DropOrphaned, Decide, Quiesced,
     DrainClosed, ProvesClosed, DrainPassed, Wake, ResolveEdge, SkipNode, Controlled, Quiesce, Return
<1>2. CASE Cancelling \/ Finalize
  <2>. DEFINE S == {n \in Node : snap.status[n] \in {"pending", "gateWaiting"}}
              T == {n \in Node : snap.status[n] \in {"pending", "gateWaiting", "running"}}
  <2>1. /\ S \in SUBSET Node /\ T \in SUBSET Node
        /\ \/ snap' = snap \/ snap' = StrikeAll(snap, S, tally.last)
           \/ snap' = Fold(StrikeAll(snap, T, tally.last), Ev("runCancelled", AnyNode, 0, 0))
    BY <1>2 DEF Cancelling, StrikeNodes, Finalize
  <2>. HIDE DEF S, T
  <2>. QED BY <2>1
<1>3. CASE Publish \/ ClaimWork \/ ClaimGate \/ PassOver \/ Dispatched \/ Arm \/ ArmFailed
           \/ CancelLoser \/ EndTick \/ NoticeCancel
  BY <1>3 DEF Publish, ClaimWork, ClaimGate, PassOver, Dispatched, Arm, ArmIf, ArmFailed, CancelLoser,
     EndTick, NoticeCancel, Quiesce, Return, GiveUp
<1>4. CASE Callback
  BY <1>4 DEF Callback, CbVerdict, CbDrain, CbCancelled, CbRevisit, CbRefresh, CbRetry
<1>5. CASE Promises \/ WorkerExit \/ Human \/ Environment \/ UNCHANGED vars
  BY <1>5 DEF Promises, Settle, Judge, WorkerExit, Human, GateClick, Click, Retry, GrantRevisit,
     Environment, Cancel, CancelAnd, ForeignCancel, BareAbort, Crash, vars
<1>. QED BY <1>1, <1>2, <1>3, <1>4, <1>5 DEF Next, Tick

\* So no step takes a verdict on an edge back.
LEMMA VerdictsStay ==
  ASSUME TypeInv, [Next]_vars, NEW x \in Key \X Node, snap.edge[x] # "unresolved"
  PROVE  snap'.edge[x] = snap.edge[x]
<1>s. snap \in Snapshot /\ tally.last \in [Key -> Nat]
  BY DEF TypeInv, JournalOK, Tally
<1>1. ASSUME NEW e, snap' = Fold(snap, e) PROVE snap'.edge[x] = snap.edge[x]
  BY <1>s, <1>1, EdgeFold
<1>2. ASSUME NEW S \in SUBSET Node, NEW e,
             snap' \in {StrikeAll(snap, S, tally.last), Fold(StrikeAll(snap, S, tally.last), e)}
      PROVE  snap'.edge[x] = snap.edge[x]
  <2>. DEFINE t == StrikeAll(snap, S, tally.last)
  <2>1. t \in Snapshot
    BY <1>s, StrikeAllType
  <2>2. t.edge = snap.edge
    BY <1>s DEF StrikeAll, Snapshot
  <2>3. snap' = t \/ snap' = Fold(t, e)
    BY <1>2
  <2>. HIDE DEF t
  <2>. QED BY <2>1, <2>2, <2>3, EdgeFold
<1>. QED BY <1>1, <1>2, JournalMoves

\* As long as what is decided stays, and no verdict is taken back, what is out of reach stays so.
LEMMA OutOfReachStays ==
  ASSUME NEW s \in Snapshot, NEW t \in Snapshot, NEW n \in Node, IsImpossibleNow(s, n),
         \A m \in Node : s.status[m] \in Over => t.status[m] = s.status[m] /\ t.eff[m] = s.eff[m],
         \A x \in Key \X Node : s.edge[x] # "unresolved" => t.edge[x] = s.edge[x]
  PROVE  IsImpossibleNow(t, n)
<1>. DEFINE P(u) == With(u, n, {"active"} \cup Maybe)
<1>1. ASSUME NEW m \in P(t) PROVE m \in P(s)
  <2>1. m \in Upstream(n) /\ m \in Node /\ Activity(t, m, n) # "inactive"
    BY <1>1 DEF With, Upstream, Maybe
  <2>2. Activity(s, m, n) \in {"active", "inactive"} \cup Maybe
    <3>1. s.status[m] = "done" /\ s.eff[m] # 0 => <<<<m, s.eff[m]>>, n>> \in Key \X Node
      BY <2>1 DEF Snapshot, Key, Inst
    <3>. QED BY <2>1, <3>1 DEF Activity, Maybe, Snapshot
  <2>3. ASSUME Activity(s, m, n) = "inactive" PROVE FALSE
    <3>1. CASE s.status[m] = "done"
      <4>1. <<m, n>> \in When /\ s.eff[m] # 0 /\ s.edge[<<<<m, s.eff[m]>>, n>>] = "inactive"
        BY <2>3, <3>1 DEF Activity
      <4>2. <<<<m, s.eff[m]>>, n>> \in Key \X Node
        BY <2>1, <4>1 DEF Snapshot, Key, Inst
      <4>3. t.status[m] = "done" /\ t.eff[m] = s.eff[m] /\ t.edge[<<<<m, s.eff[m]>>, n>>] = "inactive"
        BY <2>1, <3>1, <4>1, <4>2 DEF Over
      <4>. QED BY <2>1, <4>1, <4>3 DEF Activity
    <3>2. CASE s.status[m] # "done"
      <4>1. s.status[m] \in {"skipped", "cancelled"}
        BY <2>3, <3>2 DEF Activity
      <4>2. t.status[m] = s.status[m]
        BY <2>1, <4>1 DEF Over
      <4>. QED BY <2>1, <4>1, <4>2 DEF Activity
    <3>. QED BY <3>1, <3>2
  <2>. QED BY <2>1, <2>2, <2>3 DEF With
<1>2. IsFiniteSet(Upstream(n)) /\ P(s) \subseteq Upstream(n)
  BY InputsFinite DEF With
<1>. HIDE DEF P
<1>3. /\ Cardinality(P(t)) <= Cardinality(P(s)) /\ Cardinality(P(t)) \in Nat /\ Cardinality(P(s)) \in Nat
      /\ Cardinality(Upstream(n)) \in Nat
  BY <1>1, <1>2, FS_Subset, FS_CardinalityType
<1>4. Required(n) \in Nat
  BY <1>3, DagAssumption DEF Required
<1>. QED BY <1>3, <1>4 DEF IsImpossibleNow, Possible, P

\* Only a skip skips.
LEMMA SkipFold ==
  ASSUME NEW s \in Snapshot, NEW e, WellFormed(e), Fits(s, e), e.type \in Loud \cup Soft,
         NEW n \in Node, Fold(s, e).status[n] = "skipped", s.status[n] # "skipped"
  PROVE  e.type = "nodeSkipped" /\ e.n = n
<1>. DEFINE t == Fold(s, e)
<1>0. t.status[n] = "skipped" /\ e.n = n
  BY FrameFold DEF FrameOf
<1>. HIDE DEF t
<1>b. ~SameNodes(s, t)
  BY <1>0 DEF SameNodes
<1>. SUFFICES ASSUME e.type # "nodeSkipped" PROVE FALSE
  BY <1>0
<1>1. CASE e.type \in {"nodeSucceeded", "nodeFailed", "nodeBlocked"}
  BY <1>0, <1>1, <1>b, SettleEffect DEF t, Shows, Fits
<1>2. CASE e.type = "nodeCancelled"
  BY <1>0, <1>2, <1>b, CancelledEffect DEF t, Shows
<1>3. CASE e.type = "nodeRetryRequested"
  BY <1>0, <1>3, <1>b, RetryEffect DEF t, Shows, Fits
<1>4. CASE e.type = "gateResolved"
  BY <1>0, <1>4, <1>b, ClickEffect DEF t, Shows, Fits
<1>5. CASE e.type = "nodeInstanceSuperseded"
  BY <1>0, <1>5, <1>b, SupersededEffect DEF t, Fits
<1>6. CASE e.type = "nodeAttemptDrained"
  BY <1>0, <1>6, <1>b, DrainedEffect DEF t
<1>7. CASE e.type = "gateDispatched"
  BY <1>0, <1>7, <1>b, GateEffect DEF t, Begins
<1>. QED BY <1>1, <1>2, <1>3, <1>4, <1>5, <1>6, <1>7 DEF Loud, Soft

\* A node becomes skipped because the driver planned to skip it.
LEMMA SkipsArePlanned ==
  ASSUME AllInv, [Next]_vars, NEW n \in Node, snap'.status[n] = "skipped", snap.status[n] # "skipped"
  PROVE  /\ pc = "control" /\ \E act \in plan : act.kind = "skip" /\ act.n = n
         /\ snap.status[n] = "pending" /\ snap'.eff = snap.eff /\ snap'.inst = snap.inst
<1>. USE DEF Outside, journal
<1>s. snap \in Snapshot
  BY DEF AllInv, TypeInv, JournalOK
<1>a. ~SameNodes(snap, snap')
  BY DEF SameNodes
<1>b. ASSUME NEW e, Append(e), InOrder(e), e.type \in (Loud \cup Soft) \ {"nodeSkipped"} PROVE FALSE
  BY <1>s, <1>b, SkipFold DEF Append, InOrder
<1>c. ASSUME NEW types, Appends(types), types \subseteq (Loud \cup Soft) \ {"nodeSkipped"} PROVE FALSE
  BY <1>b, <1>c DEF Appends
<1>d. ASSUME NEW S \in SUBSET Node, SameNodes(StrikeAll(snap, S, tally.last), snap') PROVE FALSE
  BY <1>s, <1>d, StrikeEffect DEF SameNodes
<1>1. ~ClaimWork
  <2>1. SUFFICES ASSUME ClaimWork PROVE FALSE
    OBVIOUS
  <2>2. PICK act, a : Claims(act, a)
    BY <2>1, ClaimEffect
  <2>. QED BY <2>2 DEF Claims, FrameOf, Begins
<1>2. ~ClaimGate
  BY <1>c, StartMove DEF Loud
<1>3. ~ArmFailed
  <2>1. Ev("nodeFailed", item.n, item.k, ItemAttempt[3]).type = "nodeFailed"
    BY DEF Ev
  <2>. QED BY <1>b, <2>1, StartMove DEF Loud
<1>4. ~Cancelling /\ ~Finalize
  <2>1. ~Cancelling
    BY <1>d, RunMove DEF StrikeNodes, SameNodes
  <2>2. ~Finalize
    <3>1. UNCHANGED snap => FALSE
      OBVIOUS
    <3>. QED BY <1>d, <3>1, RunMove
  <2>. QED BY <2>1, <2>2
<1>5. ~CbVerdict /\ ~CbDrain /\ ~CbCancelled
  <2>1. UNCHANGED journal => FALSE
    OBVIOUS
  <2>2. \A e : e.type \in SettleTypes => e.type \in (Loud \cup Soft) \ {"nodeSkipped"}
    BY DEF SettleTypes, Loud, Soft
  <2>. QED BY <1>b, <2>1, <2>2, SettleMove
<1>6. ~CancelLoser
  <2>1. SUFFICES ASSUME CancelLoser PROVE FALSE
    OBVIOUS
  <2>2. PICK act \in plan :
          Append(EvX("nodeCancelled", act.n, snap.eff[act.n],
                     IF snap.eff[act.n] = 0 THEN 0 ELSE tally.last[<<act.n, snap.eff[act.n]>>], "loser"))
    BY <2>1 DEF CancelLoser
  <2>. DEFINE k == snap.eff[act.n]
              a == IF k = 0 THEN 0 ELSE tally.last[<<act.n, k>>]
              e == EvX("nodeCancelled", act.n, k, a, "loser")
  <2>3. act.n \in Node
    BY DEF AllInv, TypeInv, DriverOK, PlanOK, Action
  <2>4. Append(e) /\ InOrder(e) /\ e.type = "nodeCancelled"
    BY <2>2, <2>3, TickFits DEF EvX
  <2>. HIDE DEF e
  <2>. QED BY <1>b, <2>4 DEF Soft
<1>7. SkipNode
  <2>1. (Drive \/ Tick) => SkipNode
    BY <1>1, <1>2, <1>3, <1>4, <1>6, <1>a, TickQuiet
  <2>2. ~(Callback \/ Promises \/ WorkerExit \/ Human \/ Environment)
    <3>1. ~Still
      BY <1>a DEF Still
    <3>. QED BY <1>5, <1>c, <3>1, OutsideMove DEF Soft
  <2>3. ~UNCHANGED vars
    BY DEF vars
  <2>. QED BY <2>1, <2>2, <2>3 DEF Next
<1>8. PICK act \in plan : act.kind = "skip" /\ pc = "control" /\ Append(Ev("nodeSkipped", act.n, 0, 0))
  BY <1>7 DEF SkipNode
<1>. DEFINE e == Ev("nodeSkipped", act.n, 0, 0)
<1>9. Append(e) /\ InOrder(e) /\ e.type = "nodeSkipped" /\ e.n = act.n
  BY <1>8, TickFits DEF Ev
<1>. HIDE DEF e
<1>10. act.n = n
  BY <1>s, <1>9, SkipFold DEF Append, InOrder, Soft
<1>11. snap.status[n] = "pending"
  BY <1>8, <1>10 DEF AllInv, WorkerInv, PlanInv
<1>12. snap'.eff = snap.eff /\ snap'.inst = snap.inst
  BY <1>s, <1>9, SkippedEffect DEF Append, InOrder
<1>. QED BY <1>8, <1>10, <1>11, <1>12


\* Without a refresh, nothing puts the instance of a skipped node to work.
LEMMA SkippedIdleStep ==
  ASSUME AllInv, LosersInv, VerdictStands, SkippedIdle, [Next]_vars, ~CbRefresh
  PROVE  SkippedIdle'
<1>s. snap \in Snapshot
  BY DEF AllInv, TypeInv, JournalOK
<1>. SUFFICES ASSUME NEW n \in Node, snap'.status[n] = "skipped", snap'.eff[n] # 0
              PROVE  snap'.inst[<<n, snap'.eff[n]>>] # "running"
  BY DEF SkippedIdle
<1>1. CASE snap.status[n] = "skipped"
  <2>. DEFINE key == <<n, snap.eff[n]>>
  <2>1. snap'.eff[n] = snap.eff[n]
    BY <1>1, OverStays DEF Over
  <2>2. key \in Key /\ snap.inst[key] # "running"
    BY <1>s, <1>1, <2>1 DEF SkippedIdle, Snapshot, Key, Inst
  <2>3. CASE ClaimWork
    <3>1. PICK act, a : Claims(act, a)
      BY <2>3, ClaimEffect
    <3>2. act.n # n
      BY <1>1, <3>1 DEF Claims
    <3>3. snap'.inst[key] = snap.inst[key]
      BY <2>2, <3>1, <3>2 DEF Claims, FrameOf
    <3>. QED BY <2>1, <2>2, <3>3
  <2>4. CASE ~ClaimWork
    <3>1. RunsStay(snap, snap')
      BY <2>4, EveryMove, MoveEffect
    <3>. QED BY <2>1, <2>2, <3>1 DEF RunsStay
  <2>. QED BY <2>3, <2>4
<1>2. CASE snap.status[n] # "skipped"
  <2>1. snap.status[n] = "pending" /\ snap'.eff = snap.eff /\ snap'.inst = snap.inst
    BY <1>2, SkipsArePlanned
  <2>. QED BY <2>1 DEF AllInv, WorkerInv, ViewInv, Views, Mirror
<1>. QED BY <1>1, <1>2

\* Nobody reaches a node between the decision on a verdict and its record.
LEMMA VerdictStandsStep == ASSUME AllInv, VerdictStands, [Next]_vars PROVE VerdictStands'
<1>. SUFFICES ASSUME cb'.step = "verdict", cb'.k = snap'.eff[cb'.n] PROVE snap'.status[cb'.n] \in Engaged
  BY DEF VerdictStands
<1>. USE DEF journal, local, Outside
<1>1. CASE cb' = cb
  <2>1. cb.step = "verdict"
    BY <1>1
  <2>2. ~Tick
    BY <2>1 DEF Tick, SignalToJournal, Cancelling, Finalize, Boundary, DropObsolete, DropOrphaned,
       Decide, Publish, Quiesced, DrainClosed, ProvesClosed, DrainPassed, Wake, ResolveEdge, SkipNode,
       Controlled, ClaimWork, ClaimGate, PassOver, Dispatched, Arm, ArmIf, ArmFailed, CancelLoser,
       EndTick, NoticeCancel, Running, Top, Steps
  <2>3. ~Promises /\ ~Human /\ ~Cancel /\ ~BareAbort
    BY <2>1 DEF Promises, Settle, Judge, Human, GateClick, Click, Retry, GrantRevisit, Cancel, CancelAnd, BareAbort, Quiet
  <2>4. ~Callback
    BY <1>1, <2>1 DEF Callback, CbVerdict, CbDrain, CbCancelled, CbRevisit, CbRefresh, CbRetry, Finally, NoCb
  <2>5. ~Crash
    BY <1>1, <2>1 DEF Crash, NoCb
  <2>6. SameNodes(snap, snap')
    <3>1. CASE Drive \/ WorkerExit \/ UNCHANGED vars
      BY <3>1 DEF Drive, WorkerExit, vars, SameNodes
    <3>2. CASE ForeignCancel
      BY <3>2, StillFold DEF ForeignCancel, Ev, Still
    <3>. QED BY <2>2, <2>3, <2>4, <2>5, <3>1, <3>2 DEF Next, Environment
  <2>. QED BY <1>1, <2>1, <2>6 DEF VerdictStands, SameNodes
<1>2. CASE cb' # cb
  <2>1. ~Drive /\ ~Tick
    <3>1. Drive \/ Tick => DrainClosed
      BY <1>2 DEF Drive, Tick, SignalToJournal, Cancelling, Finalize, Boundary, DropObsolete, DropOrphaned,
         Decide, Publish, Quiesced, DrainPassed, Wake, ResolveEdge, SkipNode,
         Controlled, ClaimWork, ClaimGate, PassOver, Dispatched, Arm, ArmIf, ArmFailed, CancelLoser,
         EndTick, NoticeCancel, Quiesce, Return, GiveUp, Goto
    <3>2. DrainClosed => cb'.step = "drain"
      BY DEF DrainClosed, ProvesClosed, Cb, NoCb
    <3>. QED BY <3>1, <3>2
  <2>2. ~Callback
    <3>1. CbVerdict \/ CbDrain \/ CbCancelled \/ CbRetry => cb' = NoCb \/ cb' = [cb EXCEPT !.step = "cancelled"]
      BY DEF CbVerdict, CbDrain, CbCancelled, CbRetry, Finally
    <3>2. cb' = [cb EXCEPT !.step = "cancelled"] => cb'.step = "cancelled"
      BY DEF AllInv, TypeInv, CbOK, CbType
    <3>3. CbRevisit \/ CbRefresh => \E rest : Refreshing(rest)
      BY DEF CbRevisit, CbRefresh
    <3>4. (\E rest : Refreshing(rest)) => cb'.step \in {"drain", "refresh"}
      BY DEF Refreshing, AllInv, TypeInv, CbOK, CbType
    <3>5. NoCb.step = "none"
      BY DEF NoCb
    <3>. QED BY <3>1, <3>2, <3>3, <3>4, <3>5 DEF Callback
  <2>3. Promises
    <3>1. ~WorkerExit /\ ~GateClick /\ ~Retry /\ ~Cancel /\ ~ForeignCancel /\ ~BareAbort /\ ~UNCHANGED vars
      BY <1>2 DEF WorkerExit, GateClick, Click, Retry, Cancel, CancelAnd, ForeignCancel, BareAbort, vars
    <3>2. ~Crash /\ ~GrantRevisit
      <4>1. NoCb.step = "none" /\ \A n : [NoCb EXCEPT !.step = "retry", !.n = n].step = "retry"
        BY DEF NoCb
      <4>2. GrantRevisit => \E n : cb' = [NoCb EXCEPT !.step = "retry", !.n = n]
        BY DEF GrantRevisit
      <4>3. Crash => cb' = NoCb
        BY DEF Crash
      <4>. QED BY <4>1, <4>2, <4>3
    <3>. QED BY <2>1, <2>2, <3>1, <3>2 DEF Next, Human, Environment
  <2>4. UNCHANGED snap /\ cb.step = "none" /\ ~CbBusy
    BY <2>3 DEF Promises, Settle, Judge, Quiet, CbBusy
  <2>5. \E n \in Node, k \in Inst : cb'.n = n /\ cb'.k = k /\ flight[<<n, k>>].phase # "none"
    <3>1. CASE Settle
      <4>1. PICK n \in Node, k \in Inst : \E y :
              /\ flight[<<n, k>>].phase = "run"
              /\ cb' \in {Verdict(n, k, flight[<<n, k>>].att, "nodeFailed", "none"),
                          DrainProof(n, k, flight[<<n, k>>].att, y)}
        BY <1>2, <3>1 DEF Settle
      <4>. QED BY <4>1 DEF Verdict, DrainProof, Cb, NoCb
    <3>2. CASE Judge
      <4>1. PICK n \in Node, k \in Inst, find \in Finds, m \in Node :
              flight[<<n, k>>].phase = "check" /\ cb' = Judgement(find, n, k, flight[<<n, k>>], m)
        BY <3>2 DEF Judge
      <4>. DEFINE a == flight[<<n, k>>].att
      <4>2. \/ cb' = RevisitCb(n, k, a, m)
            \/ \E type, code : cb' = Verdict(n, k, a, type, code) \/ cb' = [Verdict(n, k, a, type, code) EXCEPT !.m = m]
            \/ \E reason : cb' = DrainProof(n, k, a, reason)
        BY <4>1 DEF Judgement, Finds, BudgetCb
      <4>. HIDE DEF a
      <4>3. ASSUME cb' = RevisitCb(n, k, a, m) PROVE cb'.n = n /\ cb'.k = k
        BY <4>3 DEF RevisitCb, Cb, NoCb
      <4>4. ASSUME NEW type, NEW code,
                   cb' = Verdict(n, k, a, type, code) \/ cb' = [Verdict(n, k, a, type, code) EXCEPT !.m = m]
            PROVE  cb'.n = n /\ cb'.k = k
        BY <4>4 DEF Verdict, Cb, NoCb
      <4>5. ASSUME NEW reason, cb' = DrainProof(n, k, a, reason) PROVE cb'.n = n /\ cb'.k = k
        BY <4>5 DEF DrainProof, Cb, NoCb
      <4>6. cb'.n = n /\ cb'.k = k
        BY <4>2, <4>3, <4>4, <4>5, Zenon
      <4>. QED BY <4>1, <4>6
    <3>. QED BY <2>3, <3>1, <3>2 DEF Promises
  <2>6. PICK n \in Node, k \in Inst : cb'.n = n /\ cb'.k = k /\ flight[<<n, k>>].phase # "none"
    BY <2>5
  <2>7. <<n, k>> \in Key /\ flight[<<n, k>>].att # 0
    BY <2>6 DEF Key, AllInv, WorkerInv, FlightInv, FlightIsLatest
  <2>. QED BY <2>4, <2>6, <2>7 DEF AllInv, WorkerInv, EngagedInv
<1>. QED BY <1>1, <1>2

\* Without a refresh, what was skipped and what is about to be skipped stays out of reach.
LEMMA SkipsStandStep ==
  ASSUME AllInv, LosersInv, SkipInv, [Next]_vars, ~CbRefresh
  PROVE  SkipsStand'
<1>s. snap \in Snapshot /\ snap' \in Snapshot /\ \A act \in plan : act.n \in Node
  BY Step DEF AllInv, StepOK, JournalStep, TypeInv, JournalOK, DriverOK, PlanOK, Action
<1>1. ASSUME NEW n \in Node, IsImpossibleNow(snap, n) PROVE IsImpossibleNow(snap', n)
  <2>1. \A m \in Node : snap.status[m] \in Over => snap'.status[m] = snap.status[m] /\ snap'.eff[m] = snap.eff[m]
    BY OverStays DEF SkipInv
  <2>2. \A x \in Key \X Node : snap.edge[x] # "unresolved" => snap'.edge[x] = snap.edge[x]
    BY VerdictsStay DEF AllInv
  <2>. QED BY <1>s, <1>1, <2>1, <2>2, OutOfReachStays
<1>2. ASSUME NEW n \in Node, snap'.status[n] = "skipped" PROVE IsImpossibleNow(snap', n)
  <2>1. CASE snap.status[n] = "skipped"
    BY <1>1, <2>1 DEF SkipInv, SkipsStand
  <2>2. CASE snap.status[n] # "skipped"
    <3>1. pc = "control" /\ \E act \in plan : act.kind = "skip" /\ act.n = n
      BY <1>2, <2>2, SkipsArePlanned
    <3>. QED BY <1>1, <3>1 DEF SkipInv, SkipsStand
  <2>. QED BY <2>1, <2>2
<1>3. ASSUME pc' = "control", NEW act \in plan', act.kind = "skip" PROVE IsImpossibleNow(snap', act.n)
  <2>1. CASE Decide
    <3>1. snap' = snap /\ act \in Controls(snap)
      BY <1>3, <2>1 DEF Decide, Quiesce, Goto, journal
    <3>2. act.n \in Idle(snap, "skip")
      BY <1>3, <3>1 DEF Controls, EdgeActions, SkipActions, Act
    <3>3. Possible(snap, act.n) < Required(act.n)
      <4>1. act.n \in Node /\ Readiness(snap, act.n) = "skip"
        BY <3>2 DEF Idle, Open
      <4>2. ~(Possible(snap, act.n) >= Required(act.n))
        BY <4>1 DEF Readiness
      <4>3. Possible(snap, act.n) \in Nat /\ Required(act.n) \in Nat
        <5>1. /\ Cardinality(Upstream(act.n)) \in Nat
              /\ \A T \in SUBSET Upstream(act.n) : IsFiniteSet(T) /\ Cardinality(T) \in Nat
          BY <4>1, InputsFinite, FS_Subset, FS_CardinalityType
        <5>2. With(snap, act.n, {"active"} \cup Maybe) \in SUBSET Upstream(act.n)
          BY DEF With
        <5>. QED BY <4>1, <5>1, <5>2, DagAssumption DEF Possible, Required
      <4>. QED BY <4>2, <4>3
    <3>. QED BY <3>1, <3>3 DEF IsImpossibleNow
  <2>2. CASE ~Decide
    <3>1. pc = "control" /\ plan' \subseteq plan
      BY <1>3, <2>2, InsideTick DEF ResolveEdge, SkipNode, ClaimWork, ClaimGate, PassOver, Arm, ArmIf, ArmFailed, local
    <3>. QED BY <1>s, <1>1, <1>3, <3>1 DEF SkipInv, SkipsStand
  <2>. QED BY <2>1, <2>2
<1>. QED BY <1>2, <1>3 DEF SkipsStand

\* In a run that sends nothing back, a skipped node is out of reach of the verdicts from the decision on.
THEOREM SkipInvariant == ASSUME RevisitTo = {} PROVE Spec => []SkipInv
<1>1. Init => SkipInv
  BY DEF Init, SkipInv, VerdictStands, SkippedIdle, SkipsStand, EmptySnapshot, NoCb
<1>2. ASSUME TypeInv, NumbersInv, GateInv, WorkerInv, LosersInv /\ RetriesApart, FreshInv, SkipInv, [Next]_vars
      PROVE  SkipInv'
  <2>1. AllInv
    BY <1>2 DEF AllInv
  <2>2. ~CbRefresh
    BY <1>2 DEF FreshInv, Sent, Refreshes, CbRefresh
  <2>3. VerdictStands' /\ SkippedIdle' /\ SkipsStand'
    BY <1>2, <2>1, <2>2, VerdictStandsStep, SkippedIdleStep, SkipsStandStep DEF SkipInv
  <2>. QED BY <2>3 DEF SkipInv
<1>. QED
  BY <1>1, <1>2, LosersInvariant, FreshInvariant, TypeInvariant, NumbersInvariant, GateInvariant, WorkerInvariant,
     PTL DEF Spec, Careful

\* When every node is decided, a skipped one could not have run: whatever raced, failed, was retried,
\* cancelled or died, too few of its inputs deliver.  A skipped node has no instance a revisit could
\* refresh, so the theorem is about DAGs whose nodes send nothing back.
THEOREM SkipsAreJustified == ASSUME RevisitTo = {} PROVE Spec => []SkipJustified
<1>1. TypeInv /\ SkipInv => SkipJustified
  <2>1. ASSUME TypeInv, SkipInv, NEW n \in Node, snap.status[n] = "skipped"
        PROVE  Cardinality({m \in Upstream(n) : Activity(snap, m, n) # "inactive"}) < Required(n)
    <3>. DEFINE Delivering == {m \in Upstream(n) : Activity(snap, m, n) # "inactive"}
    <3>1. Possible(snap, n) < Required(n)
      BY <2>1 DEF SkipInv, SkipsStand, IsImpossibleNow
    <3>2. \A m \in Upstream(n) : Activity(snap, m, n) \in {"active", "inactive"} \cup Maybe
      <4>1. snap \in Snapshot
        BY <2>1 DEF TypeInv, JournalOK
      <4>2. \A m \in Upstream(n) : m \in Node /\ (snap.eff[m] # 0 => <<<<m, snap.eff[m]>>, n>> \in Key \X Node)
        BY <4>1, DagAssumption DEF Upstream, Snapshot, Key, Inst
      <4>. QED BY <2>1, <4>1, <4>2 DEF Activity, Maybe, Snapshot
    <3>3. Delivering = With(snap, n, {"active"} \cup Maybe)
      BY <3>2 DEF With, Maybe
    <3>. QED BY <3>1, <3>3 DEF Possible
  <2>. QED BY <2>1 DEF SkipJustified
<1>. QED BY <1>1, SkipInvariant, TypeInvariant, PTL

=============================================================================
