------------------------- MODULE V3RunWorkerProofs --------------------------
(***************************************************************************)
(* Proofs, for every DAG, every pool and every bound, that no worker is    *)
(* ever forgotten (WorkerAccounted) and that a run comes to rest only over *)
(* an empty ledger (TerminalQuiescent).                                    *)
(*                                                                         *)
(* Whoever closes an attempt on the ledger has to know that its worker has *)
(* ended.  The strikes of a cancelled run know it only because a pending or*)
(* waiting node has no worker of its live instance; the loop knows it only *)
(* because what it drains is not its own.  WorkerInv ties nodes, promises, *)
(* callbacks and workers together so that each can rely on the others.     *)
(* The first part lists the moves of the journal and which step makes      *)
(* which; one lemma for each part of WorkerInv follows.                    *)
(***************************************************************************)
EXTENDS V3RunProofs

----------------------------------------------------------------------------
(* The moves of the journal.                                               *)

\* A dispatch and a fence open an attempt; a verdict, a drain and a run's cancel close it.
LEMMA LedgerEffect ==
  ASSUME NEW o, NEW e
  PROVE  LET x == <<e.n, e.k, e.a>>
             closes == e.type \in Closes \/ (e.type = "nodeCancelled" /\ e.x = "runCancellation")
         IN /\ e.type \in Opens => Ledger(o, e) = o \cup {x}
            /\ closes => Ledger(o, e) = o \ {x}
            /\ e.type \notin Opens /\ ~closes => Ledger(o, e) = o
BY DEF Ledger, Opens, Closes

\* A record that closes an attempt is written behind the end of its worker.
Safe(e) ==
  e.type \in Closes \/ (e.type = "nodeCancelled" /\ e.x = "runCancellation")
    => <<e.n, e.k, e.a>> \notin alive

InOrder(e) == WellFormed(e) /\ Fits(snap, e) /\ Safe(e)

\* Settles, drains and gates, and the events that only end or reset what is idle or cancelled.
Loud == {"nodeSucceeded", "nodeFailed", "nodeBlocked", "nodeAttemptDrained", "gateDispatched"}
Soft == {"nodeSkipped", "nodeCancelled", "nodeRetryRequested", "nodeInstanceSuperseded", "gateResolved"}

\* No node is touched, and the run at most begins to cancel.
Still ==
  /\ SameNodes(snap, snap') /\ open' = open
  /\ snap'.run = snap.run \/ (snap.run \in {"running", "blocked"} /\ snap'.run = "cancelling")

Appends(types) == \E e : Append(e) /\ InOrder(e) /\ e.type \in types

\* An event that touches no node.
LEMMA StillFold ==
  ASSUME AllInv, NEW e, Append(e),
         e.type \in {"runCancelRequested", "edgeResolved", "nodeRevisitRequested", "revisitBudgetGranted"}
  PROVE  Still
<1>1. SameNodes(snap, snap')
  BY SilentFold DEF Append, AllInv, TypeInv, JournalOK, Silent, RunEvent
<1>2. open' = open
  BY LedgerEffect DEF Append, Opens, Closes
<1>3. snap'.run = snap.run \/ (snap.run \in {"running", "blocked"} /\ snap'.run = "cancelling")
  BY DEF Append, Fold, Applied, OnRunEvent, OnNodeEvent, OnCancelRequested, OnEdgeResolved, RunEvent,
     AllInv, TypeInv, JournalOK, Snapshot, Cut, TrueTerminal, RunStatus
<1>. QED BY <1>1, <1>2, <1>3 DEF Still

\* The events of a settling attempt are in order.
LEMMA CbFits ==
  ASSUME AllInv, CbBusy
  PROVE  /\ cb.step = "verdict" => InOrder(CbEvent(cb.type))
         /\ OrphanExhausted => InOrder(EvX("nodeBlocked", cb.n, cb.k, cb.a, "orphan"))
         /\ InOrder(CbEvent("nodeAttemptDrained"))
         /\ snap.inst[CbKey] = "running" \/ cb.mine =>
              InOrder(EvX("nodeCancelled", cb.n, cb.k, cb.a, "runCancellation"))
<1>1. /\ cb.n \in Node /\ cb.k \in 0 .. MaxInst /\ cb.k # 0 /\ cb.a \in Nat /\ cb.m \in Node
      /\ cb.x \in Detail /\ cb.type \in {"nodeSucceeded", "nodeFailed", "nodeBlocked"}
      /\ cb.step = "verdict" => cb.x \in BlockCode
  BY DEF AllInv, TypeInv, CbOK, CbType, CbBusy
<1>2. CbKey \in Key
  BY <1>1 DEF CbKey, Key, Inst
<1>3. cb.mine => snap.inst[CbKey] # "absent"
  BY <1>2 DEF AllInv, WorkerInv, ViewInv, WorkersKnown, FlightInv, CbInFlight
<1>4. cb.step = "verdict" => cb.mine
  BY DEF AllInv, WorkerInv, FlightInv, CbInFlight, CbBusy
<1>s. CbAttempt \notin alive
  BY DEF AllInv, WorkerInv, LedgerInv
<1>5. InOrder(CbEvent("nodeAttemptDrained"))
  <2>1. CbEvent("nodeAttemptDrained") \in Event
    BY <1>1, EvType DEF CbEvent, EventType
  <2>. QED BY <1>1, <1>s, <2>1 DEF InOrder, Safe, CbAttempt, WellFormed, CbEvent, EvM, Fits
<1>6. cb.step = "verdict" => InOrder(CbEvent(cb.type))
  <2>. SUFFICES ASSUME cb.step = "verdict"
                PROVE  InOrder(CbEvent(cb.type))
    OBVIOUS
  <2>1. CbEvent(cb.type) \in Event
    BY <1>1, EvType DEF CbEvent, EventType
  <2>2. WellFormed(CbEvent(cb.type))
    BY <1>1, <2>1 DEF WellFormed, CbEvent, EvM, Opens
  <2>. QED BY <1>1, <1>3, <1>4, <1>s, <2>2 DEF InOrder, Safe, CbAttempt, Fits, CbEvent, EvM, CbKey
<1>7. OrphanExhausted => InOrder(EvX("nodeBlocked", cb.n, cb.k, cb.a, "orphan"))
  <2>1. EvX("nodeBlocked", cb.n, cb.k, cb.a, "orphan") \in Event
    BY <1>1, EvType DEF EventType, Detail, BlockCode
  <2>. QED BY <1>1, <1>s, <2>1 DEF InOrder, Safe, CbAttempt, WellFormed, EvX, Opens, BlockCode, Fits, OrphanExhausted
<1>8. snap.inst[CbKey] = "running" \/ cb.mine =>
        InOrder(EvX("nodeCancelled", cb.n, cb.k, cb.a, "runCancellation"))
  <2>1. EvX("nodeCancelled", cb.n, cb.k, cb.a, "runCancellation") \in Event
    BY <1>1, EvType DEF EventType, Detail, DrainReason
  <2>. QED BY <1>1, <1>3, <1>s, <2>1 DEF InOrder, Safe, CbAttempt, WellFormed, EvX, Opens, Fits, CbKey
<1>. QED BY <1>5, <1>6, <1>7, <1>8

\* So are the events of the loop.
LEMMA TickFits ==
  ASSUME AllInv
  PROVE  /\ pc = "arm" => InOrder(Ev("nodeFailed", item.n, item.k, ItemAttempt[3]))
         /\ \A act \in plan : act.kind = "skip" /\ pc = "control" => InOrder(Ev("nodeSkipped", act.n, 0, 0))
         /\ \A n \in Node :
              LET k == snap.eff[n]
                  a == IF k = 0 THEN 0 ELSE tally.last[<<n, k>>]
              IN InOrder(EvX("nodeCancelled", n, k, a, "loser"))
         /\ \A act \in plan : act.kind = "gate" /\ pc = "dispatch" /\ snap.status[act.n] = "pending" =>
              InOrder(Ev("gateDispatched", act.n, act.k, 0))
<1>a. snap \in Snapshot /\ tally \in Tally /\ plan \subseteq Action
      /\ \A act \in plan : act.kind \in {"gate", "work"} => act.k # 0
  BY DEF AllInv, TypeInv, JournalOK, DriverOK, PlanOK
<1>1. ASSUME pc = "arm"
      PROVE  InOrder(Ev("nodeFailed", item.n, item.k, ItemAttempt[3]))
  <2>1. item.n \in Node /\ item.k \in 0 .. MaxInst /\ item.k # 0 /\ ItemKey \in Key
    BY <1>1, StateAssumption DEF AllInv, TypeInv, DriverOK, Action, ItemKey, Key, Inst
  <2>2. ItemAttempt[3] \in Nat
    BY <1>a, <2>1 DEF ItemAttempt, ItemKey, Tally
  <2>3. Ev("nodeFailed", item.n, item.k, ItemAttempt[3]) \in Event
    BY <2>1, <2>2, EvType DEF EventType, Detail, BlockCode
  <2>4. snap.inst[ItemKey] # "absent"
    BY <1>1, <2>1 DEF AllInv, WorkerInv, ViewInv, Views, Exists, EngagedInv, ItemKey
  <2>5. <<item.n, item.k, ItemAttempt[3]>> \notin alive
    <3>. SUFFICES ASSUME NEW x \in alive, x = <<item.n, item.k, ItemAttempt[3]>> PROVE FALSE
      OBVIOUS
    <3>1. x \in spawned /\ KeyOf(x) = ItemKey /\ x[3] = tally.last[ItemKey]
      BY DEF AllInv, WorkerInv, ViewInv, WorkersKnown, KeyOf, ItemKey, ItemAttempt
    <3>. QED BY <1>1, <2>2, <3>1 DEF AllInv, NumbersInv, ClaimIsNew
  <2>. QED BY <2>1, <2>3, <2>4, <2>5 DEF InOrder, Safe, WellFormed, Ev, Opens, Fits, ItemKey
<1>2. ASSUME NEW act \in plan, act.kind = "skip", pc = "control"
      PROVE  InOrder(Ev("nodeSkipped", act.n, 0, 0))
  <2>1. act.n \in Node /\ snap.status[act.n] \notin Engaged
    BY <1>a, <1>2 DEF Action, AllInv, WorkerInv, PlanInv, Engaged
  <2>2. Ev("nodeSkipped", act.n, 0, 0) \in Event
    <3>1. 0 \in 0 .. MaxInst /\ 0 \in Nat
      BY StateAssumption
    <3>2. "nodeSkipped" \in EventType /\ "none" \in Detail
      BY DEF EventType, Detail, BlockCode
    <3>. QED BY <2>1, <3>1, <3>2, EvType
  <2>. QED BY <2>1, <2>2 DEF InOrder, Safe, Closes, WellFormed, Ev, Opens, Fits
<1>3. ASSUME NEW n \in Node
      PROVE  LET k == snap.eff[n]
                 a == IF k = 0 THEN 0 ELSE tally.last[<<n, k>>]
             IN InOrder(EvX("nodeCancelled", n, k, a, "loser"))
  <2>. DEFINE k == snap.eff[n]
              a == IF k = 0 THEN 0 ELSE tally.last[<<n, k>>]
  <2>1. k \in 0 .. MaxInst
    BY <1>a DEF Snapshot
  <2>2. a \in Nat
    <3>1. k # 0 => <<n, k>> \in Key
      BY <2>1 DEF Key, Inst
    <3>. HIDE DEF k
    <3>. QED BY <1>a, <3>1 DEF Tally
  <2>3. k # 0 => snap.inst[<<n, k>>] # "absent"
    BY DEF AllInv, WorkerInv, ViewInv, Views, Exists
  <2>. HIDE DEF k, a
  <2>4. EvX("nodeCancelled", n, k, a, "loser") \in Event
    BY <2>1, <2>2, EvType DEF EventType, Detail
  <2>5. InOrder(EvX("nodeCancelled", n, k, a, "loser"))
    BY <2>3, <2>4 DEF InOrder, Safe, Closes, WellFormed, EvX, Opens, Fits
  <2>. QED BY <2>5 DEF k, a
<1>4. ASSUME NEW act \in plan, act.kind = "gate", pc = "dispatch", snap.status[act.n] = "pending"
      PROVE  InOrder(Ev("gateDispatched", act.n, act.k, 0))
  <2>1. act.n \in Node /\ act.k \in 0 .. MaxInst /\ act.k # 0
    BY <1>a, <1>4 DEF Action
  <2>2. Ev("gateDispatched", act.n, act.k, 0) \in Event
    BY <2>1, EvType DEF EventType, Detail, BlockCode
  <2>3. act.k = InstanceFor(snap, act.n)
    BY <1>4 DEF AllInv, WorkerInv, PlanInv
  <2>. QED BY <1>4, <2>1, <2>2, <2>3 DEF InOrder, Safe, Closes, WellFormed, Ev, Opens, Fits
<1>. QED BY <1>1, <1>2, <1>3, <1>4

----------------------------------------------------------------------------
(* Which step makes which move.                                            *)

\* What the soft steps of the loop append neither settles nor starts anything, nor closes an attempt.
LEMMA TickMove ==
  ASSUME AllInv, Drive \/ Tick, ~ClaimWork, ~ClaimGate, ~Arm, ~ArmFailed, ~Cancelling, ~Finalize, ~Publish
  PROVE  Still \/ (Appends({"nodeSkipped", "nodeCancelled"}) /\ open' = open)
<1>. USE DEF Outside, Idling, Goto, journal
<1>a. UNCHANGED <<snap, open>> => Still
  BY DEF Still, SameNodes
<1>b. ASSUME NEW S, NEW reason, Quiesce(S, reason) PROVE Still
  BY <1>a, <1>b DEF Quiesce
<1>c. \A act \in plan : act.n \in Node
  BY DEF AllInv, TypeInv, DriverOK, PlanOK, Action
<1>1. CASE Drive \/ Quiesced \/ DrainClosed \/ DrainPassed \/ Wake \/ Controlled \/ PassOver
           \/ Dispatched \/ NoticeCancel
  BY <1>a, <1>1 DEF Drive, Quiesced, DrainClosed, ProvesClosed, DrainPassed, Wake, Controlled, PassOver,
              Dispatched, NoticeCancel
<1>2. CASE SignalToJournal
  BY <1>2, StillFold DEF SignalToJournal, Ev
<1>3. CASE Boundary
  BY <1>a, <1>3, <1>b DEF Boundary, Return
<1>4. CASE DropObsolete \/ DropOrphaned
  BY <1>4, <1>b DEF DropObsolete, DropOrphaned
<1>5. CASE Decide
  BY <1>5, <1>a, <1>b DEF Decide
<1>6. CASE ResolveEdge
  BY <1>6, StillFold DEF ResolveEdge, EvM
<1>7. CASE SkipNode
  <2>1. PICK act \in plan : act.kind = "skip" /\ pc = "control" /\ Append(Ev("nodeSkipped", act.n, 0, 0))
    BY <1>7 DEF SkipNode
  <2>. QED BY <2>1, TickFits, LedgerEffect DEF Ev, Appends, Append, Opens, Closes
<1>8. CASE CancelLoser
  <2>1. PICK act \in plan :
          \/ UNCHANGED journal
          \/ Append(EvX("nodeCancelled", act.n, snap.eff[act.n],
                        IF snap.eff[act.n] = 0 THEN 0 ELSE tally.last[<<act.n, snap.eff[act.n]>>], "loser"))
    BY <1>8 DEF CancelLoser
  <2>2. CASE UNCHANGED journal
    BY <1>a, <2>2
  <2>3. ASSUME NEW e, Append(e), InOrder(e), e.type = "nodeCancelled", e.x = "loser"
        PROVE  Appends({"nodeSkipped", "nodeCancelled"}) /\ open' = open
    BY <2>3, LedgerEffect DEF Appends, Append, Opens, Closes
  <2>. QED BY <1>c, <2>1, <2>2, <2>3, TickFits DEF EvX
<1>9. CASE EndTick
  BY <1>9, <1>a, <1>b DEF EndTick, GiveUp, Return
<1>. QED BY <1>1, <1>2, <1>3, <1>4, <1>5, <1>6, <1>7, <1>8, <1>9 DEF Tick

\* A gate is put up, and a start that failed settles the claimed instance.
LEMMA StartMove ==
  ASSUME AllInv
  PROVE  /\ ClaimGate => Appends({"gateDispatched"})
         /\ ArmFailed => /\ Append(Ev("nodeFailed", item.n, item.k, ItemAttempt[3]))
                         /\ InOrder(Ev("nodeFailed", item.n, item.k, ItemAttempt[3]))
<1>1. CASE ClaimGate
  <2>1. PICK act \in plan : /\ act.kind = "gate" /\ snap.status[act.n] = "pending" /\ pc = "dispatch"
                            /\ Append(Ev("gateDispatched", act.n, act.k, 0))
    BY <1>1 DEF ClaimGate, Claimable
  <2>. QED BY <2>1, TickFits DEF Appends, Ev, ClaimGate, ArmFailed
<1>2. CASE ArmFailed
  BY <1>2, TickFits DEF ArmFailed, ClaimGate
<1>. QED BY <1>1, <1>2

\* The records that settle an attempt.
SettleTypes == {"nodeSucceeded", "nodeFailed", "nodeBlocked", "nodeAttemptDrained", "nodeCancelled"}

\* A settling attempt finds its record written already, or appends its own in order.
LEMMA SettleMove ==
  ASSUME AllInv, CbVerdict \/ CbDrain \/ CbCancelled
  PROVE  \/ UNCHANGED journal /\ (cb.step = "drain" => CbAttempt \notin open)
         \/ \E e : /\ Append(e) /\ InOrder(e) /\ e.type \in SettleTypes
                   /\ e.n = cb.n /\ e.k = cb.k /\ e.a = cb.a
                   /\ e.type # "nodeCancelled" \/ cb.step = "cancelled"
                   /\ cb.mine \/ e.type \in {"nodeAttemptDrained", "nodeCancelled"}
                      \/ (tally.last[CbKey] = cb.a /\ snap.inst[CbKey] = "running")
<1>1. CASE CbVerdict
  <2>1. InOrder(CbEvent(cb.type)) /\ Append(CbEvent(cb.type))
    BY <1>1, CbFits DEF CbVerdict, CbBusy
  <2>2. cb.type \in {"nodeSucceeded", "nodeFailed", "nodeBlocked"} /\ cb.mine
    BY <1>1 DEF CbVerdict, CbBusy, AllInv, TypeInv, CbOK, WorkerInv, FlightInv, CbInFlight
  <2>. QED BY <2>1, <2>2 DEF CbEvent, EvM, SettleTypes
<1>2. CASE CbDrain
  <2>1. CASE CbAttempt \notin open
    BY <1>2, <2>1 DEF CbDrain, CbAttempt
  <2>2. CASE CbAttempt \in open /\ OrphanExhausted
    BY <1>2, <2>2, CbFits DEF CbDrain, CbAttempt, CbBusy, CbKey, EvX, SettleTypes, OrphanExhausted
  <2>3. CASE CbAttempt \in open /\ ~OrphanExhausted
    BY <1>2, <2>3, CbFits DEF CbDrain, CbAttempt, CbBusy, CbEvent, EvM, SettleTypes
  <2>. QED BY <2>1, <2>2, <2>3
<1>3. CASE CbCancelled
  BY <1>3, CbFits DEF CbCancelled, CbBusy, CbKey, EvX, SettleTypes
<1>. QED BY <1>1, <1>2, <1>3

\* Everybody else leaves the nodes alone, refreshes, retries or clicks.
LEMMA OutsideMove ==
  ASSUME AllInv, Callback \/ Promises \/ WorkerExit \/ Human \/ Environment,
         ~CbVerdict, ~CbDrain, ~CbCancelled
  PROVE  Still \/ Appends({"nodeInstanceSuperseded", "nodeRetryRequested", "gateResolved"})
<1>. USE DEF Outside, journal
<1>a. UNCHANGED <<snap, open>> => Still
  BY DEF Still, SameNodes
<1>c. snap \in Snapshot /\ TypeInv
  BY DEF AllInv, TypeInv, JournalOK
<1>d. ASSUME NEW n \in Node, CanRetry(n), Append(RetryEvent(n)) PROVE Appends({"nodeRetryRequested"})
  <2>1. WellFormed(RetryEvent(n))
    BY <1>c, <1>d, RetryFormed
  <2>2. Fits(snap, RetryEvent(n)) /\ Safe(RetryEvent(n)) /\ RetryEvent(n).type = "nodeRetryRequested"
    BY <1>d DEF Fits, Safe, Closes, RetryEvent, Ev, CanRetry, Engaged
  <2>. QED BY <1>d, <2>1, <2>2 DEF InOrder, Appends
<1>1. CASE CbRevisit
  BY <1>1, StillFold DEF CbRevisit, CbEvent, EvM
<1>2. CASE CbRefresh
  <2>. DEFINE n == First(cb.refresh)
              e == EvM("nodeInstanceSuperseded", n, snap.eff[n], 0, cb.m, "none")
  <2>1. n \in Node /\ cb.m \in Node
    BY <1>2, <1>c, FirstOf DEF CbRefresh, TypeInv, CbOK, CbType
  <2>2. InOrder(e) /\ e.type = "nodeInstanceSuperseded"
    <3>1. snap.eff[n] \in 0 .. MaxInst
      BY <1>c, <2>1 DEF Snapshot
    <3>. HIDE DEF n
    <3>2. e \in Event
      BY <2>1, <3>1, EvType DEF EventType, Detail, BlockCode
    <3>. QED BY <3>2 DEF InOrder, Safe, Closes, WellFormed, EvM, Opens, Fits
  <2>3. Append(e)
    BY <1>2 DEF CbRefresh
  <2>. QED BY <2>2, <2>3 DEF Appends
<1>3. CASE CbRetry
  BY <1>3, <1>a, <1>c, <1>d DEF CbRetry, TypeInv, CbOK, CbType, Appends
<1>4. CASE Promises
  BY <1>4, <1>a DEF Promises, Settle, Judge
<1>5. CASE WorkerExit
  BY <1>5, <1>a DEF WorkerExit
<1>6. CASE GateClick
  <2>1. PICK n \in Node, choice \in {"approved", "rejected"} :
          /\ snap.status[n] = "gateWaiting"
          /\ Append(EvX("gateResolved", n, snap.eff[n], 0, choice))
    BY <1>6 DEF GateClick, Click
  <2>. DEFINE e == EvX("gateResolved", n, snap.eff[n], 0, choice)
  <2>2. snap.eff[n] \in 0 .. MaxInst /\ snap.eff[n] # 0
    BY <1>c, <2>1 DEF TypeInv, JournalOK, GatesNamed, Snapshot
  <2>3. InOrder(e) /\ e.type = "gateResolved"
    BY <2>1, <2>2, EvType DEF WellFormed, EventType, EvX, Detail, Fits, Opens, Engaged, InOrder, Safe, Closes
  <2>. QED BY <2>1, <2>3 DEF Appends
<1>7. CASE Retry
  BY <1>7, <1>d DEF Retry, Appends
<1>8. CASE GrantRevisit
  BY <1>8, <1>a, StillFold DEF GrantRevisit, EvM
<1>9. CASE Cancel \/ ForeignCancel
  BY <1>9, StillFold DEF Cancel, CancelAnd, ForeignCancel, Ev
<1>10. CASE BareAbort \/ Crash
  BY <1>10, <1>a DEF BareAbort, Crash
<1>. QED BY <1>1, <1>2, <1>3, <1>4, <1>5, <1>6, <1>7, <1>8, <1>9, <1>10
         DEF Callback, Human, Environment, Appends

\* Striking what has no worker, finalizing over an empty ledger, publishing the verdict.
LEMMA RunMove ==
  ASSUME AllInv
  PROVE  /\ Cancelling => /\ StrikeNodes({n \in Node : snap.status[n] \in {"pending", "gateWaiting"}})
                          /\ snap'.run = snap.run
         /\ Finalize => /\ \/ UNCHANGED snap
                           \/ \E S \in SUBSET Node : SameNodes(StrikeAll(snap, S, tally.last), snap')
                        /\ open' \subseteq open /\ open = {}
         /\ Publish => /\ SameNodes(snap, snap') /\ open' = open
                       /\ snap'.run = snap.run \/ open = {}
<1>a. snap \in Snapshot /\ tally.last \in [Key -> Nat]
  BY DEF AllInv, TypeInv, JournalOK, Tally
<1>1. ASSUME Cancelling
      PROVE  /\ StrikeNodes({n \in Node : snap.status[n] \in {"pending", "gateWaiting"}})
             /\ snap'.run = snap.run
  <2>. DEFINE S == {n \in Node : snap.status[n] \in {"pending", "gateWaiting"}}
  <2>1. StrikeNodes(S) /\ S \in SUBSET Node
    BY <1>1 DEF Cancelling
  <2>. HIDE DEF S
  <2>2. snap' = StrikeAll(snap, S, tally.last)
    BY <2>1 DEF StrikeNodes
  <2>. QED BY <1>a, <2>1, <2>2, StrikeEffect DEF S
<1>2. ASSUME Finalize
      PROVE  /\ \/ UNCHANGED snap
                \/ \E S \in SUBSET Node : SameNodes(StrikeAll(snap, S, tally.last), snap')
             /\ open' \subseteq open /\ open = {}
  <2>. DEFINE S == {n \in Node : snap.status[n] \in {"pending", "gateWaiting", "running"}}
              struck == StrikeAll(snap, S, tally.last)
              e == Ev("runCancelled", AnyNode, 0, 0)
  <2>1. struck \in Snapshot
    BY <1>a, StrikeAllType
  <2>2. SameNodes(struck, Fold(struck, e))
    <3>1. e.type \in Silent
      BY DEF Ev, Silent, RunEvent
    <3>. HIDE DEF struck, e
    <3>. QED BY <2>1, <3>1, SilentFold
  <2>3. snap' = snap \/ snap' = Fold(struck, e)
    BY <1>2 DEF Finalize
  <2>4. S \in SUBSET Node
    OBVIOUS
  <2>5. snap' = Fold(struck, e) => SameNodes(StrikeAll(snap, S, tally.last), snap')
    <3>. HIDE DEF e, S
    <3>. QED BY <2>2
  <2>6. open' \subseteq open /\ open = {}
    BY <1>2 DEF Finalize, AllInv, WorkerInv, QuiescentInv
  <2>. HIDE DEF S, e, struck
  <2>. QED BY <2>3, <2>4, <2>5, <2>6
<1>3. ASSUME Publish
      PROVE  SameNodes(snap, snap') /\ open' = open /\ (snap'.run = snap.run \/ open = {})
  <2>1. CASE UNCHANGED journal
    BY <2>1 DEF journal, SameNodes
  <2>2. CASE open = {} /\ \E e \in TerminalEvent(snap) : Append(e)
    <3>1. PICK e \in TerminalEvent(snap) : Append(e)
      BY <2>2
    <3>2. e.type \in RunEvent /\ e.type \notin Opens \cup Closes \cup {"nodeCancelled"}
      BY DEF TerminalEvent, Ev, RunEvent, Opens, Closes
    <3>. QED BY <1>a, <2>2, <3>1, <3>2, SilentFold, LedgerEffect DEF Append, Silent
  <2>. QED BY <1>3, <2>1, <2>2 DEF Publish
<1>. QED BY <1>1, <1>2, <1>3

----------------------------------------------------------------------------
(* Claims and spawns, workers and promises.                                *)

\* A claim starts the instance decideNext chose, under a new number, and nothing else.
Claims(act, a) ==
  /\ act \in plan /\ act.kind = "work" /\ act.n \in Node /\ act.k \in Inst /\ act \in Action
  /\ snap.status[act.n] = "pending" /\ act.k = InstanceFor(snap, act.n)
  /\ snap.run = "running" /\ snap'.run = "running"
  /\ Begins(snap, snap', act.n, act.k, "running") /\ snap'.att[<<act.n, act.k>>] = a
  /\ FrameOf(snap, snap', act.n, act.k) /\ Views(snap')
  /\ a \in Nat /\ a = tally.last[<<act.n, act.k>>] + 1 /\ tally'.last[<<act.n, act.k>>] = a
  /\ \A key \in Key : key # <<act.n, act.k>> => tally'.last[key] = tally.last[key]
  /\ open' = open \cup {<<act.n, act.k, a>>}
  /\ item' = act /\ plan' = plan \ {act}

\* That is what a claim does.
LEMMA ClaimEffect ==
  ASSUME AllInv, ClaimWork
  PROVE  \E act, a : Claims(act, a)
<1>1. PICK act \in plan :
        /\ act.kind = "work" /\ item' = act /\ snap.status[act.n] = "pending" /\ snap.run = "running"
        /\ Append(Ev("nodeDispatched", act.n, act.k, NextAttempt(tally, act.n, act.k)))
        /\ plan' = plan \ {act}
  BY DEF ClaimWork, Claimable
<1>. DEFINE key == <<act.n, act.k>>
            a == NextAttempt(tally, act.n, act.k)
            e == Ev("nodeDispatched", act.n, act.k, a)
<1>2. act.n \in Node /\ act.k \in Inst /\ act.k # 0 /\ act.k \in 0 .. MaxInst /\ key \in Key /\ act \in Action
  BY <1>1, StateAssumption DEF AllInv, TypeInv, DriverOK, PlanOK, Action, Inst, Key
<1>3. act.k = InstanceFor(snap, act.n)
  BY <1>1 DEF ClaimWork, AllInv, WorkerInv, PlanInv
<1>4. a = tally.last[key] + 1 /\ tally.last[key] \in Nat /\ a \in Nat
  BY <1>2, NextIsNext DEF AllInv, TypeInv, JournalOK, Tally
<1>5. snap \in Snapshot /\ Views(snap) /\ tally \in Tally
  BY DEF AllInv, TypeInv, JournalOK, WorkerInv, ViewInv
<1>6. snap' = Fold(snap, e) /\ open' = Ledger(open, e) /\ tally' = Count(tally, e)
  BY <1>1 DEF Append
<1>7. tally' = [tally EXCEPT !.last[key] = IF a > @ THEN a ELSE @,
                             !.reserved[key] = IF a = @ THEN 0 ELSE @]
  BY <1>6 DEF Count, Ev
<1>8. open' = open \cup {<<act.n, act.k, a>>}
  BY <1>6, LedgerEffect DEF Ev, Opens
<1>9. e.type = "nodeDispatched" /\ e.n = act.n /\ e.k = act.k /\ e.a = a
  BY DEF Ev
<1>10. WellFormed(e)
  <2>. HIDE DEF a
  <2>1. e \in Event
    BY <1>2, <1>4, EvType DEF EventType, Detail, BlockCode
  <2>. QED BY <1>2, <1>9, <2>1 DEF WellFormed
<1>. HIDE DEF e, a
<1>11. tally'.last = [tally.last EXCEPT ![key] = a]
  <2>1. (IF a > tally.last[key] THEN a ELSE tally.last[key]) = a
    BY <1>4
  <2>2. tally'.last = [tally.last EXCEPT ![key] = IF a > @ THEN a ELSE @]
    BY <1>5, <1>7 DEF Tally
  <2>. HIDE DEF key
  <2>. QED BY <2>1, <2>2
<1>12. tally'.last[key] = a /\ \A other \in Key : other # key => tally'.last[other] = tally.last[other]
  BY <1>2, <1>5, <1>11 DEF Tally
<1>13. Fits(snap, e)
  BY <1>1, <1>3, <1>9 DEF Fits
<1>14. Views(snap') /\ FrameOf(snap, snap', act.n, act.k)
  BY <1>5, <1>6, <1>9, <1>10, <1>13, ViewsFold, FrameFold
<1>15. snap.inst[key] \in {"pending", "absent"}
  BY <1>1, <1>2, <1>3, <1>5, StartIsFree
<1>16. snap'.run = "running" /\ Begins(snap, snap', act.n, act.k, "running") /\ snap'.att[key] = a
  <2>1. ~Cut(snap)
    BY <1>1 DEF Cut
  <2>. QED BY <1>1, <1>5, <1>6, <1>9, <1>10, <1>15, <2>1, DispatchedEffect
<1>. QED BY <1>1, <1>2, <1>3, <1>4, <1>8, <1>12, <1>14, <1>16 DEF Claims

\* Only the spawn starts a worker.
LEMMA WorkersStay ==
  ASSUME AllInv, [Next]_vars, ~Arm
  PROVE  alive' \subseteq alive /\ spawned' = spawned
<1>1. CASE ClaimWork
  BY <1>1 DEF ClaimWork
<1>2. CASE Retry \/ CbRetry
  BY <1>2 DEF Retry, CbRetry, history
<1>3. CASE UNCHANGED vars
  BY <1>3 DEF vars, history
<1>. QED BY <1>1, <1>2, <1>3, TickCalm, OutsideCalm DEF AllInv, Next, Human, Callback, Tick, Calm

\* And it starts one for the claimed attempt.
LEMMA ArmEffect ==
  ASSUME AllInv, Arm
  PROVE  /\ ItemKey \in Key /\ ItemKey = <<item.n, item.k>> /\ ItemAttempt = <<item.n, item.k, tally.last[ItemKey]>>
         /\ ItemAttempt \in Attempt
         /\ SameNodes(snap, snap') /\ snap'.run = snap.run /\ open' = open \cup {ItemAttempt} /\ tally'.last = tally.last
         /\ \/ UNCHANGED <<flight, alive, spawned>>
            \/ /\ alive' = alive \cup {ItemAttempt} /\ spawned' = spawned \cup {ItemAttempt}
               /\ flight'[ItemKey].att = tally.last[ItemKey] /\ flight'[ItemKey].phase = "run"
               /\ \A key \in Key : key # ItemKey => flight'[key] = flight[key]
<1>. DEFINE e == Ev("nodeWorkerFenceArmed", item.n, item.k, ItemAttempt[3])
<1>1. pc = "arm" /\ Append(e)
  BY DEF Arm, ArmIf
<1>2. ItemKey \in Key /\ ItemKey = <<item.n, item.k>> /\ tally.last[ItemKey] \in Nat
  BY <1>1, StateAssumption DEF AllInv, TypeInv, JournalOK, Tally, DriverOK, Action, Inst, Key, ItemKey
<1>3. ItemAttempt = <<item.n, item.k, tally.last[ItemKey]>> /\ ItemAttempt \in Attempt
  BY <1>2 DEF ItemAttempt, ItemKey, Attempt, Key
<1>4. SameNodes(snap, snap')
  BY <1>1, SilentFold DEF Ev, Silent, Append, AllInv, TypeInv, JournalOK
<1>5. snap'.run = snap.run
  BY <1>1 DEF Append, Fold, Applied, OnNodeEvent, Ev, RunEvent, PastCut
<1>6. open' = open \cup {ItemAttempt}
  BY <1>1, <1>3, LedgerEffect DEF Append, Ev, Opens
<1>7. tally'.last = tally.last
  BY <1>1, OtherEvents DEF Ev, AllInv, TypeInv
<1>8. flight \in [Key -> [att : Nat, phase : Phase, abort : Abort]]
  BY DEF AllInv, TypeInv, FlightOK
<1>9. \/ UNCHANGED <<flight, alive, spawned>>
      \/ /\ alive' = alive \cup {ItemAttempt} /\ spawned' = spawned \cup {ItemAttempt}
         /\ flight' = [flight EXCEPT ![ItemKey] = [att |-> tally.last[ItemKey], phase |-> "run",
                           abort |-> IF signal THEN "run" ELSE "none"]]
  BY DEF Arm, ArmIf, ItemAttempt, ItemKey
<1>10. flight' = [flight EXCEPT ![ItemKey] = [att |-> tally.last[ItemKey], phase |-> "run",
                           abort |-> IF signal THEN "run" ELSE "none"]] =>
         /\ flight'[ItemKey].att = tally.last[ItemKey] /\ flight'[ItemKey].phase = "run"
         /\ \A key \in Key : key # ItemKey => flight'[key] = flight[key]
  BY <1>2, <1>8
<1>. QED BY <1>2, <1>3, <1>4, <1>5, <1>6, <1>7, <1>9, <1>10

\* Every other step leaves a promise as it is or ends it; what is validated has no worker.
LEMMA PromisesStay ==
  ASSUME AllInv, [Next]_vars, ~Arm
  PROVE  \A key \in Key :
           /\ flight'[key].att \in {0, flight[key].att}
           /\ flight'[key].phase = "check" =>
                flight'[key].att = flight[key].att /\ <<key[1], key[2], flight[key].att>> \notin alive
<1>. DEFINE Goal == \A key \in Key :
           /\ flight'[key].att \in {0, flight[key].att}
           /\ flight'[key].phase = "check" =>
                flight'[key].att = flight[key].att /\ <<key[1], key[2], flight[key].att>> \notin alive
<1>. USE DEF Outside, Idling, Goto, local
<1>a. flight \in [Key -> [att : Nat, phase : Phase, abort : Abort]] /\ FlightOK
  BY DEF AllInv, TypeInv, FlightOK
<1>b. \A key \in Key : flight[key].phase = "check" => <<key[1], key[2], flight[key].att>> \notin alive
  BY DEF AllInv, WorkerInv, LedgerInv
<1>c. UNCHANGED flight => Goal
  BY <1>b
<1>d. (\A key \in Key : flight'[key].att = flight[key].att /\ flight'[key].phase = flight[key].phase) => Goal
  BY <1>b
<1>e. ASSUME NEW S, NEW reason, flight' = AbortAll(S, reason) PROVE Goal
  BY <1>a, <1>d, <1>e, AbortKeeps
<1>f. ASSUME Finally PROVE Goal
  <2>1. flight' = [flight EXCEPT ![CbKey] = NoFlight] \/ flight' = flight
    BY <1>f DEF Finally, CbKey
  <2>2. \A key \in Key : flight'[key] \in {flight[key], NoFlight}
    BY <1>a, <2>1
  <2>. QED BY <1>b, <2>2 DEF NoFlight
<1>g. ASSUME NEW S, NEW reason, Quiesce(S, reason) PROVE Goal
  BY <1>e, <1>g DEF Quiesce
<1>. SUFFICES Goal
  OBVIOUS
<1>. HIDE DEF Goal
<1>1. CASE Drive \/ Quiesced \/ DrainClosed \/ DrainPassed \/ Wake \/ Controlled \/ PassOver
           \/ Dispatched \/ NoticeCancel \/ SignalToJournal \/ Finalize \/ Publish \/ ResolveEdge
           \/ SkipNode \/ ClaimWork \/ ClaimGate \/ ArmFailed
  BY <1>c, <1>1 DEF Drive, Quiesced, DrainClosed, ProvesClosed, DrainPassed, Wake, Controlled, PassOver,
              Dispatched, NoticeCancel, SignalToJournal, Finalize, Publish, ResolveEdge, SkipNode,
              ClaimWork, ClaimGate, ArmFailed
<1>2. CASE Cancelling
  BY <1>2, <1>e DEF Cancelling
<1>3. CASE Boundary \/ DropObsolete \/ DropOrphaned \/ Decide \/ EndTick
  BY <1>3, <1>c, <1>g DEF Boundary, DropObsolete, DropOrphaned, Decide, EndTick, Return, GiveUp
<1>4. CASE CancelLoser
  BY <1>4, <1>c, <1>e DEF CancelLoser
<1>5. CASE CbVerdict \/ CbDrain \/ CbCancelled
  <2>1. UNCHANGED flight \/ Finally
    BY <1>5 DEF CbVerdict, CbDrain, CbCancelled
  <2>. QED BY <1>c, <1>f, <2>1
<1>6. CASE CbRevisit \/ CbRefresh \/ CbRetry
  BY <1>6, <1>c, <1>e DEF CbRevisit, CbRefresh, CbRetry
<1>7. CASE Settle
  <2>1. PICK n \in Node, k \in Inst :
          /\ <<n, k, flight[<<n, k>>].att>> \notin alive
          /\ UNCHANGED flight \/ flight' = [flight EXCEPT ![<<n, k>>].phase = "check"]
    BY <1>7 DEF Settle
  <2>2. <<n, k>> \in Key
    BY DEF Key
  <2>3. \A key \in Key : /\ flight'[key].att = flight[key].att
                         /\ flight'[key].phase = flight[key].phase \/ key = <<n, k>>
    BY <1>a, <2>1, <2>2
  <2>. QED BY <1>b, <2>1, <2>2, <2>3 DEF Goal
<1>8. CASE Judge \/ WorkerExit \/ GateClick \/ Retry \/ GrantRevisit \/ ForeignCancel
  BY <1>8, <1>c DEF Judge, WorkerExit, GateClick, Click, Retry, GrantRevisit, ForeignCancel
<1>9. CASE Cancel \/ BareAbort
  BY <1>9, <1>e DEF Cancel, CancelAnd, BareAbort
<1>10. CASE Crash
  <2>1. \A key \in Key : flight'[key] = NoFlight
    BY <1>10 DEF Crash
  <2>. QED BY <2>1 DEF Goal, NoFlight
<1>11. CASE UNCHANGED vars
  BY <1>11, <1>c DEF vars
<1>. QED BY <1>1, <1>2, <1>3, <1>4, <1>5, <1>6, <1>7, <1>8, <1>9, <1>10, <1>11
         DEF Goal, Next, Tick, Callback, Promises, Human, Environment

----------------------------------------------------------------------------
(* Every step keeps the views in step.                                     *)

\* No instance vanishes.
KeepsInstances(s, t) == \A key \in Key : s.inst[key] # "absent" => t.inst[key] # "absent"

\* Apart from a dispatch, every move keeps the views in step and makes nothing run.
LEMMA MoveEffect ==
  ASSUME AllInv,
         \/ SameNodes(snap, snap')
         \/ Appends(Loud \cup Soft)
         \/ \E S \in SUBSET Node : SameNodes(StrikeAll(snap, S, tally.last), snap')
  PROVE  Views(snap') /\ RunsStay(snap, snap') /\ KeepsInstances(snap, snap')
<1>a. snap \in Snapshot /\ Views(snap)
  BY DEF AllInv, TypeInv, JournalOK, WorkerInv, ViewInv
<1>b. ASSUME NEW s, SameNodes(s, snap'), Views(s), RunsStay(snap, s), KeepsInstances(snap, s)
      PROVE  Views(snap') /\ RunsStay(snap, snap') /\ KeepsInstances(snap, snap')
  BY <1>b DEF SameNodes, Views, Mirror, Exists, Gapless, RunsStay, KeepsInstances
<1>1. CASE SameNodes(snap, snap')
  BY <1>a, <1>b, <1>1 DEF RunsStay, KeepsInstances
<1>2. CASE Appends(Loud \cup Soft)
  <2>1. PICK e : /\ WellFormed(e) /\ Fits(snap, e) /\ e.type \in Loud \cup Soft /\ snap' = Fold(snap, e)
    BY <1>2 DEF Appends, InOrder, Append
  <2>. QED BY <1>a, <2>1, ViewsFold, RunsFold, FrameFold DEF FrameOf, KeepsInstances, Loud, Soft
<1>3. CASE \E S \in SUBSET Node : SameNodes(StrikeAll(snap, S, tally.last), snap')
  <2>1. PICK S \in SUBSET Node : SameNodes(StrikeAll(snap, S, tally.last), snap')
    BY <1>3
  <2>. DEFINE s == StrikeAll(snap, S, tally.last)
  <2>2. Views(s) /\ RunsStay(snap, s)
    BY <1>a, ViewsStrike, RunsStrike
  <2>3. KeepsInstances(snap, s)
    BY SMTT(30), <1>a, StrikeEffect DEF KeepsInstances
  <2>. HIDE DEF s
  <2>. QED BY <1>b, <2>1, <2>2, <2>3 DEF s
<1>. QED BY <1>1, <1>2, <1>3

\* Every step but a start makes such a move, and puts up no gate.
LEMMA QuietMove ==
  ASSUME AllInv, [Next]_vars, ~ClaimWork, ~ClaimGate
  PROVE  \/ SameNodes(snap, snap')
         \/ Appends((Loud \cup Soft) \ {"gateDispatched"})
         \/ \E S \in SUBSET Node : SameNodes(StrikeAll(snap, S, tally.last), snap')
<1>. USE DEF Appends, Loud, Soft, Still
<1>1. CASE UNCHANGED vars
  BY <1>1 DEF vars, journal, SameNodes
<1>2. CASE Arm
  BY <1>2, ArmEffect
<1>3. CASE ArmFailed
  BY <1>3, StartMove DEF Ev
<1>4. CASE Cancelling
  BY <1>4, RunMove DEF StrikeNodes, SameNodes
<1>5. CASE Finalize \/ Publish
  BY <1>5, RunMove DEF SameNodes
<1>6. CASE CbVerdict \/ CbDrain \/ CbCancelled
  BY <1>6, SettleMove DEF SettleTypes, journal, SameNodes
<1>. QED BY <1>1, <1>2, <1>3, <1>4, <1>5, <1>6, TickMove, OutsideMove DEF Next

\* Every step but a claim makes such a move.
LEMMA EveryMove ==
  ASSUME AllInv, [Next]_vars, ~ClaimWork
  PROVE  \/ SameNodes(snap, snap')
         \/ Appends(Loud \cup Soft)
         \/ \E S \in SUBSET Node : SameNodes(StrikeAll(snap, S, tally.last), snap')
<1>1. CASE ClaimGate
  BY <1>1, StartMove DEF Appends, Loud
<1>2. CASE ~ClaimGate
  <2>1. Appends((Loud \cup Soft) \ {"gateDispatched"}) => Appends(Loud \cup Soft)
    BY DEF Appends
  <2>. QED BY <1>2, <2>1, QuietMove
<1>. QED BY <1>1, <1>2

\* Every step keeps the views in step.
LEMMA ViewStep == ASSUME AllInv, [Next]_vars PROVE ViewInv'
<1>a. /\ Views(snap) /\ LatestRuns /\ WorkersKnown
      /\ spawned \subseteq Attempt
  BY DEF AllInv, WorkerInv, ViewInv, TypeInv, OutsideOK
<1>b. \A x \in spawned : KeyOf(x) \in Key
  BY <1>a DEF Attempt, KeyOf, Key
<1>1. Views(snap') /\ KeepsInstances(snap, snap') /\ LatestRuns'
  <2>1. CASE ClaimWork
    <3>1. PICK act, a : Claims(act, a)
      BY <2>1, ClaimEffect
    <3>2. Views(snap') /\ KeepsInstances(snap, snap')
      BY <3>1 DEF Claims, FrameOf, KeepsInstances
    <3>3. LatestRuns'
      BY <1>a, <3>1 DEF Claims, FrameOf, LatestRuns
    <3>. QED BY <3>2, <3>3
  <2>2. CASE ~ClaimWork
    <3>2. Views(snap') /\ KeepsInstances(snap, snap') /\ RunsStay(snap, snap')
      BY <2>2, EveryMove, MoveEffect
    <3>3. tally'.last = tally.last
      BY <2>2, LastStays DEF AllInv
    <3>. QED BY <1>a, <3>2, <3>3 DEF RunsStay, LatestRuns
  <2>. QED BY <2>1, <2>2
<1>2. WorkersKnown'
  <2>1. CASE Arm
    <3>1. snap.inst[ItemKey] # "absent" /\ pc = "arm"
      BY <1>a, <2>1, ArmEffect DEF Arm, ArmIf, Views, Exists, AllInv, WorkerInv, EngagedInv, TypeInv, DriverOK,
         ItemKey, Action
    <3>2. snap'.inst = snap.inst
      BY <2>1, ArmEffect DEF SameNodes
    <3>3. KeyOf(ItemAttempt) = ItemKey
      BY <2>1, ArmEffect DEF KeyOf
    <3>. QED BY <1>a, <2>1, <3>1, <3>2, <3>3, ArmEffect DEF WorkersKnown
  <2>2. CASE ~Arm
    <3>1. /\ alive' \subseteq alive /\ spawned' = spawned
          /\ \A key \in Key : flight'[key].att \in {0, flight[key].att}
      BY <2>2, WorkersStay, PromisesStay
    <3>. QED BY <1>a, <1>b, <1>1, <3>1 DEF WorkersKnown, KeepsInstances
  <2>. QED BY <2>1, <2>2
<1>. QED BY <1>1, <1>2 DEF ViewInv

----------------------------------------------------------------------------
(* Workers and promises show on their nodes.                               *)

\* No live instance changes hands, and what is at work stays at work or is cancelled.
EngStay(s, t) ==
  \A n \in Node : t.eff[n] # 0 => t.eff[n] = s.eff[n] /\ (s.status[n] \in Engaged => t.status[n] \in Engaged)

\* Soft events are like that.
LEMMA SoftEngages ==
  ASSUME NEW s \in Snapshot, NEW e, WellFormed(e), Fits(s, e), e.type \in Soft
  PROVE  EngStay(s, Fold(s, e))
<1>. DEFINE t == Fold(s, e)
<1>. USE DEF Engaged
<1>a. e.n \in Node /\ s.eff \in [Node -> 0 .. MaxInst]
  BY DEF WellFormed, Event, Snapshot
<1>b. \A m \in Node : m # e.n => t.status[m] = s.status[m] /\ t.eff[m] = s.eff[m]
  BY FrameFold DEF FrameOf
<1>. SUFFICES ASSUME t.eff[e.n] # 0
              PROVE  t.eff[e.n] = s.eff[e.n] /\ (s.status[e.n] \in Engaged => t.status[e.n] \in Engaged)
  BY <1>b DEF EngStay
<1>. HIDE DEF t
<1>1. CASE e.type = "nodeSkipped"
  BY <1>1, SkippedEffect DEF Fits, t
<1>2. CASE e.type = "nodeCancelled"
  BY <1>2, CancelledEffect DEF SameNodes, Shows, t
<1>3. CASE e.type = "nodeRetryRequested"
  BY <1>3, RetryEffect DEF SameNodes, Shows, Fits, t
<1>4. CASE e.type = "nodeInstanceSuperseded"
  BY <1>4, SupersededEffect DEF SameNodes, Fits, t
<1>5. CASE e.type = "gateResolved"
  BY <1>5, ClickEffect DEF SameNodes, Shows, Fits, t
<1>. QED BY <1>1, <1>2, <1>3, <1>4, <1>5 DEF Soft

\* So are settles and drains, for every node but the one whose live instance they name.
LEMMA SettleEngages ==
  ASSUME NEW s \in Snapshot, NEW e, WellFormed(e), Fits(s, e), e.type \in SettleTypes
  PROVE  LET t == Fold(s, e) IN
         /\ \A n \in Node : n # e.n => t.eff[n] = s.eff[n] /\ t.status[n] = s.status[n]
         /\ t.eff[e.n] = s.eff[e.n]
         /\ \/ s.status[e.n] \in Engaged => t.status[e.n] \in Engaged
            \/ s.eff[e.n] = e.k /\ e.type # "nodeCancelled"
         /\ e.type = "nodeAttemptDrained" /\ t.status[e.n] # s.status[e.n] =>
              s.inst[<<e.n, e.k>>] = "running" /\ s.att[<<e.n, e.k>>] = e.a
<1>. DEFINE t == Fold(s, e)
<1>a. e.n \in Node
  BY DEF WellFormed, Event
<1>b. \A m \in Node : m # e.n => t.status[m] = s.status[m] /\ t.eff[m] = s.eff[m]
  BY FrameFold DEF FrameOf
<1>1. CASE e.type \in {"nodeSucceeded", "nodeFailed", "nodeBlocked"}
  BY <1>1, <1>a, <1>b, SettleEffect DEF SameNodes, Shows, Fits
<1>2. CASE e.type = "nodeAttemptDrained"
  BY <1>2, <1>a, <1>b, DrainedEffect DEF SameNodes
<1>3. CASE e.type = "nodeCancelled"
  BY <1>3, <1>a, <1>b, CancelledEffect DEF SameNodes, Shows, Engaged
<1>. QED BY <1>1, <1>2, <1>3 DEF SettleTypes

\* The callback that settles a promise stays until the promise is gone.
LEMMA CallbackStays ==
  ASSUME AllInv, [Next]_vars, CbBusy, cb.mine
  PROVE  (CbBusy' /\ cb'.mine /\ CbKey' = CbKey) \/ flight'[CbKey].att = 0
<1>a. CbKey \in Key /\ flight \in [Key -> [att : Nat, phase : Phase, abort : Abort]] /\ cb \in CbType
  BY StateAssumption DEF AllInv, TypeInv, FlightOK, CbOK, CbType, CbBusy, CbKey, Key, Inst
<1>b. cb.step # "none"
  BY DEF CbBusy
<1>c. UNCHANGED cb => CbBusy' /\ cb'.mine /\ CbKey' = CbKey
  BY DEF CbBusy, CbKey
<1>d. Finally => flight'[CbKey].att = 0
  BY <1>a DEF Finally, CbKey, NoFlight
<1>e. ASSUME NEW rest, Refreshing(rest) PROVE CbBusy' /\ cb'.mine /\ CbKey' = CbKey
  BY <1>a, <1>e DEF Refreshing, CbBusy, CbKey, CbType
<1>1. CASE Drive \/ WorkerExit \/ ForeignCancel \/ UNCHANGED vars
  BY <1>1, <1>c DEF Drive, WorkerExit, ForeignCancel, vars, local
<1>2. CASE CbVerdict \/ CbCancelled
  BY <1>2, <1>d DEF CbVerdict, CbCancelled
<1>3. CASE CbDrain
  <2>1. cb' = [cb EXCEPT !.step = "cancelled"] \/ Finally
    BY <1>3 DEF CbDrain
  <2>2. cb' = [cb EXCEPT !.step = "cancelled"] => CbBusy' /\ cb'.mine /\ CbKey' = CbKey
    BY <1>a DEF CbBusy, CbKey, CbType
  <2>. QED BY <1>d, <2>1, <2>2
<1>4. CASE CbRevisit \/ CbRefresh
  BY <1>4, <1>e DEF CbRevisit, CbRefresh
<1>5. CASE Crash
  BY <1>5, <1>a DEF Crash, NoFlight
<1>6. ~Tick
  BY <1>b DEF Tick, SignalToJournal, Cancelling, Finalize, Boundary, DropObsolete, DropOrphaned,
     Decide, Publish, Quiesced, DrainClosed, ProvesClosed, DrainPassed, Wake, ResolveEdge, SkipNode,
     Controlled, ClaimWork, ClaimGate, PassOver, Dispatched, Arm, ArmIf, ArmFailed, CancelLoser,
     EndTick, NoticeCancel, Running, Top, Steps
<1>7. ~Promises /\ ~Human /\ ~Cancel /\ ~BareAbort /\ ~CbRetry
  BY <1>b DEF Promises, Settle, Judge, Human, GateClick, Click, Retry, GrantRevisit, Cancel, CancelAnd,
     BareAbort, Quiet, CbRetry, CbBusy
<1>. QED BY <1>1, <1>2, <1>3, <1>4, <1>5, <1>6, <1>7 DEF Next, Callback, Environment

\* A node whose live instance has neither a worker nor a promise of its latest attempt.
NodeFree(n) ==
  /\ \A x \in alive : x[1] = n => ~(x[2] = snap.eff[n] /\ x[3] = tally.last[KeyOf(x)])
  /\ \A key \in Key : key[1] = n /\ key[2] = snap.eff[n] =>
       flight[key].att = 0 \/ (CbBusy /\ cb.mine /\ CbKey = key)

\* A step that numbers and starts nothing, and takes only free nodes out of work.
LEMMA EngagedStays ==
  ASSUME AllInv, [Next]_vars, tally'.last = tally.last, alive' \subseteq alive,
         \A key \in Key : flight'[key].att \in {0, flight[key].att},
         pc' = "arm" => pc = "arm" /\ item' = item /\ SameNodes(snap, snap'),
         \A n \in Node : snap'.eff[n] # 0 =>
           /\ snap'.eff[n] = snap.eff[n]
           /\ snap.status[n] \in Engaged => snap'.status[n] \in Engaged \/ NodeFree(n)
  PROVE  EngagedInv'
<1>a. /\ alive' \subseteq alive /\ alive \subseteq Attempt
      /\ \A key \in Key : flight'[key].att \in {0, flight[key].att}
  BY DEF AllInv, TypeInv, OutsideOK
<1>b. EngagedInv /\ item \in Action /\ snap \in Snapshot
  BY DEF AllInv, WorkerInv, TypeInv, DriverOK, JournalOK
<1>c. \A x \in Attempt : x[1] \in Node /\ x[2] # 0 /\ KeyOf(x) \in Key
  BY StateAssumption DEF Attempt, Inst, KeyOf, Key
<1>d. \A key \in Key : key[1] \in Node /\ key[2] # 0
  BY StateAssumption DEF Key, Inst
<1>1. ASSUME NEW x \in alive', x[2] = snap'.eff[x[1]], x[3] = tally'.last[KeyOf(x)]
      PROVE  snap'.status[x[1]] \in Engaged
  <2>1. x \in alive /\ x[1] \in Node /\ x[2] # 0
    BY <1>a, <1>c
  <2>2. x[2] = snap.eff[x[1]] /\ x[3] = tally.last[KeyOf(x)]
    BY <1>1, <2>1
  <2>3. snap.status[x[1]] \in Engaged
    BY <1>b, <2>1, <2>2 DEF EngagedInv
  <2>4. ~NodeFree(x[1])
    BY <2>1, <2>2 DEF NodeFree
  <2>. QED BY <1>1, <2>1, <2>3, <2>4
<1>2. ASSUME NEW key \in Key, flight'[key].att # 0, snap'.eff[key[1]] = key[2],
             ~(CbBusy' /\ cb'.mine /\ CbKey' = key)
      PROVE  snap'.status[key[1]] \in Engaged
  <2>1. flight[key].att # 0 /\ key[1] \in Node /\ key[2] # 0
    BY <1>a, <1>d, <1>2
  <2>2. snap.eff[key[1]] = key[2]
    BY <1>2, <2>1
  <2>3. ~(CbBusy /\ cb.mine /\ CbKey = key)
    BY <1>2, CallbackStays
  <2>4. snap.status[key[1]] \in Engaged
    BY <1>b, <2>1, <2>2, <2>3 DEF EngagedInv
  <2>5. ~NodeFree(key[1])
    BY <2>1, <2>2, <2>3 DEF NodeFree
  <2>. QED BY <1>2, <2>1, <2>4, <2>5
<1>3. pc' = "arm" => snap'.eff[item'.n] = item'.k /\ snap'.status[item'.n] = "running"
  BY <1>b DEF EngagedInv, SameNodes
<1>. QED BY <1>1, <1>2, <1>3 DEF EngagedInv

\* Soft steps, strikes and steps that touch no node are such steps.
LEMMA CalmEngaged ==
  ASSUME AllInv, [Next]_vars, ~Arm, ~ClaimWork,
         pc' = "arm" => pc = "arm" /\ item' = item /\ SameNodes(snap, snap'),
         \/ SameNodes(snap, snap')
         \/ Appends(Soft)
         \/ \E S \in SUBSET Node : SameNodes(StrikeAll(snap, S, tally.last), snap')
  PROVE  EngagedInv'
<1>a. snap \in Snapshot /\ TypeInv
  BY DEF AllInv, TypeInv, JournalOK
<1>1. EngStay(snap, snap')
  <2>1. CASE SameNodes(snap, snap')
    BY <2>1 DEF SameNodes, EngStay
  <2>2. CASE Appends(Soft)
    BY <1>a, <2>2, SoftEngages DEF Appends, InOrder, Append
  <2>3. CASE \E S \in SUBSET Node : SameNodes(StrikeAll(snap, S, tally.last), snap')
    <3>1. PICK S \in SUBSET Node : SameNodes(StrikeAll(snap, S, tally.last), snap')
      BY <2>3
    <3>. DEFINE t == StrikeAll(snap, S, tally.last)
    <3>2. t.eff = snap.eff /\ \A n \in Node : t.status[n] = IF n \in S THEN "cancelled" ELSE snap.status[n]
      BY <1>a, StrikeEffect
    <3>. HIDE DEF t
    <3>. QED BY <3>1, <3>2 DEF SameNodes, EngStay, Engaged, t
  <2>. QED BY <2>1, <2>2, <2>3
<1>2. tally'.last = tally.last
  BY <1>a, LastStays
<1>3. alive' \subseteq alive /\ \A key \in Key : flight'[key].att \in {0, flight[key].att}
  BY WorkersStay, PromisesStay
<1>. QED BY <1>1, <1>2, <1>3, EngagedStays DEF EngStay

\* A settling attempt is the latest one of a free node, or its record does not show.
LEMMA SettleEngaged ==
  ASSUME AllInv, [Next]_vars, CbVerdict \/ CbDrain \/ CbCancelled
  PROVE  EngagedInv'
<1>a. snap \in Snapshot /\ TypeInv /\ cb.step # "none" /\ CbBusy
  BY DEF AllInv, TypeInv, JournalOK, CbVerdict, CbDrain, CbCancelled, CbBusy
<1>b. CbKey \in Key /\ CbKey = <<cb.n, cb.k>> /\ CbAttempt = <<cb.n, cb.k, cb.a>> /\ alive \subseteq Attempt
  <2>1. cb.n \in Node /\ cb.k \in 0 .. MaxInst /\ cb.k # 0 /\ alive \subseteq Attempt
    BY <1>a DEF TypeInv, CbOK, CbType, CbBusy, OutsideOK
  <2>2. <<cb.n, cb.k>> \in Key
    BY <2>1, StateAssumption DEF Key, Inst
  <2>. QED BY <2>1, <2>2 DEF CbKey, CbAttempt
<1>c. ~Arm /\ ~ClaimWork /\ pc' # "arm"
  <2>1. pc # "arm"
    BY <1>a DEF AllInv, GateInv, CbWhere, Awaits
  <2>2. pc' \in {pc, "top"}
    BY DEF CbVerdict, CbDrain, CbCancelled, Finally
  <2>. QED BY <1>a, <2>1, <2>2 DEF Arm, ArmIf, ClaimWork, Steps
<1>d. alive' \subseteq alive /\ \A key \in Key : flight'[key].att \in {0, flight[key].att}
  BY <1>c, WorkersStay, PromisesStay
<1>1. CASE UNCHANGED journal
  BY <1>1, <1>c, CalmEngaged DEF journal, SameNodes
<1>2. ASSUME NEW e, Append(e), InOrder(e), e.type \in SettleTypes,
             e.n = cb.n, e.k = cb.k, e.a = cb.a,
             cb.mine \/ e.type \in {"nodeAttemptDrained", "nodeCancelled"} \/ tally.last[CbKey] = cb.a
      PROVE  EngagedInv'
  <2>1. WellFormed(e) /\ Fits(snap, e) /\ snap' = Fold(snap, e)
    BY <1>2 DEF InOrder, Append
  <2>2. /\ \A n \in Node : n # cb.n => snap'.eff[n] = snap.eff[n] /\ snap'.status[n] = snap.status[n]
        /\ snap'.eff[cb.n] = snap.eff[cb.n]
        /\ \/ snap.status[cb.n] \in Engaged => snap'.status[cb.n] \in Engaged
           \/ snap.eff[cb.n] = cb.k /\ e.type # "nodeCancelled"
        /\ e.type = "nodeAttemptDrained" /\ snap'.status[cb.n] # snap.status[cb.n] =>
             snap.inst[CbKey] = "running" /\ snap.att[CbKey] = cb.a
    BY <1>a, <1>b, <1>2, <2>1, SettleEngages
  <2>3. cb.mine => tally.last[CbKey] = cb.a
    BY <1>a, <1>b DEF AllInv, WorkerInv, FlightInv, FlightIsLatest, CbInFlight
  <2>4. ASSUME tally.last[CbKey] = cb.a, snap.eff[cb.n] = cb.k PROVE NodeFree(cb.n)
    <3>1. \A x \in alive : x[1] = cb.n => ~(x[2] = snap.eff[cb.n] /\ x[3] = tally.last[KeyOf(x)])
      <4>. SUFFICES ASSUME NEW x \in alive, x[1] = cb.n, x[2] = cb.k, x[3] = tally.last[KeyOf(x)]
                    PROVE  FALSE
        BY <2>4
      <4>1. KeyOf(x) = CbKey /\ x = <<x[1], x[2], x[3]>>
        BY <1>b DEF KeyOf, Attempt
      <4>2. x = CbAttempt
        BY <1>b, <2>4, <4>1
      <4>. QED BY <1>a, <4>2 DEF AllInv, WorkerInv, LedgerInv
    <3>2. \A key \in Key : key[1] = cb.n /\ key[2] = snap.eff[cb.n] =>
            flight[key].att = 0 \/ (CbBusy /\ cb.mine /\ CbKey = key)
      <4>. SUFFICES ASSUME NEW key \in Key, key[1] = cb.n, key[2] = cb.k
                    PROVE  flight[key].att = 0 \/ (CbBusy /\ cb.mine /\ CbKey = key)
        BY <2>4
      <4>1. key = CbKey
        BY <1>b DEF Key
      <4>. QED BY <1>a, <2>4, <4>1 DEF AllInv, WorkerInv, FlightInv, FlightIsLatest, CbInFlight
    <3>. QED BY <3>1, <3>2 DEF NodeFree
  <2>5. snap'.status[cb.n] # snap.status[cb.n] /\ e.type # "nodeCancelled" => tally.last[CbKey] = cb.a
    BY <1>b, <1>2, <2>2, <2>3 DEF AllInv, WorkerInv, ViewInv, LatestRuns
  <2>6. snap.status[cb.n] \in Engaged => snap'.status[cb.n] \in Engaged \/ NodeFree(cb.n)
    BY <2>2, <2>4, <2>5
  <2>7. tally'.last = tally.last
    BY <1>a, <1>c, LastStays
  <2>. QED BY <1>c, <1>d, <2>2, <2>6, <2>7, EngagedStays
<1>. QED BY <1>a, <1>1, <1>2, SettleMove

\* The claimed instance of a start that failed has no worker yet.
LEMMA ArmFailedEngaged ==
  ASSUME AllInv, [Next]_vars, ArmFailed
  PROVE  EngagedInv'
<1>a. pc = "arm" /\ pc' = "dispatch" /\ snap \in Snapshot /\ TypeInv
  BY DEF ArmFailed, AllInv, TypeInv, JournalOK
<1>b. ItemKey \in Key /\ ItemKey = <<item.n, item.k>> /\ tally.last[ItemKey] \in Nat
  BY <1>a, StateAssumption DEF TypeInv, JournalOK, Tally, DriverOK, Action, Inst, Key, ItemKey
<1>. DEFINE e == Ev("nodeFailed", item.n, item.k, ItemAttempt[3])
<1>1. Append(e) /\ WellFormed(e) /\ Fits(snap, e)
  BY StartMove DEF InOrder
<1>2. /\ \A n \in Node : n # item.n => snap'.eff[n] = snap.eff[n] /\ snap'.status[n] = snap.status[n]
      /\ snap'.eff[item.n] = snap.eff[item.n]
  <2>1. e.type \in SettleTypes /\ e.n = item.n
    BY DEF Ev, SettleTypes
  <2>. HIDE DEF e
  <2>2. snap' = Fold(snap, e)
    BY <1>1 DEF Append
  <2>3. LET t == Fold(snap, e) IN
        /\ \A n \in Node : n # e.n => t.eff[n] = snap.eff[n] /\ t.status[n] = snap.status[n]
        /\ t.eff[e.n] = snap.eff[e.n]
    BY <1>a, <1>1, <2>1, SettleEngages
  <2>. QED BY <2>1, <2>2, <2>3
<1>3. snap.eff[item.n] = item.k
  BY <1>a DEF AllInv, WorkerInv, EngagedInv
<1>4. NodeFree(item.n)
  <2>1. ASSUME NEW x \in alive, x[1] = item.n, x[2] = snap.eff[item.n], x[3] = tally.last[KeyOf(x)]
        PROVE  FALSE
    <3>1. KeyOf(x) = ItemKey /\ x \in spawned
      BY <1>b, <1>3, <2>1 DEF KeyOf, AllInv, WorkerInv, ViewInv, WorkersKnown
    <3>2. x[3] < tally.last[ItemKey] /\ x[3] = tally.last[ItemKey]
      BY <1>a, <2>1, <3>1 DEF AllInv, NumbersInv, ClaimIsNew
    <3>. QED BY <1>b, <3>2
  <2>2. ASSUME NEW key \in Key, key[1] = item.n, key[2] = snap.eff[item.n] PROVE flight[key].att = 0
    <3>1. key = ItemKey
      BY <1>b, <1>3, <2>2 DEF Key
    <3>. QED BY <1>a, <3>1 DEF AllInv, WorkerInv, FlightInv, FlightIsLatest
  <2>. QED BY <2>1, <2>2 DEF NodeFree
<1>5. tally'.last = tally.last
  BY <1>a, LastStays DEF ClaimWork
<1>6. UNCHANGED <<flight, alive>>
  BY DEF ArmFailed, Outside
<1>7. \A n \in Node : snap'.eff[n] # 0 =>
        /\ snap'.eff[n] = snap.eff[n]
        /\ snap.status[n] \in Engaged => snap'.status[n] \in Engaged \/ NodeFree(n)
  BY <1>2, <1>4
<1>. QED BY <1>a, <1>5, <1>6, <1>7, EngagedStays

\* A claim, a spawn and a gate.
LEMMA StartEngaged ==
  ASSUME AllInv, [Next]_vars, ClaimWork \/ Arm \/ ClaimGate
  PROVE  EngagedInv'
<1>a. /\ snap \in Snapshot /\ TypeInv /\ EngagedInv /\ alive \subseteq Attempt /\ cb.step = "none" /\ cb' = cb
      /\ item \in Action /\ flight \in [Key -> [att : Nat, phase : Phase, abort : Abort]]
  BY DEF AllInv, TypeInv, JournalOK, OutsideOK, DriverOK, FlightOK, WorkerInv, ClaimWork, Arm, ArmIf, ClaimGate, Steps
<1>b. ~CbBusy /\ ~CbBusy'
  BY <1>a DEF CbBusy
<1>c. \A x \in Attempt : x[1] \in Node /\ x[2] \in Inst /\ x[2] # 0 /\ KeyOf(x) \in Key /\ KeyOf(x) = <<x[1], x[2]>>
  BY StateAssumption DEF Attempt, Inst, KeyOf, Key
<1>d. \A key \in Key : key[1] \in Node /\ key[2] \in Inst /\ key = <<key[1], key[2]>>
  BY DEF Key
<1>1. CASE ClaimWork
  <2>1. PICK act, a : Claims(act, a)
    BY <1>1, ClaimEffect
  <2>2. UNCHANGED <<flight, alive>>
    BY <1>1 DEF ClaimWork
  <2>3. /\ act.n \in Node /\ snap'.status[act.n] = "running" /\ snap'.eff[act.n] = act.k /\ item' = act
        /\ \A m \in Node : m # act.n => snap'.status[m] = snap.status[m] /\ snap'.eff[m] = snap.eff[m]
        /\ \A key \in Key : key[1] # act.n => tally'.last[key] = tally.last[key]
    BY <2>1, <1>d DEF Claims, Begins, FrameOf
  <2>4. \A x \in alive : x[2] = snap'.eff[x[1]] /\ x[3] = tally'.last[KeyOf(x)] => snap'.status[x[1]] \in Engaged
    BY <1>a, <1>c, <2>3 DEF EngagedInv, Engaged
  <2>5. \A key \in Key : flight[key].att # 0 /\ snap'.eff[key[1]] = key[2] => snap'.status[key[1]] \in Engaged
    BY <1>a, <1>b, <1>d, <2>3 DEF EngagedInv, Engaged
  <2>. QED BY <2>2, <2>3, <2>4, <2>5 DEF EngagedInv
<1>2. CASE Arm
  <2>1. /\ SameNodes(snap, snap') /\ tally'.last = tally.last /\ pc = "arm" /\ pc' = "dispatch"
        /\ alive' \subseteq alive \cup {ItemAttempt}
        /\ \A key \in Key : key # ItemKey => flight'[key] = flight[key]
    BY <1>2, ArmEffect DEF Arm, ArmIf
  <2>2. ItemAttempt[1] = item.n /\ ItemKey[1] = item.n /\ snap.status[item.n] = "running"
    BY <1>a, <2>1 DEF ItemAttempt, ItemKey, EngagedInv
  <2>. QED BY <1>a, <1>b, <2>1, <2>2 DEF EngagedInv, SameNodes, Engaged
<1>3. CASE ClaimGate
  <2>1. PICK e : /\ WellFormed(e) /\ Fits(snap, e) /\ e.type = "gateDispatched" /\ snap' = Fold(snap, e)
    BY <1>3, StartMove DEF Appends, InOrder, Append
  <2>2. UNCHANGED <<flight, alive, cb>> /\ pc' # "arm"
    BY <1>3 DEF ClaimGate, Outside
  <2>3. e.n \in Node /\ e.k \in Inst /\ e.k = InstanceFor(snap, e.n) /\ snap.status[e.n] = "pending"
    BY <2>1, StateAssumption DEF WellFormed, Event, Fits, Inst
  <2>4. /\ flight[<<e.n, e.k>>].att = 0
        /\ \A x \in alive : KeyOf(x) = <<e.n, e.k>> => x[3] # tally.last[<<e.n, e.k>>]
    BY <1>a, <2>3, PendingIsIdle
  <2>5. tally'.last = tally.last
    BY <1>a, <1>3, LastStays DEF ClaimGate, ClaimWork
  <2>6. /\ \A m \in Node : m # e.n => snap'.status[m] = snap.status[m] /\ snap'.eff[m] = snap.eff[m]
        /\ SameNodes(snap, snap') \/ snap'.eff[e.n] = e.k
    <3>1. FrameOf(snap, Fold(snap, e), e.n, e.k)
      BY <1>a, <2>1, FrameFold
    <3>2. SameNodes(snap, Fold(snap, e)) \/ Begins(snap, Fold(snap, e), e.n, e.k, "gateWaiting")
      BY <1>a, <2>1, GateEffect
    <3>. QED BY <2>1, <3>1, <3>2 DEF FrameOf, Begins
  <2>7. \A x \in alive : x[2] = snap'.eff[x[1]] /\ x[3] = tally.last[KeyOf(x)] => snap'.status[x[1]] \in Engaged
    BY <1>a, <1>c, <2>4, <2>6 DEF EngagedInv, SameNodes
  <2>8. \A key \in Key : flight[key].att # 0 /\ snap'.eff[key[1]] = key[2] => snap'.status[key[1]] \in Engaged
    BY <1>a, <1>b, <1>d, <2>4, <2>6 DEF EngagedInv, SameNodes
  <2>. QED BY <2>2, <2>5, <2>7, <2>8 DEF EngagedInv
<1>. QED BY <1>1, <1>2, <1>3

\* Every step keeps workers and promises in view.
LEMMA EngagedStep == ASSUME AllInv, [Next]_vars PROVE EngagedInv'
<1>1. CASE UNCHANGED vars
  BY <1>1 DEF vars, journal, local, AllInv, WorkerInv, EngagedInv, CbBusy, CbKey, KeyOf
<1>2. CASE ClaimWork \/ Arm \/ ClaimGate
  BY <1>2, StartEngaged
<1>3. CASE ArmFailed
  BY <1>3, ArmFailedEngaged
<1>4. CASE CbVerdict \/ CbDrain \/ CbCancelled
  BY <1>4, SettleEngaged
<1>5. CASE Next /\ ~ClaimWork /\ ~Arm /\ ~ClaimGate /\ ~ArmFailed /\ ~CbVerdict /\ ~CbDrain /\ ~CbCancelled
  <2>1. \/ SameNodes(snap, snap')
        \/ Appends(Soft)
        \/ \E S \in SUBSET Node : SameNodes(StrikeAll(snap, S, tally.last), snap')
    <3>. USE DEF Appends, Soft, Still
    <3>1. CASE Cancelling
      BY <3>1, RunMove DEF StrikeNodes, SameNodes
    <3>2. CASE Finalize \/ Publish
      BY <3>2, RunMove DEF SameNodes
    <3>. QED BY <1>5, <3>1, <3>2, TickMove, OutsideMove DEF Next
  <2>2. pc' = "arm" => pc = "arm" /\ item' = item
    <3>1. CASE CbRetry
      BY <3>1 DEF CbRetry
    <3>2. CASE Retry
      BY <3>2 DEF Retry, local
    <3>. QED BY <1>5, <3>1, <3>2, TickCalm, OutsideCalm DEF Calm, AllInv, Next, Callback, Human
  <2>3. pc' = "arm" => SameNodes(snap, snap')
    <3>. SUFFICES ASSUME pc = "arm", pc' = "arm" PROVE SameNodes(snap, snap')
      BY <2>2
    <3>1. ~(Drive \/ Tick)
      BY <1>5 DEF Drive, Tick, SignalToJournal, Cancelling, Finalize, Boundary, DropObsolete, DropOrphaned,
        Decide, Publish, Quiesced, DrainClosed, ProvesClosed, DrainPassed, Wake, ResolveEdge, SkipNode,
        Controlled, PassOver, Dispatched, CancelLoser, EndTick, NoticeCancel, Running, Top
    <3>2. ~Quiet /\ cb.step = "none"
      BY DEF Quiet, Awaits, AllInv, GateInv, CbWhere
    <3>3. ~Promises /\ ~Human /\ ~Callback /\ ~Cancel /\ ~BareAbort
      BY <3>2 DEF Promises, Settle, Judge, Human, GateClick, Click, Retry, GrantRevisit, Callback, CbVerdict,
        CbDrain, CbCancelled, CbRevisit, CbRefresh, CbRetry, Cancel, CancelAnd, BareAbort
    <3>4. WorkerExit \/ ForeignCancel \/ Crash
      BY <1>5, <3>1, <3>3 DEF Next, Environment
    <3>. QED BY <3>4, StillFold DEF WorkerExit, ForeignCancel, Crash, Still, SameNodes, journal, Ev
  <2>. QED BY <1>5, <2>1, <2>2, <2>3, CalmEngaged
<1>. QED BY <1>1, <1>2, <1>3, <1>4, <1>5

----------------------------------------------------------------------------
(* The plan of the tick.                                                   *)

\* The instance to start depends on the node alone.
LEMMA SameInstance ==
  ASSUME NEW s, NEW t, NEW n \in Node, t.eff[n] = s.eff[n],
         \A k \in Inst : t.inst[<<n, k>>] = s.inst[<<n, k>>]
  PROVE  InstanceFor(t, n) = InstanceFor(s, n)
<1>1. {k \in Inst : t.inst[<<n, k>>] # "absent"} = {k \in Inst : s.inst[<<n, k>>] # "absent"}
  OBVIOUS
<1>. QED BY <1>1 DEF InstanceFor, NextInstance

\* Who else moves while the driver carries out a plan moves no node and starts nothing.
LEMMA InsideTick ==
  ASSUME AllInv, [Next]_vars, pc' \in {"control", "dispatch", "arm"}
  PROVE  \/ Decide \/ ResolveEdge \/ SkipNode \/ ClaimWork \/ ClaimGate \/ PassOver \/ Arm \/ ArmFailed
         \/ UNCHANGED local /\ SameNodes(snap, snap') /\ alive' \subseteq alive
<1>1. CASE UNCHANGED vars
  BY <1>1 DEF vars, local, journal, SameNodes
<1>2. CASE WorkerExit \/ ForeignCancel
  BY <1>2, StillFold DEF WorkerExit, ForeignCancel, Still, SameNodes, journal, local, Ev
<1>3. CASE Drive \/ Tick
  BY <1>3 DEF Drive, Tick, SignalToJournal, Cancelling, Finalize, Boundary, DropObsolete, DropOrphaned,
     Publish, Quiesced, DrainClosed, ProvesClosed, DrainPassed, Wake, Controlled, Dispatched,
     CancelLoser, EndTick, NoticeCancel, Goto, Quiesce, Return, GiveUp
<1>4. CASE Callback
  <2>1. cb.step # "none"
    BY <1>4 DEF Callback, CbVerdict, CbDrain, CbCancelled, CbRevisit, CbRefresh, CbRetry
  <2>2. pc \notin {"control", "dispatch", "arm"}
    BY <2>1 DEF AllInv, GateInv, CbWhere, Awaits
  <2>3. pc' \in {pc, "top"}
    BY <1>4 DEF Callback, CbVerdict, CbDrain, CbCancelled, CbRevisit, CbRefresh, CbRetry, Finally
  <2>. QED BY <2>2, <2>3
<1>5. CASE Promises \/ Human \/ Cancel \/ BareAbort
  BY <1>5 DEF Promises, Settle, Judge, Human, GateClick, Click, Retry, GrantRevisit, Cancel, CancelAnd,
     BareAbort, Quiet, Awaits, local
<1>6. CASE Crash
  BY <1>6 DEF Crash
<1>. QED BY <1>1, <1>2, <1>3, <1>4, <1>5, <1>6 DEF Next, Environment

\* What decideNext plans fits the views it was decided on.
LEMMA DecisionFits ==
  ASSUME TypeInv, NEW act
  PROVE  /\ act \in Controls(snap) /\ act.kind = "skip" => snap.status[act.n] = "pending"
         /\ act \in Controls(snap) => act.kind \notin {"gate", "work"}
         /\ act \in Plan(snap) => act.kind # "skip"
         /\ act \in Plan(snap) /\ act.kind \in {"gate", "work"} => act.k = InstanceFor(snap, act.n)
<1>1. ASSUME act \in Controls(snap)
      PROVE  act.kind \notin {"gate", "work"} /\ (act.kind = "skip" => snap.status[act.n] = "pending")
  BY <1>1 DEF Controls, EdgeActions, SkipActions, Act, Idle
<1>2. ASSUME act \in StartActions(snap) PROVE act.kind # "skip" /\ act.k = InstanceFor(snap, act.n)
  BY <1>2 DEF StartActions, Act
<1>3. ASSUME act \in CancelActions(snap) PROVE act.kind = "cancel"
  BY <1>3 DEF CancelActions, Act
<1>. QED BY <1>1, <1>2, <1>3 DEF Plan

\* Every step keeps the plan in step with the views.
LEMMA PlanStep == ASSUME AllInv, [Next]_vars PROVE PlanInv'
<1>. SUFFICES ASSUME pc' \in {"control", "dispatch", "arm"} PROVE PlanInv'
  BY DEF PlanInv
<1>a. /\ snap \in Snapshot /\ TypeInv /\ PlanInv
      /\ \A act \in plan : act.n \in Node
  BY DEF AllInv, TypeInv, JournalOK, WorkerInv, DriverOK, PlanOK, Action
<1>b. \A m \in Node, k \in Inst : <<m, k>> \in Key
  BY DEF Key
<1>c. ASSUME NEW n \in Node, NEW k, FrameOf(snap, snap', n, k), pc = "dispatch" \/ pc = "arm",
             plan' \subseteq plan, pc' # "control",
             snap'.status[n] = "pending" => SameNodes(snap, snap')
      PROVE  PlanInv'
  <2>. SUFFICES ASSUME NEW act \in plan, act.kind \in {"gate", "work"}, snap'.status[act.n] = "pending"
                PROVE  act.k = InstanceFor(snap', act.n)
    BY <1>c DEF PlanInv
  <2>1. snap.status[act.n] = "pending" /\ snap'.eff[act.n] = snap.eff[act.n]
        /\ \A j \in Inst : snap'.inst[<<act.n, j>>] = snap.inst[<<act.n, j>>]
    BY <1>a, <1>b, <1>c DEF FrameOf, SameNodes
  <2>2. act.k = InstanceFor(snap, act.n)
    BY <1>a, <1>c, <2>1 DEF PlanInv
  <2>. QED BY <1>a, <2>1, <2>2, SameInstance
<1>d. ASSUME SameNodes(snap, snap'), plan' \subseteq plan,
             pc' = "control" => pc = "control", pc' # "control" => pc \in {"dispatch", "arm"}
      PROVE  PlanInv'
  <2>1. \A act \in plan : InstanceFor(snap', act.n) = InstanceFor(snap, act.n)
    BY <1>a, <1>d, SameInstance DEF SameNodes
  <2>. QED BY <1>a, <1>d, <2>1 DEF PlanInv, SameNodes
<1>1. CASE Decide
  <2>1. /\ UNCHANGED snap
        /\ \/ pc' = "control" /\ plan' = Controls(snap)
           \/ pc' = "dispatch" /\ plan' = Plan(snap)
    BY <1>1 DEF Decide, Quiesce, Goto, journal
  <2>. QED BY <1>a, <2>1, DecisionFits DEF PlanInv
<1>2. CASE ResolveEdge
  <2>1. SameNodes(snap, snap')
    BY <1>2, StillFold DEF ResolveEdge, Still, EvM
  <2>. QED BY <1>2, <1>d, <2>1 DEF ResolveEdge
<1>3. CASE SkipNode
  <2>1. PICK act \in plan : /\ act.kind = "skip" /\ Append(Ev("nodeSkipped", act.n, 0, 0))
                            /\ plan' = plan \ {act} /\ pc = "control" /\ pc' = "control"
    BY <1>3 DEF SkipNode
  <2>. DEFINE e == Ev("nodeSkipped", act.n, 0, 0)
  <2>2. WellFormed(e) /\ snap' = Fold(snap, e) /\ e.type = "nodeSkipped" /\ e.n = act.n /\ e.k = 0
    BY <2>1, TickFits DEF InOrder, Append, Ev
  <2>. HIDE DEF e
  <2>3. FrameOf(snap, snap', act.n, 0) /\ (snap'.status = snap.status \/ snap'.status[act.n] = "skipped")
    BY <1>a, <2>2, FrameFold, SkippedEffect
  <2>4. \A m \in Node : snap'.status[m] \in {snap.status[m], "skipped"}
    BY <2>3 DEF FrameOf
  <2>. QED BY <1>a, <2>1, <2>4 DEF PlanInv
<1>4. CASE ClaimWork
  <2>1. PICK act, a : Claims(act, a)
    BY <1>4, ClaimEffect
  <2>2. pc = "dispatch" /\ pc' = "arm"
    BY <1>4 DEF ClaimWork
  <2>. QED BY <1>c, <2>1, <2>2 DEF Claims, Begins
<1>5. CASE ClaimGate
  <2>1. PICK e : /\ WellFormed(e) /\ e.type = "gateDispatched" /\ snap' = Fold(snap, e)
    BY <1>5, StartMove DEF Appends, InOrder, Append
  <2>2. FrameOf(snap, snap', e.n, e.k) /\ (SameNodes(snap, snap') \/ Begins(snap, snap', e.n, e.k, "gateWaiting"))
    <3>1. FrameOf(snap, Fold(snap, e), e.n, e.k)
      BY <1>a, <2>1, FrameFold
    <3>2. SameNodes(snap, Fold(snap, e)) \/ Begins(snap, Fold(snap, e), e.n, e.k, "gateWaiting")
      BY <1>a, <2>1, GateEffect
    <3>. QED BY <2>1, <3>1, <3>2
  <2>3. e.n \in Node
    BY <2>1 DEF WellFormed, Event
  <2>4. pc = "dispatch" /\ pc' = "dispatch" /\ plan' \subseteq plan
    BY <1>5 DEF ClaimGate
  <2>5. snap'.status[e.n] = "pending" => SameNodes(snap, snap')
    BY <2>2 DEF Begins
  <2>. QED BY <1>c, <2>2, <2>3, <2>4, <2>5
<1>6. CASE PassOver
  BY <1>6, <1>d DEF PassOver, journal, SameNodes
<1>7. CASE Arm
  <2>1. SameNodes(snap, snap') /\ pc = "arm" /\ pc' = "dispatch" /\ plan' = plan
    BY <1>7, ArmEffect DEF Arm, ArmIf
  <2>. QED BY <1>d, <2>1
<1>8. CASE ArmFailed
  <2>. DEFINE e == Ev("nodeFailed", item.n, item.k, ItemAttempt[3])
  <2>1. WellFormed(e) /\ snap' = Fold(snap, e) /\ e.type = "nodeFailed" /\ e.n = item.n /\ e.k = item.k
        /\ item.n \in Node /\ item.k # 0
    BY <1>8, StartMove DEF InOrder, Append, Ev, ArmFailed, TypeInv, AllInv, DriverOK, Action
  <2>2. pc = "arm" /\ pc' = "dispatch" /\ plan' = plan /\ snap.eff[item.n] = item.k
        /\ snap.status[item.n] = "running"
    BY <1>8 DEF ArmFailed, AllInv, WorkerInv, EngagedInv
  <2>. HIDE DEF e
  <2>3. FrameOf(snap, Fold(snap, e), item.n, item.k)
    BY <1>a, <2>1, FrameFold
  <2>4. SameNodes(snap, Fold(snap, e))
        \/ \E st \in {"done", "failed", "blocked"} : Shows(snap, Fold(snap, e), item.n, item.k, st)
    BY <1>a, <2>1, SettleEffect
  <2>5. snap'.status[item.n] # "pending"
    BY <2>1, <2>2, <2>4 DEF SameNodes, Shows
  <2>. QED BY <1>c, <2>1, <2>2, <2>3, <2>5
<1>9. CASE UNCHANGED local /\ SameNodes(snap, snap')
  BY <1>9, <1>d DEF local
<1>. QED BY <1>1, <1>2, <1>3, <1>4, <1>5, <1>6, <1>7, <1>8, <1>9, InsideTick

----------------------------------------------------------------------------
(* The ledger.                                                             *)

\* An event in order takes no living worker off the ledger, and only a start puts one on it.
LEMMA AppendKeeps ==
  ASSUME AllInv, NEW e, Append(e), InOrder(e)
  PROVE  alive \subseteq open' /\ (e.type \notin Opens => open' \subseteq open)
<1>1. alive \subseteq open /\ open' = Ledger(open, e)
  BY DEF Append, AllInv, WorkerInv, LedgerInv, WorkerAccounted
<1>. QED BY <1>1, LedgerEffect DEF InOrder, Safe

\* Only the spawn puts a worker on the ledger, and no step takes a living one off it.
LEMMA LedgerMove ==
  ASSUME AllInv, [Next]_vars, ~Arm
  PROVE  alive \subseteq open' /\ (~ClaimWork => open' \subseteq open)
<1>. DEFINE Goal == alive \subseteq open' /\ (~ClaimWork => open' \subseteq open)
<1>a. alive \subseteq open
  BY DEF AllInv, WorkerInv, LedgerInv, WorkerAccounted
<1>b. ASSUME NEW types, Appends(types), types \cap Opens = {} PROVE Goal
  BY <1>b, AppendKeeps DEF Appends
<1>c. Still => Goal
  BY <1>a DEF Still
<1>. SUFFICES Goal
  OBVIOUS
<1>1. CASE UNCHANGED vars
  BY <1>a, <1>1 DEF vars, journal
<1>2. CASE ClaimWork
  BY <1>a, <1>2, ClaimEffect DEF Claims
<1>3. CASE ClaimGate
  BY <1>3, <1>b, StartMove DEF Opens
<1>4. CASE ArmFailed
  BY <1>4, StartMove, AppendKeeps DEF Ev, Opens
<1>5. CASE Cancelling
  <2>. DEFINE S == {n \in Node : snap.status[n] \in {"pending", "gateWaiting"}}
              struck == {<<n, snap.eff[n], tally.last[<<n, snap.eff[n]>>]>> : n \in {o \in S : snap.eff[o] # 0}}
  <2>1. open' = open \ struck
    BY <1>5 DEF Cancelling, StrikeNodes
  <2>2. ASSUME NEW x \in alive, x \in struck PROVE FALSE
    <3>1. PICK n \in S : x = <<n, snap.eff[n], tally.last[<<n, snap.eff[n]>>]>>
      BY <2>2
    <3>2. snap.status[n] \in Engaged
      BY <3>1 DEF AllInv, WorkerInv, EngagedInv, KeyOf
    <3>. QED BY <3>1, <3>2 DEF Engaged
  <2>. HIDE DEF struck
  <2>. QED BY <1>a, <2>1, <2>2
<1>6. CASE Finalize \/ Publish
  BY <1>a, <1>6, RunMove
<1>7. CASE CbVerdict \/ CbDrain \/ CbCancelled
  <2>1. CASE UNCHANGED journal
    BY <1>a, <2>1 DEF journal
  <2>2. CASE \E e : Append(e) /\ InOrder(e) /\ e.type \in SettleTypes
    BY <2>2, AppendKeeps DEF SettleTypes, Opens
  <2>. QED BY <1>7, <2>1, <2>2, SettleMove
<1>8. CASE Still \/ Appends({"nodeSkipped", "nodeCancelled"})
           \/ Appends({"nodeInstanceSuperseded", "nodeRetryRequested", "gateResolved"})
  BY <1>8, <1>b, <1>c DEF Opens
<1>. HIDE DEF Goal
<1>. QED BY <1>1, <1>2, <1>3, <1>4, <1>5, <1>6, <1>7, <1>8, TickMove, OutsideMove DEF Next

\* A callback settles an attempt whose worker has ended.
LEMMA SettledIsOver ==
  ASSUME AllInv, [Next]_vars
  PROVE  CbBusy' => CbAttempt' \notin alive'
<1>. DEFINE Goal == CbBusy' => CbAttempt' \notin alive'
<1>. USE DEF Outside, local
<1>a. CbBusy => CbAttempt \notin alive
  BY DEF AllInv, WorkerInv, LedgerInv
<1>b. cb \in CbType
  BY DEF AllInv, TypeInv, CbOK
<1>c. ASSUME cb'.n = cb.n, cb'.k = cb.k, cb'.a = cb.a, CbBusy, alive' \subseteq alive PROVE Goal
  BY <1>a, <1>c DEF CbAttempt
<1>d. cb'.step \in {"none", "retry"} => Goal
  BY DEF CbBusy
<1>e. ASSUME UNCHANGED cb, ~Arm PROVE Goal
  <2>1. alive' \subseteq alive
    BY <1>e, WorkersStay
  <2>. QED BY <1>a, <1>e, <2>1 DEF CbBusy, CbAttempt
<1>f. ASSUME NEW n, NEW k, NEW a, cb'.n = n, cb'.k = k, cb'.a = a, <<n, k, a>> \notin alive, alive' \subseteq alive
      PROVE  Goal
  BY <1>f DEF CbAttempt
<1>g. Finally => Goal
  BY <1>d DEF Finally, NoCb
<1>h. ASSUME NEW rest, Refreshing(rest), CbBusy, alive' \subseteq alive PROVE Goal
  BY <1>b, <1>c, <1>h DEF Refreshing, CbType
<1>. SUFFICES Goal
  OBVIOUS
<1>. HIDE DEF Goal
<1>1. CASE Arm
  BY <1>1, <1>d DEF Arm, ArmIf, Steps
<1>2. CASE DrainClosed
  <2>1. PICK x \in todo \ alive : cb' = [Cb("drain", x[1], x[2], x[3]) EXCEPT !.x = why, !.mine = FALSE]
    BY <1>2 DEF DrainClosed, ProvesClosed
  <2>2. x = <<x[1], x[2], x[3]>>
    BY <2>1 DEF AllInv, TypeInv, DriverOK, Attempt
  <2>3. cb'.n = x[1] /\ cb'.k = x[2] /\ cb'.a = x[3] /\ alive' = alive
    BY <1>2, <2>1 DEF Cb, NoCb, DrainClosed, ProvesClosed
  <2>. QED BY <1>f, <2>1, <2>2, <2>3
<1>3. CASE (Drive \/ Tick) /\ ~Arm /\ ~DrainClosed
  <2>1. UNCHANGED cb
    BY <1>3 DEF Drive, Tick, SignalToJournal, Cancelling, Finalize, Boundary, DropObsolete, DropOrphaned,
     Decide, Publish, Quiesced, DrainPassed, Wake, ResolveEdge, SkipNode,
     Controlled, ClaimWork, ClaimGate, PassOver, Dispatched, ArmFailed, CancelLoser,
     EndTick, NoticeCancel, Quiesce, Return, GiveUp, Goto
  <2>. QED BY <1>3, <1>e, <2>1
<1>4. CASE CbVerdict \/ CbCancelled
  BY <1>4, <1>g DEF CbVerdict, CbCancelled
<1>5. CASE CbDrain
  <2>1. (cb' = [cb EXCEPT !.step = "cancelled"] /\ alive' = alive) \/ Finally
    BY <1>5 DEF CbDrain
  <2>2. cb' = [cb EXCEPT !.step = "cancelled"] => cb'.n = cb.n /\ cb'.k = cb.k /\ cb'.a = cb.a
    BY <1>b DEF CbType
  <2>3. CbBusy
    BY <1>5 DEF CbDrain, CbBusy
  <2>. QED BY <1>c, <1>g, <2>1, <2>2, <2>3
<1>6. CASE CbRevisit \/ CbRefresh
  BY <1>6, <1>h DEF CbRevisit, CbRefresh, CbBusy
<1>7. CASE CbRetry \/ GrantRevisit \/ Crash
  <2>1. cb' = NoCb \/ \E n \in Node : cb' = [NoCb EXCEPT !.step = "retry", !.n = n]
    BY <1>7 DEF CbRetry, GrantRevisit, Crash, AllInv, TypeInv, JournalOK, Snapshot
  <2>2. cb'.step \in {"none", "retry"}
    BY <2>1, NoCbType DEF CbType
  <2>. QED BY <1>d, <2>2
<1>8. CASE Settle
  <2>1. PICK n \in Node, k \in Inst, result \in Result :
       LET f == flight[<<n, k>>]
       IN /\ <<n, k, f.att>> \notin alive
          /\ \/ UNCHANGED cb
             \/ cb' = DrainProof(n, k, f.att, f.abort)
             \/ cb' = Verdict(n, k, f.att, "nodeFailed", "none")
             \/ cb' = DrainProof(n, k, f.att, "runCancellation")
    BY <1>8 DEF Settle
  <2>2. alive' = alive /\ ~Arm
    BY <1>8 DEF Settle, Arm, ArmIf, Quiet, Awaits
  <2>3. UNCHANGED cb \/ (cb'.n = n /\ cb'.k = k /\ cb'.a = flight[<<n, k>>].att)
    BY <2>1 DEF DrainProof, Verdict, Cb, NoCb
  <2>. QED BY <1>e, <1>f, <2>1, <2>2, <2>3
<1>9. CASE Judge
  <2>1. PICK n \in Node, k \in Inst, find \in Finds, m \in Node :
          /\ flight[<<n, k>>].phase = "check"
          /\ cb' = Judgement(find, n, k, flight[<<n, k>>], m)
    BY <1>9 DEF Judge
  <2>2. <<n, k, flight[<<n, k>>].att>> \notin alive
    BY <2>1 DEF Key, AllInv, WorkerInv, LedgerInv
  <2>3. cb'.n = n /\ cb'.k = k /\ cb'.a = flight[<<n, k>>].att
    BY <2>1 DEF Judgement, Finds, DrainProof, Verdict, RevisitCb, BudgetCb, Cb, NoCb
  <2>. QED BY <1>9, <1>f, <2>2, <2>3 DEF Judge
<1>10. CASE WorkerExit \/ GateClick \/ Retry \/ Cancel \/ ForeignCancel \/ BareAbort \/ UNCHANGED vars
  <2>1. UNCHANGED cb
    BY <1>10 DEF WorkerExit, GateClick, Click, Retry, Cancel, CancelAnd, ForeignCancel, BareAbort, vars
  <2>. QED BY <1>1, <1>e, <2>1
<1>. QED BY <1>1, <1>2, <1>3, <1>4, <1>5, <1>6, <1>7, <1>8, <1>9, <1>10
         DEF Next, Callback, Promises, Human, Environment

\* Every step keeps the workers on the ledger.
LEMMA LedgerStep == ASSUME AllInv, [Next]_vars PROVE LedgerInv'
<1>1. CbBusy' => CbAttempt' \notin alive'
  BY SettledIsOver
<1>2. CASE Arm
  <2>1. WorkerAccounted'
    BY <1>2, ArmEffect DEF AllInv, WorkerInv, LedgerInv, WorkerAccounted
  <2>2. ASSUME NEW key \in Key, flight'[key].phase = "check"
        PROVE  <<key[1], key[2], flight'[key].att>> \notin alive'
    <3>1. flight[key].phase = "check" => <<key[1], key[2], flight[key].att>> \notin alive
      BY DEF AllInv, WorkerInv, LedgerInv
    <3>2. CASE UNCHANGED <<flight, alive>>
      BY <2>2, <3>1, <3>2
    <3>3. CASE /\ alive' = alive \cup {ItemAttempt} /\ flight'[ItemKey].phase = "run"
               /\ \A other \in Key : other # ItemKey => flight'[other] = flight[other]
      <4>1. key # ItemKey /\ flight'[key] = flight[key]
        BY <2>2, <3>3
      <4>2. <<key[1], key[2], flight[key].att>> # ItemAttempt
        BY <1>2, <4>1, ArmEffect DEF Key
      <4>. QED BY <2>2, <3>1, <3>3, <4>1, <4>2
    <3>. QED BY <1>2, <3>2, <3>3, ArmEffect
  <2>. QED BY <1>1, <2>1, <2>2 DEF LedgerInv
<1>3. CASE ~Arm
  <2>1. alive' \subseteq alive
    BY <1>3, WorkersStay
  <2>2. WorkerAccounted'
    BY <1>3, <2>1, LedgerMove DEF WorkerAccounted
  <2>3. \A key \in Key : flight'[key].phase = "check" => <<key[1], key[2], flight'[key].att>> \notin alive'
    BY <1>3, <2>1, PromisesStay
  <2>. QED BY <1>1, <2>2, <2>3 DEF LedgerInv
<1>. QED BY <1>2, <1>3

----------------------------------------------------------------------------
(* Quiescence.                                                             *)

\* A record about a node at most sets a blocked run going again.
LEMMA NodeRun ==
  ASSUME NEW s \in Snapshot, NEW e, e.type \in Loud \cup Soft
  PROVE  Fold(s, e).run = s.run \/ (s.run = "blocked" /\ Fold(s, e).run = "running")
<1>. USE DEF Snapshot
<1>1. ASSUME NEW st PROVE Record(s, e.n, e.k, st).run = s.run
  BY DEF Record
<1>3. ASSUME NEW st PROVE OnSettle(s, e, st).run = s.run
  BY <1>1 DEF OnSettle
<1>4. OnRetry(s, e).run = s.run \/ (s.run = "blocked" /\ OnRetry(s, e).run = "running")
  BY DEF OnRetry, Unblock
<1>5. OnSuperseded(s, e).run = s.run \/ (s.run = "blocked" /\ OnSuperseded(s, e).run = "running")
  BY DEF OnSuperseded, Unblock
<1>6. OnGateDispatched(s, e).run = s.run /\ OnGateResolved(s, e).run = s.run
  BY DEF OnGateDispatched, OnGateResolved
<1>7. OnSkipped(s, e).run = s.run /\ OnDrained(s, e).run = s.run
  BY DEF OnSkipped, OnDrained
<1>8. OnCancelled(s, e).run = s.run
  BY DEF OnCancelled, Record
<1>. HIDE DEF Snapshot
<1>9. OnNodeEvent(s, e).run = s.run \/ (s.run = "blocked" /\ OnNodeEvent(s, e).run = "running")
  BY <1>3, <1>4, <1>5, <1>6, <1>7, <1>8 DEF OnNodeEvent, Loud, Soft
<1>. QED BY <1>9 DEF Fold, Applied, RunEvent, Loud, Soft

\* Only an empty ledger lets a run come to rest.
LEMMA RunComesToRest ==
  ASSUME AllInv, [Next]_vars
  PROVE  snap'.run \in {snap.run, "running", "cancelling"} \/ (open = {} /\ open' = {} /\ pc' # "arm")
<1>. DEFINE Goal == snap'.run \in {snap.run, "running", "cancelling"} \/ (open = {} /\ open' = {} /\ pc' # "arm")
<1>s. snap \in Snapshot
  BY DEF AllInv, TypeInv, JournalOK
<1>a. ASSUME NEW types, Appends(types), types \subseteq Loud \cup Soft PROVE Goal
  BY <1>a, <1>s, NodeRun DEF Appends, Append
<1>b. Still => Goal
  BY DEF Still
<1>. SUFFICES Goal
  OBVIOUS
<1>1. CASE UNCHANGED vars
  BY <1>1 DEF vars, journal
<1>2. CASE ClaimWork
  BY <1>2, ClaimEffect DEF Claims
<1>3. CASE Arm
  BY <1>3, ArmEffect
<1>4. CASE ClaimGate
  BY <1>4, <1>a, StartMove DEF Loud
<1>5. CASE ArmFailed
  BY <1>s, <1>5, StartMove, NodeRun DEF Append, Ev, Loud
<1>6. CASE Cancelling
  BY <1>6, RunMove
<1>7. CASE Finalize \/ Publish
  <2>1. pc' # "arm"
    BY <1>7 DEF Finalize, Publish, Goto
  <2>. QED BY <1>7, <2>1, RunMove
<1>8. CASE CbVerdict \/ CbDrain \/ CbCancelled
  <2>1. CASE UNCHANGED journal
    BY <2>1 DEF journal
  <2>2. CASE \E e : Append(e) /\ e.type \in SettleTypes
    BY <1>s, <2>2, NodeRun DEF SettleTypes, Append, Loud, Soft
  <2>. QED BY <1>8, <2>1, <2>2, SettleMove
<1>9. CASE Still \/ Appends({"nodeSkipped", "nodeCancelled"})
           \/ Appends({"nodeInstanceSuperseded", "nodeRetryRequested", "gateResolved"})
  BY <1>9, <1>a, <1>b DEF Soft
<1>. HIDE DEF Goal
<1>. QED BY <1>1, <1>2, <1>3, <1>4, <1>5, <1>6, <1>7, <1>8, <1>9, TickMove, OutsideMove DEF Next

\* How a drain on behalf of a cancelled run begins and goes on.
LEMMA DrainMove ==
  ASSUME AllInv, [Next]_vars, pc' = "drain", why' = "runCancellation"
  PROVE  \/ Cancelling /\ todo' = open
         \/ DrainClosed /\ pc = "drain" /\ why = why'
         \/ CbDrain /\ pc = "drain" /\ todo' = todo /\ why = why'
         \/ /\ pc = "drain" /\ todo' = todo /\ why = why' /\ ~Arm /\ ~ClaimWork
            /\ cb.step = "drain" => cb' = cb
<1>. DEFINE Goal ==
         \/ Cancelling /\ todo' = open
         \/ DrainClosed /\ pc = "drain" /\ why = why'
         \/ CbDrain /\ pc = "drain" /\ todo' = todo /\ why = why'
         \/ /\ pc = "drain" /\ todo' = todo /\ why = why' /\ ~Arm /\ ~ClaimWork
            /\ cb.step = "drain" => cb' = cb
<1>a. UNCHANGED <<pc, todo, why, cb>> => Goal
  BY DEF Arm, ArmIf, ClaimWork
<1>b. UNCHANGED <<pc, todo, why>> /\ cb.step # "drain" => Goal
  BY DEF Arm, ArmIf, ClaimWork
<1>c. Finally => UNCHANGED <<pc, todo, why>>
  BY DEF Finally
<1>. SUFFICES Goal
  OBVIOUS
<1>1. CASE Cancelling
  BY <1>1 DEF Cancelling
<1>2. CASE DrainClosed
  BY <1>2 DEF DrainClosed, ProvesClosed
<1>3. CASE CbDrain
  BY <1>3, <1>c DEF CbDrain
<1>. HIDE DEF Goal
<1>4. CASE (Drive \/ Tick) /\ ~Cancelling /\ ~DrainClosed
  BY <1>4 DEF Drive, Tick, SignalToJournal, Finalize, Boundary, DropObsolete, DropOrphaned,
     Decide, Publish, Quiesced, DrainPassed, Wake, ResolveEdge, SkipNode,
     Controlled, ClaimWork, ClaimGate, PassOver, Dispatched, Arm, ArmIf, ArmFailed, CancelLoser,
     EndTick, NoticeCancel, Quiesce, Return, GiveUp, Goto, Forget, Top, Running
<1>5. CASE Callback /\ ~CbDrain
  <2>1. UNCHANGED <<pc, todo, why>>
    BY <1>5, <1>c DEF Callback, CbVerdict, CbCancelled, CbRevisit, CbRefresh, CbRetry
  <2>2. cb.step # "drain"
    BY <1>5 DEF Callback, CbVerdict, CbCancelled, CbRevisit, CbRefresh, CbRetry
  <2>. QED BY <1>b, <2>1, <2>2
<1>6. CASE Promises \/ Human
  <2>1. UNCHANGED <<pc, todo, why>> /\ cb.step # "drain"
    BY <1>6 DEF Promises, Settle, Judge, Human, GateClick, Click, Retry, GrantRevisit, Quiet, local
  <2>. QED BY <1>b, <2>1
<1>7. CASE WorkerExit \/ Cancel \/ ForeignCancel \/ BareAbort \/ UNCHANGED vars
  BY <1>7, <1>a DEF WorkerExit, Cancel, CancelAnd, ForeignCancel, BareAbort, vars, local
<1>8. CASE Crash
  BY <1>8 DEF Crash
<1>. QED BY <1>1, <1>2, <1>3, <1>4, <1>5, <1>6, <1>7, <1>8 DEF Next, Environment

\* How the loop comes to finalize a run.
LEMMA FinalizeMove ==
  ASSUME AllInv, [Next]_vars, pc' = "finalize"
  PROVE  \/ DrainPassed /\ why = "runCancellation" /\ todo = {}
         \/ pc = "finalize" /\ ~Arm /\ ~ClaimWork
<1>a. UNCHANGED pc => pc = "finalize" /\ ~Arm /\ ~ClaimWork
  BY DEF Arm, ArmIf, ClaimWork
<1>1. CASE DrainPassed
  BY <1>1 DEF DrainPassed, Goto
<1>2. CASE (Drive \/ Tick) /\ ~DrainPassed
  BY <1>2, <1>a DEF Drive, Tick, SignalToJournal, Cancelling, Finalize, Boundary, DropObsolete, DropOrphaned,
     Decide, Publish, Quiesced, DrainClosed, ProvesClosed, Wake, ResolveEdge, SkipNode,
     Controlled, ClaimWork, ClaimGate, PassOver, Dispatched, Arm, ArmIf, ArmFailed, CancelLoser,
     EndTick, NoticeCancel, Quiesce, Return, GiveUp, Goto, Running, Top
<1>3. CASE Callback
  BY <1>3, <1>a DEF Callback, CbVerdict, CbDrain, CbCancelled, CbRevisit, CbRefresh, CbRetry, Finally
<1>4. CASE Promises \/ WorkerExit \/ Human \/ Cancel \/ ForeignCancel \/ BareAbort \/ UNCHANGED vars
  BY <1>4, <1>a DEF Promises, Settle, Judge, WorkerExit, Human, GateClick, Click, Retry, GrantRevisit,
     Cancel, CancelAnd, ForeignCancel, BareAbort, vars, local
<1>5. CASE Crash
  BY <1>5 DEF Crash
<1>. QED BY <1>1, <1>2, <1>3, <1>4, <1>5 DEF Next, Environment

\* Every step leads a cancelled run to rest over an empty ledger.
LEMMA QuiescentStep == ASSUME AllInv, [Next]_vars PROVE QuiescentInv'
<1>a. QuiescentInv /\ cb \in CbType
  BY DEF AllInv, WorkerInv, TypeInv, CbOK
<1>b. ~Arm /\ ~ClaimWork => open' \subseteq open
  BY LedgerMove
<1>1. ASSUME pc' = "drain", why' = "runCancellation"
      PROVE  open' \subseteq todo' \cup (IF cb'.step = "drain" THEN {CbAttempt'} ELSE {})
  <2>1. CASE Cancelling /\ todo' = open
    BY <2>1, <1>b DEF Cancelling, Top, Arm, ArmIf, ClaimWork
  <2>2. CASE DrainClosed /\ pc = "drain" /\ why = why'
    <3>1. open \subseteq todo /\ open' = open
      BY <1>1, <1>a, <2>2 DEF QuiescentInv, DrainClosed, ProvesClosed, Steps, journal
    <3>2. PICK x \in todo : todo' = todo \ {x} /\ cb' = [Cb("drain", x[1], x[2], x[3]) EXCEPT !.x = why, !.mine = FALSE]
      BY <2>2 DEF DrainClosed, ProvesClosed
    <3>3. x = <<x[1], x[2], x[3]>>
      BY <3>2 DEF AllInv, TypeInv, DriverOK, Attempt
    <3>4. cb'.step = "drain" /\ CbAttempt' = x
      BY <3>2, <3>3 DEF Cb, NoCb, CbAttempt
    <3>. QED BY <3>1, <3>2, <3>4
  <2>3. CASE CbDrain /\ pc = "drain" /\ todo' = todo /\ why = why'
    <3>1. open \subseteq todo \cup {CbAttempt} /\ cb.step = "drain"
      BY <1>1, <1>a, <2>3 DEF QuiescentInv, CbDrain
    <3>2. open' \subseteq open \ {CbAttempt}
      <4>1. CASE UNCHANGED journal /\ (cb.step = "drain" => CbAttempt \notin open)
        BY <3>1, <4>1 DEF journal
      <4>2. ASSUME NEW e, Append(e), e.type \in SettleTypes \ {"nodeCancelled"},
                   e.n = cb.n, e.k = cb.k, e.a = cb.a
            PROVE  open' \subseteq open \ {CbAttempt}
        BY <4>2, LedgerEffect DEF Append, SettleTypes, Closes, CbAttempt
      <4>. QED BY <2>3, <3>1, <4>1, <4>2, SettleMove
    <3>. QED BY <2>3, <3>1, <3>2
  <2>4. CASE /\ pc = "drain" /\ todo' = todo /\ why = why' /\ ~Arm /\ ~ClaimWork
             /\ cb.step = "drain" => cb' = cb
    <3>1. open' \subseteq todo \cup (IF cb.step = "drain" THEN {CbAttempt} ELSE {})
      BY <1>1, <1>a, <1>b, <2>4 DEF QuiescentInv
    <3>2. cb.step = "drain" => cb'.step = "drain" /\ CbAttempt' = CbAttempt
      BY <2>4 DEF CbAttempt
    <3>. QED BY <2>4, <3>1, <3>2
  <2>. QED BY <1>1, <2>1, <2>2, <2>3, <2>4, DrainMove
<1>2. ASSUME pc' = "finalize" PROVE open' = {}
  <2>1. CASE DrainPassed /\ why = "runCancellation" /\ todo = {}
    BY <1>a, <2>1 DEF QuiescentInv, DrainPassed, Steps, journal
  <2>2. CASE pc = "finalize" /\ ~Arm /\ ~ClaimWork
    BY <1>a, <1>b, <2>2 DEF QuiescentInv
  <2>. QED BY <1>2, <2>1, <2>2, FinalizeMove
<1>3. ASSUME pc' = "arm" PROVE snap'.run \in {"running", "cancelling"}
  <2>1. CASE ClaimWork
    BY <2>1, ClaimEffect DEF Claims
  <2>2. CASE pc = "arm"
    BY <1>a, <1>3, <2>2, RunComesToRest DEF QuiescentInv
  <2>3. pc = "arm" \/ ClaimWork
    <3>1. CASE Drive \/ Tick
      BY <1>3, <3>1, TickCalm DEF Drive, Tick, SignalToJournal, Cancelling, Finalize, Boundary, DropObsolete,
         DropOrphaned, Decide, Publish, Quiesced, DrainClosed, ProvesClosed, DrainPassed, Wake, ResolveEdge,
         SkipNode, Controlled, ClaimGate, PassOver, Dispatched, Arm, ArmIf, ArmFailed, CancelLoser,
         EndTick, NoticeCancel, Quiesce, Return, GiveUp, Goto, Running, Top
    <3>2. CASE Callback
      BY <1>3, <3>2 DEF Callback, CbVerdict, CbDrain, CbCancelled, CbRevisit, CbRefresh, CbRetry, Finally
    <3>3. CASE Promises \/ WorkerExit \/ Human \/ Environment \/ UNCHANGED vars
      BY <1>3, <3>3 DEF Promises, Settle, Judge, WorkerExit, Human, GateClick, Click, Retry, GrantRevisit,
         Environment, Cancel, CancelAnd, ForeignCancel, BareAbort, Crash, vars, local
    <3>. QED BY <3>1, <3>2, <3>3 DEF Next
  <2>. QED BY <2>1, <2>2, <2>3
<1>4. TerminalQuiescent'
  <2>. SUFFICES ASSUME snap'.run \in TrueTerminal \cup {"blocked"} PROVE open' = {}
    BY DEF TerminalQuiescent
  <2>1. CASE snap'.run = snap.run
    <3>1. open = {}
      BY <1>a, <2>1 DEF QuiescentInv, TerminalQuiescent
    <3>2. ~ClaimWork
      BY <2>1 DEF ClaimWork, Claimable, TrueTerminal
    <3>3. ~Arm
      BY <1>a, <2>1 DEF QuiescentInv, Arm, ArmIf, TrueTerminal
    <3>. QED BY <1>b, <3>1, <3>2, <3>3
  <2>2. CASE snap'.run # snap.run
    BY <2>2, RunComesToRest DEF TrueTerminal
  <2>. QED BY <2>1, <2>2
<1>. QED BY <1>1, <1>2, <1>3, <1>4 DEF QuiescentInv

----------------------------------------------------------------------------
(* The theorems.                                                           *)

\* A new journal has neither workers nor promises.
LEMMA WorkersInit == Init => WorkerInv
<1>. SUFFICES ASSUME Init PROVE WorkerInv
  OBVIOUS
<1>. USE DEF Init
<1>1. ViewInv
  BY DEF ViewInv, Views, Mirror, Exists, Gapless, LatestRuns, WorkersKnown, EmptySnapshot, NoFlight, Key
<1>2. FlightInv
  BY DEF FlightInv, FlightIsLatest, CbInFlight, NoFlight, CbBusy, NoCb
<1>3. EngagedInv /\ PlanInv
  BY DEF EngagedInv, PlanInv, NoFlight, NoPlan
<1>4. LedgerInv
  BY DEF LedgerInv, WorkerAccounted, CbBusy, NoCb, NoFlight
<1>5. QuiescentInv
  BY DEF QuiescentInv, TerminalQuiescent, EmptySnapshot
<1>. QED BY <1>1, <1>2, <1>3, <1>4, <1>5 DEF WorkerInv

\* The views, the promises, the workers and the ledger agree in every run: whoever settles,
\* strikes, drains or finalizes finds what it relies on.
THEOREM WorkerInvariant == Spec => []WorkerInv
<1>1. Init => WorkerInv
  BY WorkersInit
<1>2. ASSUME TypeInv, NumbersInv, GateInv, WorkerInv, [Next]_vars PROVE WorkerInv'
  <2>1. AllInv
    BY <1>2 DEF AllInv
  <2>. QED BY <1>2, <2>1, ViewStep, FlightStep, EngagedStep, PlanStep, LedgerStep, QuiescentStep DEF WorkerInv
<1>. QED BY <1>1, <1>2, TypeInvariant, NumbersInvariant, GateInvariant, PTL DEF Spec

\* No worker process is ever forgotten: what runs on the machine is on the ledger, from before
\* its spawn until the proof that it closed, through revisits, cancels, crashes and re-drives.
THEOREM WorkersAreAccounted == Spec => []WorkerAccounted
<1>1. WorkerInv => WorkerAccounted
  BY DEF WorkerInv, LedgerInv
<1>. QED BY <1>1, WorkerInvariant, PTL

\* A run is shown finished or blocked only over an empty ledger, so no worker outlives it.
THEOREM TerminalRunsAreQuiescent == Spec => []TerminalQuiescent
<1>1. WorkerInv => TerminalQuiescent
  BY DEF WorkerInv, QuiescentInv
<1>. QED BY <1>1, WorkerInvariant, PTL
=============================================================================
