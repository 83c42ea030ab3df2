--------------------------- MODULE V3DriveProofs ---------------------------
(***************************************************************************)
(* Proofs about who drives a run, for any number of daemon processes and   *)
(* gates and any number of deaths, refused cards and lease waits: one      *)
(* process drives, the first answer to a gate is the one the journal       *)
(* takes, and with every process at rest a run is finished or somebody is  *)
(* asked.                                                                  *)
(***************************************************************************)
EXTENDS V3Drive, TLAPS

Label == {"down", "idle", "lease", "engine", "writeWait", "post", "refold", "release"}
Settled == {"approved", "rejected"}

\* One process at most is inside the lease, and it is the holder.
LeaseHeld == lease \in Daemon \cup {Free} /\ \A d \in Daemon : at[d] \in UnderLease <=> lease = d

\* The types without the lease.
Typed ==
  /\ run \in RunStatus /\ node \in [Node -> NodeStatus]
  /\ wait \in [Gate -> {None, "pending", "approved", "rejected"}] /\ card \subseteq Gate
  /\ at \in [Daemon -> Label] /\ rerun \in [Daemon -> BOOLEAN]
  /\ posting \in [Daemon -> SUBSET Gate] /\ cold \in [Daemon -> SUBSET Gate]
  /\ click \in [Daemon -> Gate \cup {None}] /\ dispatch \in [Daemon -> Gate \cup {None}]

\* What a process keeps between two writes goes with the place it is at.
HandsHeld ==
  /\ \A d \in Daemon : dispatch[d] # None => at[d] = "writeWait"
  /\ \A d \in Daemon : posting[d] # {} => at[d] = "post"
  /\ postFails \in Nat /\ timeouts \in Nat

DriveInv == Typed /\ LeaseHeld /\ HandsHeld

\* The first state.
LEMMA DriveInit == Init => DriveInv
<1>. SUFFICES ASSUME Init PROVE DriveInv
  OBVIOUS
<1>1. Typed
  BY DEF Init, Typed, RunStatus, NodeStatus, Label
<1>2. LeaseHeld
  BY ConstantsAssumption DEF Init, LeaseHeld, UnderLease
<1>3. HandsHeld
  BY DEF Init, HandsHeld
<1>. QED BY <1>1, <1>2, <1>3 DEF DriveInv

\* Answering with a person's choice, or healing with the recorded one, gives a node status.
LEMMA ResolutionType == \A g : Resolution(g) \in {"cleared", "rejected"}
BY DEF Resolution

\* Re-queueing does not touch anything but interrupted nodes.
LEMMA RequeuedType == ASSUME Typed PROVE Requeued \in [Node -> NodeStatus]
BY DEF Requeued, Typed, NodeStatus

\* A drive that starts, or is remembered.
LEMMA DriveTyped ==
  ASSUME Typed, NEW d \in Daemon, Drive(d)
  PROVE  at' \in [Daemon -> Label] /\ rerun' \in [Daemon -> BOOLEAN]
BY DEF Drive, Go, Set, Typed, Label

\* Every step keeps the types.
LEMMA TypedStep == ASSUME Typed, [Next]_vars PROVE Typed'
<1>. USE DEF Typed, Label, Go, Set, Private, journal, files, process, counters
<1>1. CASE UNCHANGED vars
  BY <1>1 DEF vars
<1>2. ASSUME NEW d \in Daemon, Program(d) PROVE Typed'
  <2>1. CASE Acquire(d)
    BY <2>1, RequeuedType DEF Acquire
  <2>2. ASSUME NEW n \in Node, StartNode(d, n) \/ SettleNode(d, n) PROVE Typed'
    BY <2>2 DEF StartNode, SettleNode, NodeStatus
  <2>3. ASSUME NEW g \in Gate, DispatchGate(d, g) PROVE Typed'
    BY <2>3 DEF DispatchGate, NodeStatus
  <2>4. ASSUME NEW g \in Gate, PostCard(d, g) PROVE Typed'
    BY <2>4 DEF PostCard, Posted
  <2>5. CASE WriteWait(d)
    BY <2>5 DEF WriteWait
  <2>6. CASE Finish(d) \/ CancelRun(d)
    BY <2>6 DEF Finish, CancelRun, Publish, RunStatus, NodeStatus
  <2>7. CASE Suspend(d)
    <3>1. Waiting \subseteq Gate
      BY DEF Waiting
    <3>. QED BY <2>7, <3>1 DEF Suspend
  <2>8. CASE Refold(d) \/ Release(d)
    BY <2>8 DEF Refold, Release
  <2>9. CASE ClickAppend(d)
    BY <2>9, ResolutionType, DriveTyped DEF ClickAppend, NodeStatus
  <2>. QED BY <1>2, <2>1, <2>2, <2>3, <2>4, <2>5, <2>6, <2>7, <2>8, <2>9 DEF Program
<1>3. ASSUME NEW d \in Daemon, StartUp(d) PROVE Typed'
  BY <1>3, ResolutionType DEF StartUp, ColdAttach, Attach, Waiting, Lost, Unjournaled, NodeStatus
<1>4. ASSUME NEW d \in Daemon, Repost(d) PROVE Typed'
  BY <1>4 DEF Repost, ColdPost, Posted
<1>5. ASSUME NEW d \in Daemon, Environment(d) PROVE Typed'
  <2>1. CASE LeaseTimeout(d) \/ PostFails(d) \/ Crash(d)
    BY <2>1 DEF LeaseTimeout, PostFails, Crash, Abandon
  <2>2. CASE Cancel(d)
    BY <2>2, DriveTyped DEF Cancel, RunStatus
  <2>3. ASSUME NEW g \in Gate, ColdPostFails(d, g) \/ Reclick(d, g) PROVE Typed'
    BY <2>3, DriveTyped DEF ColdPostFails, Reclick
  <2>4. ASSUME NEW g \in Gate, NEW a \in Settled, Click(d, g, a) PROVE Typed'
    BY <2>4 DEF Click, Settled
  <2>. QED BY <1>5, <2>1, <2>2, <2>3, <2>4 DEF Environment, Settled
<1>. QED BY <1>1, <1>2, <1>3, <1>4, <1>5 DEF Next

\* A drive that starts or is remembered takes nobody into the lease or out of it.
LEMMA DriveLease ==
  ASSUME Typed, LeaseHeld, NEW d \in Daemon, Drive(d), UNCHANGED lease
  PROVE  LeaseHeld'
BY DEF Typed, LeaseHeld, Drive, Go, UnderLease

\* The lease stays when a process moves inside or outside, and changes hands through nobody.
LEMMA LeaseMoves ==
  ASSUME Typed, LeaseHeld, NEW d \in Daemon, NEW label \in Label, Go(d, label),
         \/ UNCHANGED lease /\ (label \in UnderLease <=> at[d] \in UnderLease)
         \/ lease = Free /\ lease' = d /\ label \in UnderLease
         \/ lease' = Free /\ lease = d /\ label \notin UnderLease
  PROVE  LeaseHeld'
<1>1. at' = [at EXCEPT ![d] = label] /\ at \in [Daemon -> Label] /\ Free \notin Daemon
  BY ConstantsAssumption DEF Typed, Go
<1>2. \A x \in Daemon : x # d => at'[x] = at[x]
  BY <1>1
<1>3. at'[d] = label
  BY <1>1
<1>. QED BY <1>1, <1>2, <1>3 DEF LeaseHeld

\* Every step keeps the lease with the process that is inside.
LEMMA LeaseStep == ASSUME Typed, LeaseHeld, [Next]_vars PROVE LeaseHeld'
<1>. USE ConstantsAssumption DEF LeaseHeld, UnderLease, Private, journal, files, process, counters
<1>1. CASE UNCHANGED vars
  BY <1>1 DEF vars
<1>2. ASSUME NEW d \in Daemon, Program(d) PROVE LeaseHeld'
  <2>1. CASE Acquire(d)
    BY <2>1, LeaseMoves DEF Acquire, Label
  <2>6. CASE Release(d)
    BY <2>6, LeaseMoves DEF Release, Label
  <2>7. CASE Refold(d) \/ WriteWait(d) \/ Suspend(d)
    BY <2>7, LeaseMoves DEF Refold, WriteWait, Suspend, Running, Engine, Label
  <2>2. ASSUME NEW n \in Node, StartNode(d, n) \/ SettleNode(d, n) PROVE LeaseHeld'
    BY <2>2 DEF StartNode, SettleNode
  <2>3. ASSUME NEW g \in Gate, DispatchGate(d, g) \/ PostCard(d, g) PROVE LeaseHeld'
    BY <2>3, LeaseMoves DEF DispatchGate, PostCard, Posted, Running, Engine, Label
  <2>4. CASE Finish(d) \/ CancelRun(d)
    <3>1. at[d] = "engine" /\ Go(d, "refold") /\ UNCHANGED lease
      BY <2>4 DEF Finish, CancelRun, Publish, Running, Engine
    <3>. QED BY <3>1, LeaseMoves DEF Label
  <2>5. CASE ClickAppend(d)
    BY <2>5, DriveLease DEF ClickAppend
  <2>. QED BY <1>2, <2>1, <2>2, <2>3, <2>4, <2>5, <2>6, <2>7 DEF Program
<1>3. ASSUME NEW d \in Daemon, StartUp(d) \/ Repost(d) PROVE LeaseHeld'
  <2>1. CASE StartUp(d)
    <3>1. at[d] = "down" /\ UNCHANGED lease /\ (Go(d, "lease") \/ Go(d, "idle"))
      BY <2>1 DEF StartUp, ColdAttach, Attach
    <3>. QED BY <3>1, LeaseMoves DEF Label
  <2>2. CASE Repost(d)
    BY <2>2 DEF Repost, ColdPost, Posted
  <2>. QED BY <1>3, <2>1, <2>2
<1>4. ASSUME NEW d \in Daemon, Environment(d) PROVE LeaseHeld'
  <2>1. CASE LeaseTimeout(d)
    BY <2>1, LeaseMoves DEF LeaseTimeout, Abandon, Label
  <2>5. CASE PostFails(d)
    BY <2>5, LeaseMoves DEF PostFails, Abandon, Label
  <2>6. CASE Crash(d)
    BY <2>6, LeaseMoves DEF Crash, Label
  <2>2. CASE Cancel(d)
    BY <2>2, DriveLease DEF Cancel
  <2>3. ASSUME NEW g \in Gate, ColdPostFails(d, g) \/ Reclick(d, g) PROVE LeaseHeld'
    BY <2>3, DriveLease DEF ColdPostFails, Reclick
  <2>4. ASSUME NEW g, NEW a, Click(d, g, a) PROVE LeaseHeld'
    BY <2>4 DEF Click
  <2>. QED BY <1>4, <2>1, <2>2, <2>3, <2>4, <2>5, <2>6 DEF Environment
<1>. QED BY <1>1, <1>2, <1>3, <1>4 DEF Next

\* Every step keeps the hands of the processes tidy.
LEMMA HandsStep == ASSUME Typed, HandsHeld, [Next]_vars PROVE HandsHeld'
<1>. USE ConstantsAssumption DEF Typed, HandsHeld, Go, Set, Private, journal, files, process, counters
<1>1. CASE UNCHANGED vars
  BY <1>1 DEF vars
<1>d. ASSUME NEW d \in Daemon, Drive(d), UNCHANGED <<posting, dispatch, counters>> PROVE HandsHeld'
  BY <1>d DEF Drive
<1>2. ASSUME NEW d \in Daemon, Program(d) PROVE HandsHeld'
  <2>1. CASE Acquire(d) \/ Refold(d) \/ Release(d)
    BY <2>1 DEF Acquire, Refold, Release
  <2>2. ASSUME NEW n \in Node, StartNode(d, n) \/ SettleNode(d, n) PROVE HandsHeld'
    BY <2>2 DEF StartNode, SettleNode
  <2>3. ASSUME NEW g \in Gate, DispatchGate(d, g) PROVE HandsHeld'
    BY <2>3 DEF DispatchGate, Running, Engine
  <2>4. ASSUME NEW g \in Gate, PostCard(d, g) PROVE HandsHeld'
    BY <2>4 DEF PostCard, Posted
  <2>5. CASE WriteWait(d)
    BY <2>5 DEF WriteWait
  <2>6. CASE Finish(d) \/ CancelRun(d)
    <3>1. at[d] = "engine" /\ Go(d, "refold") /\ UNCHANGED <<posting, dispatch, counters>>
      BY <2>6 DEF Finish, CancelRun, Publish, Running, Engine
    <3>. QED BY <3>1
  <2>7. CASE Suspend(d)
    BY <2>7 DEF Suspend, Running, Engine
  <2>8. CASE ClickAppend(d)
    BY <2>8, <1>d DEF ClickAppend
  <2>. QED BY <1>2, <2>1, <2>2, <2>3, <2>4, <2>5, <2>6, <2>7, <2>8 DEF Program
<1>3. ASSUME NEW d \in Daemon, StartUp(d) PROVE HandsHeld'
  <2>1. at[d] = "down" /\ (Go(d, "lease") \/ Go(d, "idle")) /\ UNCHANGED <<posting, dispatch, counters>>
    BY <1>3 DEF StartUp, ColdAttach, Attach
  <2>. QED BY <2>1
<1>4. ASSUME NEW d \in Daemon, Repost(d) PROVE HandsHeld'
  BY <1>4 DEF Repost, ColdPost, Posted
<1>5. ASSUME NEW d \in Daemon, Environment(d) PROVE HandsHeld'
  <2>1. CASE LeaseTimeout(d)
    BY <2>1 DEF LeaseTimeout, Abandon
  <2>2. CASE PostFails(d)
    BY <2>2 DEF PostFails, Abandon
  <2>3. CASE Crash(d)
    BY <2>3 DEF Crash
  <2>4. CASE Cancel(d)
    BY <2>4, <1>d DEF Cancel
  <2>5. ASSUME NEW g \in Gate, ColdPostFails(d, g) \/ Reclick(d, g) PROVE HandsHeld'
    BY <2>5, <1>d DEF ColdPostFails, Reclick
  <2>6. ASSUME NEW g, NEW a, Click(d, g, a) PROVE HandsHeld'
    BY <2>6 DEF Click
  <2>. QED BY <1>5, <2>1, <2>2, <2>3, <2>4, <2>5, <2>6 DEF Environment
<1>. QED BY <1>1, <1>2, <1>3, <1>4, <1>5 DEF Next

\* Types, the lease and the hands of the processes, in every run.
THEOREM DriveInvariant == Spec => []DriveInv
<1>1. ASSUME DriveInv, [Next]_vars PROVE DriveInv'
  BY <1>1, TypedStep, LeaseStep, HandsStep DEF DriveInv
<1>. QED BY <1>1, DriveInit, PTL DEF Spec

\* Type correctness, and one process at most inside the drive lease (withFileLock around
\* driveV3Run): whatever dies, times out or is refused, the holder is the process that is inside.
THEOREM DriveTypeCorrect == Spec => []TypeOK
<1>1. DriveInv => TypeOK
  BY DEF DriveInv, Typed, LeaseHeld, TypeOK, Label
<1>. QED BY <1>1, DriveInvariant, PTL

----------------------------------------------------------------------------
(* One answer for a gate.                                                  *)

\* Nobody has answered a gate before its wait file is there.
Undecided ==
  \A g \in Gate : /\ node[g] = "todo" => wait[g] = None
                  /\ (\E d \in Daemon : dispatch[d] = g) => node[g] # "todo" /\ wait[g] \notin Settled

\* Every step keeps that, and the answer that was given, when no process stops between the two
\* records of a dispatch for as long as a person needs.
LEMMA AnswerStep ==
  ASSUME Stall = FALSE, DriveInv, Undecided, [Next]_vars
  PROVE  /\ Undecided'
         /\ \A g \in Gate : wait[g] \in Settled =>
              /\ wait'[g] = wait[g]
              /\ node'[g] # node[g] /\ node[g] = "waiting" => node'[g] \in {Resolution(g), "cancelled"}
<1>. DEFINE Answered == \A g \in Gate : wait[g] \in Settled =>
              /\ wait'[g] = wait[g]
              /\ node'[g] # node[g] /\ node[g] = "waiting" => node'[g] \in {Resolution(g), "cancelled"}
<1>. SUFFICES Undecided' /\ Answered
  OBVIOUS
<1>. USE ConstantsAssumption DEF DriveInv, Typed, Undecided, Settled, Set, Node, Private, journal, files, process, counters
<1>r. \A g : Resolution(g) \in {"cleared", "rejected"}
  BY ResolutionType
<1>1. CASE UNCHANGED vars
  BY <1>1 DEF vars
<1>2. ASSUME NEW d \in Daemon, Program(d) PROVE Undecided' /\ Answered
  <2>1. CASE Acquire(d)
    BY <2>1 DEF Acquire, Requeued
  <2>2. ASSUME NEW n \in Node, StartNode(d, n) \/ SettleNode(d, n) PROVE Undecided' /\ Answered
    BY <2>2 DEF StartNode, SettleNode, Ready
  <2>3. ASSUME NEW g \in Gate, DispatchGate(d, g) PROVE Undecided' /\ Answered
    BY <2>3 DEF DispatchGate, None
  <2>4. ASSUME NEW g \in Gate, PostCard(d, g) PROVE Undecided' /\ Answered
    BY <2>4 DEF PostCard, Posted
  <2>5. CASE WriteWait(d)
    BY <2>5 DEF WriteWait
  <2>6. CASE Finish(d) \/ CancelRun(d)
    BY <2>6 DEF Finish, CancelRun, Publish
  <2>7. CASE Suspend(d) \/ Refold(d) \/ Release(d)
    BY <2>7 DEF Suspend, Refold, Release
  <2>8. CASE ClickAppend(d)
    BY <2>8, <1>r DEF ClickAppend
  <2>. QED BY <1>2, <2>1, <2>2, <2>3, <2>4, <2>5, <2>6, <2>7, <2>8 DEF Program
<1>3. ASSUME NEW d \in Daemon, StartUp(d) PROVE Undecided' /\ Answered
  <2>1. UNCHANGED dispatch
    BY <1>3 DEF StartUp, ColdAttach, Attach
  <2>2. CASE UNCHANGED <<node, wait>>
    BY <2>1, <2>2
  <2>3. CASE /\ wait' = [g \in Gate |-> IF g \in Lost THEN "pending" ELSE wait[g]]
             /\ node' = [n \in Gate \cup {Work} |-> IF n \in Unjournaled THEN Resolution(n) ELSE node[n]]
    <3>1. \A g \in Gate : /\ wait'[g] = wait[g] \/ (wait[g] = None /\ wait'[g] = "pending" /\ node[g] = "waiting")
                          /\ node'[g] = node[g] \/ (node[g] = "waiting" /\ node'[g] = Resolution(g))
      BY <2>3 DEF Lost, Unjournaled, Waiting
    <3>. QED BY <1>r, <2>1, <3>1 DEF None
  <2>. QED BY <1>3, <2>2, <2>3 DEF StartUp, ColdAttach, Attach
<1>4. ASSUME NEW d \in Daemon, Repost(d) PROVE Undecided' /\ Answered
  BY <1>4 DEF Repost, ColdPost, Posted
<1>5. ASSUME NEW d \in Daemon, Environment(d) PROVE Undecided' /\ Answered
  <2>1. CASE LeaseTimeout(d) \/ PostFails(d) \/ Crash(d)
    BY <2>1 DEF LeaseTimeout, PostFails, Crash
  <2>2. CASE Cancel(d)
    BY <2>2 DEF Cancel
  <2>3. ASSUME NEW g \in Gate, ColdPostFails(d, g) \/ Reclick(d, g) PROVE Undecided' /\ Answered
    BY <2>3 DEF ColdPostFails, Reclick
  <2>4. ASSUME NEW g \in Gate, NEW a, Click(d, g, a) PROVE Undecided' /\ Answered
    BY <2>4 DEF Click, Answerable
  <2>. QED BY <1>5, <2>1, <2>2, <2>3, <2>4 DEF Environment
<1>. QED BY <1>1, <1>2, <1>3, <1>4, <1>5 DEF Next

\* "Wait-first on purpose": the first click that settles a wait file decides what the journal
\* says of the gate, also when another process heals the journal after a death between the two
\* writes.  The theorem is about processes that write the wait file of a dispatch before a person
\* can answer the card of another process.
THEOREM FirstAnswerWins == ASSUME Stall = FALSE PROVE Spec => OneAnswer
<1>1. Init => Undecided
  BY ConstantsAssumption DEF Init, Undecided, Settled, None
<1>2. Spec => []Undecided
  <2>1. ASSUME DriveInv, Undecided, [Next]_vars PROVE Undecided'
    BY <2>1, AnswerStep
  <2>. QED BY <1>1, <2>1, DriveInvariant, PTL DEF Spec
<1>3. ASSUME DriveInv, Undecided, [Next]_vars
      PROVE  \A g \in Gate : wait[g] \in {"approved", "rejected"} =>
               /\ wait'[g] = wait[g]
               /\ node'[g] # node[g] /\ node[g] = "waiting" => node'[g] \in {Resolution(g), "cancelled"}
  BY <1>3, AnswerStep DEF Settled
<1>. QED BY <1>2, <1>3, DriveInvariant, PTL DEF Spec, OneAnswer

----------------------------------------------------------------------------
(* Somebody's turn.                                                        *)

\* A drive that will look at the whole run again, or a process whose start-up will.
Coming == {"down", "lease", "engine", "writeWait"}
Ending == {"post", "refold", "release"}

\* An open approval has a wait file to settle, or somebody is between the two records of it.
Held ==
  \A g \in Waiting : \/ wait[g] = "pending"
                     \/ \E d \in Daemon : click[d] = g \/ dispatch[d] = g \/ at[d] = "down"

\* Its card is there, or somebody is about to post it.
Shown ==
  \A g \in Waiting : \/ g \in card
                     \/ \E d \in Daemon : g \in posting[d] \/ g \in cold[d] \/ at[d] \in Coming

\* A run that waits for nobody has a drive that has not decided yet, or is to come again.
Moving == Waiting # {} \/ \E d \in Daemon : at[d] \in Coming \/ (at[d] \in Ending /\ rerun[d])

\* So has a run that is to be cancelled.
Cutting == \E d \in Daemon : at[d] \in Coming \cup {"post", "refold"} \/ (at[d] = "release" /\ rerun[d])

TurnInv ==
  ~Refused => /\ run = "running" => Held /\ Shown /\ Moving
              /\ run = "cancelling" => Cutting

\* Nothing takes back a refusal, and a run never starts over.
LEMMA RefusalStays ==
  ASSUME DriveInv, [Next]_vars
  PROVE  /\ ~Refused' => ~Refused /\ \A d \in Daemon : ~LeaseTimeout(d) /\ ~PostFails(d)
                                     /\ \A g \in Gate : ~ColdPostFails(d, g)
         /\ run' = "running" => run = "running"
<1>t. postFails \in Nat /\ timeouts \in Nat
  BY DEF DriveInv, HandsHeld
<1>. USE DEF Private, journal, files, process, counters
<1>. DEFINE Same == UNCHANGED <<postFails, timeouts>> /\ (run' = "running" => run = "running")
<1>1. ASSUME NEW d \in Daemon, LeaseTimeout(d) \/ PostFails(d) \/ \E g \in Gate : ColdPostFails(d, g)
      PROVE  Refused' /\ run' = run
  <2>1. CASE LeaseTimeout(d)
    BY <1>t, <2>1 DEF LeaseTimeout, Refused
  <2>2. CASE PostFails(d)
    BY <1>t, <2>2 DEF PostFails, Refused
  <2>3. ASSUME NEW g \in Gate, ColdPostFails(d, g) PROVE Refused' /\ run' = run
    BY <1>t, <2>3 DEF ColdPostFails, Refused
  <2>. QED BY <1>1, <2>1, <2>2, <2>3
<1>2. UNCHANGED vars => Same
  BY DEF vars
<1>3. ASSUME NEW d \in Daemon, Program(d) \/ StartUp(d) \/ Repost(d) PROVE Same
  <2>1. CASE Acquire(d) \/ WriteWait(d) \/ Suspend(d) \/ Refold(d) \/ Release(d) \/ ClickAppend(d)
    BY <2>1 DEF Acquire, WriteWait, Suspend, Refold, Release, ClickAppend
  <2>2. ASSUME NEW n \in Node, StartNode(d, n) \/ SettleNode(d, n) PROVE Same
    BY <2>2 DEF StartNode, SettleNode
  <2>3. ASSUME NEW g \in Gate, DispatchGate(d, g) \/ PostCard(d, g) \/ ColdPost(d, g) PROVE Same
    BY <2>3 DEF DispatchGate, PostCard, ColdPost, Posted
  <2>4. CASE Finish(d) \/ CancelRun(d)
    BY <2>4 DEF Finish, CancelRun, Publish
  <2>5. CASE StartUp(d)
    BY <2>5 DEF StartUp, ColdAttach, Attach
  <2>. QED BY <1>3, <2>1, <2>2, <2>3, <2>4, <2>5 DEF Program, Repost
<1>4. ASSUME NEW d \in Daemon, Environment(d)
      PROVE  Same \/ LeaseTimeout(d) \/ PostFails(d) \/ \E g \in Gate : ColdPostFails(d, g)
  BY <1>4 DEF Environment, Cancel, Crash, Reclick, Click
<1>5. ASSUME Same PROVE \A d \in Daemon : ~LeaseTimeout(d) /\ ~PostFails(d) /\ \A g \in Gate : ~ColdPostFails(d, g)
  BY <1>t, <1>5 DEF LeaseTimeout, PostFails, ColdPostFails
<1>6. Same => (Refused' <=> Refused)
  BY DEF Refused
<1>7. Same \/ \E d \in Daemon : LeaseTimeout(d) \/ PostFails(d) \/ \E g \in Gate : ColdPostFails(d, g)
  BY <1>2, <1>3, <1>4 DEF Next, vars
<1>. QED BY <1>1, <1>5, <1>6, <1>7

\* What a requested drive does for the run.
LEMMA DriveTurns ==
  ASSUME DriveInv, NEW d \in Daemon, Drive(d)
  PROVE  /\ at'[d] \in Coming \/ (at'[d] \in Ending /\ rerun'[d])
         /\ \A x \in Daemon : \/ at'[x] = at[x] /\ (rerun[x] => rerun'[x])
                              \/ at[x] = "idle" /\ at'[x] = "lease"
BY DEF DriveInv, Typed, Label, Drive, Go, Set, Coming, Ending

\* A step of a run that goes on keeps every open approval with somebody.
LEMMA HeldStep ==
  ASSUME DriveInv, Held, [Next]_vars, run = "running"
  PROVE  Held'
<1>. USE ConstantsAssumption DEF DriveInv, Typed, HandsHeld, Label, Held, Waiting, Go, Set, Node, Private, journal, files, process, counters
<1>1. CASE UNCHANGED vars
  BY <1>1 DEF vars
<1>m. ASSUME UNCHANGED <<node, wait, click, dispatch>>, NEW d \in Daemon, at[d] # "down",
             \E label : Go(d, label)
      PROVE  Held'
  BY <1>m
<1>d. ASSUME NEW d \in Daemon, Drive(d), UNCHANGED <<node, wait, click, dispatch>> PROVE Held'
  BY <1>d DEF Drive
<1>2. ASSUME NEW d \in Daemon, Program(d) PROVE Held'
  <2>1. CASE Acquire(d)
    BY <2>1 DEF Acquire, Requeued
  <2>2. ASSUME NEW n \in Node, StartNode(d, n) \/ SettleNode(d, n) PROVE Held'
    BY <2>2 DEF StartNode, SettleNode
  <2>3. ASSUME NEW g \in Gate, DispatchGate(d, g) PROVE Held'
    BY <2>3 DEF DispatchGate, Running, Engine
  <2>4. ASSUME NEW g \in Gate, PostCard(d, g) PROVE Held'
    BY <2>4, <1>m DEF PostCard, Posted
  <2>5. CASE WriteWait(d)
    BY <2>5 DEF WriteWait
  <2>6. CASE Finish(d) \/ CancelRun(d)
    <3>1. Running(d) /\ Go(d, "refold") /\ UNCHANGED <<node, wait, click, dispatch>>
      BY <2>6 DEF Finish, CancelRun, Publish, Running, Engine
    <3>. QED BY <3>1, <1>m DEF Running, Engine
  <2>7. CASE Suspend(d) \/ Refold(d) \/ Release(d)
    BY <2>7, <1>m DEF Suspend, Refold, Release, Running, Engine
  <2>8. CASE ClickAppend(d)
    <3>1. \A g \in Gate : node'[g] = "waiting" => node[g] = "waiting" /\ g # click[d]
      BY <2>8, ResolutionType DEF ClickAppend
    <3>2. \A x \in Daemon : at[x] = "down" => at'[x] = "down"
      BY <2>8, DriveTurns DEF ClickAppend
    <3>. QED BY <2>8, <3>1, <3>2 DEF ClickAppend, Clicking
  <2>. QED BY <1>2, <2>1, <2>2, <2>3, <2>4, <2>5, <2>6, <2>7, <2>8 DEF Program
<1>3. ASSUME NEW d \in Daemon, StartUp(d) PROVE Held'
  <2>1. /\ wait' = [g \in Gate |-> IF g \in Lost THEN "pending" ELSE wait[g]]
        /\ node' = [n \in Node |-> IF n \in Unjournaled THEN Resolution(n) ELSE node[n]]
    BY <1>3 DEF StartUp, ColdAttach
  <2>2. ASSUME NEW g \in Gate, node'[g] = "waiting" PROVE wait'[g] = "pending"
    BY <2>1, <2>2, ResolutionType DEF Lost, Unjournaled
  <2>. QED BY <2>2
<1>4. ASSUME NEW d \in Daemon, Repost(d) PROVE Held'
  BY <1>4 DEF Repost, ColdPost, Posted
<1>5. ASSUME NEW d \in Daemon, Environment(d) PROVE Held'
  <2>1. CASE LeaseTimeout(d) \/ PostFails(d)
    BY <2>1, <1>m DEF LeaseTimeout, PostFails, Abandon
  <2>2. CASE Crash(d)
    BY <2>2 DEF Crash
  <2>3. CASE Cancel(d)
    BY <2>3, <1>d DEF Cancel
  <2>4. ASSUME NEW g \in Gate, ColdPostFails(d, g) \/ Reclick(d, g) PROVE Held'
    BY <2>4, <1>d DEF ColdPostFails, Reclick
  <2>5. ASSUME NEW g \in Gate, NEW a, Click(d, g, a) PROVE Held'
    BY <2>5 DEF Click, Clicking
  <2>. QED BY <1>5, <2>1, <2>2, <2>3, <2>4, <2>5 DEF Environment
<1>. QED BY <1>1, <1>2, <1>3, <1>4, <1>5 DEF Next

\* ... and its card with a person, or with a process that is to post it.
LEMMA ShownStep ==
  ASSUME DriveInv, Shown, [Next]_vars, run = "running", run' = "running",
         \A d \in Daemon : ~LeaseTimeout(d) /\ ~PostFails(d) /\ \A g \in Gate : ~ColdPostFails(d, g)
  PROVE  Shown'
<1>. USE ConstantsAssumption DEF DriveInv, Typed, HandsHeld, Label, Shown, Coming, Waiting, Go, Set, Node, Private, journal, files, process, counters
<1>1. CASE UNCHANGED vars
  BY <1>1 DEF vars
<1>d. ASSUME NEW d \in Daemon, Drive(d), UNCHANGED <<card, posting, cold>>,
             \A g \in Gate : node'[g] = "waiting" => node[g] = "waiting"
      PROVE  Shown'
  BY <1>d, DriveTurns
<1>2. ASSUME NEW d \in Daemon, Program(d) PROVE Shown'
  <2>1. CASE Acquire(d)
    BY <2>1 DEF Acquire, Requeued, Finished
  <2>2. ASSUME NEW n \in Node, StartNode(d, n) \/ SettleNode(d, n) PROVE Shown'
    BY <2>2 DEF StartNode, SettleNode
  <2>3. ASSUME NEW g \in Gate, DispatchGate(d, g) PROVE Shown'
    <3>1. at'[d] = "writeWait"
      BY <2>3 DEF DispatchGate
    <3>. QED BY <3>1
  <2>4. ASSUME NEW g \in Gate, PostCard(d, g) PROVE Shown'
    BY <2>4 DEF PostCard, Posted
  <2>5. CASE WriteWait(d)
    BY <2>5 DEF WriteWait
  <2>6. CASE Finish(d) \/ CancelRun(d)
    BY <2>6 DEF Finish, CancelRun, Publish
  <2>7. CASE Suspend(d)
    <3>1. \A g \in Gate : node'[g] = "waiting" => g \in posting'[d]
      BY <2>7 DEF Suspend
    <3>. QED BY <3>1
  <2>8. CASE Refold(d) \/ Release(d)
    BY <2>8 DEF Refold, Release
  <2>9. CASE ClickAppend(d)
    BY <2>9, <1>d, ResolutionType DEF ClickAppend
  <2>. QED BY <1>2, <2>1, <2>2, <2>3, <2>4, <2>5, <2>6, <2>7, <2>8, <2>9 DEF Program
<1>3. ASSUME NEW d \in Daemon, StartUp(d) PROVE Shown'
  <2>1. \A g \in Gate : node'[g] = "waiting" => node[g] = "waiting"
    BY <1>3, ResolutionType DEF StartUp, ColdAttach
  <2>2. at'[d] = "lease" \/ cold'[d] = Waiting
    BY <1>3 DEF StartUp, ColdAttach, Attach
  <2>. QED BY <2>1, <2>2
<1>4. ASSUME NEW d \in Daemon, Repost(d) PROVE Shown'
  BY <1>4 DEF Repost, ColdPost, Posted
<1>5. ASSUME NEW d \in Daemon, Environment(d) PROVE Shown'
  <2>1. CASE Crash(d)
    BY <2>1 DEF Crash
  <2>2. CASE Cancel(d)
    BY <2>2 DEF Cancel
  <2>3. ASSUME NEW g \in Gate, Reclick(d, g) PROVE Shown'
    BY <2>3, <1>d DEF Reclick
  <2>4. ASSUME NEW g \in Gate, NEW a, Click(d, g, a) PROVE Shown'
    BY <2>4 DEF Click
  <2>. QED BY <1>5, <2>1, <2>2, <2>3, <2>4 DEF Environment
<1>. QED BY <1>1, <1>2, <1>3, <1>4, <1>5 DEF Next

\* A step of a run that goes on leaves an approval open or a drive coming.
LEMMA MovingStep ==
  ASSUME DriveInv, Moving, [Next]_vars, run = "running", run' = "running",
         \A d \in Daemon : ~LeaseTimeout(d) /\ ~PostFails(d)
  PROVE  Moving'
<1>. USE ConstantsAssumption DEF DriveInv, Typed, Label, Moving, Coming, Ending, Waiting, Go, Set, Node, Private, journal, files, process, counters
<1>1. CASE UNCHANGED vars
  BY <1>1 DEF vars
<1>d. ASSUME NEW d \in Daemon, Drive(d) PROVE Moving'
  BY <1>d, DriveTurns
<1>2. ASSUME NEW d \in Daemon, Program(d) PROVE Moving'
  <2>1. CASE Acquire(d)
    <3>1. at'[d] = "engine"
      BY <2>1 DEF Acquire, Finished
    <3>. QED BY <3>1
  <2>2. ASSUME NEW n \in Node, StartNode(d, n) \/ SettleNode(d, n) PROVE Moving'
    <3>1. at'[d] = "engine"
      BY <2>2 DEF StartNode, SettleNode, Running, Engine
    <3>. QED BY <3>1
  <2>3. ASSUME NEW g \in Gate, DispatchGate(d, g) PROVE Moving'
    <3>1. at'[d] = "writeWait"
      BY <2>3 DEF DispatchGate
    <3>. QED BY <3>1
  <2>4. ASSUME NEW g \in Gate, PostCard(d, g) PROVE Moving'
    BY <2>4 DEF PostCard, Posted
  <2>5. CASE WriteWait(d)
    <3>1. at'[d] = "engine"
      BY <2>5 DEF WriteWait
    <3>. QED BY <3>1
  <2>6. CASE Finish(d) \/ CancelRun(d)
    BY <2>6 DEF Finish, CancelRun, Publish
  <2>7. CASE Suspend(d)
    BY <2>7 DEF Suspend
  <2>8. CASE Refold(d)
    BY <2>8 DEF Refold
  <2>9. CASE Release(d)
    BY <2>9 DEF Release
  <2>10. CASE ClickAppend(d)
    BY <2>10, <1>d DEF ClickAppend
  <2>. QED BY <1>2, <2>1, <2>2, <2>3, <2>4, <2>5, <2>6, <2>7, <2>8, <2>9, <2>10 DEF Program
<1>3. ASSUME NEW d \in Daemon, StartUp(d) PROVE Moving'
  <2>1. CASE at'[d] = "lease"
    BY <2>1
  <2>2. CASE at'[d] # "lease"
    <3>1. Waiting # {} /\ Unjournaled = {}
      BY <1>3, <2>2 DEF StartUp, ColdAttach, Attach
    <3>2. node' = node
      BY <1>3, <3>1 DEF StartUp, ColdAttach
    <3>. QED BY <3>1, <3>2
  <2>. QED BY <2>1, <2>2
<1>4. ASSUME NEW d \in Daemon, Repost(d) PROVE Moving'
  BY <1>4 DEF Repost, ColdPost, Posted
<1>5. ASSUME NEW d \in Daemon, Environment(d) PROVE Moving'
  <2>1. CASE Crash(d)
    <3>1. at'[d] = "down"
      BY <2>1 DEF Crash
    <3>. QED BY <3>1
  <2>2. CASE Cancel(d)
    BY <2>2, <1>d DEF Cancel
  <2>3. ASSUME NEW g \in Gate, ColdPostFails(d, g) \/ Reclick(d, g) PROVE Moving'
    BY <2>3, <1>d DEF ColdPostFails, Reclick
  <2>4. ASSUME NEW g \in Gate, NEW a, Click(d, g, a) PROVE Moving'
    BY <2>4 DEF Click
  <2>. QED BY <1>5, <2>1, <2>2, <2>3, <2>4 DEF Environment
<1>. QED BY <1>1, <1>2, <1>3, <1>4, <1>5 DEF Next

\* A request to cancel finds a drive, and keeps one until the run is cancelled.
LEMMA CuttingStep ==
  ASSUME DriveInv, [Next]_vars, run' = "cancelling", run = "cancelling" => Cutting,
         \A d \in Daemon : ~LeaseTimeout(d) /\ ~PostFails(d)
  PROVE  Cutting'
<1>. USE ConstantsAssumption DEF DriveInv, Typed, Label, Cutting, Coming, Ending, Go, Set, Private, journal, files, process, counters
<1>c. ASSUME NEW d \in Daemon, at'[d] \in Coming PROVE Cutting'
  BY <1>c
<1>1. CASE UNCHANGED vars
  BY <1>1 DEF vars
<1>2. ASSUME NEW d \in Daemon, Program(d) PROVE Cutting'
  <2>1. CASE Acquire(d)
    BY <2>1, <1>c DEF Acquire, Finished
  <2>2. ASSUME NEW n \in Node, StartNode(d, n) \/ SettleNode(d, n) PROVE Cutting'
    BY <2>2, <1>c DEF StartNode, SettleNode, Running, Engine
  <2>3. ASSUME NEW g \in Gate, DispatchGate(d, g) PROVE Cutting'
    BY <2>3, <1>c DEF DispatchGate
  <2>4. ASSUME NEW g \in Gate, PostCard(d, g) PROVE Cutting'
    <3>1. at'[d] \in {"post", "refold"}
      BY <2>4 DEF PostCard
    <3>. QED BY <3>1
  <2>5. CASE WriteWait(d)
    BY <2>5, <1>c DEF WriteWait
  <2>6. CASE Finish(d) \/ CancelRun(d)
    BY <2>6 DEF Finish, CancelRun, Publish
  <2>7. CASE Suspend(d)
    <3>1. at'[d] = "post"
      BY <2>7 DEF Suspend
    <3>. QED BY <3>1
  <2>8. CASE Refold(d)
    BY <2>8, <1>c DEF Refold
  <2>9. CASE Release(d)
    BY <2>9 DEF Release
  <2>10. CASE ClickAppend(d)
    BY <2>10, DriveTurns DEF ClickAppend
  <2>. QED BY <1>2, <2>1, <2>2, <2>3, <2>4, <2>5, <2>6, <2>7, <2>8, <2>9, <2>10 DEF Program
<1>3. ASSUME NEW d \in Daemon, StartUp(d) PROVE Cutting'
  BY <1>3, <1>c DEF StartUp, ColdAttach, Attach
<1>4. ASSUME NEW d \in Daemon, Repost(d) PROVE Cutting'
  BY <1>4 DEF Repost, ColdPost, Posted
<1>5. ASSUME NEW d \in Daemon, Environment(d) PROVE Cutting'
  <2>1. CASE Crash(d)
    BY <2>1, <1>c DEF Crash
  <2>2. CASE Cancel(d)
    BY <2>2, DriveTurns DEF Cancel
  <2>3. ASSUME NEW g \in Gate, ColdPostFails(d, g) \/ Reclick(d, g) PROVE Cutting'
    BY <2>3 DEF ColdPostFails, Reclick
  <2>4. ASSUME NEW g \in Gate, NEW a, Click(d, g, a) PROVE Cutting'
    BY <2>4 DEF Click
  <2>. QED BY <1>5, <2>1, <2>2, <2>3, <2>4 DEF Environment
<1>. QED BY <1>1, <1>2, <1>3, <1>4, <1>5 DEF Next

\* Every step keeps the turn with somebody.
LEMMA TurnStep == ASSUME DriveInv, TurnInv, [Next]_vars PROVE TurnInv'
<1>. SUFFICES ASSUME ~Refused'
              PROVE  /\ run' = "running" => (Held /\ Shown /\ Moving)'
                     /\ run' = "cancelling" => Cutting'
  BY DEF TurnInv
<1>1. /\ ~Refused
      /\ \A d \in Daemon : ~LeaseTimeout(d) /\ ~PostFails(d) /\ \A g \in Gate : ~ColdPostFails(d, g)
      /\ run' = "running" => run = "running"
  BY RefusalStays
<1>2. ASSUME run' = "running" PROVE Held' /\ Shown' /\ Moving'
  BY <1>1, <1>2, HeldStep, ShownStep, MovingStep DEF TurnInv
<1>3. ASSUME run' = "cancelling" PROVE Cutting'
  BY <1>1, <1>3, CuttingStep DEF TurnInv
<1>. QED BY <1>2, <1>3

\* No crash window between two writes, two processes or two records strands a run that nobody is
\* asked about: with every process at rest, an unfinished run has a card that still decides
\* something (coldAttach, createV3GateRunner, reconcileV3PendingGates), unless the chat provider
\* refused a card or a wait for the lease ran out.
THEOREM NobodyIsStranded == Spec => []SomebodysTurn
<1>1. Init => TurnInv
  <2>. SUFFICES ASSUME Init PROVE TurnInv
    OBVIOUS
  <2>1. PICK d \in Daemon : at[d] = "lease"
    BY ConstantsAssumption DEF Init
  <2>. QED BY <2>1 DEF Init, TurnInv, Held, Shown, Moving, Cutting, Coming, Waiting, Node
<1>2. ASSUME DriveInv, TurnInv PROVE SomebodysTurn
  <2>. SUFFICES ASSUME ~Refused, run \notin Finished,
                       \A d \in Daemon : at[d] = "idle" /\ cold[d] = {} /\ ~Clicking(d)
                PROVE  \E g \in Waiting : g \in card /\ wait[g] = "pending"
    BY DEF SomebodysTurn
  <2>1. \A d \in Daemon : dispatch[d] = None /\ click[d] = None /\ posting[d] = {} /\ cold[d] = {} /\ at[d] = "idle"
    BY <1>2 DEF DriveInv, HandsHeld, Clicking
  <2>2. run = "running"
    BY <1>2, <2>1 DEF DriveInv, Typed, RunStatus, Finished, TurnInv, Cutting, Coming
  <2>3. Held /\ Shown /\ Moving
    BY <1>2, <2>2 DEF TurnInv
  <2>4. PICK g \in Waiting : TRUE
    BY <2>1, <2>3 DEF Moving, Coming, Ending
  <2>5. g \in Gate /\ g # None
    BY ConstantsAssumption DEF Waiting
  <2>. QED BY <2>1, <2>3, <2>4, <2>5 DEF Held, Shown, Coming
<1>3. ASSUME DriveInv, TurnInv, [Next]_vars PROVE TurnInv'
  BY <1>3, TurnStep
<1>. QED BY <1>1, <1>2, <1>3, DriveInvariant, PTL DEF Spec

=============================================================================
