------------------------------- MODULE V3Drive -------------------------------
(***************************************************************************)
(* Who drives a v3 run, and how an approval reaches it                     *)
(* (createV3GateRunner and reconcileV3PendingGates of                      *)
(* workflows/v3/daemon-run.ts, workflows/v3/gate-wait-store.ts).           *)
(*                                                                         *)
(* Several processes of the owning daemon exist during a rolling restart.  *)
(* Each keeps one drive per run in flight and remembers a request that     *)
(* comes meanwhile; the drive lease, a file lock, lets one of them run the *)
(* engine.  An approval is kept twice: the wait file resolves first, the   *)
(* journal follows.  A process may die between any two steps and starts    *)
(* again with a reconciliation of both.                                    *)
(*                                                                         *)
(* What the engine does inside a drive is V3Run; here it is reduced to     *)
(* what the drive can tell: a node without a gate, nodes with one, open    *)
(* attempts, and the status of the run.                                    *)
(***************************************************************************)
EXTENDS Naturals, FiniteSets

CONSTANTS
  Daemon,       \* processes of the daemon that owns the run
  Gate,         \* nodes behind a human gate
  Work,         \* a node without a gate
  MaxCrash,     \* bound on process deaths
  MaxPostFail,  \* bound on cards that the chat provider refuses
  MaxTimeout,   \* bound on waits for the lease that run out
  MaxFault,     \* bound on all of these together
  Stall         \* a process may stop between the two records of a dispatch for as
                \* long as a person needs to answer the card of another process

Free == "free"
None == "none"

ASSUME ConstantsAssumption ==
  /\ Daemon # {} /\ Work \notin Gate /\ None \notin Gate /\ Free \notin Daemon
  /\ MaxCrash \in Nat /\ MaxPostFail \in Nat /\ MaxTimeout \in Nat /\ MaxFault \in Nat
  /\ Stall \in BOOLEAN

Node == Gate \cup {Work}
NodeStatus == {"todo", "waiting", "cleared", "rejected", "running", "done", "cancelled"}
RunStatus == {"running", "cancelling", "cancelled", "succeeded", "failed"}
Finished == {"cancelled", "succeeded", "failed"}

VARIABLES
  run, node,    \* the journal, folded
  wait,         \* the wait file of each gate
  card,         \* gates whose approval card somebody can click
  lease,        \* the process inside the drive lease
  at,           \* where the drive of each process is; "idle" has none in flight
  rerun,        \* rerunRequested
  posting,      \* gates whose card the drive still has to post
  cold,         \* gates whose card the start-up reconciliation still has to post
  click,        \* the gate of a click between its two writes
  dispatch,     \* the gate of a dispatch between its two writes
  crashes, postFails, timeouts

journal == <<run, node>>
files == <<wait, card>>
process == <<at, rerun, posting, cold, click, dispatch>>
counters == <<crashes, postFails, timeouts>>
vars == <<journal, files, lease, process, counters>>

\* A durable start intent has been acknowledged and its process drives; the others are down.
Init ==
  /\ run = "running" /\ node = [n \in Node |-> "todo"]
  /\ wait = [g \in Gate |-> None] /\ card = {}
  /\ lease = Free
  /\ at = [d \in Daemon |-> IF d = CHOOSE x \in Daemon : TRUE THEN "lease" ELSE "down"]
  /\ rerun = [d \in Daemon |-> FALSE]
  /\ posting = [d \in Daemon |-> {}] /\ cold = [d \in Daemon |-> {}]
  /\ click = [d \in Daemon |-> None] /\ dispatch = [d \in Daemon |-> None]
  /\ crashes = 0 /\ postFails = 0 /\ timeouts = 0

----------------------------------------------------------------------------
Room == crashes + postFails + timeouts < MaxFault
Up(d) == at[d] # "down"
Clicking(d) == click[d] # None
Go(d, label) == at' = [at EXCEPT ![d] = label]
Waiting == {g \in Gate : node[g] = "waiting"}
Open == {n \in Node : node[n] = "running"}       \* attempts with no close proof
Ready(n) == node[n] = IF n = Work THEN "todo" ELSE "cleared"
Set(f, n, v) == [f EXCEPT ![n] = v]

\* drive(runId): one in flight per process, a second request is remembered.
Drive(d) ==
  IF at[d] = "idle" THEN Go(d, "lease") /\ UNCHANGED rerun
  ELSE rerun' = Set(rerun, d, TRUE) /\ UNCHANGED at

\* The finally of a drive that threw forgets the remembered request with it.
Abandon(d) ==
  /\ Go(d, "idle") /\ rerun' = Set(rerun, d, FALSE) /\ posting' = Set(posting, d, {})

\* An attempt whose process is gone is fenced and its node queued again.
Requeued == [n \in Node |-> IF node[n] # "running" THEN node[n]
                            ELSE IF n = Work THEN "todo" ELSE "cleared"]

\* Mutant: no lease, only the in-flight guard of the process.
AcquireBusy(d) ==
  /\ at[d] = "lease" /\ ~Clicking(d)
  /\ lease' = d
  /\ node' = IF run \in Finished THEN node ELSE Requeued
  /\ Go(d, IF run \in Finished THEN "refold" ELSE "engine")
  /\ UNCHANGED <<run, files, rerun, posting, cold, click, dispatch, counters>>

\* withFileLock on the lease, then driveV3Run: a finished run is left alone.
Acquire(d) ==
  /\ at[d] = "lease" /\ ~Clicking(d) /\ lease = Free
  /\ lease' = d
  /\ node' = IF run \in Finished THEN node ELSE Requeued
  /\ Go(d, IF run \in Finished THEN "refold" ELSE "engine")
  /\ UNCHANGED <<run, files, rerun, posting, cold, click, dispatch, counters>>

\* The wait for the lease runs out: a durable cancel keeps the waiter, anything else gives up.
LeaseTimeout(d) ==
  /\ at[d] = "lease" /\ ~Clicking(d) /\ lease \notin {Free, d}
  /\ run # "cancelling" /\ timeouts < MaxTimeout /\ Room
  /\ timeouts' = timeouts + 1
  /\ Abandon(d)
  /\ UNCHANGED <<journal, files, lease, cold, click, dispatch, crashes, postFails>>

----------------------------------------------------------------------------
(* The engine under the lease *)

Engine(d) == at[d] = "engine" /\ ~Clicking(d)
Running(d) == Engine(d) /\ run = "running"
Private == UNCHANGED <<files, lease, rerun, posting, cold, click, dispatch, counters>>

StartNode(d, n) ==
  /\ Running(d) /\ Ready(n)
  /\ node' = Set(node, n, "running")
  /\ UNCHANGED <<run, at>> /\ Private

SettleNode(d, n) ==
  /\ Running(d) /\ node[n] = "running"
  /\ node' = Set(node, n, "done")
  /\ UNCHANGED <<run, at>> /\ Private

\* startGate: gateDispatched is appended, then the wait file is written (over a stale one).
DispatchGate(d, g) ==
  /\ Running(d) /\ node[g] = "todo"
  /\ node' = Set(node, g, "waiting")
  /\ dispatch' = Set(dispatch, d, g) /\ Go(d, "writeWait")
  /\ UNCHANGED <<run, files, lease, rerun, posting, cold, click, counters>>

WriteWait(d) ==
  /\ at[d] = "writeWait" /\ ~Clicking(d)
  /\ wait' = Set(wait, dispatch[d], "pending")
  /\ dispatch' = Set(dispatch, d, None) /\ Go(d, "engine")
  /\ UNCHANGED <<journal, card, lease, rerun, posting, cold, click, counters>>

Publish(d, status) == run' = status /\ Go(d, "refold") /\ Private

Finish(d) ==
  /\ Running(d) /\ Open = {}
  /\ \/ \E g \in Gate : node[g] = "rejected" /\ Publish(d, "failed")
     \/ (\A n \in Node : node[n] = "done") /\ Publish(d, "succeeded")
  /\ UNCHANGED node

\* The durable cut is polled while workers run: they are aborted and the run is cancelled.
CancelRun(d) ==
  /\ Engine(d) /\ run = "cancelling"
  /\ node' = [n \in Node |-> IF node[n] = "done" THEN "done" ELSE "cancelled"]
  /\ Publish(d, "cancelled")

\* Nothing runs, nothing can start: the outcome is awaitingGate.
Suspend(d) ==
  /\ Running(d) /\ Open = {} /\ Waiting # {}
  /\ \A n \in Node : ~Ready(n) /\ node[n] \notin {"todo", "rejected"}
  /\ posting' = Set(posting, d, Waiting) /\ Go(d, "post")
  /\ UNCHANGED <<journal, files, lease, rerun, cold, click, dispatch, counters>>

----------------------------------------------------------------------------
(* Between the engine and the end of the drive *)

Posted(d, g) ==
  /\ card' = card \cup {g}
  /\ UNCHANGED <<journal, wait, lease, rerun, click, dispatch, counters>>

PostCard(d, g) ==
  /\ at[d] = "post" /\ ~Clicking(d) /\ g \in posting[d]
  /\ posting' = Set(posting, d, posting[d] \ {g})
  /\ Go(d, IF posting[d] = {g} THEN "refold" ELSE "post")
  /\ UNCHANGED cold /\ Posted(d, g)

\* A refused card makes driveV3Run throw; the lease is released on the way out.
PostFails(d) ==
  /\ at[d] = "post" /\ ~Clicking(d) /\ postFails < MaxPostFail /\ Room
  /\ postFails' = postFails + 1
  /\ lease' = Free /\ Abandon(d)
  /\ UNCHANGED <<journal, files, cold, click, dispatch, crashes, timeouts>>

\* A cancel that landed while cards were posted is folded under the same lease.
Refold(d) ==
  /\ at[d] = "refold" /\ ~Clicking(d)
  /\ Go(d, IF run = "cancelling" THEN "engine" ELSE "release")
  /\ UNCHANGED <<journal, files, lease, rerun, posting, cold, click, dispatch, counters>>

\* Mutant: the remembered request is cleared when the drive ends.
ReleaseForgets(d) ==
  /\ at[d] = "release" /\ ~Clicking(d)
  /\ lease' = Free
  /\ rerun' = Set(rerun, d, FALSE)
  /\ Go(d, "idle")
  /\ UNCHANGED <<journal, files, posting, cold, click, dispatch, counters>>

\* The lease is released; a request remembered meanwhile starts another drive.
Release(d) ==
  /\ at[d] = "release" /\ ~Clicking(d)
  /\ lease' = Free
  /\ rerun' = Set(rerun, d, FALSE)
  /\ Go(d, IF rerun[d] THEN "lease" ELSE "idle")
  /\ UNCHANGED <<journal, files, posting, cold, click, dispatch, counters>>

----------------------------------------------------------------------------
(* People *)

Answerable(g) == Stall \/ \A x \in Daemon : dispatch[x] # g

\* Mutant: the wait file is settled without comparing it first.
ClickBlind(d, g, answer) ==
  /\ Up(d) /\ ~Clicking(d) /\ at[d] # "writeWait" /\ g \in card
  /\ run = "running" /\ node[g] = "waiting" /\ Answerable(g)
  /\ wait' = Set(wait, g, answer)
  /\ click' = Set(click, d, g)
  /\ UNCHANGED <<journal, card, lease, at, rerun, posting, cold, dispatch, counters>>

\* resolveV3GateClick: the run, the node and the wait are looked at, the wait file is settled ...
Click(d, g, answer) ==
  /\ Up(d) /\ ~Clicking(d) /\ at[d] # "writeWait" /\ g \in card
  /\ run = "running" /\ wait[g] = "pending" /\ node[g] = "waiting" /\ Answerable(g)
  /\ wait' = Set(wait, g, answer)
  /\ click' = Set(click, d, g)
  /\ UNCHANGED <<journal, card, lease, at, rerun, posting, cold, dispatch, counters>>

Resolution(g) == IF wait[g] = "approved" THEN "cleared" ELSE "rejected"

\* ... then the journal gets the answer (which a cancelled run ignores) and a drive starts.
ClickAppend(d) ==
  /\ Clicking(d)
  /\ node' = IF run = "running" /\ node[click[d]] = "waiting"
             THEN Set(node, click[d], Resolution(click[d])) ELSE node
  /\ click' = Set(click, d, None)
  /\ Drive(d)
  /\ UNCHANGED <<run, files, lease, posting, cold, dispatch, counters>>

\* A click on a card that is settled as approved drives again.
Reclick(d, g) ==
  /\ Up(d) /\ ~Clicking(d) /\ at[d] # "writeWait" /\ g \in card
  /\ run = "running" /\ wait[g] = "approved"
  /\ Drive(d)
  /\ UNCHANGED <<journal, files, lease, posting, cold, click, dispatch, counters>>

\* Mutant: the request is recorded and nobody is woken.
CancelOnly(d) ==
  /\ Up(d) /\ ~Clicking(d) /\ at[d] # "writeWait" /\ run = "running"
  /\ run' = "cancelling"
  /\ UNCHANGED <<node, files, lease, process, counters>>

\* requestV3RunCancel appends the request durably; the process wakes its drive or starts one.
Cancel(d) ==
  /\ Up(d) /\ ~Clicking(d) /\ at[d] # "writeWait" /\ run = "running"
  /\ run' = "cancelling"
  /\ Drive(d)
  /\ UNCHANGED <<node, files, lease, posting, cold, click, dispatch, counters>>

----------------------------------------------------------------------------
(* Death and start-up *)

Crash(d) ==
  /\ Up(d) /\ crashes < MaxCrash /\ Room
  /\ crashes' = crashes + 1
  /\ Go(d, "down")
  /\ rerun' = Set(rerun, d, FALSE) /\ posting' = Set(posting, d, {})
  /\ cold' = Set(cold, d, {})
  /\ click' = Set(click, d, None) /\ dispatch' = Set(dispatch, d, None)
  /\ lease' = IF lease = d THEN Free ELSE lease
  /\ UNCHANGED <<journal, files, postFails, timeouts>>

Lost == {g \in Waiting : wait[g] = None}                        \* dispatched, no file
Unjournaled == {g \in Waiting : wait[g] \in {"approved", "rejected"}}

Attach(d, resume, cards) ==
  /\ Go(d, IF resume THEN "lease" ELSE "idle")
  /\ cold' = Set(cold, d, IF resume THEN {} ELSE cards)
  /\ UNCHANGED <<run, card, lease, rerun, posting, click, dispatch, counters>>

\* Mutant: a settled wait file is taken as if the journal had it.
ColdAttachNoHeal(d) ==
  /\ at[d] = "down"
  /\ IF run # "running"
     THEN /\ Attach(d, run = "cancelling" \/ Open # {}, {})
          /\ UNCHANGED <<node, wait>>
     ELSE /\ wait' = [g \in Gate |-> IF g \in Lost THEN "pending" ELSE wait[g]]
          /\ Attach(d, Waiting = {} \/ Open # {}, Waiting \ Unjournaled)
          /\ UNCHANGED node

\* coldAttach: a missing wait file is written again, a settled one is carried to the
\* journal; the drive resumes, or the cards of the pending gates are posted again.
ColdAttach(d) ==
  /\ at[d] = "down"
  /\ IF run # "running"
     THEN /\ Attach(d, run = "cancelling" \/ Open # {}, {})
          /\ UNCHANGED <<node, wait>>
     ELSE /\ wait' = [g \in Gate |-> IF g \in Lost THEN "pending" ELSE wait[g]]
          /\ node' = [n \in Node |-> IF n \in Unjournaled THEN Resolution(n) ELSE node[n]]
          /\ Attach(d, Waiting = {} \/ Unjournaled # {} \/ Open # {}, Waiting)

\* A card refused here is logged and not tried again.
ColdPost(d, g) ==
  /\ Up(d) /\ ~Clicking(d) /\ at[d] # "writeWait" /\ g \in cold[d]
  /\ cold' = Set(cold, d, cold[d] \ {g})
  /\ UNCHANGED <<at, posting>> /\ Posted(d, g)

ColdPostFails(d, g) ==
  /\ Up(d) /\ ~Clicking(d) /\ at[d] # "writeWait" /\ g \in cold[d] /\ postFails < MaxPostFail /\ Room
  /\ postFails' = postFails + 1
  /\ cold' = Set(cold, d, cold[d] \ {g})
  /\ UNCHANGED <<journal, files, lease, at, rerun, posting, click, dispatch, crashes, timeouts>>

----------------------------------------------------------------------------
Program(d) ==
  \/ Acquire(d)
  \/ \E n \in Node : StartNode(d, n) \/ SettleNode(d, n)
  \/ \E g \in Gate : DispatchGate(d, g) \/ PostCard(d, g)
  \/ WriteWait(d) \/ Finish(d) \/ CancelRun(d) \/ Suspend(d)
  \/ Refold(d) \/ Release(d) \/ ClickAppend(d)

Environment(d) ==
  \/ LeaseTimeout(d) \/ PostFails(d) \/ Cancel(d) \/ Crash(d)
  \/ \E g \in Gate : ColdPostFails(d, g) \/ Reclick(d, g)
  \/ \E g \in Gate, a \in {"approved", "rejected"} : Click(d, g, a)

StartUp(d) == ColdAttach(d)
Repost(d) == \E g \in Gate : ColdPost(d, g)

Next == \E d \in Daemon : Program(d) \/ StartUp(d) \/ Repost(d) \/ Environment(d)
Spec == Init /\ [][Next]_vars

\* A live process goes on, a dead one is started again by its supervisor.  Nobody has to
\* click, cancel or crash.
FairSpec ==
  Spec /\ \A d \in Daemon : WF_vars(Program(d)) /\ WF_vars(StartUp(d)) /\ WF_vars(Repost(d))

----------------------------------------------------------------------------
UnderLease == {"engine", "writeWait", "post", "refold", "release"}

TypeOK ==
  /\ run \in RunStatus /\ node \in [Node -> NodeStatus]
  /\ wait \in [Gate -> {None, "pending", "approved", "rejected"}] /\ card \subseteq Gate
  /\ lease \in Daemon \cup {Free} /\ \A d \in Daemon : at[d] \in UnderLease <=> lease = d
  /\ at \in [Daemon -> {"down", "idle", "lease", "engine", "writeWait", "post", "refold", "release"}]
  /\ rerun \in [Daemon -> BOOLEAN]
  /\ posting \in [Daemon -> SUBSET Gate] /\ cold \in [Daemon -> SUBSET Gate]
  /\ click \in [Daemon -> Gate \cup {None}] /\ dispatch \in [Daemon -> Gate \cup {None}]

Refused == postFails + timeouts > 0     \* the provider refused a card or a lease wait ran out

(* When every process is up and at rest, the run is finished or a person holds a card  *)
(* that still decides something: no crash window between two writes, two processes or   *)
(* two records strands a run that nobody is asked about.                                *)
SomebodysTurn ==
  (~Refused /\ \A d \in Daemon : at[d] = "idle" /\ cold[d] = {} /\ ~Clicking(d)) =>
     run \in Finished \/ \E g \in Waiting : g \in card /\ wait[g] = "pending"

(* "Wait-first on purpose": what the journal says of a gate is what the first click     *)
(* that settled its wait file said, also when another process healed the journal.       *)
OneAnswer ==
  [][\A g \in Gate : wait[g] \in {"approved", "rejected"} =>
       /\ wait'[g] = wait[g]
       /\ node'[g] # node[g] /\ node[g] = "waiting" => node'[g] \in {Resolution(g), "cancelled"}]_vars

(* "First resolution wins": a settled approval is carried through, whoever crashes      *)
(* between its two records, until its node has run, the run is over or it waits for     *)
(* another approval.                                                                    *)
ApprovalActedOn ==
  \A g \in Gate : (wait[g] = "approved" /\ run = "running")
     ~> (node[g] = "done" \/ run # "running" \/ Waiting \ {g} # {} \/ Refused)

(* "A crash in those windows must resume, or the run sticks forever": approved work is  *)
(* started although the run also waits for somebody.                                    *)
ApprovalResumes ==
  \A g \in Gate : (wait[g] = "approved" /\ run = "running")
                    ~> (node[g] = "done" \/ run # "running")

(* A cancel request is carried out, whichever process took it and whichever drives,     *)
(* over crashes and lease waits that run out.                                           *)
CancelConverges == (run = "cancelling") ~> (run = "cancelled" \/ postFails > 0)

(* "So the request cannot be stranded between runtime and transport": the same when the *)
(* chat provider refuses a card.                                                        *)
CancelNotStranded == (run = "cancelling") ~> (run = "cancelled")
=============================================================================
