---------------------------- MODULE V3HostEffect ----------------------------
(***************************************************************************)
(* One host node of a v3 run: a side effect outside the engine - a chat    *)
(* message, a schedule, a command - that must not happen twice             *)
(* (workflows/v3/shared-node-runtime.ts, host-execution.ts,                *)
(* host-effect-ledger.ts).                                                 *)
(*                                                                         *)
(* The input is resolved once, frozen in a sidecar file, recorded in the   *)
(* journal, shown on the approval card and only then sent, after a durable *)
(* intent.  While an intent is open nobody knows whether the effect        *)
(* happened: the original call may still be in the air, its process may be *)
(* dead.  The reconciler closes it as a success or as an uncertainty, with *)
(* what the provider offers: a submission that is idempotent for a limited *)
(* time, a lookup, or nothing.                                             *)
(*                                                                         *)
(* The driver of the run is taken from V3Drive: one process, started again *)
(* after a death and after every approval, retry and cancel.               *)
(***************************************************************************)
EXTENDS Naturals, Sequences

CONSTANTS
  Value,        \* what the template of the node may resolve to
  MaxAttempt,   \* bound on attempts
  MaxRetry,     \* MAX_HOST_RECONCILE_RETRIES (10 in the code)
  MaxCrash,     \* bound on process deaths
  MaxDamage,    \* bound on files that are damaged or removed
  Slow          \* a request may be under way for longer than the provider remembers keys

None == "none"
Bad == "bad"

ASSUME ConstantsAssumption ==
  /\ None \notin Value /\ Bad \notin Value
  /\ MaxAttempt \in Nat \ {0} /\ MaxRetry \in Nat
  /\ MaxCrash \in Nat /\ MaxDamage \in Nat
  /\ Slow \in BOOLEAN

Attempt == 1 .. MaxAttempt
RunStatus == {"running", "cancelling", "cancelled", "blocked", "failed", "succeeded"}
NodeStatus == {"pending", "gateWaiting", "running", "blocked", "failed", "done", "cancelled"}
\* idempotentSubmit (feishu), readOnlyLookup (botmux schedule), neither (shell command).
Provider == {"submit", "lookup", "neither"}
Answer == {"ok", "retryable", "fatal"}
Grant == [attempt : Attempt, value : Value]
NoGrant == [attempt |-> 0, value |-> None]
NoDraft == [value |-> None, kept |-> FALSE]

VARIABLES
  run, node,    \* the journal, folded
  attempt,      \* the attempt the next dispatch uses
  frozen,       \* host-input.json of each attempt
  prepared,     \* hostInputPrepared of each attempt: the hash of its input
  grants,       \* gateResolved: approvals in the journal
  approved,     \* approvedHostInput of the node
  intent,       \* attempts with a hostEffectIntent
  outcome,      \* how the journal closes each intent
  deferred,     \* hostEffectRetryDeferred of each attempt
  manifest,     \* the result artifacts of each attempt
  up,           \* the process that drives the run lives
  draft,        \* its preparation under way: the value and whether it is frozen
  original,     \* its call of the executor, for each attempt
  recovery,     \* its request on behalf of an open intent
  backoff,      \* attempts whose retry deadline has not come
  payload,      \* the input that the requests of each attempt carry
  late,         \* requests in the air that nobody waits for any more
  effects,      \* what the provider has carried out
  expired,      \* attempts whose key the provider has forgotten
  provider, crashes, damages

journal == <<run, node, attempt, prepared, grants, approved, intent, outcome, deferred>>
files == <<frozen, manifest>>
process == <<up, draft, original, recovery, backoff>>
world == <<payload, late, effects, expired, provider>>
faults == <<crashes, damages>>
vars == <<journal, files, process, world, faults>>

Init ==
  /\ run = "running" /\ node = "pending" /\ attempt = 1
  /\ frozen = [a \in Attempt |-> None] /\ prepared = [a \in Attempt |-> None]
  /\ grants = {} /\ approved = NoGrant
  /\ intent = {} /\ outcome = [a \in Attempt |-> None]
  /\ deferred = [a \in Attempt |-> 0]
  /\ manifest = [a \in Attempt |-> None]
  /\ up = TRUE /\ draft = NoDraft
  /\ original = [a \in Attempt |-> None] /\ recovery = [a \in Attempt |-> None]
  /\ backoff = {}
  /\ payload = [a \in Attempt |-> None]
  /\ late = [a \in Attempt |-> 0] /\ effects = <<>> /\ expired = {}
  /\ provider \in Provider
  /\ crashes = 0 /\ damages = 0

----------------------------------------------------------------------------
Set(f, a, v) == [f EXCEPT ![a] = v]
Open(a) == a \in intent /\ outcome[a] = None          \* openV3HostEffects
Quiet == \A a \in Attempt : ~Open(a)
Sound(a) == prepared[a] # None /\ frozen[a] = prepared[a]
Ready == run = "running" /\ node = "pending"
Done(a) == \E i \in DOMAIN effects : effects[i].attempt = a

\* A call of the schedule store runs inside the process; any other travels.
InTheAir(a) == original[a] = "air" \/ recovery[a] = "air" \/ late[a] > 0

(***************************************************************************)
(* Preparation: ensureHostPrepared                                         *)
(***************************************************************************)
\* The template is resolved against upstream results and the clock of the moment.
Resolve(v) ==
  /\ up /\ Ready /\ prepared[attempt] = None /\ frozen[attempt] = None /\ draft = NoDraft
  /\ draft' = [value |-> v, kept |-> FALSE]
  /\ UNCHANGED <<journal, files, up, original, recovery, backoff, world, faults>>

\* The sidecar is written and forced; the journal does not know of it yet.
Freeze ==
  /\ up /\ draft # NoDraft /\ ~draft.kept
  /\ frozen' = Set(frozen, attempt, draft.value)
  /\ draft' = [draft EXCEPT !.kept = TRUE]
  /\ UNCHANGED <<journal, manifest, up, original, recovery, backoff, world, faults>>

\* hostInputPrepared, unless the run was cancelled meanwhile.
Prepare ==
  /\ up /\ draft # NoDraft /\ draft.kept
  /\ prepared' = IF Ready THEN Set(prepared, attempt, draft.value) ELSE prepared
  /\ draft' = NoDraft
  /\ UNCHANGED <<run, node, attempt, grants, approved, intent, outcome, deferred,
                 files, up, original, recovery, backoff, world, faults>>

\* An input that cannot be resolved, or that the policy refuses, fails the node.
PrepareFails ==
  /\ up /\ draft # NoDraft
  /\ node' = IF Ready THEN "failed" ELSE node
  /\ draft' = NoDraft
  /\ UNCHANGED <<run, attempt, prepared, grants, approved, intent, outcome, deferred,
                 files, up, original, recovery, backoff, world, faults>>

\* A sidecar without its record, left by a crash: adopted as it is, never resolved again.
Adopt ==
  /\ up /\ Ready /\ draft = NoDraft /\ prepared[attempt] = None /\ frozen[attempt] # None
  /\ IF frozen[attempt] \in Value
       THEN prepared' = Set(prepared, attempt, frozen[attempt]) /\ UNCHANGED node
       ELSE node' = "blocked" /\ UNCHANGED prepared
  /\ UNCHANGED <<run, attempt, grants, approved, intent, outcome, deferred,
                 files, process, world, faults>>

\* A frozen input that is gone or damaged before any intent: an ordinary block.
BlockUnsound ==
  /\ up /\ Ready /\ prepared[attempt] # None /\ ~Sound(attempt) /\ ~Open(attempt)
  /\ node' = "blocked"
  /\ UNCHANGED <<run, attempt, prepared, grants, approved, intent, outcome, deferred,
                 files, process, world, faults>>

(***************************************************************************)
(* The gate                                                                *)
(***************************************************************************)
\* The card shows the frozen input (hostGateMaterial).
DispatchGate ==
  /\ up /\ Ready /\ Sound(attempt) /\ approved = NoGrant
  /\ node' = "gateWaiting"
  /\ UNCHANGED <<run, attempt, prepared, grants, approved, intent, outcome, deferred,
                 files, process, world, faults>>

\* A click counts only on a card that still matches the verified frozen input; the approval
\* names the attempt and the hash.
Approve ==
  /\ up /\ run = "running" /\ node = "gateWaiting" /\ Sound(attempt)
  /\ LET g == [attempt |-> attempt, value |-> prepared[attempt]]
     IN  approved' = g /\ grants' = grants \cup {g}
  /\ node' = "pending"
  /\ UNCHANGED <<run, attempt, prepared, intent, outcome, deferred,
                 files, process, world, faults>>

Reject ==
  /\ up /\ run = "running" /\ node = "gateWaiting" /\ Sound(attempt)
  /\ node' = "failed"
  /\ UNCHANGED <<run, attempt, prepared, grants, approved, intent, outcome, deferred,
                 files, process, world, faults>>

(***************************************************************************)
(* The original call: startHost                                            *)
(***************************************************************************)
\* A one-shot schedule whose time has passed since the approval is not sent.
BlockStale ==
  /\ up /\ Ready /\ Sound(attempt) /\ approved # NoGrant /\ provider = "lookup"
  /\ ~Open(attempt)
  /\ node' = "blocked"
  /\ UNCHANGED <<run, attempt, prepared, grants, approved, intent, outcome, deferred,
                 files, process, world, faults>>

\* The durable intent, under the approval of exactly this attempt and input.
Claim ==
  /\ up /\ Ready /\ Sound(attempt) /\ ~Open(attempt)
  /\ approved = [attempt |-> attempt, value |-> prepared[attempt]]
  /\ approved \in grants
  /\ intent' = intent \cup {attempt}
  /\ node' = "running"
  /\ original' = Set(original, attempt, "claimed")
  /\ UNCHANGED <<run, attempt, prepared, grants, approved, outcome, deferred,
                 files, up, draft, recovery, backoff, world, faults>>

\* Mutant: the file is sent as it is found.
SendUnverified(a) ==
  /\ up /\ original[a] = "claimed"
  /\ original' = Set(original, a, "air") /\ payload' = Set(payload, a, frozen[a])
  /\ UNCHANGED <<journal, files, up, draft, recovery, backoff, late, effects, expired,
                 provider, faults>>

\* The frozen file is verified once more; if it fails the intent stays open.
Send(a) ==
  /\ up /\ original[a] = "claimed"
  /\ IF Sound(a)
       THEN original' = Set(original, a, "air") /\ payload' = Set(payload, a, frozen[a])
       ELSE original' = Set(original, a, None) /\ UNCHANGED payload
  /\ UNCHANGED <<journal, files, up, draft, recovery, backoff, late, effects, expired,
                 provider, faults>>

\* The provider remembers the key of a request for a while, and applies it once.
Apply(a) ==
  effects' = IF provider # "neither" /\ Done(a) /\ a \notin expired THEN effects
             ELSE Append(effects, [attempt |-> a, value |-> payload[a]])

\* What a request may meet: success; an error before the effect, or after it.
Serve(a, answer) ==
  IF answer = "ok" THEN Apply(a) ELSE Apply(a) \/ UNCHANGED effects

ServeOriginal(a, answer) ==
  /\ original[a] = "air"
  /\ Serve(a, answer)
  /\ original' = Set(original, a, answer)
  /\ UNCHANGED <<journal, files, up, draft, recovery, backoff, payload, late, expired,
                 provider, faults>>

\* Any error leaves the intent open: only the reconciler may judge it.
OriginalFails(a) ==
  /\ up /\ original[a] \in {"retryable", "fatal"}
  /\ original' = Set(original, a, None)
  /\ UNCHANGED <<journal, files, up, draft, recovery, backoff, world, faults>>

\* Result and manifest are created once; a second writer verifies what it finds.
Publish(a) == manifest' = IF manifest[a] = None THEN Set(manifest, a, "result") ELSE manifest

OriginalResult(a) ==
  /\ up /\ original[a] = "ok"
  /\ Publish(a)
  /\ original' = Set(original, a, IF manifest[a] = Bad THEN None ELSE "published")
  /\ UNCHANGED <<journal, frozen, up, draft, recovery, backoff, world, faults>>

\* appendHostSuccessIfOpen; after a cancel request the fold keeps the node as it is.
CloseSuccess(a) ==
  /\ outcome' = IF Open(a) THEN Set(outcome, a, "success") ELSE outcome
  /\ node' = IF Open(a) /\ run = "running" THEN "done" ELSE node
  /\ UNCHANGED <<run, attempt, prepared, grants, approved, intent, deferred>>

\* appendHostReconcileBlock, and the branches of deferHostReconcile that give up.
CloseUncertain(a) ==
  /\ outcome' = IF Open(a) THEN Set(outcome, a, "uncertain") ELSE outcome
  /\ node' = IF Open(a) /\ run = "running" THEN "blocked" ELSE node
  /\ UNCHANGED <<run, attempt, prepared, grants, approved, intent, deferred>>

OriginalCloses(a) ==
  /\ up /\ original[a] = "published"
  /\ CloseSuccess(a)
  /\ original' = Set(original, a, None)
  /\ UNCHANGED <<files, up, draft, recovery, backoff, world, faults>>

(***************************************************************************)
(* Recovery: reconcileOpenHostEffects.  It runs at the top of every round  *)
(* of the loop, also while the original call is still in the air: the loop *)
(* is woken by the deadline of the call or by another node.                *)
(***************************************************************************)
\* The synchronous parts of the original call leave the loop no turn, and a call of the
\* schedule store is synchronous as a whole.
Turn(a) ==
  /\ up /\ Open(a) /\ recovery[a] = None
  /\ original[a] \notin {"claimed", "published"}
  /\ provider = "lookup" => original[a] # "air"

\* Damaged input or result, a provider that offers nothing, a key that the provider may have
\* forgotten, or a cancel while the retry deadline runs.
Hopeless(a) ==
  \/ ~Sound(a)
  \/ manifest[a] = Bad
  \/ /\ manifest[a] = None
     /\ \/ provider = "neither"
        \/ a \in backoff /\ run = "cancelling"
        \/ a \notin backoff /\ provider = "submit" /\ a \in expired

\* A lookup finds nothing, though the task may have been done and removed since, or what it
\* finds under the key is not this task: absence is not a tombstone.
LookupMisses(a) == manifest[a] = None /\ a \notin backoff /\ provider = "lookup"

GiveUp(a) ==
  /\ Turn(a) /\ (Hopeless(a) \/ LookupMisses(a))
  /\ CloseUncertain(a)
  /\ UNCHANGED <<files, process, world, faults>>

\* A result left by a crash closes the intent, it is verified and never produced again.
AdoptResult(a) ==
  /\ Turn(a) /\ Sound(a) /\ manifest[a] = "result"
  /\ CloseSuccess(a)
  /\ UNCHANGED <<files, process, world, faults>>

LookUp(a) ==
  /\ Turn(a) /\ ~Hopeless(a) /\ manifest[a] = None /\ a \notin backoff
  /\ provider = "lookup" /\ Done(a)
  /\ recovery' = Set(recovery, a, "ok")
  /\ UNCHANGED <<journal, files, up, draft, original, backoff, world, faults>>

\* The same input under the same key, as long as the provider remembers it.
Resubmit(a) ==
  /\ Turn(a) /\ ~Hopeless(a) /\ manifest[a] = None /\ a \notin backoff
  /\ provider = "submit"
  /\ recovery' = Set(recovery, a, "air") /\ payload' = Set(payload, a, frozen[a])
  /\ UNCHANGED <<journal, files, up, draft, original, backoff, late, effects, expired,
                 provider, faults>>

ServeRecovery(a, answer) ==
  /\ recovery[a] = "air"
  /\ Serve(a, answer)
  /\ recovery' = Set(recovery, a, answer)
  /\ UNCHANGED <<journal, files, up, draft, original, backoff, payload, late, expired,
                 provider, faults>>

\* Mutant: no budget of retries.
DeferUncapped(a) ==
  IF ~Open(a) \/ run = "cancelling"
    THEN CloseUncertain(a) /\ UNCHANGED <<deferred, backoff>>
    ELSE /\ deferred' = Set(deferred, a, deferred[a] + 1)
         /\ backoff' = backoff \cup {a}
         /\ UNCHANGED <<run, node, attempt, prepared, grants, approved, intent, outcome>>

\* Mutant: a retry is scheduled but not recorded, so it is never counted.
DeferUncounted(a) ==
  IF ~Open(a) \/ run = "cancelling" \/ deferred[a] >= MaxRetry
    THEN CloseUncertain(a) /\ UNCHANGED <<deferred, backoff>>
    ELSE UNCHANGED journal /\ backoff' = backoff \cup {a}

\* deferHostReconcile: another retry, unless the budget is spent or the run is cancelled.
Defer(a) ==
  IF ~Open(a) \/ run = "cancelling" \/ deferred[a] >= MaxRetry
    THEN CloseUncertain(a) /\ UNCHANGED <<deferred, backoff>>
    ELSE /\ deferred' = Set(deferred, a, deferred[a] + 1)
         /\ backoff' = backoff \cup {a}
         /\ UNCHANGED <<run, node, attempt, prepared, grants, approved, intent, outcome>>

\* The provider asks to come back later, or its answer takes too long.
RecoveryRetryable(a) ==
  /\ up /\ recovery[a] = "retryable"
  /\ Defer(a)
  /\ recovery' = Set(recovery, a, None)
  /\ UNCHANGED <<files, up, draft, original, world, faults>>

RecoveryTimeout(a) ==
  /\ up /\ recovery[a] \in {"air", "lost"} \cup Answer /\ provider = "submit"
  /\ Defer(a)
  /\ recovery' = Set(recovery, a, None)
  /\ late' = IF recovery[a] = "air" THEN Set(late, a, late[a] + 1) ELSE late
  /\ UNCHANGED <<files, up, draft, original, payload, effects, expired, provider, faults>>

RecoveryFatal(a) ==
  /\ up /\ recovery[a] = "fatal"
  /\ CloseUncertain(a)
  /\ recovery' = Set(recovery, a, None)
  /\ UNCHANGED <<files, up, draft, original, backoff, world, faults>>

\* A success whose artifacts cannot be published is an uncertainty.
RecoveryResult(a) ==
  /\ up /\ recovery[a] = "ok"
  /\ Publish(a)
  /\ IF manifest[a] = Bad
       THEN CloseUncertain(a) /\ recovery' = Set(recovery, a, None)
       ELSE recovery' = Set(recovery, a, "published") /\ UNCHANGED journal
  /\ UNCHANGED <<frozen, up, draft, original, backoff, world, faults>>

RecoveryCloses(a) ==
  /\ up /\ recovery[a] = "published"
  /\ CloseSuccess(a)
  /\ recovery' = Set(recovery, a, None)
  /\ UNCHANGED <<files, up, draft, original, backoff, world, faults>>

BackoffEnds(a) ==
  /\ a \in backoff /\ backoff' = backoff \ {a}
  /\ UNCHANGED <<journal, files, up, draft, original, recovery, world, faults>>

(***************************************************************************)
(* The run                                                                 *)
(***************************************************************************)
\* A boundary of the run is published only with no intent open.
EndRun ==
  /\ up /\ run = "running" /\ Quiet /\ node \in {"done", "failed", "blocked"}
  /\ run' = CASE node = "done" -> "succeeded" [] node = "failed" -> "failed"
              [] node = "blocked" -> "blocked"
  /\ UNCHANGED <<node, attempt, prepared, grants, approved, intent, outcome, deferred,
                 files, process, world, faults>>

\* Mutant: an uncertain effect is retried like any other block.
RetryUncertain ==
  /\ run \in {"running", "blocked"} /\ node = "blocked" /\ attempt < MaxAttempt
  /\ run' = "running" /\ node' = "pending" /\ attempt' = attempt + 1
  /\ approved' = IF prepared[attempt] # None THEN NoGrant ELSE approved
  /\ UNCHANGED <<prepared, grants, intent, outcome, deferred, files, process, world, faults>>

\* requestV3Retry: never after an intent; a prepared attempt takes its approval along.
Retry ==
  /\ run \in {"running", "blocked"} /\ node = "blocked" /\ attempt < MaxAttempt
  /\ attempt \notin intent
  /\ run' = "running" /\ node' = "pending" /\ attempt' = attempt + 1
  /\ approved' = IF prepared[attempt] # None THEN NoGrant ELSE approved
  /\ UNCHANGED <<prepared, grants, intent, outcome, deferred, files, process, world, faults>>

Cancel ==
  /\ run \in {"running", "blocked"}
  /\ run' = "cancelling"
  /\ UNCHANGED <<node, attempt, prepared, grants, approved, intent, outcome, deferred,
                 files, process, world, faults>>

\* Mutant: the cancel does not wait for the open intent.
FinishCancelEarly ==
  /\ up /\ run = "cancelling" /\ draft = NoDraft
  /\ run' = "cancelled"
  /\ node' = IF node \in {"pending", "gateWaiting", "running"} THEN "cancelled" ELSE node
  /\ UNCHANGED <<attempt, prepared, grants, approved, intent, outcome, deferred,
                 files, process, world, faults>>

\* finalizeRuntimeCancellation, behind every open intent and the pending preparation.
FinishCancel ==
  /\ up /\ run = "cancelling" /\ Quiet /\ draft = NoDraft
  /\ run' = "cancelled"
  /\ node' = IF node \in {"pending", "gateWaiting", "running"} THEN "cancelled" ELSE node
  /\ UNCHANGED <<attempt, prepared, grants, approved, intent, outcome, deferred,
                 files, process, world, faults>>

(***************************************************************************)
(* The world                                                               *)
(***************************************************************************)
\* The process dies; a request already sent travels on, a call inside the process does not.
Crash ==
  /\ up /\ crashes < MaxCrash /\ crashes' = crashes + 1
  /\ up' = FALSE /\ draft' = NoDraft
  /\ original' = [a \in Attempt |-> None] /\ recovery' = [a \in Attempt |-> None]
  /\ late' = [a \in Attempt |-> IF provider = "lookup" THEN 0
                ELSE late[a] + (IF original[a] = "air" THEN 1 ELSE 0)
                             + (IF recovery[a] = "air" THEN 1 ELSE 0)]
  /\ UNCHANGED <<journal, files, backoff, payload, effects, expired, provider, damages>>

\* The start-up reconciliation rejects a pending gate whose frozen input is not sound.
Restart ==
  /\ ~up /\ up' = TRUE
  /\ node' = IF run = "running" /\ node = "gateWaiting" /\ ~Sound(attempt) THEN "failed" ELSE node
  /\ UNCHANGED <<run, attempt, prepared, grants, approved, intent, outcome, deferred,
                 files, draft, original, recovery, backoff, world, faults>>

\* A request nobody waits for arrives all the same, or gets lost.
ServeLate(a) ==
  /\ late[a] > 0 /\ late' = Set(late, a, late[a] - 1)
  /\ Apply(a) \/ UNCHANGED effects
  /\ UNCHANGED <<journal, files, process, payload, expired, provider, faults>>

Lose(a) ==
  /\ provider # "lookup"
  /\ \/ original[a] = "air" /\ original' = Set(original, a, "lost") /\ UNCHANGED recovery
     \/ recovery[a] = "air" /\ recovery' = Set(recovery, a, "lost") /\ UNCHANGED original
  /\ UNCHANGED <<journal, files, up, draft, backoff, world, faults>>

\* The provider forgets a key (idempotencyTtlMs after the intent).  Unless Slow, no request
\* of the attempt is still under way then: it takes an hour, and a request some seconds.
Forget(a) ==
  /\ provider = "submit" /\ a \in intent \ expired /\ original[a] # "claimed"
  /\ Slow \/ ~InTheAir(a)
  /\ expired' = expired \cup {a}
  /\ UNCHANGED <<journal, files, process, payload, late, effects, provider, faults>>

\* A file of an attempt is removed or no longer what was written.
Damage(a) ==
  /\ damages < MaxDamage /\ damages' = damages + 1
  /\ \E what \in {None, Bad} :
       \/ frozen[a] # None /\ frozen' = Set(frozen, a, what) /\ UNCHANGED manifest
       \/ manifest[a] # None /\ manifest' = Set(manifest, a, what) /\ UNCHANGED frozen
  /\ UNCHANGED <<journal, process, world, crashes>>

Loop(a) ==
  \/ Send(a) \/ OriginalFails(a) \/ OriginalResult(a) \/ OriginalCloses(a)
  \/ GiveUp(a) \/ AdoptResult(a) \/ LookUp(a) \/ Resubmit(a)
  \/ RecoveryRetryable(a) \/ RecoveryTimeout(a) \/ RecoveryFatal(a)
  \/ RecoveryResult(a) \/ RecoveryCloses(a) \/ BackoffEnds(a)

Served(a) ==
  \/ \E answer \in Answer : ServeOriginal(a, answer) \/ ServeRecovery(a, answer)
  \/ ServeLate(a) \/ Lose(a) \/ Forget(a)

Next ==
  \/ \E v \in Value : Resolve(v)
  \/ Freeze \/ Prepare \/ PrepareFails \/ Adopt \/ BlockUnsound
  \/ DispatchGate \/ Approve \/ Reject \/ BlockStale \/ Claim
  \/ \E a \in Attempt : Loop(a) \/ Served(a) \/ Damage(a)
  \/ EndRun \/ Retry \/ Cancel \/ FinishCancel
  \/ Crash \/ Restart

Spec == Init /\ [][Next]_vars

\* The loop of a live process goes on, a call inside the process returns, deadlines fire and
\* a dead process is started again; people, remote providers and faults owe nothing.
LocalCall(a) == provider = "lookup" /\ \E answer \in Answer : ServeOriginal(a, answer)

FairSpec ==
  /\ Spec
  /\ WF_vars(Restart) /\ WF_vars(FinishCancel) /\ WF_vars(EndRun)
  /\ WF_vars(Prepare \/ PrepareFails) /\ WF_vars(Freeze)
  /\ \A a \in Attempt : WF_vars(Loop(a)) /\ WF_vars(LocalCall(a))

----------------------------------------------------------------------------
TypeOK ==
  /\ run \in RunStatus /\ node \in NodeStatus /\ attempt \in Attempt
  /\ frozen \in [Attempt -> Value \cup {None, Bad}]
  /\ prepared \in [Attempt -> Value \cup {None}]
  /\ grants \subseteq Grant /\ approved \in grants \cup {NoGrant}
  /\ intent \subseteq Attempt
  /\ outcome \in [Attempt -> {None, "success", "uncertain"}]
  /\ deferred \in [Attempt -> 0 .. MaxRetry]
  /\ manifest \in [Attempt -> {None, Bad, "result"}]
  /\ up \in BOOLEAN
  /\ draft \in {NoDraft} \cup [value : Value, kept : BOOLEAN]
  /\ original \in [Attempt -> {None, "claimed", "air", "lost", "published"} \cup Answer]
  /\ recovery \in [Attempt -> {None, "air", "lost", "published"} \cup Answer]
  /\ backoff \subseteq Attempt
  /\ payload \in [Attempt -> Value \cup {None}] /\ late \in [Attempt -> Nat]
  /\ effects \in Seq(Grant)
  /\ expired \subseteq Attempt /\ provider \in Provider
  /\ crashes \in 0 .. MaxCrash /\ damages \in 0 .. MaxDamage

\* Over all attempts, crashes, retries and recoveries of the instance the provider carries
\* the effect out at most once (startHost, reconcileOpenHostEffects, requestV3Retry).
AtMostOnce == Len(effects) <= 1

\* What is carried out is what somebody approved, for that attempt and byte for byte.
AppliedAsApproved == \A i \in DOMAIN effects : effects[i] \in grants

\* A run at rest hides no effect: whatever happened, or may still happen, is in the journal
\* as a success or as an uncertainty, and a success has happened.
NothingSilent ==
  /\ run \notin {"running", "cancelling"} =>
       \A a \in Attempt : Done(a) \/ InTheAir(a) => outcome[a] # None
  /\ \A a \in Attempt : outcome[a] = "success" => Done(a)
  /\ run = "succeeded" => outcome[attempt] = "success"

\* Every intent is closed in the end, whatever the provider answers or does not answer, and
\* a cancel always ends (otherwise the loop would turn on the open intent for ever).
EffectCloses ==
  /\ \A a \in Attempt : Open(a) ~> ~Open(a)
  /\ run = "cancelling" ~> run = "cancelled"
=============================================================================
