------------------------- MODULE V3HostEffectProofs -------------------------
(***************************************************************************)
(* Proofs about host effects, for every set of values and every bound:     *)
(* types, effects only as approved, at most once, and none of them silent. *)
(*                                                                         *)
(* The argument: a node never has more than one attempt with an intent,    *)
(* since a retry is refused after one (IntentInv).  Every request carries  *)
(* the frozen input, which is the prepared and approved one (AirInv), so   *)
(* effects are only ever appended for the attempt of the intent            *)
(* (EffectInv).  What remains is the number of requests of this attempt:   *)
(* a provider that remembers keys drops the second one unless the key has  *)
(* expired with the request under way, and a provider that does not has    *)
(* only the original request (OnceInv).  For silence, everything that says *)
(* that an effect has happened is tied to the effect (CreditInv), and a run*)
(* rests only over closed intents (RestInv).                               *)
(***************************************************************************)
EXTENDS V3HostEffect, TLAPS

\* A request is under way or about to be sent.
Underway(a) == original[a] = "claimed" \/ InTheAir(a)

\* A preparation under way is that of a pending attempt without a record.
DraftInv == draft # NoDraft => node = "pending" /\ prepared[attempt] = None

\* Only the attempt of the node has an intent, behind the approval of its recorded input.
IntentInv ==
  /\ intent \subseteq {attempt}
  /\ attempt \in intent => node \notin {"pending", "gateWaiting"}
  /\ \A a \in intent : prepared[a] # None /\ [attempt |-> a, value |-> prepared[a]] \in grants

\* Calls and requests belong to an intent, and requests carry its recorded input.
AirInv == \A a \in Attempt :
  /\ original[a] # None \/ recovery[a] # None \/ late[a] > 0 => a \in intent
  /\ InTheAir(a) => payload[a] # None
  /\ payload[a] # None => a \in intent /\ payload[a] = prepared[a]

\* What is carried out belongs to an intent and was approved.
EffectInv == \A i \in DOMAIN effects :
  /\ effects[i].attempt \in intent
  /\ effects[i] \in grants

\* An effect that offers neither a key nor a lookup has one request, and its original only.
Single(b) ==
  /\ recovery[b] = None /\ late[b] <= 1
  /\ original[b] \in {"claimed", "air"} => late[b] = 0
  /\ Underway(b) => ~Done(b)

\* There is room for a request under way: its effect has not happened, or its key is known.
OnceInv ==
  /\ Len(effects) <= 1
  /\ \A a \in Attempt : Underway(a) => a \notin expired
  /\ provider = "neither" => \A a \in Attempt : Single(a)
  /\ expired \subseteq intent

\* Something says that the effect of an attempt has happened.
Credited(a) ==
  \/ original[a] \in {"ok", "published"} \/ recovery[a] \in {"ok", "published"}
  \/ manifest[a] = "result" \/ outcome[a] = "success"

CreditInv == \A a \in Attempt : Credited(a) => Done(a)

\* A run rests over closed intents, and a node is done by a success of its attempt.
RestInv ==
  /\ run \notin {"running", "cancelling"} => Quiet
  /\ run = "succeeded" => node = "done"
  /\ node = "done" => outcome[attempt] = "success"

----------------------------------------------------------------------------
(* Types: one lemma for each group of actions.                             *)

LEMMA PrepareType ==
  ASSUME TypeOK, (\E v \in Value : Resolve(v)) \/ Freeze \/ Prepare \/ PrepareFails \/ Adopt \/ BlockUnsound
  PROVE  TypeOK'
<1>1. CASE \E v \in Value : Resolve(v)
  BY <1>1 DEF TypeOK, Resolve, journal, files, world, faults
<1>2. CASE Freeze
  BY <1>2 DEF TypeOK, Freeze, Set, NoDraft, journal, files, world, faults
<1>3. CASE Prepare
  BY <1>3 DEF TypeOK, Prepare, Set, NoDraft, journal, files, world, faults
<1>4. CASE PrepareFails
  BY <1>4 DEF TypeOK, PrepareFails, NodeStatus, journal, files, world, faults
<1>5. CASE Adopt
  BY <1>5 DEF TypeOK, Adopt, Set, NodeStatus, journal, files, world, process, faults
<1>6. CASE BlockUnsound
  BY <1>6 DEF TypeOK, BlockUnsound, Set, NodeStatus, journal, files, world, process, faults
<1>. QED BY <1>1, <1>2, <1>3, <1>4, <1>5, <1>6

LEMMA GateType ==
  ASSUME TypeOK, DispatchGate \/ Approve \/ Reject \/ BlockStale \/ Claim
  PROVE  TypeOK'
<1>1. CASE DispatchGate \/ Reject \/ BlockStale
  BY <1>1 DEF TypeOK, DispatchGate, Reject, BlockStale, NodeStatus, journal, files, world, process, faults
<1>2. CASE Approve
  BY <1>2 DEF TypeOK, Approve, Sound, Grant, NodeStatus, journal, files, world, process, faults
<1>3. CASE Claim
  BY <1>3 DEF TypeOK, Claim, Set, NodeStatus, journal, files, world, process, faults
<1>. QED BY <1>1, <1>2, <1>3

LEMMA CloseType ==
  ASSUME TypeOK, NEW a \in Attempt, CloseSuccess(a) \/ CloseUncertain(a)
  PROVE  /\ outcome' \in [Attempt -> {None, "success", "uncertain"}] /\ node' \in NodeStatus
         /\ UNCHANGED <<run, attempt, prepared, grants, approved, intent, deferred>>
BY DEF TypeOK, CloseSuccess, CloseUncertain, Set, NodeStatus

LEMMA CallType ==
  ASSUME TypeOK, NEW a \in Attempt,
         Send(a) \/ OriginalFails(a) \/ OriginalResult(a) \/ OriginalCloses(a)
  PROVE  TypeOK'
<1>1. CASE Send(a)
  BY ZenonT(30), <1>1 DEF TypeOK, Send, Sound, Set, journal, files, faults
<1>2. CASE OriginalFails(a)
  BY <1>2 DEF TypeOK, OriginalFails, Set, journal, files, world, faults
<1>3. CASE OriginalResult(a)
  BY <1>3 DEF TypeOK, OriginalResult, Publish, Set, journal, files, world, faults
<1>4. CASE OriginalCloses(a)
  BY <1>4, CloseType DEF TypeOK, OriginalCloses, Set, files, world, faults
<1>. QED BY <1>1, <1>2, <1>3, <1>4

\* A request that arrives is carried out with the input it carries, or leaves no trace.
LEMMA ApplyEffect ==
  ASSUME TypeOK, AirInv, NEW a \in Attempt, InTheAir(a), Apply(a) \/ UNCHANGED effects
  PROVE  /\ effects' \in Seq(Grant)
         /\ \/ effects' = effects
            \/ /\ effects' = Append(effects, [attempt |-> a, value |-> prepared[a]])
               /\ provider = "neither" \/ ~Done(a) \/ a \in expired
<1>1. payload[a] = prepared[a] /\ prepared[a] \in Value
  BY DEF AirInv, TypeOK
<1>2. [attempt |-> a, value |-> payload[a]] \in Grant
  BY <1>1 DEF Grant
<1>3. CASE effects' = Append(effects, [attempt |-> a, value |-> payload[a]])
           /\ (provider = "neither" \/ ~Done(a) \/ a \in expired)
  BY <1>1, <1>2, <1>3 DEF TypeOK
<1>4. CASE effects' = effects
  BY <1>4 DEF TypeOK
<1>. QED BY <1>3, <1>4, Zenon DEF Apply

LEMMA ServeType ==
  ASSUME TypeOK, AirInv, NEW a \in Attempt, Served(a)
  PROVE  TypeOK'
<1>1. ASSUME NEW answer \in Answer, ServeOriginal(a, answer) PROVE TypeOK'
  <2>1. effects' \in Seq(Grant)
    BY <1>1, ApplyEffect DEF ServeOriginal, Serve, InTheAir
  <2>2. original' \in [Attempt -> {None, "claimed", "air", "lost", "published"} \cup Answer]
    BY <1>1 DEF ServeOriginal, Set, TypeOK
  <2>. QED BY <1>1, <2>1, <2>2 DEF TypeOK, ServeOriginal, journal, files, faults
<1>2. ASSUME NEW answer \in Answer, ServeRecovery(a, answer) PROVE TypeOK'
  <2>1. effects' \in Seq(Grant)
    BY <1>2, ApplyEffect DEF ServeRecovery, Serve, InTheAir
  <2>2. recovery' \in [Attempt -> {None, "air", "lost", "published"} \cup Answer]
    BY <1>2 DEF ServeRecovery, Set, TypeOK
  <2>. QED BY <1>2, <2>1, <2>2 DEF TypeOK, ServeRecovery, journal, files, faults
<1>3. CASE ServeLate(a)
  <2>1. effects' \in Seq(Grant)
    BY <1>3, ApplyEffect DEF ServeLate, InTheAir
  <2>2. late' \in [Attempt -> Nat]
    BY <1>3 DEF ServeLate, Set, TypeOK
  <2>. QED BY <1>3, <2>1, <2>2 DEF TypeOK, ServeLate, journal, files, process, faults
<1>4. CASE Lose(a)
  BY <1>4 DEF TypeOK, Lose, Set, journal, files, world, faults
<1>5. CASE Forget(a)
  BY <1>5 DEF TypeOK, Forget, journal, files, process, faults
<1>. QED BY <1>1, <1>2, <1>3, <1>4, <1>5 DEF Served

LEMMA DeferType ==
  ASSUME TypeOK, NEW a \in Attempt, Defer(a)
  PROVE  /\ outcome' \in [Attempt -> {None, "success", "uncertain"}] /\ node' \in NodeStatus
         /\ deferred' \in [Attempt -> 0 .. MaxRetry] /\ backoff' \subseteq Attempt
         /\ UNCHANGED <<run, attempt, prepared, grants, approved, intent>>
<1>1. CASE CloseUncertain(a) /\ UNCHANGED <<deferred, backoff>>
  BY <1>1, CloseType DEF TypeOK
<1>2. CASE deferred[a] < MaxRetry /\ deferred' = Set(deferred, a, deferred[a] + 1)
           /\ backoff' = backoff \cup {a}
           /\ UNCHANGED <<run, node, attempt, prepared, grants, approved, intent, outcome>>
  <2>1. deferred[a] + 1 \in 0 .. MaxRetry
    BY <1>2, ConstantsAssumption DEF TypeOK
  <2>. QED BY <1>2, <2>1 DEF Set, TypeOK
<1>3. deferred[a] >= MaxRetry \/ deferred[a] < MaxRetry
  BY ConstantsAssumption DEF TypeOK
<1>. QED BY <1>1, <1>2, <1>3 DEF Defer

LEMMA RecoveryType ==
  ASSUME TypeOK, NEW a \in Attempt, Loop(a)
  PROVE  TypeOK'
<1>1. CASE GiveUp(a) \/ AdoptResult(a)
  BY <1>1, CloseType DEF TypeOK, GiveUp, AdoptResult, files, process, world, faults
<1>2. CASE LookUp(a)
  BY <1>2 DEF TypeOK, LookUp, Set, Answer, journal, files, world, faults
<1>3. CASE Resubmit(a)
  BY <1>3 DEF TypeOK, Resubmit, Hopeless, Sound, Set, journal, files, world, faults
<1>4. CASE RecoveryRetryable(a)
  BY <1>4, DeferType DEF TypeOK, RecoveryRetryable, Set, files, world, faults
<1>5. CASE RecoveryTimeout(a)
  <2>1. recovery' \in [Attempt -> {None, "air", "lost", "published"} \cup Answer]
    BY <1>5 DEF RecoveryTimeout, Set, TypeOK
  <2>2. late' \in [Attempt -> Nat]
    BY <1>5 DEF RecoveryTimeout, Set, TypeOK
  <2>. QED BY <1>5, <2>1, <2>2, DeferType DEF TypeOK, RecoveryTimeout, files, faults
<1>6. CASE RecoveryFatal(a)
  BY <1>6, CloseType DEF TypeOK, RecoveryFatal, Set, files, world, faults
<1>7. CASE RecoveryResult(a)
  BY <1>7, CloseType DEF TypeOK, RecoveryResult, Publish, Set, journal, files, world, faults
<1>8. CASE RecoveryCloses(a)
  BY <1>8, CloseType DEF TypeOK, RecoveryCloses, Set, files, world, faults
<1>9. CASE BackoffEnds(a)
  BY <1>9 DEF TypeOK, BackoffEnds, journal, files, world, faults
<1>. QED BY <1>1, <1>2, <1>3, <1>4, <1>5, <1>6, <1>7, <1>8, <1>9, CallType DEF Loop

LEMMA WorldType ==
  ASSUME TypeOK, Crash \/ Restart \/ \E a \in Attempt : Damage(a)
  PROVE  TypeOK'
<1>1. CASE Crash
  <2>1. late' \in [Attempt -> Nat]
    BY <1>1 DEF Crash, TypeOK
  <2>2. crashes' \in 0 .. MaxCrash
    BY <1>1, ConstantsAssumption DEF Crash, TypeOK
  <2>. QED BY <1>1, <2>1, <2>2 DEF TypeOK, Crash, journal, files
<1>2. CASE Restart
  BY <1>2 DEF TypeOK, Restart, NodeStatus, files, world, faults
<1>3. CASE \E a \in Attempt : Damage(a)
  <2>1. damages' \in 0 .. MaxDamage
    BY <1>3, ConstantsAssumption DEF Damage, TypeOK
  <2>. QED BY ZenonT(30), <1>3, <2>1 DEF TypeOK, Damage, Set, journal, process, world
<1>. QED BY <1>1, <1>2, <1>3

LEMMA RunType ==
  ASSUME TypeOK, EndRun \/ Retry \/ Cancel \/ FinishCancel
  PROVE  TypeOK'
<1>1. CASE EndRun
  BY <1>1 DEF TypeOK, EndRun, RunStatus, files, process, world, faults
<1>2. CASE Retry
  <2>1. attempt' \in Attempt
    BY <1>2, ConstantsAssumption DEF Retry, TypeOK, Attempt
  <2>. QED BY <1>2, <2>1 DEF TypeOK, Retry, RunStatus, NodeStatus, files, process, world, faults
<1>3. CASE Cancel
  BY <1>3 DEF TypeOK, Cancel, RunStatus, files, process, world, faults
<1>4. CASE FinishCancel
  BY <1>4 DEF TypeOK, FinishCancel, RunStatus, NodeStatus, files, process, world, faults
<1>. QED BY <1>1, <1>2, <1>3, <1>4

LEMMA TypeStep ==
  ASSUME TypeOK, AirInv, [Next]_vars
  PROVE  TypeOK'
<1>1. CASE UNCHANGED vars
  BY <1>1 DEF TypeOK, vars, journal, files, process, world, faults
<1>. QED BY <1>1, PrepareType, GateType, RecoveryType, ServeType, WorldType, RunType DEF Next

(***************************************************************************)
(* What the steps on an open intent leave alone.                           *)
(***************************************************************************)
Judged(a) ==
  /\ Open(a)
  /\ \E o \in {"success", "uncertain"} : outcome' = Set(outcome, a, o)
  /\ \/ node' = node
     \/ run = "running" /\ node' = "blocked"
     \/ run = "running" /\ node' = "done" /\ outcome' = Set(outcome, a, "success")

LEMMA LoopFrame ==
  ASSUME NEW a \in Attempt, Loop(a)
  PROVE  /\ UNCHANGED <<run, attempt, prepared, grants, intent, draft, provider, expired>>
         /\ Judged(a) \/ UNCHANGED <<node, outcome>>
<1>. DEFINE Closing == Judged(a) \/ UNCHANGED <<node, outcome>>
<1>1. CloseSuccess(a) \/ CloseUncertain(a) \/ Defer(a) =>
        Closing /\ UNCHANGED <<run, attempt, prepared, grants, intent>>
  BY DEF CloseSuccess, CloseUncertain, Defer, Judged
<1>2. CASE Send(a) \/ OriginalFails(a) \/ OriginalResult(a)
  BY <1>2 DEF Send, OriginalFails, OriginalResult, journal, files, world, faults
<1>3. CASE OriginalCloses(a)
  BY <1>1, <1>3 DEF OriginalCloses, files, world, faults
<1>4. CASE GiveUp(a) \/ AdoptResult(a)
  BY <1>1, <1>4 DEF GiveUp, AdoptResult, files, process, world, faults
<1>5. CASE LookUp(a) \/ Resubmit(a) \/ BackoffEnds(a)
  BY <1>5 DEF LookUp, Resubmit, BackoffEnds, journal, files, world, faults
<1>6. CASE RecoveryRetryable(a) \/ RecoveryTimeout(a)
  BY <1>1, <1>6 DEF RecoveryRetryable, RecoveryTimeout, files, world, faults
<1>7. CASE RecoveryFatal(a) \/ RecoveryResult(a) \/ RecoveryCloses(a)
  BY <1>1, <1>7 DEF RecoveryFatal, RecoveryResult, RecoveryCloses, journal, files, world, faults
<1>. QED BY <1>2, <1>3, <1>4, <1>5, <1>6, <1>7 DEF Loop

LEMMA ServedFrame ==
  ASSUME NEW a \in Attempt, Served(a) \/ Damage(a)
  PROVE  UNCHANGED <<journal, draft, provider>>
BY DEF Served, ServeOriginal, ServeRecovery, ServeLate, Lose, Forget, Damage, journal, files, process,
   world, faults

LEMMA DraftStep ==
  ASSUME TypeOK, DraftInv, IntentInv, [Next]_vars
  PROVE  DraftInv'
<1>. USE DEF DraftInv
<1>1. CASE UNCHANGED vars
  BY <1>1 DEF vars, journal, process
<1>2. CASE \E v \in Value : Resolve(v)
  BY <1>2 DEF Resolve, Ready, journal
<1>3. CASE Freeze \/ Prepare \/ PrepareFails \/ Crash
  BY <1>3 DEF Freeze, Prepare, PrepareFails, Crash, journal
<1>4. CASE Adopt \/ BlockUnsound
  BY <1>4 DEF Adopt, BlockUnsound, process
<1>5. CASE DispatchGate \/ Approve \/ Reject
  BY <1>5 DEF DispatchGate, Approve, Reject, Ready, Sound, process
<1>6. CASE BlockStale \/ Claim
  BY <1>6 DEF BlockStale, Claim, Ready, Sound, process
<1>7. ASSUME NEW a \in Attempt, Loop(a) PROVE DraftInv'
  BY <1>7, LoopFrame DEF Judged, IntentInv, Open
<1>8. ASSUME NEW a \in Attempt, Served(a) \/ Damage(a) PROVE DraftInv'
  BY <1>8, ServedFrame DEF journal
<1>9. CASE EndRun \/ Retry \/ Cancel \/ FinishCancel \/ Restart
  BY <1>9 DEF EndRun, Retry, Cancel, FinishCancel, Restart, process
<1>. QED BY <1>1, <1>2, <1>3, <1>4, <1>5, <1>6, <1>7, <1>8, <1>9 DEF Next

LEMMA IntentStep ==
  ASSUME TypeOK, DraftInv, IntentInv, [Next]_vars
  PROVE  IntentInv'
<1>. USE DEF IntentInv
<1>1. CASE UNCHANGED vars
  BY <1>1 DEF vars, journal
<1>2. CASE (\E v \in Value : Resolve(v)) \/ Freeze \/ Crash \/ Cancel \/ EndRun
  BY <1>2 DEF Resolve, Freeze, Crash, Cancel, EndRun, journal
<1>3. CASE Prepare \/ PrepareFails
  BY <1>3 DEF Prepare, PrepareFails, DraftInv, Set, TypeOK
<1>4. CASE Adopt
  BY <1>4 DEF Adopt, Set, TypeOK
<1>5. CASE BlockUnsound \/ DispatchGate \/ Reject \/ BlockStale
  BY <1>5 DEF BlockUnsound, DispatchGate, Reject, BlockStale, Ready
<1>6. CASE Approve
  BY <1>6 DEF Approve
<1>7. CASE Claim
  BY <1>7 DEF Claim, Sound
<1>8. ASSUME NEW a \in Attempt, Loop(a) PROVE IntentInv'
  BY <1>8, LoopFrame DEF Judged
<1>9. ASSUME NEW a \in Attempt, Served(a) \/ Damage(a) PROVE IntentInv'
  BY <1>9, ServedFrame DEF journal
<1>10. CASE Retry
  BY <1>10 DEF Retry
<1>11. CASE FinishCancel \/ Restart
  BY <1>11 DEF FinishCancel, Restart
<1>. QED BY <1>1, <1>2, <1>3, <1>4, <1>5, <1>6, <1>7, <1>8, <1>9, <1>10, <1>11 DEF Next

----------------------------------------------------------------------------
(* The intent and its requests.                                            *)

\* The steps of the driver in front of the original call, and those of the run.
Quietly ==
  \/ \E v \in Value : Resolve(v)
  \/ Freeze \/ Prepare \/ PrepareFails \/ Adopt \/ BlockUnsound
  \/ DispatchGate \/ Approve \/ Reject \/ BlockStale
  \/ EndRun \/ Retry \/ Cancel \/ FinishCancel \/ Restart

LEMMA QuietFrame ==
  ASSUME TypeOK, DraftInv, Quietly
  PROVE  /\ UNCHANGED <<world, original, recovery, backoff, manifest, intent, outcome>>
         /\ grants \subseteq grants'
         /\ \A a \in Attempt : prepared'[a] = prepared[a] \/ prepared[a] = None
<1>1. CASE (\E v \in Value : Resolve(v)) \/ Freeze \/ PrepareFails
  BY <1>1 DEF Resolve, Freeze, PrepareFails, journal, files
<1>2. CASE Prepare \/ Adopt
  BY <1>2 DEF Prepare, Adopt, DraftInv, Set, TypeOK, files, process
<1>3. CASE BlockUnsound \/ DispatchGate \/ Reject \/ BlockStale
  BY <1>3 DEF BlockUnsound, DispatchGate, Reject, BlockStale, files, process
<1>4. CASE Approve
  BY <1>4 DEF Approve, files, process
<1>5. CASE EndRun \/ Retry \/ Cancel \/ FinishCancel \/ Restart
  BY <1>5 DEF EndRun, Retry, Cancel, FinishCancel, Restart, files, process
<1>. QED BY <1>1, <1>2, <1>3, <1>4, <1>5 DEF Quietly

LEMMA NextCases ==
  ASSUME [Next]_vars
  PROVE  \/ UNCHANGED vars \/ Quietly \/ Claim \/ Crash
         \/ \E a \in Attempt : Loop(a) \/ Served(a) \/ Damage(a)
BY DEF Next, Quietly

\* No new request is sent: calls end or change their stage, requests are abandoned.
LEMMA NothingSent ==
  ASSUME AirInv, UNCHANGED <<intent, prepared, payload>>,
         \A b \in Attempt :
           /\ original'[b] = original[b] \/ original'[b] = None \/ (b \in intent /\ original'[b] # "air")
           /\ recovery'[b] = recovery[b] \/ recovery'[b] = None \/ (b \in intent /\ recovery'[b] # "air")
           /\ late'[b] > 0 => InTheAir(b)
  PROVE  AirInv'
<1>1. ASSUME NEW b \in Attempt, InTheAir(b)' PROVE InTheAir(b)
  BY <1>1 DEF InTheAir, None
<1>2. ASSUME NEW b \in Attempt, original'[b] # None \/ recovery'[b] # None \/ late'[b] > 0 PROVE b \in intent
  BY <1>2 DEF AirInv, InTheAir, None
<1>. QED BY <1>1, <1>2 DEF AirInv

LEMMA AirStep ==
  ASSUME TypeOK, DraftInv, IntentInv, AirInv, [Next]_vars
  PROVE  AirInv'
<1>1. CASE UNCHANGED vars
  BY <1>1 DEF AirInv, InTheAir, vars, journal, process, world
<1>2. CASE Quietly
  BY <1>2, QuietFrame DEF AirInv, InTheAir, world
<1>3. CASE Claim
  BY <1>3 DEF AirInv, InTheAir, Claim, Set, TypeOK, world
<1>4. CASE Crash
  <2>1. \A b \in Attempt : original'[b] = None /\ recovery'[b] = None /\ (late'[b] > 0 => InTheAir(b))
    BY <1>4 DEF Crash, InTheAir, TypeOK
  <2>. QED BY <1>4, <2>1, NothingSent DEF Crash, journal
<1>5. ASSUME NEW a \in Attempt, Served(a) \/ Damage(a) PROVE AirInv'
  <2>1. CASE \E answer \in Answer : ServeOriginal(a, answer)
    BY <2>1 DEF AirInv, InTheAir, ServeOriginal, Set, TypeOK, Answer, journal
  <2>2. CASE \E answer \in Answer : ServeRecovery(a, answer)
    BY <2>2 DEF AirInv, InTheAir, ServeRecovery, Set, TypeOK, Answer, journal
  <2>3. CASE ServeLate(a)
    BY <2>3 DEF AirInv, InTheAir, ServeLate, Set, TypeOK, journal, process
  <2>4. CASE Lose(a)
    BY <2>4 DEF AirInv, InTheAir, Lose, Set, TypeOK, journal, world
  <2>5. CASE Forget(a) \/ Damage(a)
    BY <2>5 DEF AirInv, InTheAir, Forget, Damage, journal, process, world
  <2>. QED BY <1>5, <2>1, <2>2, <2>3, <2>4, <2>5 DEF Served
<1>6. ASSUME NEW a \in Attempt, Loop(a) PROVE AirInv'
  <2>1. UNCHANGED <<intent, prepared>>
    BY <1>6, LoopFrame
  <2>2. CASE Send(a)
    <3>1. a \in intent
      BY <2>2 DEF AirInv, Send, None
    <3>2. UNCHANGED <<recovery, late>>
      BY <2>2 DEF Send
    <3>3. CASE original' = Set(original, a, None) /\ UNCHANGED payload
      BY <2>1, <3>2, <3>3, NothingSent DEF Set, TypeOK, InTheAir
    <3>4. CASE Sound(a) /\ original' = Set(original, a, "air") /\ payload' = Set(payload, a, frozen[a])
      BY <2>1, <3>1, <3>2, <3>4 DEF AirInv, InTheAir, Sound, Set, TypeOK
    <3>. QED BY <2>2, <3>3, <3>4 DEF Send
  <2>3. CASE OriginalFails(a) \/ OriginalResult(a) \/ OriginalCloses(a)
    <3>1. original[a] # None
      BY <2>3 DEF OriginalFails, OriginalResult, OriginalCloses, None
    <3>2. a \in intent
      BY <3>1 DEF AirInv
    <3>3. \E x \in {None, "published"} : original' = Set(original, a, x)
      BY <2>3 DEF OriginalFails, OriginalResult, OriginalCloses
    <3>4. \A b \in Attempt :
            original'[b] = original[b] \/ (b \in intent /\ original'[b] \in {None, "published"})
      BY <3>2, <3>3 DEF Set, TypeOK
    <3>5. UNCHANGED <<recovery, late, payload>>
      BY <2>3 DEF OriginalFails, OriginalResult, OriginalCloses, world
    <3>. QED BY <2>1, <3>4, <3>5, NothingSent DEF InTheAir, None
  <2>4. CASE GiveUp(a) \/ AdoptResult(a) \/ BackoffEnds(a)
    <3>1. UNCHANGED <<original, recovery, late, payload>>
      BY <2>4 DEF GiveUp, AdoptResult, BackoffEnds, process, world
    <3>. QED BY <2>1, <3>1, NothingSent DEF InTheAir
  <2>5. CASE LookUp(a)
    BY <2>1, <2>5 DEF AirInv, InTheAir, LookUp, Turn, Open, Set, TypeOK, world
  <2>6. CASE Resubmit(a)
    BY <2>1, <2>6 DEF AirInv, InTheAir, Resubmit, Turn, Hopeless, Sound, Open, Set, TypeOK
  <2>7. CASE RecoveryRetryable(a) \/ RecoveryFatal(a) \/ RecoveryResult(a) \/ RecoveryCloses(a)
             \/ RecoveryTimeout(a)
    <3>1. recovery[a] # None
      BY <2>7 DEF RecoveryRetryable, RecoveryFatal, RecoveryResult, RecoveryCloses, RecoveryTimeout,
         Answer, None
    <3>2. a \in intent
      BY <3>1 DEF AirInv
    <3>3. \E x \in {None, "published"} : recovery' = Set(recovery, a, x)
      BY <2>7 DEF RecoveryRetryable, RecoveryFatal, RecoveryResult, RecoveryCloses, RecoveryTimeout
    <3>4. \A b \in Attempt :
            recovery'[b] = recovery[b] \/ (b \in intent /\ recovery'[b] \in {None, "published"})
      BY <3>2, <3>3 DEF Set, TypeOK
    <3>5. UNCHANGED <<original, payload>>
      BY <2>7 DEF RecoveryRetryable, RecoveryFatal, RecoveryResult, RecoveryCloses, RecoveryTimeout,
         world
    <3>6. late' = late \/ (recovery[a] = "air" /\ late' = Set(late, a, late[a] + 1))
      BY <2>7 DEF RecoveryRetryable, RecoveryFatal, RecoveryResult, RecoveryCloses, RecoveryTimeout,
         world
    <3>7. \A b \in Attempt : late'[b] > 0 => InTheAir(b)
      BY <3>6 DEF InTheAir, Set, TypeOK
    <3>. QED BY <2>1, <3>4, <3>5, <3>7, NothingSent DEF None
  <2>. QED BY <1>6, <2>2, <2>3, <2>4, <2>5, <2>6, <2>7 DEF Loop
<1>. QED BY <1>1, <1>2, <1>3, <1>4, <1>5, <1>6, NextCases

\* What is carried out grows by a request with its approved input.
LEMMA EffectMoves ==
  ASSUME TypeOK, AirInv, [Next]_vars
  PROVE  \/ effects' = effects
         \/ \E a \in Attempt :
              /\ InTheAir(a) /\ Served(a)
              /\ effects' = Append(effects, [attempt |-> a, value |-> prepared[a]])
              /\ provider = "neither" \/ ~Done(a) \/ a \in expired
<1>1. CASE UNCHANGED vars
  BY <1>1 DEF vars, world
<1>2. CASE Quietly
  BY <1>2 DEF Quietly, Resolve, Freeze, Prepare, PrepareFails, Adopt, BlockUnsound, DispatchGate,
     Approve, Reject, BlockStale, EndRun, Retry, Cancel, FinishCancel, Restart, world
<1>3. CASE Claim \/ Crash
  BY <1>3 DEF Claim, Crash, world
<1>4. ASSUME NEW a \in Attempt, Loop(a) \/ Damage(a) PROVE effects' = effects
  BY <1>4 DEF Damage, Loop, Send, OriginalFails, OriginalResult, OriginalCloses, GiveUp, AdoptResult,
     LookUp, Resubmit, RecoveryRetryable, RecoveryTimeout, RecoveryFatal, RecoveryResult,
     RecoveryCloses, BackoffEnds, world
<1>5. ASSUME NEW a \in Attempt, Lose(a) \/ Forget(a) PROVE effects' = effects
  BY <1>5 DEF Lose, Forget, world
<1>6. ASSUME NEW a \in Attempt, Served(a) PROVE effects' = effects \/ (InTheAir(a) /\ (Apply(a) \/ UNCHANGED effects))
  BY <1>5, <1>6 DEF Served, ServeOriginal, ServeRecovery, ServeLate, Serve, InTheAir
<1>. QED BY <1>1, <1>2, <1>3, <1>4, <1>6, NextCases, ApplyEffect

\* The approvals and the intents of the journal only grow.
LEMMA JournalGrows ==
  ASSUME TypeOK, DraftInv, [Next]_vars
  PROVE  intent \subseteq intent' /\ grants \subseteq grants'
<1>1. CASE UNCHANGED vars \/ Claim \/ Crash
  BY <1>1 DEF vars, journal, Claim, Crash
<1>2. CASE Quietly
  BY <1>2, QuietFrame
<1>3. ASSUME NEW a \in Attempt, Loop(a) \/ Served(a) \/ Damage(a)
      PROVE  intent \subseteq intent' /\ grants \subseteq grants'
  BY <1>3, LoopFrame, ServedFrame DEF journal
<1>. QED BY <1>1, <1>2, <1>3, NextCases

LEMMA AppendAt ==
  ASSUME NEW s \in Seq(Grant), NEW e \in Grant, NEW t, t = Append(s, e)
  PROVE  /\ Len(t) = Len(s) + 1 /\ DOMAIN t = 1 .. Len(s) + 1
         /\ t[Len(s) + 1] = e /\ \A i \in DOMAIN s : i \in DOMAIN t /\ t[i] = s[i]
OBVIOUS

LEMMA EffectStep ==
  ASSUME TypeOK, DraftInv, IntentInv, AirInv, EffectInv, [Next]_vars
  PROVE  EffectInv'
<1>1. intent \subseteq intent' /\ grants \subseteq grants'
  BY JournalGrows
<1>2. CASE effects' = effects
  BY <1>1, <1>2 DEF EffectInv
<1>3. ASSUME NEW a \in Attempt, InTheAir(a),
             effects' = Append(effects, [attempt |-> a, value |-> prepared[a]])
      PROVE  EffectInv'
  <2>1. a \in intent /\ [attempt |-> a, value |-> prepared[a]] \in grants
    BY <1>3 DEF AirInv, IntentInv
  <2>2. [attempt |-> a, value |-> prepared[a]] \in Grant /\ effects \in Seq(Grant)
    BY <2>1 DEF TypeOK
  <2>3. ASSUME NEW i \in DOMAIN effects'
        PROVE  \/ i \in DOMAIN effects /\ effects'[i] = effects[i]
               \/ effects'[i] = [attempt |-> a, value |-> prepared[a]]
    BY <1>3, <2>2, AppendAt
  <2>. QED BY <1>1, <2>1, <2>3 DEF EffectInv
<1>. QED BY <1>2, <1>3, EffectMoves

\* What happened stays happened, and a request that is carried out has happened.
LEMMA DoneStays ==
  ASSUME TypeOK, IntentInv, AirInv, [Next]_vars, NEW a \in Attempt
  PROVE  Done(a) => Done(a)'
<1>1. CASE effects' = effects
  BY <1>1 DEF Done
<1>2. ASSUME NEW b \in Attempt, InTheAir(b),
             effects' = Append(effects, [attempt |-> b, value |-> prepared[b]])
      PROVE  Done(a) => Done(a)'
  <2>1. [attempt |-> b, value |-> prepared[b]] \in Grant /\ effects \in Seq(Grant)
    BY <1>2 DEF AirInv, IntentInv, TypeOK
  <2>. QED BY <1>2, <2>1, AppendAt DEF Done
<1>. QED BY <1>1, <1>2, EffectMoves

LEMMA ApplyDone ==
  ASSUME TypeOK, IntentInv, AirInv, NEW a \in Attempt, InTheAir(a), Apply(a)
  PROVE  Done(a)'
<1>1. CASE Done(a) /\ effects' = effects
  BY <1>1 DEF Done
<1>2. CASE effects' = Append(effects, [attempt |-> a, value |-> payload[a]])
  <2>1. [attempt |-> a, value |-> payload[a]] \in Grant /\ effects \in Seq(Grant)
    BY DEF AirInv, IntentInv, TypeOK
  <2>. QED BY <1>2, <2>1, AppendAt DEF Done
<1>. QED BY <1>1, <1>2, Zenon DEF Apply


LEMMA CreditStep ==
  ASSUME TypeOK, DraftInv, IntentInv, AirInv, CreditInv, [Next]_vars
  PROVE  CreditInv'
<1>. SUFFICES ASSUME NEW b \in Attempt, Credited(b)', ~Credited(b)
              PROVE  Done(b) \/ Done(b)'
  BY DoneStays DEF CreditInv
<1>1. CASE UNCHANGED vars
  BY <1>1 DEF Credited, vars, journal, files, process
<1>2. CASE Quietly
  BY <1>2, QuietFrame DEF Credited
<1>3. CASE Claim \/ Crash
  BY <1>3 DEF Credited, Claim, Crash, Set, TypeOK, journal, files, None
<1>4. ASSUME NEW a \in Attempt, Served(a) \/ Damage(a) PROVE Done(b)'
  <2>1. ASSUME NEW answer \in Answer, ServeOriginal(a, answer) PROVE Done(b)'
    <3>1. a = b /\ answer = "ok"
      BY <2>1 DEF ServeOriginal, Credited, Set, TypeOK, Answer, journal, files
    <3>. QED BY <2>1, <3>1, ApplyDone DEF ServeOriginal, Serve, InTheAir
  <2>2. ASSUME NEW answer \in Answer, ServeRecovery(a, answer) PROVE Done(b)'
    <3>1. a = b /\ answer = "ok"
      BY <2>2 DEF ServeRecovery, Credited, Set, TypeOK, Answer, journal, files
    <3>. QED BY <2>2, <3>1, ApplyDone DEF ServeRecovery, Serve, InTheAir
  <2>3. ~ServeLate(a) /\ ~Lose(a) /\ ~Forget(a)
    BY DEF ServeLate, Lose, Forget, Credited, Set, TypeOK, journal, files, process, world
  <2>4. ~Damage(a)
    BY DEF Damage, Credited, Set, TypeOK, journal, process, None, Bad
  <2>. QED BY <1>4, <2>1, <2>2, <2>3, <2>4 DEF Served
<1>5. ASSUME NEW a \in Attempt, Loop(a) PROVE Done(b)
  <2>1. ~Send(a) /\ ~OriginalFails(a) /\ ~Resubmit(a) /\ ~BackoffEnds(a)
    BY DEF Send, OriginalFails, Resubmit, BackoffEnds, Credited, Set, TypeOK, journal, files, world, None
  <2>2. ~OriginalResult(a)
    BY DEF OriginalResult, Publish, Credited, Set, TypeOK, journal, None
  <2>3. ~OriginalCloses(a)
    BY DEF OriginalCloses, CloseSuccess, Credited, Set, TypeOK, files, None
  <2>4. ~GiveUp(a)
    BY DEF GiveUp, CloseUncertain, Credited, Set, TypeOK, files, process
  <2>5. ~AdoptResult(a)
    BY DEF AdoptResult, CloseSuccess, Credited, Set, TypeOK, files, process
  <2>6. CASE LookUp(a)
    BY <2>6 DEF LookUp, Hopeless, Credited, Set, TypeOK, journal, files
  <2>7. ~RecoveryRetryable(a) /\ ~RecoveryTimeout(a)
    BY DEF RecoveryRetryable, RecoveryTimeout, Defer, CloseUncertain, Credited, Set, TypeOK, files, None
  <2>8. ~RecoveryFatal(a)
    BY DEF RecoveryFatal, CloseUncertain, Credited, Set, TypeOK, files, None
  <2>9. ~RecoveryResult(a)
    BY DEF RecoveryResult, Publish, CloseUncertain, Credited, Set, TypeOK, journal, None
  <2>10. ~RecoveryCloses(a)
    BY DEF RecoveryCloses, CloseSuccess, Credited, Set, TypeOK, files, None
  <2>. QED BY <1>5, <2>1, <2>2, <2>3, <2>4, <2>5, <2>6, <2>7, <2>8, <2>9, <2>10 DEF Loop
<1>. QED BY <1>1, <1>2, <1>3, <1>4, <1>5, NextCases

LEMMA RestStep ==
  ASSUME TypeOK, DraftInv, IntentInv, RestInv, [Next]_vars
  PROVE  RestInv'
<1>1. CASE UNCHANGED vars \/ Crash
  BY <1>1 DEF RestInv, Quiet, Open, Crash, vars, journal
<1>2. CASE Claim
  BY <1>2 DEF RestInv, Claim, Ready
<1>3. CASE Quietly
  <2>1. UNCHANGED <<intent, outcome>>
    BY <1>3, QuietFrame
  <2>2. CASE (\E v \in Value : Resolve(v)) \/ Freeze \/ Prepare \/ PrepareFails
    BY <2>1, <2>2 DEF RestInv, Quiet, Open, Resolve, Freeze, Prepare, PrepareFails, Ready, journal
  <2>3. CASE Adopt \/ BlockUnsound
    BY <2>1, <2>3 DEF RestInv, Quiet, Open, Adopt, BlockUnsound, Ready
  <2>4. CASE DispatchGate \/ Approve \/ Reject \/ BlockStale
    BY <2>1, <2>4 DEF RestInv, Quiet, Open, DispatchGate, Approve, Reject, BlockStale, Ready
  <2>5. CASE EndRun
    BY <2>1, <2>5 DEF RestInv, Quiet, Open, EndRun
  <2>6. CASE Retry \/ Cancel \/ Restart
    BY <2>1, <2>6 DEF RestInv, Quiet, Open, Retry, Cancel, Restart
  <2>7. CASE FinishCancel
    BY <2>1, <2>7 DEF RestInv, Quiet, Open, FinishCancel
  <2>. QED BY <1>3, <2>2, <2>3, <2>4, <2>5, <2>6, <2>7 DEF Quietly
<1>4. ASSUME NEW a \in Attempt, Loop(a) PROVE RestInv'
  <2>1. UNCHANGED <<run, attempt, intent>> /\ (Judged(a) \/ UNCHANGED <<node, outcome>>)
    BY <1>4, LoopFrame
  <2>2. CASE UNCHANGED <<node, outcome>>
    BY <2>1, <2>2 DEF RestInv, Quiet, Open
  <2>3. CASE Judged(a)
    <3>1. a = attempt /\ outcome[attempt] = None /\ ~Quiet
      BY <2>3 DEF Judged, IntentInv, Open, Quiet
    <3>2. node # "done" /\ run \in {"running", "cancelling"}
      BY <3>1 DEF RestInv, None
    <3>. QED BY <2>1, <2>3, <3>1, <3>2 DEF RestInv, Judged, Set, TypeOK
  <2>. QED BY <2>1, <2>2, <2>3
<1>5. ASSUME NEW a \in Attempt, Served(a) \/ Damage(a) PROVE RestInv'
  BY <1>5, ServedFrame DEF RestInv, Quiet, Open, journal
<1>. QED BY <1>1, <1>2, <1>3, <1>4, <1>5, NextCases

\* A request gets under way with its claim, or when it is repeated under a key not forgotten.
LEMMA UnderwayMoves ==
  ASSUME TypeOK, DraftInv, AirInv, [Next]_vars, NEW b \in Attempt, Underway(b)'
  PROVE  \/ Underway(b)
         \/ Claim /\ b = attempt
         \/ Resubmit(b) /\ b \notin expired
<1>1. CASE UNCHANGED vars
  BY <1>1 DEF Underway, InTheAir, vars, process, world
<1>2. CASE Quietly
  BY <1>2, QuietFrame DEF Underway, InTheAir, world
<1>3. CASE Claim
  BY <1>3 DEF Claim, Underway, InTheAir, Set, TypeOK, world
<1>4. CASE Crash
  <2>1. late'[b] > 0
    BY <1>4 DEF Crash, Underway, InTheAir, None
  <2>. QED BY <1>4, <2>1 DEF Crash, Underway, InTheAir, TypeOK
<1>5. ASSUME NEW a \in Attempt, Served(a) \/ Damage(a) PROVE Underway(b)
  <2>1. CASE \E answer \in Answer : ServeOriginal(a, answer)
    BY <2>1 DEF ServeOriginal, Underway, InTheAir, Set, TypeOK, Answer
  <2>2. CASE \E answer \in Answer : ServeRecovery(a, answer)
    BY <2>2 DEF ServeRecovery, Underway, InTheAir, Set, TypeOK, Answer
  <2>3. CASE ServeLate(a)
    BY <2>3 DEF ServeLate, Underway, InTheAir, Set, TypeOK, process
  <2>4. CASE Lose(a)
    BY <2>4 DEF Lose, Underway, InTheAir, Set, TypeOK, world
  <2>5. CASE Forget(a) \/ Damage(a)
    BY <2>5 DEF Forget, Damage, Underway, InTheAir, process, world
  <2>. QED BY <1>5, <2>1, <2>2, <2>3, <2>4, <2>5 DEF Served
<1>6. ASSUME NEW a \in Attempt, Loop(a)
      PROVE  Underway(b) \/ (Resubmit(b) /\ b \notin expired)
  <2>1. CASE Send(a)
    BY <2>1 DEF Send, Underway, InTheAir, Set, TypeOK
  <2>2. CASE OriginalFails(a)
    BY <2>2 DEF OriginalFails, Underway, InTheAir, Set, TypeOK, world, None
  <2>3. CASE OriginalResult(a)
    BY <2>3 DEF OriginalResult, Underway, InTheAir, Set, TypeOK, world, None
  <2>4. CASE OriginalCloses(a)
    BY <2>4 DEF OriginalCloses, Underway, InTheAir, Set, TypeOK, world, None
  <2>5. CASE GiveUp(a) \/ AdoptResult(a) \/ BackoffEnds(a)
    BY <2>5 DEF GiveUp, AdoptResult, BackoffEnds, Underway, InTheAir, process, world
  <2>6. CASE LookUp(a)
    BY <2>6 DEF LookUp, Underway, InTheAir, Set, TypeOK, world
  <2>7. CASE Resubmit(a)
    <3>1. a \notin expired
      BY <2>7 DEF Resubmit, Hopeless
    <3>. QED BY <2>7, <3>1 DEF Resubmit, Underway, InTheAir, Set, TypeOK
  <2>8. CASE RecoveryRetryable(a) \/ RecoveryFatal(a)
    BY <2>8 DEF RecoveryRetryable, RecoveryFatal, Underway, InTheAir, Set, TypeOK, world, None
  <2>9. CASE RecoveryResult(a) \/ RecoveryCloses(a)
    BY <2>9 DEF RecoveryResult, RecoveryCloses, Underway, InTheAir, Set, TypeOK, world, None
  <2>10. CASE RecoveryTimeout(a)
    <3>1. recovery' = Set(recovery, a, None) /\ UNCHANGED original
      BY <2>10 DEF RecoveryTimeout
    <3>2. late' = late \/ (recovery[a] = "air" /\ late' = Set(late, a, late[a] + 1))
      BY <2>10 DEF RecoveryTimeout
    <3>. QED BY <3>1, <3>2 DEF Underway, InTheAir, Set, TypeOK, None
  <2>. QED BY <1>6, <2>1, <2>2, <2>3, <2>4, <2>5, <2>6, <2>7, <2>8, <2>9, <2>10 DEF Loop
<1>. QED BY <1>1, <1>2, <1>3, <1>4, <1>5, <1>6, NextCases

LEMMA ExpiredMoves ==
  ASSUME TypeOK, DraftInv, [Next]_vars
  PROVE  \/ expired' = expired
         \/ \E a \in intent : Forget(a) /\ expired' = expired \cup {a}
<1>1. CASE UNCHANGED vars \/ Quietly \/ Claim \/ Crash
  BY <1>1, QuietFrame DEF vars, world, Claim, Crash
<1>2. ASSUME NEW a \in Attempt, Loop(a) PROVE expired' = expired
  BY <1>2, LoopFrame
<1>3. ASSUME NEW a \in Attempt, Served(a) \/ Damage(a)
      PROVE  expired' = expired \/ (a \in intent /\ Forget(a) /\ expired' = expired \cup {a})
  BY <1>3 DEF Served, ServeOriginal, ServeRecovery, ServeLate, Lose, Forget, Damage, world
<1>. QED BY <1>1, <1>2, <1>3, NextCases

\* What a step may add to the effects of an attempt.
LEMMA NothingDone ==
  ASSUME effects' = effects, NEW b \in Attempt
  PROVE  Done(b)' = Done(b)
BY DEF Done

LEMMA OnlyDone ==
  ASSUME TypeOK, AirInv, IntentInv, NEW a \in Attempt, InTheAir(a), Apply(a) \/ UNCHANGED effects,
         NEW b \in Attempt, b # a, Done(b)'
  PROVE  Done(b)
<1>1. CASE effects' = effects
  BY <1>1 DEF Done
<1>2. CASE effects' = Append(effects, [attempt |-> a, value |-> prepared[a]])
  <2>1. [attempt |-> a, value |-> prepared[a]] \in Grant /\ effects \in Seq(Grant)
    BY DEF AirInv, IntentInv, TypeOK
  <2>2. PICK i \in DOMAIN effects' : effects'[i].attempt = b
    BY DEF Done
  <2>3. i \in DOMAIN effects /\ effects'[i] = effects[i]
    BY <1>2, <2>1, <2>2, AppendAt
  <2>. QED BY <2>2, <2>3 DEF Done
<1>. QED BY <1>1, <1>2, ApplyEffect

LEMMA SingleStep ==
  ASSUME TypeOK, DraftInv, IntentInv, AirInv, EffectInv, [Next]_vars,
         provider = "neither", \A b \in Attempt : Single(b), NEW b \in Attempt
  PROVE  Single(b)'
<1>1. CASE UNCHANGED vars
  BY <1>1, NothingDone DEF Single, Underway, InTheAir, vars, process, world
<1>2. CASE Quietly
  BY <1>2, QuietFrame, NothingDone DEF Single, Underway, InTheAir, world
<1>3. CASE Claim
  <2>1. UNCHANGED <<recovery, late, effects>> /\ (b # attempt => original'[b] = original[b])
    BY <1>3 DEF Claim, Set, TypeOK, world
  <2>2. CASE b = attempt
    <3>1. attempt \notin intent
      BY <1>3 DEF Claim, Ready, IntentInv
    <3>2. late[b] = 0 /\ ~Done(b)
      BY <2>2, <3>1 DEF AirInv, EffectInv, Done, TypeOK
    <3>. QED BY <2>1, <3>2, NothingDone DEF Single
  <2>3. CASE b # attempt
    BY <2>1, <2>3, NothingDone DEF Single, Underway, InTheAir
  <2>. QED BY <2>2, <2>3
<1>4. CASE Crash
  <2>1. effects' = effects /\ original'[b] = None /\ recovery'[b] = None
    BY <1>4 DEF Crash
  <2>2. late'[b] = late[b] + (IF original[b] = "air" THEN 1 ELSE 0)
    BY <1>4 DEF Crash, Single, TypeOK, None
  <2>3. late'[b] <= 1 /\ (late'[b] > 0 => Underway(b))
    BY <2>2 DEF Single, Underway, InTheAir, TypeOK
  <2>. QED BY <2>1, <2>3, NothingDone DEF Single, Underway, InTheAir, None
<1>5. ASSUME NEW a \in Attempt, Served(a) \/ Damage(a) PROVE Single(b)'
  <2>1. ASSUME NEW answer \in Answer, ServeOriginal(a, answer) PROVE Single(b)'
    <3>1. UNCHANGED <<recovery, late>> /\ original' = Set(original, a, answer) /\ late[a] = 0
      BY <2>1 DEF ServeOriginal, Single
    <3>2. CASE b = a
      BY <3>1, <3>2 DEF Single, Underway, InTheAir, Set, TypeOK, Answer, None
    <3>3. CASE b # a
      <4>1. Done(b)' => Done(b)
        BY <2>1, <3>3, OnlyDone DEF ServeOriginal, Serve, InTheAir
      <4>. QED BY <3>1, <3>3, <4>1 DEF Single, Underway, InTheAir, Set, TypeOK
    <3>. QED BY <3>2, <3>3
  <2>2. ~\E answer \in Answer : ServeRecovery(a, answer)
    BY DEF ServeRecovery, Single, None
  <2>3. CASE ServeLate(a)
    <3>1. UNCHANGED <<recovery, original>> /\ late' = Set(late, a, late[a] - 1) /\ late[a] = 1
      BY <2>3 DEF ServeLate, Single, TypeOK, process
    <3>2. CASE b = a
      BY <3>1, <3>2 DEF Single, Underway, InTheAir, Set, TypeOK, None
    <3>3. CASE b # a
      <4>1. Done(b)' => Done(b)
        BY <2>3, <3>3, OnlyDone DEF ServeLate, InTheAir
      <4>. QED BY <3>1, <3>3, <4>1 DEF Single, Underway, InTheAir, Set, TypeOK
    <3>. QED BY <3>2, <3>3
  <2>4. CASE Lose(a)
    <3>1. UNCHANGED <<recovery, late, effects>> /\ original' = Set(original, a, "lost")
      BY <2>4 DEF Lose, Single, None, world
    <3>. QED BY <3>1, NothingDone DEF Single, Underway, InTheAir, Set, TypeOK
  <2>5. CASE Forget(a) \/ Damage(a)
    BY <2>5, NothingDone DEF Forget, Damage, Single, Underway, InTheAir, process, world
  <2>. QED BY <1>5, <2>1, <2>2, <2>3, <2>4, <2>5 DEF Served
<1>6. ASSUME NEW a \in Attempt, Loop(a) PROVE Single(b)'
  <2>1. CASE Send(a)
    BY <2>1, NothingDone DEF Send, Single, Underway, InTheAir, Set, TypeOK, None
  <2>2. CASE OriginalFails(a) \/ OriginalResult(a) \/ OriginalCloses(a)
    <3>1. \E x \in {None, "published"} : original' = Set(original, a, x)
      BY <2>2 DEF OriginalFails, OriginalResult, OriginalCloses
    <3>2. UNCHANGED <<recovery, late, effects>>
      BY <2>2 DEF OriginalFails, OriginalResult, OriginalCloses, world
    <3>. QED BY <3>1, <3>2, NothingDone DEF Single, Underway, InTheAir, Set, TypeOK, None
  <2>3. CASE GiveUp(a) \/ AdoptResult(a) \/ BackoffEnds(a)
    BY <2>3, NothingDone DEF GiveUp, AdoptResult, BackoffEnds, Single, Underway, InTheAir, process, world
  <2>4. ~LookUp(a) /\ ~Resubmit(a) /\ ~RecoveryTimeout(a)
    BY DEF LookUp, Resubmit, RecoveryTimeout
  <2>5. ~RecoveryRetryable(a) /\ ~RecoveryFatal(a) /\ ~RecoveryResult(a) /\ ~RecoveryCloses(a)
    BY DEF RecoveryRetryable, RecoveryFatal, RecoveryResult, RecoveryCloses, Single, None
  <2>. QED BY <1>6, <2>1, <2>2, <2>3, <2>4, <2>5 DEF Loop
<1>. QED BY <1>1, <1>2, <1>3, <1>4, <1>5, <1>6, NextCases

LEMMA OnceStep ==
  ASSUME Slow = FALSE, TypeOK, DraftInv, IntentInv, AirInv, EffectInv, OnceInv, [Next]_vars
  PROVE  OnceInv'
<1>1. provider' = provider
  BY NextCases, QuietFrame, LoopFrame, ServedFrame DEF vars, world, Claim, Crash
<1>2. Len(effects') <= 1
  <2>1. CASE effects' = effects
    BY <2>1 DEF OnceInv
  <2>2. ASSUME NEW a \in Attempt, InTheAir(a),
               effects' = Append(effects, [attempt |-> a, value |-> prepared[a]]),
               provider = "neither" \/ ~Done(a) \/ a \in expired
        PROVE  Len(effects') <= 1
    <3>1. ~Done(a) /\ a = attempt
      <4>1. Underway(a) /\ a \in intent
        BY <2>2 DEF Underway, AirInv, InTheAir
      <4>2. a = attempt /\ a \notin expired
        BY <4>1 DEF IntentInv, OnceInv
      <4>3. provider = "neither" => ~Done(a)
        BY <4>1 DEF OnceInv, Single
      <4>. QED BY <2>2, <4>2, <4>3
    <3>2. Len(effects) = 0
      <4>1. DOMAIN effects = 1 .. Len(effects) /\ Len(effects) \in Nat
        BY DEF TypeOK
      <4>2. 1 \notin DOMAIN effects
        BY <3>1 DEF EffectInv, IntentInv, Done
      <4>. QED BY <4>1, <4>2
    <3>3. [attempt |-> a, value |-> prepared[a]] \in Grant /\ effects \in Seq(Grant)
      BY <2>2 DEF AirInv, IntentInv, TypeOK
    <3>. QED BY <2>2, <3>2, <3>3, AppendAt
  <2>. QED BY <2>1, <2>2, EffectMoves
<1>3. ASSUME NEW a \in Attempt, Underway(a)' PROVE a \notin expired'
  <2>1. a \notin expired
    BY <1>3, UnderwayMoves DEF OnceInv, Claim, Ready, IntentInv
  <2>2. ASSUME Forget(a) PROVE FALSE
    <3>1. ~Underway(a) /\ UNCHANGED <<original, recovery, late>>
      BY <2>2 DEF Forget, Underway, process
    <3>. QED BY <1>3, <3>1 DEF Underway, InTheAir
  <2>. QED BY <2>1, <2>2, ExpiredMoves
<1>4. provider = "neither" => \A a \in Attempt : Single(a)'
  BY SingleStep DEF OnceInv
<1>5. expired' \subseteq intent'
  BY ExpiredMoves, JournalGrows DEF OnceInv
<1>. QED BY <1>1, <1>2, <1>3, <1>4, <1>5 DEF OnceInv

----------------------------------------------------------------------------
(* The theorems.                                                           *)

Inv == TypeOK /\ DraftInv /\ IntentInv /\ AirInv /\ EffectInv /\ CreditInv /\ RestInv

LEMMA InitInv ==
  ASSUME Init
  PROVE  Inv /\ OnceInv
<1>1. TypeOK
  <2>1. 1 \in Attempt /\ 0 \in 0 .. MaxRetry /\ 0 \in 0 .. MaxCrash /\ 0 \in 0 .. MaxDamage
    BY ConstantsAssumption DEF Attempt
  <2>. QED BY <2>1 DEF Init, TypeOK, RunStatus, NodeStatus
<1>2. DraftInv /\ IntentInv /\ AirInv /\ EffectInv
  BY DEF Init, DraftInv, IntentInv, AirInv, InTheAir, EffectInv, None
<1>3. CreditInv /\ RestInv
  BY DEF Init, CreditInv, Credited, RestInv, None
<1>4. OnceInv
  BY DEF Init, OnceInv, Single, Underway, InTheAir, Done, None
<1>. QED BY <1>1, <1>2, <1>3, <1>4 DEF Inv

LEMMA Invariant == Spec => []Inv
<1>1. Init => Inv
  BY InitInv
<1>2. Inv /\ [Next]_vars => Inv'
  BY TypeStep, DraftStep, IntentStep, AirStep, EffectStep, CreditStep, RestStep DEF Inv
<1>. QED BY <1>1, <1>2, PTL DEF Spec

\* The records of the effect and of the calls about it keep their types (V3HostEffect).
THEOREM TypeCorrect == Spec => []TypeOK
<1>1. Inv => TypeOK
  BY DEF Inv
<1>. QED BY <1>1, Invariant, PTL

\* Whatever is carried out was approved, for that attempt and with that input, whatever files
\* are damaged in between (startHost, ensureHostPrepared, reconcileOpenHostEffects).
THEOREM EffectsAsApproved == Spec => []AppliedAsApproved
<1>1. Inv => AppliedAsApproved
  BY DEF Inv, EffectInv, AppliedAsApproved
<1>. QED BY <1>1, Invariant, PTL

\* When requests end before the provider forgets their keys, an effect happens at most once,
\* for any number of attempts, retries, recoveries, deaths and damaged files.
THEOREM EffectsAtMostOnce ==
  ASSUME Slow = FALSE
  PROVE  Spec => []AtMostOnce
<1>1. Init => Inv /\ OnceInv
  BY InitInv
<1>2. Inv /\ OnceInv /\ [Next]_vars => OnceInv'
  BY OnceStep DEF Inv
<1>3. OnceInv => AtMostOnce
  BY DEF OnceInv, AtMostOnce
<1>. QED BY <1>1, <1>2, <1>3, Invariant, PTL DEF Spec

\* A run at rest hides no effect, and a success of the journal has happened
\* (runtimeHasOpenAttempts, finalizeRuntimeCancellation).
THEOREM NothingIsSilent == Spec => []NothingSilent
<1>1. ASSUME Inv PROVE NothingSilent
  <2>1. ASSUME NEW a \in Attempt, Done(a) \/ InTheAir(a) PROVE a \in intent
    BY <1>1, <2>1 DEF Inv, Done, EffectInv, AirInv, InTheAir
  <2>2. ASSUME NEW a \in Attempt, outcome[a] = "success" PROVE Done(a)
    BY <1>1, <2>2 DEF Inv, CreditInv, Credited
  <2>3. run = "succeeded" => outcome[attempt] = "success"
    BY <1>1 DEF Inv, RestInv
  <2>4. run \notin {"running", "cancelling"} => \A a \in intent : outcome[a] # None
    BY <1>1 DEF Inv, RestInv, Quiet, Open, TypeOK
  <2>. QED BY <2>1, <2>2, <2>3, <2>4 DEF NothingSilent
<1>. QED BY <1>1, Invariant, PTL
=============================================================================
