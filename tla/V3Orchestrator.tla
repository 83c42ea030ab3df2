--------------------------- MODULE V3Orchestrator ---------------------------
(***************************************************************************)
(* The pure scheduling decision of the v3 engine: orchestrator.ts          *)
(* `decideNext` and its helpers.  A function of the DAG and the folded     *)
(* journal that returns the actions of one tick.                           *)
(***************************************************************************)
EXTENDS V3State

CONSTANTS
  Dep,          \* pairs <<upstream, downstream>>
  When,         \* the dependencies that carry a `when` predicate
  AllSuccess,   \* nodes whose triggerRule is all_success
  Quorum,       \* for the others, how many active inputs release them
  Gated,        \* nodes with a humanGate
  Rank          \* position in topologicalOrder

ASSUME DagAssumption ==
  /\ Dep \subseteq Node \X Node /\ When \subseteq Dep
  /\ AllSuccess \subseteq Node /\ Gated \subseteq Node
  /\ Quorum \in [Node -> Nat]
  /\ Rank \in [Node -> Nat]
  /\ \A n, m \in Node : Rank[n] = Rank[m] => n = m
  /\ \A d \in Dep : Rank[d[1]] < Rank[d[2]]

Upstream(n) == {m \in Node : <<m, n>> \in Dep}
Downstream(n) == {m \in Node : <<n, m>> \in Dep}
Sinks == {n \in Node : Downstream(n) = {}}

\* requiredFor
Required(n) == IF n \in AllSuccess THEN Cardinality(Upstream(n)) ELSE Quorum[n]

First(S) == CHOOSE n \in S : \A m \in S : Rank[n] <= Rank[m]

----------------------------------------------------------------------------
\* edgeActivityFor: what the edge from -> to means for the trigger rule of `to`.
Activity(s, from, to) ==
  CASE s.status[from] = "done" ->
         IF <<from, to>> \notin When THEN "active"
         ELSE IF s.eff[from] = 0 THEN "unresolved"
         ELSE s.edge[<<<<from, s.eff[from]>>, to>>]
    [] s.status[from] \in {"skipped", "cancelled"} -> "inactive"
    [] OTHER -> "unsettled"

With(s, n, kinds) == {m \in Upstream(n) : Activity(s, m, n) \in kinds}
Maybe == {"unsettled", "unresolved"}
Active(s, n) == Cardinality(With(s, n, {"active"}))
\* Mutant: an input without a verdict yet is not counted as possible.
PossibleNow(s, n) == Active(s, n)
Possible(s, n) == Cardinality(With(s, n, {"active"} \cup Maybe))

\* readinessFor.  all_success settles every input first; the other rules release early.
NeedsVerdict(s, n) ==
  /\ With(s, n, {"unresolved"}) # {}
  /\ IF n \in AllSuccess THEN With(s, n, {"unsettled"}) = {} ELSE Active(s, n) < Required(n)

Readiness(s, n) ==
  IF Upstream(n) = {} THEN "ready"
  ELSE IF n \in AllSuccess /\ With(s, n, {"unsettled"}) # {} THEN "wait"
  ELSE IF NeedsVerdict(s, n) THEN "resolveEdge"
  ELSE IF Active(s, n) >= Required(n) THEN "ready"
  ELSE IF Possible(s, n) >= Required(n) THEN "wait"
  ELSE "skip"

IsImpossibleNow(s, n) == Possible(s, n) < Required(n)

IsSatisfiedWithoutSource(s, n, source) ==
  Cardinality(With(s, n, {"active"}) \ {source}) >= Required(n)

\* A failed or blocked node ends the run unless nobody downstream still needs it.
IsFailureRelevant(s, n) ==
  \/ Downstream(n) = {}
  \/ \E m \in Downstream(n) : ~Settled(s, m) /\ ~IsSatisfiedWithoutSource(s, m, n)

IsAcceptableTerminal(s, n) ==
  \/ s.status[n] \in {"done", "skipped", "cancelled"}
  \/ s.status[n] \in {"failed", "blocked"} /\ ~IsFailureRelevant(s, n)

\* An input that lost the race for `by` may be stopped when no other node can use it.
CanCancelLoser(s, loser, by) ==
  /\ s.status[loser] \in {"pending", "gateWaiting", "running"}
  /\ \A m \in Downstream(loser) \ {by} :
       \/ Settled(s, m)
       \/ IsSatisfiedWithoutSource(s, m, loser)
       \/ IsImpossibleNow(s, m)

\* nextInstanceId: every instance that ever appeared counts.
NextInstance(s, n) == 1 + Cardinality({k \in Inst : s.inst[<<n, k>>] # "absent"})

InstanceFor(s, n) == IF s.eff[n] # 0 THEN s.eff[n] ELSE NextInstance(s, n)

----------------------------------------------------------------------------
(* decideNext *)

Action == [kind : {"edge", "skip", "gate", "work", "cancel"}, n : Node, m : Node, k : 0 .. MaxInst]

Act(kind, n, m, k) == [kind |-> kind, n |-> n, m |-> m, k |-> k]

FailedRelevant(s) == {n \in Node : s.status[n] = "failed" /\ IsFailureRelevant(s, n)}
BlockedRelevant(s) == {n \in Node : s.status[n] = "blocked" /\ IsFailureRelevant(s, n)}
Open(s) == {n \in Node : ~IsAcceptableTerminal(s, n)}

\* The nodes that want something this tick.
Idle(s, r) == {n \in Open(s) : s.status[n] = "pending" /\ Readiness(s, n) = r}
WantsGate(s, n) == n \in Gated /\ ~s.cleared[n]

EdgeActions(s) ==
  {Act("edge", n, First(With(s, n, {"unresolved"})), 0) : n \in Idle(s, "resolveEdge")}
SkipActions(s) == {Act("skip", n, n, 0) : n \in Idle(s, "skip")}

\* MaxInst is the model's bound; V3Run keeps a run from ever needing more.
Startable(s) == {n \in Idle(s, "ready") : InstanceFor(s, n) <= MaxInst}
StartActions(s) ==
  {Act(IF WantsGate(s, n) THEN "gate" ELSE "work", n, n, InstanceFor(s, n)) : n \in Startable(s)}

Losers(s, n) == {m \in With(s, n, {"unsettled"}) : CanCancelLoser(s, m, n)}
CancelActions(s) ==
  UNION {{Act("cancel", m, n, 0) : m \in Losers(s, n)} :
           n \in {o \in Startable(s) : ~WantsGate(s, o)}}

\* Mutant: nodes out of reach are never skipped.
ControlsEdgesOnly(s) == EdgeActions(s)
Controls(s) == EdgeActions(s) \cup SkipActions(s)
Plan(s) == StartActions(s) \cup CancelActions(s)

\* The run-level sweep: failed before blocked, then success when nothing is left.
TerminalEvent(s) ==
  IF FailedRelevant(s) # {} THEN {Ev("runFailed", First(FailedRelevant(s)), 0, 0)}
  ELSE IF BlockedRelevant(s) # {} THEN {Ev("runBlocked", First(BlockedRelevant(s)), 0, 0)}
  ELSE IF Open(s) # {} THEN {}
  ELSE IF \E n \in Sinks : s.status[n] = "done" THEN {Ev("runSucceeded", First(Node), 0, 0)}
  ELSE {Ev("runFailed", First(Node), 0, 0)}
=============================================================================
