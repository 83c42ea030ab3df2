---------------------------- MODULE V3Lifecycle ----------------------------
(***************************************************************************)
(* What a v3 run promises to everybody outside its driver: a card, the     *)
(* dashboard, the CLI, the owner of the machine.  The status of the run    *)
(* and the worker processes that exist on its behalf are all there is.     *)
(*                                                                         *)
(*   - a worker starts only while the run is running, never under an       *)
(*     attempt that was used before, and never beside another worker of    *)
(*     the same node;                                                      *)
(*   - the run is reported finished or blocked only when no worker is left; *)
(*   - a finished run stays finished; a cancel request can be answered by  *)
(*     nothing but `cancelled`.                                            *)
(***************************************************************************)
EXTENDS Naturals

CONSTANT Worker   \* tuples <<node, instance, attempt>>

VARIABLES
  run,    \* status shown for the run
  live,   \* worker processes that exist
  used    \* attempts that ever had one

lifeVars == <<run, live, used>>

Finished == {"succeeded", "failed", "cancelled"}

Init == run = "running" /\ live = {} /\ used = {}

StartWorker(x) ==
  /\ run = "running"
  /\ x \notin used
  /\ \A y \in live : y[1] # x[1]
  /\ live' = live \cup {x}
  /\ used' = used \cup {x}
  /\ UNCHANGED run

EndWorker(x) == x \in live /\ live' = live \ {x} /\ UNCHANGED <<run, used>>

\* The run stops: for good, or until a human unblocks it.
Stop(status) ==
  /\ run = "running" /\ live = {}
  /\ status \in {"succeeded", "failed", "blocked"}
  /\ run' = status
  /\ UNCHANGED <<live, used>>

Reopen == run = "blocked" /\ run' = "running" /\ UNCHANGED <<live, used>>

RequestCancel == run \in {"running", "blocked"} /\ run' = "cancelling" /\ UNCHANGED <<live, used>>

Cancelled == run = "cancelling" /\ live = {} /\ run' = "cancelled" /\ UNCHANGED <<live, used>>

Next ==
  \/ \E x \in used' : x \in Worker /\ StartWorker(x)
  \/ \E x \in live : EndWorker(x)
  \/ \E status \in {"succeeded", "failed", "blocked"} : Stop(status)
  \/ Reopen \/ RequestCancel \/ Cancelled

Spec == Init /\ [][Next]_lifeVars
=============================================================================
