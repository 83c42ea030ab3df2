------------------------------- MODULE V3Log -------------------------------
(***************************************************************************)
(* What the journal of one run promises its callers: an append-only log.   *)
(* Every observer folds the whole log, so the only things that may happen  *)
(* to it are that one event is added at its end and that a power loss cuts *)
(* off a suffix nobody was promised would survive.  Nothing else, not the  *)
(* death of a writer nor the repair after it, takes back what was read.    *)
(***************************************************************************)
EXTENDS Naturals, Sequences

CONSTANT Event

VARIABLES
  log,      \* the events a reader replays, in append order
  promised, \* length of the prefix acknowledged as durable
  losses    \* power losses so far

logVars == <<log, promised, losses>>

Init == log = <<>> /\ promised = 0 /\ losses = 0

\* One mutation commits one event.
Commit(e) == log' = Append(log, e) /\ UNCHANGED <<promised, losses>>

\* A durable append returns: everything up to now must survive.
Promise(n) ==
  /\ n > promised /\ n <= Len(log)
  /\ promised' = n
  /\ UNCHANGED <<log, losses>>

\* The machine loses power: only a prefix that holds every promised event stays.
PowerLoss(n) ==
  /\ n \in promised .. Len(log)
  /\ log' = SubSeq(log, 1, n)
  /\ losses' = losses + 1
  /\ UNCHANGED promised

Next ==
  \/ \E e \in Event : Commit(e)
  \/ \E n \in 1 .. Len(log) : Promise(n)
  \/ \E n \in 0 .. Len(log) : PowerLoss(n)

Spec == Init /\ [][Next]_logVars
=============================================================================
