-------------------------------- MODULE Mutex --------------------------------
(***************************************************************************)
(* What the callers of a file lock rely on (the journal of a run takes it  *)
(* as given): one of them at a time is inside its section, and one that    *)
(* dies inside makes room for the next.                                    *)
(***************************************************************************)
CONSTANT Proc
VARIABLE inside   \* the processes that run their section

Init == inside = {}
Enter(p) == inside = {} /\ inside' = {p}
Exit(p) == p \in inside /\ inside' = inside \ {p}    \* it leaves, or it dies
Next == \E p \in Proc : Enter(p) \/ Exit(p)

Spec == Init /\ [][Next]_inside
=============================================================================
