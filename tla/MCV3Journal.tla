---------------------------- MODULE MCV3Journal ----------------------------
(***************************************************************************)
(* The journal under deaths of its writers, or under losses of power, in   *)
(* one run.  Both in one behaviour would multiply the states and meet      *)
(* nothing new: a loss of power ends every writer as a death does.         *)
(***************************************************************************)
EXTENDS V3Journal

OneKindOfFault == kills' = 0 \/ losses' = 0

MCSpec == Init /\ [][Next /\ OneKindOfFault]_vars
=============================================================================
