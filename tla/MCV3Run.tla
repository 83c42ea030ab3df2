------------------------------ MODULE MCV3Run ------------------------------
(***************************************************************************)
(* Small DAGs for V3Run.                                                   *)
(***************************************************************************)
EXTENDS V3Run

CONSTANTS A, B, C, D

Nodes1 == {A}
Nodes3 == {A, B, C}
Nodes4 == {A, B, C, D}

None == {}
RankOf == [n \in Node |-> CASE n = A -> 1 [] n = B -> 2 [] n = C -> 3 [] OTHER -> 4]
One == [n \in Node |-> 1]
Two == [n \in Node |-> 2]

\* Two producers race for one consumer (one_success); the slower one shares its slot.
RaceDep == {<<A, C>>, <<B, C>>}
RaceAll == {A, B}
RacePools == {[nodes |-> {B, C}, cap |-> 1]}

\* A chain whose last node may send the run back; the middle one is gated.  Beside it D
\* joins the middle node and a verdict of A, and needs both (quorum of two).
ChainDep == {<<A, B>>, <<B, C>>}
ChainGate == {B}
BranchDep == ChainDep \cup {<<A, D>>, <<B, D>>}
BranchWhen == {<<A, D>>}
BranchBack == {<<C, B>>}
ChainBack == {<<C, A>>}

\* A diamond; as a switch, A decides which of B and C feeds D, which joins on the first.
DiamondDep == {<<A, B>>, <<A, C>>, <<B, D>>, <<C, D>>}
SwitchWhen == {<<A, B>>, <<A, C>>}
SwitchBack == {<<D, A>>}
LoserBack == {<<B, A>>}
=============================================================================
