----------------------------- MODULE MCSeeding -----------------------------
(* Two seed processes, two priorities and one service; one of the two demo *)
(* tickets is linked.  The processes are alike.                            *)
EXTENDS Seeding, TLC

CONSTANTS p1, p2, critical, normal, nightowl

MCProc == {p1, p2}
MCPriorities == <<critical, normal>>
MCServices == <<nightowl>>
MCDemo == <<critical, normal>>
MCLinked == <<1>>
Symmetry == Permutations(MCProc)
=============================================================================
