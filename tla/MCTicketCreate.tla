--------------------------- MODULE MCTicketCreate ---------------------------
(* Two addresses and two tickets of two priorities.  One of them belongs   *)
(* to a group; one of the priorities has a default policy at first.        *)
EXTENDS TicketCreate, TLC

CONSTANTS e1, e2, normal, high, support

MCEmails == {e1, e2}
MCPriorityOf == <<high, normal>>
MCGroupOf == <<support, NoGroup>>
MCSeeded == <<high>>
Symmetry == Permutations(MCEmails)
=============================================================================
