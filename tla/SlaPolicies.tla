----------------------------- MODULE SlaPolicies -----------------------------
(* The table sla_policies and the requests of administrators that change   *)
(* it.  Left out: names, minutes and thresholds, and refused requests,     *)
(* which change nothing.                                                   *)
EXTENDS Integers

CONSTANTS
  Priorities, \* priorities of tickets
  MaxPolicies \* bound: policies ever created

ASSUME PoliciesAssumption == MaxPolicies \in Nat

VARIABLES
  policies, \* table sla_policies
  policyNo  \* policies created so far; ids are never used again

policyTable == <<policies, policyNo>>

NoPolicy == 0
PolicyIds == 1 .. policyNo
Policy == [id : PolicyIds, priority : Priorities, default : BOOLEAN]

(* Variants of the definitions below: bugs the runs must find.             *)
DefaultsOfAny(priority) == {p \in policies : p.default}

(* UNIQUE (priority, is_default).                                          *)
Unique(rows) ==
  \A p, q \in rows :
    p.priority = q.priority /\ p.default = q.default => p = q

PoliciesTypeOK ==
  /\ policyNo \in 0 .. MaxPolicies
  /\ policies \subseteq Policy
  /\ Unique(policies)
  /\ \A p, q \in policies : p.id = q.id => p = q

(* GetDefaultPolicyByPriority: no row, or one.                             *)
DefaultsFor(priority) == {p \in policies : p.priority = priority /\ p.default}

CreatePolicy(priority, default) ==
  LET row == [id |-> policyNo + 1, priority |-> priority, default |-> default]
  IN /\ policyNo < MaxPolicies
     /\ Unique(policies \cup {row})
     /\ policies' = policies \cup {row}
     /\ policyNo' = policyNo + 1

(* The priority of a policy cannot be changed.                             *)
UpdatePolicy(p, default) ==
  LET rows == (policies \ {p}) \cup {[p EXCEPT !.default = default]}
  IN /\ Unique(rows)
     /\ policies' = rows
     /\ UNCHANGED policyNo

DeletePolicy(p) ==
  /\ policies' = policies \ {p}
  /\ UNCHANGED policyNo
==============================================================================
