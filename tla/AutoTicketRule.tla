--------------------------- MODULE AutoTicketRule ---------------------------
(***************************************************************************)
(* Which auto-ticket rules match an incident: MatchRule and                *)
(* FindMatchingRules of the worker.                                        *)
(*                                                                         *)
(* Names of services and alert groups are sequences of the parts between   *)
(* their dashes: "kubernetes-pod" is <<"kubernetes", "pod">>, and the      *)
(* prefix "kubernetes-" is the record of <<"kubernetes">> with a dash.     *)
(* Severities are kept in lower case.                                      *)
(***************************************************************************)
EXTENDS Integers, SequencesExt

None == "none"      \* min_severity NULL or empty: no constraint

(* A severity the map does not know ranks below all that it knows.         *)
SeverityRank(s) ==
  CASE s = "low" -> 1 [] s = "medium" -> 2 [] s = "high" -> 3
    [] s = "critical" -> 4 [] OTHER -> 0

(* alert_group is the empty set or one group.  A group that ends in a dash *)
(* is a prefix, any other must be equal.                                   *)
MatchesGroup(groups, service) ==
  \A g \in groups :
    IF g.dash THEN IsStrictPrefix(g.parts, service) ELSE service = g.parts

MatchesSeverity(rule, incident) ==
  \/ rule.minSeverity = None
  \/ SeverityRank(incident.severity) >= SeverityRank(rule.minSeverity)

MatchRule(rule, incident) ==
  /\ rule.enabled
  /\ MatchesGroup(rule.alertGroup, incident.service)
  /\ MatchesSeverity(rule, incident)

(* The ids of the rules that match.                                        *)
FindMatchingRules(rules, incident) ==
  {r \in DOMAIN rules : MatchRule(rules[r], incident)}
=============================================================================
