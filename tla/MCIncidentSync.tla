--------------------------- MODULE MCIncidentSync ---------------------------
(***************************************************************************)
(* IncidentSync on a small instance: an incident that matches its rules as *)
(* long as these are enabled.                                              *)
(***************************************************************************)
EXTENDS IncidentSync

CONSTANT i1

Kubernetes == {[dash |-> TRUE, parts |-> <<"kubernetes">>]}

OneFact == [i \in {i1} |-> [service |-> <<"kubernetes", "pod">>, severity |-> "high"]]

RuleOf(enabled, group, severity) ==
  [enabled |-> enabled, alertGroup |-> group, minSeverity |-> severity]

(* A rule that matches, and one that does not.                             *)
TwoShapes == {RuleOf(TRUE, Kubernetes, "high"), RuleOf(FALSE, {}, None)}

AllFaults == {"db", "api", "crash", "redelivery"}
=============================================================================
