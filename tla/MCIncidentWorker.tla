-------------------------- MODULE MCIncidentWorker --------------------------
(***************************************************************************)
(* IncidentWorker on a small instance: one incident and one rule, which    *)
(* matches it.                                                             *)
(***************************************************************************)
EXTENDS IncidentWorker

CONSTANT i1

OneFact == [i \in {i1} |-> [service |-> <<"api">>, severity |-> "high"]]

OneShape == {[enabled |-> TRUE, alertGroup |-> {}, minSeverity |-> "high"]}
=============================================================================
