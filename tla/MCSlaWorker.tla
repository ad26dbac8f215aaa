---------------------------- MODULE MCSlaWorker ----------------------------
(***************************************************************************)
(* SlaWorker on small instances.  Two ticks make a second, so that a pause *)
(* of one tick is truncated to nothing and one of three ticks loses one.   *)
(***************************************************************************)
EXTENDS SlaWorker

PolicyOf(response, resolution, responseWarn, resolutionWarn) ==
  [response |-> response, resolution |-> resolution,
   responseWarn |-> responseWarn, resolutionWarn |-> resolutionWarn]

(* One policy whose warning window opens a tick before the deadline.       *)
Short == {PolicyOf(1, 2, 1, 1)}

(* A second one, for the administrator to change to.                       *)
ShortAndLong == Short \cup {PolicyOf(0, 3, 0, 2)}

States == {"open", "pending reminder"}

AllFaults == {"db", "alert", "crash", "redelivery"}
=============================================================================
