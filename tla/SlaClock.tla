------------------------------ MODULE SlaClock ------------------------------
(***************************************************************************)
(* ComputeState, the SLA state as a pure function of the policy, the age   *)
(* of the ticket and its pause.  The tests and docs/08-sla.md describe the *)
(* clock by it; the poller decides by comparisons of its own on the row    *)
(* (SlaRow), and SlaWorker states how far the two agree.                   *)
(*                                                                         *)
(* Times and pauses are in the ticks of SlaRow.                            *)
(***************************************************************************)
EXTENDS SlaRow

(* A variant of Elapsed: a bug the runs must find.                         *)
ElapsedWithPause(created, accumulated, t) == t - created

(* Time since the ticket was created that counts: pauses do not.           *)
Elapsed(created, accumulated, t) ==
  LET elapsed == t - created - accumulated
  IN  IF elapsed < 0 THEN 0 ELSE elapsed

Remaining(minutes, elapsed) ==
  IF minutes < elapsed THEN 0 ELSE WholeSeconds(minutes - elapsed)

(* The label of a running ticket.                                          *)
Label(shape, elapsed, responded, onTime) ==
  IF responded /\ onTime /\ elapsed < shape.resolution THEN "met"
  ELSE IF \/ ~responded /\ shape.response <= elapsed
          \/ shape.resolution <= elapsed THEN "breached"
  ELSE IF \/ ~responded /\ shape.response - elapsed < shape.responseWarn
          \/ shape.resolution - elapsed < shape.resolutionWarn THEN "warning"
  ELSE "on_track"

(* A paused ticket is on track, whatever its clock shows; its remaining    *)
(* seconds are those of a running one.  respondedAt is response_met_at.    *)
ComputeState(shape, created, respondedAt, accumulated, paused, t) ==
  LET elapsed == Elapsed(created, accumulated, t)
      responded == respondedAt # NoTime
      onTime == respondedAt - created - accumulated <= shape.response
  IN  [responseDue   |-> created + shape.response,
       resolutionDue |-> created + shape.resolution,
       responseRemaining   |-> Remaining(shape.response, elapsed),
       resolutionRemaining |-> Remaining(shape.resolution, elapsed),
       paused |-> paused,
       label  |-> IF paused THEN "on_track"
                  ELSE Label(shape, elapsed, responded, onTime)]
=============================================================================
