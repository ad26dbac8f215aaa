------------------------------- MODULE SlaRow -------------------------------
(***************************************************************************)
(* One row of the tenant table sla_states, the SLA clock of one ticket,    *)
(* and what the worker's two goroutines compute from it: the fresh row of  *)
(* ticket.create, the pause and the resume of ticket.update, the poller's  *)
(* breach and warning predicates, and the rows the poller writes back.     *)
(*                                                                         *)
(* Time is counted in ticks, TicksPerSecond of them to the second, because *)
(* the resume truncates the pause to whole seconds.  A pause is kept here  *)
(* in ticks, always a whole number of seconds.                             *)
(*                                                                         *)
(* Left out of the row: updated_at, which nothing reads; the value of      *)
(* first_breach_alerted_at, of which only NULL or not NULL is ever read;   *)
(* response_met_at, which no code sets, so that it is NULL in every row.   *)
(***************************************************************************)
EXTENDS Integers

CONSTANTS
  TicksPerSecond,   \* clock ticks in one second
  Shapes,           \* the settings an SLA policy may have, see Shape
  NoRow             \* "no row": a ticket without SLA tracking

NoTime == -1        \* NULL in a timestamp column

(* response and resolution are the policy's minutes; responseWarn and      *)
(* resolutionWarn are warning_threshold times those.                       *)
Shape == [response : Nat, resolution : Nat,
          responseWarn : Nat, resolutionWarn : Nat]

Labels == {"on_track", "warning", "breached"}

Row == [responseDue   : Nat,
        resolutionDue : Nat,
        label         : Labels,
        alerted       : BOOLEAN,              \* first_breach_alerted_at set
        paused        : BOOLEAN,
        pausedAt      : Nat \cup {NoTime},
        accumulated   : Nat]                  \* accumulated_pause_secs

ASSUME TicksAssumption == TicksPerSecond \in Nat \ {0}
ASSUME ShapesAssumption == Shapes \subseteq Shape
ASSUME NoRowAssumption == NoRow \notin Row

-----------------------------------------------------------------------------
(* The Zammad states the event handler treats as a pause.                  *)
PauseStates == {"pending reminder", "pending close"}

(* int(d.Seconds()): a duration with its fraction of a second cut off.     *)
WholeSeconds(d) == d - (d % TicksPerSecond)

(* The row written for a ticket.create at time t.                          *)
FreshRow(shape, t) ==
  [responseDue   |-> t + shape.response,
   resolutionDue |-> t + shape.resolution,
   label         |-> "on_track",
   alerted       |-> FALSE,
   paused        |-> FALSE,
   pausedAt      |-> NoTime,
   accumulated   |-> 0]

(* Variants of the definitions below: bugs the runs must find.             *)
ResumedRowSwapped(r, t) ==
  LET pause == WholeSeconds(r.pausedAt - t)
  IN  [r EXCEPT !.accumulated = @ + pause, !.responseDue = @ + pause,
                !.resolutionDue = @ + pause, !.paused = FALSE, !.pausedAt = NoTime]

ResumedRowOneDeadline(r, t) ==
  LET pause == WholeSeconds(t - r.pausedAt)
  IN  [r EXCEPT !.accumulated = @ + pause, !.responseDue = @ + pause,
                !.paused = FALSE, !.pausedAt = NoTime]

ResumedRowKeepsStart(r, t) == [r EXCEPT !.paused = FALSE]

EntersPauseAgain(r, state) == state \in PauseStates

BreachedEvenPaused(r, t) ==
  ~r.alerted /\ (r.responseDue < t \/ r.resolutionDue < t)

BreachedEvenAlerted(r, t) ==
  ~r.paused /\ (r.responseDue < t \/ r.resolutionDue < t)

BreachedBothDeadlines(r, t) ==
  ~r.alerted /\ ~r.paused /\ r.responseDue < t /\ r.resolutionDue < t

ActiveEvenPaused(r) == r.label = "on_track" /\ ~r.alerted

-----------------------------------------------------------------------------
PausedRow(r, t) == [r EXCEPT !.paused = TRUE, !.pausedAt = t]

(* The time spent in the pause moves both due dates, and is accumulated.   *)
ResumedRow(r, t) ==
  LET pause == IF r.pausedAt # NoTime THEN WholeSeconds(t - r.pausedAt) ELSE 0
  IN  [r EXCEPT !.accumulated   = @ + pause,
                !.responseDue   = @ + pause,
                !.resolutionDue = @ + pause,
                !.paused        = FALSE,
                !.pausedAt      = NoTime]

(* ticket.update changes the row only when it enters or leaves a pause.    *)
EntersPause(r, state) == state \in PauseStates /\ ~r.paused
LeavesPause(r, state) == state \notin PauseStates /\ r.paused

-----------------------------------------------------------------------------
(* ListBreachedTickets: overdue, running, and not alerted yet.             *)
Breached(r, t) ==
  /\ ~r.alerted
  /\ ~r.paused
  /\ r.responseDue < t \/ r.resolutionDue < t

(* ListActiveStates: the rows checkWarnings looks at.                      *)
Active(r) == r.label = "on_track" /\ ~r.paused /\ ~r.alerted

(* checkWarnings: inside the warning window of either deadline.            *)
ShouldWarn(r, shape, t) ==
  \/ shape.response > 0 /\ r.responseDue - shape.responseWarn < t
  \/ shape.resolution > 0 /\ r.resolutionDue - shape.resolutionWarn < t

BreachedRow(r) == [r EXCEPT !.label = "breached", !.alerted = TRUE]

WarningRow(r) == [r EXCEPT !.label = "warning"]

-----------------------------------------------------------------------------
(* The label says "breached" exactly when the breach was alerted, and the  *)
(* row knows since when it is paused exactly when it is paused.            *)
Coherent(r) ==
  /\ (r.label = "breached") <=> r.alerted
  /\ r.paused <=> (r.pausedAt # NoTime)

(* The running time the row charges started at "start" and has not run     *)
(* backwards by "t": both deadlines are the policy's, moved by exactly the *)
(* pause that was accumulated, and that pause fits into the time that has  *)
(* passed.                                                                 *)
Accounts(r, shape, start, t) ==
  /\ r.responseDue   = start + shape.response + r.accumulated
  /\ r.resolutionDue = start + shape.resolution + r.accumulated
  /\ start + r.accumulated <= IF r.paused THEN r.pausedAt ELSE t
  /\ r.pausedAt <= t

Accounted(r, t) ==
  \E shape \in Shapes, start \in 0 .. t : Accounts(r, shape, start, t)
=============================================================================
