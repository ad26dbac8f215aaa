--------------------------- MODULE EventDelivery ---------------------------
(***************************************************************************)
(* What the path from the webhooks to the event handler promises: every    *)
(* accepted event is handed to the handler at most once, in the order of   *)
(* acceptance, and never after it was passed over.  Events may be passed   *)
(* over; EventStream says when.                                            *)
(***************************************************************************)
EXTENDS Integers, Sequences

VARIABLES
  sent,       \* number of events accepted so far: events 1 .. sent
  delivered,  \* the events handed to the handler, in that order
  lost        \* the events that were passed over

vars == <<sent, delivered, lost>>

Delivered(i) == \E k \in DOMAIN delivered : delivered[k] = i

Init == sent = 0 /\ delivered = <<>> /\ lost = {}

(* An event is accepted.  It is passed over at once if nobody reads.       *)
Accept ==
  /\ sent' = sent + 1
  /\ lost' \in {lost, lost \cup {sent + 1}}
  /\ UNCHANGED delivered

(* The first event that was neither delivered nor passed over comes next.  *)
Deliver(i) ==
  /\ i \in 1 .. sent
  /\ ~Delivered(i) /\ i \notin lost
  /\ \A j \in 1 .. sent : j < i => Delivered(j) \/ j \in lost
  /\ delivered' = Append(delivered, i)
  /\ UNCHANGED <<sent, lost>>

Lose ==
  /\ lost' = {i \in 1 .. sent : ~Delivered(i)}
  /\ UNCHANGED <<sent, delivered>>

Next == Accept \/ (\E i \in 1 .. sent : Deliver(i)) \/ Lose

Spec == Init /\ [][Next]_vars
=============================================================================
