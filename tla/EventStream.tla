---------------------------- MODULE EventStream ----------------------------
(***************************************************************************)
(* The Redis stream of one tenant, between the webhook receivers, which    *)
(* append to it, and the event processor of the worker, which reads it     *)
(* with XREAD from an id it keeps in memory only.                          *)
(*                                                                         *)
(* Messages are their positions in the stream, 1 .. sent: what they say    *)
(* does not matter here, nor whether two of them are the same event, sent  *)
(* again by Zammad or NightOwl after an answer that was lost or a 500.     *)
(* The stream is never trimmed.  A message is delivered when it is handed  *)
(* to processMessage, whose failure is logged and changes nothing here.    *)
(***************************************************************************)
EXTENDS Integers, Sequences

CONSTANTS
  BatchSize,    \* COUNT of XREAD
  Faults,       \* which of "redis", "crash" happen
  MaxSent       \* bound: messages in the stream

ASSUME BatchAssumption == BatchSize \in Nat \ {0}
ASSUME MaxSentAssumption == MaxSent \in Nat

Dollar == -1    \* the id "$": what is in the stream when the command runs

VARIABLES
  sent,       \* the stream: messages 1 .. sent
  pc,         \* event processor: "down", "read", "blocked", "dispatch"
  lastID,     \* the id the next XREAD starts after
  from,       \* "blocked": the id the running XREAD waits after;
              \* "dispatch": the last message of the batch taken
  upto,       \* "dispatch": the last message of the batch
  delivered   \* history: the messages handed to processMessage

vars == <<sent, pc, lastID, from, upto, delivered>>

TypeOK ==
  /\ sent \in Nat
  /\ pc \in {"down", "read", "blocked", "dispatch"}
  /\ lastID \in Nat \cup {Dollar}
  /\ from \in Nat
  /\ upto \in Nat
  /\ delivered \in Seq(Nat)

Init ==
  /\ sent = 0
  /\ pc = "down"
  /\ lastID = Dollar /\ from = 0 /\ upto = 0
  /\ delivered = <<>>

-----------------------------------------------------------------------------
(* A webhook is accepted: XADD appends the message.  One that is refused,  *)
(* or whose XADD fails, leaves no trace.                                   *)
Push ==
  /\ sent < MaxSent
  /\ sent' = sent + 1
  /\ UNCHANGED <<pc, lastID, from, upto, delivered>>

(* The worker starts; nothing of an earlier run is remembered.             *)
Start ==
  /\ pc = "down"
  /\ pc' = "read"
  /\ lastID' = Dollar
  /\ UNCHANGED <<sent, from, upto, delivered>>

(* Variants of the actions below: bugs the runs must find.                 *)
XReadStartRaw ==
  /\ pc = "read"
  /\ pc' = "blocked"
  /\ from' = lastID
  /\ UNCHANGED <<sent, lastID, upto, delivered>>

XReadStartDollar ==
  /\ pc = "read"
  /\ pc' = "blocked"
  /\ from' = sent
  /\ UNCHANGED <<sent, lastID, upto, delivered>>

XReadReturnFull ==
  /\ pc = "blocked"
  /\ pc' = "dispatch"
  /\ from + BatchSize <= sent /\ upto' = from + BatchSize
  /\ UNCHANGED <<sent, lastID, from, delivered>>

DispatchFirstID ==
  /\ pc = "dispatch"
  /\ delivered' = Append(delivered, from + 1)
  /\ lastID' = IF lastID = Dollar THEN from + 1 ELSE lastID
  /\ from' = from + 1
  /\ pc' = IF from + 1 < upto THEN "dispatch" ELSE "read"
  /\ UNCHANGED <<sent, upto>>

(* XREAD begins.  "$" is resolved by Redis, anew for every XREAD.          *)
XReadStart ==
  /\ pc = "read"
  /\ pc' = "blocked"
  /\ from' = IF lastID = Dollar THEN sent ELSE lastID
  /\ UNCHANGED <<sent, lastID, upto, delivered>>

(* It returns messages: what was there, or what came first.                *)
XReadReturn ==
  /\ pc = "blocked"
  /\ pc' = "dispatch"
  /\ \E n \in 1 .. BatchSize : from + n <= sent /\ upto' = from + n
  /\ UNCHANGED <<sent, lastID, from, delivered>>

(* Nothing came within the block time: redis.Nil.                          *)
XReadTimeout ==
  /\ pc = "blocked"
  /\ from = sent
  /\ pc' = "read"
  /\ UNCHANGED <<sent, lastID, from, upto, delivered>>

(* XREAD fails, or its answer is lost: it is logged, and a second later    *)
(* the loop goes on.                                                       *)
XReadError ==
  /\ "redis" \in Faults
  /\ pc = "blocked"
  /\ pc' = "read"
  /\ UNCHANGED <<sent, lastID, from, upto, delivered>>

(* The next message of the batch: its id is kept, then it is processed.    *)
Dispatch ==
  /\ pc = "dispatch"
  /\ delivered' = Append(delivered, from + 1)
  /\ lastID' = from + 1
  /\ from' = from + 1
  /\ pc' = IF from + 1 < upto THEN "dispatch" ELSE "read"
  /\ UNCHANGED <<sent, upto>>

(* The worker is told to stop: the loop ends where it looks at its         *)
(* context.  A batch in hand is dispatched first, to handlers that fail.   *)
Stop ==
  /\ pc \in {"read", "blocked"}
  /\ pc' = "down"
  /\ UNCHANGED <<sent, lastID, from, upto, delivered>>

Crash ==
  /\ "crash" \in Faults
  /\ pc # "down"
  /\ pc' = "down"
  /\ UNCHANGED <<sent, lastID, from, upto, delivered>>

Next ==
  \/ Push \/ Start
  \/ XReadStart \/ XReadReturn \/ XReadTimeout \/ XReadError
  \/ Dispatch
  \/ Stop \/ Crash

Spec == Init /\ [][Next]_vars

-----------------------------------------------------------------------------
(* Properties.                                                             *)

Delivered(i) == \E k \in DOMAIN delivered : delivered[k] = i

(* Message i will come up if the processor keeps running.                  *)
Ahead(i) ==
  \/ pc \in {"blocked", "dispatch"} /\ i > from
  \/ pc = "read" /\ lastID # Dollar /\ i > lastID

Missed == {i \in 1 .. sent : ~Delivered(i) /\ ~Ahead(i)}

(* The path implements EventDelivery: restarts, errors and batches never   *)
(* deliver a message twice, out of order, or after it was passed over,     *)
(* although the processor remembers its place in memory only.              *)
Abstract == INSTANCE EventDelivery WITH lost <- Missed
DeliversInOrder == Abstract!Spec

(* From the first message it has received on, a processor passes over      *)
(* nothing, whatever fails, until it stops or crashes.                     *)
NoGapOnceReading ==
  [][pc # "down" /\ pc' # "down" /\ lastID # Dollar => Missed' = Missed]_vars

(* A message that is ahead of the processor is delivered, unless the       *)
(* processor stops or crashes, or an XREAD fails before its first message. *)
AheadIsDelivered ==
  \A i \in 1 .. MaxSent :
    i <= sent /\ Ahead(i) ~> Delivered(i) \/ pc = "down" \/ i \in Missed
=============================================================================
