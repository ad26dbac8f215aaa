------------------------------ MODULE SlaWorker ------------------------------
(***************************************************************************)
(* The worker process of one tenant: the SLA poller and the event handler, *)
(* two goroutines that read rows of sla_states, compute, and write whole   *)
(* rows back with the same upsert, with nothing between them but the       *)
(* database.  Around them: the clock, the administrator who edits SLA      *)
(* policies through the API process, NightOwl, which is paged, and crashes *)
(* of the worker.                                                          *)
(*                                                                         *)
(* A read and the write that depends on it are two actions.  Reads that    *)
(* follow each other without a write in between are one action.  The       *)
(* events come in an order fixed by the stream (see EventStream); here any *)
(* event may come next.                                                    *)
(***************************************************************************)
EXTENDS SlaClock

CONSTANTS
  Tickets,          \* Zammad tickets
  PolicyIds,        \* ids of SLA policies
  ZammadStates,     \* ticket states Zammad sends in ticket.update
  Faults,           \* which of "db", "alert", "crash", "redelivery" happen
  MaxTime,          \* bound: the clock stops here
  MaxPages,         \* bound: pages per ticket
  Deleted           \* no such row in sla_policies

Absent == "absent"          \* no row in ticket_meta
Unassigned == "unassigned"  \* ticket_meta.sla_policy_id is NULL
NoTicket == "no ticket"
Unknown == "unknown"         \* the state of a ticket after a lost event

ASSUME BoundsAssumption == MaxTime \in Nat /\ MaxPages \in Nat
ASSUME StatesAssumption == "open" \in ZammadStates
ASSUME NamesAssumption ==
  /\ Deleted \notin Shapes
  /\ Absent \notin PolicyIds /\ Unassigned \notin PolicyIds
  /\ NoTicket \notin Tickets

VARIABLES
  now,        \* the clock
  policies,   \* table sla_policies: settings of each id, or Deleted
  meta,       \* table ticket_meta: sla_policy_id of each ticket, or Absent
  sla,        \* table sla_states: the row of each ticket, or NoRow
  hPc,        \* event handler: "idle", "assign" or "write"
  hTicket,    \* the ticket of the event in hand
  hPolicy,    \* "assign": id of the default policy found
  hShape,     \* "assign": its settings, as they were read
  hRow,       \* "write": the row it is about to write
  pPc,        \* poller: "idle", "breach", "alert", "mark", "warn"
  pNow,       \* the time the poll started
  pTodo,      \* the rows still to be processed, as they were read
  pTicket,    \* "alert", "mark": the ticket in hand
  pages,      \* history: pages NightOwl received for each ticket
  lostMarks,  \* history: how often the record of a page was lost
  lastState   \* history: the state in the last ticket.update handled, or
              \* Unknown if what came of that event was lost

tables == <<policies, meta, sla>>
handler == <<hPc, hTicket, hPolicy, hShape, hRow>>
poller == <<pPc, pNow, pTodo, pTicket>>
history == <<pages, lostMarks, lastState>>
vars == <<now, tables, handler, poller, history>>

TypeOK ==
  /\ now \in Nat
  /\ policies \in [PolicyIds -> Shapes \cup {Deleted}]
  /\ meta \in [Tickets -> PolicyIds \cup {Unassigned, Absent}]
  /\ sla \in [Tickets -> Row \cup {NoRow}]
  /\ hPc \in {"idle", "assign", "write"}
  /\ hTicket \in Tickets \cup {NoTicket}
  /\ hPolicy \in PolicyIds \cup {Unassigned}
  /\ hShape \in Shapes \cup {Deleted}
  /\ hRow \in Row \cup {NoRow}
  /\ pPc \in {"idle", "breach", "alert", "mark", "warn"}
  /\ pNow \in Nat
  /\ pTodo \in [Tickets -> Row \cup {NoRow}]
  /\ pTicket \in Tickets \cup {NoTicket}
  /\ pages \in [Tickets -> Nat]
  /\ lostMarks \in [Tickets -> Nat]
  /\ lastState \in [Tickets -> ZammadStates \cup {Unknown}]

Nothing == [t \in Tickets |-> NoRow]

Init ==
  /\ now = 0
  /\ policies \in [PolicyIds -> Shapes]
  /\ meta = [t \in Tickets |-> Absent]
  /\ sla = Nothing
  /\ hPc = "idle" /\ hTicket = NoTicket
  /\ hPolicy = Unassigned /\ hShape = Deleted /\ hRow = NoRow
  /\ pPc = "idle" /\ pNow = 0 /\ pTodo = Nothing /\ pTicket = NoTicket
  /\ pages = [t \in Tickets |-> 0]
  /\ lostMarks = [t \in Tickets |-> 0]
  /\ lastState = [t \in Tickets |-> "open"]

-----------------------------------------------------------------------------
(* The clock and the administrator.                                        *)

Tick ==
  /\ now < MaxTime
  /\ now' = now + 1
  /\ UNCHANGED <<tables, handler, poller, history>>

(* PUT /sla/policies/{id}: deadlines already set do not move.              *)
UpdatePolicy(p, shape) ==
  /\ policies[p] # Deleted
  /\ policies' = [policies EXCEPT ![p] = shape]
  /\ UNCHANGED <<now, meta, sla, handler, poller, history>>

(* DELETE /sla/policies/{id}; ticket_meta.sla_policy_id is declared        *)
(* ON DELETE SET NULL.                                                     *)
DeletePolicy(p) ==
  /\ policies[p] # Deleted
  /\ policies' = [policies EXCEPT ![p] = Deleted]
  /\ meta' = [t \in Tickets |-> IF meta[t] = p THEN Unassigned ELSE meta[t]]
  /\ UNCHANGED <<now, sla, handler, poller, history>>

-----------------------------------------------------------------------------
(* The event handler.                                                      *)

HandlerIdle ==
  hPc' = "idle" /\ hTicket' = NoTicket
    /\ hPolicy' = Unassigned /\ hShape' = Deleted /\ hRow' = NoRow

HandlerWrites(t, r) ==
  hPc' = "write" /\ hTicket' = t
    /\ hPolicy' = Unassigned /\ hShape' = Deleted /\ hRow' = r

(* The first upsert of ticket_meta passes no policy, and COALESCE keeps    *)
(* the one a known ticket has.                                             *)
EnsureMeta(t) ==
  meta' = [meta EXCEPT ![t] = IF @ = Absent THEN Unassigned ELSE @]

(* ticket.create, first half: the ticket becomes known and the default     *)
(* policy of its priority is looked up, which is one of those that exist.  *)
(* A ticket is created once; its event may come again.                     *)
TicketCreate(t, p) ==
  /\ hPc = "idle"
  /\ meta[t] = Absent \/ "redelivery" \in Faults
  /\ policies[p] # Deleted
  /\ EnsureMeta(t)
  /\ hPc' = "assign" /\ hTicket' = t
  /\ hPolicy' = p /\ hShape' = policies[p] /\ hRow' = NoRow
  /\ UNCHANGED <<now, policies, sla, poller, history>>

(* ticket.create of a priority without a default policy, or whose lookup   *)
(* fails: the ticket is known and not tracked, or tracked as it was.       *)
TicketCreateNoPolicy(t) ==
  /\ hPc = "idle"
  /\ meta[t] = Absent
  /\ EnsureMeta(t)
  /\ UNCHANGED <<now, policies, sla, handler, poller, history>>

(* ticket.create, second half: the policy is assigned to the ticket and    *)
(* the fresh row is computed from the settings read before.                *)
AssignPolicy ==
  /\ hPc = "assign"
  /\ policies[hPolicy] # Deleted
  /\ meta' = [meta EXCEPT ![hTicket] = hPolicy]
  /\ HandlerWrites(hTicket, FreshRow(hShape, now))
  /\ UNCHANGED <<now, policies, sla, poller, history>>

(* The assignment fails: the foreign key rejects a policy deleted since    *)
(* the lookup, or the database is unavailable.  The event is dropped.      *)
AssignFails ==
  /\ hPc = "assign"
  /\ policies[hPolicy] = Deleted \/ "db" \in Faults
  /\ HandlerIdle
  /\ UNCHANGED <<now, tables, poller, history>>

(* ticket.update of a ticket with an SLA row: the row and the clock are    *)
(* read and the new row is computed, if the event changes it at all.  For  *)
(* any other ticket the handler returns and changes nothing.               *)
TicketUpdate(t, state) ==
  /\ hPc = "idle"
  /\ sla[t] # NoRow
  /\ lastState' = [lastState EXCEPT ![t] = state]
  /\ \/ /\ EntersPause(sla[t], state)
        /\ HandlerWrites(t, PausedRow(sla[t], now))
     \/ /\ LeavesPause(sla[t], state)
        /\ HandlerWrites(t, ResumedRow(sla[t], now))
     \/ /\ ~EntersPause(sla[t], state) /\ ~LeavesPause(sla[t], state)
        /\ UNCHANGED handler
  /\ UNCHANGED <<now, tables, poller, pages, lostMarks>>

(* UpsertState of the handler: every column of the row is replaced, with   *)
(* no check that the row is still the one that was read.                   *)
HandlerUpsert ==
  /\ hPc = "write"
  /\ sla' = [sla EXCEPT ![hTicket] = hRow]
  /\ lostMarks' =
       IF sla[hTicket] # NoRow /\ sla[hTicket].alerted /\ ~hRow.alerted
       THEN [lostMarks EXCEPT ![hTicket] = @ + 1]
       ELSE lostMarks
  /\ HandlerIdle
  /\ UNCHANGED <<now, policies, meta, poller, pages, lastState>>

(* The upsert fails: the error is logged and the event is dropped.         *)
HandlerUpsertFails ==
  /\ hPc = "write"
  /\ "db" \in Faults
  /\ HandlerIdle
  /\ lastState' = [lastState EXCEPT ![hTicket] = Unknown]
  /\ UNCHANGED <<now, tables, poller, pages, lostMarks>>

-----------------------------------------------------------------------------
(* The poller.                                                             *)

PollerIdle == pPc' = "idle" /\ pNow' = 0 /\ pTodo' = Nothing /\ pTicket' = NoTicket

(* What is left to do once the row of ticket t has been dealt with.        *)
DoneWith(t) ==
  /\ pTodo' = [pTodo EXCEPT ![t] = NoRow]
  /\ pTicket' = NoTicket
  /\ pNow' = pNow

(* A tick of the ticker: the time is taken once for the whole poll, and    *)
(* the breached rows are read.  If the query fails the poll is over.       *)
PollStart ==
  /\ pPc = "idle"
  /\ pPc' = "breach"
  /\ pNow' = now
  /\ pTodo' = [t \in Tickets |->
                 IF sla[t] # NoRow /\ Breached(sla[t], now) THEN sla[t] ELSE NoRow]
  /\ UNCHANGED <<now, tables, handler, pTicket, history>>

HasPolicy(t) == meta[t] \in PolicyIds

(* UpsertState of the poller, which does not check the row either.         *)
PollerUpsert(t, r) == sla' = [sla EXCEPT ![t] = r]

(* processBreachedState: the ticket and its policy are found.              *)
BreachLookup(t) ==
  /\ pPc = "breach"
  /\ pTodo[t] # NoRow
  /\ HasPolicy(t)
  /\ pPc' = "alert" /\ pTicket' = t
  /\ UNCHANGED <<now, tables, handler, pNow, pTodo, history>>

(* The ticket has no policy any more, or a lookup fails: no alert.         *)
BreachSkip(t) ==
  /\ pPc = "breach"
  /\ pTodo[t] # NoRow
  /\ ~HasPolicy(t) \/ "db" \in Faults
  /\ DoneWith(t)
  /\ UNCHANGED <<now, tables, handler, pPc, history>>

(* NightOwl receives the alert and the answer comes back.                  *)
AlertOk ==
  /\ pPc = "alert"
  /\ pages[pTicket] < MaxPages
  /\ pages' = [pages EXCEPT ![pTicket] = @ + 1]
  /\ pPc' = "mark"
  /\ UNCHANGED <<now, tables, handler, pNow, pTodo, pTicket, lostMarks, lastState>>

(* The call fails and NightOwl has not received the alert.                 *)
AlertFails ==
  /\ pPc = "alert"
  /\ "alert" \in Faults
  /\ pPc' = "breach"
  /\ DoneWith(pTicket)
  /\ UNCHANGED <<now, tables, handler, history>>

(* The call fails although NightOwl received the alert: a lost answer.     *)
AlertAnswerLost ==
  /\ pPc = "alert"
  /\ "alert" \in Faults
  /\ pages[pTicket] < MaxPages
  /\ pages' = [pages EXCEPT ![pTicket] = @ + 1]
  /\ lostMarks' = [lostMarks EXCEPT ![pTicket] = @ + 1]
  /\ pPc' = "breach"
  /\ DoneWith(pTicket)
  /\ UNCHANGED <<now, tables, handler, lastState>>

(* The row that was read when the poll started is written back as breached *)
(* and alerted.                                                            *)
MarkAlerted ==
  /\ pPc = "mark"
  /\ PollerUpsert(pTicket, BreachedRow(pTodo[pTicket]))
  /\ pPc' = "breach"
  /\ DoneWith(pTicket)
  /\ UNCHANGED <<now, policies, meta, handler, history>>

(* That upsert fails, and the failure is only logged.                      *)
MarkFails ==
  /\ pPc = "mark"
  /\ "db" \in Faults
  /\ lostMarks' = [lostMarks EXCEPT ![pTicket] = @ + 1]
  /\ pPc' = "breach"
  /\ DoneWith(pTicket)
  /\ UNCHANGED <<now, tables, handler, pages, lastState>>

(* checkWarnings: the active rows are read together with the settings of   *)
(* their tickets' policies.  Only those inside the warning window, by the  *)
(* time the poll started, are kept: the others are passed over.            *)
ListActive ==
  /\ pPc = "breach"
  /\ pTodo = Nothing
  /\ pPc' = "warn"
  /\ pTodo' = [t \in Tickets |->
                 IF /\ sla[t] # NoRow /\ Active(sla[t])
                    /\ meta[t] \in PolicyIds
                    /\ ShouldWarn(sla[t], policies[meta[t]], pNow)
                 THEN sla[t]
                 ELSE NoRow]
  /\ UNCHANGED <<now, tables, handler, pNow, pTicket, history>>

(* That query fails.                                                       *)
ListActiveFails ==
  /\ pPc = "breach"
  /\ pTodo = Nothing
  /\ "db" \in Faults
  /\ PollerIdle
  /\ UNCHANGED <<now, tables, handler, history>>

(* The row as it was read is written back as warning.                      *)
WarnUpsert(t) ==
  /\ pPc = "warn"
  /\ pTodo[t] # NoRow
  /\ PollerUpsert(t, WarningRow(pTodo[t]))
  /\ DoneWith(t)
  /\ UNCHANGED <<now, policies, meta, handler, pPc, history>>

WarnFails(t) ==
  /\ pPc = "warn"
  /\ pTodo[t] # NoRow
  /\ "db" \in Faults
  /\ DoneWith(t)
  /\ UNCHANGED <<now, tables, handler, pPc, history>>

PollEnd ==
  /\ pPc = "warn"
  /\ pTodo = Nothing
  /\ PollerIdle
  /\ UNCHANGED <<now, tables, handler, history>>

-----------------------------------------------------------------------------
(* The worker process dies and is started again: both goroutines lose what *)
(* they had in hand.                                                       *)
Crash ==
  /\ "crash" \in Faults
  /\ HandlerIdle
  /\ PollerIdle
  /\ lostMarks' = IF pPc = "mark"
                  THEN [lostMarks EXCEPT ![pTicket] = @ + 1]
                  ELSE lostMarks
  /\ lastState' = IF hPc = "write"
                  THEN [lastState EXCEPT ![hTicket] = Unknown]
                  ELSE lastState
  /\ UNCHANGED <<now, tables, pages>>

AdminStep == \E p \in PolicyIds :
               DeletePolicy(p) \/ \E shape \in Shapes : UpdatePolicy(p, shape)

HandlerStep ==
  \/ \E t \in Tickets :
       \/ \E p \in PolicyIds : TicketCreate(t, p)
       \/ TicketCreateNoPolicy(t)
       \/ \E state \in ZammadStates : TicketUpdate(t, state)
  \/ AssignPolicy \/ AssignFails
  \/ HandlerUpsert \/ HandlerUpsertFails

PollerStep ==
  \/ PollStart
  \/ \E t \in Tickets : BreachLookup(t) \/ BreachSkip(t)
  \/ AlertOk \/ AlertFails \/ AlertAnswerLost
  \/ MarkAlerted \/ MarkFails
  \/ ListActive \/ ListActiveFails
  \/ \E t \in Tickets : WarnUpsert(t) \/ WarnFails(t)
  \/ PollEnd

Next == Tick \/ AdminStep \/ HandlerStep \/ PollerStep \/ Crash

Spec == Init /\ [][Next]_vars

(* The ticker keeps firing and the poller's loop goes on; queries and      *)
(* alerts that fail do not fail for ever.                                  *)
Fairness ==
  /\ WF_vars(PollerStep)
  /\ SF_vars(PollStart)
  /\ \A t \in Tickets : SF_vars(BreachLookup(t))
  /\ SF_vars(AlertOk)

FairSpec == Spec /\ Fairness

-----------------------------------------------------------------------------
(* Properties.                                                             *)

(* Every row of sla_states is coherent: "breached" exactly when the breach *)
(* was alerted, paused exactly when the start of the pause is known.  Two  *)
(* goroutines write the columns of one row from copies of different age;   *)
(* the row stays coherent because every write replaces all of it.          *)
RowsCoherent == \A t \in Tickets : sla[t] # NoRow => Coherent(sla[t])

(* The deadlines of every row are those of one policy, counted from one    *)
(* start, moved by exactly the pause time in accumulated_pause_secs, which *)
(* never exceeds the time that has passed: no resume is credited to one    *)
(* column and not to another, and none is credited twice, whatever the     *)
(* poller and the handler overwrite.                                       *)
DueDatesAccount == \A t \in Tickets : sla[t] # NoRow => Accounted(sla[t], now)

(* A page owes its record: t is marked as alerted, or about to be.         *)
Recorded(t) ==
  \/ sla[t] # NoRow /\ sla[t].alerted
  \/ pPc = "mark" /\ pTicket = t

(* What a copy taken earlier may still rely on when it is written back.    *)
(* The poller holds only running, unalerted rows, of tickets that nobody   *)
(* else has marked as alerted since.  The handler holds an alerted row     *)
(* only if the ticket is still marked, and a paused one only if the clock  *)
(* is still running.                                                       *)
CopiesFit ==
  /\ \A t \in Tickets : pTodo[t] # NoRow =>
       /\ sla[t] # NoRow /\ ~sla[t].alerted
       /\ ~pTodo[t].alerted /\ ~pTodo[t].paused
  /\ hPc = "write" =>
       /\ hRow.alerted => sla[hTicket] # NoRow /\ sla[hTicket].alerted
       /\ hRow.paused => sla[hTicket] # NoRow /\ ~sla[hTicket].paused

(* Every page NightOwl received for a ticket has a record in               *)
(* first_breach_alerted_at, or one that was lost, and no record exists     *)
(* without its page.  So a ticket is paged again only after the record of  *)
(* the page before was lost (a failed upsert, a crash, a lost answer, an   *)
(* event that wrote over it), and no breach is ever suppressed unpaged.    *)
PagesAccounted ==
  \A t \in Tickets : pages[t] = lostMarks[t] + (IF Recorded(t) THEN 1 ELSE 0)

(* While a ticket stays paused no step moves its deadlines, its pause      *)
(* start or its label: the poller's late writes cannot touch a stopped     *)
(* clock without starting it.                                              *)
PauseFreezes ==
  [][\A t \in Tickets :
       sla[t] # NoRow /\ sla[t].paused /\ sla'[t].paused => sla'[t] = sla[t]]_vars

(* A clock that stands still was stopped by the last event handled for its *)
(* ticket, unless what that event was to write was lost: no stale write of *)
(* the poller leaves a ticket paused that Zammad has reopened.             *)
PausedByLastEvent ==
  \A t \in Tickets :
    sla[t] # NoRow /\ sla[t].paused /\ ~(hPc = "write" /\ hTicket = t)
      => lastState[t] \in PauseStates \cup {Unknown}

(* The breach of a running clock reaches NightOwl, unless the ticket is    *)
(* paused, restarted or loses its policy first.                            *)
Overdue(t) ==
  /\ meta[t] \in PolicyIds
  /\ sla[t] # NoRow /\ ~sla[t].alerted /\ ~sla[t].paused
  /\ sla[t].responseDue < now \/ sla[t].resolutionDue < now

BreachIsPaged == \A t \in Tickets : Overdue(t) ~> (pages[t] > 0 \/ ~Overdue(t))

(* The poller's comparisons on a running row agree with ComputeState for   *)
(* the policy and the start the row accounts for, whatever pauses have     *)
(* moved its deadlines: what the poller lists as breached ComputeState     *)
(* calls breached, and the other way round one tick later, since a         *)
(* deadline that is reached is not passed yet; and of the others the same  *)
(* ones are near their deadlines.                                          *)
AgreesWith(r, label, shape) ==
  /\ Breached(r, now) => label = "breached"
  /\ label = "breached" /\ ~r.alerted => Breached(r, now + 1)
  /\ label # "breached" => (label = "warning" <=> ShouldWarn(r, shape, now))

ClockAgrees ==
  \A t \in Tickets : sla[t] # NoRow /\ ~sla[t].paused =>
    \A shape \in Shapes, start \in 0 .. now :
      Accounts(sla[t], shape, start, now) =>
        AgreesWith(sla[t],
          ComputeState(shape, start, NoTime, sla[t].accumulated, FALSE, now).label,
          shape)

-----------------------------------------------------------------------------
(* What the documentation says of the worker.                              *)

(* docs/08-sla.md: "NightOwl alert fired once".                            *)
AlertedOnce == \A t \in Tickets : pages[t] <= 1
=============================================================================
