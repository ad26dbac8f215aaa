---------------------------- MODULE TicketCreate ----------------------------
(***************************************************************************)
(* POST /tickets and the handlers of the events that follow.  A request    *)
(* finds or creates the caller's account in Zammad, creates the ticket     *)
(* there and records it in ticket_meta.  The event handler hears of the    *)
(* ticket from Zammad, or creates one itself for an incident; it records   *)
(* the ticket as well, assigns the default policy of its priority, starts  *)
(* its SLA row and assigns it to whoever is on call.  Requests interleave  *)
(* with each other, with the handler and with administrators; a tenant's   *)
(* events are handled one after the other.                                 *)
(*                                                                         *)
(* Zammad finds accounts through its search index, which may lag behind.   *)
(* Left out: what the ticket says, and the SLA row's content (SlaWorker).  *)
(***************************************************************************)
EXTENDS SlaPolicies, AutoAssign, Sequences

CONSTANTS
  Requests,   \* requests to create a ticket
  Faults,     \* which of "db", "api", "redelivery", "handler" happen
  PriorityOf, \* the priority of each ticket
  Seeded,     \* sequence: the priorities that have a policy at first
  MaxChanges  \* bound: changes by administrators, agents and NightOwl

ASSUME CreateAssumption ==
  /\ PriorityOf \in [Tickets -> Priorities]
  /\ Seeded \in Seq(Priorities) /\ Len(Seeded) <= MaxPolicies
  /\ \A i, j \in DOMAIN Seeded : Seeded[i] = Seeded[j] => i = j
  /\ MaxChanges \in Nat

Absent == -1

VARIABLES
  pc,       \* of each request: "search", "user", "again", "ticket", "meta", "done"
  email,    \* of the caller of each request, Nobody once it is not needed
  ticket,   \* the ticket created for a request
  response, \* "none", 201 as "created", 500 as "failed" or "panicked"
  users,    \* Zammad: addresses that have an account
  created,  \* Zammad: tickets, the deleted ones included
  events,   \* ticket.create events on their way to the handler
  meta,     \* table ticket_meta: Absent, NoPolicy or the id of a policy
  tracked,  \* table sla_states: tickets with a row
  lost,     \* history: tickets whose upsert or handling failed
  changes   \* history: changes so far

request == <<pc, email, ticket, response>>
accounts == <<users, indexed>>
zammad == <<created, events, owner, deleted>>
setup == <<policyTable, rosters, changes>>
tables == <<meta, tracked>>
vars == <<request, accounts, zammad, setup, tables, job, lost>>

TypeOK ==
  /\ PoliciesTypeOK /\ AssignTypeOK
  /\ pc \in [Requests -> {"search", "user", "again", "ticket", "meta", "done"}]
  /\ email \in [Requests -> Emails \cup {Nobody}]
  /\ \A r \in Requests : pc[r] \in {"search", "user", "again"} <=> email[r] # Nobody
  /\ ticket \in [Requests -> created \cup {NoTicket}]
  /\ response \in [Requests -> {"none", "created", "failed", "panicked"}]
  /\ \A r \in Requests : pc[r] = "done" <=> response[r] # "none"
  /\ users \subseteq Emails /\ indexed \subseteq users
  /\ created \subseteq Tickets
  /\ events \subseteq created /\ deleted \subseteq created
  /\ job.ticket \in created \cup {NoTicket} /\ job.policy \in PolicyIds \cup {0}
  /\ meta \in [Tickets -> {Absent, NoPolicy} \cup PolicyIds]
  /\ tracked \subseteq created /\ lost \subseteq created
  /\ changes \in 0 .. MaxChanges

(* A request that names its customer starts at "ticket".                   *)
Init ==
  /\ email \in [Requests -> Emails \cup {Nobody}]
  /\ pc = [r \in Requests |-> IF email[r] = Nobody THEN "ticket" ELSE "search"]
  /\ ticket = [r \in Requests |-> NoTicket]
  /\ response = [r \in Requests |-> "none"]
  /\ users \in SUBSET Emails /\ indexed = users
  /\ created = {} /\ events = {} /\ deleted = {}
  /\ owner = [t \in Tickets |-> Nobody]
  /\ policies = {[id |-> i, priority |-> Seeded[i], default |-> TRUE] :
                   i \in DOMAIN Seeded}
  /\ policyNo = Len(Seeded)
  /\ mappings \in {{}} \cup {{m} : m \in Mapping}
  /\ duty \in [Rosters -> Emails]
  /\ meta = [t \in Tickets |-> Absent] /\ tracked = {}
  /\ job = NoJob /\ lost = {} /\ changes = 0

NextTicket(t) == t \in Tickets \ created /\ \A u \in Tickets \ created : t <= u

GoTo(r, step) ==
  /\ pc' = [pc EXCEPT ![r] = step]
  /\ email' = [email EXCEPT ![r] = IF step \in {"user", "again"} THEN @ ELSE Nobody]
  /\ UNCHANGED response

Respond(r, answer) ==
  /\ pc' = [pc EXCEPT ![r] = "done"] /\ email' = [email EXCEPT ![r] = Nobody]
  /\ response' = [response EXCEPT ![r] = answer]

(* Upsert without a policy: COALESCE keeps the one a known ticket has.     *)
EnsureMeta(t) ==
  meta' = [meta EXCEPT ![t] = IF @ = Absent THEN NoPolicy ELSE @]

-----------------------------------------------------------------------------
(* Service.Create.                                                         *)

Search(r) ==
  /\ pc[r] = "search"
  /\ GoTo(r, IF email[r] \in indexed THEN "ticket" ELSE "user")
  /\ UNCHANGED <<ticket, accounts, zammad, setup, tables, job, lost>>

CreateUser(r) ==
  /\ pc[r] = "user"
  /\ email[r] \notin users
  /\ users' = users \cup {email[r]}
  /\ GoTo(r, "ticket")
  /\ UNCHANGED <<ticket, indexed, zammad, setup, tables, job, lost>>

(* Zammad refuses a second account; or the call fails, and Zammad may have *)
(* created the account all the same.                                       *)
CreateUserFails(r) ==
  /\ pc[r] = "user"
  /\ email[r] \in users \/ "api" \in Faults
  /\ GoTo(r, "again")
  /\ \/ UNCHANGED users
     \/ "api" \in Faults /\ users' = users \cup {email[r]}
  /\ UNCHANGED <<ticket, indexed, zammad, setup, tables, job, lost>>

(* The second search keeps its result in a variable of its own; the user   *)
(* the handler goes on with is nil, and reading its id panics.             *)
SearchAgain(r) ==
  /\ pc[r] = "again"
  /\ Respond(r, IF email[r] \in indexed THEN "panicked" ELSE "failed")
  /\ UNCHANGED <<ticket, accounts, zammad, setup, tables, job, lost>>

(* Zammad creates ticket t, and tells the webhook of it.                   *)
NewTicket(t) ==
  /\ NextTicket(t)
  /\ created' = created \cup {t} /\ events' = events \cup {t}
  /\ UNCHANGED <<owner, deleted>>

CreateTicket(r, t) ==
  /\ pc[r] = "ticket"
  /\ NewTicket(t)
  /\ ticket' = [ticket EXCEPT ![r] = t]
  /\ GoTo(r, "meta")
  /\ UNCHANGED <<accounts, setup, tables, job, lost>>

(* The ticket is created and the answer lost; the client tries again or    *)
(* gives up.                                                               *)
CreateTicketUnheard(r, t) ==
  /\ "api" \in Faults
  /\ pc[r] = "ticket"
  /\ NewTicket(t)
  /\ UNCHANGED <<request, accounts, setup, tables, job, lost>>

(* Variants of the actions below: bugs the runs must find.                 *)
RecordTicketAnew(r) ==
  /\ pc[r] = "meta"
  /\ meta' = [meta EXCEPT ![ticket[r]] = NoPolicy]
  /\ Respond(r, "created")
  /\ UNCHANGED <<ticket, accounts, zammad, setup, tracked, job, lost>>

RecordTicketNever(r) ==
  /\ pc[r] = "meta"
  /\ Respond(r, "created")
  /\ UNCHANGED <<ticket, accounts, zammad, setup, tables, job, lost>>

CallFails(r) ==
  /\ "api" \in Faults
  /\ pc[r] \in {"search", "again", "ticket"}
  /\ Respond(r, "failed")
  /\ UNCHANGED <<ticket, accounts, zammad, setup, tables, job, lost>>

RecordTicket(r) ==
  /\ pc[r] = "meta"
  /\ EnsureMeta(ticket[r])
  /\ Respond(r, "created")
  /\ UNCHANGED <<ticket, accounts, zammad, setup, tracked, job, lost>>

(* The upsert fails: logged, and the request succeeds.                     *)
RecordTicketFails(r) ==
  /\ "db" \in Faults
  /\ pc[r] = "meta"
  /\ Respond(r, "created")
  /\ lost' = lost \cup {ticket[r]}
  /\ UNCHANGED <<ticket, accounts, zammad, setup, tables, job>>

-----------------------------------------------------------------------------
(* Zammad and the event handler.                                           *)

Reindex ==
  /\ indexed # users
  /\ indexed' = users
  /\ UNCHANGED <<request, users, zammad, setup, tables, job, lost>>

Begin(step, t, group) ==
  /\ At("idle")
  /\ LET named == RostersFor(mappings, group) IN
     job' = [NoJob EXCEPT !.step = step, !.ticket = t, !.group = group,
                          !.named = named, !.seen = OnCall(duty, named),
                          !.covered = Covered(mappings, duty, indexed, group, named)]

(* handleTicketCreate: the first upsert.  An event that does not reach the *)
(* handler is one that is never taken.                                     *)
TakeCreate(t) ==
  /\ t \in events
  /\ Begin("policy", t, GroupOf[t])
  /\ events' = IF "redelivery" \in Faults THEN events ELSE events \ {t}
  /\ EnsureMeta(t)
  /\ UNCHANGED <<request, accounts, created, owner, deleted, setup, tracked, lost>>

(* Variants of the steps below: bugs the runs must find.                   *)
StartSlaForgotten ==
  /\ At("state")
  /\ IF job.group = NoGroup THEN Finish ELSE Proceed("mapping")
  /\ UNCHANGED <<request, accounts, zammad, setup, tables, lost>>

(* A priority without a default policy ends the handling: the ticket gets  *)
(* no SLA row, and nobody on call either.                                  *)
ReadPolicy ==
  /\ At("policy")
  /\ LET found == DefaultsFor(PriorityOf[job.ticket]) IN
     \/ found = {} /\ Finish
     \/ \E p \in found : job' = [job EXCEPT !.step = "assign", !.policy = p.id]
  /\ UNCHANGED <<request, accounts, zammad, setup, tables, lost>>

(* The second upsert; sla_policy_id refers to a policy that exists.        *)
AssignPolicy ==
  /\ At("assign")
  /\ IF \E p \in policies : p.id = job.policy
     THEN /\ meta' = [meta EXCEPT ![job.ticket] = job.policy]
          /\ Proceed("state")
     ELSE UNCHANGED meta /\ Finish
  /\ UNCHANGED <<request, accounts, zammad, setup, tracked, lost>>

StartSla ==
  /\ At("state")
  /\ tracked' = tracked \cup {job.ticket}
  /\ IF job.group = NoGroup THEN Finish ELSE Proceed("mapping")
  /\ UNCHANGED <<request, accounts, zammad, setup, meta, lost>>

(* handleIncidentCreated: the handler has Zammad create a ticket for an   *)
(* incident, records it, and assigns it, by the group of the rule if       *)
(* Zammad's answer names none; Zammad tells the webhook of this ticket too.*)
AutoTicket(t) ==
  /\ \/ GroupOf[t] # NoGroup /\ Begin("record", t, GroupOf[t])
     \/ /\ GroupOf[t] = NoGroup
        /\ \E g \in Groups \cup {NoGroup} : Begin("record", t, g)
  /\ NewTicket(t)
  /\ UNCHANGED <<request, accounts, setup, tables, lost>>

RecordAutoTicket ==
  /\ At("record")
  /\ EnsureMeta(job.ticket)
  /\ IF job.group = NoGroup THEN Finish ELSE Proceed("mapping")
  /\ UNCHANGED <<request, accounts, zammad, setup, tracked, lost>>

AssignOwner ==
  /\ Assign
  /\ UNCHANGED <<request, users, created, events, policyTable, changes, tables, lost>>

(* A statement or a call fails, or the worker is gone: nothing is tried    *)
(* again.                                                                  *)
HandlerFails ==
  /\ "handler" \in Faults
  /\ ~At("idle")
  /\ Finish
  /\ lost' = lost \cup {job.ticket}
  /\ UNCHANGED <<request, accounts, zammad, setup, tables>>

-----------------------------------------------------------------------------
(* Administrators, agents and NightOwl.  ticket_meta.sla_policy_id is      *)
(* declared ON DELETE SET NULL.                                            *)

ChangePolicies ==
  /\ \/ /\ \/ \E priority \in Priorities, default \in BOOLEAN :
                CreatePolicy(priority, default)
           \/ \E p \in policies : UpdatePolicy(p, ~p.default)
        /\ UNCHANGED meta
     \/ \E p \in policies :
           /\ DeletePolicy(p)
           /\ meta' = [t \in Tickets |->
                        IF meta[t] = p.id THEN NoPolicy ELSE meta[t]]
  /\ UNCHANGED <<rosters, owner, deleted>>
  /\ Observe

ChangeRosters ==
  /\ \/ \E m \in Mapping : CreateMapping(m) \/ UpdateMapping(m)
     \/ \E m \in mappings : DeleteMapping(m)
     \/ \E s \in Rosters, e \in Emails \cup {Nobody} : ShiftEnds(s, e)
     \/ \E t \in created :
          DeleteTicket(t) \/ \E e \in users \cup {Nobody} : UpdateOwner(t, e)
  /\ UNCHANGED <<policyTable, meta>>

Change ==
  /\ changes < MaxChanges
  /\ changes' = changes + 1
  /\ ChangePolicies \/ ChangeRosters
  /\ UNCHANGED <<request, accounts, created, events, tracked, lost>>

Step(r) ==
  \/ Search(r) \/ CreateUser(r) \/ CreateUserFails(r) \/ SearchAgain(r)
  \/ \E t \in Tickets : CreateTicket(r, t) \/ CreateTicketUnheard(r, t)
  \/ CallFails(r) \/ RecordTicket(r) \/ RecordTicketFails(r)

Handler ==
  \/ \E t \in Tickets : TakeCreate(t) \/ AutoTicket(t)
  \/ ReadPolicy \/ AssignPolicy \/ StartSla \/ RecordAutoTicket
  \/ AssignOwner \/ HandlerFails

Next == (\E r \in Requests : Step(r)) \/ Handler \/ Reindex \/ Change

Spec == Init /\ [][Next]_vars

-----------------------------------------------------------------------------
(* Properties.                                                             *)

(* A policy once assigned stays until it is deleted: the request that      *)
(* created the ticket and a repeated event may record it before or after,  *)
(* and do not take the policy away (ticket/store.go Upsert).               *)
PolicyKept ==
  [][\A t \in Tickets :
       meta[t] \in PolicyIds /\ meta'[t] \notin PolicyIds
         => \A p \in policies' : p.id # meta[t]]_vars

(* The policy of a ticket is one that exists and is for the ticket's       *)
(* priority, whatever has been created, changed and deleted between the    *)
(* lookup and the assignment (resolve.go handleTicketCreate).              *)
PolicyFits ==
  \A t \in Tickets : meta[t] \in PolicyIds =>
    \E p \in policies : p.id = meta[t] /\ p.priority = PriorityOf[t]

(* A ticket the caller was told of can be linked and tracked: it has a row *)
(* in ticket_meta, unless the insert failed and the handler has not, or    *)
(* not successfully, heard of the ticket either.                           *)
ToldIsKnown ==
  \A r \in Requests :
    response[r] = "created" /\ meta[ticket[r]] = Absent => ticket[r] \in lost

(* A ticket with a policy has an SLA row, which the poller needs to see    *)
(* it, unless the handler is between the two or was cut short there        *)
(* (resolve.go handleTicketCreate).                                        *)
AssignedIsTracked ==
  \A t \in Tickets : meta[t] \in PolicyIds =>
    t \in tracked \cup lost \/ (At("state") /\ job.ticket = t)

(* Whatever changes between its calls, the handler only gives a ticket to  *)
(* someone who was on call, at some time since it turned to this ticket,   *)
(* in a roster the ticket's group was mapped to in that time, with the     *)
(* flag set, and never changes another ticket (autoAssignTicket).          *)
OwnerWasOnCall ==
  [][\A t \in Tickets : changes' = changes /\ owner'[t] # owner[t] =>
       t = job.ticket /\ owner'[t] \in job.seen /\ owner'[t] \in users]_vars

(* A handling that meets no failure leaves its ticket complete, whatever   *)
(* changes meanwhile.  It goes without a policy only if the priority has   *)
(* no default when that is looked up, and the policy it finds is the       *)
(* ticket's at the end, and the ticket tracked, unless that policy has     *)
(* been deleted.  If it gets past the policy, and the group was mapped and *)
(* somebody Zammad's search finds on call in whatever roster it was mapped *)
(* to, at every moment, the ticket belongs to one of those people          *)
(* (resolve.go handleTicketCreate, autoAssignTicket).                      *)
HandlingIsComplete ==
  [][LET t == job.ticket IN
     ~At("idle") /\ At("idle")' /\ t \notin lost' =>
       /\ At("policy") => DefaultsFor(PriorityOf[t]) = {}
       /\ (\E p \in policies : p.id = job.policy) =>
            t \in tracked' /\ meta'[t] = job.policy
       /\ ~At("policy") /\ ~At("assign") /\ job.covered /\ t \notin deleted =>
            owner'[t] \in job.seen]_vars

(* ticket/service.go: "User may already exist but search missed them -     *)
(* retry search": the caller whom the second search finds gets a ticket.   *)
RetrySearchHelps == \A r \in Requests : response[r] # "panicked"
=============================================================================
