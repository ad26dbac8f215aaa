------------------------------ MODULE AutoAssign ------------------------------
(***************************************************************************)
(* autoAssignTicket: the last part of the event handlers that create or    *)
(* record a ticket.  It maps the group of the ticket to a roster, asks     *)
(* NightOwl who is on call and makes that person the owner in Zammad, each *)
(* by a call of its own, while administrators change the mapping, shifts   *)
(* end and agents take or delete the ticket.                               *)
(***************************************************************************)
EXTENDS Integers

CONSTANTS
  Emails,     \* addresses of callers and agents
  Groups,     \* Zammad groups
  Rosters,    \* NightOwl rosters
  Nobody,     \* no address: nobody is on call, a ticket has no owner
  NoGroup,    \* no group is named
  MaxTickets, \* bound: tickets in Zammad
  GroupOf     \* the group Zammad names for each ticket

Tickets == 1 .. MaxTickets
NoTicket == 0

ASSUME AssignAssumption ==
  /\ MaxTickets \in Nat
  /\ Nobody \notin Emails /\ NoGroup \notin Groups
  /\ GroupOf \in [Tickets -> Groups \cup {NoGroup}]

VARIABLES
  mappings, \* table group_roster_mappings
  duty,     \* NightOwl: who is on call in each roster
  owner,    \* Zammad: owner of each ticket
  deleted,  \* Zammad: tickets an agent has deleted
  indexed,  \* Zammad: addresses its search finds
  job       \* the event handler: the step it is at and what it has read

rosters == <<mappings, duty>>

Mapping == [group : Groups, roster : Rosters, auto : BOOLEAN]

(* named, seen and covered are history, since the handler turned to the    *)
(* ticket: the rosters its group was mapped to, who was on call in one of  *)
(* these, and whether there has been somebody to give it to all the time.  *)
NoJob == [step |-> "idle", ticket |-> NoTicket, group |-> NoGroup, policy |-> 0,
          roster |-> Nobody, email |-> Nobody, named |-> {}, seen |-> {},
          covered |-> FALSE]

Steps == {"idle", "policy", "assign", "state", "record",
          "mapping", "oncall", "search", "owner"}

AssignTypeOK ==
  /\ mappings \subseteq Mapping
  /\ \A m, n \in mappings : m.group = n.group => m = n
  /\ duty \in [Rosters -> Emails \cup {Nobody}]
  /\ owner \in [Tickets -> Emails \cup {Nobody}]
  /\ deleted \subseteq Tickets
  /\ job \in [step : Steps, ticket : Tickets \cup {NoTicket},
              group : Groups \cup {NoGroup}, policy : Nat,
              roster : Rosters \cup {Nobody}, email : Emails \cup {Nobody},
              named : SUBSET Rosters, seen : SUBSET Emails, covered : BOOLEAN]
  /\ job.step = "idle" => job = NoJob
  /\ job.step \in {"search", "owner"} => job.email \in Emails

(* GetGroupRosterMappingByZammadGroup, and the flag of what it finds.      *)
Enabled(rows, group) == {m \in rows : m.group = group /\ m.auto}

RostersFor(rows, group) == {m.roster : m \in Enabled(rows, group)}

OnCall(shifts, rs) == {shifts[r] : r \in rs} \ {Nobody}

(* The group is mapped, and in every roster that may have been read        *)
(* somebody is on call whom Zammad's search finds.                         *)
Covered(rows, shifts, people, group, rs) ==
  RostersFor(rows, group) # {} /\ \A r \in rs : shifts[r] \in people

At(step) == job.step = step

Proceed(step) == job' = [job EXCEPT !.step = step]

Finish == job' = NoJob

(* History: something has changed while the handler is at work.            *)
Observe ==
  job' = IF At("idle") THEN job
         ELSE LET named == job.named \cup RostersFor(mappings', job.group)
              IN [job EXCEPT
                    !.named = named,
                    !.seen = @ \cup OnCall(duty', named),
                    !.covered = @ /\ Covered(mappings', duty', indexed, job.group, named)]

-----------------------------------------------------------------------------
(* Variants of the steps below: bugs the runs must find.                   *)
ReadMappingAlways ==
  /\ At("mapping")
  /\ LET found == {m \in mappings : m.group = job.group} IN
     \/ found = {} /\ Finish
     \/ \E m \in found :
          job' = [job EXCEPT !.step = "oncall", !.roster = m.roster]
  /\ UNCHANGED <<rosters, owner, deleted, indexed>>

SetOwnerIfFree ==
  /\ At("owner")
  /\ owner' = IF job.ticket \in deleted \/ owner[job.ticket] # Nobody THEN owner
              ELSE [owner EXCEPT ![job.ticket] = job.email]
  /\ Finish
  /\ UNCHANGED <<rosters, deleted, indexed>>

-----------------------------------------------------------------------------
(* The steps of autoAssignTicket.  One that finds nothing ends it.         *)

ReadMapping ==
  /\ At("mapping")
  /\ LET found == Enabled(mappings, job.group) IN
     \/ found = {} /\ Finish
     \/ \E m \in found :
          job' = [job EXCEPT !.step = "oncall", !.roster = m.roster]
  /\ UNCHANGED <<rosters, owner, deleted, indexed>>

(* NightOwl answers 404 for a roster with nobody on call.                  *)
AskOnCall ==
  /\ At("oncall")
  /\ IF duty[job.roster] = Nobody THEN Finish
     ELSE job' = [job EXCEPT !.step = "search", !.email = duty[job.roster]]
  /\ UNCHANGED <<rosters, owner, deleted, indexed>>

SearchOwner ==
  /\ At("search")
  /\ IF job.email \in indexed THEN Proceed("owner") ELSE Finish
  /\ UNCHANGED <<rosters, owner, deleted, indexed>>

(* The owner a ticket has is replaced.                                     *)
SetOwner ==
  /\ At("owner")
  /\ owner' = IF job.ticket \in deleted THEN owner
              ELSE [owner EXCEPT ![job.ticket] = job.email]
  /\ Finish
  /\ UNCHANGED <<rosters, deleted, indexed>>

Assign == ReadMapping \/ AskOnCall \/ SearchOwner \/ SetOwner

-----------------------------------------------------------------------------
(* Administrators, NightOwl and agents.                                    *)

CreateMapping(m) ==
  /\ \A n \in mappings : n.group # m.group
  /\ mappings' = mappings \cup {m}
  /\ UNCHANGED <<duty, owner, deleted>>
  /\ Observe

(* A roster or a flag; the group of a mapping cannot be changed.           *)
UpdateMapping(m) ==
  \E n \in mappings :
    /\ n.group = m.group /\ n # m
    /\ mappings' = (mappings \ {n}) \cup {m}
    /\ UNCHANGED <<duty, owner, deleted>>
    /\ Observe

DeleteMapping(m) ==
  /\ mappings' = mappings \ {m}
  /\ UNCHANGED <<duty, owner, deleted>>
  /\ Observe

ShiftEnds(roster, email) ==
  /\ duty[roster] # email
  /\ duty' = [duty EXCEPT ![roster] = email]
  /\ UNCHANGED <<mappings, owner, deleted>>
  /\ Observe

(* PATCH and DELETE /tickets/{id}: only Zammad changes.                    *)
UpdateOwner(t, email) ==
  /\ t \notin deleted /\ owner[t] # email
  /\ owner' = [owner EXCEPT ![t] = email]
  /\ UNCHANGED <<rosters, deleted>>
  /\ Observe

DeleteTicket(t) ==
  /\ t \notin deleted
  /\ deleted' = deleted \cup {t}
  /\ UNCHANGED <<rosters, owner>>
  /\ Observe
===============================================================================
