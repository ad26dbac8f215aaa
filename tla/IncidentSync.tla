---------------------------- MODULE IncidentSync ----------------------------
(***************************************************************************)
(* How NightOwl incidents open and close Zammad tickets.  The event        *)
(* handler creates a ticket for every rule an incident matches, makes it   *)
(* known and links it; when the incident is resolved it closes the linked  *)
(* tickets.  Around it: NightOwl, whose webhooks queue the events, agents  *)
(* who link, unlink, close and reopen tickets, the administrator of the    *)
(* rules, and the faults of the database, of Zammad's API and of the       *)
(* worker.                                                                 *)
(*                                                                         *)
(* Left out: the title and group of a ticket, and the assignment of its    *)
(* owner, whose failures the handler ignores.                              *)
(***************************************************************************)
EXTENDS AutoTicketRule

CONSTANTS
  Incidents,    \* NightOwl incidents
  Facts,        \* [Incidents -> their service and severity]
  RuleIds,      \* ids in auto_ticket_rules
  RuleShapes,   \* what a rule may say
  Faults,       \* which of "db", "api", "crash", "redelivery" happen
  MaxTickets,   \* bound: tickets in Zammad
  AgentTickets, \* bound: those of them that agents open
  MaxQueue      \* bound: events waiting

Tickets == 1 .. MaxTickets
Event == [kind : {"created", "resolved"}, incident : Incidents]
NoIncident == "no incident"
NoTicket == 0

ASSUME BoundsAssumption ==
  MaxTickets \in Nat /\ AgentTickets \in Nat /\ MaxQueue \in Nat
ASSUME NoIncidentAssumption == NoIncident \notin Incidents

VARIABLES
  rules,      \* table auto_ticket_rules
  status,     \* NightOwl: "none", "open" or "resolved"
  queue,      \* events between the webhook and the handler
  zammad,     \* Zammad: "none", "open", "closed" or "deleted"
  known,      \* table ticket_meta: the tickets with a row
  links,      \* table incident_links: pairs of ticket and incident
  pc,         \* handler: "idle", "rules", "meta", "link", "close"
  incident,   \* the incident of the event in hand
  todoRules,  \* "rules", "meta", "link": rules still to be applied
  todo,       \* "close": tickets still to be closed
  ticket,     \* "meta", "link": the ticket created
  origin,     \* history: incident and rule a ticket was created for
  heard,      \* history: incidents whose resolution the handler has read
  repeated,   \* history: incidents with an event that was sent again
  excused     \* history: pairs the handler need not have closed

tables == <<rules, known, links>>
handler == <<pc, incident, todoRules, todo, ticket>>
history == <<origin, heard, repeated, excused>>
vars == <<status, queue, zammad, tables, handler, history>>

TypeOK ==
  /\ rules \in [RuleIds -> RuleShapes]
  /\ status \in [Incidents -> {"none", "open", "resolved"}]
  /\ queue \in Seq(Event)
  /\ zammad \in [Tickets -> {"none", "open", "closed", "deleted"}]
  /\ known \subseteq Tickets
  /\ links \subseteq known \X Incidents
  /\ pc \in {"idle", "rules", "meta", "link", "close"}
  /\ incident \in Incidents \cup {NoIncident}
  /\ todoRules \subseteq RuleIds
  /\ todo \subseteq Tickets
  /\ ticket \in Tickets \cup {NoTicket}
  /\ origin \in [Tickets -> SUBSET (Incidents \X RuleIds)]
  /\ heard \subseteq Incidents
  /\ repeated \subseteq Incidents
  /\ excused \subseteq Tickets \X Incidents

Init ==
  /\ rules \in [RuleIds -> RuleShapes]
  /\ status = [i \in Incidents |-> "none"]
  /\ queue = <<>>
  /\ zammad = [t \in Tickets |-> "none"]
  /\ known = {} /\ links = {}
  /\ pc = "idle" /\ incident = NoIncident
  /\ todoRules = {} /\ todo = {} /\ ticket = NoTicket
  /\ origin = [t \in Tickets |-> {}]
  /\ heard = {} /\ repeated = {} /\ excused = {}

Unused == {t \in Tickets : zammad[t] = "none"}

(* Zammad numbers its tickets.                                             *)
NextTicket(t) == t \in Unused /\ \A u \in Unused : t <= u

-----------------------------------------------------------------------------
(* NightOwl.                                                               *)

IncidentCreated(i) ==
  /\ status[i] = "none"
  /\ status' = [status EXCEPT ![i] = "open"]
  /\ UNCHANGED repeated

IncidentResolved(i) ==
  /\ status[i] = "open"
  /\ status' = [status EXCEPT ![i] = "resolved"]
  /\ UNCHANGED repeated

(* An answer was lost or was a 500: the event is sent again, whatever has  *)
(* happened since.                                                         *)
Redeliver(kind, i) ==
  /\ "redelivery" \in Faults
  /\ status[i] = "resolved" \/ (status[i] = "open" /\ kind = "created")
  /\ repeated' = repeated \cup {i}
  /\ UNCHANGED status

NightOwlSends(kind, i) ==
  /\ \/ kind = "created" /\ IncidentCreated(i)
     \/ kind = "resolved" /\ IncidentResolved(i)
     \/ Redeliver(kind, i)
  /\ UNCHANGED <<zammad, tables, handler, origin, heard>>

(* The incidents whose resolution is lost with these events.               *)
Unheard(events) ==
  {events[k].incident : k \in {j \in DOMAIN events : events[j].kind = "resolved"}}

PassOver(events) == excused' = excused \cup Tickets \X Unheard(events)

(* The webhook is answered once the event is in the stream.  If nobody     *)
(* reads there it is passed over.                                          *)
Enqueue(kind, i) ==
  LET event == [kind |-> kind, incident |-> i]
  IN  \/ /\ Len(queue) < MaxQueue
         /\ queue' = Append(queue, event)
         /\ UNCHANGED excused
      \/ /\ queue = <<>> /\ pc = "idle"
         /\ UNCHANGED queue
         /\ PassOver(<<event>>)

-----------------------------------------------------------------------------
(* Agents and the administrator.                                           *)

UpdateAutoTicketRule(r, shape) ==
  /\ rules' = [rules EXCEPT ![r] = shape]
  /\ UNCHANGED <<status, queue, zammad, known, links, handler, history>>

(* An agent opens a ticket; its ticket.create event makes it known.        *)
AgentCreates(t) ==
  /\ NextTicket(t)
  /\ Cardinality({u \in Tickets \ Unused : origin[u] = {}}) < AgentTickets
  /\ zammad' = [zammad EXCEPT ![t] = "open"]
  /\ known' = known \cup {t}
  /\ UNCHANGED <<status, queue, rules, links, handler, history>>

AgentCloses(t) ==
  /\ zammad[t] = "open"
  /\ zammad' = [zammad EXCEPT ![t] = "closed"]
  /\ UNCHANGED <<status, queue, tables, handler, history>>

AgentReopens(t) ==
  /\ zammad[t] = "closed"
  /\ zammad' = [zammad EXCEPT ![t] = "open"]
  /\ excused' = excused \cup ({t} \X heard)
  /\ UNCHANGED <<status, queue, tables, handler, origin, heard, repeated>>

(* The rows about the ticket stay.                                         *)
AgentDeletes(t) ==
  /\ zammad[t] \in {"open", "closed"}
  /\ zammad' = [zammad EXCEPT ![t] = "deleted"]
  /\ UNCHANGED <<status, queue, tables, handler, history>>

(* The incident must exist in NightOwl, the ticket be known, and the pair  *)
(* be new.                                                                 *)
Linkable(t, i) == status[i] # "none" /\ t \in known /\ <<t, i>> \notin links

LinkIncident(t, i) ==
  /\ Linkable(t, i)
  /\ links' = links \cup {<<t, i>>}
  /\ excused' = IF i \in heard THEN excused \cup {<<t, i>>} ELSE excused
  /\ UNCHANGED <<status, queue, zammad, rules, known, handler, origin, heard, repeated>>

UnlinkIncident(t, i) ==
  /\ <<t, i>> \in links
  /\ links' = links \ {<<t, i>>}
  /\ excused' = excused \cup {<<t, i>>}
  /\ UNCHANGED <<status, queue, zammad, rules, known, handler, origin, heard, repeated>>

-----------------------------------------------------------------------------
(* The event handler.                                                      *)

LinkedTickets(i) == {t \in known : <<t, i>> \in links}

HandlerIdle ==
  pc' = "idle" /\ incident' = NoIncident
    /\ todoRules' = {} /\ todo' = {} /\ ticket' = NoTicket

(* Back to the loop over the matching rules, or out of it.                 *)
NextRule ==
  IF todoRules = {}
  THEN HandlerIdle
  ELSE pc' = "rules" /\ ticket' = NoTicket /\ UNCHANGED <<incident, todoRules, todo>>

(* Variants of the actions below: bugs the runs must find.                 *)
CreateTicketAgain(r, t) ==
  /\ pc = "rules"
  /\ r \in todoRules
  /\ NextTicket(t)
  /\ zammad' = [zammad EXCEPT ![t] = "open"]
  /\ origin' = [origin EXCEPT ![t] = {<<incident, r>>}]
  /\ pc' = "meta" /\ ticket' = t
  /\ UNCHANGED <<status, queue, tables, incident, todoRules, todo, heard, repeated, excused>>

DoneWithAll(t) ==
  pc' = "idle" /\ incident' = NoIncident /\ todo' = {} /\ UNCHANGED <<todoRules, ticket>>

(* incident.created: the rules are read and matched.                       *)
HandleCreated(i) ==
  /\ LET matched == FindMatchingRules(rules, Facts[i])
     IN  IF matched = {}
         THEN UNCHANGED handler
         ELSE /\ pc' = "rules" /\ incident' = i
              /\ todoRules' = matched /\ UNCHANGED <<todo, ticket>>
  /\ UNCHANGED <<status, zammad, tables, history>>

(* Zammad creates the ticket of a rule.                                    *)
CreateTicket(r, t) ==
  /\ pc = "rules"
  /\ r \in todoRules
  /\ NextTicket(t)
  /\ zammad' = [zammad EXCEPT ![t] = "open"]
  /\ origin' = [origin EXCEPT ![t] = {<<incident, r>>}]
  /\ pc' = "meta" /\ ticket' = t /\ todoRules' = todoRules \ {r}
  /\ UNCHANGED <<status, queue, tables, incident, todo, heard, repeated, excused>>

(* The call is given up, or answered by an error: this rule has no ticket. *)
CreateTicketFails(r) ==
  /\ "api" \in Faults
  /\ pc = "rules"
  /\ r \in todoRules
  /\ todoRules' = todoRules \ {r}
  /\ IF todoRules = {r}
     THEN pc' = "idle" /\ incident' = NoIncident
     ELSE UNCHANGED <<pc, incident>>
  /\ UNCHANGED <<status, queue, zammad, tables, todo, ticket, history>>

(* A ticket is created and the answer lost; ApiClient tries the call again *)
(* or gives up.  Nobody in TicketOwl hears of that ticket.                 *)
CreateTicketUnheard(t) ==
  /\ "api" \in Faults
  /\ pc = "rules"
  /\ NextTicket(t)
  /\ zammad' = [zammad EXCEPT ![t] = "open"]
  /\ UNCHANGED <<status, queue, tables, handler, history>>

UpsertMeta ==
  /\ pc = "meta"
  /\ known' = known \cup {ticket}
  /\ pc' = "link"
  /\ UNCHANGED <<status, queue, zammad, rules, links, incident, todoRules, todo, ticket, history>>

(* The ticket is left unlinked and the next rule is applied.               *)
UpsertMetaFails ==
  /\ "db" \in Faults
  /\ pc = "meta"
  /\ NextRule
  /\ excused' = excused \cup {<<ticket, incident>>}
  /\ UNCHANGED <<status, queue, zammad, tables, origin, heard, repeated>>

(* An agent who linked the ticket first makes the insert fail, and the     *)
(* link is there all the same.                                             *)
CreateIncidentLink ==
  /\ pc = "link"
  /\ links' = links \cup {<<ticket, incident>>}
  /\ NextRule
  /\ UNCHANGED <<status, queue, zammad, rules, known, history>>

CreateIncidentLinkFails ==
  /\ "db" \in Faults
  /\ pc = "link"
  /\ NextRule
  /\ excused' = excused \cup {<<ticket, incident>>}
  /\ UNCHANGED <<status, queue, zammad, tables, origin, heard, repeated>>

(* incident.resolved: the links are read.  What is unlinked, closed or     *)
(* reopened from now on makes no difference to the loop.                   *)
HandleResolved(i) ==
  /\ heard' = heard \cup {i}
  /\ IF LinkedTickets(i) = {}
     THEN UNCHANGED handler
     ELSE /\ pc' = "close" /\ incident' = i
          /\ todo' = LinkedTickets(i) /\ UNCHANGED <<todoRules, ticket>>
  /\ UNCHANGED <<status, zammad, tables, origin, repeated, excused>>

DoneWith(t) ==
  /\ todo' = todo \ {t}
  /\ IF todo = {t}
     THEN pc' = "idle" /\ incident' = NoIncident
     ELSE UNCHANGED <<pc, incident>>
  /\ UNCHANGED <<todoRules, ticket>>

(* The ticket is set to closed, open or not.                               *)
CloseTicket(t) ==
  /\ pc = "close"
  /\ t \in todo
  /\ zammad[t] # "deleted"
  /\ zammad' = [zammad EXCEPT ![t] = "closed"]
  /\ DoneWith(t)
  /\ UNCHANGED <<status, queue, tables, history>>

(* The row of the ticket cannot be read, or Zammad does not answer or does *)
(* not know the ticket: the error is logged and the ticket passed over.    *)
CloseTicketFails(t) ==
  /\ {"api", "db"} \cap Faults # {} \/ zammad[t] = "deleted"
  /\ pc = "close"
  /\ t \in todo
  /\ DoneWith(t)
  /\ excused' = excused \cup {<<t, incident>>}
  /\ UNCHANGED <<status, queue, zammad, tables, origin, heard, repeated>>

(* The database cannot be reached, or is gone before the loop begins.      *)
HandlingFails(event) ==
  /\ "db" \in Faults
  /\ PassOver(<<event>>)
  /\ UNCHANGED <<status, zammad, tables, handler, origin, heard, repeated>>

Handle(event) ==
  \/ event.kind = "created" /\ HandleCreated(event.incident)
  \/ event.kind = "resolved" /\ HandleResolved(event.incident)
  \/ HandlingFails(event)

(* A variant of the next action: a bug the runs must find.                *)
TakeEventOvertaking ==
  /\ pc = "idle"
  /\ \E k \in DOMAIN queue :
       /\ queue' = RemoveAt(queue, k)
       /\ Handle(queue[k])

(* Events are taken one at a time, in the order of the stream.             *)
TakeEvent ==
  /\ pc = "idle"
  /\ queue # <<>>
  /\ queue' = Tail(queue)
  /\ Handle(Head(queue))

(* The worker dies.  The event in hand and those that wait are passed over *)
(* by the next one.                                                        *)
Crash ==
  /\ "crash" \in Faults
  /\ HandlerIdle
  /\ queue' = <<>>
  /\ excused' = excused \cup
       Tickets \X {i \in Incidents : i = incident \/ i \in Unheard(queue)}
  /\ UNCHANGED <<status, zammad, tables, origin, heard, repeated>>

(* The worker is stopped, or the first XREAD it makes fails: "$" then      *)
(* stands behind the events that wait.                                     *)
SkipToEnd ==
  /\ pc = "idle" /\ queue # <<>>
  /\ queue' = <<>>
  /\ PassOver(queue)
  /\ UNCHANGED <<status, zammad, tables, handler, origin, heard, repeated>>

NightOwlStep ==
  \E kind \in {"created", "resolved"}, i \in Incidents :
    NightOwlSends(kind, i) /\ Enqueue(kind, i)

AgentStep ==
  \/ \E r \in RuleIds, shape \in RuleShapes : UpdateAutoTicketRule(r, shape)
  \/ \E t \in Tickets :
       \/ AgentCreates(t) \/ AgentCloses(t) \/ AgentReopens(t) \/ AgentDeletes(t)
       \/ \E i \in Incidents : LinkIncident(t, i) \/ UnlinkIncident(t, i)

(* What the handler does with the event in hand.                           *)
Work ==
  \/ \E r \in RuleIds, t \in Tickets : CreateTicket(r, t)
  \/ \E r \in RuleIds : CreateTicketFails(r)
  \/ UpsertMeta \/ UpsertMetaFails
  \/ CreateIncidentLink \/ CreateIncidentLinkFails
  \/ \E t \in Tickets : CloseTicket(t) \/ CloseTicketFails(t)

HandlerStep == TakeEvent \/ Work

Next ==
  \/ NightOwlStep \/ AgentStep \/ HandlerStep
  \/ \E t \in Tickets : CreateTicketUnheard(t)
  \/ SkipToEnd \/ Crash

Spec == Init /\ [][Next]_vars

(* The event processor goes on as long as the worker runs.                 *)
FairSpec == Spec /\ WF_vars(HandlerStep)

-----------------------------------------------------------------------------
(* Properties.                                                             *)

InHand(t, i) ==
  /\ incident = i
  /\ \/ pc = "close" /\ t \in todo
     \/ pc \in {"meta", "link"} /\ t = ticket

(* Incident i is resolved, said so once, and its event no longer waits.    *)
Over(i) ==
  /\ status[i] = "resolved" /\ i \notin repeated
  /\ \A k \in DOMAIN queue : queue[k] # [kind |-> "resolved", incident |-> i]

(* Once nothing waits of a resolved incident, the tickets linked to it are *)
(* closed (or deleted), unless one was linked or reopened later, its       *)
(* closing failed, or the event was passed over: agents who link, unlink   *)
(* and close meanwhile do not make the handler miss one.                   *)
ResolvedIsClosed ==
  \A t \in Tickets, i \in Incidents :
    Over(i) /\ <<t, i>> \in links /\ <<t, i>> \notin excused /\ ~InHand(t, i)
      => zammad[t] # "open"

(* The tickets the handler opened for an incident do not outlive it: they  *)
(* are closed with it, unless an agent or a failure took one out of its    *)
(* hands.  This needs the events in the order they were sent.              *)
AutoTicketCloses ==
  \A t \in Tickets, i \in Incidents :
    /\ Over(i) /\ \E r \in RuleIds : <<i, r>> \in origin[t]
    /\ <<t, i>> \notin excused /\ ~InHand(t, i)
    => zammad[t] # "open"

(* Unless its event comes again, an incident gets one ticket of a rule,    *)
(* whatever fails and however often the rule changes meanwhile.            *)
OneTicketPerRule ==
  \A t, u \in Tickets :
    /\ origin[t] # {} /\ origin[t] = origin[u]
    /\ \A made \in origin[t] : made[1] \notin repeated
    => t = u

(* The tickets of a resolved incident are closed in the end, unless an     *)
(* agent or a failure takes one out of the handler's hands, or its events  *)
(* come again.                                                             *)
ResolutionCloses ==
  \A t \in Tickets, i \in Incidents :
    status[i] = "resolved" /\ <<t, i>> \in links
      ~> zammad[t] # "open" \/ <<t, i>> \in excused \/ i \in repeated
=============================================================================
