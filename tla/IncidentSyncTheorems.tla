------------------------ MODULE IncidentSyncTheorems ------------------------
(***************************************************************************)
(* Theorems about IncidentSync, for any incidents, rules, tickets, bounds  *)
(* and faults: the tickets of a resolved incident are closed, and an       *)
(* incident gets one ticket of a rule, unless an agent, a failure or a     *)
(* repeated event accounts for it.                                         *)
(***************************************************************************)
EXTENDS IncidentSync, SequenceTheorems, FiniteSetTheorems, TLAPS

Creating == pc \in {"meta", "link"}

(* What becomes of the event that is taken.                                *)
TakeCreated ==
  /\ pc = "idle" /\ queue # <<>> /\ queue' = Tail(queue)
  /\ Head(queue).kind = "created" /\ HandleCreated(Head(queue).incident)

TakeResolved ==
  /\ pc = "idle" /\ queue # <<>> /\ queue' = Tail(queue)
  /\ Head(queue).kind = "resolved" /\ HandleResolved(Head(queue).incident)

EventFails ==
  pc = "idle" /\ queue # <<>> /\ queue' = Tail(queue) /\ HandlingFails(Head(queue))

LEMMA Handling ==
  HandlerStep => TakeCreated \/ TakeResolved \/ EventFails \/ Work
BY DEF HandlerStep, TakeEvent, Handle, TakeCreated, TakeResolved, EventFails

(* What the handler's place says about what it holds.                      *)
Phases ==
  /\ pc = "idle" => incident = NoIncident /\ todoRules = {} /\ todo = {}
  /\ pc # "idle" => incident \in Incidents
  /\ pc = "rules" => todo = {}
  /\ Creating => /\ ticket \in Tickets /\ zammad[ticket] # "none"
                 /\ todo = {}
  /\ pc = "link" => ticket \in known
  /\ pc = "close" => todoRules = {}

(* A ticket that does not exist is not known and stands for no incident.   *)
Origins ==
  \A t \in Tickets : zammad[t] = "none" => t \notin known /\ origin[t] = {}

Made(i, r) == \E t \in Tickets : <<i, r>> \in origin[t]

(* What an event that was sent once says of its incident: as long as a     *)
(* creation waits, nothing has been done about it and nothing waits before *)
(* it, least of all its resolution.                                        *)
EventsInOrder ==
  \A k \in DOMAIN queue :
    LET i == queue[k].incident
    IN  /\ status[i] # "none"
        /\ queue[k].kind = "created" /\ i \notin repeated =>
             /\ i \notin heard /\ incident # i
             /\ \A r \in RuleIds : ~Made(i, r)
             /\ \A j \in DOMAIN queue : queue[j].incident = i => k <= j

(* What has not been opened has no history.                                *)
Unborn ==
  \A i \in Incidents :
    status[i] = "none" => i \notin heard /\ incident # i /\ \A r \in RuleIds : ~Made(i, r)

(* While the rules are applied to an incident it is not resolved yet, and  *)
(* those still to be applied have no ticket.                               *)
BeforeResolution ==
  incident \notin repeated =>
    /\ Creating \/ pc = "rules" => incident \notin heard
    /\ \A r \in todoRules : ~Made(incident, r)

(* The ticket made for an incident is linked to it, or in the handler's    *)
(* hands, or accounted for.                                                *)
Linked ==
  \A t \in Tickets, i \in Incidents :
    (\E r \in RuleIds : <<i, r>> \in origin[t]) =>
      \/ <<t, i>> \in links \/ <<t, i>> \in excused
      \/ Creating /\ incident = i /\ ticket = t

(* The handler has dealt with the resolutions it has heard of.             *)
HeardIsClosed ==
  \A t \in Tickets, i \in heard \ repeated :
    <<t, i>> \in links /\ <<t, i>> \notin excused /\ ~InHand(t, i)
      => zammad[t] # "open"

(* No resolution goes astray: it waits, is heard, or is known to be lost.  *)
Accounted ==
  \A i \in Incidents : status[i] = "resolved" =>
    \/ i \in heard \/ \A t \in Tickets : <<t, i>> \in excused
    \/ \E k \in DOMAIN queue : queue[k] = [kind |-> "resolved", incident |-> i]

IInv ==
  /\ TypeOK /\ Phases /\ Origins /\ EventsInOrder /\ Unborn /\ BeforeResolution
  /\ Linked /\ HeardIsClosed /\ Accounted /\ OneTicketPerRule
-----------------------------------------------------------------------------
LEMMA InitIInv == Init => IInv
<1> SUFFICES ASSUME Init PROVE IInv
  OBVIOUS
<1>1. queue \in Seq(Event) /\ DOMAIN queue = {}
  BY EmptySeq DEF Init
<1>2. TypeOK
  BY <1>1 DEF Init, TypeOK
<1>3. Phases /\ Origins /\ Unborn /\ BeforeResolution /\ Linked
  BY NoIncidentAssumption
     DEF Init, Phases, Origins, Unborn, BeforeResolution, Linked, Creating, Made
<1>4. EventsInOrder /\ HeardIsClosed /\ Accounted /\ OneTicketPerRule
  BY <1>1 DEF Init, EventsInOrder, HeardIsClosed, Accounted, OneTicketPerRule
<1> QED
  BY <1>2, <1>3, <1>4 DEF IInv

(* What NightOwl, whose events wait or are passed over, leaves alone.      *)
LEMMA NightOwlKeeps ==
  ASSUME NightOwlStep
  PROVE  /\ UNCHANGED <<zammad, tables, handler, origin, heard>>
         /\ repeated \subseteq repeated' /\ excused \subseteq excused'
         /\ \E i \in Incidents :
              \A j \in Incidents \ {i} : TypeOK => status'[j] = status[j]
BY DEF NightOwlStep, NightOwlSends, IncidentCreated, IncidentResolved, Redeliver,
       Enqueue, PassOver, TypeOK

(* An event that is sent waits behind all others.                          *)
QueuedAt(n, kind, i) ==
  /\ DOMAIN queue' = DOMAIN queue \cup {n}
  /\ queue'[n].kind = kind /\ queue'[n].incident = i
  /\ \A k \in DOMAIN queue : k \in Int /\ k < n /\ queue'[k] = queue[k]

LEMMA Sent ==
  ASSUME TypeOK, NEW kind \in {"created", "resolved"}, NEW i \in Incidents,
         queue' = Append(queue, [kind |-> kind, incident |-> i])
  PROVE  queue' \in Seq(Event) /\ \E n \in Int : QueuedAt(n, kind, i)
<1> DEFINE e == [kind |-> kind, incident |-> i]
<1>1. queue \in Seq(Event) /\ e \in Event
  BY DEF TypeOK, Event
<1>2. DOMAIN queue = 1 .. Len(queue) /\ Len(queue) \in Nat
  BY <1>1, LenProperties
<1>3. /\ Append(queue, e) \in Seq(Event) /\ Len(Append(queue, e)) = Len(queue) + 1
      /\ \A k \in 1 .. Len(queue) : Append(queue, e)[k] = queue[k]
      /\ Append(queue, e)[Len(queue) + 1] = e
  BY <1>1, AppendProperties
<1>4. DOMAIN Append(queue, e) = 1 .. Len(queue) + 1
  BY <1>3, LenProperties
<1>5. queue' = Append(queue, e)
  OBVIOUS
<1>6. e.kind = kind /\ e.incident = i
  OBVIOUS
<1> HIDE DEF e
<1>7. DOMAIN queue' = DOMAIN queue \cup {Len(queue) + 1}
  BY <1>2, <1>4, <1>5
<1> QED
  BY <1>2, <1>3, <1>5, <1>6, <1>7 DEF QueuedAt

(* The first event is taken, and the others move up.                       *)
LEMMA Taken ==
  ASSUME TypeOK, queue # <<>>, queue' = Tail(queue)
  PROVE  /\ queue' \in Seq(Event)
         /\ Head(queue) \in Event /\ Head(queue) = queue[1] /\ 1 \in DOMAIN queue
         /\ \A k \in DOMAIN queue :
              k \in Int /\ k >= 1 /\ queue[k] \in Event
         /\ \A k \in DOMAIN queue' :
              k \in Int /\ k >= 1 /\ k + 1 \in DOMAIN queue /\ queue'[k] = queue[k + 1]
<1>1. queue \in Seq(Event)
  BY DEF TypeOK
<1>2. DOMAIN queue = 1 .. Len(queue) /\ Len(queue) \in Nat
  BY <1>1, LenProperties
<1>3. /\ Tail(queue) \in Seq(Event) /\ Len(Tail(queue)) = Len(queue) - 1
      /\ Head(queue) \in Event /\ Head(queue) = queue[1]
      /\ \A k \in 1 .. Len(Tail(queue)) : Tail(queue)[k] = queue[k + 1]
      /\ Len(queue) >= 1
  BY <1>1, <1>2, HeadTailProperties, EmptySeq
<1>4. DOMAIN Tail(queue) = 1 .. Len(queue) - 1
  BY <1>3, LenProperties
<1>5. \A k \in DOMAIN queue : queue[k] \in Event
  BY <1>1, <1>2, ElementOfSeq
<1> QED
  BY <1>2, <1>3, <1>4, <1>5

-----------------------------------------------------------------------------
(* The lost resolutions are of incidents.                                  *)
LEMMA UnheardIncidents ==
  ASSUME NEW events \in Seq(Event)
  PROVE  Unheard(events) \subseteq Incidents
<1>1. \A k \in DOMAIN events : events[k] \in Event
  BY LenProperties, ElementOfSeq
<1> QED
  BY <1>1 DEF Unheard, Event

(* Each step keeps the types of the variables.                             *)
LEMMA TypeStep == IInv /\ [Next]_vars => TypeOK'
<1> SUFFICES ASSUME IInv, [Next]_vars PROVE TypeOK'
  OBVIOUS
<1>0. TypeOK /\ Phases
  BY DEF IInv
<1> USE <1>0 DEF TypeOK
<1>1. CASE NightOwlStep
  <2>1. PICK kind \in {"created", "resolved"}, i \in Incidents :
          NightOwlSends(kind, i) /\ Enqueue(kind, i)
    BY <1>1 DEF NightOwlStep
  <2>2. /\ status' \in [Incidents -> {"none", "open", "resolved"}]
        /\ repeated' \subseteq Incidents
    BY <2>1 DEF NightOwlSends, IncidentCreated, IncidentResolved, Redeliver
  <2>3. queue' \in Seq(Event) /\ excused' \subseteq Tickets \X Incidents
    <3>1. <<[kind |-> kind, incident |-> i]>> \in Seq(Event)
      BY DEF Event
    <3> QED
      BY <2>1, <3>1, Sent, UnheardIncidents DEF Enqueue, PassOver
  <2> QED
    BY <1>1, <2>2, <2>3, NightOwlKeeps DEF tables, handler
<1>2. CASE AgentStep
  <2>1. ASSUME NEW r \in RuleIds, NEW shape \in RuleShapes, UpdateAutoTicketRule(r, shape)
        PROVE  TypeOK'
    BY <2>1 DEF UpdateAutoTicketRule, handler, history
  <2>2. ASSUME NEW t \in Tickets,
               AgentCreates(t) \/ AgentCloses(t) \/ AgentReopens(t) \/ AgentDeletes(t)
        PROVE  TypeOK'
    BY <2>2 DEF AgentCreates, AgentCloses, AgentReopens, AgentDeletes, tables, handler,
                history
  <2>3. ASSUME NEW t \in Tickets, NEW i \in Incidents,
               LinkIncident(t, i) \/ UnlinkIncident(t, i)
        PROVE  TypeOK'
    BY <2>3 DEF LinkIncident, UnlinkIncident, Linkable, handler
  <2> QED
    BY <1>2, <2>1, <2>2, <2>3 DEF AgentStep
<1>3. CASE TakeCreated
  <2>1. FindMatchingRules(rules, Facts[Head(queue).incident]) \subseteq RuleIds
    BY DEF FindMatchingRules
  <2>2. queue' \in Seq(Event) /\ Head(queue).incident \in Incidents
    BY <1>3, Taken DEF TakeCreated, HandleCreated, Event
  <2> QED
    BY <1>3, <2>1, <2>2 DEF TakeCreated, HandleCreated, tables, handler, history
<1>4. ASSUME NEW r \in RuleIds, NEW t \in Tickets, CreateTicket(r, t)
      PROVE  TypeOK'
  <2>1. {<<incident, r>>} \in SUBSET (Incidents \X RuleIds)
    BY <1>4 DEF CreateTicket, Phases
  <2> QED
    BY <1>4, <2>1 DEF CreateTicket, tables
<1>5. ASSUME NEW r \in RuleIds, CreateTicketFails(r)
      PROVE  TypeOK'
  BY <1>5 DEF CreateTicketFails, tables, history
<1>6. CASE UpsertMeta
  BY <1>6 DEF UpsertMeta, Phases, Creating, history
<1>7. CASE CreateIncidentLink
  BY <1>7 DEF CreateIncidentLink, NextRule, HandlerIdle, Phases, Creating, history
<1>8. CASE UpsertMetaFails \/ CreateIncidentLinkFails
  <2>1. excused' \subseteq Tickets \X Incidents
    BY <1>8 DEF UpsertMetaFails, CreateIncidentLinkFails, Phases, Creating
  <2> QED
    BY <1>8, <2>1
       DEF UpsertMetaFails, CreateIncidentLinkFails, NextRule, HandlerIdle, tables
<1>9. CASE TakeResolved
  <2>1. LinkedTickets(Head(queue).incident) \subseteq Tickets
    BY DEF LinkedTickets
  <2>2. queue' \in Seq(Event) /\ Head(queue).incident \in Incidents
    BY <1>9, Taken DEF TakeResolved, HandleResolved, Event
  <2> QED
    BY <1>9, <2>1, <2>2 DEF TakeResolved, HandleResolved, tables, handler
<1>10. ASSUME NEW t \in Tickets, CloseTicket(t) \/ CloseTicketFails(t)
       PROVE  TypeOK'
  <2>1. excused' \subseteq Tickets \X Incidents
    BY <1>10 DEF CloseTicket, CloseTicketFails, Phases, history
  <2> QED
    BY <1>10, <2>1 DEF CloseTicket, CloseTicketFails, DoneWith, tables, history
<1>11. CASE EventFails
  <2>1. queue' \in Seq(Event) /\ <<Head(queue)>> \in Seq(Event)
    BY <1>11, Taken DEF EventFails, HandlingFails, PassOver
  <2>2. excused' \subseteq Tickets \X Incidents
    BY <1>11, <2>1, UnheardIncidents DEF EventFails, HandlingFails, PassOver
  <2> QED
    BY <1>11, <2>1, <2>2 DEF EventFails, HandlingFails, PassOver, tables, handler
<1>12. ASSUME NEW t \in Tickets, CreateTicketUnheard(t)
       PROVE  TypeOK'
  BY <1>12 DEF CreateTicketUnheard, tables, handler, history
<1>13. CASE Crash
  <2>1. queue' \in Seq(Event)
    BY <1>13, EmptySeq DEF Crash
  <2>2. excused' \subseteq Tickets \X Incidents
    BY <1>13 DEF Crash
  <2> QED
    BY <1>13, <2>1, <2>2 DEF Crash, HandlerIdle, tables
<1>14. CASE SkipToEnd
  BY <1>14, EmptySeq, UnheardIncidents DEF SkipToEnd, PassOver, tables, handler
<1>15. CASE UNCHANGED vars
  BY <1>15 DEF vars, tables, handler, history
<1> QED
  BY <1>1, <1>2, <1>3, <1>4, <1>5, <1>6, <1>7, <1>8, <1>9, <1>10, <1>11, <1>12, <1>13,
     <1>14, <1>15, Handling
     DEF Next, Work

(* What the handler takes up and puts down goes with its place.            *)
LEMMA PhasesStep == IInv /\ [Next]_vars => Phases'
<1> SUFFICES ASSUME IInv, [Next]_vars PROVE Phases'
  OBVIOUS
<1>0. TypeOK /\ Phases
  BY DEF IInv
<1> USE <1>0 DEF Phases, Creating
<1>1. CASE UNCHANGED handler /\ known \subseteq known'
           /\ \A t \in Tickets : zammad[t] # "none" => zammad'[t] # "none"
  BY <1>1 DEF handler
<1>2. CASE NightOwlStep
  BY <1>1, <1>2, NightOwlKeeps DEF tables
<1>3. CASE AgentStep
  BY <1>1, <1>3
     DEF AgentStep, UpdateAutoTicketRule, AgentCreates, AgentCloses, AgentReopens,
         AgentDeletes, LinkIncident, UnlinkIncident, tables, TypeOK
<1>4. CASE TakeCreated
  <2>1. Head(queue).incident \in Incidents
    BY <1>4, Taken DEF TakeCreated, HandleCreated, Event
  <2> QED
    BY <1>4, <2>1 DEF TakeCreated, HandleCreated, handler, tables
<1>5. ASSUME NEW r \in RuleIds, NEW t \in Tickets, CreateTicket(r, t)
      PROVE  Phases'
  BY <1>5 DEF CreateTicket, tables, TypeOK
<1>6. ASSUME NEW r \in RuleIds, CreateTicketFails(r)
      PROVE  Phases'
  BY <1>6 DEF CreateTicketFails, tables
<1>7. CASE UpsertMeta
  BY <1>7 DEF UpsertMeta
<1>8. CASE UpsertMetaFails \/ CreateIncidentLink \/ CreateIncidentLinkFails
  BY <1>8 DEF UpsertMetaFails, CreateIncidentLink, CreateIncidentLinkFails, NextRule,
              HandlerIdle, tables
<1>9. CASE TakeResolved
  <2>1. Head(queue).incident \in Incidents
    BY <1>9, Taken DEF TakeResolved, HandleResolved, Event
  <2> QED
    BY <1>9, <2>1 DEF TakeResolved, HandleResolved, handler, tables
<1>10. ASSUME NEW t \in Tickets, CloseTicket(t) \/ CloseTicketFails(t)
       PROVE  Phases'
  BY <1>10 DEF CloseTicket, CloseTicketFails, DoneWith, tables, TypeOK
<1>11. CASE EventFails \/ SkipToEnd
  BY <1>1, <1>11 DEF EventFails, HandlingFails, SkipToEnd, tables
<1>12. ASSUME NEW t \in Tickets, CreateTicketUnheard(t)
       PROVE  Phases'
  BY <1>1, <1>12 DEF CreateTicketUnheard, tables, TypeOK
<1>13. CASE Crash
  BY <1>13 DEF Crash, HandlerIdle
<1>14. CASE UNCHANGED vars
  BY <1>14 DEF vars, handler, tables
<1> QED
  BY <1>2, <1>3, <1>4, <1>5, <1>6, <1>7, <1>8, <1>9, <1>10, <1>11, <1>12, <1>13, <1>14,
     Handling
     DEF Next, Work

(* Only CreateTicket gives a ticket an origin, and the ticket is new.      *)
LEMMA OriginsStep == IInv /\ [Next]_vars => Origins'
<1> SUFFICES ASSUME IInv, [Next]_vars PROVE Origins'
  OBVIOUS
<1>0. TypeOK /\ Phases /\ Origins
  BY DEF IInv
<1> USE <1>0 DEF Origins
<1>1. CASE UNCHANGED <<known, origin>>
           /\ \A t \in Tickets : zammad[t] # "none" => zammad'[t] # "none"
  BY <1>1
<1>2. CASE NightOwlStep \/ UNCHANGED vars
  BY <1>1, <1>2, NightOwlKeeps DEF vars, tables, history
<1>3. ASSUME NEW t \in Tickets, AgentCreates(t)
      PROVE  Origins'
  BY <1>3 DEF AgentCreates, history, TypeOK
<1>4. CASE AgentStep
  BY <1>1, <1>3, <1>4
     DEF AgentStep, UpdateAutoTicketRule, AgentCloses, AgentReopens,
         AgentDeletes, LinkIncident, UnlinkIncident, tables, history, TypeOK
<1>5. ASSUME NEW r \in RuleIds, NEW t \in Tickets, CreateTicket(r, t)
      PROVE  Origins'
  BY <1>5 DEF CreateTicket, tables, TypeOK
<1>6. CASE UpsertMeta
  BY <1>6 DEF UpsertMeta, Phases, Creating, history
<1>7. CASE HandlerStep
  BY <1>1, <1>5, <1>6, <1>7, Handling
     DEF Work, TakeCreated, HandleCreated, CreateTicketFails, UpsertMetaFails,
         CreateIncidentLink,
         CreateIncidentLinkFails, TakeResolved, HandleResolved, CloseTicket,
         CloseTicketFails, EventFails, HandlingFails, PassOver,
         tables, history, TypeOK
<1>8. CASE SkipToEnd \/ Crash \/ \E t \in Tickets : CreateTicketUnheard(t)
  BY <1>1, <1>8 DEF SkipToEnd, Crash, CreateTicketUnheard, tables, history, TypeOK
<1> QED
  BY <1>2, <1>4, <1>7, <1>8 DEF Next

(* As long as no event comes or goes, nobody hears of a resolution and no  *)
(* ticket is made, the handler at most puts its incident down.             *)
Quiet ==
  /\ UNCHANGED <<status, heard, repeated, origin>>
  /\ incident' \in {incident, NoIncident}

LEMMA QueuedEvents ==
  ASSUME TypeOK
  PROVE  /\ \A k \in DOMAIN queue : k \in Int /\ queue[k] \in Event
         /\ \A k \in DOMAIN queue :
               queue[k].incident \in Incidents /\ queue[k].incident # NoIncident
<1>1. DOMAIN queue = 1 .. Len(queue) /\ Len(queue) \in Nat
  BY LenProperties DEF TypeOK
<1>2. \A k \in DOMAIN queue : queue[k] \in Event
  BY <1>1, ElementOfSeq DEF TypeOK
<1> QED
  BY <1>1, <1>2, NoIncidentAssumption DEF Event

(* Whoever takes the first event leaves the others in order; it may have   *)
(* been a creation only if no other event of its incident was before it.   *)
LEMMA TakenInOrder ==
  ASSUME IInv, queue # <<>>, queue' = Tail(queue),
         UNCHANGED <<status, repeated, origin>>,
         \/ UNCHANGED <<heard, incident>>
         \/ heard = heard' /\ Head(queue).kind = "created" /\ incident' = Head(queue).incident
         \/ /\ heard' = heard \cup {Head(queue).incident}
            /\ Head(queue).kind = "resolved"
            /\ incident' \in {incident, Head(queue).incident}
  PROVE  EventsInOrder'
<1>0. TypeOK /\ EventsInOrder
  BY DEF IInv
<1>1. \A j \in DOMAIN queue' :
        j \in Int /\ j >= 1 /\ j + 1 \in DOMAIN queue /\ queue'[j] = queue[j + 1]
  BY <1>0, Taken
<1>2. Head(queue) = queue[1] /\ 1 \in DOMAIN queue
  BY <1>0, Taken
<1>3. ASSUME NEW k \in DOMAIN queue', NEW i, i = queue'[k].incident
      PROVE  /\ status[i] # "none"
             /\ queue'[k].kind = "created" /\ i \notin repeated =>
                  /\ i \notin heard' /\ incident' # i
                  /\ \A r \in RuleIds : ~Made(i, r)
                  /\ \A j \in DOMAIN queue' : queue'[j].incident = i => k <= j
  <2>1. status[i] # "none"
    BY <1>0, <1>1, <1>3 DEF EventsInOrder
  <2>2. ASSUME queue'[k].kind = "created", i \notin repeated
        PROVE  /\ i \notin heard /\ incident # i
               /\ \A r \in RuleIds : ~Made(i, r)
               /\ \A j \in DOMAIN queue : queue[j].incident = i => k + 1 <= j
    BY <1>0, <1>1, <1>3, <2>2 DEF EventsInOrder
  <2>3. ASSUME queue'[k].kind = "created", i \notin repeated
        PROVE  Head(queue).incident # i
    BY <1>1, <1>2, <2>2, <2>3
  <2>4. ASSUME queue'[k].kind = "created", i \notin repeated, NEW j \in DOMAIN queue',
               queue'[j].incident = i
        PROVE  k <= j
    BY <1>1, <2>2, <2>4
  <2> QED
    BY <2>1, <2>2, <2>3, <2>4
<1> QED
  BY <1>3 DEF EventsInOrder, Made

(* Events are sent in order, and taken in order.                           *)
LEMMA EventsStep == IInv /\ [Next]_vars => EventsInOrder'
<1> SUFFICES ASSUME IInv, [Next]_vars PROVE EventsInOrder'
  OBVIOUS
<1>0. TypeOK /\ Phases /\ EventsInOrder /\ Unborn /\ TypeOK'
  BY TypeStep DEF IInv
<1>1. CASE UNCHANGED queue /\ Quiet
  BY <1>0, <1>1, QueuedEvents DEF Quiet, EventsInOrder, Made
<1>2. CASE NightOwlStep
  <2>1. PICK kind \in {"created", "resolved"}, i \in Incidents :
          NightOwlSends(kind, i) /\ Enqueue(kind, i)
    BY <1>2 DEF NightOwlStep
  <2>2. queue' = queue \/ \E n \in Int : QueuedAt(n, kind, i)
    BY <1>0, <2>1, Sent DEF Enqueue
  <2>3. UNCHANGED <<heard, origin, incident>>
    BY <1>2, NightOwlKeeps DEF handler
  <2>4. \A k \in DOMAIN queue : queue[k].incident \in Incidents
    BY <1>0, QueuedEvents
  <2>5. CASE kind = "created" /\ IncidentCreated(i)
    <3>1. \A k \in DOMAIN queue : queue[k].incident # i
      BY <1>0, <2>5 DEF IncidentCreated, EventsInOrder
    <3>2. /\ i \notin heard /\ incident # i
          /\ \A r \in RuleIds : ~Made(i, r)
      BY <1>0, <2>5 DEF IncidentCreated, Unborn
    <3>3. repeated' = repeated /\ status' = [status EXCEPT ![i] = "open"]
      BY <2>5 DEF IncidentCreated
    <3>4. CASE queue' = queue
      BY <1>0, <2>3, <2>4, <3>1, <3>2, <3>3, <3>4 DEF EventsInOrder, Made, TypeOK
    <3>5. ASSUME NEW n \in Int, QueuedAt(n, kind, i)
          PROVE  EventsInOrder'
      BY <1>0, <2>3, <2>4, <3>1, <3>2, <3>3, <3>5 DEF QueuedAt, EventsInOrder, Made, TypeOK
    <3> QED
      BY <2>2, <3>4, <3>5
  <2>6. CASE kind = "resolved" /\ IncidentResolved(i)
    <3>1. repeated' = repeated /\ status' = [status EXCEPT ![i] = "resolved"]
      BY <2>6 DEF IncidentResolved
    <3>2. CASE queue' = queue
      BY <1>0, <2>3, <2>4, <2>6, <3>1, <3>2 DEF EventsInOrder, Made, TypeOK
    <3>3. ASSUME NEW n \in Int, QueuedAt(n, kind, i)
          PROVE  EventsInOrder'
      BY <1>0, <2>3, <2>4, <2>6, <3>1, <3>3 DEF QueuedAt, EventsInOrder, Made, TypeOK
    <3> QED
      BY <2>2, <3>2, <3>3
  <2>7. CASE Redeliver(kind, i)
    <3>1. repeated' = repeated \cup {i} /\ status' = status /\ status[i] # "none"
      BY <2>7 DEF Redeliver
    <3>2. CASE queue' = queue
      BY <1>0, <2>3, <2>4, <3>1, <3>2 DEF EventsInOrder, Made
    <3>3. ASSUME NEW n \in Int, QueuedAt(n, kind, i)
          PROVE  EventsInOrder'
      BY <1>0, <2>3, <2>4, <3>1, <3>3 DEF QueuedAt, EventsInOrder, Made
    <3> QED
      BY <2>2, <3>2, <3>3
  <2> QED
    BY <2>1, <2>5, <2>6, <2>7 DEF NightOwlSends
<1>3. CASE AgentStep
  BY <1>1, <1>3
     DEF AgentStep, UpdateAutoTicketRule, AgentCreates, AgentCloses, AgentReopens,
         AgentDeletes, LinkIncident, UnlinkIncident, handler, history, Quiet
<1>4. CASE TakeCreated
  BY <1>4, TakenInOrder DEF TakeCreated, HandleCreated, handler, history
<1>5. ASSUME NEW r \in RuleIds, NEW t \in Tickets, CreateTicket(r, t)
      PROVE  EventsInOrder'
  <2>1. /\ UNCHANGED <<status, queue, incident, heard, repeated>>
        /\ origin' = [origin EXCEPT ![t] = {<<incident, r>>}]
    BY <1>5 DEF CreateTicket
  <2>2. ASSUME NEW i, NEW s, i # incident, Made(i, s)'
        PROVE  Made(i, s)
    BY <1>0, <2>1, <2>2 DEF Made, TypeOK
  <2> QED
    BY <1>0, <2>1, <2>2 DEF EventsInOrder
<1>6. CASE TakeResolved
  BY <1>6, TakenInOrder DEF TakeResolved, HandleResolved, handler
<1>7. CASE EventFails
  BY <1>7, TakenInOrder DEF EventFails, HandlingFails, PassOver, handler
<1>8. CASE HandlerStep
  BY <1>1, <1>4, <1>5, <1>6, <1>7, <1>8, Handling
     DEF Work, CreateTicketFails, UpsertMeta, UpsertMetaFails, CreateIncidentLink,
         CreateIncidentLinkFails, NextRule, HandlerIdle, CloseTicket, CloseTicketFails,
         DoneWith, history, Quiet
<1>9. CASE SkipToEnd \/ Crash
  BY <1>9, EmptySeq DEF SkipToEnd, Crash, EventsInOrder
<1>10. CASE UNCHANGED vars \/ \E t \in Tickets : CreateTicketUnheard(t)
  BY <1>1, <1>10 DEF vars, CreateTicketUnheard, handler, history, Quiet
<1> QED
  BY <1>2, <1>3, <1>8, <1>9, <1>10 DEF Next

(* What is done about an incident is done for one of its events.           *)
LEMMA UnbornStep == IInv /\ [Next]_vars => Unborn'
<1> SUFFICES ASSUME IInv, [Next]_vars PROVE Unborn'
  OBVIOUS
<1>0. TypeOK /\ EventsInOrder /\ Unborn
  BY DEF IInv
<1>1. CASE UNCHANGED <<heard, origin>> /\ incident' \in {incident, NoIncident}
           /\ \A i \in Incidents : status'[i] = "none" => status[i] = "none"
  BY <1>0, <1>1, NoIncidentAssumption DEF Unborn, Made
<1>2. CASE NightOwlStep
  BY <1>0, <1>1, <1>2, NightOwlKeeps
     DEF NightOwlStep, NightOwlSends, IncidentCreated, IncidentResolved, Redeliver,
         handler, TypeOK
<1>3. CASE AgentStep
  BY <1>1, <1>3
     DEF AgentStep, UpdateAutoTicketRule, AgentCreates, AgentCloses, AgentReopens,
         AgentDeletes, LinkIncident, UnlinkIncident, handler, history
<1>4. CASE TakeCreated \/ TakeResolved
  <2>1. status[Head(queue).incident] # "none"
    BY <1>0, <1>4, Taken DEF TakeCreated, HandleCreated, TakeResolved, HandleResolved,
                             EventsInOrder
  <2> QED
    BY <1>0, <1>4, <2>1 DEF TakeCreated, HandleCreated, TakeResolved, HandleResolved,
                            handler, history, Unborn, Made
<1>5. ASSUME NEW r \in RuleIds, NEW t \in Tickets, CreateTicket(r, t)
      PROVE  Unborn'
  <2>1. /\ UNCHANGED <<status, incident, heard>>
        /\ origin' = [origin EXCEPT ![t] = {<<incident, r>>}]
    BY <1>5 DEF CreateTicket
  <2>2. ASSUME NEW i, NEW s, i # incident, Made(i, s)'
        PROVE  Made(i, s)
    BY <1>0, <2>1, <2>2 DEF Made, TypeOK
  <2> QED
    BY <1>0, <2>1, <2>2 DEF Unborn
<1>6. CASE HandlerStep
  BY <1>1, <1>4, <1>5, <1>6, Handling
     DEF Work, CreateTicketFails, UpsertMeta, UpsertMetaFails, CreateIncidentLink,
         CreateIncidentLinkFails, NextRule, HandlerIdle, CloseTicket, CloseTicketFails,
         EventFails, HandlingFails, PassOver, DoneWith, handler, history
<1>7. CASE UNCHANGED vars \/ SkipToEnd \/ Crash \/ \E t \in Tickets : CreateTicketUnheard(t)
  BY <1>1, <1>7
     DEF vars, SkipToEnd, Crash, HandlerIdle, CreateTicketUnheard, handler, history
<1> QED
  BY <1>2, <1>3, <1>6, <1>7 DEF Next

(* The rules are applied once, and before the resolution is heard.         *)
LEMMA BeforeStep == IInv /\ [Next]_vars => BeforeResolution'
<1> SUFFICES ASSUME IInv, [Next]_vars PROVE BeforeResolution'
  OBVIOUS
<1>0. TypeOK /\ Phases /\ EventsInOrder /\ BeforeResolution
  BY DEF IInv
<1>1. CASE UNCHANGED <<origin, heard, handler>> /\ repeated \subseteq repeated'
  BY <1>0, <1>1 DEF handler, BeforeResolution, Creating, Made
<1>2. CASE pc' \in {"idle", "close"} /\ todoRules' = {}
  BY <1>2 DEF BeforeResolution, Creating
<1>3. CASE UNCHANGED <<origin, heard, incident, repeated>> /\ todoRules' \subseteq todoRules
           /\ (Creating \/ pc = "rules")
  BY <1>0, <1>3 DEF BeforeResolution, Made
<1>4. CASE TakeCreated
  <2> DEFINE i == Head(queue).incident
  <2>1. i \notin repeated => i \notin heard /\ \A r \in RuleIds : ~Made(i, r)
    BY <1>0, <1>4, Taken DEF TakeCreated, HandleCreated, EventsInOrder
  <2>2. FindMatchingRules(rules, Facts[i]) \subseteq RuleIds
    BY <1>0 DEF FindMatchingRules, TypeOK
  <2>3. UNCHANGED <<origin, heard, repeated>>
    BY <1>4 DEF TakeCreated, HandleCreated, history
  <2>4. CASE UNCHANGED handler
    BY <1>1, <2>3, <2>4
  <2>5. CASE incident' = i /\ todoRules' = FindMatchingRules(rules, Facts[i])
    BY <2>1, <2>2, <2>3, <2>5 DEF BeforeResolution, Made
  <2> QED
    BY <1>4, <2>4, <2>5 DEF TakeCreated, HandleCreated
<1>5. ASSUME NEW r \in RuleIds, NEW t \in Tickets, CreateTicket(r, t)
      PROVE  BeforeResolution'
  <2>1. /\ UNCHANGED <<incident, heard, repeated>>
        /\ origin' = [origin EXCEPT ![t] = {<<incident, r>>}]
        /\ todoRules' = todoRules \ {r} /\ pc = "rules"
    BY <1>5 DEF CreateTicket
  <2>2. ASSUME NEW s, s # r, Made(incident, s)'
        PROVE  Made(incident, s)
    BY <1>0, <2>1, <2>2 DEF Made, TypeOK
  <2> QED
    BY <1>0, <2>1, <2>2 DEF BeforeResolution
<1>6. CASE TakeResolved
  BY <1>0, <1>2, <1>6 DEF TakeResolved, HandleResolved, Phases, handler
<1>7. ASSUME NEW t \in Tickets, CloseTicket(t) \/ CloseTicketFails(t)
      PROVE  BeforeResolution'
  BY <1>0, <1>2, <1>7 DEF CloseTicket, CloseTicketFails, DoneWith, Phases
<1>8. CASE UpsertMeta \/ UpsertMetaFails \/ CreateIncidentLink \/ CreateIncidentLinkFails
  BY <1>2, <1>3, <1>8
     DEF UpsertMeta, UpsertMetaFails, CreateIncidentLink, CreateIncidentLinkFails, NextRule,
         HandlerIdle, history, Creating
<1>9. ASSUME NEW r \in RuleIds, CreateTicketFails(r)
      PROVE  BeforeResolution'
  BY <1>2, <1>3, <1>9 DEF CreateTicketFails, history
<1>10. CASE NightOwlStep
  BY <1>1, <1>10, NightOwlKeeps
<1>11. CASE AgentStep
  BY <1>1, <1>11
     DEF AgentStep, UpdateAutoTicketRule, AgentCreates, AgentCloses, AgentReopens,
         AgentDeletes, LinkIncident, UnlinkIncident, handler, history
<1>12. CASE EventFails \/ SkipToEnd \/ UNCHANGED vars
            \/ \E t \in Tickets : CreateTicketUnheard(t)
  BY <1>1, <1>12
     DEF EventFails, HandlingFails, SkipToEnd, vars, CreateTicketUnheard, handler, history
<1>13. CASE Crash
  BY <1>2, <1>13 DEF Crash, HandlerIdle
<1> QED
  BY <1>4, <1>5, <1>6, <1>7, <1>8, <1>9, <1>10, <1>11, <1>12, <1>13, Handling DEF Next, Work

(* The handler lets go of a ticket it has made by linking it, or by a      *)
(* failure that is accounted for; and so does an agent who unlinks it.     *)
LEMMA LinkedStep == IInv /\ [Next]_vars => Linked'
<1> SUFFICES ASSUME IInv, [Next]_vars PROVE Linked'
  OBVIOUS
<1>0. TypeOK /\ Phases /\ Linked
  BY DEF IInv
<1>1. CASE UNCHANGED <<origin, ticket, incident>> /\ links \subseteq links'
           /\ excused \subseteq excused' /\ (Creating => Creating')
  BY <1>0, <1>1 DEF Linked
<1>2. CASE /\ UNCHANGED origin /\ links \subseteq links'
            /\ excused \subseteq excused' /\ ~Creating
  BY <1>0, <1>2 DEF Linked
<1>3. ASSUME NEW t \in Tickets, NEW i \in Incidents, UnlinkIncident(t, i)
      PROVE  Linked'
  BY <1>0, <1>3 DEF UnlinkIncident, Linked, Creating, handler
<1>4. ASSUME NEW r \in RuleIds, NEW t \in Tickets, CreateTicket(r, t)
      PROVE  Linked'
  BY <1>0, <1>4 DEF CreateTicket, Linked, Creating, tables, TypeOK
<1>5. CASE CreateIncidentLink
  BY <1>0, <1>5 DEF CreateIncidentLink, Linked, history
<1>6. CASE UpsertMetaFails \/ CreateIncidentLinkFails
  BY <1>0, <1>6 DEF UpsertMetaFails, CreateIncidentLinkFails, Linked, tables
<1>7. CASE UpsertMeta
  BY <1>1, <1>7 DEF UpsertMeta, history, Creating
<1>8. CASE Crash
  BY <1>0, <1>8 DEF Crash, Linked, tables
<1>9. CASE NightOwlStep
  BY <1>1, <1>9, NightOwlKeeps DEF handler, tables, Creating
<1>10. CASE AgentStep
  BY <1>1, <1>3, <1>10
     DEF AgentStep, UpdateAutoTicketRule, AgentCreates, AgentCloses, AgentReopens,
         AgentDeletes, LinkIncident, handler, history, tables, Creating
<1>11. CASE HandlerStep
  BY <1>2, <1>4, <1>5, <1>6, <1>7, <1>11, Handling
     DEF Work, TakeCreated, HandleCreated, CreateTicketFails, TakeResolved,
         HandleResolved, CloseTicket,
         CloseTicketFails, EventFails, HandlingFails, PassOver, history, tables, Creating
<1>12. CASE UNCHANGED vars \/ SkipToEnd \/ \E t \in Tickets : CreateTicketUnheard(t)
  BY <1>1, <1>12
     DEF vars, SkipToEnd, PassOver, CreateTicketUnheard, handler, history, tables, Creating
<1> QED
  BY <1>8, <1>9, <1>10, <1>11, <1>12 DEF Next

(* Whatever is linked when the resolution is read is in the handler's      *)
(* hands, and leaves them closed or accounted for; what is linked or       *)
(* opened later is accounted for.                                          *)
LEMMA ClosedStep == IInv /\ [Next]_vars => HeardIsClosed'
<1> SUFFICES ASSUME IInv, [Next]_vars PROVE HeardIsClosed'
  OBVIOUS
<1>0. TypeOK /\ Phases /\ Origins /\ BeforeResolution /\ HeardIsClosed /\ TypeOK'
  BY TypeStep DEF IInv
<1>1. CASE /\ UNCHANGED <<heard, handler>> /\ repeated \subseteq repeated'
           /\ links' \subseteq links /\ excused \subseteq excused'
           /\ \A t \in known : zammad'[t] = "open" => zammad[t] = "open"
  BY <1>0, <1>1 DEF HeardIsClosed, InHand, handler, TypeOK
<1>2. CASE /\ UNCHANGED <<heard, repeated, links, zammad>> /\ excused \subseteq excused'
           /\ (\A t \in Tickets, i \in Incidents :
                 InHand(t, i) /\ <<t, i>> \in links
                   => InHand(t, i)' \/ <<t, i>> \in excused' \/ i \notin heard \ repeated)
  <2> SUFFICES ASSUME NEW t \in Tickets, NEW i \in heard' \ repeated',
                      <<t, i>> \in links', <<t, i>> \notin excused', ~InHand(t, i)'
               PROVE  zammad'[t] # "open"
    BY DEF HeardIsClosed
  <2>1. ~InHand(t, i)
    BY <1>0, <1>2 DEF TypeOK
  <2> QED
    BY <1>0, <1>2, <2>1 DEF HeardIsClosed
<1>3. CASE NightOwlStep
  BY <1>1, <1>3, NightOwlKeeps DEF tables
<1>4. ASSUME NEW t \in Tickets, AgentReopens(t)
      PROVE  HeardIsClosed'
  BY <1>0, <1>4 DEF AgentReopens, HeardIsClosed, InHand, handler, tables, TypeOK
<1>5. ASSUME NEW t \in Tickets, NEW i \in Incidents, LinkIncident(t, i)
      PROVE  HeardIsClosed'
  BY <1>0, <1>5 DEF LinkIncident, HeardIsClosed, InHand, handler
<1>6. ASSUME NEW t \in Tickets, AgentCreates(t) \/ CreateTicketUnheard(t)
      PROVE  HeardIsClosed'
  <2>1. t \notin known
    BY <1>0, <1>6 DEF AgentCreates, CreateTicketUnheard, NextTicket, Unused, Origins
  <2> QED
    BY <1>0, <1>1, <1>6, <2>1 DEF AgentCreates, CreateTicketUnheard, tables, history, TypeOK
<1>7. CASE AgentStep
  BY <1>0, <1>1, <1>4, <1>5, <1>6, <1>7
     DEF AgentStep, UpdateAutoTicketRule, AgentCloses, AgentDeletes, UnlinkIncident,
         history, tables, TypeOK
<1>8. CASE TakeCreated
  BY <1>0, <1>2, <1>8 DEF TakeCreated, HandleCreated, Phases, InHand, history, tables
<1>9. ASSUME NEW r \in RuleIds, NEW t \in Tickets, CreateTicket(r, t)
      PROVE  HeardIsClosed'
  <2>1. t \notin known /\ pc = "rules"
    BY <1>0, <1>9 DEF CreateTicket, NextTicket, Unused, Origins
  <2> QED
    BY <1>0, <1>9, <2>1 DEF CreateTicket, HeardIsClosed, InHand, tables, TypeOK
<1>10. ASSUME NEW r \in RuleIds, CreateTicketFails(r)
       PROVE  HeardIsClosed'
  BY <1>0, <1>2, <1>10 DEF CreateTicketFails, InHand, history, tables
<1>11. CASE UpsertMeta
  BY <1>0, <1>2, <1>11 DEF UpsertMeta, InHand, history
<1>12. CASE UpsertMetaFails \/ CreateIncidentLinkFails
  BY <1>0, <1>2, <1>12
     DEF UpsertMetaFails, CreateIncidentLinkFails, InHand, tables
<1>13. CASE CreateIncidentLink
  <2>1. incident \notin heard \ repeated
    BY <1>0, <1>13 DEF CreateIncidentLink, BeforeResolution, Creating
  <2> QED
    BY <1>0, <1>13, <2>1 DEF CreateIncidentLink, HeardIsClosed, InHand, history
<1>14. CASE TakeResolved
  <2>1. /\ pc = "idle" /\ heard' = heard \cup {Head(queue).incident}
        /\ UNCHANGED <<links, zammad, known, repeated, excused>>
    BY <1>14 DEF TakeResolved, HandleResolved, tables
  <2>2. \A t, i : ~InHand(t, i)
    BY <2>1 DEF InHand
  <2>3. ASSUME NEW t \in Tickets, NEW i \in Incidents, i = Head(queue).incident,
               <<t, i>> \in links
        PROVE  InHand(t, i)'
    BY <1>0, <1>14, <2>1, <2>3 DEF TakeResolved, HandleResolved, LinkedTickets, InHand,
                                   TypeOK
  <2> SUFFICES ASSUME NEW t \in Tickets, NEW i \in heard' \ repeated',
                      <<t, i>> \in links', <<t, i>> \notin excused', ~InHand(t, i)'
               PROVE  zammad'[t] # "open"
    BY DEF HeardIsClosed
  <2>4. i # Head(queue).incident
    BY <1>0, <2>1, <2>3 DEF TypeOK
  <2> QED
    BY <1>0, <2>1, <2>2, <2>4 DEF HeardIsClosed
<1>15. ASSUME NEW t \in Tickets, CloseTicket(t)
       PROVE  HeardIsClosed'
  BY <1>0, <1>15 DEF CloseTicket, DoneWith, HeardIsClosed, InHand, Phases, history,
                     tables, TypeOK
<1>16. ASSUME NEW t \in Tickets, CloseTicketFails(t)
       PROVE  HeardIsClosed'
  BY <1>0, <1>16 DEF CloseTicketFails, DoneWith, HeardIsClosed, InHand, tables
<1>17. CASE EventFails \/ SkipToEnd \/ UNCHANGED vars
  BY <1>1, <1>17 DEF EventFails, HandlingFails, SkipToEnd, PassOver, vars, history, tables
<1>18. CASE Crash
  <2>1. \A t \in Tickets : incident \in Incidents => <<t, incident>> \in excused'
    BY <1>18 DEF Crash
  <2>2. excused \subseteq excused' /\ UNCHANGED <<links, zammad, heard, repeated>>
    BY <1>18 DEF Crash, tables
  <2> SUFFICES ASSUME NEW t \in Tickets, NEW i \in heard' \ repeated',
                      <<t, i>> \in links', <<t, i>> \notin excused'
               PROVE  zammad'[t] # "open"
    BY DEF HeardIsClosed
  <2>3. ~InHand(t, i)
    BY <1>0, <2>1, <2>2 DEF InHand, TypeOK
  <2> QED
    BY <1>0, <2>2, <2>3 DEF HeardIsClosed
<1> QED
  BY <1>3, <1>6, <1>7, <1>8, <1>9, <1>10, <1>11, <1>12, <1>13, <1>14, <1>15, <1>16,
     <1>17, <1>18, Handling
     DEF Next, Work

(* A resolution that is passed over is accounted for.                      *)
LEMMA PassedOver ==
  ASSUME NEW events \in Seq(Event), PassOver(events), NEW k \in DOMAIN events,
         NEW i \in Incidents, events[k] = [kind |-> "resolved", incident |-> i]
  PROVE  \A t \in Tickets : <<t, i>> \in excused'
<1>1. i \in Unheard(events)
  BY DEF Unheard
<1> QED
  BY <1>1 DEF PassOver

(* A resolution that stops waiting is heard, or passed over.               *)
LEMMA AccountedStep == IInv /\ [Next]_vars => Accounted'
<1> SUFFICES ASSUME IInv, [Next]_vars PROVE Accounted'
  OBVIOUS
<1>0. TypeOK /\ Accounted
  BY DEF IInv
<1>1. CASE UNCHANGED <<status, queue>> /\ heard \subseteq heard' /\ excused \subseteq excused'
  BY <1>0, <1>1 DEF Accounted
<1>2. CASE NightOwlStep
  <2>1. PICK kind \in {"created", "resolved"}, i \in Incidents :
          NightOwlSends(kind, i) /\ Enqueue(kind, i)
    BY <1>2 DEF NightOwlStep
  <2> DEFINE e == [kind |-> kind, incident |-> i]
  <2>2. \A j \in Incidents : j # i => status'[j] = status[j]
    BY <1>0, <2>1 DEF NightOwlSends, IncidentCreated, IncidentResolved, Redeliver, TypeOK
  <2>3. \/ status'[i] = status[i] \/ kind = "resolved" \/ status'[i] = "open"
    BY <1>0, <2>1 DEF NightOwlSends, IncidentCreated, IncidentResolved, Redeliver, TypeOK
  <2>4. heard' = heard /\ excused \subseteq excused'
    BY <1>2, NightOwlKeeps
  <2>5. CASE queue' = Append(queue, e)
    <3>1. PICK n \in Int : QueuedAt(n, kind, i)
      BY <1>0, <2>5, Sent
    <3>2. queue'[n] = e
      BY <1>0, <2>5, <3>1 DEF QueuedAt, TypeOK
    <3> QED
      BY <1>0, <2>2, <2>3, <2>4, <3>1, <3>2 DEF QueuedAt, Accounted
  <2>6. CASE queue' = queue /\ PassOver(<<e>>)
    <3>1. <<e>> \in Seq(Event) /\ 1 \in DOMAIN <<e>> /\ <<e>>[1] = e
      BY DEF Event
    <3>2. kind = "resolved" => \A t \in Tickets : <<t, i>> \in excused'
      BY <2>6, <3>1, PassedOver
    <3> QED
      BY <1>0, <2>2, <2>3, <2>4, <2>6, <3>2 DEF Accounted
  <2> QED
    BY <2>1, <2>5, <2>6 DEF Enqueue
<1>3. CASE AgentStep
  BY <1>1, <1>3
     DEF AgentStep, UpdateAutoTicketRule, AgentCreates, AgentCloses, AgentReopens,
         AgentDeletes, LinkIncident, UnlinkIncident, history
<1>4. ASSUME queue # <<>>, queue' = Tail(queue), UNCHANGED status,
             heard \subseteq heard', excused \subseteq excused',
             \A i \in Incidents :
               Head(queue) = [kind |-> "resolved", incident |-> i]
                 => i \in heard' \/ \A t \in Tickets : <<t, i>> \in excused'
      PROVE  Accounted'
  <2>1. /\ DOMAIN queue = 1 .. Len(queue) /\ Len(queue) \in Nat /\ Len(queue) > 0
        /\ DOMAIN queue' = 1 .. Len(queue) - 1 /\ Head(queue) = queue[1]
        /\ \A k \in 1 .. Len(queue) - 1 : queue'[k] = queue[k + 1]
    BY <1>0, <1>4, HeadTailProperties, LenProperties, EmptySeq DEF TypeOK
  <2>2. \A k \in DOMAIN queue : k = 1 \/ (k - 1 \in DOMAIN queue' /\ queue'[k - 1] = queue[k])
    BY <2>1
  <2>3. ASSUME NEW i \in Incidents, NEW k \in DOMAIN queue,
               queue[k] = [kind |-> "resolved", incident |-> i]
        PROVE  \/ i \in heard' \/ \A t \in Tickets : <<t, i>> \in excused'
               \/ \E j \in DOMAIN queue' : queue'[j] = [kind |-> "resolved", incident |-> i]
    <3>1. CASE k = 1
      BY <1>4, <2>1, <2>3, <3>1
    <3>2. CASE k # 1
      <4>1. k - 1 \in DOMAIN queue' /\ queue'[k - 1] = queue[k]
        BY <2>2, <3>2
      <4> QED
        BY <2>3, <4>1
    <3> QED
      BY <3>1, <3>2
  <2>4. ASSUME NEW i \in Incidents, i \in heard \/ \A t \in Tickets : <<t, i>> \in excused
        PROVE  i \in heard' \/ \A t \in Tickets : <<t, i>> \in excused'
    BY <1>4, <2>4
  <2> QED
    BY <1>0, <1>4, <2>3, <2>4 DEF Accounted
<1>5. CASE TakeCreated
  BY <1>4, <1>5 DEF TakeCreated, HandleCreated, history
<1>6. CASE TakeResolved
  BY <1>4, <1>6 DEF TakeResolved, HandleResolved
<1>7. CASE EventFails
  <2>1. <<Head(queue)>> \in Seq(Event) /\ <<Head(queue)>>[1] = Head(queue)
        /\ 1 \in DOMAIN <<Head(queue)>>
    BY <1>0, <1>7, Taken DEF EventFails
  <2> QED
    BY <1>4, <1>7, <2>1, PassedOver DEF EventFails, HandlingFails, PassOver
<1>8. CASE HandlerStep
  BY <1>1, <1>5, <1>6, <1>7, <1>8, Handling
     DEF Work, CreateTicket, CreateTicketFails, UpsertMeta, UpsertMetaFails,
         CreateIncidentLink, CreateIncidentLinkFails, CloseTicket, CloseTicketFails, history
<1>9. CASE SkipToEnd
  <2>1. queue \in Seq(Event)
    BY <1>0 DEF TypeOK
  <2> QED
    BY <1>0, <1>9, <2>1, PassedOver DEF SkipToEnd, PassOver, Accounted
<1>10. CASE Crash
  <2>1. \A i \in Incidents :
          (\E k \in DOMAIN queue : queue[k] = [kind |-> "resolved", incident |-> i])
            => i \in Unheard(queue)
    BY DEF Unheard
  <2>2. \A i \in Unheard(queue) \cap Incidents : \A t \in Tickets : <<t, i>> \in excused'
    BY <1>10 DEF Crash
  <2>3. UNCHANGED <<status, heard>> /\ excused \subseteq excused'
    BY <1>10 DEF Crash
  <2> QED
    BY <1>0, <2>1, <2>2, <2>3 DEF Accounted
<1>11. CASE UNCHANGED vars \/ \E t \in Tickets : CreateTicketUnheard(t)
  BY <1>1, <1>11 DEF vars, CreateTicketUnheard, history
<1> QED
  BY <1>2, <1>3, <1>8, <1>9, <1>10, <1>11 DEF Next

(* A rule is struck off when its ticket is made, and an incident whose     *)
(* events come once is taken up once.                                      *)
LEMMA OneTicketStep == IInv /\ [Next]_vars => OneTicketPerRule'
<1> SUFFICES ASSUME IInv, [Next]_vars PROVE OneTicketPerRule'
  OBVIOUS
<1>0. TypeOK /\ BeforeResolution /\ OneTicketPerRule
  BY DEF IInv
<1>1. CASE UNCHANGED origin /\ repeated \subseteq repeated'
  BY <1>0, <1>1 DEF OneTicketPerRule
<1>2. ASSUME NEW r \in RuleIds, NEW t \in Tickets, CreateTicket(r, t)
      PROVE  OneTicketPerRule'
  <2>1. /\ origin' = [origin EXCEPT ![t] = {<<incident, r>>}]
        /\ repeated' = repeated /\ r \in todoRules
    BY <1>2 DEF CreateTicket
  <2>2. ASSUME NEW u \in Tickets, origin[u] = {<<incident, r>>}
        PROVE  incident \in repeated
    BY <1>0, <2>1, <2>2 DEF BeforeResolution, Made
  <2>3. <<incident, r>>[1] = incident
    OBVIOUS
  <2> QED
    BY <1>0, <2>1, <2>2, <2>3 DEF OneTicketPerRule, TypeOK
<1>3. CASE HandlerStep
  BY <1>1, <1>2, <1>3, Handling
     DEF Work, TakeCreated, HandleCreated, CreateTicketFails, UpsertMeta, UpsertMetaFails,
         CreateIncidentLink, CreateIncidentLinkFails, TakeResolved, HandleResolved,
         CloseTicket,
         CloseTicketFails, EventFails, HandlingFails, PassOver, history
<1>4. CASE NightOwlStep \/ AgentStep
  BY <1>1, <1>4, NightOwlKeeps
     DEF AgentStep, UpdateAutoTicketRule, AgentCreates, AgentCloses, AgentReopens,
         AgentDeletes, LinkIncident, UnlinkIncident, history
<1>5. CASE SkipToEnd \/ Crash \/ UNCHANGED vars \/ \E t \in Tickets : CreateTicketUnheard(t)
  BY <1>1, <1>5 DEF SkipToEnd, Crash, vars, CreateTicketUnheard, history
<1> QED
  BY <1>3, <1>4, <1>5 DEF Next

-----------------------------------------------------------------------------
(* The inductive invariant holds in every reachable state.                 *)
THEOREM Invariance == Spec => []IInv
<1>1. Init => IInv
  BY InitIInv
<1>2. IInv /\ [Next]_vars => IInv'
  BY TypeStep, PhasesStep, OriginsStep, EventsStep, UnbornStep, BeforeStep, LinkedStep,
     ClosedStep, AccountedStep, OneTicketStep DEF IInv
<1> QED
  BY <1>1, <1>2, PTL DEF Spec

(* Every variable keeps its type.                                          *)
THEOREM TypeCorrect == Spec => []TypeOK
<1>1. IInv => TypeOK
  BY DEF IInv
<1> QED
  BY <1>1, Invariance, PTL

(* Whatever agents link, unlink, close and reopen meanwhile, no ticket     *)
(* linked to a resolved incident stays open once the resolution no longer  *)
(* waits, unless it is accounted for: a failure, an agent or an event that *)
(* came again.                                                             *)
THEOREM ResolvedAlwaysClosed == Spec => []ResolvedIsClosed
<1>1. IInv => ResolvedIsClosed
  BY DEF IInv, TypeOK, HeardIsClosed, Accounted, ResolvedIsClosed, Over
<1> QED
  BY <1>1, Invariance, PTL

(* The tickets made for an incident do not outlive it: each is linked when *)
(* the resolution is read, since the resolution comes after the creation.  *)
THEOREM AutoTicketAlwaysCloses == Spec => []AutoTicketCloses
<1>1. IInv => AutoTicketCloses
  BY DEF IInv, TypeOK, Linked, HeardIsClosed, Accounted, AutoTicketCloses, Over, InHand,
         Creating
<1> QED
  BY <1>1, Invariance, PTL

(* An incident whose events come once gets one ticket of a rule.           *)
THEOREM AlwaysOneTicketPerRule == Spec => []OneTicketPerRule
<1>1. IInv => OneTicketPerRule
  BY DEF IInv
<1> QED
  BY <1>1, Invariance, PTL

-----------------------------------------------------------------------------
(* What ResolutionCloses rests on besides fairness: how many steps the     *)
(* handler has still to take with the event in hand, three for each rule   *)
(* and one for each ticket.                                                *)
StepsLeft ==
  3 * Cardinality(todoRules) + Cardinality(todo)
    + (CASE pc = "meta" -> 2 [] pc = "link" -> 1 [] OTHER -> 0)

(* There is an event in hand as long as there is something to do for it.   *)
InHandHasWork ==
  /\ pc = "rules" => todoRules # {}
  /\ pc = "close" => todo # {}

LEMMA InHandStep == IInv /\ InHandHasWork /\ [Next]_vars => InHandHasWork'
<1> SUFFICES ASSUME IInv, InHandHasWork, [Next]_vars PROVE InHandHasWork'
  OBVIOUS
<1>1. CASE TakeCreated
  BY <1>1 DEF TakeCreated, HandleCreated, InHandHasWork, handler
<1>2. CASE TakeResolved
  BY <1>2 DEF TakeResolved, HandleResolved, InHandHasWork, handler
<1>3. CASE Work
  BY <1>3 DEF Work, CreateTicket, CreateTicketFails, UpsertMeta, UpsertMetaFails,
              CreateIncidentLink, CreateIncidentLinkFails, NextRule, HandlerIdle,
              CloseTicket, CloseTicketFails, DoneWith, InHandHasWork
<1>4. CASE EventFails \/ NightOwlStep
  BY <1>4, NightOwlKeeps DEF EventFails, HandlingFails, InHandHasWork, handler
<1>5. CASE AgentStep \/ SkipToEnd \/ UNCHANGED vars \/ \E t \in Tickets : CreateTicketUnheard(t)
  BY <1>5 DEF AgentStep, UpdateAutoTicketRule, AgentCreates, AgentCloses, AgentReopens,
              AgentDeletes, LinkIncident, UnlinkIncident, SkipToEnd, CreateTicketUnheard,
              InHandHasWork, handler, vars
<1>6. CASE Crash
  BY <1>6 DEF Crash, HandlerIdle, InHandHasWork
<1> QED
  BY <1>1, <1>2, <1>3, <1>4, <1>5, <1>6, Handling DEF Next

(* The sets the handler works through, and what taking one element does.   *)
LEMMA WorkShrinks ==
  ASSUME IsFiniteSet(RuleIds), TypeOK
  PROVE  /\ Cardinality(todoRules) \in Nat /\ Cardinality(todo) \in Nat
         /\ \A r \in todoRules : Cardinality(todoRules \ {r}) = Cardinality(todoRules) - 1
         /\ \A t \in todo : Cardinality(todo \ {t}) = Cardinality(todo) - 1
         /\ Cardinality({}) = 0
         /\ todoRules # {} => Cardinality(todoRules) > 0
         /\ todo # {} => Cardinality(todo) > 0
<1>1. IsFiniteSet(todoRules) /\ IsFiniteSet(todo)
  <2>1. IsFiniteSet(Tickets)
    BY BoundsAssumption, FS_Interval DEF Tickets
  <2>2. QED
    BY <2>1, FS_Subset DEF TypeOK
<1>2. Cardinality(todoRules) \in Nat /\ Cardinality(todo) \in Nat
  BY <1>1, FS_CardinalityType
<1>3. QED
  BY <1>1, <1>2, FS_RemoveElement, FS_EmptySet

(* The handler is done with an event in a number of steps fixed when it    *)
(* has taken it: each of its steps leaves fewer, whatever fails, and       *)
(* nobody else adds one, so no incident keeps the events behind it waiting *)
(* for ever.                                                               *)
THEOREM EveryStepEndsAnEvent ==
  ASSUME IsFiniteSet(RuleIds)
  PROVE  Spec => [][/\ StepsLeft \in Nat
                    /\ pc # "idle" <=> StepsLeft > 0
                    /\ Work => StepsLeft' < StepsLeft
                    /\ StepsLeft' > StepsLeft => TakeEvent]_vars
<1>1. ASSUME IInv, InHandHasWork, [Next]_vars
      PROVE  [/\ StepsLeft \in Nat
              /\ pc # "idle" <=> StepsLeft > 0
              /\ Work => StepsLeft' < StepsLeft
              /\ StepsLeft' > StepsLeft => TakeEvent]_vars
  <2> DEFINE rulesLeft == Cardinality(todoRules)
             ticketsLeft == Cardinality(todo)
  <2>0. /\ TypeOK /\ Phases
        /\ pc \in {"idle", "rules", "meta", "link", "close"}
    BY <1>1 DEF IInv, TypeOK
  <2>1. /\ rulesLeft \in Nat /\ ticketsLeft \in Nat
        /\ \A r \in todoRules : Cardinality(todoRules \ {r}) = rulesLeft - 1
        /\ \A t \in todo : Cardinality(todo \ {t}) = ticketsLeft - 1
        /\ Cardinality({}) = 0
        /\ todoRules # {} => rulesLeft > 0
        /\ todo # {} => ticketsLeft > 0
    BY <2>0, WorkShrinks
  <2>2. StepsLeft = 3 * rulesLeft + ticketsLeft
                      + (IF pc = "meta" THEN 2 ELSE IF pc = "link" THEN 1 ELSE 0)
    BY <2>0 DEF StepsLeft
  <2>3. StepsLeft' = 3 * rulesLeft' + ticketsLeft'
                      + (IF pc' = "meta" THEN 2 ELSE IF pc' = "link" THEN 1 ELSE 0)
    BY DEF StepsLeft
  <2>4. StepsLeft \in Nat
    BY <2>1, <2>2
  <2>5. pc # "idle" <=> StepsLeft > 0
    <3>1. CASE pc = "idle"
      <4>1. rulesLeft = 0 /\ ticketsLeft = 0
        BY <2>0, <2>1, <3>1 DEF Phases
      <4>2. QED
        BY <2>2, <3>1, <4>1
    <3>2. CASE pc \in {"rules", "close"}
      <4>1. rulesLeft > 0 \/ ticketsLeft > 0
        BY <1>1, <2>1, <3>2 DEF InHandHasWork
      <4>2. QED
        BY <2>1, <2>2, <3>2, <4>1
    <3>3. CASE pc \in {"meta", "link"}
      BY <2>1, <2>2, <3>3
    <3>4. QED
      BY <2>0, <3>1, <3>2, <3>3
  <2>6. ASSUME Work PROVE StepsLeft' \in Int /\ StepsLeft' < StepsLeft
    <3>1. CASE \E r \in RuleIds, t \in Tickets : CreateTicket(r, t)
      <4>1. PICK r \in todoRules : todoRules' = todoRules \ {r}
        BY <3>1 DEF CreateTicket
      <4>2. pc = "rules" /\ pc' = "meta" /\ ticketsLeft' = ticketsLeft
        BY <3>1 DEF CreateTicket
      <4>3. QED
        BY <2>1, <2>2, <2>3, <4>1, <4>2
    <3>2. CASE \E r \in RuleIds : CreateTicketFails(r)
      <4>1. PICK r \in todoRules : todoRules' = todoRules \ {r}
        BY <3>2 DEF CreateTicketFails
      <4>2. pc = "rules" /\ pc' \in {"rules", "idle"} /\ ticketsLeft' = ticketsLeft
        BY <3>2 DEF CreateTicketFails
      <4>3. QED
        BY <2>1, <2>2, <2>3, <4>1, <4>2
    <3>3. CASE UpsertMeta
      BY <2>1, <2>2, <2>3, <3>3 DEF UpsertMeta
    <3>4. CASE UpsertMetaFails \/ CreateIncidentLink \/ CreateIncidentLinkFails
      <4>1. pc \in {"meta", "link"} /\ NextRule /\ todo = {}
        BY <2>0, <3>4 DEF UpsertMetaFails, CreateIncidentLink, CreateIncidentLinkFails,
                          Phases, Creating
      <4>2. todoRules' = todoRules /\ todo' = todo /\ pc' \in {"rules", "idle"}
        BY <4>1 DEF NextRule, HandlerIdle
      <4>3. QED
        BY <2>1, <2>2, <2>3, <4>1, <4>2
    <3>5. CASE \E t \in Tickets : CloseTicket(t) \/ CloseTicketFails(t)
      <4>1. PICK t \in todo : todo' = todo \ {t}
        BY <3>5 DEF CloseTicket, CloseTicketFails, DoneWith
      <4>2. pc = "close" /\ pc' \in {"close", "idle"} /\ rulesLeft' = rulesLeft
        BY <3>5 DEF CloseTicket, CloseTicketFails, DoneWith
      <4>3. QED
        BY <2>1, <2>2, <2>3, <4>1, <4>2
    <3>6. QED
      BY <2>6, <3>1, <3>2, <3>3, <3>4, <3>5 DEF Work
  <2>7. ASSUME StepsLeft' > StepsLeft PROVE TakeEvent \/ UNCHANGED vars
    <3>1. CASE Work
      BY <2>1, <2>4, <2>6, <2>7, <3>1
    <3>2. CASE Crash
      <4>1. StepsLeft' = 0
        BY <2>1, <2>3, <3>2 DEF Crash, HandlerIdle
      <4>2. QED
        BY <2>4, <2>7, <4>1
    <3>3. CASE NightOwlStep \/ AgentStep \/ SkipToEnd
               \/ \E t \in Tickets : CreateTicketUnheard(t)
      <4>1. UNCHANGED <<pc, todoRules, todo>>
        BY <3>3, NightOwlKeeps
           DEF AgentStep, UpdateAutoTicketRule, AgentCreates, AgentCloses, AgentReopens,
               AgentDeletes, LinkIncident, UnlinkIncident, SkipToEnd,
               CreateTicketUnheard, handler
      <4>2. QED
        BY <2>2, <2>3, <2>4, <2>7, <4>1
    <3>4. QED
      BY <1>1, <3>1, <3>2, <3>3 DEF Next, HandlerStep
  <2>8. QED
    BY <2>4, <2>5, <2>6, <2>7
<1>2. Init => InHandHasWork
  BY DEF Init, InHandHasWork
<1>3. QED
  BY <1>1, <1>2, InHandStep, Invariance, PTL DEF Spec

-----------------------------------------------------------------------------
(* An incident that becomes more severe matches every rule it matched.     *)
THEOREM SevereIncidentsMatchMore ==
  ASSUME NEW table, NEW mild, NEW severe, mild.service = severe.service,
         SeverityRank(mild.severity) <= SeverityRank(severe.severity)
  PROVE  FindMatchingRules(table, mild) \subseteq FindMatchingRules(table, severe)
<1>1. \A s : SeverityRank(s) \in 0 .. 4
  BY DEF SeverityRank
<1>2. ASSUME NEW rule, MatchesSeverity(rule, mild) PROVE MatchesSeverity(rule, severe)
  BY <1>1, <1>2 DEF MatchesSeverity
<1>3. QED
  BY <1>2 DEF FindMatchingRules, MatchRule
=============================================================================
