--------------------------- MODULE IncidentWorker ---------------------------
(***************************************************************************)
(* The worker and what it does with NightOwl's incidents, as one system:   *)
(* the webhook appends the events of the incidents to the tenant's stream, *)
(* the event processor inside the worker (Worker, EventStream) reads them  *)
(* in batches and hands them, one at a time, to the handler that opens and *)
(* closes Zammad tickets (IncidentSync).                                   *)
(*                                                                         *)
(* IncidentSync speaks of a queue of waiting events.  There is none: there *)
(* is a log, a place in it that only the processor remembers, and a worker *)
(* that is stopped, dies and is started again.  That this system           *)
(* implements IncidentSync says that its queue is a true picture.          *)
(*                                                                         *)
(* A worker that is told to stop hands over the rest of its batch with a   *)
(* cancelled context: the handler's queries and calls fail or still        *)
(* succeed, as they do under the faults "db" and "api".                    *)
(*                                                                         *)
(* Left out: the events of Zammad, which come between these in the same    *)
(* stream and concern none of the variables here.                          *)
(***************************************************************************)
EXTENDS Worker

CONSTANTS
  Incidents, Facts, RuleIds, RuleShapes, MaxTickets, AgentTickets

VARIABLES
  log,        \* what the messages 1 .. sent of the stream say
  rules,      \* this and the following: see IncidentSync
  status, zammad, known, links,
  hPc,        \* pc of IncidentSync
  incident, todoRules, todo, ticket,
  origin, heard, repeated, excused

(* The processor's place: it has yet to be given what comes after it.      *)
Place ==
  CASE pc \in {"blocked", "dispatch"} -> from
    [] pc = "read" /\ lastID # Dollar -> lastID
    [] OTHER -> sent

Waiting == SubSeq(log, Place + 1, sent)

Sync == INSTANCE IncidentSync
          WITH pc <- hPc, queue <- Waiting, MaxQueue <- MaxSent

ASSUME SystemAssumption ==
  MaxTickets \in Nat /\ AgentTickets \in Nat /\ Sync!NoIncident \notin Incidents

stream == <<workerVars, log>>
desk == <<rules, status, zammad, known, links, hPc, incident, todoRules, todo,
          ticket, origin, heard, repeated>>
allVars == <<stream, desk, excused>>

SystemInit ==
  /\ WorkerInit
  /\ log = <<>>
  /\ Sync!Init

-----------------------------------------------------------------------------
(* The incidents whose resolution the step passes over.                    *)
Unheard ==
  {log'[k].incident : k \in {j \in Missed' \ Missed : log'[j].kind = "resolved"}}

PassOver == excused' = excused \cup Sync!Tickets \X Unheard

(* A step of the worker while its handler has nothing in hand.             *)
Quietly(step) == step /\ UNCHANGED <<log, desk>> /\ PassOver

(* NightOwl's webhook appends an event to the stream.                      *)
Accept(kind, i) ==
  /\ TenantPush
  /\ log' = Append(log, [kind |-> kind, incident |-> i])
  /\ Sync!NightOwlSends(kind, i)
  /\ PassOver

(* A variant of the next action: a bug the runs must find.                 *)
ProcessAtOnce ==
  /\ HandOver
  /\ UNCHANGED log
  /\ Sync!Handle(log[from + 1])

(* processMessage, called by the processor's loop, which waits for it.     *)
Process ==
  /\ hPc = "idle"
  /\ HandOver
  /\ UNCHANGED log
  /\ Sync!Handle(log[from + 1])

HandlerWorks == UNCHANGED stream /\ Sync!Work

(* The loop, while it is not waiting for the handler.                      *)
Reads(step) == hPc = "idle" /\ Quietly(step)

(* The event in hand is lost as well.                                      *)
SystemCrash ==
  /\ CrashWorker
  /\ Sync!HandlerIdle
  /\ UNCHANGED <<log, status, zammad, rules, known, links, origin, heard, repeated>>
  /\ excused' = excused \cup Sync!Tickets \X (Unheard \cup (Incidents \cap {incident}))

WorkerLife ==
  TenantStep \/ StartWorker \/ SignalWorker \/ StopPoller \/ EndWorker

SystemNext ==
  \/ Quietly(WorkerLife)
  \/ \E kind \in {"created", "resolved"}, i \in Incidents : Accept(kind, i)
  \/ Reads(StartRead \/ EndRead \/ StopReading) \/ Process \/ HandlerWorks \/ SystemCrash
  \/ UNCHANGED stream
       /\ \/ Sync!AgentStep
          \/ \E t \in Sync!Tickets : Sync!CreateTicketUnheard(t)

SystemSpec == SystemInit /\ [][SystemNext]_allVars

(* The orchestrator starts the worker again; the loops and the handler go  *)
(* on, and end when they are told to: every wait in them watches the       *)
(* context.  XREAD does not fail for ever.                                 *)
SystemFairness ==
  /\ WF_allVars(Quietly(StartWorker))
  /\ WF_allVars(Quietly(StopPoller))
  /\ WF_allVars(Quietly(EndWorker))
  /\ WF_allVars(Reads(StartRead))
  /\ SF_allVars(Reads(XReadReturn /\ UNCHANGED life))
  /\ WF_allVars(Reads(StopReading))
  /\ WF_allVars(Process)
  /\ WF_allVars(HandlerWorks)

FairSystemSpec == SystemSpec /\ SystemFairness

-----------------------------------------------------------------------------
(* Properties.                                                             *)

(* The system implements IncidentSync: with the part of the log that its   *)
(* processor will still read for the queue, every event is handled in the  *)
(* order it was sent, and those that restarts, failed reads and stopped    *)
(* workers pass over are exactly those IncidentSync accounts for.          *)
ImplementsSync == Sync!Spec
=============================================================================
