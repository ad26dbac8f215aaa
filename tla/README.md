# TicketOwl: formal models and proofs

TicketOwl is a ticket portal in front of Zammad, with SLA tracking, customer
access and links to two sister systems: NightOwl (incidents, on-call, alerts)
and BookOwl (articles, post-mortems). This directory holds TLA+ models of its
core logic, TLC configurations that check them on small instances, and proofs
that TLAPS checks for every value of the constants.

Paths below are relative to the repository. `PROJECT.json` maps every
definition that models code to its file and lines.

    tlc -workers 2 -config SlaWorker.cfg MCSlaWorker
    tlapm SlaWorkerTheorems.tla

## 1. The system

Two processes of one binary share a PostgreSQL database (one schema per tenant)
and a Redis server: the API process (`internal/app/app.go`, HTTP handlers and
webhook receivers) and the worker process (one `worker.Worker` per tenant, each
with two goroutines). The worker runs as a single replica
(`charts/ticketowl/values.yaml:38-40`, `docs/10-deployment.md:115`).

| Component | Code | State | Operations | Interacts with |
|---|---|---|---|---|
| SLA poller | `internal/worker/slapoller.go`, `store.go` | rows of `sla_states` read and written back | every tick: page breached rows, mark warnings | database, NightOwl (alerts) |
| Ticket event handler | `internal/worker/resolve.go:150-329` | `ticket_meta`, `sla_states` | ticket.create, ticket.update | stream, database |
| Incident event handler | `internal/worker/resolve.go:331-500` | `ticket_meta`, `incident_links` | incident.created opens tickets, incident.resolved closes them | stream, database, Zammad |
| Auto-ticket rules | `internal/worker/autoticket.go` | none (pure) | which rules match an incident | incident handler |
| Event stream | `internal/webhook/`, `internal/worker/eventprocessor.go` | Redis stream; `lastID` in memory | XADD by webhooks, XREAD by the processor | Zammad, NightOwl |
| API clients | `internal/zammad`, `internal/nightowl`, `internal/bookowl` (`client.go`) | none between calls | `do`: a call with retries | the three services |
| Ticket creation | `internal/ticket/service.go`, `internal/zammad/users.go` | `ticket_meta` | POST /tickets | Zammad, event handler |
| Post-mortems | `internal/ticket/postmortem.go` | `postmortem_links` | POST /tickets/{id}/postmortem | BookOwl, NightOwl |
| Links | `internal/link` | `incident_links`, `article_links` | link, unlink, list | NightOwl, BookOwl |
| On-call assignment | `internal/worker/resolve.go:77-143` | none | last part of both handlers: group, roster, who is on call, owner in Zammad | database, NightOwl, Zammad |
| SLA policies | `internal/sla` | `sla_policies` | CRUD; `ComputeState`, which no production code reaches | database |
| Administration | `internal/admin` | `auto_ticket_rules`, orgs, `integration_keys`, roster mappings, `zammad_config` | CRUD | database |
| Client resolver | `internal/clientresolver` | none | builds a client from its row for every request and event | administration |
| Customer portal, comments | `internal/customer`, `internal/comment` | `internal_notes` | filtered views, merged threads, replies, notes | Zammad, `customer_orgs`, links |
| Worker lifecycle | `internal/worker/worker.go`, `internal/app/app.go:299-372` | none | list the tenants once, start and stop two goroutines each | all of the worker, orchestrator |
| Seeding | `internal/seed` | a tenant: its row, key, administrator, schema and first rows | `seed`, `seed-demo` | database, provisioning library |
| Notification | `internal/notification` | none | `AlertSLABreach` | NightOwl |
| Others | suggestions, auth adapter, config, telemetry, `web/` | | no protocol of their own | |

### What is hard

- **Lost updates.** The poller and the event handler read a row of
  `sla_states`, compute, and write *all* of it back with the same upsert. No
  transaction, version or lock spans the read and the write, and between them
  the poller makes an HTTP call that may take minutes.
- **A place kept in memory.** The stream is read with XREAD from `"$"`, not
  with a consumer group. Errors, timeouts, batches and restarts must not
  deliver twice or out of order, and must not lose more than they have to.
- **Order.** incident.resolved closes the tickets that incident.created has
  opened and linked; agents link, unlink, close and reopen at the same time.
- **Calls to three services** that time out, are repeated, or are carried out
  although their answer was lost.
- **Check then act** around a remote call: post-mortems, accounts in Zammad.
- **Several reads for one answer.** A portal request reads the customer's
  organisation, the ticket, its thread and TicketOwl's tables one after the
  other; each may have changed since the one before.
- **A process that is stopped.** Two goroutines of a tenant, a batch in hand and a
  poll in the middle, on a context that is cancelled; a successor that starts
  from a fresh listing of the tenants.
- **Many statements, no transaction.** The seed modes create a tenant by a dozen
  statements in three schemas, any of which may be the last; they are retried and
  may meet one another.
- **Partial failure.** Most errors of the worker are logged and the event is
  dropped; what was written before stays.

### What makes each component correct

- Poller and ticket handler: no interleaving makes a row of `sla_states`
  inconsistent; a deadline moves by exactly the pause that was accumulated;
  pages are neither lost nor repeated without a lost record; the breach of a
  running clock is paged in the end; a ticket Zammad has reopened is not left
  paused.
- Stream: at most once, in order; no gap while the processor runs. Worker: no
  loop survives its process; a tenant is served by the next one.
- Incident handler: tickets linked to a resolved incident get closed; one
  ticket for each rule and incident.
- Clients: repeated only when nothing was answered or the server failed; every
  attempt is used before giving up; every call ends.
- Post-mortems: one link for a ticket, for ever; no answer names a document
  that is not the linked one.
- Ticket creation: what the caller is told of is recorded; policies survive and
  fit; a ticket with a policy is watched; who becomes owner was on call.
- Policies: one that is edited or deleted while a ticket is being handled leaves the
  ticket with a policy that fits or with none.
- Portal: its routes serve a caller what his organisation owns and nothing else, and
  a failure costs an answer no more than the part it hit.
- Configuration: what the administrator stored is what clients use.
- Seeding: success means that everything is there, nothing is there twice, and
  `seed-demo` recovers from what earlier runs have left.

## 2. The modules

| Module | Models | Runs and theorems |
|---|---|---|
| `SlaRow` | one row of `sla_states` and what both goroutines compute from it (pure) | `SlaWorkerTheorems` |
| `SlaClock` | `ComputeState` (pure); EXTENDS `SlaRow` | through `SlaWorker` |
| `SlaWorker` | poller, ticket handler, clock, administrator, NightOwl's pager, crashes; EXTENDS `SlaClock` | `SlaWorker*.cfg`, `SlaWorkerTheorems` |
| `EventDelivery` | abstract specification: at most once, in order | refined by `EventStream` and `Worker` |
| `EventStream` | XADD, XREAD, dispatch, stop, crash | `WorkerTheorems` |
| `Worker` | the process around it: tenants, start, signal, waits, crash, restart; EXTENDS `EventStream` | through `IncidentWorker`, `WorkerTheorems` |
| `AutoTicketRule` | `MatchRule`, `FindMatchingRules` (pure) | through `IncidentSync` |
| `IncidentSync` | incident handler, NightOwl, agents, administrator, Zammad's tickets; EXTENDS `AutoTicketRule` | `IncidentSync.cfg`, `IncidentSyncTheorems` |
| `IncidentWorker` | worker, stream and incident handler as one system, which implements `IncidentSync`; EXTENDS `Worker` | `EventStream.cfg`, `WorkerTheorems` |
| `ApiClient` | the retry loop `do` with a server and a network | `ApiClient*.cfg`, `ApiClientTheorems` |
| `WriteOnce` | abstract specification: a register for each ticket, written once | refined by `PostMortem` |
| `PostMortem` | concurrent post-mortem requests | `PostMortem.cfg`, `PostMortemTheorems` |
| `SlaPolicies` | `sla_policies`, its unique constraint and the requests that change it | through `TicketCreate` |
| `AutoAssign` | `autoAssignTicket`, with mappings, shifts and agents that change meanwhile | through `TicketCreate` |
| `TicketCreate` | concurrent ticket requests, Zammad's accounts and its search index, the event handlers that record tickets; EXTENDS `SlaPolicies`, `AutoAssign` | `TicketCreate*.cfg`, `TicketCreateTheorems` |
| `Portal` | the requests on the portal and on the comment thread, whoever makes them, with administrators and agents who change what they read meanwhile | `Portal.cfg`, `PortalTheorems` |
| `Configuration` | `zammad_config`, `integration_keys` and the clients built from them | `Configuration.cfg` |
| `Seeding` | concurrent, interrupted and repeated runs of `seed` and `seed-demo` | `Seeding.cfg`, `SeedingTheorems` |
| `MCSlaWorker`, `MCIncidentSync`, `MCIncidentWorker`, `MCTicketCreate`, `MCPortal`, `MCSeeding` | values for the constants | |

The operators `...Again`, `...Swapped`, `...EvenPaused` and the like, under the
comment "Variants", are seeded bugs. No action uses them; each is listed in
`PROJECT.json` under `mutants` with the property that fails when it takes the
place of the definition it varies, which shows that the property has teeth.

### SlaWorker

A read and the write that depends on it are two actions; reads with no write in
between are one. `hPc` is the place of the event handler: `assign` between the
policy lookup and its assignment in handleTicketCreate (`resolve.go:211-216`),
`write` before UpsertState. `pPc` is the place of the poller: `breach` in the
loop over ListBreachedTickets, `alert` before AlertSLABreach, `mark` before the
upsert that records the page, `warn` in the loop over ListActiveStates. `pTodo`
holds the rows *as they were read*; they are what is written back.

Time is in ticks, `TicksPerSecond` of them to a second, since the resume
truncates the pause to whole seconds (`resolve.go:301`). Of
`first_breach_alerted_at` only NULL or not is kept, all the code ever reads;
`response_met_at` is left out because no code sets it. Rows of a poll are
processed in any order, which includes that of the query. The two histories
`pages` and `lostMarks` count the alerts NightOwl received and the records of
them that were lost: a failed upsert, a crash, a lost answer, an overwrite.

`SlaClock` is the clock of the tests and of `docs/08-sla.md`, which the worker does
not call: the poller compares the row's deadlines itself. `ClockAgrees` says that
the two come to the same label for every running row, but for one instant: at a
deadline ComputeState already says breached (`remaining <= 0`), the query of the
poller not yet (`due < now`).

Events come in any order and content here; what the stream promises about
their order is `EventStream`'s subject. Redelivery of ticket.create (a webhook
repeated after a lost answer) is a fault that can be switched on.

### EventStream, Worker

Messages are positions in the stream. `lastID` is `"$"` until a first message
has been received and `"$"` is resolved by Redis anew for every XREAD
(`eventprocessor.go:48,56`). `from` and `upto` are the range of the XREAD or
batch in hand. `EventDelivery` is the abstract specification: its `lost` is
mapped to `Missed`, the messages neither delivered nor ahead of the processor.

`Worker` takes the steps of `EventStream` as its own and adds when they may be
taken. It holds one tenant: tenants share nothing in the worker. Its row comes and
goes with the seed modes and is suspended by hand. A worker that finds no tenant
at all is `idle` until it is stopped; one that finds only suspended ones waits the
same way, `up` without loops. Of the poller only that it runs is kept.

### IncidentSync

`queue` is what waits of the stream; `IncidentWorker` shows that it is a true
picture. `Crash` and `SkipToEnd` empty it, as a restarted processor, or one whose
first XREAD fails, passes over what waits; an event sent while nobody reads is
passed over at once (`Enqueue`). The loops over matching rules and over
linked tickets take their elements in any order. `excused` records the pairs of
ticket and incident the handler need not have closed: unlinked, linked or
reopened after the resolution was read, failed, or the resolution passed over.
The properties speak of what NightOwl has said and of what still waits (`Over`),
not of what the handler has noticed. Names of services are
sequences of their parts, so that the prefix rule of `autoticket.go:36-49` is a
prefix of sequences.

### IncidentWorker

The variables of `Worker` and those of `IncidentSync`, but for the queue: instead
there is `log`, what the messages of the stream say. `Place` is how far the
processor has come, and `Waiting`, the rest of the log, stands for the queue.
`Process` is processMessage: the loop waits until the handler has
returned (`hPc`), and so do `Reads` and the handing over of the next message, but
not the webhooks, the agents, the signal or a crash. A worker that is told to stop
hands over the rest of its batch with a cancelled context: the handler's queries
and calls then fail or still succeed, as under the faults "db" and "api".

### ApiClient, PostMortem

`ApiClient` is the loop the three clients share, for a call with a body:
`reader` is the `bytes.Reader`, which a written request has drained. The server
may carry out requests the client has given up, before it answers by an error, or
without being heard; `carried` is the history of what it did. `PostMortem`,
`IncidentSync` and `TicketCreate` use what `ApiClient` shows (`ToldWhatWasDone`): a
creating call whose answer arrives was carried out once for it, and perhaps more
often unheard (`CreateUnheard`, `CreateTicketUnheard`), and a call that fails may have
been carried out. `PostMortem`'s insert of the link, which no client repeats, may also
be stored without its answer (`StoreUnheard`).

### TicketCreate, SlaPolicies, AutoAssign

Three kinds of actor write `ticket_meta`: requests (`pc`, one place each), the
event handler of the tenant (`job`, the one event in its hands), and the database
itself, when a policy is deleted (`ON DELETE SET NULL`). `job.step` names the
statement or call that comes next, from `policy` through `assign` and `state` to
the four calls of the on-call assignment; tickets opened for an incident enter at
`record`. Three fields of the job are history: `named` and `seen`, the rosters and
people that have been the right ones since the handler turned to this ticket, and
`covered`, whether at every moment since then the group was mapped and, in whatever
roster it was mapped to, somebody was on call whom Zammad's search finds. A priority's default policy
is looked up by `DefaultsFor`, as the query does. Names, minutes and thresholds of
policies are left out; `SlaWorker` has the minutes.

### Portal, Configuration

Each query and each call to Zammad of a request is a step of its own, and `pc`
names the next one; the request's record holds what it has read, and at `done`
the answer. Who is asked first depends on the operation (`FirstStep`,
`AfterCheck`, `AfterMeta`). Four fields are history: `valid`, the organisations the
caller's row has named between the beginning of the request and the reading of that
row; `own`, the tickets of the one that was read, from then to the call that lists or
checks; `due`, what a reading request found in place when it began; `failed`, the
parts of a detail page whose reading failed and which the page goes on without. None
of this is on the answer: a page without comments looks the same whether there are
none or they could not be read.

Any request may call any route (`Next`): the API router asks for an authenticated
caller and no role (`internal/app/app.go:250-265`), and so do the handlers. The
routes of the portal (`PortalOps`) act for the organisation on the caller's token and
refuse a token without one (`BeginRefused`); those of the thread (`ThreadOps`) look at
no organisation. `PortalScoped` is about the former only.

`Configuration` keeps `zammad_config` as a set of rows with ids, since the
question is how many there are, and `integration_keys` as one address for each
service, since the column is unique.

### Seeding

A process runs the statements one by one: `pc` is the one that comes next, `next`
the row of the list it is to insert. A statement may fail (`FaultTo`) and a process
may die before any of them (`Crash`). A schema has an incarnation (`no`) and a state:
`none`, `behind` its migrations, `dirty` after one that was cut short (which the
migration library then refuses to touch), `ready`. A tenant's id is the number of the run that
created it. `overlap` and `disturbed` are history: a demo run, which drops the
schema, has met another run; this run has met a fault or another run.

### How they compose

`PostMortem` implements `WriteOnce`. `EventStream` implements `EventDelivery`, `Worker` implements `EventStream`, and
`IncidentWorker` implements `Worker` on the one side and `IncidentSync` on the other:
what is shown of the stream, of the worker and of the incident handler holds of the
system they make up. `SlaWorker` takes its events from an environment no more
orderly than that. `SlaWorker` and
`TicketCreate` share the upserts of ticket.create: the former keeps the SLA row,
the latter the race with the request, the policies and the owner. `IncidentSync`
opens tickets as `AutoTicket` of `TicketCreate` does, where they are then assigned.
`Worker` takes its tenant from what `Seeding` leaves. `IncidentSync`, `PostMortem` and
`TicketCreate` assume of remote calls what `ApiClient` leaves possible.

## 3. The runs

| Run (.cfg) | Asks | Instance |
|---|---|---|
| `SlaWorker` | under every fault: rows coherent, deadlines account for pauses, copies fit, pages accounted for, breaches paged, stopped clocks stand still, no ticket Zammad reopened stays paused, the poller agrees with ComputeState | 1 ticket, 1 policy with 2 settings, 3 half seconds, 2 pages; 448 557 states |
| `SlaWorkerAlertedOnce` | *violated*: "NightOwl alert fired once" | 1 ticket, no faults |
| `EventStream` (module `IncidentWorker`) | across restarts, crashes and changes of the tenant: implements `EventDelivery` and `IncidentSync`; no gap while running; what is ahead is delivered; an ended worker is quiet; the next one serves | 3 messages, batches of 2, 2 changes, 1 incident, 1 rule, 1 ticket, all faults; 81 361 |
| `IncidentSync` | linked tickets of resolved incidents are closed, and in the end are, or a failure or an agent accounts for them; one ticket per rule | 1 incident, 2 rules that are switched on and off, 2 tickets (1 of an agent), all faults; 704 220 |
| `ApiClient` | when a call is repeated, loses its body, is given up; what the caller is told is what the server did; that it ends | 2 calls of 3 attempts; 398 591 |
| `ApiClientRetry` | *violated*: "Reset bodyReader for retry" | 1 call |
| `PostMortem` | implements `WriteOnce`; orphans explained | 3 requests, 2 tickets, 4 documents; 37 960 |
| `TicketCreate` | told is recorded; policies are kept and fit; assigned is watched; owners were on call; a handling that meets no failure is complete, whatever changes meanwhile | 1 request of 2 possible callers, 2 tickets of different priorities (one with a group), 2 policies, 2 changes, all faults; 3 383 859 |
| `TicketCreateSearch` | *violated*: "retry search" | 2 requests of one caller |
| `Portal` | the portal's routes reach only what is the caller's organisation's; an answer lacks at most the part of a detail page whose own reading failed | 2 requests at a time, 2 organisations, 1 ticket, 1 article, 1 note, 1 document; 2 002 434 |
| `Configuration` | *violated*: "inserts or updates the Zammad configuration" | 2 PUTs |
| `Seeding` | success means seeded; nothing twice; a demo run recovers | 2 processes, 3 runs, 3 faults, 2 priorities, 1 service, 2 demo tickets; 2 895 678 |

Each module that keeps state states its types as `TypeOK`. The runs of
`IncidentSync`, `PostMortem`, `TicketCreate` and `Portal` leave it to the proofs
below, which establish it for all values.

**Bounds, and why they are enough.** `MaxTime`, `MaxPages`, `MaxSent`,
`MaxTickets`, `AgentTickets`, `MaxQueue`, `MaxCalls`, `MaxDocs`, `MaxArticles`,
`MaxNotes`, `MaxPuts`, `MaxPolicies`, `MaxChanges`, `MaxRuns` and `MaxFaults` only
cap counters.

- SlaWorker: with two ticks to the second and three ticks, a pause of one tick
  is truncated to nothing and one of three loses a tick; both deadlines (1 and
  2, or 0 and 3) can pass, and a warning window opens before them. A second
  page shows repeated paging. Both conflicts of one row (handler over poller,
  poller over handler) need one ticket only. All of the safety properties of
  this run are also proved for all values, which covers the polls over several
  tickets.
- EventStream: three messages in batches of two give a full batch, a partial
  one, a batch left in the middle, and messages before, during and after a
  restart. Two changes of the tenant are: added, then suspended or removed. The
  three events are those of one incident, one of them repeated; a second ticket
  for it is refused for want of a number, and `IncidentSync` has more of them.
  Safety is also proved for all values.
- IncidentSync: two rules give an incident two tickets, so that one creation or
  closing fails and the other goes on; two waiting events are the shortest queue
  in which a resolution could overtake. The handler takes one event at a time
  and keeps nothing between two, so a second incident would add only tickets
  linked to both, which agents make here by linking tickets of their own.
- ApiClient: `MaxRetries` is the code's 3; a second call meets late requests
  of the first one.
- PostMortem: two requests race for one ticket and a third comes later or is
  about the other ticket; also proved for all values.
- Portal: requests meet only through the tables and Zammad, so two, each on any
  route, are a reader and somebody who writes between its steps. Both properties
  speak of each article by itself, and one may be public or internal; a reply posted
  several times by one call needs more (`MaxArticles` is 1) and is covered by the
  proofs. The two requests may be exchanged for one another, and so may the two
  organisations (`SYMMETRY`; the run has no liveness).
- TicketCreate: the request races the handler of its own ticket's event, and a
  second ticket is one repeated unheard, or one opened for an incident. Two policies
  are two of one priority, of which one at most is its default, or one of each, which
  can be mistaken for one another; two changes are one on either side of a lookup. Two requests that race for
  one account are the subject of `TicketCreateSearch`; the safety properties are
  proved for any number of requests, tickets, policies and changes.
- Seeding: two runs meet and a third finds what they left; three faults are one in
  each, or one and two in the clean-up that answers it. Two demo tickets, one of
  them linked, give each loop a first and a last row.

Deadlock is checked in all runs of the worker's models. It is switched off where
the system comes to its end: all calls (`ApiClient`) or all requests
(`PostMortem`, `TicketCreate`) have been answered, all runs are over (`Seeding`);
and in the four runs that look for one violation.

**Fairness.**

- `SlaWorker`: weak fairness of the poller's steps (a goroutine that is
  scheduled, and a ticker that fires) and strong fairness of the poll, the
  lookup and the alert: a query or a call that is tried again in every poll
  does not fail for ever. Nothing is assumed of the handler, the administrator
  or the clock. A ticket that is paused, restarted or stripped of its policy is
  excluded by `BreachIsPaged` itself.
- `IncidentWorker`: weak fairness of the handler, and of the loop
  (`for { select ... }` with a blocking XREAD that returns), and strong fairness of
  a returning XREAD: Redis does not fail for ever. Weak fairness of starting the
  worker (the orchestrator restarts it), and of each loop's end once the context is
  cancelled, which every wait in them watches. Nothing is assumed of signals,
  crashes and the tenant's row.
- `IncidentSync`: weak fairness of the handler: a goroutine that runs. Faults
  need no fairness, as a failed step is not tried again; `ResolutionCloses`
  names what they excuse.
- `ApiClient`: weak fairness of a client that has a call to finish; every wait
  ends by an answer or by the 30 seconds of `http.Client.Timeout`.

## 4. What is proved

All theorems hold for every value of the constants that satisfies the named
`ASSUME`s (which TLC evaluates in the runs): at least one tick per second and a
non-empty batch, sets without a bound on their size, constants like `NoRow` that
are not what they stand apart from, and lists of seeded rows of which those with a
unique index repeat nothing. Three theorems state a hypothesis of their own: two count
(finitely many tickets, finitely many rules), and `BreachStays` excludes redelivery.

**`SlaWorkerTheorems`**: `TypeCorrect`, `RowsAlwaysCoherent`,
`DueDatesAlwaysAccount`, `CopiesAlwaysFit`, `PagesAlwaysAccounted`,
`PauseAlwaysFreezes`, `AlwaysPausedByLastEvent`, `ClockAlwaysAgrees`.

They rest on lemmas about one row. `Sound(r, t)`: a row of the right
type, coherent, and whose deadlines account for its pauses by time `t`. Fresh,
paused, resumed, breached and warned rows are sound, and stay so as time
passes. The heart is `ResumedRowSound`: the truncated pause fits in the time
that has passed and moves both deadlines by the same amount. From it also follows
`ClockAlwaysAgrees`: in a sound row, deadline minus now is what the policy allows
less the time that counts.

None of these properties is inductive: a row is written
back from a copy, so what the table says depends on copies taken earlier. The
invariant `IInv` adds

- `SoundRows`: the copies in the hands of both goroutines are sound rows too.
  This is why overwriting does no harm to a row's consistency: each copy is a
  consistent row of an earlier moment.
- `CopiesFit`: the poller holds only rows that run, are unalerted, and that
  nobody else has marked since (only the poller marks); the handler holds an
  alerted row only if the table's is still alerted, and a paused one only if
  the table's still runs. From this follows that the poller never writes a
  paused row, and the account of pages;
- `LastEvent` (for `AlwaysPausedByLastEvent` only): the handler is about to
  write a paused row only for an event that asked for it;
- `Phases`: which local variables are set at which place.

There is one lemma for each conjunct of `IInv`, with one step per action.
`PauseFreezes` then follows from `CopiesFit`: every write over a paused row
leaves it running.

Of what `BreachIsPaged` rests on, two parts are proved:

- `EveryStepEndsAPoll`, for finitely many tickets: `PollLeft` counts the steps a poll
  has left. Each of its own leaves fewer, whatever fails, and nobody else's adds one.
- `BreachStays`, as long as Redis sends no event twice: an overdue ticket stays
  overdue until it is paged, an event of its own writes its row, or its policy is
  deleted. The only other write is the poller's warning, from a copy that may be
  old. `DueInOrder` says why it gives no more time: deadlines only move forward, so
  a copy's are never later than the table's; `KnownOnce` is the part of it that a
  ticket's row is made once. With a second delivery this is false, as TLC shows: a
  `ticket.create` that comes again makes a fresh row, and a warning written from a copy
  of the former one then changes the deadlines of an overdue ticket.

`LabelNeverImproves` is about `ComputeState` alone: the label of a running ticket only
gets worse with time.

**`WorkerTheorems`**, of the stream: `TypeCorrect`, `NoGapOnceReadingAlways`, and
`Implements`: `Spec => DeliversInOrder`, the refinement of `EventDelivery`.
The invariant `Places` says where the processor stands, and that nothing
delivered is ahead of it. Each step maps to `Accept`, `Deliver`, `Lose` or a
stutter; the last needs that `Missed` only ever grows to everything
undelivered. Of the worker around it: `Refines`, that it allows its processor
nothing that `EventStream` does not, and with it `WorkerDeliversInOrder` and
`WorkerLeavesNoGap`; `WorkerTypeCorrect`; `StoppedIsQuietAlways`; and
`EveryStepStops`, for which `BatchFits` bounds what is left of a batch: a worker told
to stop reads no further one, and is down after at most `BatchSize + 4` steps.

Of the whole system: `SystemRefinesWorker`, and with it `SystemKeepsWorker`; and
`SystemImplementsSync`. The abstract queue is `Waiting`, the log from
`Place` on, and the proof is about how `Place` moves. It never falls back
(`WaitingIsAhead`: what waits is what is neither delivered nor missed). A push
lengthens the queue or, if nobody reads, is missed at once (`AcceptQueues`). The
hand-over of a message takes its head (`HandsOverHead`). Every other step of the
processor leaves the queue as it is (`StaysSame`) or, when it stops or resolves `"$"`
anew, empties it (`SkipsToEnd`), and the events then missed are the queue's
(`QueuePassed`): this is what `excused` must grow by. A crash, which `IncidentSync`
has too, also takes the event in hand (`CrashPasses`), and a worker that is down has none
(`Busy`). The theorems of `IncidentSyncTheorems`, instantiated with the refinement
mapping, then give `SystemResolvedIsClosed`, `SystemAutoTicketCloses` and
`SystemOneTicketPerRule`.

**`IncidentSyncTheorems`**: `TypeCorrect`, `ResolvedAlwaysClosed`,
`AutoTicketAlwaysCloses`, `AlwaysOneTicketPerRule`, for any number of incidents,
rules and tickets. `ResolvedIsClosed` is stated of what NightOwl has said, and the
history `heard` links that to the handler: `Accounted` says that a resolution
waits, was heard or has excused every ticket, `HeardIsClosed` what it has done. A ticket is closed with its incident because events come in
order, so the invariant has to say so: `EventsInOrder` (what waits in the queue,
and in which order, for each state of an incident), `Unborn` (an incident without
events has neither tickets nor links), `BeforeResolution` (nothing of an incident
whose creation waits is handled), `Linked` and `Origins` (a ticket made for an
incident is linked to it, is about to be, or is accounted for), `Phases` (what the
handler holds at which place).

`EveryStepEndsAnEvent`, for finitely many rules, counts what the handler has left of
an event; `InHandHasWork` says that it is never at a loop's place with nothing to do.
`SevereIncidentsMatchMore` is about the matching of rules alone.

**`ApiClientTheorems`**: `TypeCorrect`, `RetriesAlwaysExplained`,
`EmptyBodyAlwaysExplained`, `AlwaysToldWhatWasDone`, for any number of attempts and
calls. One half of the invariant is that of the loop: what the attempts so far have
recorded, and where the reader then stands. The other relates the client to a server
that may be slow: `Latest` (nothing is sent or fails after the attempt in hand),
`StillTravelling` (what is under way is the request in hand or that of a failed
attempt) and `CarriedInHand` (so is what was carried out, unless its answer has ended
the call). `EveryStepEndsACall` gives the measure of the loop: at most two steps for
each attempt left.

**`PostMortemTheorems`**: `TypeCorrect`, `OrphansExplainedAlways` and
`ActsAlwaysAtOnce`, the refinement of `WriteOnce`, for any number of concurrent
requests. A request acts at the step that answers it: the check, if there is a link,
else the insert. `DocsInPlace` says from when on a request has a document, `OwnDocs`
that nobody else has it or is linked to it. `AnswerIsLinkedAlways` is what callers see
of it: the document an answer names is the ticket's ever after.

**`TicketCreateTheorems`**: the types and all six properties of the run, as `TypeCorrect`,
`PolicyAlwaysFits`, `ToldIsAlwaysKnown`, `AssignedIsAlwaysTracked`,
`PolicyAlwaysKept`, `OwnerAlwaysWasOnCall` and `HandlingAlwaysCompletes`. The invariant adds `Places` (which ticket, group and
policy the handler holds at which step), `PolicyInHandFits` (a policy in the
handler's hand is gone or of the ticket's priority: priorities never change and ids
are not used again, which is what makes the unprotected lookup harmless),
`HistoryKept` (whom the histories of the job record) and `HandlingKept` (what a handling
that meets no failure has done by each step, and that a covered group is still covered,
which is why its call finds somebody and the search finds them). `ChangeKeeps` is the
lemma that a change by anybody else leaves the latter true.

**`PortalTheorems`**: `TypeCorrect`, `PortalAlwaysScoped`, `NothingEverMissing`, for
any organisations, tickets, articles and concurrent requests of any callers. `Scoped` says what a
request that has passed the check may hold, `Due` and `Complete` what it has still to
read or has read; `Harmless` is the lemma that a step of anybody else leaves a
request's parts true.

**`SeedingTheorems`**: `TypeCorrect`, `SeededOnce`, `SuccessKept`, `DemoRepairs`, for
any processes, runs, faults and lists of rows. The lists are sequences joined from the
constants; `SeedList` and `DemoList` say where each kind of row stands in them. The
invariant is one of pairs of runs and of each run: `Meet` (two runs that meet know of
it), `Owner` (the tenant belongs to the run that created it, until it undoes it),
`Progress` (what a run has inserted so far is there), `Found` (what a run that met
nobody finds), `Way` (where an undisturbed `seed-demo` stands, with and without an
orphaned schema) and `Ordered` (a row no index protects is there only if the first of
its list is, which an index protects: whoever inserts it twice has failed before).
A creator keeps what it has inserted because a `seed` run that meets it finds the
tenant's row and inserts nothing (`OthersStep`).

**Only model-checked**: liveness (`BreachIsPaged`, `AheadIsDelivered`,
`ServedAfterRestart`, `ResolutionCloses`, `CallEnds`), for which the prover has no
rules under fairness. For all but `AheadIsDelivered` the argument's other half is proved: the
measures of `EveryStepEndsAPoll`, `EveryStepStops`, `EveryStepEndsAnEvent` and
`EveryStepEndsACall` fall with every step and rise only with new work, so that what
TLC alone shows is that the steps are taken. What a recursive definition computes for all inputs would need
induction over data, which the installed provers cannot instantiate; the models
contain no recursion.

## 5. What the code does otherwise than its documentation says

With a run each (`findings` in `PROJECT.json`):

1. **A ticket is paged twice without any fault** (`SlaWorkerAlertedOnce`). The
   event handler reads the row, the poller pages and records it, the handler
   writes its row back without the record. `docs/08-sla.md:40`.
2. **Retries lose their body** (`ApiClientRetry`). After a transport error the
   loop continues past the line that renews the reader.
   `internal/zammad/client.go:107,157`; the other two clients alike.
3. **A caller found by the second search gets a 500** (`TicketCreateSearch`).
   The result is assigned to a new variable and the outer one is nil.
   `internal/ticket/service.go:130-137`.
4. **A second PUT of the Zammad configuration adds a row** (`Configuration`), and
   clients go on to read either. `internal/admin/store.go:38,44`.

Seen while modelling, and without a run of their own:

- A message that arrives between two XREADs of a processor that has received none
  yet is passed over without any fault, as `"$"` is resolved again
  (`eventprocessor.go:48,56`); the comment there is "Start from new messages only".
  `NoGapOnceReading` bounds the damage: it ends with the first message.
- The seed is not idempotent after a run that was cut short: the next one finds the
  tenant, migrates it and reports success without the rows that are missing
  (`seed.go:45`, `docs/02-architecture.md:34`, `docs/10-deployment.md:67`).
  `SuccessMeansSeeded` states what holds. A `seed-demo` that finds a schema without a
  tenant fails once, and its failure removes the schema.
- A tenant that is added later, or was suspended when the worker started, is not
  served before a restart, and a worker that found none idles for good
  (`app.go:324`).
- The agents' routes check no role (`app.go:222-231,250-265`; the API router only asks for an
  authenticated caller, `vendor/github.com/wisbric/core/pkg/httpserver/server.go:85-97`),
  and the role `customer` of a token is resolved to `engineer`
  (`vendor/github.com/wisbric/core/pkg/auth/oidc.go:121-150`). So a token with an
  organisation is confined to it on the routes of the portal and nowhere else:
  `/tickets/{id}/comments` gives it every ticket's whole thread. This contradicts
  `docs/01-requirements.md:63,67` and `docs/07-customer-portal.md:61-68`. The model has
  it so, and `PortalScoped` claims nothing of those routes.
- A detail page whose comments could not be read is answered 200 with an empty thread
  (`internal/customer/service.go:89-92`), and nothing in `PortalTicketDetail`
  (`customer.go:37-43`) tells the caller; `docs/07-customer-portal.md:43` has the page
  return the thread. The model has it so (`GoOnWithout`): the page is answered like any
  other. `NothingMissing` says that no other part is lost with it.
- `UNIQUE (priority, is_default)` allows a priority one policy that is not its default,
  and refuses either order of the two updates that would swap the default with it: one
  of them has to be deleted, which takes it from its tickets.
  `docs/08-sla.md:11` says that a tenant can have several policies.
- Without a default policy a ticket is not assigned to anybody on call either: the
  handler returns early (`resolve.go:196-247`).
- A ticket opened for an incident is assigned twice, with the incident and again with
  its ticket.create (`resolve.go:247,425-427`), and an owner an agent has set in
  between is replaced.
- `escalate_to_secondary` of a roster mapping is stored and never read.
- The stream is not trimmed (`internal/webhook/zammad.go:113`: XADD without MAXLEN).
- DELETE of a ticket leaves its rows in `ticket_meta` and `sla_states`, and the poller
  goes on to page for it.
- The poller described in `docs/08-sla.md:84-99` (it fetches tickets, compares their
  state with `pause_statuses` and calls ComputeState) is not the one in the code.
- A pause is undone when the poller writes back as `warning` a row it read
  before the pause (`slapoller.go:155`); `docs/08-sla.md:48-49` says that the
  clock stops. `CopiesFit` and `PausedByLastEvent` bound the damage: such a
  write can start a stopped clock and never stop a running one.
- The handler pauses on two fixed states (`resolve.go:286`) and not on the
  configured `pause_statuses`; `docs/01-requirements.md:79`.
- A failed insert after the policy was assigned leaves a ticket that is never
  watched (`resolve.go:229`); `docs/08-sla.md:5`.
- Linked tickets are set to closed without a look at their state
  (`resolve.go:481`); `docs/05-nightowl-integration.md:90-91`.
- Of two concurrent post-mortem requests the slower one is answered 500, not
  409 (`postmortem.go:114`); `docs/06-bookowl-integration.md:85`.
- A customer whose organisation has no row is answered 500
  (`internal/customer/service.go:36`, `handler.go:117`);
  `docs/07-customer-portal.md:18` says 403.
- `ComputeState` lets what remains of a paused ticket fall on
  (`internal/sla/service.go:24-31`), against its own comment.

## 6. What is not modelled

- `ApplyPolicy` and `CheckBreach` of `internal/sla`: no production code calls
  them, and no code deletes rows of `ticket_meta` or `sla_states`.
- The SLA due times on a portal page: one query whose failure is ignored.
- Suggestions, auth adapter, telemetry, configuration,
  generated queries: no state or protocol of their own. The web frontend is a
  client of the API.
- Wording: titles, article bodies, templates, logs.

## 7. Plan

Order of work: what pages people and what keeps promises to customers first.

1. *Done.* `SlaRow`, `SlaClock`, `SlaWorker`; `EventDelivery`, `EventStream`,
   `Worker` with the refinement proofs; `AutoTicketRule`, `IncidentSync`;
   `IncidentWorker`, which composes `Worker` with a handler as in `IncidentSync`; `ApiClient`; `PostMortem` with the
   refinement of `WriteOnce`; `SlaPolicies`, `AutoAssign`, `TicketCreate`; `Portal`;
   `Configuration`; `Seeding`. Every safety property of every passing run has its
   theorem, and four of the five liveness properties the measure they rest on.
2. The measures of the handler and of the stop, lifted to the whole system of
   `IncidentWorker`; what remains of `BreachStays` when events are repeated.
3. Larger instances for liveness, which stays with TLC: two incidents in
   `IncidentSync`, two tickets in `SlaWorker`.
