------------------------------- MODULE Seeding -------------------------------
(***************************************************************************)
(* The seed and seed-demo modes: short processes that set up the tenant    *)
(* "acme", one statement after the other and without a transaction, so     *)
(* each may be cut short at any statement, run again (the chart's job is   *)
(* retried) and meet another one that is running.                          *)
(*                                                                         *)
(* tenant.Provisioner and the migrations are libraries, modelled by what   *)
(* they do to the database.  Left out: the values of the seeded rows but   *)
(* for the priority of a policy, and the requests that change them later.  *)
(***************************************************************************)
EXTENDS Integers, Sequences, FiniteSets

CONSTANTS
  Proc,       \* seed processes that may run at the same time
  Priorities, \* sequence: the priorities policies are seeded for
  Services,   \* sequence: the services integration keys are seeded for
  Demo,       \* sequence: the priority of each demo ticket
  Linked,     \* sequence: the demo tickets, by index, linked to an incident
  MaxRuns,    \* bound: runs, of all processes together
  MaxFaults   \* bound: statements that fail and processes that die

Entries(list) == {list[i] : i \in DOMAIN list}

ASSUME SeedingAssumption ==
  /\ \A list \in {Priorities, Services, Demo, Linked} : list \in Seq(Entries(list))
  /\ \A list \in {Priorities, Services, Linked} :
       \A i, j \in DOMAIN list : list[i] = list[j] => i = j
  /\ Len(Priorities) > 0 /\ Len(Demo) > 0
  /\ Entries(Demo) \subseteq Entries(Priorities)
  /\ Entries(Linked) \subseteq DOMAIN Demo
  /\ MaxRuns \in Nat /\ MaxFaults \in Nat

VARIABLES
  tenant,   \* row of global.tenants: its id, 0 for none
  apiKey,   \* whether api_keys has the development key, of that tenant
  admin,    \* row of local_admins of that tenant: "none", or its password
  schema,   \* schema of the tenant: its incarnation and its state
  rows,     \* how often each seeded row is in the tables of the schema
  run,      \* the run each process is in
  runs,     \* runs so far
  faults,   \* faults so far
  overlap   \* history: a demo run has overlapped another run

database == <<tenant, apiKey, admin, schema, rows>>
control == <<runs, faults, overlap>>
vars == <<database, run, control>>

PolicyRow(p) == [table |-> "sla_policies", key |-> p]
ConfigRow == [table |-> "zammad_config", key |-> "acme"]
KeyRow(s) == [table |-> "integration_keys", key |-> s]
TicketRow(i) == [table |-> "ticket_meta", key |-> i]
StateRow(i) == [table |-> "sla_states", key |-> i]
LinkRow(i) == [table |-> "incident_links", key |-> i]

SeedRows ==
  [i \in DOMAIN Priorities |-> PolicyRow(Priorities[i])] \o <<ConfigRow>>
    \o [i \in DOMAIN Services |-> KeyRow(Services[i])]

DemoRows ==
  [i \in DOMAIN Demo |-> TicketRow(i)] \o [i \in DOMAIN Demo |-> StateRow(i)]
    \o [i \in DOMAIN Linked |-> LinkRow(Linked[i])]

SeedSet == Entries(SeedRows)
DemoSet == Entries(DemoRows)
Row == SeedSet \cup DemoSet

NoTenant == 0
NoRows == [row \in Row |-> 0]

Labels == {"off", "check", "drop", "delete", "look", "migrate", "create",
           "schema", "provision", "undo schema", "undo tenant", "key", "rows",
           "admin", "policies", "demo", "done", "failed"}

NoRun == [pc |-> "off", mode |-> "seed", password |-> FALSE, tid |-> 0,
          next |-> 1, creates |-> FALSE, known |-> {}, knownIn |-> 0,
          disturbed |-> FALSE, orphan |-> FALSE]

(* A schema whose tenant row is gone.                                      *)
Orphan == tenant = NoTenant /\ schema.state # "none"

Run == [pc : Labels, mode : {"seed", "demo"}, password : BOOLEAN,
        tid : 0 .. MaxRuns, next : Nat \ {0}, creates : BOOLEAN,
        known : SUBSET Entries(Priorities), knownIn : 0 .. MaxRuns,
        disturbed : BOOLEAN, orphan : BOOLEAN]

(* A run that still has statements to execute.                             *)
Active(p) == run[p].pc \notin {"off", "done", "failed"}

TypeOK ==
  /\ apiKey \in BOOLEAN /\ overlap \in BOOLEAN
  /\ tenant \in 0 .. MaxRuns
  /\ admin \in {"none", "default", "configured"}
  /\ schema \in [no : 0 .. MaxRuns,
                 state : {"none", "behind", "dirty", "ready"}]
  /\ rows \in [Row -> Nat] /\ run \in [Proc -> Run]
  /\ runs \in 0 .. MaxRuns /\ faults \in 0 .. MaxFaults
  /\ (tenant = NoTenant => ~apiKey /\ admin = "none")
  /\ (schema.state = "none" => rows = NoRows)

Init ==
  /\ tenant = NoTenant /\ apiKey = FALSE /\ admin = "none"
  /\ schema = [no |-> 0, state |-> "none"] /\ rows = NoRows
  /\ run = [p \in Proc |-> NoRun]
  /\ runs = 0 /\ faults = 0 /\ overlap = FALSE

-----------------------------------------------------------------------------
(* Variants of the definitions below: bugs the run must find.              *)
DropSchemaOnly ==
  /\ schema' = [schema EXCEPT !.state = "none"]
  /\ UNCHANGED rows

DropDemoSkipped(p) ==
  /\ run[p].pc = "drop"
  /\ run' = [run EXCEPT ![p].pc = "delete"]
  /\ UNCHANGED <<database, control>>

InsertRowAnyway(p) ==
  /\ run[p].pc = "rows"
  /\ LET last == run[p].next = Len(SeedRows) IN
     /\ schema.state = "ready"
     /\ rows' = [rows EXCEPT ![SeedRows[run[p].next]] = @ + 1]
     /\ run' = [run EXCEPT ![p].next = IF last THEN 1 ELSE @ + 1,
                           ![p].pc = IF last THEN "admin" ELSE @]
  /\ UNCHANGED <<tenant, apiKey, admin, schema, control>>

EnsureLocalAdminOnce(p) ==
  /\ run[p].pc = "admin" /\ tenant # NoTenant /\ tenant = run[p].tid
  /\ admin' = IF admin = "none" THEN "default" ELSE admin
  /\ run' = [run EXCEPT
       ![p].pc = IF run[p].mode = "demo" THEN "policies" ELSE "done"]
  /\ UNCHANGED <<tenant, apiKey, schema, rows, control>>

-----------------------------------------------------------------------------
(* Steps of one run.                                                       *)

Goto(p, label) == run' = [run EXCEPT ![p].pc = label]

(* A statement that fails: the run goes on at label.                       *)
FaultTo(p, label) ==
  /\ faults < MaxFaults
  /\ faults' = faults + 1
  /\ run' = [run EXCEPT ![p].pc = label, ![p].disturbed = TRUE]
  /\ UNCHANGED <<database, runs, overlap>>

(* runSeed, runSeedDemo: a start, once the global migrations are applied.  *)
Start(p) ==
  /\ run[p].pc = "off" /\ runs < MaxRuns
  /\ runs' = runs + 1
  /\ \E mode \in {"seed", "demo"}, password \in BOOLEAN :
       LET others == {q \in Proc : run[q].pc # "off"} IN
       /\ overlap' = (overlap \/ (others # {} /\ mode = "demo")
                              \/ \E q \in others : run[q].mode = "demo")
       /\ run' = [q \in Proc |->
            IF q = p
            THEN [NoRun EXCEPT !.pc = IF mode = "demo" THEN "check" ELSE "look",
                               !.mode = mode, !.password = password,
                               !.disturbed = others # {}, !.orphan = Orphan]
            ELSE [run[q] EXCEPT !.disturbed = run[q].pc # "off"]]
  /\ UNCHANGED <<tenant, apiKey, admin, schema, rows, faults>>

(* The process ends; one that ended in an error may be started again.      *)
Exit(p) ==
  /\ run[p].pc \in {"done", "failed"}
  /\ run' = [run EXCEPT ![p] = NoRun]
  /\ UNCHANGED <<database, control>>

(* The process dies; a migration in hand is left dirty.                    *)
Crash(p) ==
  /\ Active(p) /\ faults < MaxFaults
  /\ faults' = faults + 1
  /\ run' = [run EXCEPT ![p] = NoRun]
  /\ \/ UNCHANGED schema
     \/ /\ run[p].pc \in {"migrate", "provision"} /\ schema.state = "behind"
        /\ schema' = [schema EXCEPT !.state = "dirty"]
  /\ UNCHANGED <<tenant, apiKey, admin, rows, runs, overlap>>

-----------------------------------------------------------------------------
(* RunDemo, the part before Run: the errors of its statements are ignored. *)

DropSchema ==
  /\ schema' = [schema EXCEPT !.state = "none"]
  /\ rows' = NoRows

DeleteTenant ==
  /\ tenant' = NoTenant /\ apiKey' = FALSE /\ admin' = "none"

CheckDemo(p) ==
  /\ run[p].pc = "check"
  /\ \/ /\ Goto(p, IF tenant = NoTenant THEN "look" ELSE "drop")
        /\ UNCHANGED <<database, control>>
     \/ FaultTo(p, "look")

DropDemo(p) ==
  /\ run[p].pc = "drop"
  /\ \/ /\ DropSchema
        /\ Goto(p, "delete")
        /\ UNCHANGED <<tenant, apiKey, admin, control>>
     \/ FaultTo(p, "delete")

DeleteDemo(p) ==
  /\ run[p].pc = "delete"
  /\ \/ /\ DeleteTenant
        /\ Goto(p, "look")
        /\ UNCHANGED <<schema, rows, control>>
     \/ FaultTo(p, "look")

-----------------------------------------------------------------------------
(* Run.  A lookup that fails counts as a tenant that does not exist.       *)

Look(p) ==
  /\ run[p].pc = "look"
  /\ \/ /\ run' = [run EXCEPT
             ![p].pc = IF tenant = NoTenant THEN "create" ELSE "migrate",
             ![p].tid = tenant]
        /\ UNCHANGED <<database, control>>
     \/ FaultTo(p, "create")

(* The migrations refuse a schema that is missing or dirty; one that fails *)
(* midway leaves it dirty.                                                 *)
Migratable == schema.state \in {"behind", "ready"}

MigrateTo(p, label) ==
  /\ Migratable
  /\ schema' = [schema EXCEPT !.state = "ready"]
  /\ Goto(p, label)
  /\ UNCHANGED <<tenant, apiKey, admin, rows, control>>

MigrationFailsTo(p, label) ==
  \/ /\ ~Migratable
     /\ Goto(p, label)
     /\ UNCHANGED <<database, control>>
  \/ FaultTo(p, label)
  \/ /\ schema.state = "behind" /\ faults < MaxFaults
     /\ faults' = faults + 1
     /\ schema' = [schema EXCEPT !.state = "dirty"]
     /\ run' = [run EXCEPT ![p].pc = label, ![p].disturbed = TRUE]
     /\ UNCHANGED <<tenant, apiKey, admin, rows, runs, overlap>>

Migrate(p) ==
  /\ run[p].pc = "migrate"
  /\ MigrateTo(p, "admin") \/ MigrationFailsTo(p, "failed")

(* Provision: the slug is unique; what a failure leaves is cleaned up by   *)
(* statements that may fail in their turn.                                 *)
CreateTenant(p) ==
  /\ run[p].pc = "create"
  /\ \/ /\ tenant = NoTenant
        /\ tenant' = runs
        /\ run' = [run EXCEPT ![p].pc = "schema", ![p].tid = runs,
                              ![p].creates = TRUE]
        /\ UNCHANGED <<apiKey, admin, schema, rows, control>>
     \/ /\ tenant # NoTenant
        /\ Goto(p, "failed")
        /\ UNCHANGED <<database, control>>
     \/ FaultTo(p, "failed")

CreateSchema(p) ==
  /\ run[p].pc = "schema"
  /\ \/ /\ schema' = IF schema.state = "none"
                     THEN [no |-> runs, state |-> "behind"] ELSE schema
        /\ Goto(p, "provision")
        /\ UNCHANGED <<tenant, apiKey, admin, rows, control>>
     \/ FaultTo(p, "undo tenant")

Provision(p) ==
  /\ run[p].pc = "provision"
  /\ MigrateTo(p, "key") \/ MigrationFailsTo(p, "undo schema")

UndoSchema(p) ==
  /\ run[p].pc = "undo schema"
  /\ \/ /\ DropSchema
        /\ Goto(p, "undo tenant")
        /\ UNCHANGED <<tenant, apiKey, admin, control>>
     \/ FaultTo(p, "undo tenant")

UndoTenant(p) ==
  /\ run[p].pc = "undo tenant"
  /\ \/ /\ IF tenant = run[p].tid THEN DeleteTenant
           ELSE UNCHANGED <<tenant, apiKey, admin>>
        /\ Goto(p, "failed")
        /\ UNCHANGED <<schema, rows, control>>
     \/ FaultTo(p, "failed")

-----------------------------------------------------------------------------
(* The seeded rows.                                                        *)

OwnsTenant(p) == tenant # NoTenant /\ tenant = run[p].tid

InsertKey(p) ==
  /\ run[p].pc = "key"
  /\ \/ /\ OwnsTenant(p) /\ ~apiKey
        /\ apiKey' = TRUE
        /\ Goto(p, "rows")
        /\ UNCHANGED <<tenant, admin, schema, rows, control>>
     \/ /\ ~OwnsTenant(p) \/ apiKey
        /\ Goto(p, "failed")
        /\ UNCHANGED <<database, control>>
     \/ FaultTo(p, "failed")

(* One INSERT of a list, and the label that follows the last one.  The     *)
(* tables of a schema that is behind or dirty may exist or not.            *)
Insert(p, list, after, mayInsert) ==
  LET row == list[run[p].next]
      last == run[p].next = Len(list)
  IN \/ /\ schema.state # "none" /\ mayInsert
        /\ rows' = [rows EXCEPT ![row] = @ + 1]
        /\ run' = [run EXCEPT ![p].next = IF last THEN 1 ELSE @ + 1,
                              ![p].pc = IF last THEN after ELSE @]
        /\ UNCHANGED <<tenant, apiKey, admin, schema, control>>
     \/ /\ schema.state # "ready" \/ ~mayInsert
        /\ Goto(p, "failed")
        /\ UNCHANGED <<database, control>>
     \/ FaultTo(p, "failed")

(* Policies and keys have a unique index, zammad_config has none.          *)
InsertRow(p) ==
  /\ run[p].pc = "rows"
  /\ LET row == SeedRows[run[p].next]
     IN Insert(p, SeedRows, "admin", row = ConfigRow \/ rows[row] = 0)

(* An explicit password replaces the one of an admin that exists.          *)
EnsureLocalAdmin(p) ==
  /\ run[p].pc = "admin"
  /\ \/ /\ OwnsTenant(p)
        /\ admin' = IF run[p].password THEN "configured"
                    ELSE IF admin = "none" THEN "default" ELSE admin
        /\ Goto(p, IF run[p].mode = "demo" THEN "policies" ELSE "done")
        /\ UNCHANGED <<tenant, apiKey, schema, rows, control>>
     \/ /\ ~OwnsTenant(p)
        /\ Goto(p, "failed")
        /\ UNCHANGED <<database, control>>
     \/ FaultTo(p, "failed")

(* RunDemo, the part after Run.                                            *)
ReadPolicies(p) ==
  /\ run[p].pc = "policies"
  /\ \/ /\ schema.state # "none"
        /\ run' = [run EXCEPT
             ![p].pc = "demo", ![p].knownIn = schema.no,
             ![p].known = {row.key : row \in {r \in SeedSet :
                             r.table = "sla_policies" /\ rows[r] > 0}}]
        /\ UNCHANGED <<database, control>>
     \/ /\ schema.state # "ready"
        /\ Goto(p, "failed")
        /\ UNCHANGED <<database, control>>
     \/ FaultTo(p, "failed")

(* A ticket refers to the policy of its priority, a priority that has none *)
(* to the nil id, which no policy has; the other rows refer to the tickets *)
(* this run has inserted.                                                  *)
InsertDemo(p) ==
  /\ run[p].pc = "demo"
  /\ LET row == DemoRows[run[p].next]
     IN Insert(p, DemoRows, "done",
          /\ schema.no = run[p].knownIn
          /\ row.table = "ticket_meta" =>
               rows[row] = 0 /\ Demo[row.key] \in run[p].known)

Step(p) ==
  \/ Start(p) \/ Exit(p) \/ Crash(p)
  \/ CheckDemo(p) \/ DropDemo(p) \/ DeleteDemo(p)
  \/ Look(p) \/ Migrate(p)
  \/ CreateTenant(p) \/ CreateSchema(p) \/ Provision(p)
  \/ UndoSchema(p) \/ UndoTenant(p)
  \/ InsertKey(p) \/ InsertRow(p) \/ EnsureLocalAdmin(p)
  \/ ReadPolicies(p) \/ InsertDemo(p)

Next == \E p \in Proc : Step(p)

Spec == Init /\ [][Next]_vars

-----------------------------------------------------------------------------
(* Properties.                                                             *)

Seeded == apiKey /\ \A row \in SeedSet : rows[row] > 0

(* A run that created the tenant and reports success has seeded all of it, *)
(* whatever other seed runs did meanwhile; a run that found the tenant     *)
(* leaves only migrated tables and the administrator, and not even these   *)
(* while the run that creates the tenant may still undo it (seed.go Run).  *)
SuccessMeansSeeded ==
  \A p \in Proc : run[p].pc = "done" /\ ~overlap =>
    /\ run[p].creates \/ ~run[p].disturbed =>
         admin # "none" /\ schema.state = "ready"
    /\ run[p].creates => Seeded
    /\ run[p].password /\ ~run[p].disturbed => admin = "configured"

(* However often the seed is interrupted and run again it duplicates no    *)
(* row, zammad_config's included, which no unique index protects, unless   *)
(* a demo run drops the schema under another run (seed.go Run).            *)
NothingDuplicated == ~overlap => \A row \in Row : rows[row] <= 1

(* Whatever earlier runs have left behind, a demo run that meets no fault  *)
(* and no other run ends in success, with a new tenant, all the seed data  *)
(* and all the demo data.  The one thing it may fail on is a schema        *)
(* without a tenant row, which it does not look for, and the failure then  *)
(* removes what stands in the way of the next run (demo.go RunDemo).       *)
DemoRebuilds ==
  \A p \in Proc : run[p].mode = "demo" /\ ~run[p].disturbed =>
    /\ run[p].pc = "failed" => run[p].orphan /\ ~Orphan
    /\ run[p].pc = "done" =>
         run[p].creates /\ Seeded /\ \A row \in Row : rows[row] > 0
==============================================================================
