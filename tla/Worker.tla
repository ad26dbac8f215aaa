------------------------------- MODULE Worker -------------------------------
(***************************************************************************)
(* The worker process around the event processor of one tenant: runWorker  *)
(* lists the tenants once, when it starts, and starts a poller and an      *)
(* event processor for each that is not suspended.  A signal cancels the   *)
(* context; the process ends when both have returned, and is then started  *)
(* again by the orchestrator.                                              *)
(*                                                                         *)
(* Of the poller only that it runs is kept; SlaWorker has the rest.  The   *)
(* processor's steps are those of EventStream.                             *)
(***************************************************************************)
EXTENDS EventStream

CONSTANT MaxChanges \* bound: changes of the tenant's row

ASSUME ChangesAssumption == MaxChanges \in Nat

VARIABLES
  tenant,  \* row of global.tenants: "absent", "active" or "suspended"
  changes, \* changes of it so far
  worker,  \* "down", "idle" (no tenant was found), "up" or "stopping"
  poller   \* whether the tenant's poller runs

life == <<tenant, changes, worker, poller>>

WorkerTypeOK ==
  /\ TypeOK
  /\ tenant \in {"absent", "active", "suspended"}
  /\ changes \in 0 .. MaxChanges
  /\ worker \in {"down", "idle", "up", "stopping"}
  /\ poller \in BOOLEAN

WorkerInit ==
  /\ Init
  /\ tenant = "absent" /\ changes = 0
  /\ worker = "down" /\ poller = FALSE

-----------------------------------------------------------------------------
(* Tenants are added and removed by the seed modes, suspended by hand.     *)
ChangeTenant(row) ==
  /\ tenant # row /\ (tenant = "absent" => row = "active")
  /\ changes < MaxChanges
  /\ tenant' = row /\ changes' = changes + 1
  /\ UNCHANGED <<vars, worker, poller>>

(* The webhooks of a tenant need its row, suspended or not.                *)
TenantPush == tenant # "absent" /\ Push /\ UNCHANGED life

(* Variants: bugs the runs must find.                                      *)
StartWorkerSkips ==
  /\ worker = "down"
  /\ worker' = IF tenant = "absent" THEN "idle" ELSE "up"
  /\ poller' = (tenant = "suspended")
  /\ IF tenant = "suspended" THEN Start ELSE UNCHANGED vars
  /\ UNCHANGED <<tenant, changes>>

EndWorkerAtOnce ==
  /\ worker = "stopping" /\ ~poller
  /\ worker' = "down"
  /\ UNCHANGED <<vars, tenant, changes, poller>>

(* No row at all: the worker idles until it is stopped.                    *)
StartWorker ==
  /\ worker = "down"
  /\ worker' = IF tenant = "absent" THEN "idle" ELSE "up"
  /\ poller' = (tenant = "active")
  /\ IF tenant = "active" THEN Start ELSE UNCHANGED vars
  /\ UNCHANGED <<tenant, changes>>

SignalWorker ==
  /\ worker \in {"idle", "up"}
  /\ worker' = "stopping"
  /\ UNCHANGED <<vars, tenant, changes, poller>>

(* The processor looks at its context before each XREAD.                   *)
StartRead == worker = "up" /\ XReadStart /\ UNCHANGED life

StopReading == worker = "stopping" /\ Stop /\ UNCHANGED life

EndRead == (XReadReturn \/ XReadTimeout \/ XReadError) /\ UNCHANGED life

HandOver == Dispatch /\ UNCHANGED life

StopPoller ==
  /\ worker = "stopping" /\ poller
  /\ poller' = FALSE
  /\ UNCHANGED <<vars, tenant, changes, worker>>

(* Both wait groups are done; the pool and the Redis client are closed.    *)
EndWorker ==
  /\ worker = "stopping" /\ ~poller /\ pc = "down"
  /\ worker' = "down"
  /\ UNCHANGED <<vars, tenant, changes, poller>>

CrashWorker ==
  /\ "crash" \in Faults /\ worker # "down"
  /\ worker' = "down" /\ poller' = FALSE
  /\ IF pc = "down" THEN UNCHANGED vars ELSE Crash
  /\ UNCHANGED <<tenant, changes>>

TenantStep == \E row \in {"absent", "active", "suspended"} : ChangeTenant(row)

WorkerNext ==
  \/ TenantStep \/ TenantPush
  \/ StartWorker \/ SignalWorker \/ StopPoller \/ EndWorker \/ CrashWorker
  \/ StartRead \/ EndRead \/ StopReading \/ HandOver

workerVars == <<vars, life>>

WorkerSpec == WorkerInit /\ [][WorkerNext]_workerVars

-----------------------------------------------------------------------------
(* Properties.                                                             *)

Serves == worker = "up" /\ poller /\ pc # "down"

(* A tenant that is there when the worker is told to stop is served by the *)
(* next one: a stopping worker does end, whatever its loops are doing, and *)
(* its successor lists the tenant again (app.go runWorker, worker.go Run). *)
ServedAfterRestart ==
  worker = "stopping" /\ tenant = "active" ~> Serves \/ tenant # "active"

(* Nothing uses the database pool or the Redis client of a worker that has *)
(* ended, and the next worker's processor is the only one (the deferred    *)
(* Close calls of runWorker come after both WaitGroups).                   *)
StoppedIsQuiet == worker \in {"down", "idle"} => ~poller /\ pc = "down"
=============================================================================
