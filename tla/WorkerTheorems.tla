--------------------------- MODULE WorkerTheorems ---------------------------
(***************************************************************************)
(* EventStream implements EventDelivery, for every batch size and every    *)
(* length of the stream, and leaves no gap once it has read a message.     *)
(* The life cycle of the worker does nothing to the event processor that   *)
(* EventStream does not allow, so all that is proved of EventStream holds  *)
(* of the processor inside the worker; and a worker that has ended has     *)
(* left no loop behind.                                                    *)
(*                                                                         *)
(* The worker with its handler implements IncidentSync: the part of the    *)
(* stream that is ahead of the processor is the queue IncidentSync speaks  *)
(* of.  What IncidentSyncTheorems proves of the queue then holds of the    *)
(* stream, with the handler's failures, restarts and crashes.              *)
(*                                                                         *)
(* For every batch size, all bounds, incidents, rules and faults.          *)
(***************************************************************************)
EXTENDS IncidentWorker, SequenceTheorems, TLAPS

(* Where the processor is in the stream, and that nothing at or behind     *)
(* what it has delivered is ahead of it.                                   *)
Places ==
  /\ lastID # Dollar => lastID <= sent
  /\ pc \in {"blocked", "dispatch"} /\ lastID # Dollar => from = lastID
  /\ pc = "blocked" => from <= sent
  /\ pc = "dispatch" => from < upto /\ upto <= sent
  /\ \A i \in Nat : Delivered(i) => i <= sent /\ ~Ahead(i)

IInv == TypeOK /\ Places

-----------------------------------------------------------------------------
(* Handing a message over adds it, and nothing else, to what was delivered.*)
LEMMA DeliveredAppend ==
  ASSUME TypeOK, NEW n \in Nat, delivered' = Append(delivered, n), NEW i \in Nat
  PROVE  Delivered(i)' <=> Delivered(i) \/ i = n
<1>1. /\ Len(delivered) \in Nat
      /\ DOMAIN delivered = 1 .. Len(delivered)
      /\ DOMAIN delivered' = 1 .. (Len(delivered) + 1)
      /\ delivered'[Len(delivered) + 1] = n
      /\ \A k \in 1 .. Len(delivered) : delivered'[k] = delivered[k]
  BY DEF TypeOK
<1>2. ASSUME Delivered(i)' PROVE Delivered(i) \/ i = n
  <2>1. PICK k \in 1 .. (Len(delivered) + 1) : delivered'[k] = i
    BY <1>1, <1>2 DEF Delivered
  <2>2. CASE k = Len(delivered) + 1  BY <2>1, <2>2, <1>1
  <2>3. CASE k # Len(delivered) + 1
    <3>1. k \in 1 .. Len(delivered)  BY <2>3, <1>1
    <3> QED  BY <3>1, <2>1, <1>1 DEF Delivered
  <2> QED  BY <2>2, <2>3
<1>3. ASSUME Delivered(i) PROVE Delivered(i)'
  <2>1. PICK k \in 1 .. Len(delivered) : delivered[k] = i
    BY <1>1, <1>3 DEF Delivered
  <2>2. k \in DOMAIN delivered' /\ delivered'[k] = i  BY <2>1, <1>1
  <2> QED  BY <2>2 DEF Delivered
<1>4. ASSUME i = n PROVE Delivered(i)'
  <2>1. Len(delivered) + 1 \in DOMAIN delivered'  BY <1>1
  <2> QED  BY <2>1, <1>1, <1>4 DEF Delivered
<1> QED  BY <1>2, <1>3, <1>4

LEMMA DeliveredSame ==
  ASSUME UNCHANGED delivered, NEW i
  PROVE  Delivered(i)' <=> Delivered(i)
BY DEF Delivered

LEMMA InitIInv == Init => IInv
<1> SUFFICES ASSUME Init PROVE IInv
  OBVIOUS
<1>1. TypeOK  BY DEF Init, TypeOK, Dollar
<1>2. \A i \in Nat : ~Delivered(i)  BY DEF Init, Delivered
<1> QED  BY <1>1, <1>2 DEF Init, IInv, Places, Dollar

LEMMA TypeStep == TypeOK /\ [Next]_vars => TypeOK'
<1> SUFFICES ASSUME TypeOK, [Next]_vars PROVE TypeOK'
  OBVIOUS
<1> USE DEF TypeOK, Dollar
<1>1. CASE Push  BY <1>1 DEF Push
<1>2. CASE Start  BY <1>2 DEF Start
<1>3. CASE XReadStart  BY <1>3 DEF XReadStart
<1>4. CASE XReadReturn  BY <1>4, BatchAssumption DEF XReadReturn
<1>5. CASE XReadTimeout \/ XReadError  BY <1>5 DEF XReadTimeout, XReadError
<1>6. CASE Dispatch  BY <1>6 DEF Dispatch
<1>7. CASE Stop \/ Crash  BY <1>7 DEF Stop, Crash
<1>8. CASE UNCHANGED vars  BY <1>8 DEF vars
<1> QED  BY <1>1, <1>2, <1>3, <1>4, <1>5, <1>6, <1>7, <1>8 DEF Next

LEMMA PlacesStep == IInv /\ [Next]_vars => Places'
<1> SUFFICES ASSUME IInv, [Next]_vars PROVE Places'
  OBVIOUS
<1> USE DEF IInv, TypeOK, Places, Dollar, Ahead
<1>1. CASE Push
  <2>1. UNCHANGED delivered  BY <1>1 DEF Push
  <2> QED  BY <1>1, <2>1, DeliveredSame DEF Push
<1>2. CASE Start
  <2>1. UNCHANGED delivered  BY <1>2 DEF Start
  <2> QED  BY <1>2, <2>1, DeliveredSame DEF Start
<1>3. CASE XReadStart
  <2>1. UNCHANGED delivered  BY <1>3 DEF XReadStart
  <2> QED  BY <1>3, <2>1, DeliveredSame DEF XReadStart
<1>4. CASE XReadReturn
  <2>1. UNCHANGED delivered  BY <1>4 DEF XReadReturn
  <2> QED  BY <1>4, <2>1, DeliveredSame, BatchAssumption DEF XReadReturn
<1>5. CASE XReadTimeout \/ XReadError
  <2>1. UNCHANGED delivered  BY <1>5 DEF XReadTimeout, XReadError
  <2> QED  BY <1>5, <2>1, DeliveredSame DEF XReadTimeout, XReadError
<1>6. CASE Dispatch
  <2>1. from + 1 \in Nat /\ from + 1 <= upto /\ upto <= sent
    BY <1>6 DEF Dispatch
  <2>2. \A i \in Nat : Delivered(i)' <=> Delivered(i) \/ i = from + 1
    BY <1>6, <2>1, DeliveredAppend DEF Dispatch
  <2>3. \A i \in Nat : Delivered(i)' => i <= sent' /\ ~Ahead(i)'
    BY <1>6, <2>1, <2>2 DEF Dispatch
  <2> QED  BY <1>6, <2>1, <2>3 DEF Dispatch
<1>7. CASE Stop \/ Crash
  <2>1. UNCHANGED delivered  BY <1>7 DEF Stop, Crash
  <2> QED  BY <1>7, <2>1, DeliveredSame DEF Stop, Crash
<1>8. CASE UNCHANGED vars
  <2>1. UNCHANGED delivered  BY <1>8 DEF vars
  <2> QED  BY <1>8, <2>1, DeliveredSame DEF vars
<1> QED  BY <1>1, <1>2, <1>3, <1>4, <1>5, <1>6, <1>7, <1>8 DEF Next

LEMMA Invariance == Spec => []IInv
<1>1. IInv /\ [Next]_vars => IInv'  BY TypeStep, PlacesStep DEF IInv
<1> QED  BY InitIInv, <1>1, PTL DEF Spec

(* Every variable of the stream and its reader keeps its type, whatever    *)
(* fails: an id is a place in the stream or "$", and a resolved "$" is     *)
(* never kept as one.                                                      *)
THEOREM TypeCorrect == Spec => []TypeOK
<1>1. IInv => TypeOK  BY DEF IInv
<1> QED  BY Invariance, <1>1, PTL

-----------------------------------------------------------------------------
(* What a step does to the messages that were passed over.                 *)
LEMMA MissedDispatch ==
  ASSUME IInv, Dispatch
  PROVE  /\ Missed' = Missed
         /\ from + 1 \in 1 .. sent
         /\ ~Delivered(from + 1) /\ from + 1 \notin Missed
         /\ \A j \in 1 .. from : Delivered(j) \/ j \in Missed
<1> USE DEF IInv, TypeOK, Places, Dollar, Ahead
<1>1. /\ from + 1 \in 1 .. sent /\ pc = "dispatch"
      /\ delivered' = Append(delivered, from + 1)
      /\ lastID' = from + 1 /\ from' = from + 1 /\ sent' = sent
      /\ pc' \in {"dispatch", "read"}
  BY DEF Dispatch
<1>2. \A i \in Nat : Delivered(i)' <=> Delivered(i) \/ i = from + 1
  BY <1>1, DeliveredAppend
<1>3. \A i \in Nat : Ahead(i)' <=> i > from + 1
  BY <1>1
<1>4. \A i \in Nat : Ahead(i) <=> i > from
  BY <1>1
<1>5. ~Delivered(from + 1)  BY <1>1, <1>4
<1>6. Missed' = {i \in 1 .. sent : ~Delivered(i)' /\ ~Ahead(i)'}
  BY <1>1 DEF Missed
<1>7. \A i \in 1 .. sent : ~Delivered(i)' /\ ~Ahead(i)' <=> ~Delivered(i) /\ ~Ahead(i)
  <2> TAKE i \in 1 .. sent
  <2>1. i \in Nat  OBVIOUS
  <2> HIDE DEF Ahead
  <2> QED  BY <2>1, <1>1, <1>2, <1>3, <1>4, <1>5
<1>8. Missed' = Missed  BY <1>6, <1>7 DEF Missed
<1>9. \A j \in 1 .. from : Delivered(j) \/ j \in Missed
  BY <1>1, <1>4 DEF Missed
<1>10. from + 1 \notin Missed  BY <1>1, <1>4 DEF Missed
<1> QED  BY <1>1, <1>5, <1>8, <1>9, <1>10

(* A step that delivers nothing and appends nothing leaves what was passed *)
(* over as it is, or adds all that was ahead to it.                        *)
LEMMA MissedIdle ==
  ASSUME IInv, UNCHANGED <<sent, delivered>>
  PROVE  /\ (\A i \in 1 .. sent : Ahead(i)' <=> Ahead(i)) => Missed' = Missed
         /\ (\A i \in 1 .. sent : ~Ahead(i)')
              => Missed' = {i \in 1 .. sent : ~Delivered(i)}
<1>1. \A i : Delivered(i)' <=> Delivered(i)  BY DeliveredSame
<1>2. Missed' = {i \in 1 .. sent : ~Delivered(i) /\ ~Ahead(i)'}
  BY <1>1 DEF Missed
<1> QED  BY <1>2 DEF Missed

(* From the first message it has received on, a processor passes over      *)
(* nothing, whatever fails, until it stops or crashes.                     *)
LEMMA NoGapStep ==
  ASSUME IInv, [Next]_vars, pc # "down", pc' # "down", lastID # Dollar
  PROVE  Missed' = Missed
<1> USE DEF IInv, TypeOK, Places, Ahead
<1>1. CASE Push
  <2>1. /\ sent' = sent + 1 /\ UNCHANGED delivered
        /\ \A i \in Nat : Ahead(i)' <=> Ahead(i)
    BY <1>1 DEF Push
  <2>2. Ahead(sent + 1)  BY <1>1 DEF Push
  <2>3. \A i \in Nat : Delivered(i)' <=> Delivered(i)  BY <2>1, DeliveredSame
  <2>4. Missed' = {i \in 1 .. (sent + 1) : ~Delivered(i) /\ ~Ahead(i)}
    <3> HIDE DEF Ahead
    <3>1. Missed' = {i \in 1 .. (sent + 1) : ~Delivered(i)' /\ ~Ahead(i)'}
      BY <2>1 DEF Missed
    <3>2. \A i \in 1 .. (sent + 1) :
            ~Delivered(i)' /\ ~Ahead(i)' <=> ~Delivered(i) /\ ~Ahead(i)
      BY <2>1, <2>3
    <3> QED  BY <3>1, <3>2
  <2>5. \A i \in 1 .. (sent + 1) : i \in 1 .. sent \/ i = sent + 1  OBVIOUS
  <2>6. \A i \in 1 .. sent : i \in 1 .. (sent + 1)  OBVIOUS
  <2> HIDE DEF Ahead
  <2> QED  BY <2>2, <2>4, <2>5, <2>6 DEF Missed
<1>2. CASE XReadStart
  <2>1. UNCHANGED <<sent, delivered>> /\ \A i \in 1 .. sent : Ahead(i)' <=> Ahead(i)
    BY <1>2 DEF XReadStart
  <2> QED  BY <2>1, MissedIdle
<1>3. CASE XReadReturn
  <2>1. UNCHANGED <<sent, delivered>> /\ \A i \in 1 .. sent : Ahead(i)' <=> Ahead(i)
    BY <1>3 DEF XReadReturn
  <2> QED  BY <2>1, MissedIdle
<1>4. CASE XReadTimeout \/ XReadError
  <2>1. UNCHANGED <<sent, delivered>> /\ \A i \in 1 .. sent : Ahead(i)' <=> Ahead(i)
    BY <1>4 DEF XReadTimeout, XReadError
  <2> QED  BY <2>1, MissedIdle
<1>5. CASE Dispatch  BY <1>5, MissedDispatch
<1>6. CASE UNCHANGED vars
  <2>1. UNCHANGED <<sent, delivered>> /\ \A i \in 1 .. sent : Ahead(i)' <=> Ahead(i)
    BY <1>6 DEF vars
  <2> QED  BY <2>1, MissedIdle
<1> QED  BY <1>1, <1>2, <1>3, <1>4, <1>5, <1>6 DEF Next, Start, Stop, Crash

THEOREM NoGapOnceReadingAlways == Spec => NoGapOnceReading
<1>1. IInv /\ [Next]_vars =>
        [pc # "down" /\ pc' # "down" /\ lastID # Dollar => Missed' = Missed]_vars
  BY NoGapStep
<1> QED  BY <1>1, Invariance, PTL DEF Spec, NoGapOnceReading

-----------------------------------------------------------------------------
(* Every step of the stream is a step of EventDelivery or a stutter.       *)
LEMMA AbstractStep == IInv /\ [Next]_vars => [Abstract!Next]_(Abstract!vars)
<1> SUFFICES ASSUME IInv, [Next]_vars
             PROVE  Abstract!Next \/ UNCHANGED <<sent, delivered, Missed>>
  BY DEF Abstract!vars
<1> DEFINE Passed == Missed' = {i \in 1 .. sent : ~Delivered(i)}
<1>1. CASE Push
  <2>1. sent' = sent + 1 /\ UNCHANGED delivered  BY <1>1 DEF Push
  <2>2. \A i \in 1 .. sent : Delivered(i)' <=> Delivered(i)  BY <2>1, DeliveredSame
  <2>3. \A i \in 1 .. sent : Ahead(i)' <=> Ahead(i)
    BY <1>1 DEF Push, Ahead, IInv, TypeOK, Dollar
  <2>4. \A i \in 1 .. sent' : i \in 1 .. sent \/ i = sent + 1
    BY <2>1 DEF IInv, TypeOK
  <2>5. \A i \in 1 .. sent : i \in 1 .. sent'
    BY <2>1 DEF IInv, TypeOK
  <2>6. Missed' = {i \in 1 .. sent' : ~Delivered(i)' /\ ~Ahead(i)'}
    BY DEF Missed
  <2>7. Missed' \in {Missed, Missed \cup {sent + 1}}
    BY <2>2, <2>3, <2>4, <2>5, <2>6 DEF Missed
  <2> QED  BY <2>1, <2>7 DEF Abstract!Next, Abstract!Accept
<1>2. CASE Dispatch
  <2>1. delivered' = Append(delivered, from + 1) /\ sent' = sent
    BY <1>2 DEF Dispatch
  <2>2. \A j \in 1 .. sent : j < from + 1 => Delivered(j) \/ j \in Missed
    BY <1>2, MissedDispatch DEF IInv, TypeOK
  <2>3. Abstract!Deliver(from + 1)
    BY <1>2, <2>1, <2>2, MissedDispatch DEF Abstract!Deliver, Abstract!Delivered, Delivered
  <2>4. from + 1 \in 1 .. sent  BY <1>2, MissedDispatch
  <2> QED  BY <2>3, <2>4 DEF Abstract!Next
<1>3. ASSUME UNCHANGED <<sent, delivered>>,
             \/ \A i \in 1 .. sent : Ahead(i)' <=> Ahead(i)
             \/ \A i \in 1 .. sent : ~Ahead(i)'
      PROVE  Abstract!Next \/ UNCHANGED <<sent, delivered, Missed>>
  <2>1. Missed' = Missed \/ Passed  BY <1>3, MissedIdle
  <2>2. CASE Missed' = Missed  BY <2>2, <1>3
  <2>3. CASE Passed
    <3>1. Abstract!Lose
      BY <2>3, <1>3 DEF Abstract!Lose, Abstract!Delivered, Delivered
    <3> QED  BY <3>1 DEF Abstract!Next
  <2> QED  BY <2>1, <2>2, <2>3
<1>4. CASE ~Push /\ ~Dispatch
  <2> USE DEF IInv, TypeOK, Places, Ahead, Dollar
  <2>1. UNCHANGED <<sent, delivered>>
    BY <1>4 DEF Next, Start, XReadStart, XReadReturn, XReadTimeout, XReadError,
                Stop, Crash, vars
  <2>2. CASE Start \/ Stop \/ Crash
    <3>1. \A i \in 1 .. sent : ~Ahead(i)'  BY <2>2 DEF Start, Stop, Crash
    <3> QED  BY <3>1, <2>1, <1>3
  <2>3. CASE XReadStart
    <3>1. CASE lastID = Dollar
      <4>1. \A i \in 1 .. sent : ~Ahead(i)'  BY <2>3, <3>1 DEF XReadStart
      <4> QED  BY <4>1, <2>1, <1>3
    <3>2. CASE lastID # Dollar
      <4>1. \A i \in 1 .. sent : Ahead(i)' <=> Ahead(i)
        BY <2>3, <3>2 DEF XReadStart
      <4> QED  BY <4>1, <2>1, <1>3
    <3> QED  BY <3>1, <3>2
  <2>4. CASE XReadReturn \/ UNCHANGED vars
    <3>1. \A i \in 1 .. sent : Ahead(i)' <=> Ahead(i)
      BY <2>4 DEF XReadReturn, vars
    <3> QED  BY <3>1, <2>1, <1>3
  <2>5. CASE XReadTimeout \/ XReadError
    <3>1. CASE lastID = Dollar
      <4>1. \A i \in 1 .. sent : ~Ahead(i)'
        BY <2>5, <3>1 DEF XReadTimeout, XReadError
      <4> QED  BY <4>1, <2>1, <1>3
    <3>2. CASE lastID # Dollar
      <4>1. \A i \in 1 .. sent : Ahead(i)' <=> Ahead(i)
        BY <2>5, <3>2 DEF XReadTimeout, XReadError
      <4> QED  BY <4>1, <2>1, <1>3
    <3> QED  BY <3>1, <3>2
  <2> QED  BY <1>4, <2>2, <2>3, <2>4, <2>5 DEF Next
<1> QED  BY <1>1, <1>2, <1>4

(* The path implements EventDelivery: whatever restarts and fails, no      *)
(* message is delivered twice, out of order, or after it was passed over.  *)
THEOREM Implements == Spec => DeliversInOrder
<1>1. Init => Abstract!Init
  <2> SUFFICES ASSUME Init PROVE Missed = {}
    BY DEF Init, Abstract!Init
  <2>1. 1 .. sent = {}  BY DEF Init
  <2> QED  BY <2>1 DEF Missed
<1> QED  BY <1>1, AbstractStep, Invariance, PTL DEF Spec, DeliversInOrder, Abstract!Spec

-----------------------------------------------------------------------------
(* Each step of the worker is a step of the stream or leaves it alone.     *)
LEMMA WorkerStep == [WorkerNext]_workerVars => [Next]_vars
<1> SUFFICES ASSUME [WorkerNext]_workerVars PROVE [Next]_vars
  OBVIOUS
<1>1. CASE TenantStep  BY <1>1 DEF TenantStep, ChangeTenant
<1>2. CASE TenantPush  BY <1>2 DEF TenantPush, Next
<1>3. CASE StartWorker  BY <1>3 DEF StartWorker, Next
<1>4. CASE SignalWorker  BY <1>4 DEF SignalWorker
<1>5. CASE StopPoller  BY <1>5 DEF StopPoller
<1>6. CASE EndWorker  BY <1>6 DEF EndWorker
<1>7. CASE CrashWorker  BY <1>7 DEF CrashWorker, Next
<1>8. CASE StartRead \/ EndRead \/ StopReading \/ HandOver
  BY <1>8 DEF StartRead, EndRead, StopReading, HandOver, Next
<1>9. CASE UNCHANGED workerVars  BY <1>9 DEF workerVars
<1> QED  BY <1>1, <1>2, <1>3, <1>4, <1>5, <1>6, <1>7, <1>8, <1>9
         DEF WorkerNext

(* The processor in the worker is a processor of EventStream.              *)
THEOREM Refines == WorkerSpec => Spec
<1>1. WorkerInit => Init  BY DEF WorkerInit
<1> QED  BY <1>1, WorkerStep, PTL DEF WorkerSpec, Spec

(* Events are handed over at most once and in order, across any number of  *)
(* restarts and changes of the tenant (worker.go, eventprocessor.go).      *)
THEOREM WorkerDeliversInOrder == WorkerSpec => DeliversInOrder
BY Refines, Implements

(* A processor that has read one message passes over none until its worker *)
(* stops or crashes.                                                       *)
THEOREM WorkerLeavesNoGap == WorkerSpec => NoGapOnceReading
BY Refines, NoGapOnceReadingAlways

(* Every variable of the worker and its stream keeps its type.             *)
THEOREM WorkerTypeCorrect == WorkerSpec => []WorkerTypeOK
<1> DEFINE LifeOK == /\ tenant \in {"absent", "active", "suspended"}
                     /\ changes \in 0 .. MaxChanges
                     /\ worker \in {"down", "idle", "up", "stopping"}
                     /\ poller \in BOOLEAN
<1>1. WorkerInit => LifeOK
  <2> SUFFICES ASSUME WorkerInit PROVE LifeOK
    OBVIOUS
  <2>1. changes \in 0 .. MaxChanges  BY ChangesAssumption DEF WorkerInit
  <2>2. poller \in BOOLEAN  BY DEF WorkerInit
  <2> QED  BY <2>1, <2>2 DEF WorkerInit
<1>2. LifeOK /\ [WorkerNext]_workerVars => LifeOK'
  <2> SUFFICES ASSUME LifeOK, [WorkerNext]_workerVars PROVE LifeOK'
    OBVIOUS
  <2> USE ChangesAssumption
  <2>1. CASE TenantStep  BY <2>1 DEF TenantStep, ChangeTenant
  <2>2. CASE TenantPush  BY <2>2 DEF TenantPush, life
  <2>3. CASE StartWorker  BY <2>3 DEF StartWorker
  <2>4. CASE SignalWorker  BY <2>4 DEF SignalWorker
  <2>5. CASE StopPoller  BY <2>5 DEF StopPoller
  <2>6. CASE EndWorker  BY <2>6 DEF EndWorker
  <2>7. CASE CrashWorker  BY <2>7 DEF CrashWorker
  <2>8. CASE StartRead \/ EndRead \/ StopReading \/ HandOver
    BY <2>8 DEF StartRead, EndRead, StopReading, HandOver, life
  <2>9. CASE UNCHANGED workerVars  BY <2>9 DEF workerVars, life
  <2> QED  BY <2>1, <2>2, <2>3, <2>4, <2>5, <2>6, <2>7, <2>8, <2>9
           DEF WorkerNext
<1>3. WorkerTypeOK <=> TypeOK /\ LifeOK  BY DEF WorkerTypeOK
<1>4. WorkerSpec => []TypeOK  BY Refines, TypeCorrect
<1>5. WorkerSpec => []LifeOK
  <2> HIDE DEF LifeOK
  <2> QED  BY <1>1, <1>2, PTL DEF WorkerSpec
<1> HIDE DEF LifeOK
<1> QED  BY <1>3, <1>4, <1>5, PTL

(* Whatever stops or kills it, a worker that has ended, or that idles, has *)
(* no poller and no processor.                                             *)
THEOREM StoppedIsQuietAlways == WorkerSpec => []StoppedIsQuiet
<1>1. WorkerInit => StoppedIsQuiet
  BY DEF WorkerInit, Init, StoppedIsQuiet
<1>2. StoppedIsQuiet /\ [WorkerNext]_workerVars => StoppedIsQuiet'
  <2> SUFFICES ASSUME StoppedIsQuiet, [WorkerNext]_workerVars
               PROVE  StoppedIsQuiet'
    OBVIOUS
  <2> USE DEF StoppedIsQuiet
  <2>1. CASE TenantStep  BY <2>1 DEF TenantStep, ChangeTenant, vars
  <2>2. CASE TenantPush  BY <2>2 DEF TenantPush, Push, life
  <2>3. CASE StartWorker
    BY <2>3 DEF StartWorker, vars
  <2>4. CASE SignalWorker  BY <2>4 DEF SignalWorker, vars
  <2>5. CASE StopPoller  BY <2>5 DEF StopPoller, vars
  <2>6. CASE EndWorker  BY <2>6 DEF EndWorker, vars
  <2>7. CASE CrashWorker  BY <2>7 DEF CrashWorker, Crash, vars
  <2>8. CASE StartRead \/ EndRead \/ StopReading \/ HandOver
    BY <2>8 DEF StartRead, EndRead, StopReading, HandOver, XReadStart, XReadReturn,
                XReadTimeout, XReadError, Dispatch, Stop, life
  <2>9. CASE UNCHANGED workerVars  BY <2>9 DEF workerVars, vars, life
  <2> QED  BY <2>1, <2>2, <2>3, <2>4, <2>5, <2>6, <2>7, <2>8, <2>9
           DEF WorkerNext
<1> QED  BY <1>1, <1>2, PTL DEF WorkerSpec
-----------------------------------------------------------------------------
(* What ServedAfterRestart rests on besides fairness: how many steps a     *)
(* worker that was told to stop has still to take.  A batch it waits for   *)
(* is dispatched before the processor looks at its context again.          *)
StepsToStop ==
  IF worker # "stopping" THEN 0
  ELSE 1 + (IF poller THEN 1 ELSE 0)
         + (CASE pc = "down" -> 0 [] pc = "read" -> 1
              [] pc = "dispatch" -> 1 + (upto - from)
              [] pc = "blocked" -> 2 + BatchSize)

(* A batch has at most as many messages as XREAD was asked for.            *)
BatchFits == pc = "dispatch" => upto - from <= BatchSize

LEMMA BatchFitsStep == IInv /\ BatchFits /\ [Next]_vars => BatchFits'
<1> SUFFICES ASSUME IInv, BatchFits, [Next]_vars PROVE BatchFits'
  OBVIOUS
<1>0. TypeOK /\ from \in Int /\ upto \in Int /\ BatchSize \in Int
  BY BatchAssumption DEF IInv, TypeOK
<1>1. CASE XReadReturn
  BY <1>0, <1>1 DEF XReadReturn, BatchFits
<1>2. CASE Dispatch
  BY <1>0, <1>2 DEF Dispatch, BatchFits
<1>3. CASE Push \/ Start \/ XReadStart \/ XReadTimeout \/ XReadError \/ Stop \/ Crash
  BY <1>3 DEF Push, Start, XReadStart, XReadTimeout, XReadError, Stop, Crash, BatchFits
<1>4. CASE UNCHANGED vars
  BY <1>4 DEF vars, BatchFits
<1>5. QED
  BY <1>1, <1>2, <1>3, <1>4 DEF Next

(* A worker that was told to stop has at most BatchSize + 4 steps left,    *)
(* and each it takes leaves fewer: its processor reads no further batch,   *)
(* and no webhook, however many come, and no change of the tenant keeps it *)
(* running.                                                                *)
THEOREM EveryStepStops ==
  WorkerSpec => [][worker = "stopping" =>
                     /\ StepsToStop \in 1 .. BatchSize + 4
                     /\ StepsToStop' < StepsToStop \/ TenantStep \/ TenantPush
                     /\ StepsToStop' <= StepsToStop]_workerVars
<1>1. ASSUME IInv, BatchFits, poller \in BOOLEAN, [WorkerNext]_workerVars
      PROVE  [worker = "stopping" =>
                /\ StepsToStop \in 1 .. BatchSize + 4
                /\ StepsToStop' < StepsToStop \/ TenantStep \/ TenantPush
                /\ StepsToStop' <= StepsToStop]_workerVars
  <2> SUFFICES ASSUME worker = "stopping", WorkerNext
               PROVE  /\ StepsToStop \in 1 .. BatchSize + 4
                      /\ StepsToStop' < StepsToStop \/ TenantStep \/ TenantPush
                      /\ StepsToStop' <= StepsToStop
    BY <1>1
  <2> DEFINE polling == IF poller THEN 1 ELSE 0
             reading == IF pc = "down" THEN 0 ELSE IF pc = "read" THEN 1
                        ELSE IF pc = "dispatch" THEN 1 + (upto - from) ELSE 2 + BatchSize
  <2>0. /\ from \in Nat /\ upto \in Nat /\ BatchSize \in Nat /\ BatchSize > 0
        /\ pc \in {"down", "read", "blocked", "dispatch"}
        /\ pc = "dispatch" => from < upto /\ upto - from <= BatchSize
    BY <1>1, BatchAssumption DEF IInv, TypeOK, Places, BatchFits
  <2>1. StepsToStop = 1 + polling + reading
    BY <2>0 DEF StepsToStop
  <2>2. polling \in 0 .. 1 /\ reading \in 0 .. BatchSize + 2
    BY <2>0
  <2>3. StepsToStop \in 1 .. BatchSize + 4
    BY <2>0, <2>1, <2>2
  <2>4. CASE TenantStep \/ TenantPush
    <3>1. UNCHANGED <<worker, poller, pc, upto, from>>
      BY <2>4 DEF TenantStep, ChangeTenant, TenantPush, Push, vars, life
    <3>2. StepsToStop' = StepsToStop
      BY <3>1 DEF StepsToStop
    <3>3. QED
      BY <2>3, <2>4, <3>2
  <2>5. CASE StartWorker \/ SignalWorker \/ StartRead
    BY <2>5 DEF StartWorker, SignalWorker, StartRead
  <2>6. CASE EndWorker \/ CrashWorker
    <3>1. StepsToStop' = 0
      BY <2>6 DEF EndWorker, CrashWorker, StepsToStop
    <3>2. QED
      BY <2>3, <3>1
  <2>7. CASE StopPoller
    <3>1. poller /\ ~poller' /\ UNCHANGED <<worker, pc, upto, from>>
      BY <2>7 DEF StopPoller, vars
    <3>2. StepsToStop' = 1 + 0 + reading /\ StepsToStop = 1 + 1 + reading
      BY <2>0, <2>1, <3>1 DEF StepsToStop
    <3>3. QED
      BY <2>2, <2>3, <3>2
  <2>8. CASE EndRead \/ StopReading \/ HandOver
    <3>1. worker' = "stopping" /\ poller' = poller
      BY <2>8 DEF EndRead, StopReading, HandOver, life
    <3>2. /\ pc' \in {"down", "read", "dispatch"}
          /\ reading' \in Int /\ reading' < reading
      <4>1. CASE XReadReturn
        BY <2>0, <4>1 DEF XReadReturn
      <4>2. CASE XReadTimeout \/ XReadError \/ Stop
        BY <2>0, <4>2 DEF XReadTimeout, XReadError, Stop
      <4>3. CASE Dispatch
        BY <2>0, <4>3 DEF Dispatch
      <4>4. QED
        BY <2>8, <4>1, <4>2, <4>3 DEF EndRead, StopReading, HandOver
    <3>3. StepsToStop' = 1 + polling + reading'
      BY <3>1, <3>2 DEF StepsToStop
    <3>4. QED
      BY <2>1, <2>2, <2>3, <3>2, <3>3
  <2>9. QED
    BY <2>3, <2>4, <2>5, <2>6, <2>7, <2>8 DEF WorkerNext
<1>2. WorkerInit => BatchFits
  BY DEF WorkerInit, Init, BatchFits
<1>3. WorkerSpec => []BatchFits
  <2>1. IInv /\ BatchFits /\ [WorkerNext]_workerVars => BatchFits'
    BY BatchFitsStep, WorkerStep
  <2>2. QED
    BY <1>2, <2>1, Refines, Invariance, PTL DEF WorkerSpec
<1>4. WorkerTypeOK => poller \in BOOLEAN
  BY DEF WorkerTypeOK
<1>5. QED
  BY <1>1, <1>3, <1>4, Refines, Invariance, WorkerTypeCorrect, PTL DEF WorkerSpec
-----------------------------------------------------------------------------
(* Each step of the system is one of the worker or leaves it alone.        *)
LEMMA SystemWorkerStep == [SystemNext]_allVars => [WorkerNext]_workerVars
<1> SUFFICES ASSUME [SystemNext]_allVars PROVE [WorkerNext]_workerVars
  OBVIOUS
<1>1. CASE Quietly(WorkerLife)
  BY <1>1 DEF Quietly, WorkerLife, WorkerNext
<1>2. ASSUME NEW kind, NEW i, Accept(kind, i)
      PROVE  [WorkerNext]_workerVars
  BY <1>2 DEF Accept, WorkerNext
<1>3. CASE Reads(StartRead \/ EndRead \/ StopReading)
  BY <1>3 DEF Reads, Quietly, WorkerNext
<1>4. CASE Process
  BY <1>4 DEF Process, WorkerNext
<1>5. CASE UNCHANGED stream
  BY <1>5 DEF stream
<1>6. CASE SystemCrash
  BY <1>6 DEF SystemCrash, WorkerNext
<1> QED
  BY <1>1, <1>2, <1>3, <1>4, <1>5, <1>6 DEF SystemNext, HandlerWorks, allVars

(* The handler changes nothing about the worker and the stream.            *)
THEOREM SystemRefinesWorker == SystemSpec => WorkerSpec
<1>1. SystemInit => WorkerInit
  BY DEF SystemInit
<1> QED
  BY <1>1, SystemWorkerStep, PTL DEF SystemSpec, WorkerSpec

-----------------------------------------------------------------------------
Event == Sync!Event

(* The log says what the messages of the stream say.                       *)
LogOK == log \in Seq(Event) /\ Len(log) = sent

(* While the handler has an event in hand, the processor waits for it,     *)
(* between two messages or before the next XREAD.                          *)
Busy == hPc # "idle" => pc \in {"read", "dispatch"} /\ lastID # Dollar

SystemInv == IInv /\ LogOK /\ Busy

LEMMA SystemInitInv == SystemInit => SystemInv
<1> SUFFICES ASSUME SystemInit PROVE SystemInv
  OBVIOUS
<1>1. IInv
  BY InitIInv DEF SystemInit, WorkerInit
<1>2. LogOK
  BY EmptySeq DEF SystemInit, WorkerInit, Init, LogOK
<1>3. Busy
  BY DEF SystemInit, Sync!Init, Busy
<1> QED
  BY <1>1, <1>2, <1>3 DEF SystemInv

(* The event that is accepted is the last of the log.                      *)
LEMMA Accepted ==
  ASSUME LogOK, NEW kind \in {"created", "resolved"}, NEW i \in Incidents, Accept(kind, i)
  PROVE  /\ sent' = sent + 1 /\ sent < MaxSent
         /\ UNCHANGED <<pc, lastID, from, upto, delivered, life, hPc>>
         /\ log' \in Seq(Event) /\ Len(log') = sent + 1
         /\ log'[sent + 1] = [kind |-> kind, incident |-> i]
         /\ \A k \in 1 .. sent : log'[k] = log[k]
<1>1. [kind |-> kind, incident |-> i] \in Event
  BY DEF Event, Sync!Event
<1>2. log' = Append(log, [kind |-> kind, incident |-> i])
  BY DEF Accept
<1>3. /\ sent' = sent + 1 /\ sent < MaxSent
      /\ UNCHANGED <<pc, lastID, from, upto, delivered, life, hPc>>
  BY DEF Accept, TenantPush, Push, Sync!NightOwlSends, Sync!handler
<1> QED
  BY <1>1, <1>2, <1>3, AppendProperties DEF LogOK

(* Each step keeps the three parts of the invariant.                       *)
LEMMA LogStep == SystemInv /\ [SystemNext]_allVars => LogOK'
<1> SUFFICES ASSUME SystemInv, [SystemNext]_allVars PROVE LogOK'
  OBVIOUS
<1>1. CASE UNCHANGED <<log, sent>>
  BY <1>1 DEF SystemInv, LogOK
<1>2. ASSUME NEW kind \in {"created", "resolved"}, NEW i \in Incidents, Accept(kind, i)
      PROVE  LogOK'
  BY <1>2, Accepted DEF SystemInv, LogOK
<1>3. CASE Quietly(WorkerLife)
  BY <1>1, <1>3
     DEF Quietly, WorkerLife, TenantStep, ChangeTenant, StartWorker, SignalWorker,
         StopPoller,
         EndWorker, Start, vars
<1>4. CASE Reads(StartRead \/ EndRead \/ StopReading) \/ Process
  BY <1>1, <1>4
     DEF Reads, Quietly, Process, StartRead, EndRead, StopReading, HandOver, XReadStart,
         XReadReturn, XReadTimeout, XReadError, Stop, Dispatch
<1>5. CASE SystemCrash
  BY <1>1, <1>5 DEF SystemCrash, CrashWorker, Crash, vars
<1>6. CASE UNCHANGED stream
  BY <1>1, <1>6 DEF stream, workerVars, vars
<1> QED
  BY <1>2, <1>3, <1>4, <1>5, <1>6 DEF SystemNext, HandlerWorks, allVars

LEMMA BusyStep == SystemInv /\ [SystemNext]_allVars => Busy'
<1> SUFFICES ASSUME SystemInv, [SystemNext]_allVars PROVE Busy'
  OBVIOUS
<1>0. Busy /\ from \in Nat
  BY DEF SystemInv, IInv, TypeOK
<1>1. CASE hPc' = "idle"
  BY <1>1 DEF Busy
<1>2. CASE UNCHANGED <<pc, lastID>> /\ (hPc = "idle" => hPc' = "idle")
  BY <1>0, <1>2 DEF Busy
<1>3. CASE Quietly(WorkerLife)
  BY <1>0, <1>1, <1>2, <1>3
     DEF Quietly, WorkerLife, TenantStep, ChangeTenant, StartWorker, SignalWorker,
         StopPoller,
         EndWorker, Start, vars, desk, Busy
<1>4. ASSUME NEW kind \in {"created", "resolved"}, NEW i \in Incidents, Accept(kind, i)
      PROVE  Busy'
  BY <1>2, <1>4, Accepted DEF SystemInv
<1>5. CASE Reads(StartRead \/ EndRead \/ StopReading)
  BY <1>1, <1>5 DEF Reads, Quietly, desk
<1>6. CASE Process
  BY <1>0, <1>6 DEF Process, HandOver, Dispatch, Busy, Dollar
<1>7. CASE HandlerWorks
  BY <1>2, <1>7
     DEF HandlerWorks, stream, workerVars, vars, Sync!Work, Sync!CreateTicket,
         Sync!CreateTicketFails, Sync!UpsertMeta, Sync!UpsertMetaFails,
         Sync!CreateIncidentLink, Sync!CreateIncidentLinkFails, Sync!CloseTicket,
         Sync!CloseTicketFails
<1>8. CASE SystemCrash
  BY <1>1, <1>8 DEF SystemCrash, Sync!HandlerIdle
<1>9. CASE /\ UNCHANGED stream
           /\ \/ Sync!AgentStep
              \/ \E t \in Sync!Tickets : Sync!CreateTicketUnheard(t)
  BY <1>2, <1>9
     DEF stream, workerVars, vars, Sync!AgentStep, Sync!UpdateAutoTicketRule,
         Sync!AgentCreates, Sync!AgentCloses, Sync!AgentReopens, Sync!AgentDeletes,
         Sync!LinkIncident, Sync!UnlinkIncident, Sync!CreateTicketUnheard, Sync!handler
<1>10. CASE UNCHANGED allVars
  BY <1>2, <1>10 DEF allVars, stream, workerVars, vars, desk
<1> QED
  BY <1>3, <1>4, <1>5, <1>6, <1>7, <1>8, <1>9, <1>10 DEF SystemNext

LEMMA SystemInvStep == SystemInv /\ [SystemNext]_allVars => SystemInv'
BY SystemWorkerStep, WorkerStep, TypeStep, PlacesStep, LogStep, BusyStep DEF SystemInv, IInv

(* What waits is what comes after the processor's place.                   *)
WaitingOK ==
  /\ Place \in 0 .. sent
  /\ \A i \in 1 .. sent : Ahead(i) <=> i > Place
  /\ Waiting \in Seq(Event) /\ Len(Waiting) = sent - Place
  /\ DOMAIN Waiting = 1 .. (sent - Place)
  /\ \A k \in 1 .. (sent - Place) : Waiting[k] = log[Place + k]

LEMMA WaitingIsAhead == SystemInv => WaitingOK
<1> SUFFICES ASSUME SystemInv PROVE WaitingOK
  OBVIOUS
<1>1. sent \in Nat /\ Place \in 0 .. sent
  BY DEF SystemInv, IInv, TypeOK, Places, Place, Dollar
<1>2. \A i \in 1 .. sent : Ahead(i) <=> i > Place
  BY DEF SystemInv, IInv, TypeOK, Places, Place, Dollar, Ahead
<1>3. \A k \in 1 .. sent : log[k] \in Event
  BY ElementOfSeq DEF SystemInv, LogOK
<1>4. /\ Waiting \in Seq(Event) /\ Len(Waiting) = sent - Place
      /\ \A k \in 1 .. (sent - Place) : Waiting[k] = log[Place + k]
  <2>1. Place + 1 \in Int /\ sent \in Int /\ \A k \in (Place + 1) .. sent : log[k] \in Event
    BY <1>1, <1>3
  <2>2. /\ Waiting \in Seq(Event)
        /\ Len(Waiting) = IF Place + 1 <= sent THEN sent - (Place + 1) + 1 ELSE 0
        /\ \A k \in 1 .. (sent - (Place + 1) + 1) : Waiting[k] = log[Place + 1 + k - 1]
    <3> HIDE DEF Place
    <3> QED
      BY <2>1, SubSeqProperties DEF Waiting
  <2> HIDE DEF Waiting, Place
  <2> QED
    BY <1>1, <2>2
<1>5. DOMAIN Waiting = 1 .. (sent - Place)
  BY <1>4, LenProperties
<1> QED
  BY <1>1, <1>2, <1>4, <1>5 DEF WaitingOK

(* The same of the next state.                                             *)
LEMMA WaitingIsAheadNext == SystemInv' => WaitingOK'
BY WaitingIsAhead, PTL

(* A step that leaves what is ahead as it is leaves the queue as it is and *)
(* passes over nothing.                                                    *)
LEMMA NothingPassed ==
  ASSUME SystemInv, SystemInv', UNCHANGED <<sent, delivered, log>>, Place' = Place
  PROVE  Waiting' = Waiting /\ Unheard = {}
<1>1. Waiting' = Waiting
  BY DEF Waiting
<1>2. \A i \in 1 .. sent : Ahead(i)' <=> Ahead(i)
  BY WaitingIsAhead, WaitingIsAheadNext DEF WaitingOK
<1>3. Missed' = Missed
  BY <1>2, MissedIdle DEF SystemInv
<1> QED
  BY <1>1, <1>3 DEF Unheard

(* A step after which nothing is ahead passes over the queue.              *)
LEMMA QueuePassed ==
  ASSUME SystemInv, SystemInv', UNCHANGED <<sent, delivered, log>>, Place' = sent
  PROVE  Waiting' = <<>> /\ Unheard = Sync!Unheard(Waiting)
<1> DEFINE N == sent - Place
<1>0. /\ sent \in Nat /\ Place \in 0 .. sent /\ N \in Nat
      /\ DOMAIN Waiting = 1 .. N /\ \A k \in 1 .. N : Waiting[k] = log[Place + k]
  BY WaitingIsAhead DEF WaitingOK, SystemInv, IInv, TypeOK
<1>1. Waiting' = <<>>
  BY <1>0, SubSeqEmpty DEF Waiting
<1>2. \A i \in 1 .. sent : ~Ahead(i)'
  BY WaitingIsAheadNext DEF WaitingOK
<1>3. Missed' = {i \in 1 .. sent : ~Delivered(i)}
  BY <1>2, MissedIdle DEF SystemInv
<1>4. \A i \in 1 .. sent : i > Place => ~Delivered(i)
  BY WaitingIsAhead DEF WaitingOK, SystemInv, IInv, Places
<1>5. Missed' \ Missed = {i \in 1 .. sent : i > Place}
  BY <1>3, <1>4, WaitingIsAhead DEF WaitingOK, Missed
<1>6. ASSUME NEW i
      PROVE  i \in Unheard <=> i \in Sync!Unheard(Waiting)
  <2>1. i \in Unheard <=>
          \E k \in 1 .. sent : k > Place /\ log[k].kind = "resolved" /\ log[k].incident = i
    BY <1>5 DEF Unheard
  <2>2. i \in Sync!Unheard(Waiting) <=>
          \E k \in 1 .. N : Waiting[k].kind = "resolved" /\ Waiting[k].incident = i
    BY <1>0 DEF Sync!Unheard
  <2>3. ASSUME NEW k \in 1 .. sent, k > Place
        PROVE  k - Place \in 1 .. N /\ Waiting[k - Place] = log[k]
    BY <1>0, <2>3
  <2>4. \A k \in 1 .. N :
          Place + k \in 1 .. sent /\ Place + k > Place /\ log[Place + k] = Waiting[k]
    BY <1>0
  <2> QED
    BY <2>1, <2>2, <2>3, <2>4
<1> QED
  BY <1>1, <1>6

(* The event that is accepted waits, or is passed over at once.            *)
LEMMA AcceptQueues ==
  ASSUME SystemInv, SystemInv', NEW kind \in {"created", "resolved"}, NEW i \in Incidents,
         Accept(kind, i)
  PROVE  Sync!Enqueue(kind, i)
<1> DEFINE e == [kind |-> kind, incident |-> i]
<1>1. /\ sent' = sent + 1 /\ sent < MaxSent
      /\ UNCHANGED <<pc, lastID, from, delivered, hPc>>
      /\ log'[sent + 1] = e /\ \A k \in 1 .. sent : log'[k] = log[k]
  BY Accepted DEF SystemInv
<1>2. sent \in Nat /\ Place \in 0 .. sent /\ Place' \in 0 .. (sent + 1)
  BY <1>1, WaitingIsAhead, WaitingIsAheadNext DEF WaitingOK, SystemInv, IInv, TypeOK
<1>3. /\ Waiting \in Seq(Event) /\ Len(Waiting) = sent - Place
      /\ \A k \in 1 .. (sent - Place) : Waiting[k] = log[Place + k]
  BY WaitingIsAhead DEF WaitingOK
<1>4. /\ Waiting' \in Seq(Event) /\ Len(Waiting') = sent + 1 - Place'
      /\ \A k \in 1 .. (sent + 1 - Place') : Waiting'[k] = log'[Place' + k]
  <2> HIDE DEF e
  <2>1. WaitingOK'
    BY WaitingIsAheadNext
  <2>2. Waiting' \in Seq(Event)
    BY <2>1 DEF WaitingOK, Event, Sync!Event
  <2>3. /\ Len(Waiting') = sent' - Place'
        /\ \A k \in 1 .. (sent' - Place') : Waiting'[k] = log'[Place' + k]
    BY <2>1 DEF WaitingOK
  <2>4. sent' - Place' = sent + 1 - Place'
    BY <1>1, <1>2
  <2> QED
    BY <2>2, <2>3, <2>4, Zenon
<1>5. \A j : Delivered(j)' <=> Delivered(j)
  BY <1>1, DeliveredSame
<1>6. e \in Event /\ e.kind = kind /\ e.incident = i
  BY DEF Event, Sync!Event
<1>7. \A j \in 1 .. (sent + 1) : j \in 1 .. sent \/ j = sent + 1
  BY <1>2
<1>8. \A j \in 1 .. sent : j \in 1 .. (sent + 1)
  BY <1>2
<1>9. Missed' = {j \in 1 .. (sent + 1) : ~Delivered(j) /\ ~Ahead(j)'}
  <2>1. Missed' = {j \in 1 .. sent' : ~Delivered(j)' /\ ~Ahead(j)'}
    BY DEF Missed
  <2> QED
    BY <1>1, <1>5, <2>1
<1>10. ~Delivered(sent + 1)
  BY <1>2 DEF SystemInv, IInv, TypeOK, Places
<1>11. \A j \in 1 .. sent + 1 : Ahead(j)' <=> j > Place'
  BY <1>1, WaitingIsAheadNext DEF WaitingOK
<1>12. \A j \in 1 .. sent : Ahead(j) <=> j > Place
  BY WaitingIsAhead DEF WaitingOK
<1>13. CASE pc \in {"blocked", "dispatch"} \/ (pc = "read" /\ lastID # Dollar)
  <2>1. Place' = Place
    BY <1>1, <1>13 DEF Place
  <2>2. Missed' = Missed
    <3> HIDE DEF e
    <3>1. \A j \in 1 .. sent : Ahead(j)' <=> Ahead(j)
      BY <1>8, <1>11, <1>12, <2>1
    <3>2. \A j \in 1 .. (sent + 1) : j = sent + 1 => Ahead(j)'
      BY <1>2, <1>11, <2>1
    <3> QED
      BY <1>7, <1>8, <1>9, <3>1, <3>2 DEF Missed
  <2>3. Waiting' = Append(Waiting, e)
    <3>1. /\ Append(Waiting, e) \in Seq(Event) /\ Len(Append(Waiting, e)) = sent - Place + 1
          /\ \A k \in 1 .. (sent - Place) : Append(Waiting, e)[k] = Waiting[k]
          /\ Append(Waiting, e)[sent - Place + 1] = e
      <4> HIDE DEF e
      <4> QED
        BY <1>3, <1>6, AppendProperties
    <3>2. Len(Waiting') = Len(Append(Waiting, e))
      BY <1>2, <1>4, <2>1, <3>1
    <3>3. ASSUME NEW k \in 1 .. Len(Waiting')
          PROVE  Waiting'[k] = Append(Waiting, e)[k]
      <4>1. k \in 1 .. (sent - Place + 1) /\ Waiting'[k] = log'[Place + k]
        BY <1>2, <1>4, <2>1
      <4>2. CASE k = sent - Place + 1
        <5>1. Place + k = sent + 1
          BY <1>2, <4>2
        <5> QED
          BY <1>1, <3>1, <4>1, <4>2, <5>1
      <4>3. CASE k # sent - Place + 1
        <5>1. k \in 1 .. (sent - Place) /\ Place + k \in 1 .. sent
          BY <1>2, <4>1, <4>3
        <5> QED
          BY <1>1, <1>3, <3>1, <4>1, <5>1
      <4> QED
        BY <4>2, <4>3
    <3> QED
      BY <1>4, <3>1, <3>2, <3>3, SeqEqual
  <2>4. Unheard = {}
    BY <2>2 DEF Unheard
  <2>5. excused' = excused /\ Len(Waiting) < MaxSent
    BY <1>1, <1>2, <1>3, <2>4, MaxSentAssumption DEF Accept, PassOver
  <2> QED
    BY <2>3, <2>5 DEF Sync!Enqueue
<1>14. CASE pc = "down" \/ (pc = "read" /\ lastID = Dollar)
  <2>1. Place = sent /\ Place' = sent + 1
    BY <1>1, <1>14 DEF Place
  <2>2. Missed' \ Missed = {sent + 1}
    <3> HIDE DEF e
    <3>1. \A j \in 1 .. (sent + 1) : ~Ahead(j)'
      BY <1>2, <1>11, <2>1
    <3>2. \A j \in 1 .. sent : ~Ahead(j)
      BY <1>2, <1>12, <2>1
    <3>3. sent + 1 \in 1 .. (sent + 1) /\ sent + 1 \notin 1 .. sent
      BY <1>2
    <3> QED
      BY <1>7, <1>8, <1>9, <1>10, <3>1, <3>2, <3>3 DEF Missed
  <2>3. Waiting = <<>> /\ Waiting' = <<>>
    BY <1>1, <1>2, <2>1, SubSeqEmpty DEF Waiting
  <2>4. Unheard = Sync!Unheard(<<e>>)
    <3>1. Unheard = {e.incident : k \in {j \in {sent + 1} : e.kind = "resolved"}}
      BY <1>1, <2>2 DEF Unheard
    <3>2. DOMAIN <<e>> = {1} /\ <<e>>[1] = e
      OBVIOUS
    <3> QED
      BY <3>1, <3>2 DEF Sync!Unheard
  <2>5. hPc = "idle"
    BY <1>14 DEF SystemInv, Busy
  <2>6. excused' = excused \cup Sync!Tickets \X Sync!Unheard(<<e>>)
    BY <2>4 DEF Accept, PassOver
  <2> QED
    BY <2>3, <2>5, <2>6 DEF Sync!Enqueue, Sync!PassOver
<1> QED
  BY <1>13, <1>14 DEF SystemInv, IInv, TypeOK

(* What the processor's own steps are to IncidentSync: nothing, or the end *)
(* of its queue.                                                           *)
LEMMA StaysSame ==
  ASSUME SystemInv, SystemInv', UNCHANGED <<sent, delivered, log, desk>>, Place' = Place,
         PassOver
  PROVE  UNCHANGED Sync!vars
<1>1. Waiting' = Waiting /\ excused' = excused
  BY NothingPassed DEF PassOver
<1> QED
  BY <1>1 DEF desk, Sync!vars, Sync!tables, Sync!handler, Sync!history

LEMMA SkipsToEnd ==
  ASSUME SystemInv, SystemInv', UNCHANGED <<sent, delivered, log, desk>>, Place' = sent,
         hPc = "idle", PassOver
  PROVE  Sync!SkipToEnd \/ UNCHANGED Sync!vars
<1>1. Waiting' = <<>> /\ Unheard = Sync!Unheard(Waiting)
  BY QueuePassed
<1>2. CASE Waiting = <<>>
  <2>1. Sync!Unheard(<<>>) = {}
    BY DEF Sync!Unheard
  <2> QED
    BY <1>1, <1>2, <2>1 DEF PassOver, desk, Sync!vars, Sync!tables, Sync!handler,
                            Sync!history
<1>3. CASE Waiting # <<>>
  BY <1>1, <1>3 DEF PassOver, desk, Sync!SkipToEnd, Sync!PassOver, Sync!tables, Sync!handler
<1> QED
  BY <1>2, <1>3

(* What is handed over is the first event that waits.                      *)
LEMMA HandsOverHead ==
  ASSUME SystemInv, SystemInv', HandOver, UNCHANGED log
  PROVE  /\ Waiting # <<>> /\ Head(Waiting) = log[from + 1]
         /\ Waiting' = Tail(Waiting)
<1>1. /\ sent \in Nat /\ from \in Nat /\ from < sent
      /\ Place = from /\ Place' = from + 1 /\ sent' = sent
  BY DEF HandOver, Dispatch, SystemInv, IInv, TypeOK, Places, Place, Dollar
<1>2. from + 1 \in 1 .. Len(log) /\ sent \in (from + 1) .. Len(log) /\ log \in Seq(Event)
  BY <1>1 DEF SystemInv, LogOK
<1>3. /\ Head(SubSeq(log, from + 1, sent)) = log[from + 1]
      /\ Tail(SubSeq(log, from + 1, sent)) = SubSeq(log, from + 1 + 1, sent)
  BY <1>2, HeadTailOfSubSeq, Zenon
<1>4. Waiting = SubSeq(log, from + 1, sent) /\ Waiting' = SubSeq(log, from + 1 + 1, sent)
  BY <1>1 DEF Waiting
<1>5. Len(Waiting) = sent - from
  BY <1>1, WaitingIsAhead DEF WaitingOK
<1>6. Waiting # <<>>
  BY <1>1, <1>5, EmptySeq
<1> QED
  BY <1>3, <1>4, <1>6

(* A crash ends the handler's work and the queue.                          *)
LEMMA CrashPasses ==
  ASSUME SystemInv, SystemInv', SystemCrash
  PROVE  Sync!Crash
<1>1. UNCHANGED <<sent, delivered, log>> /\ Place' = sent
  BY DEF SystemCrash, CrashWorker, Crash, vars, Place
<1>2. Waiting' = <<>> /\ Unheard = Sync!Unheard(Waiting)
  BY <1>1, QueuePassed
<1>3. Sync!Unheard(Waiting) \subseteq Incidents
  <2>1. \A k \in DOMAIN Waiting : Waiting[k] \in Sync!Event
    <3>1. Waiting \in Seq(Event)
      BY WaitingIsAhead DEF WaitingOK
    <3> HIDE DEF Waiting
    <3> QED
      BY <3>1, LenProperties, ElementOfSeq DEF Event
  <2> QED
    BY <2>1 DEF Sync!Unheard, Sync!Event
<1>4. Unheard \cup (Incidents \cap {incident})
        = {i \in Incidents : i = incident \/ i \in Sync!Unheard(Waiting)}
  BY <1>2, <1>3
<1> QED
  BY <1>2, <1>4 DEF SystemCrash, CrashWorker, Sync!Crash, Sync!tables

(* Each step of the system is a step of IncidentSync or a stutter.         *)
LEMMA SyncStep ==
  SystemInv /\ SystemInv' /\ [SystemNext]_allVars => [Sync!Next]_(Sync!vars)
<1> SUFFICES ASSUME SystemInv, SystemInv', [SystemNext]_allVars
             PROVE  Sync!Next \/ UNCHANGED Sync!vars
  OBVIOUS
<1> USE DEF SystemInv, IInv, TypeOK, Places
<1>1. CASE Quietly(WorkerLife)
  <2>1. UNCHANGED <<sent, delivered, log, desk>> /\ PassOver
    BY <1>1 DEF Quietly, WorkerLife, TenantStep, ChangeTenant, StartWorker, SignalWorker,
                StopPoller, EndWorker, Start, vars
  <2>2. Place' = Place
    BY <1>1 DEF Quietly, WorkerLife, TenantStep, ChangeTenant, StartWorker, SignalWorker,
                StopPoller, EndWorker, Start, vars, Place
  <2> QED
    BY <2>1, <2>2, StaysSame
<1>2. ASSUME NEW kind \in {"created", "resolved"}, NEW i \in Incidents, Accept(kind, i)
      PROVE  Sync!Next
  <2>1. Sync!NightOwlSends(kind, i) /\ Sync!Enqueue(kind, i)
    BY <1>2, AcceptQueues DEF Accept
  <2> QED
    BY <2>1 DEF Sync!Next, Sync!NightOwlStep
<1>3. CASE Reads(StartRead)
  <2>1. UNCHANGED <<sent, delivered, log, desk>> /\ PassOver /\ Place' = Place
    BY <1>3 DEF Reads, Quietly, StartRead, XReadStart, Place
  <2> QED
    BY <2>1, StaysSame
<1>4. CASE Reads(EndRead)
  <2>1. UNCHANGED <<sent, delivered, log, desk>> /\ PassOver /\ hPc = "idle"
    BY <1>4 DEF Reads, Quietly, EndRead, XReadReturn, XReadTimeout, XReadError
  <2>2. Place' = Place \/ Place' = sent
    BY <1>4 DEF Reads, Quietly, EndRead, XReadReturn, XReadTimeout, XReadError, Place
  <2> QED
    BY <2>1, <2>2, StaysSame, SkipsToEnd DEF Sync!Next
<1>5. CASE Reads(StopReading)
  <2>1. UNCHANGED <<sent, delivered, log, desk>> /\ PassOver /\ hPc = "idle" /\ Place' = sent
    BY <1>5 DEF Reads, Quietly, StopReading, Stop, Place
  <2> QED
    BY <2>1, SkipsToEnd DEF Sync!Next
<1>6. CASE Process
  <2>1. Waiting # <<>> /\ Head(Waiting) = log[from + 1] /\ Waiting' = Tail(Waiting)
    BY <1>6, HandsOverHead DEF Process
  <2> QED
    BY <1>6, <2>1 DEF Process, Sync!TakeEvent, Sync!HandlerStep, Sync!Next
<1>7. CASE HandlerWorks
  BY <1>7 DEF HandlerWorks, Sync!HandlerStep, Sync!Next
<1>8. CASE SystemCrash
  BY <1>8, CrashPasses DEF Sync!Next
<1>9. CASE /\ UNCHANGED stream
           /\ \/ Sync!AgentStep
              \/ \E t \in Sync!Tickets : Sync!CreateTicketUnheard(t)
  BY <1>9 DEF Sync!Next
<1>10. CASE UNCHANGED allVars
  BY <1>10
     DEF allVars, stream, workerVars, vars, desk, Waiting, Place, Sync!vars, Sync!tables,
         Sync!handler, Sync!history
<1>11. CASE Reads(StartRead \/ EndRead \/ StopReading)
  BY <1>3, <1>4, <1>5, <1>11 DEF Reads, Quietly
<1> QED
  BY <1>1, <1>2, <1>6, <1>7, <1>8, <1>9, <1>10, <1>11 DEF SystemNext

(* The worker, its stream and its handler implement IncidentSync: what the *)
(* processor has yet to be given is the queue, whatever is appended, read, *)
(* stopped, lost and started again.                                        *)
THEOREM SystemImplementsSync == SystemSpec => ImplementsSync
<1>1. SystemInit => Sync!Init
  BY DEF SystemInit
<1>2. SystemSpec => []SystemInv
  BY SystemInitInv, SystemInvStep, PTL DEF SystemSpec
<1> QED
  BY <1>1, <1>2, SyncStep, PTL DEF SystemSpec, ImplementsSync, Sync!Spec

SyncT == INSTANCE IncidentSyncTheorems
           WITH pc <- hPc, queue <- Waiting, MaxQueue <- MaxSent

(* Sync and SyncT are the same specification.                              *)
LEMMA SameSpec == Sync!Spec => SyncT!Spec
<1> USE DEF Sync!vars, Sync!tables, Sync!handler, Sync!history, Sync!Tickets, Sync!NoIncident,
            Sync!NoTicket, Sync!Unused, Sync!NextTicket, Sync!Cardinality,
            SyncT!vars, SyncT!tables, SyncT!handler, SyncT!history, SyncT!Tickets,
            SyncT!NoIncident, SyncT!NoTicket, SyncT!Unused, SyncT!NextTicket,
            SyncT!Cardinality
<1>1. Sync!Init <=> SyncT!Init
  BY DEF Sync!Init, SyncT!Init
<1>2. Sync!NightOwlStep <=> SyncT!NightOwlStep
  BY DEF Sync!NightOwlStep, Sync!NightOwlSends, Sync!IncidentCreated, Sync!IncidentResolved,
         Sync!Redeliver, Sync!Enqueue, Sync!PassOver, Sync!Unheard,
         SyncT!NightOwlStep, SyncT!NightOwlSends, SyncT!IncidentCreated,
         SyncT!IncidentResolved, SyncT!Redeliver, SyncT!Enqueue, SyncT!PassOver,
         SyncT!Unheard
<1>3. Sync!AgentStep <=> SyncT!AgentStep
  BY DEF Sync!AgentStep, Sync!UpdateAutoTicketRule, Sync!AgentCreates, Sync!AgentCloses,
         Sync!AgentReopens, Sync!AgentDeletes, Sync!Linkable, Sync!LinkIncident,
         Sync!UnlinkIncident,
         SyncT!AgentStep, SyncT!UpdateAutoTicketRule, SyncT!AgentCreates,
         SyncT!AgentCloses, SyncT!AgentReopens, SyncT!AgentDeletes, SyncT!Linkable,
         SyncT!LinkIncident, SyncT!UnlinkIncident
<1>4. ASSUME NEW i
      PROVE  Sync!FindMatchingRules(rules, Facts[i]) = SyncT!FindMatchingRules(rules, Facts[i])
  BY DEF Sync!FindMatchingRules, Sync!MatchRule, Sync!MatchesGroup, Sync!MatchesSeverity,
         Sync!SeverityRank, Sync!None, Sync!IsStrictPrefix, Sync!IsPrefix,
         SyncT!FindMatchingRules, SyncT!MatchRule, SyncT!MatchesGroup,
         SyncT!MatchesSeverity,
         SyncT!SeverityRank, SyncT!None, SyncT!IsStrictPrefix, SyncT!IsPrefix
<1>5. Sync!TakeEvent <=> SyncT!TakeEvent
  BY <1>4 DEF Sync!TakeEvent, Sync!Handle, Sync!HandleCreated, Sync!HandleResolved,
         Sync!HandlingFails, Sync!PassOver, Sync!Unheard, Sync!LinkedTickets,
         SyncT!TakeEvent, SyncT!Handle, SyncT!HandleCreated, SyncT!HandleResolved,
         SyncT!HandlingFails, SyncT!PassOver, SyncT!Unheard, SyncT!LinkedTickets
<1>6. Sync!Work <=> SyncT!Work
  BY DEF Sync!Work, Sync!CreateTicket, Sync!CreateTicketFails, Sync!UpsertMeta,
         Sync!UpsertMetaFails, Sync!CreateIncidentLink, Sync!CreateIncidentLinkFails,
         Sync!CloseTicket, Sync!CloseTicketFails, Sync!NextRule, Sync!HandlerIdle,
         Sync!DoneWith,
         SyncT!Work, SyncT!CreateTicket, SyncT!CreateTicketFails, SyncT!UpsertMeta,
         SyncT!UpsertMetaFails, SyncT!CreateIncidentLink, SyncT!CreateIncidentLinkFails,
         SyncT!CloseTicket, SyncT!CloseTicketFails, SyncT!NextRule, SyncT!HandlerIdle,
         SyncT!DoneWith
<1>7. ASSUME NEW t PROVE Sync!CreateTicketUnheard(t) <=> SyncT!CreateTicketUnheard(t)
  BY DEF Sync!CreateTicketUnheard, SyncT!CreateTicketUnheard
<1>8. Sync!SkipToEnd <=> SyncT!SkipToEnd
  BY DEF Sync!SkipToEnd, Sync!PassOver, Sync!Unheard,
         SyncT!SkipToEnd, SyncT!PassOver, SyncT!Unheard
<1>9. Sync!Crash <=> SyncT!Crash
  BY DEF Sync!Crash, Sync!HandlerIdle, Sync!Unheard,
         SyncT!Crash, SyncT!HandlerIdle, SyncT!Unheard
<1>10. [Sync!Next]_(Sync!vars) <=> [SyncT!Next]_(SyncT!vars)
  BY <1>2, <1>3, <1>5, <1>6, <1>7, <1>8, <1>9
     DEF Sync!Next, Sync!HandlerStep, SyncT!Next, SyncT!HandlerStep
<1> QED
  BY <1>1, <1>10, PTL DEF Sync!Spec, SyncT!Spec

(* IncidentSyncTheorems can be cited of the system.                        *)
LEMMA SystemImplementsSyncT == SystemSpec => SyncT!Spec
BY SystemImplementsSync, SameSpec DEF ImplementsSync

LEMMA SyncAssumptions ==
  /\ MaxTickets \in Nat /\ AgentTickets \in Nat /\ MaxSent \in Nat
  /\ "no incident" \notin Incidents
BY SystemAssumption, MaxSentAssumption DEF Sync!NoIncident

(* Through all restarts of the worker and all that the stream passes over, *)
(* no ticket linked to a resolved incident stays open, unless it is        *)
(* accounted for.                                                          *)
THEOREM SystemResolvedIsClosed == SystemSpec => []Sync!ResolvedIsClosed
<1>1. SyncT!ResolvedIsClosed => Sync!ResolvedIsClosed
  BY DEF Sync!ResolvedIsClosed, SyncT!ResolvedIsClosed, Sync!Over, SyncT!Over, Sync!InHand,
         SyncT!InHand, Sync!Tickets, SyncT!Tickets
<1>2. SyncT!Spec => []SyncT!ResolvedIsClosed
  BY SyncAssumptions, SyncT!ResolvedAlwaysClosed DEF SyncT!NoIncident
<1> QED
  BY <1>1, <1>2, SystemImplementsSyncT, PTL

(* The stream keeps the events in order and hands each over at most once,  *)
(* so that a ticket the handler opened is closed with its incident.        *)
THEOREM SystemAutoTicketCloses == SystemSpec => []Sync!AutoTicketCloses
<1>1. SyncT!AutoTicketCloses => Sync!AutoTicketCloses
  BY DEF Sync!AutoTicketCloses, SyncT!AutoTicketCloses, Sync!Over, SyncT!Over, Sync!InHand,
         SyncT!InHand, Sync!Tickets, SyncT!Tickets
<1>2. SyncT!Spec => []SyncT!AutoTicketCloses
  BY SyncAssumptions, SyncT!AutoTicketAlwaysCloses DEF SyncT!NoIncident
<1> QED
  BY <1>1, <1>2, SystemImplementsSyncT, PTL

(* A worker that starts again does not apply a rule to an incident anew.   *)
THEOREM SystemOneTicketPerRule == SystemSpec => []Sync!OneTicketPerRule
<1>1. SyncT!OneTicketPerRule => Sync!OneTicketPerRule
  BY DEF Sync!OneTicketPerRule, SyncT!OneTicketPerRule, Sync!Tickets, SyncT!Tickets
<1>2. SyncT!Spec => []SyncT!OneTicketPerRule
  BY SyncAssumptions, SyncT!AlwaysOneTicketPerRule DEF SyncT!NoIncident
<1> QED
  BY <1>1, <1>2, SystemImplementsSyncT, PTL

(* What the worker and the stream promise they keep beside the handler;    *)
(* and when the worker closes its database pool no handler is at work.     *)
THEOREM SystemKeepsWorker ==
  SystemSpec => /\ DeliversInOrder /\ NoGapOnceReading /\ []StoppedIsQuiet
                /\ [](worker \in {"down", "idle"} => hPc = "idle")
<1>1. SystemSpec => []SystemInv
  BY SystemInitInv, SystemInvStep, PTL DEF SystemSpec
<1>2. SystemSpec => []StoppedIsQuiet
  BY SystemRefinesWorker, StoppedIsQuietAlways, PTL
<1>3. StoppedIsQuiet /\ SystemInv => (worker \in {"down", "idle"} => hPc = "idle")
  BY DEF StoppedIsQuiet, SystemInv, Busy
<1>4. SystemSpec => [](worker \in {"down", "idle"} => hPc = "idle")
  BY <1>1, <1>2, <1>3, PTL
<1>5. SystemSpec => DeliversInOrder /\ NoGapOnceReading
  BY SystemRefinesWorker, WorkerDeliversInOrder, WorkerLeavesNoGap
<1> QED
  BY <1>2, <1>4, <1>5
=============================================================================
