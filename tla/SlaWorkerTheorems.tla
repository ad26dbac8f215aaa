------------------------- MODULE SlaWorkerTheorems -------------------------
(***************************************************************************)
(* Theorems about SlaWorker, for every set of tickets, policies, policy    *)
(* settings and faults, every clock resolution and every bound.            *)
(*                                                                         *)
(* The inductive invariant adds to the properties what makes a late write  *)
(* harmless for them: the copies in the hands of the two goroutines are    *)
(* themselves sound rows (SoundRows), and they still fit the row they will *)
(* replace (CopiesFit).                                                    *)
(***************************************************************************)
EXTENDS SlaWorker, FiniteSetTheorems, TLAPS

-----------------------------------------------------------------------------
(* What the computations of SlaRow preserve, for every policy, every clock *)
(* resolution and every row.                                               *)

(* A row the worker may write at time t.                                   *)
Sound(r, t) == r \in Row /\ Coherent(r) /\ Accounted(r, t)

(* Cutting off the fraction of a second never lengthens a duration, and    *)
(* never makes it negative: int(d.Seconds()) in handleTicketUpdate.        *)
LEMMA WholeSecondsBound ==
  ASSUME NEW d \in Nat
  PROVE  WholeSeconds(d) \in 0 .. d
<1>1. d % TicksPerSecond \in 0 .. TicksPerSecond - 1
  BY TicksAssumption
<1>2. d = TicksPerSecond * (d \div TicksPerSecond) + (d % TicksPerSecond)
  BY TicksAssumption
<1>3. d \div TicksPerSecond \in Nat
  BY TicksAssumption
<1>4. TicksPerSecond * (d \div TicksPerSecond) \in Nat
  BY <1>3, TicksAssumption
<1> QED
  BY <1>1, <1>2, <1>4, TicksAssumption DEF WholeSeconds

(* A sound row stays sound as time passes without writing it.              *)
LEMMA SoundLater ==
  ASSUME NEW t \in Nat, NEW u \in Nat, t <= u,
         NEW r, Sound(r, t)
  PROVE  Sound(r, u)
<1>1. PICK shape \in Shapes, start \in 0 .. t : Accounts(r, shape, start, t)
  BY DEF Sound, Accounted
<1>2. start \in 0 .. u
  OBVIOUS
<1>3. Accounts(r, shape, start, u)
  BY <1>1, ShapesAssumption DEF Accounts, Sound, Row, Shape, NoTime
<1> QED
  BY <1>2, <1>3 DEF Sound, Accounted

(* ticket.create: the fresh row is sound.                                  *)
LEMMA FreshRowSound ==
  ASSUME NEW shape \in Shapes, NEW t \in Nat
  PROVE  Sound(FreshRow(shape, t), t)
<1>1. shape \in Shape
  BY ShapesAssumption
<1>2. FreshRow(shape, t) \in Row
  BY <1>1 DEF FreshRow, Row, Shape, Labels, NoTime
<1>3. Coherent(FreshRow(shape, t))
  BY DEF FreshRow, Coherent, NoTime
<1>4. Accounts(FreshRow(shape, t), shape, t, t)
  BY <1>1 DEF Accounts, FreshRow, Shape, NoTime
<1>5. t \in 0 .. t
  OBVIOUS
<1> QED
  BY <1>2, <1>3, <1>4, <1>5 DEF Sound, Accounted

(* ticket.update into a pause state: the paused row is sound.              *)
LEMMA PausedRowSound ==
  ASSUME NEW t \in Nat, NEW r, Sound(r, t), ~r.paused
  PROVE  Sound(PausedRow(r, t), t)
<1> DEFINE q == PausedRow(r, t)
<1>1. r \in Row
  BY DEF Sound
<1>2. q \in Row
  BY <1>1 DEF PausedRow, Row
<1>3. Coherent(q)
  BY <1>1 DEF Sound, Coherent, PausedRow, Row, NoTime
<1>4. PICK shape \in Shapes, start \in 0 .. t : Accounts(r, shape, start, t)
  BY DEF Sound, Accounted
<1>5. Accounts(q, shape, start, t)
  BY <1>1, <1>4, ShapesAssumption DEF Accounts, PausedRow, Row, Shape, NoTime
<1> QED
  BY <1>2, <1>3, <1>4, <1>5 DEF Sound, Accounted

(* ticket.update out of a pause state: both deadlines move by what is      *)
(* added to accumulated_pause_secs, and that fits into the time since the  *)
(* pause began.                                                            *)
LEMMA ResumedRowSound ==
  ASSUME NEW t \in Nat, NEW r, Sound(r, t), r.paused
  PROVE  Sound(ResumedRow(r, t), t)
<1> DEFINE q == ResumedRow(r, t)
           pause == WholeSeconds(t - r.pausedAt)
<1>1. r \in Row /\ r.pausedAt \in Nat
  BY DEF Sound, Coherent, Row
<1>2. PICK shape \in Shapes, start \in 0 .. t : Accounts(r, shape, start, t)
  BY DEF Sound, Accounted
<1>3. r.pausedAt <= t /\ start + r.accumulated <= r.pausedAt
  BY <1>2 DEF Accounts
<1>4. t - r.pausedAt \in Nat
  BY <1>1, <1>3
<1>5. pause \in 0 .. (t - r.pausedAt)
  BY <1>4, WholeSecondsBound
<1> HIDE DEF pause
<1>6. q = [r EXCEPT !.accumulated = @ + pause, !.responseDue = @ + pause,
                    !.resolutionDue = @ + pause, !.paused = FALSE,
                    !.pausedAt = NoTime]
  <2>1. r.pausedAt # NoTime
    BY <1>1 DEF NoTime
  <2> QED
    BY <2>1, Zenon DEF ResumedRow, pause
<1>7. q \in Row
  <2>1. pause \in Nat
    BY <1>4, <1>5
  <2>2. /\ r.accumulated + pause \in Nat
        /\ r.responseDue + pause \in Nat
        /\ r.resolutionDue + pause \in Nat
    BY <1>1, <2>1 DEF Row
  <2> QED
    BY <1>1, <1>6, <2>2, Zenon DEF Row
<1>8. Coherent(q)
  BY <1>1, <1>6 DEF Sound, Coherent, Row
<1>9. Accounts(q, shape, start, t)
  <2>1. /\ q.responseDue = r.responseDue + pause
        /\ q.resolutionDue = r.resolutionDue + pause
        /\ q.accumulated = r.accumulated + pause
        /\ q.paused = FALSE
        /\ q.pausedAt = NoTime
    BY <1>1, <1>6 DEF Row
  <2>2. shape \in Shape
    BY ShapesAssumption
  <2>3. start + q.accumulated <= t
    BY <2>1, <1>1, <1>3, <1>4, <1>5 DEF Row
  <2> QED
    BY <2>1, <2>2, <2>3, <1>1, <1>2, <1>4, <1>5 DEF Accounts, Row, Shape, NoTime
<1> QED
  BY <1>2, <1>7, <1>8, <1>9 DEF Sound, Accounted

(* The poller's two writes change no time: what they write is sound when   *)
(* what they read was.                                                     *)
LEMMA BreachedRowSound ==
  ASSUME NEW t \in Nat, NEW r, Sound(r, t)
  PROVE  Sound(BreachedRow(r), t)
<1>1. r \in Row
  BY DEF Sound
<1>2. BreachedRow(r) \in Row /\ Coherent(BreachedRow(r))
  BY <1>1 DEF Sound, Coherent, BreachedRow, Row, Labels
<1>3. PICK shape \in Shapes, start \in 0 .. t : Accounts(r, shape, start, t)
  BY DEF Sound, Accounted
<1>4. Accounts(BreachedRow(r), shape, start, t)
  BY <1>1, <1>3 DEF Accounts, BreachedRow, Row
<1> QED
  BY <1>2, <1>3, <1>4 DEF Sound, Accounted

LEMMA WarningRowSound ==
  ASSUME NEW t \in Nat, NEW r, Sound(r, t), ~r.alerted
  PROVE  Sound(WarningRow(r), t)
<1>1. r \in Row
  BY DEF Sound
<1>2. WarningRow(r) \in Row /\ Coherent(WarningRow(r))
  BY <1>1 DEF Sound, Coherent, WarningRow, Row, Labels
<1>3. PICK shape \in Shapes, start \in 0 .. t : Accounts(r, shape, start, t)
  BY DEF Sound, Accounted
<1>4. Accounts(WarningRow(r), shape, start, t)
  BY <1>1, <1>3 DEF Accounts, WarningRow, Row
<1> QED
  BY <1>2, <1>3, <1>4 DEF Sound, Accounted

-----------------------------------------------------------------------------
(* The inductive invariant.                                                *)

(* What the program counters promise about the other local variables.      *)
Phases ==
  /\ hPc = "assign" => /\ hTicket \in Tickets
                       /\ hPolicy \in PolicyIds
                       /\ hShape \in Shapes
  /\ hPc = "write" => hTicket \in Tickets
  /\ pPc \in {"alert", "mark"} => pTicket \in Tickets /\ pTodo[pTicket] # NoRow

(* Every row in the table and every copy in flight is sound.               *)
SoundRows ==
  /\ \A t \in Tickets : sla[t] # NoRow => Sound(sla[t], now)
  /\ \A t \in Tickets : pTodo[t] # NoRow => Sound(pTodo[t], now)
  /\ hPc = "write" => Sound(hRow, now)

IInv == TypeOK /\ Phases /\ SoundRows /\ CopiesFit /\ PagesAccounted

(* At the start there is nothing to track and nothing in hand.             *)
LEMMA InitIInv == Init => IInv
<1> SUFFICES ASSUME Init PROVE IInv
  OBVIOUS
<1>1. TypeOK
  BY StatesAssumption DEF Init, TypeOK, Nothing
<1>2. Phases /\ SoundRows /\ CopiesFit
  BY NoRowAssumption DEF Init, Phases, SoundRows, CopiesFit, Nothing
<1>3. PagesAccounted
  BY DEF Init, PagesAccounted, Recorded, Nothing
<1> QED
  BY <1>1, <1>2, <1>3 DEF IInv

(* Each step of the worker keeps the types of the variables.               *)
LEMMA TypeStep == IInv /\ [Next]_vars => TypeOK'
<1> SUFFICES ASSUME IInv, [Next]_vars PROVE TypeOK'
  OBVIOUS
<1> USE DEF IInv, TypeOK
<1>1. CASE Tick
  BY <1>1 DEF Tick, tables, handler, poller, history
<1>2. CASE AdminStep
  BY <1>2 DEF AdminStep, DeletePolicy, UpdatePolicy, handler, poller, history
<1>3. CASE HandlerStep
  <2>1. ASSUME NEW t \in Tickets, NEW p \in PolicyIds, TicketCreate(t, p)
        PROVE  TypeOK'
    BY <2>1 DEF TicketCreate, EnsureMeta, poller, history
  <2>2. ASSUME NEW t \in Tickets, TicketCreateNoPolicy(t)
        PROVE  TypeOK'
    BY <2>2 DEF TicketCreateNoPolicy, EnsureMeta, handler, poller, history
  <2>3. ASSUME NEW t \in Tickets, NEW state \in ZammadStates, TicketUpdate(t, state)
        PROVE  TypeOK'
    <3>1. sla[t] # NoRow /\ Sound(sla[t], now)
      BY <2>3 DEF TicketUpdate, SoundRows
    <3>2. CASE EntersPause(sla[t], state) /\ HandlerWrites(t, PausedRow(sla[t], now))
      <4>1. PausedRow(sla[t], now) \in Row
        BY <3>1, <3>2, PausedRowSound DEF EntersPause, Sound
      <4> QED
        BY <2>3, <3>2, <4>1 DEF TicketUpdate, HandlerWrites, tables, poller
    <3>3. CASE LeavesPause(sla[t], state) /\ HandlerWrites(t, ResumedRow(sla[t], now))
      <4>1. ResumedRow(sla[t], now) \in Row
        BY <3>1, <3>3, ResumedRowSound DEF LeavesPause, Sound
      <4> QED
        BY <2>3, <3>3, <4>1 DEF TicketUpdate, HandlerWrites, tables, poller
    <3>4. CASE UNCHANGED handler
      BY <2>3, <3>4 DEF TicketUpdate, handler, tables, poller
    <3> QED
      BY <2>3, <3>2, <3>3, <3>4 DEF TicketUpdate
  <2>4. CASE AssignPolicy
    <3>1. FreshRow(hShape, now) \in Row
      BY <2>4, FreshRowSound DEF AssignPolicy, Phases, Sound
    <3> QED
      BY <2>4, <3>1 DEF AssignPolicy, Phases, HandlerWrites, poller, history
  <2>5. CASE AssignFails
    BY <2>5 DEF AssignFails, HandlerIdle, tables, poller, history
  <2>6. CASE HandlerUpsert
    BY <2>6 DEF HandlerUpsert, HandlerIdle, Phases, SoundRows, Sound, poller
  <2>7. CASE HandlerUpsertFails
    BY <2>7 DEF HandlerUpsertFails, HandlerIdle, tables, poller, history
  <2> QED
    BY <1>3, <2>1, <2>2, <2>3, <2>4, <2>5, <2>6, <2>7 DEF HandlerStep
<1>4. CASE PollerStep
  <2>1. CASE PollStart
    BY <2>1 DEF PollStart, tables, handler, history
  <2>2. ASSUME NEW t \in Tickets, BreachLookup(t) \/ BreachSkip(t) \/ WarnFails(t)
        PROVE  TypeOK'
    BY <2>2 DEF BreachLookup, BreachSkip, WarnFails, DoneWith, tables, handler, history
  <2>3. CASE AlertOk
    BY <2>3 DEF AlertOk, Phases, tables, handler
  <2>4. CASE AlertFails \/ AlertAnswerLost \/ MarkFails
    BY <2>4 DEF AlertFails, AlertAnswerLost, MarkFails, DoneWith, Phases,
                tables, handler, history
  <2>5. CASE MarkAlerted
    <3>1. BreachedRow(pTodo[pTicket]) \in Row
      BY <2>5, BreachedRowSound DEF MarkAlerted, PollerUpsert, Phases, SoundRows, Sound
    <3> QED
      BY <2>5, <3>1 DEF MarkAlerted, PollerUpsert, DoneWith, Phases, handler, history
  <2>6. CASE ListActive
    BY <2>6 DEF ListActive, tables, handler, history
  <2>7. CASE ListActiveFails \/ PollEnd
    BY <2>7 DEF ListActiveFails, PollEnd, PollerIdle, Nothing, tables, handler, history
  <2>8. ASSUME NEW t \in Tickets, WarnUpsert(t)
        PROVE  TypeOK'
    <3>1. WarningRow(pTodo[t]) \in Row
      BY <2>8, WarningRowSound DEF WarnUpsert, PollerUpsert, CopiesFit, SoundRows, Sound
    <3> QED
      BY <2>8, <3>1 DEF WarnUpsert, PollerUpsert, DoneWith, handler, history
  <2> QED
    BY <1>4, <2>1, <2>2, <2>3, <2>4, <2>5, <2>6, <2>7, <2>8 DEF PollerStep
<1>5. CASE Crash
  BY <1>5 DEF Crash, HandlerIdle, PollerIdle, Nothing, Phases, tables
<1>6. CASE UNCHANGED vars
  BY <1>6 DEF vars, tables, handler, poller, history
<1> QED
  BY <1>1, <1>2, <1>3, <1>4, <1>5, <1>6 DEF Next

(* Each step hands the next one the ticket, the row or the policy that its *)
(* program counter promises.                                               *)
LEMMA PhasesStep == IInv /\ [Next]_vars => Phases'
<1> SUFFICES ASSUME IInv, [Next]_vars PROVE Phases'
  OBVIOUS
<1>0. TypeOK /\ Phases /\ SoundRows /\ CopiesFit /\ TypeOK'
  BY TypeStep DEF IInv
<1> USE <1>0 DEF Phases
<1>1. CASE UNCHANGED <<handler, poller>>
  BY <1>1 DEF handler, poller
<1>2. CASE UNCHANGED poller /\ (HandlerIdle \/ hPc' = "idle")
  BY <1>2 DEF poller, HandlerIdle
<1>3. ASSUME NEW t \in Tickets, NEW p \in PolicyIds, TicketCreate(t, p)
      PROVE  Phases'
  BY <1>3 DEF TicketCreate, poller, TypeOK
<1>4. ASSUME NEW t \in Tickets, NEW state \in ZammadStates, TicketUpdate(t, state)
      PROVE  Phases'
  BY <1>4 DEF TicketUpdate, HandlerWrites, handler, poller, TypeOK
<1>5. CASE AssignPolicy
  BY <1>5 DEF AssignPolicy, HandlerWrites, poller, TypeOK
<1>6. CASE UNCHANGED handler /\ pPc' \notin {"alert", "mark"}
  BY <1>6 DEF handler
<1>7. ASSUME NEW t \in Tickets, BreachLookup(t)
      PROVE  Phases'
  BY <1>7 DEF BreachLookup, handler
<1>8. CASE AlertOk
  BY <1>8 DEF AlertOk, handler
<1>9. CASE HandlerIdle /\ PollerIdle
  BY <1>9 DEF HandlerIdle, PollerIdle
<1>10. CASE Tick \/ AdminStep \/ UNCHANGED vars
  BY <1>10, <1>1 DEF Tick, AdminStep, UpdatePolicy, DeletePolicy, vars
<1>11. CASE HandlerStep
  BY <1>11, <1>1, <1>2, <1>3, <1>4, <1>5
     DEF HandlerStep, TicketCreateNoPolicy, AssignFails, HandlerUpsert, HandlerUpsertFails
<1>12. CASE PollerStep
  BY <1>12, <1>6, <1>7, <1>8
     DEF PollerStep, PollStart, BreachSkip, AlertFails, AlertAnswerLost, MarkAlerted,
         PollerUpsert, MarkFails, ListActive, ListActiveFails, WarnUpsert, WarnFails,
         PollEnd, PollerIdle
<1>13. CASE Crash
  BY <1>13, <1>9 DEF Crash
<1> QED
  BY <1>10, <1>11, <1>12, <1>13 DEF Next

(* Each row written, and each copy taken, is sound: the writes compute it  *)
(* from a sound copy, the reads copy a sound row.                          *)
LEMMA SoundStep == IInv /\ [Next]_vars => SoundRows'
<1> SUFFICES ASSUME IInv, [Next]_vars PROVE SoundRows'
  OBVIOUS
<1>0. TypeOK /\ Phases /\ SoundRows /\ CopiesFit /\ TypeOK'
  BY TypeStep DEF IInv
<1> USE <1>0 DEF SoundRows
<1>1. CASE UNCHANGED <<now, sla, handler, poller>>
  BY <1>1 DEF handler, poller
<1>2. CASE Tick
  <2>1. \A r : Sound(r, now) => Sound(r, now')
    BY <1>2, SoundLater DEF Tick, TypeOK
  <2> QED
    BY <1>2, <2>1 DEF Tick, tables, handler, poller
<1>3. CASE UNCHANGED <<now, sla, poller>> /\ hPc' # "write"
  BY <1>3 DEF poller
<1>4. ASSUME NEW t \in Tickets, NEW state \in ZammadStates, TicketUpdate(t, state)
      PROVE  SoundRows'
  <2>1. Sound(sla[t], now) /\ UNCHANGED <<now, sla, poller>>
    BY <1>4 DEF TicketUpdate, tables
  <2>2. CASE EntersPause(sla[t], state) /\ HandlerWrites(t, PausedRow(sla[t], now))
    <3>1. Sound(PausedRow(sla[t], now), now)
      BY <2>1, <2>2, PausedRowSound DEF EntersPause, TypeOK
    <3> QED
      BY <2>1, <2>2, <3>1 DEF HandlerWrites, poller
  <2>3. CASE LeavesPause(sla[t], state) /\ HandlerWrites(t, ResumedRow(sla[t], now))
    <3>1. Sound(ResumedRow(sla[t], now), now)
      BY <2>1, <2>3, ResumedRowSound DEF LeavesPause, TypeOK
    <3> QED
      BY <2>1, <2>3, <3>1 DEF HandlerWrites, poller
  <2>4. CASE UNCHANGED handler
    BY <2>1, <2>4, <1>1
  <2> QED
    BY <1>4, <2>2, <2>3, <2>4 DEF TicketUpdate
<1>5. CASE AssignPolicy
  <2>1. Sound(FreshRow(hShape, now), now)
    BY <1>5, FreshRowSound DEF AssignPolicy, Phases, TypeOK
  <2> QED
    BY <1>5, <2>1 DEF AssignPolicy, HandlerWrites, poller
<1>6. CASE HandlerUpsert
  BY <1>6 DEF HandlerUpsert, HandlerIdle, poller, TypeOK
<1>7. CASE UNCHANGED <<now, sla, handler>> /\
           \A t \in Tickets : pTodo'[t] \in {NoRow, pTodo[t], sla[t]}
  BY <1>7 DEF handler
<1>8. CASE MarkAlerted
  <2>1. pTicket \in Tickets /\ Sound(BreachedRow(pTodo[pTicket]), now)
    BY <1>8, BreachedRowSound DEF MarkAlerted, PollerUpsert, Phases, TypeOK
  <2> QED
    BY <1>8, <2>1 DEF MarkAlerted, PollerUpsert, DoneWith, handler, TypeOK
<1>9. ASSUME NEW t \in Tickets, WarnUpsert(t)
      PROVE  SoundRows'
  <2>1. Sound(WarningRow(pTodo[t]), now)
    BY <1>9, WarningRowSound DEF WarnUpsert, PollerUpsert, CopiesFit, TypeOK
  <2> QED
    BY <1>9, <2>1 DEF WarnUpsert, PollerUpsert, DoneWith, handler, TypeOK
<1>10. CASE AdminStep \/ UNCHANGED vars
  BY <1>10, <1>1 DEF AdminStep, UpdatePolicy, DeletePolicy, vars, tables
<1>11. CASE HandlerStep
  BY <1>11, <1>1, <1>3, <1>4, <1>5, <1>6
     DEF HandlerStep, TicketCreate, TicketCreateNoPolicy, AssignFails,
         HandlerUpsertFails, HandlerIdle, tables
<1>12. CASE PollerStep
  BY <1>12, <1>7, <1>8, <1>9
     DEF PollerStep, PollStart, BreachLookup, BreachSkip, AlertOk, AlertFails,
         AlertAnswerLost, MarkFails, ListActive, ListActiveFails, WarnFails, PollEnd,
         PollerIdle, DoneWith, Nothing, tables, TypeOK
<1>13. CASE Crash
  BY <1>13 DEF Crash, HandlerIdle, PollerIdle, Nothing, tables
<1> QED
  BY <1>2, <1>10, <1>11, <1>12, <1>13 DEF Next

(* The copies go on fitting the rows they will replace.  Only the handler  *)
(* unmarks a row, and only the poller marks one; each of them would have   *)
(* to hold a copy that no longer fits to break the other's.                *)
LEMMA CopiesStep == IInv /\ [Next]_vars => CopiesFit'
<1> SUFFICES ASSUME IInv, [Next]_vars PROVE CopiesFit'
  OBVIOUS
<1>0. TypeOK /\ Phases /\ SoundRows /\ CopiesFit /\ TypeOK'
  BY TypeStep DEF IInv
<1> USE <1>0 DEF CopiesFit
<1>1. CASE UNCHANGED <<sla, handler, poller>>
  BY <1>1 DEF handler, poller
<1>2. CASE UNCHANGED <<sla, poller>> /\ hPc' # "write"
  BY <1>2 DEF poller
<1>3. ASSUME NEW t \in Tickets, NEW state \in ZammadStates, TicketUpdate(t, state)
      PROVE  CopiesFit'
  <2>1. sla[t] # NoRow /\ sla[t] \in Row /\ UNCHANGED <<sla, poller>>
    BY <1>3 DEF TicketUpdate, tables, TypeOK
  <2>2. CASE EntersPause(sla[t], state) /\ HandlerWrites(t, PausedRow(sla[t], now))
    BY <2>1, <2>2 DEF EntersPause, HandlerWrites, PausedRow, Row, poller
  <2>3. CASE LeavesPause(sla[t], state) /\ HandlerWrites(t, ResumedRow(sla[t], now))
    BY <2>1, <2>3 DEF HandlerWrites, ResumedRow, Row, poller
  <2>4. CASE UNCHANGED handler
    BY <2>1, <2>4, <1>1
  <2> QED
    BY <1>3, <2>2, <2>3, <2>4 DEF TicketUpdate
<1>4. CASE AssignPolicy
  BY <1>4 DEF AssignPolicy, HandlerWrites, FreshRow, poller
<1>5. CASE HandlerUpsert
  <2>1. hTicket \in Tickets /\ hRow # NoRow /\ hPc = "write"
    BY <1>5, NoRowAssumption DEF HandlerUpsert, Phases, SoundRows, Sound
  <2>2. pTodo[hTicket] # NoRow => ~hRow.alerted
    BY <2>1
  <2> QED
    BY <1>5, <2>1, <2>2 DEF HandlerUpsert, HandlerIdle, poller, TypeOK
<1>6. CASE UNCHANGED <<sla, handler>> /\
           \A t \in Tickets :
             \/ pTodo'[t] = NoRow \/ pTodo'[t] = pTodo[t]
             \/ pTodo'[t] = sla[t] /\ sla[t] # NoRow /\ ~sla[t].alerted /\ ~sla[t].paused
  BY <1>6 DEF handler
<1>7. CASE MarkAlerted
  <2>1. pTicket \in Tickets /\ pTodo[pTicket] \in Row /\ ~pTodo[pTicket].paused
    BY <1>7 DEF MarkAlerted, PollerUpsert, Phases, TypeOK
  <2>2. /\ BreachedRow(pTodo[pTicket]) # NoRow
        /\ BreachedRow(pTodo[pTicket]).alerted
        /\ ~BreachedRow(pTodo[pTicket]).paused
    <3>1. Sound(BreachedRow(pTodo[pTicket]), now)
      BY <1>7, <2>1, BreachedRowSound DEF MarkAlerted, PollerUpsert, Phases, SoundRows, TypeOK
    <3> QED
      BY <2>1, <3>1, NoRowAssumption DEF BreachedRow, Row, Sound
  <2> QED
    BY <1>7, <2>1, <2>2 DEF MarkAlerted, PollerUpsert, DoneWith, handler, TypeOK
<1>8. ASSUME NEW t \in Tickets, WarnUpsert(t)
      PROVE  CopiesFit'
  <2>1. pTodo[t] \in Row /\ ~pTodo[t].alerted /\ ~pTodo[t].paused /\ ~sla[t].alerted
    BY <1>8 DEF WarnUpsert, PollerUpsert, TypeOK
  <2>2. /\ WarningRow(pTodo[t]) # NoRow
        /\ ~WarningRow(pTodo[t]).alerted
        /\ ~WarningRow(pTodo[t]).paused
    <3>1. Sound(WarningRow(pTodo[t]), now)
      BY <1>8, <2>1, WarningRowSound DEF WarnUpsert, PollerUpsert, SoundRows, TypeOK
    <3> QED
      BY <2>1, <3>1, NoRowAssumption DEF WarningRow, Row, Sound
  <2> QED
    BY <1>8, <2>1, <2>2 DEF WarnUpsert, PollerUpsert, DoneWith, handler, TypeOK
<1>9. CASE Tick \/ AdminStep \/ UNCHANGED vars
  BY <1>9, <1>1 DEF Tick, AdminStep, UpdatePolicy, DeletePolicy, vars, tables
<1>10. CASE HandlerStep
  BY <1>10, <1>1, <1>2, <1>3, <1>4, <1>5
     DEF HandlerStep, TicketCreate, TicketCreateNoPolicy, AssignFails,
         HandlerUpsertFails, HandlerIdle, tables
<1>11. CASE PollerStep
  <2>1. CASE PollStart
    BY <2>1, <1>6 DEF PollStart, Breached, tables
  <2>2. CASE ListActive
    BY <2>2, <1>6 DEF ListActive, Active, tables
  <2>3. ASSUME NEW t \in Tickets, BreachLookup(t) \/ BreachSkip(t) \/ WarnFails(t)
        PROVE  CopiesFit'
    BY <2>3, <1>6 DEF BreachLookup, BreachSkip, WarnFails, DoneWith, tables, TypeOK
  <2>4. CASE AlertOk \/ AlertFails \/ AlertAnswerLost \/ MarkFails
    BY <2>4, <1>6 DEF AlertOk, AlertFails, AlertAnswerLost, MarkFails, DoneWith,
                      tables, TypeOK
  <2>5. CASE ListActiveFails \/ PollEnd
    BY <2>5, <1>6 DEF ListActiveFails, PollEnd, PollerIdle, Nothing, tables
  <2> QED
    BY <1>11, <1>7, <1>8, <2>1, <2>2, <2>3, <2>4, <2>5 DEF PollerStep
<1>12. CASE Crash
  BY <1>12 DEF Crash, HandlerIdle, PollerIdle, Nothing, tables
<1> QED
  BY <1>9, <1>10, <1>11, <1>12 DEF Next

(* A page and its record come and go together.  The page is sent from a    *)
(* copy, and the copy says that there is no record yet (CopiesFit).        *)
LEMMA PagesStep == IInv /\ [Next]_vars => PagesAccounted'
<1> SUFFICES ASSUME IInv, [Next]_vars PROVE PagesAccounted'
  OBVIOUS
<1>0. TypeOK /\ Phases /\ SoundRows /\ CopiesFit /\ PagesAccounted
  BY DEF IInv
<1> USE <1>0 DEF PagesAccounted, Recorded
<1>1. CASE UNCHANGED <<sla, pages, lostMarks, poller>>
  BY <1>1 DEF poller
<1>2. CASE HandlerUpsert
  <2>1. hTicket \in Tickets /\ hRow # NoRow /\ hRow \in Row /\ hPc = "write"
    BY <1>2, NoRowAssumption DEF HandlerUpsert, Phases, SoundRows, Sound
  <2>2. hRow.alerted => sla[hTicket] # NoRow /\ sla[hTicket].alerted
    BY <2>1 DEF CopiesFit
  <2>3. sla[hTicket] # NoRow /\ sla[hTicket].alerted =>
          ~(pPc = "mark" /\ pTicket = hTicket)
    BY <2>1 DEF CopiesFit, Phases
  <2> QED
    BY <1>2, <2>1, <2>2, <2>3 DEF HandlerUpsert, poller, TypeOK
<1>3. CASE UNCHANGED <<sla, pages, lostMarks>> /\ pPc # "mark" /\ pPc' # "mark"
  BY <1>3
<1>4. CASE AlertOk
  <2>1. pTicket \in Tickets /\ sla[pTicket] # NoRow /\ ~sla[pTicket].alerted
    BY <1>4 DEF AlertOk, Phases, CopiesFit
  <2> QED
    BY <1>4, <2>1 DEF AlertOk, tables, TypeOK
<1>5. CASE AlertAnswerLost
  BY <1>5 DEF AlertAnswerLost, Phases, tables, TypeOK
<1>6. CASE MarkAlerted
  <2>1. /\ pTicket \in Tickets
        /\ sla[pTicket] # NoRow /\ ~sla[pTicket].alerted
        /\ pTodo[pTicket] \in Row
    BY <1>6 DEF MarkAlerted, PollerUpsert, Phases, CopiesFit, TypeOK
  <2>2. BreachedRow(pTodo[pTicket]) # NoRow /\ BreachedRow(pTodo[pTicket]).alerted
    <3>1. Sound(BreachedRow(pTodo[pTicket]), now)
      BY <1>6, <2>1, BreachedRowSound DEF MarkAlerted, PollerUpsert, Phases, SoundRows, TypeOK
    <3> QED
      BY <2>1, <3>1, NoRowAssumption DEF BreachedRow, Row, Sound
  <2> QED
    BY <1>6, <2>1, <2>2 DEF MarkAlerted, PollerUpsert, history, TypeOK
<1>7. CASE MarkFails
  <2>1. pTicket \in Tickets /\ sla[pTicket] # NoRow /\ ~sla[pTicket].alerted
    BY <1>7 DEF MarkFails, Phases, CopiesFit
  <2> QED
    BY <1>7, <2>1 DEF MarkFails, tables, TypeOK
<1>8. ASSUME NEW t \in Tickets, WarnUpsert(t)
      PROVE  PagesAccounted'
  <2>1. /\ pTodo[t] \in Row /\ ~pTodo[t].alerted
        /\ sla[t] # NoRow /\ ~sla[t].alerted
    BY <1>8 DEF WarnUpsert, PollerUpsert, CopiesFit, TypeOK
  <2>2. ~WarningRow(pTodo[t]).alerted
    BY <2>1 DEF WarningRow, Row
  <2> QED
    BY <1>8, <2>1, <2>2 DEF WarnUpsert, PollerUpsert, history, TypeOK
<1>9. CASE Crash
  <2>1. pPc = "mark" =>
          pTicket \in Tickets /\ sla[pTicket] # NoRow /\ ~sla[pTicket].alerted
    BY DEF Phases, CopiesFit
  <2> QED
    BY <1>9, <2>1 DEF Crash, PollerIdle, tables, TypeOK
<1>10. CASE Tick \/ AdminStep \/ UNCHANGED vars
  BY <1>10, <1>1 DEF Tick, AdminStep, UpdatePolicy, DeletePolicy, vars, tables, history
<1>11. CASE HandlerStep
  BY <1>11, <1>1, <1>2
     DEF HandlerStep, TicketCreate, TicketCreateNoPolicy, TicketUpdate, AssignPolicy,
         AssignFails, HandlerUpsertFails, tables, history
<1>12. CASE PollerStep
  <2>1. CASE PollStart \/ ListActive \/ ListActiveFails \/ PollEnd
    BY <2>1, <1>3 DEF PollStart, ListActive, ListActiveFails, PollEnd, PollerIdle,
                      tables, history
  <2>2. ASSUME NEW t \in Tickets, BreachLookup(t) \/ BreachSkip(t) \/ WarnFails(t)
        PROVE  PagesAccounted'
    BY <2>2, <1>3 DEF BreachLookup, BreachSkip, WarnFails, tables, history
  <2>3. CASE AlertFails
    BY <2>3, <1>3 DEF AlertFails, tables, history
  <2> QED
    BY <1>12, <1>4, <1>5, <1>6, <1>7, <1>8, <2>1, <2>2, <2>3 DEF PollerStep
<1> QED
  BY <1>9, <1>10, <1>11, <1>12 DEF Next

-----------------------------------------------------------------------------
(* The inductive invariant holds in every reachable state.                 *)
THEOREM Invariance == Spec => []IInv
<1>1. Init => IInv
  BY InitIInv
<1>2. IInv /\ [Next]_vars => IInv'
  BY TypeStep, PhasesStep, SoundStep, CopiesStep, PagesStep DEF IInv
<1> QED
  BY <1>1, <1>2, PTL DEF Spec

(* Every variable keeps its type.                                          *)
THEOREM TypeCorrect == Spec => []TypeOK
<1>1. IInv => TypeOK
  BY DEF IInv
<1> QED
  BY <1>1, Invariance, PTL

(* Whatever the poller and the handler overwrite, every row is coherent.   *)
THEOREM RowsAlwaysCoherent == Spec => []RowsCoherent
<1>1. IInv => RowsCoherent
  BY DEF IInv, SoundRows, Sound, RowsCoherent
<1> QED
  BY <1>1, Invariance, PTL

(* Whatever they overwrite, the deadlines of every row and its accumulated *)
(* pause belong together.                                                  *)
THEOREM DueDatesAlwaysAccount == Spec => []DueDatesAccount
<1>1. IInv => DueDatesAccount
  BY DEF IInv, SoundRows, Sound, DueDatesAccount
<1> QED
  BY <1>1, Invariance, PTL

(* Copies always fit the rows they replace.                                *)
THEOREM CopiesAlwaysFit == Spec => []CopiesFit
<1>1. IInv => CopiesFit
  BY DEF IInv
<1> QED
  BY <1>1, Invariance, PTL

(* Every page has a record or a lost one, and no record is without a page: *)
(* a ticket is paged again only after the record of a page was lost.       *)
THEOREM PagesAlwaysAccounted == Spec => []PagesAccounted
<1>1. IInv => PagesAccounted
  BY DEF IInv
<1> QED
  BY <1>1, Invariance, PTL

(* While a clock stands still no step changes its row: a row the handler   *)
(* is about to write as paused replaces a running one, and the poller      *)
(* writes only running ones.                                               *)
THEOREM PauseAlwaysFreezes == Spec => PauseFreezes
<1> DEFINE Frozen == \A t \in Tickets :
                       sla[t] # NoRow /\ sla[t].paused /\ sla'[t].paused
                         => sla'[t] = sla[t]
<1>1. IInv /\ [Next]_vars => [Frozen]_vars
  <2> SUFFICES ASSUME IInv, Next PROVE Frozen
    OBVIOUS
  <2>0. TypeOK /\ Phases /\ SoundRows /\ CopiesFit
    BY DEF IInv
  <2>1. CASE UNCHANGED sla
    BY <2>1
  <2>2. CASE HandlerUpsert
    BY <2>0, <2>2 DEF HandlerUpsert, Phases, CopiesFit, TypeOK
  <2>3. CASE MarkAlerted
    <3>1. pTicket \in Tickets /\ pTodo[pTicket] \in Row /\ ~pTodo[pTicket].paused
      BY <2>0, <2>3 DEF MarkAlerted, PollerUpsert, Phases, CopiesFit, TypeOK
    <3>2. ~BreachedRow(pTodo[pTicket]).paused
      BY <3>1 DEF BreachedRow, Row
    <3> QED
      BY <2>0, <2>3, <3>1, <3>2 DEF MarkAlerted, PollerUpsert, TypeOK
  <2>4. ASSUME NEW t \in Tickets, WarnUpsert(t)
        PROVE  Frozen
    <3>1. pTodo[t] \in Row /\ ~pTodo[t].paused
      BY <2>0, <2>4 DEF WarnUpsert, PollerUpsert, CopiesFit, TypeOK
    <3>2. ~WarningRow(pTodo[t]).paused
      BY <3>1 DEF WarningRow, Row
    <3> QED
      BY <2>0, <2>4, <3>2 DEF WarnUpsert, PollerUpsert, TypeOK
  <2> QED
    BY <2>1, <2>2, <2>3, <2>4
       DEF Next, Tick, AdminStep, UpdatePolicy, DeletePolicy, HandlerStep,
           TicketCreate, TicketCreateNoPolicy, AssignPolicy, AssignFails,
           TicketUpdate, HandlerUpsertFails, PollerStep, PollStart, BreachLookup,
           BreachSkip, AlertOk, AlertFails, AlertAnswerLost, MarkFails,
           ListActive, ListActiveFails, WarnFails, PollEnd, Crash, tables
<1> QED
  BY <1>1, Invariance, PTL DEF Spec, PauseFreezes

-----------------------------------------------------------------------------
(* What makes PausedByLastEvent inductive: the handler is about to write a *)
(* paused row only for an event that asked for it.                         *)
LastEvent ==
  /\ PausedByLastEvent
  /\ hPc = "write" /\ hRow.paused =>
       lastState[hTicket] \in PauseStates \cup {Unknown}

(* A step that leaves the rows, the history of events and the handler's    *)
(* hands as they are.                                                      *)
LEMMA LastEventKept ==
  ASSUME LastEvent, UNCHANGED <<sla, lastState, handler>>
  PROVE  LastEvent'
BY DEF LastEvent, PausedByLastEvent, handler

(* The poller's writes leave running rows behind.                          *)
LEMMA LastEventWritten ==
  ASSUME IInv, LastEvent, UNCHANGED <<lastState, handler>>,
         NEW u \in Tickets, NEW r \in Row, ~r.paused,
         sla' = [sla EXCEPT ![u] = r]
  PROVE  LastEvent'
<1>1. ASSUME NEW t \in Tickets, sla'[t] # NoRow, sla'[t].paused
      PROVE  t # u /\ sla'[t] = sla[t]
  BY <1>1 DEF IInv, TypeOK
<1> QED
  BY <1>1 DEF LastEvent, PausedByLastEvent, handler

LEMMA LastEventStep == IInv /\ LastEvent /\ [Next]_vars => LastEvent'
<1> SUFFICES ASSUME IInv, LastEvent, [Next]_vars PROVE LastEvent'
  OBVIOUS
<1>0. TypeOK /\ Phases /\ SoundRows /\ CopiesFit
  BY DEF IInv
<1>1. ASSUME NEW t \in Tickets, NEW state \in ZammadStates, TicketUpdate(t, state)
      PROVE  LastEvent'
  <2>1. /\ hPc = "idle" /\ sla' = sla /\ sla[t] \in Row
        /\ lastState' = [lastState EXCEPT ![t] = state]
    BY <1>0, <1>1 DEF TicketUpdate, TypeOK, tables
  <2>2. CASE EntersPause(sla[t], state) /\ HandlerWrites(t, PausedRow(sla[t], now))
    BY <1>0, <2>1, <2>2
       DEF EntersPause, HandlerWrites, LastEvent, PausedByLastEvent, TypeOK
  <2>3. CASE LeavesPause(sla[t], state) /\ HandlerWrites(t, ResumedRow(sla[t], now))
    <3>1. ~ResumedRow(sla[t], now).paused
      BY <2>1 DEF ResumedRow, Row
    <3> QED
      BY <1>0, <2>1, <2>3, <3>1
         DEF HandlerWrites, LastEvent, PausedByLastEvent, TypeOK
  <2>4. CASE /\ ~EntersPause(sla[t], state) /\ ~LeavesPause(sla[t], state)
             /\ UNCHANGED handler
    BY <1>0, <2>1, <2>4
       DEF EntersPause, LeavesPause, handler, LastEvent, PausedByLastEvent, TypeOK
  <2> QED
    BY <1>1, <2>2, <2>3, <2>4 DEF TicketUpdate
<1>2. CASE AssignPolicy
  <2>1. ~FreshRow(hShape, now).paused
    BY DEF FreshRow
  <2> QED
    BY <1>0, <1>2, <2>1
       DEF AssignPolicy, HandlerWrites, LastEvent, PausedByLastEvent, history
<1>3. CASE HandlerUpsert
  BY <1>0, <1>3 DEF HandlerUpsert, HandlerIdle, Phases, LastEvent,
                    PausedByLastEvent, TypeOK
<1>4. CASE HandlerUpsertFails \/ Crash
  BY <1>0, <1>4 DEF HandlerUpsertFails, Crash, HandlerIdle, Phases, LastEvent,
                    PausedByLastEvent, TypeOK, tables
<1>5. ASSUME NEW t \in Tickets, NEW p \in PolicyIds, TicketCreate(t, p)
      PROVE  LastEvent'
  BY <1>5 DEF TicketCreate, LastEvent, PausedByLastEvent, history
<1>6. CASE AssignFails
  BY <1>6 DEF AssignFails, HandlerIdle, LastEvent, PausedByLastEvent, tables, history
<1>7. CASE MarkAlerted
  <2>1. pTodo[pTicket] \in Row /\ ~pTodo[pTicket].paused /\ pTicket \in Tickets
    BY <1>0, <1>7 DEF MarkAlerted, PollerUpsert, Phases, CopiesFit, TypeOK
  <2>2. BreachedRow(pTodo[pTicket]) \in Row
    BY <2>1 DEF BreachedRow, Row, Labels
  <2>3. ~BreachedRow(pTodo[pTicket]).paused
    BY <2>1 DEF BreachedRow, Row
  <2> QED
    BY <1>7, <2>1, <2>2, <2>3, LastEventWritten DEF MarkAlerted, PollerUpsert, history
<1>8. ASSUME NEW t \in Tickets, WarnUpsert(t)
      PROVE  LastEvent'
  <2>1. pTodo[t] \in Row /\ ~pTodo[t].paused
    BY <1>0, <1>8 DEF WarnUpsert, PollerUpsert, CopiesFit, TypeOK
  <2>2. WarningRow(pTodo[t]) \in Row
    BY <2>1 DEF WarningRow, Row, Labels
  <2>3. ~WarningRow(pTodo[t]).paused
    BY <2>1 DEF WarningRow, Row
  <2> QED
    BY <1>8, <2>2, <2>3, LastEventWritten DEF WarnUpsert, PollerUpsert, history
<1>9. CASE UNCHANGED <<sla, lastState, handler>>
  BY <1>9, LastEventKept
<1> QED
  BY <1>1, <1>2, <1>3, <1>4, <1>5, <1>6, <1>7, <1>8, <1>9
     DEF Next, Tick, AdminStep, UpdatePolicy, DeletePolicy, HandlerStep,
         TicketCreateNoPolicy, PollerStep, PollStart, BreachLookup, BreachSkip,
         AlertOk, AlertFails, AlertAnswerLost, MarkFails, ListActive,
         ListActiveFails, WarnFails, PollEnd, tables, history, vars

(* A ticket is left paused only by an event that asked for it, or one      *)
(* whose outcome was lost: never by a late write of the poller.            *)
THEOREM AlwaysPausedByLastEvent == Spec => []PausedByLastEvent
<1>1. Init => LastEvent
  BY DEF Init, LastEvent, PausedByLastEvent, Nothing
<1>2. LastEvent => PausedByLastEvent
  BY DEF LastEvent
<1> QED
  BY <1>1, <1>2, LastEventStep, Invariance, PTL DEF Spec

-----------------------------------------------------------------------------
(* The poller's comparisons agree with ComputeState on every running row   *)
(* that accounts for its pauses.                                           *)
LEMMA RunningRowAgrees ==
  ASSUME NEW r \in Row, ~r.paused, now \in Nat,
         NEW shape \in Shapes, NEW start \in 0 .. now,
         Accounts(r, shape, start, now)
  PROVE  AgreesWith(r, ComputeState(shape, start, NoTime, r.accumulated, FALSE, now).label,
                    shape)
<1> DEFINE elapsed == now - start - r.accumulated
           late == shape.response <= elapsed \/ shape.resolution <= elapsed
           near == \/ shape.response - elapsed < shape.responseWarn
                   \/ shape.resolution - elapsed < shape.resolutionWarn
           label == ComputeState(shape, start, NoTime, r.accumulated, FALSE, now).label
<1>1. /\ start \in Nat /\ r.accumulated \in Nat
      /\ r.responseDue \in Nat /\ r.resolutionDue \in Nat
      /\ shape.response \in Nat /\ shape.resolution \in Nat
      /\ shape.responseWarn \in Nat /\ shape.resolutionWarn \in Nat
  BY ShapesAssumption DEF Row, Shape
<1>2. /\ r.responseDue = start + shape.response + r.accumulated
      /\ r.resolutionDue = start + shape.resolution + r.accumulated
      /\ start + r.accumulated <= now
  BY DEF Accounts
<1>3. elapsed \in Nat
  BY <1>1, <1>2
<1>4. Elapsed(start, r.accumulated, now) = elapsed
  BY <1>3 DEF Elapsed
<1>5. label = IF late THEN "breached" ELSE IF near THEN "warning" ELSE "on_track"
  BY <1>4 DEF ComputeState, Label
<1>6. /\ Breached(r, now) => late
      /\ late /\ ~r.alerted => Breached(r, now + 1)
  BY <1>1, <1>2 DEF Breached
<1>7. ~late => (near <=> ShouldWarn(r, shape, now))
  BY <1>1, <1>2, <1>3 DEF ShouldWarn
<1> QED
  BY <1>5, <1>6, <1>7 DEF AgreesWith

(* ComputeState and the poller never disagree on a running ticket, but for *)
(* the instant at which a deadline is reached.                             *)
THEOREM ClockAlwaysAgrees == Spec => []ClockAgrees
<1>1. IInv => ClockAgrees
  <2> SUFFICES ASSUME IInv, NEW t \in Tickets, sla[t] # NoRow, ~sla[t].paused,
                      NEW shape \in Shapes, NEW start \in 0 .. now,
                      Accounts(sla[t], shape, start, now)
               PROVE  AgreesWith(sla[t],
                        ComputeState(shape, start, NoTime, sla[t].accumulated, FALSE, now).label,
                        shape)
    BY DEF ClockAgrees
  <2>1. sla[t] \in Row /\ now \in Nat
    BY DEF IInv, TypeOK
  <2> QED
    BY <2>1, RunningRowAgrees
<1> QED
  BY <1>1, Invariance, PTL

-----------------------------------------------------------------------------
(* What BreachIsPaged rests on besides fairness: how many steps a poll has *)
(* still to take, three for each overdue row and one for each to be warned *)
(* about, of which there may be as many as tickets.                        *)
Todo == {t \in Tickets : pTodo[t] # NoRow}

PollLeft ==
  CASE pPc = "idle" -> 0
    [] pPc = "breach" -> 3 * Cardinality(Todo) + Cardinality(Tickets) + 2
    [] pPc = "alert" -> 3 * Cardinality(Todo) + Cardinality(Tickets) + 1
    [] pPc = "mark" -> 3 * Cardinality(Todo) + Cardinality(Tickets)
    [] pPc = "warn" -> Cardinality(Todo) + 1

(* A row that has been dealt with is not taken up again by this poll.      *)
LEMMA TodoShrinks ==
  ASSUME TypeOK, NEW t \in Tickets, pTodo[t] # NoRow, DoneWith(t)
  PROVE  t \in Todo /\ Todo' = Todo \ {t}
BY DEF TypeOK, DoneWith, Todo

LEMMA TodoCounts ==
  ASSUME IsFiniteSet(Tickets)
  PROVE  /\ Cardinality(Todo) \in Nat /\ Cardinality(Tickets) \in Nat
         /\ Cardinality(Todo) <= Cardinality(Tickets)
         /\ \A t \in Todo : Cardinality(Todo \ {t}) = Cardinality(Todo) - 1
         /\ Todo # {} => Cardinality(Todo) > 0
         /\ Cardinality(Todo)' \in Nat /\ Cardinality(Todo)' <= Cardinality(Tickets)
<1>1. Todo \in SUBSET Tickets /\ Todo' \in SUBSET Tickets
  BY DEF Todo
<1>2. /\ IsFiniteSet(Todo) /\ IsFiniteSet(Todo')
      /\ Cardinality(Todo) <= Cardinality(Tickets)
      /\ Cardinality(Todo') <= Cardinality(Tickets)
  BY <1>1, FS_Subset
<1>3. /\ Cardinality(Todo) \in Nat /\ Cardinality(Todo') \in Nat
      /\ Cardinality(Tickets) \in Nat
  BY <1>2, FS_CardinalityType
<1>4. QED
  BY <1>2, <1>3, FS_RemoveElement, FS_EmptySet

(* A poll ends after a number of steps that the number of tickets bounds:  *)
(* each of its steps leaves fewer, whatever fails, and nothing the handler *)
(* or an administrator does while it runs gives it more to do, so the next *)
(* poll, which reads the overdue rows anew, does come.                     *)
THEOREM EveryStepEndsAPoll ==
  ASSUME IsFiniteSet(Tickets)
  PROVE  Spec => [][/\ PollLeft \in 0 .. 4 * Cardinality(Tickets) + 2
                    /\ pPc # "idle" <=> PollLeft > 0
                    /\ PollerStep => PollLeft' < PollLeft \/ PollStart
                    /\ Tick \/ AdminStep \/ HandlerStep => PollLeft' = PollLeft]_vars
<1>1. ASSUME IInv, [Next]_vars
      PROVE  [/\ PollLeft \in 0 .. 4 * Cardinality(Tickets) + 2
              /\ pPc # "idle" <=> PollLeft > 0
              /\ PollerStep => PollLeft' < PollLeft \/ PollStart
              /\ Tick \/ AdminStep \/ HandlerStep => PollLeft' = PollLeft]_vars
  <2> DEFINE n == Cardinality(Tickets)
             k == Cardinality(Todo)
             rest(pc, m) == IF pc = "idle" THEN 0
                            ELSE IF pc = "breach" THEN 3 * m + n + 2
                            ELSE IF pc = "alert" THEN 3 * m + n + 1
                            ELSE IF pc = "mark" THEN 3 * m + n
                            ELSE m + 1
  <2>0. /\ TypeOK /\ Phases
        /\ pPc \in {"idle", "breach", "alert", "mark", "warn"}
    BY <1>1 DEF IInv, TypeOK
  <2>1. /\ k \in Nat /\ n \in Nat /\ k <= n
        /\ \A t \in Todo : Cardinality(Todo \ {t}) = k - 1
        /\ Todo # {} => k > 0
        /\ k' \in Nat /\ k' <= n
    BY TodoCounts
  <2>2. PollLeft = rest(pPc, k)
    BY <2>0 DEF PollLeft
  <2>3. pPc' \in {"idle", "breach", "alert", "mark", "warn"} => PollLeft' = rest(pPc', k')
    BY DEF PollLeft
  <2>4. pPc \in {"alert", "mark"} => k > 0
    <3>1. ASSUME pPc \in {"alert", "mark"} PROVE pTicket \in Todo
      BY <2>0, <3>1 DEF Phases, Todo
    <3>2. QED
      BY <2>1, <3>1
  <2>5. PollLeft \in 0 .. 4 * n + 2 /\ (pPc # "idle" <=> PollLeft > 0)
    BY <2>0, <2>1, <2>2, <2>4
  <2>6. ASSUME PollerStep, ~PollStart PROVE PollLeft' < PollLeft
    <3>1. CASE \E t \in Tickets : BreachLookup(t)
      <4>1. pPc = "breach" /\ pPc' = "alert" /\ k' = k
        BY <3>1 DEF BreachLookup, Todo
      <4>2. QED
        BY <2>1, <2>2, <2>3, <4>1
    <3>2. CASE \E t \in Tickets : BreachSkip(t)
      <4>1. PICK t \in Tickets : pTodo[t] # NoRow /\ DoneWith(t)
        BY <3>2 DEF BreachSkip
      <4>2. pPc = "breach" /\ pPc' = "breach"
        BY <3>2 DEF BreachSkip
      <4>3. k' = k - 1
        BY <2>0, <2>1, <4>1, TodoShrinks
      <4>4. QED
        BY <2>1, <2>2, <2>3, <4>2, <4>3
    <3>3. CASE AlertOk
      <4>1. pPc = "alert" /\ pPc' = "mark" /\ k' = k
        BY <3>3 DEF AlertOk, Todo
      <4>2. QED
        BY <2>1, <2>2, <2>3, <4>1
    <3>4. CASE AlertFails \/ AlertAnswerLost \/ MarkAlerted \/ MarkFails
      <4>1. pPc \in {"alert", "mark"} /\ pPc' = "breach" /\ DoneWith(pTicket)
        BY <3>4 DEF AlertFails, AlertAnswerLost, MarkAlerted, MarkFails
      <4>2. pTicket \in Tickets /\ pTodo[pTicket] # NoRow
        BY <2>0, <4>1 DEF Phases
      <4>3. k' = k - 1
        BY <2>0, <2>1, <4>1, <4>2, TodoShrinks
      <4>4. QED
        BY <2>1, <2>2, <2>3, <4>1, <4>3
    <3>5. CASE ListActive
      <4>1. pPc = "breach" /\ pPc' = "warn"
        BY <3>5 DEF ListActive
      <4>2. QED
        BY <2>1, <2>2, <2>3, <4>1
    <3>6. CASE ListActiveFails \/ PollEnd
      <4>1. pPc \in {"breach", "warn"} /\ pPc' = "idle"
        BY <3>6 DEF ListActiveFails, PollEnd, PollerIdle
      <4>2. QED
        BY <2>1, <2>2, <2>3, <4>1
    <3>7. CASE \E t \in Tickets : WarnUpsert(t) \/ WarnFails(t)
      <4>1. PICK t \in Tickets : pTodo[t] # NoRow /\ DoneWith(t)
        BY <3>7 DEF WarnUpsert, WarnFails
      <4>2. pPc = "warn" /\ pPc' = "warn"
        BY <3>7 DEF WarnUpsert, WarnFails
      <4>3. k' = k - 1
        BY <2>0, <2>1, <4>1, TodoShrinks
      <4>4. QED
        BY <2>1, <2>2, <2>3, <4>2, <4>3
    <3>8. QED
      BY <2>6, <3>1, <3>2, <3>3, <3>4, <3>5, <3>6, <3>7 DEF PollerStep
  <2>7. ASSUME Tick \/ AdminStep \/ HandlerStep PROVE PollLeft' = PollLeft
    <3>1. UNCHANGED <<pPc, pTodo>>
      BY <2>7 DEF Tick, AdminStep, UpdatePolicy, DeletePolicy, HandlerStep, TicketCreate,
                  TicketCreateNoPolicy, TicketUpdate, AssignPolicy, AssignFails,
                  HandlerUpsert, HandlerUpsertFails, poller
    <3>2. QED
      BY <3>1 DEF PollLeft, Todo
  <2>8. QED
    BY <2>5, <2>6, <2>7
<1>2. QED
  BY <1>1, Invariance, PTL DEF Spec

-----------------------------------------------------------------------------
(* What the late writes of the poller do to a breach, when the ticket's    *)
(* creation is not delivered again: nothing.  Deadlines only move forward, *)
(* so that of two versions of a row the later one has the later deadlines. *)
NoLater(r, s) ==
  r.responseDue <= s.responseDue /\ r.resolutionDue <= s.resolutionDue

(* A ticket that is tracked, or in the handler's hands, is known; and the  *)
(* policy of a ticket is assigned before it has a row.                     *)
KnownOnce ==
  /\ \A t \in Tickets : meta[t] = Absent => sla[t] = NoRow
  /\ hPc # "idle" => meta[hTicket] # Absent
  /\ hPc = "assign" => sla[hTicket] = NoRow

(* The poller writes back deadlines that are no later than the row's, and  *)
(* the handler such that are no earlier.                                   *)
DueInOrder ==
  /\ \A t \in Tickets : pTodo[t] # NoRow => NoLater(pTodo[t], sla[t])
  /\ hPc = "write" /\ sla[hTicket] # NoRow => NoLater(sla[hTicket], hRow)

(* Resuming only adds time.                                                *)
LEMMA ResumedRowLater ==
  ASSUME NEW t \in Nat, NEW r, Sound(r, t), r.paused
  PROVE  NoLater(r, ResumedRow(r, t))
<1>1. /\ r \in Row /\ r.pausedAt \in Nat /\ t - r.pausedAt \in Nat
      /\ r.responseDue \in Nat /\ r.resolutionDue \in Nat
  BY DEF Sound, Coherent, Accounted, Accounts, Row, NoTime
<1>2. WholeSeconds(t - r.pausedAt) \in Nat
  BY <1>1, WholeSecondsBound
<1>3. QED
  BY <1>1, <1>2 DEF ResumedRow, NoLater, Row, NoTime

LEMMA KnownOnceStep ==
  ASSUME "redelivery" \notin Faults, IInv, KnownOnce, [Next]_vars
  PROVE  KnownOnce'
<1>0. TypeOK /\ Phases /\ CopiesFit
  BY DEF IInv
<1> USE <1>0 DEF KnownOnce
<1>1. CASE UNCHANGED <<meta, sla, handler>>
  BY <1>1 DEF handler
<1>2. CASE UNCHANGED <<meta, sla>> /\ hPc' = "idle"
  BY <1>2
<1>3. CASE AdminStep
  <2>1. UNCHANGED <<sla, handler>>
    BY <1>3 DEF AdminStep, UpdatePolicy, DeletePolicy
  <2>2. \A t \in Tickets : meta'[t] = meta[t] \/ (meta[t] # Absent /\ meta'[t] # Absent)
    BY <1>3, NamesAssumption
       DEF AdminStep, UpdatePolicy, DeletePolicy, TypeOK, Unassigned, Absent
  <2>3. hPc # "idle" => hTicket \in Tickets
    BY DEF Phases, TypeOK
  <2>4. QED
    BY <2>1, <2>2, <2>3 DEF handler
<1>4. ASSUME NEW t \in Tickets, NEW p \in PolicyIds, TicketCreate(t, p)
      PROVE  KnownOnce'
  BY <1>4 DEF TicketCreate, EnsureMeta, TypeOK, Unassigned, Absent
<1>5. ASSUME NEW t \in Tickets, TicketCreateNoPolicy(t)
      PROVE  KnownOnce'
  BY <1>5 DEF TicketCreateNoPolicy, EnsureMeta, TypeOK, Unassigned, Absent, handler, Phases
<1>6. CASE AssignPolicy
  BY <1>6, NamesAssumption DEF AssignPolicy, HandlerWrites, TypeOK, Phases
<1>7. ASSUME NEW t \in Tickets, NEW state \in ZammadStates, TicketUpdate(t, state)
      PROVE  KnownOnce'
  BY <1>7 DEF TicketUpdate, HandlerWrites, handler, tables
<1>8. CASE HandlerUpsert
  BY <1>8 DEF HandlerUpsert, HandlerIdle, TypeOK, Phases
<1>9. ASSUME NEW t \in Tickets, sla[t] # NoRow,
             \E r : sla' = [sla EXCEPT ![t] = r],
             UNCHANGED <<meta, handler>>
      PROVE  KnownOnce'
  BY <1>9 DEF handler, TypeOK, Phases
<1>10. CASE MarkAlerted
  BY <1>9, <1>10 DEF MarkAlerted, PollerUpsert, Phases, CopiesFit
<1>11. ASSUME NEW t \in Tickets, WarnUpsert(t)
       PROVE  KnownOnce'
  BY <1>9, <1>11 DEF WarnUpsert, PollerUpsert, CopiesFit
<1>12. CASE HandlerStep
  BY <1>2, <1>4, <1>5, <1>6, <1>7, <1>8, <1>12
     DEF HandlerStep, AssignFails, HandlerUpsertFails, HandlerIdle, tables
<1>13. CASE PollerStep
  BY <1>1, <1>10, <1>11, <1>13
     DEF PollerStep, PollStart, BreachLookup, BreachSkip, AlertOk, AlertFails,
         AlertAnswerLost, MarkFails, ListActive, ListActiveFails, WarnFails, PollEnd, tables
<1>14. CASE Crash
  BY <1>2, <1>14 DEF Crash, HandlerIdle, tables
<1>15. CASE Tick \/ UNCHANGED vars
  BY <1>1, <1>15 DEF Tick, vars, tables
<1>16. QED
  BY <1>3, <1>12, <1>13, <1>14, <1>15 DEF Next

LEMMA DueInOrderStep ==
  ASSUME "redelivery" \notin Faults, IInv, KnownOnce, DueInOrder, [Next]_vars
  PROVE  DueInOrder'
<1>0. TypeOK /\ Phases /\ SoundRows /\ CopiesFit /\ CopiesFit'
  BY CopiesStep DEF IInv
<1>r. \A r \in Row : r.responseDue \in Nat /\ r.resolutionDue \in Nat
  BY DEF Row
<1>n. \A r \in Row : NoLater(r, r)
  BY <1>r DEF NoLater
<1> USE <1>0 DEF DueInOrder
<1>1. CASE UNCHANGED <<sla, handler, poller>>
  BY <1>1 DEF handler, poller
<1>2. CASE UNCHANGED <<sla, poller>> /\ hPc' # "write"
  BY <1>2 DEF poller
<1>3. ASSUME NEW t \in Tickets, NEW state \in ZammadStates, TicketUpdate(t, state)
      PROVE  DueInOrder'
  <2>1. sla[t] # NoRow /\ sla[t] \in Row /\ now \in Nat /\ UNCHANGED <<sla, poller>>
    BY <1>3 DEF TicketUpdate, tables, TypeOK
  <2>2. CASE HandlerWrites(t, PausedRow(sla[t], now))
    <3>1. NoLater(sla[t], PausedRow(sla[t], now))
      BY <1>r, <2>1 DEF PausedRow, Row, NoLater
    <3>2. QED
      BY <2>1, <2>2, <3>1 DEF HandlerWrites, poller
  <2>3. CASE LeavesPause(sla[t], state) /\ HandlerWrites(t, ResumedRow(sla[t], now))
    <3>1. Sound(sla[t], now)
      BY <2>1 DEF SoundRows
    <3>2. NoLater(sla[t], ResumedRow(sla[t], now))
      BY <2>1, <2>3, <3>1, ResumedRowLater DEF LeavesPause
    <3>3. QED
      BY <2>1, <2>3, <3>2 DEF HandlerWrites, poller
  <2>4. CASE UNCHANGED handler
    BY <2>1, <2>4, <1>1
  <2>5. QED
    BY <1>3, <2>2, <2>3, <2>4 DEF TicketUpdate
<1>4. CASE AssignPolicy
  <2>1. sla[hTicket] = NoRow /\ UNCHANGED <<sla, hTicket, poller>>
    BY <1>4 DEF AssignPolicy, HandlerWrites, KnownOnce
  <2>2. QED
    BY <2>1 DEF poller
<1>5. CASE HandlerUpsert
  <2>1. hTicket \in Tickets /\ hRow \in Row /\ hPc = "write"
    BY <1>5 DEF HandlerUpsert, Phases, SoundRows, Sound
  <2>2. \A t \in Tickets : pTodo[t] # NoRow => sla[t] \in Row /\ pTodo[t] \in Row
    BY DEF TypeOK, CopiesFit
  <2>3. pTodo[hTicket] # NoRow => NoLater(pTodo[hTicket], hRow)
    BY <1>r, <2>1, <2>2 DEF NoLater, CopiesFit
  <2>4. QED
    BY <1>5, <2>1, <2>3 DEF HandlerUpsert, HandlerIdle, poller, TypeOK
<1>6. CASE UNCHANGED <<sla, handler>> /\
           \A t \in Tickets :
             pTodo'[t] = NoRow \/ pTodo'[t] = pTodo[t] \/ pTodo'[t] = sla[t]
  BY <1>6, <1>n DEF handler, TypeOK
<1>7. ASSUME NEW t \in Tickets, pTodo[t] # NoRow, NEW r \in Row,
             r.responseDue = pTodo[t].responseDue, r.resolutionDue = pTodo[t].resolutionDue,
             PollerUpsert(t, r), DoneWith(t), UNCHANGED handler
      PROVE  DueInOrder'
  <2>1. pTodo[t] \in Row /\ sla[t] # NoRow /\ sla[t] \in Row /\ NoLater(r, sla[t])
    BY <1>7 DEF TypeOK, CopiesFit, NoLater
  <2>2. hPc = "write" => hRow \in Row /\ hTicket \in Tickets
    BY DEF Phases, SoundRows, Sound
  <2>3. hPc = "write" /\ hTicket = t => NoLater(r, hRow)
    BY <1>r, <1>7, <2>1, <2>2 DEF NoLater
  <2>4. QED
    BY <1>7, <2>1, <2>2, <2>3 DEF PollerUpsert, DoneWith, handler, TypeOK
<1>8. CASE MarkAlerted
  <2>1. /\ pTicket \in Tickets /\ pTodo[pTicket] # NoRow /\ pTodo[pTicket] \in Row
        /\ BreachedRow(pTodo[pTicket]) \in Row
    BY <1>8, BreachedRowSound DEF MarkAlerted, Phases, TypeOK, SoundRows, Sound
  <2>2. QED
    BY <1>7, <1>8, <2>1 DEF MarkAlerted, BreachedRow, Row
<1>9. ASSUME NEW t \in Tickets, WarnUpsert(t)
      PROVE  DueInOrder'
  <2>1. pTodo[t] # NoRow /\ pTodo[t] \in Row /\ WarningRow(pTodo[t]) \in Row
    BY <1>9 DEF WarnUpsert, TypeOK, WarningRow, Row, Labels
  <2>2. QED
    BY <1>7, <1>9, <2>1 DEF WarnUpsert, WarningRow, Row
<1>10. CASE HandlerStep
  BY <1>1, <1>2, <1>3, <1>4, <1>5, <1>10
     DEF HandlerStep, TicketCreate, TicketCreateNoPolicy, AssignFails, HandlerUpsertFails,
         HandlerIdle, tables
<1>11. CASE PollerStep
  <2>1. CASE PollStart \/ ListActive
    BY <1>6, <2>1 DEF PollStart, ListActive, tables
  <2>2. ASSUME NEW t \in Tickets, BreachLookup(t) \/ BreachSkip(t) \/ WarnFails(t)
        PROVE  DueInOrder'
    BY <1>6, <2>2 DEF BreachLookup, BreachSkip, WarnFails, DoneWith, tables, TypeOK
  <2>3. CASE AlertOk \/ AlertFails \/ AlertAnswerLost \/ MarkFails
    BY <1>6, <2>3 DEF AlertOk, AlertFails, AlertAnswerLost, MarkFails, DoneWith, tables, TypeOK
  <2>4. CASE ListActiveFails \/ PollEnd
    BY <1>6, <2>4 DEF ListActiveFails, PollEnd, PollerIdle, Nothing, tables
  <2>5. QED
    BY <1>8, <1>9, <1>11, <2>1, <2>2, <2>3, <2>4 DEF PollerStep
<1>12. CASE Crash
  BY <1>12 DEF Crash, HandlerIdle, PollerIdle, Nothing, tables
<1>13. CASE Tick \/ AdminStep \/ UNCHANGED vars
  BY <1>1, <1>13 DEF Tick, AdminStep, UpdatePolicy, DeletePolicy, vars, tables
<1>14. QED
  BY <1>10, <1>11, <1>12, <1>13 DEF Next

(* A breach does not go away by itself.  An overdue ticket stays overdue   *)
(* until it is marked as paged, an event of its own writes its row, or its *)
(* policy is deleted: the poller's late warning over a row that has        *)
(* changed since never gives it more time.                                 *)
THEOREM BreachStays ==
  ASSUME "redelivery" \notin Faults
  PROVE  Spec => [][\A t \in Tickets : Overdue(t) /\ ~Overdue(t)' =>
                      \/ pTicket = t /\ MarkAlerted
                      \/ hTicket = t /\ HandlerUpsert
                      \/ DeletePolicy(meta[t])]_vars
<1>1. ASSUME IInv, DueInOrder, [Next]_vars
      PROVE  [\A t \in Tickets : Overdue(t) /\ ~Overdue(t)' =>
                \/ pTicket = t /\ MarkAlerted
                \/ hTicket = t /\ HandlerUpsert
                \/ DeletePolicy(meta[t])]_vars
  <2> SUFFICES ASSUME NEW t \in Tickets, Overdue(t), ~Overdue(t)', Next
               PROVE  \/ pTicket = t /\ MarkAlerted
                      \/ hTicket = t /\ HandlerUpsert
                      \/ DeletePolicy(meta[t])
    BY <1>1
  <2>0. /\ TypeOK /\ Phases /\ SoundRows /\ CopiesFit
        /\ sla[t] \in Row /\ now \in Nat
    BY <1>1 DEF IInv, TypeOK, Overdue
  <2>1. CASE AdminStep
    <3>1. PICK p \in PolicyIds : DeletePolicy(p) \/ \E shape \in Shapes : UpdatePolicy(p, shape)
      BY <2>1 DEF AdminStep
    <3>2. UNCHANGED <<sla, now>>
      BY <3>1 DEF DeletePolicy, UpdatePolicy
    <3>3. p = meta[t] \/ meta'[t] = meta[t]
      BY <2>0, <3>1 DEF DeletePolicy, UpdatePolicy, TypeOK
    <3>4. CASE p = meta[t]
      BY <3>1, <3>2, <3>4 DEF UpdatePolicy, Overdue
    <3>5. QED
      BY <3>2, <3>3, <3>4 DEF Overdue
  <2>2. CASE HandlerStep
    <3>1. meta'[t] \in PolicyIds
      <4>1. meta[t] \in PolicyIds /\ meta[t] # Absent
        BY NamesAssumption DEF Overdue
      <4>2. ASSUME NEW u \in Tickets, EnsureMeta(u) PROVE meta'[t] = meta[t]
        BY <2>0, <4>1, <4>2 DEF EnsureMeta, TypeOK
      <4>3. CASE AssignPolicy
        BY <2>0, <4>1, <4>3 DEF AssignPolicy, TypeOK, Phases
      <4>4. QED
        BY <2>2, <4>1, <4>2, <4>3
           DEF HandlerStep, TicketCreate, TicketCreateNoPolicy, TicketUpdate, AssignFails,
               HandlerUpsert, HandlerUpsertFails, tables
    <3>2. now' = now
      BY <2>2
         DEF HandlerStep, TicketCreate, TicketCreateNoPolicy, TicketUpdate, AssignPolicy,
             AssignFails, HandlerUpsert, HandlerUpsertFails
    <3>3. sla'[t] = sla[t] \/ (hTicket = t /\ HandlerUpsert)
      BY <2>0, <2>2
         DEF HandlerStep, TicketCreate, TicketCreateNoPolicy, TicketUpdate, AssignPolicy,
             AssignFails, HandlerUpsert, HandlerUpsertFails, tables, TypeOK, Phases
    <3>4. QED
      BY <3>1, <3>2, <3>3 DEF Overdue
  <2>3. ASSUME NEW u \in Tickets, WarnUpsert(u) PROVE FALSE
    <3>1. /\ pTodo[u] \in Row /\ pTodo[u] # NoRow /\ ~pTodo[u].alerted /\ ~pTodo[u].paused
          /\ sla' = [sla EXCEPT ![u] = WarningRow(pTodo[u])]
          /\ UNCHANGED <<now, meta>>
      BY <2>0, <2>3 DEF WarnUpsert, PollerUpsert, TypeOK, CopiesFit
    <3>2. u = t
      BY <2>0, <3>1 DEF Overdue, TypeOK
    <3>3. NoLater(pTodo[t], sla[t])
      BY <1>1, <3>1, <3>2 DEF DueInOrder
    <3>4. /\ sla'[t] = WarningRow(pTodo[t]) /\ WarningRow(pTodo[t]) \in Row
          /\ WarningRow(pTodo[t]).responseDue = pTodo[t].responseDue
          /\ WarningRow(pTodo[t]).resolutionDue = pTodo[t].resolutionDue
          /\ ~WarningRow(pTodo[t]).alerted /\ ~WarningRow(pTodo[t]).paused
      BY <2>0, <3>1, <3>2 DEF WarningRow, Row, Labels, TypeOK
    <3>5. \/ pTodo[t].responseDue < now
          \/ pTodo[t].resolutionDue < now
      BY <2>0, <3>1, <3>2, <3>3 DEF NoLater, Overdue, Row
    <3>6. QED
      BY <3>1, <3>4, <3>5, NoRowAssumption DEF Overdue
  <2>4. CASE PollerStep
    <3>1. CASE MarkAlerted
      BY <2>0, <3>1 DEF MarkAlerted, PollerUpsert, Overdue, TypeOK, Phases
    <3>2. QED
      BY <2>3, <2>4, <3>1
         DEF PollerStep, PollStart, BreachLookup, BreachSkip, AlertOk, AlertFails,
             AlertAnswerLost, MarkFails, ListActive, ListActiveFails, WarnFails, PollEnd,
             tables, Overdue
  <2>5. CASE Tick
    BY <2>0, <2>5 DEF Tick, tables, Overdue, Row
  <2>6. CASE Crash
    BY <2>6 DEF Crash, tables, Overdue
  <2>7. QED
    BY <2>1, <2>2, <2>4, <2>5, <2>6 DEF Next
<1>2. Init => KnownOnce /\ DueInOrder
  BY DEF Init, KnownOnce, DueInOrder, Nothing
<1>3. QED
  BY <1>1, <1>2, KnownOnceStep, DueInOrderStep, Invariance, PTL DEF Spec

-----------------------------------------------------------------------------
(* From best to worst.  A ticket that was answered in time is "met" until  *)
(* its resolution is overdue.                                              *)
Urgency(label) ==
  CASE label = "met" -> 0 [] label = "on_track" -> 1
    [] label = "warning" -> 2 [] label = "breached" -> 3

(* The label ComputeState gives a running ticket never improves with time, *)
(* whatever the policy, however long it has been paused before, and        *)
(* whether and when it was answered.                                       *)
THEOREM LabelNeverImproves ==
  ASSUME NEW shape \in Shapes, NEW created \in Nat, NEW respondedAt \in Nat \cup {NoTime},
         NEW accumulated \in Nat, NEW t \in Nat, NEW u \in Nat, t <= u
  PROVE  Urgency(ComputeState(shape, created, respondedAt, accumulated, FALSE, t).label)
           <= Urgency(ComputeState(shape, created, respondedAt, accumulated, FALSE, u).label)
<1> DEFINE before == Elapsed(created, accumulated, t)
           after == Elapsed(created, accumulated, u)
           responded == respondedAt # NoTime
           onTime == respondedAt - created - accumulated <= shape.response
           late(e) == (~responded /\ shape.response <= e) \/ shape.resolution <= e
           near(e) == \/ ~responded /\ shape.response - e < shape.responseWarn
                      \/ shape.resolution - e < shape.resolutionWarn
           met(e) == responded /\ onTime /\ e < shape.resolution
<1>1. /\ shape.response \in Nat /\ shape.resolution \in Nat
      /\ shape.responseWarn \in Nat /\ shape.resolutionWarn \in Nat
  BY ShapesAssumption DEF Shape
<1>2. before \in Nat /\ after \in Nat /\ before <= after
  BY DEF Elapsed
<1>3. /\ ComputeState(shape, created, respondedAt, accumulated, FALSE, t).label
           = Label(shape, before, responded, onTime)
      /\ ComputeState(shape, created, respondedAt, accumulated, FALSE, u).label
           = Label(shape, after, responded, onTime)
  BY DEF ComputeState
<1> HIDE DEF before, after
<1>4. ASSUME NEW e \in Nat
      PROVE  Urgency(Label(shape, e, responded, onTime))
               = IF met(e) THEN 0 ELSE IF late(e) THEN 3 ELSE IF near(e) THEN 2 ELSE 1
  BY DEF Label, Urgency
<1>5. /\ met(after) => met(before)
      /\ late(before) => late(after)
      /\ near(before) => near(after)
      /\ met(before) /\ ~met(after) => late(after)
  BY <1>1, <1>2
<1>6. /\ Urgency(Label(shape, before, responded, onTime))
           = IF met(before) THEN 0 ELSE IF late(before) THEN 3 ELSE IF near(before) THEN 2 ELSE 1
      /\ Urgency(Label(shape, after, responded, onTime))
           = IF met(after) THEN 0 ELSE IF late(after) THEN 3 ELSE IF near(after) THEN 2 ELSE 1
  <2> HIDE DEF met, late, near, responded, onTime
  <2>1. QED
    BY <1>2, <1>4
<1>7. Urgency(Label(shape, before, responded, onTime))
        <= Urgency(Label(shape, after, responded, onTime))
  BY <1>5, <1>6
<1>8. QED
  BY <1>3, <1>7
=============================================================================
