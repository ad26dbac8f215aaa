------------------------ MODULE TicketCreateTheorems ------------------------
(***************************************************************************)
(* Proofs about TicketCreate, for every set of requests, callers, groups   *)
(* and rosters, every choice of faults and every number of tickets,        *)
(* policies and changes.                                                   *)
(***************************************************************************)
EXTENDS TicketCreate, TLAPS

(* What the handler and the requests hold, by the place they are at.       *)
Places ==
  /\ ~At("idle") => job.ticket \in created
  /\ At("oncall") => job.roster \in job.named
  /\ \A r \in Requests :
       pc[r] = "meta" \/ response[r] = "created" => ticket[r] \in created

(* The policy in the handler's hands, if it still exists, is one for the   *)
(* priority of the handler's ticket.                                       *)
PolicyInHandFits ==
  At("assign") =>
    \A p \in policies : p.id = job.policy => p.priority = PriorityOf[job.ticket]

(* The histories of the handling are up to date, and the person in its     *)
(* hands is one of those they list, with an account once it is found.      *)
HistoryKept ==
  ~At("idle") =>
    /\ RostersFor(mappings, job.group) \subseteq job.named
    /\ OnCall(duty, job.named) \subseteq job.seen
    /\ At("search") \/ At("owner") => job.email \in job.seen
    /\ At("owner") => job.email \in users

(* What the handler has written is in place as long as its policy is       *)
(* there, and a group that has been covered all the time still is.         *)
HandlingKept ==
  ~At("idle") =>
    /\ At("policy") \/ At("record") => job.policy = 0
    /\ (\E p \in policies : p.id = job.policy) /\ ~At("assign") =>
         /\ meta[job.ticket] = job.policy
         /\ ~At("state") => job.ticket \in tracked
    /\ job.covered =>
         /\ Covered(mappings, duty, indexed, job.group, job.named)
         /\ At("search") => job.email \in indexed

IInv ==
  /\ TypeOK /\ Places
  /\ PolicyFits /\ PolicyInHandFits
  /\ ToldIsKnown /\ AssignedIsTracked
  /\ HistoryKept /\ HandlingKept

(* The fields of job, as AssignTypeOK states them.                         *)
JobRecord ==
  [step : Steps, ticket : Tickets \cup {NoTicket},
   group : Groups \cup {NoGroup}, policy : Nat,
   roster : Rosters \cup {Nobody}, email : Emails \cup {Nobody},
   named : SUBSET Rosters, seen : SUBSET Emails, covered : BOOLEAN]

-----------------------------------------------------------------------------
(* The table of policies.                                                  *)

(* A ticket's number is never that of no ticket.                           *)
LEMMA NoTicketIsNone == NoTicket \notin Tickets
  BY AssignAssumption DEF NoTicket, Tickets

(* Only administrators change policies, mappings or shifts.                *)
LEMMA OthersKeepSetup ==
  ASSUME [Next]_vars, ~Change
  PROVE  UNCHANGED setup
<1> USE DEF setup
<1>1. ASSUME NEW r \in Requests, Step(r) PROVE UNCHANGED setup
  BY <1>1 DEF Step, Search, CreateUser, CreateUserFails, SearchAgain, CreateTicket,
     CreateTicketUnheard, CallFails, RecordTicket, RecordTicketFails
<1>2. CASE Handler
  <2>1. CASE AssignOwner
    BY <2>1 DEF AssignOwner, Assign, ReadMapping, AskOnCall, SearchOwner, SetOwner
  <2>2. CASE ~AssignOwner
    BY <1>2, <2>2 DEF Handler, TakeCreate, AutoTicket, ReadPolicy, AssignPolicy,
       StartSla, RecordAutoTicket, HandlerFails
  <2> QED  BY <2>1, <2>2
<1>3. CASE Reindex  BY <1>3 DEF Reindex
<1>4. CASE UNCHANGED vars  BY <1>4 DEF vars
<1> QED  BY <1>1, <1>2, <1>3, <1>4 DEF Next

(* The table keeps its type and its constraints.                           *)
LEMMA PoliciesStep ==
  ASSUME PoliciesTypeOK, [Next]_vars
  PROVE  PoliciesTypeOK' /\ policyNo <= policyNo'
<1> USE PoliciesAssumption DEF PoliciesTypeOK, Policy, PolicyIds
<1>1. CASE ~Change
  BY <1>1, OthersKeepSetup DEF setup, policyTable, Unique
<1>2. ASSUME NEW priority \in Priorities, NEW default \in BOOLEAN,
             CreatePolicy(priority, default)
      PROVE  PoliciesTypeOK' /\ policyNo <= policyNo'
  <2>1. \A p \in policies : p.id # policyNo + 1  OBVIOUS
  <2>2. Unique(policies)'  BY <1>2 DEF CreatePolicy, Unique
  <2>3. \A p, q \in policies' : p.id = q.id => p = q
    BY <1>2, <2>1 DEF CreatePolicy
  <2>4. policies' \subseteq Policy'  BY <1>2 DEF CreatePolicy
  <2> QED  BY <1>2, <2>2, <2>3, <2>4 DEF CreatePolicy
<1>3. ASSUME NEW p \in policies, UpdatePolicy(p, ~p.default)
      PROVE  PoliciesTypeOK' /\ policyNo <= policyNo'
  <2> DEFINE new == [p EXCEPT !.default = ~p.default]
  <2>1. new \in Policy /\ new.id = p.id
    <3>1. p \in Policy  OBVIOUS
    <3> QED  BY <3>1
  <2>2. policies' = (policies \ {p}) \cup {new} /\ policyNo' = policyNo
    BY <1>3 DEF UpdatePolicy
  <2>3. Unique(policies)'  BY <1>3 DEF UpdatePolicy, Unique
  <2> HIDE DEF new
  <2>4. \A q, s \in policies' : q.id = s.id => q = s  BY <2>1, <2>2
  <2> QED  BY <2>1, <2>2, <2>3, <2>4
<1>4. ASSUME NEW p \in policies, DeletePolicy(p)
      PROVE  PoliciesTypeOK' /\ policyNo <= policyNo'
  BY <1>4 DEF DeletePolicy, Unique
<1>5. CASE ChangeRosters /\ Change
  BY <1>5 DEF ChangeRosters, policyTable, Unique
<1> QED  BY <1>1, <1>2, <1>3, <1>4, <1>5 DEF Change, ChangePolicies

-----------------------------------------------------------------------------
(* The handler's record.                                                   *)

(* A change by someone else leaves the handler at its step, with what it   *)
(* has read, and adds to the histories what the change brings about.       *)
LEMMA ObserveKeeps ==
  ASSUME job \in JobRecord, Observe
  PROVE  /\ job'.step = job.step /\ job'.ticket = job.ticket
         /\ job'.group = job.group /\ job'.policy = job.policy
         /\ job'.roster = job.roster /\ job'.email = job.email
         /\ job.named \subseteq job'.named /\ job.seen \subseteq job'.seen
         /\ ~At("idle") =>
              /\ RostersFor(mappings', job.group) \subseteq job'.named
              /\ OnCall(duty', job'.named) \subseteq job'.seen
              /\ job'.covered <=>
                   job.covered /\ Covered(mappings', duty', indexed, job.group, job'.named)
<1>1. CASE At("idle")
  BY <1>1 DEF Observe
<1>2. CASE ~At("idle")
  <2> DEFINE named == job.named \cup RostersFor(mappings', job.group)
             seen == job.seen \cup OnCall(duty', named)
             covered == job.covered /\ Covered(mappings', duty', indexed, job.group, named)
  <2>1. job' = [job EXCEPT !.named = named, !.seen = seen, !.covered = covered]
    BY <1>2 DEF Observe
  <2> HIDE DEF named, seen, covered
  <2>2. /\ job'.named = named /\ job'.seen = seen /\ job'.covered = covered
        /\ job'.step = job.step /\ job'.ticket = job.ticket
        /\ job'.group = job.group /\ job'.policy = job.policy
        /\ job'.roster = job.roster /\ job'.email = job.email
    BY <2>1 DEF JobRecord
  <2>3. RostersFor(mappings', job.group) \subseteq named
    BY DEF named
  <2>4. job.named \subseteq named
    BY DEF named
  <2>5. OnCall(duty', named) \subseteq seen /\ job.seen \subseteq seen
    BY DEF seen
  <2>6. covered <=> job.covered /\ Covered(mappings', duty', indexed, job.group, named)
    BY DEF covered
  <2> QED  BY <2>2, <2>3, <2>4, <2>5, <2>6
<1> QED  BY <1>1, <1>2

(* An observed change leaves a record of the right type.                   *)
LEMMA ObserveTyped ==
  ASSUME job \in JobRecord, job.step = "idle" => job = NoJob, Observe,
         mappings' \subseteq Mapping, duty' \in [Rosters -> Emails \cup {Nobody}]
  PROVE  job' \in JobRecord /\ (job'.step = "idle" => job' = NoJob)
<1>1. CASE At("idle")
  BY <1>1 DEF Observe
<1>2. CASE ~At("idle")
  <2> DEFINE named == job.named \cup RostersFor(mappings', job.group)
             seen == job.seen \cup OnCall(duty', named)
             covered == job.covered /\ Covered(mappings', duty', indexed, job.group, named)
  <2>1. job' = [job EXCEPT !.named = named, !.seen = seen, !.covered = covered]
    BY <1>2 DEF Observe
  <2>2. named \in SUBSET Rosters
    BY DEF JobRecord, RostersFor, Enabled, Mapping
  <2>3. seen \in SUBSET Emails
    BY <2>2 DEF JobRecord, OnCall
  <2>4. covered \in BOOLEAN
    BY DEF JobRecord, Covered
  <2> HIDE DEF named, seen, covered
  <2> QED  BY <1>2, <2>1, <2>2, <2>3, <2>4 DEF JobRecord, At
<1> QED  BY <1>1, <1>2

(* A handler that turns to a ticket has its histories up to date.          *)
LEMMA BeginTyped ==
  ASSUME NEW step \in Steps \ {"idle", "search", "owner"}, NEW t \in Tickets,
         NEW group \in Groups \cup {NoGroup}, Begin(step, t, group),
         mappings \subseteq Mapping, duty \in [Rosters -> Emails \cup {Nobody}]
  PROVE  /\ job' \in JobRecord
         /\ job'.step = step /\ job'.ticket = t /\ job'.group = group
         /\ job'.policy = 0
         /\ RostersFor(mappings, job'.group) \subseteq job'.named
         /\ OnCall(duty, job'.named) \subseteq job'.seen
         /\ job'.covered <=> Covered(mappings, duty, indexed, job'.group, job'.named)
<1> DEFINE named == RostersFor(mappings, group)
           seen == OnCall(duty, named)
           covered == Covered(mappings, duty, indexed, group, named)
<1>1. job' = [step |-> step, ticket |-> t, group |-> group, policy |-> 0,
              roster |-> Nobody, email |-> Nobody, named |-> named,
              seen |-> seen, covered |-> covered]
  BY DEF Begin, NoJob
<1>2. named \in SUBSET Rosters
  BY DEF RostersFor, Enabled, Mapping
<1>3. seen \in SUBSET Emails
  BY <1>2 DEF OnCall
<1>3a. covered \in BOOLEAN
  BY DEF Covered
<1> HIDE DEF named, seen, covered
<1>4. job' \in JobRecord
  BY <1>1, <1>2, <1>3, <1>3a DEF JobRecord
<1> QED  BY <1>1, <1>4 DEF named, seen, covered

-----------------------------------------------------------------------------
(* Type correctness.                                                       *)

(* A request keeps the types.                                              *)
LEMMA RequestTyped ==
  ASSUME TypeOK, Places, NEW r \in Requests, Step(r)
  PROVE  TypeOK' /\ Places'
<1> USE NoTicketIsNone, AssignAssumption
        DEF TypeOK, Places, setup, policyTable, rosters, accounts, zammad, tables,
            request, PoliciesTypeOK, AssignTypeOK, PolicyIds, Policy, Unique, At
<1>1. CASE Search(r)  BY <1>1 DEF Search, GoTo
<1>2. CASE CreateUser(r)  BY <1>2 DEF CreateUser, GoTo
<1>3. CASE CreateUserFails(r)  BY <1>3 DEF CreateUserFails, GoTo
<1>4. CASE SearchAgain(r)  BY <1>4 DEF SearchAgain, Respond
<1>5. ASSUME NEW t \in Tickets, CreateTicket(r, t) PROVE TypeOK' /\ Places'
  BY <1>5 DEF CreateTicket, NewTicket, NextTicket, GoTo
<1>6. ASSUME NEW t \in Tickets, CreateTicketUnheard(r, t) PROVE TypeOK' /\ Places'
  BY <1>6 DEF CreateTicketUnheard, NewTicket, NextTicket
<1>7. CASE CallFails(r)  BY <1>7 DEF CallFails, Respond
<1>8. CASE RecordTicket(r)  BY <1>8 DEF RecordTicket, Respond, EnsureMeta
<1>9. CASE RecordTicketFails(r)  BY <1>9 DEF RecordTicketFails, Respond
<1> QED  BY <1>1, <1>2, <1>3, <1>4, <1>5, <1>6, <1>7, <1>8, <1>9 DEF Step

(* What TypeOK and Places say of the handler's record.                     *)
JobOK ==
  /\ job \in JobRecord
  /\ At("idle") => job = NoJob
  /\ At("search") \/ At("owner") => job.email \in Emails
  /\ job.ticket \in created \cup {NoTicket} /\ job.policy \in PolicyIds \cup {0}
  /\ ~At("idle") => job.ticket \in created
  /\ At("oncall") => job.roster \in job.named

(* The types of all else, once the record's and the policies' are known.   *)
Others ==
  /\ PoliciesTypeOK
  /\ mappings \subseteq Mapping
  /\ \A m, n \in mappings : m.group = n.group => m = n
  /\ duty \in [Rosters -> Emails \cup {Nobody}]
  /\ owner \in [Tickets -> Emails \cup {Nobody}]
  /\ deleted \subseteq Tickets
  /\ pc \in [Requests -> {"search", "user", "again", "ticket", "meta", "done"}]
  /\ email \in [Requests -> Emails \cup {Nobody}]
  /\ \A r \in Requests : pc[r] \in {"search", "user", "again"} <=> email[r] # Nobody
  /\ ticket \in [Requests -> created \cup {NoTicket}]
  /\ response \in [Requests -> {"none", "created", "failed", "panicked"}]
  /\ \A r \in Requests : pc[r] = "done" <=> response[r] # "none"
  /\ \A r \in Requests :
       pc[r] = "meta" \/ response[r] = "created" => ticket[r] \in created
  /\ users \subseteq Emails /\ indexed \subseteq users
  /\ created \subseteq Tickets
  /\ events \subseteq created /\ deleted \subseteq created
  /\ meta \in [Tickets -> {Absent, NoPolicy} \cup PolicyIds]
  /\ tracked \subseteq created /\ lost \subseteq created
  /\ changes \in 0 .. MaxChanges

(* TypeOK and Places in the two parts.                                     *)
LEMMA Parts == TypeOK /\ Places <=> JobOK /\ Others
  BY DEF TypeOK, Places, JobOK, Others, AssignTypeOK, JobRecord, At

(* The same after a step.                                                  *)
LEMMA PartsAfter == (TypeOK /\ Places)' <=> (JobOK /\ Others)'
  BY DEF TypeOK, Places, JobOK, Others, AssignTypeOK, JobRecord, At

(* The handler's steps keep the types.                                     *)
LEMMA HandlerTyped ==
  ASSUME TypeOK, Places, HistoryKept, Handler
  PROVE  TypeOK' /\ Places'
<1> SUFFICES JobOK' /\ Others'
  BY PartsAfter
<1>0. JobOK /\ Others
  BY Parts
<1> USE <1>0, NoTicketIsNone, AssignAssumption
        DEF request, accounts, setup, policyTable, rosters, zammad, tables
<1>1. NoJob \in JobRecord /\ NoJob.step = "idle" /\ NoJob.ticket = NoTicket
      /\ NoJob.policy = 0
  BY DEF NoJob, JobRecord, Steps
<1>2. ASSUME Finish, policyNo' = policyNo, created \subseteq created' PROVE JobOK'
  BY <1>1, <1>2 DEF Finish, JobOK, At, PolicyIds
<1>3. ASSUME NEW step \in Steps \ {"idle", "oncall", "search", "owner"}, Proceed(step),
             ~At("idle"), policyNo' = policyNo, created' = created
      PROVE  JobOK'
  BY <1>3 DEF Proceed, JobOK, JobRecord, At, PolicyIds
<1>4. ASSUME NEW t \in Tickets, TakeCreate(t) PROVE JobOK' /\ Others'
  <2>1. JobOK'
    <3>1. GroupOf[t] \in Groups \cup {NoGroup} /\ t \in created
      BY <1>4 DEF TakeCreate, Others
    <3>2. "policy" \in Steps \ {"idle", "search", "owner"}  BY DEF Steps
    <3>3. job' \in JobRecord /\ job'.step = "policy" /\ job'.ticket = t
          /\ job'.policy = 0
      BY <1>4, <3>1, <3>2, BeginTyped DEF TakeCreate, Others
    <3> QED  BY <1>4, <3>1, <3>3 DEF JobOK, At, TakeCreate
  <2>2. Others'
    BY <1>4 DEF TakeCreate, EnsureMeta, Others, PoliciesTypeOK, Unique, PolicyIds, Policy
  <2> QED  BY <2>1, <2>2
<1>5. ASSUME NEW t \in Tickets, AutoTicket(t) PROVE JobOK' /\ Others'
  <2>1. JobOK'
    <3>1. PICK g \in Groups \cup {NoGroup} : Begin("record", t, g)
      BY <1>5 DEF AutoTicket
    <3>2. "record" \in Steps \ {"idle", "search", "owner"}  BY DEF Steps
    <3>3. job' \in JobRecord /\ job'.step = "record" /\ job'.ticket = t
          /\ job'.policy = 0
      BY <1>5, <3>1, <3>2, BeginTyped DEF Others
    <3>4. t \in created'  BY <1>5 DEF AutoTicket, NewTicket
    <3> QED  BY <3>3, <3>4 DEF JobOK, At
  <2>2. Others'
    BY <1>5 DEF AutoTicket, NewTicket, NextTicket, Others, PoliciesTypeOK, Unique,
                PolicyIds, Policy
  <2> QED  BY <2>1, <2>2
<1>6. CASE ReadPolicy
  <2>1. JobOK'
    <3>1. ASSUME NEW p \in DefaultsFor(PriorityOf[job.ticket]),
                 job' = [job EXCEPT !.step = "assign", !.policy = p.id]
          PROVE  JobOK'
      <4>1. p.id \in PolicyIds /\ p.id \in Nat
        BY DEF DefaultsFor, Others, PoliciesTypeOK, Policy, PolicyIds
      <4> QED  BY <1>6, <3>1, <4>1 DEF JobOK, JobRecord, At, ReadPolicy, PolicyIds, Steps
    <3> QED  BY <1>2, <1>6, <3>1 DEF ReadPolicy
  <2>2. Others'
    BY <1>6 DEF ReadPolicy, Others, PoliciesTypeOK, Unique, PolicyIds, Policy
  <2> QED  BY <2>1, <2>2
<1>7. CASE AssignPolicy
  <2>1. JobOK'
    BY <1>2, <1>3, <1>7 DEF AssignPolicy, Steps, At
  <2>2. Others'
    BY <1>7 DEF AssignPolicy, Others, JobOK, PoliciesTypeOK, Unique, PolicyIds, Policy
  <2> QED  BY <2>1, <2>2
<1>8. CASE StartSla
  <2>1. JobOK'
    BY <1>2, <1>3, <1>8 DEF StartSla, Steps, At
  <2>2. Others'
    BY <1>8 DEF StartSla, Others, JobOK, PoliciesTypeOK, Unique, PolicyIds, Policy, At
  <2> QED  BY <2>1, <2>2
<1>9. CASE RecordAutoTicket
  <2>1. JobOK'
    BY <1>2, <1>3, <1>9 DEF RecordAutoTicket, Steps, At
  <2>2. Others'
    BY <1>9 DEF RecordAutoTicket, EnsureMeta, Others, JobOK, PoliciesTypeOK, Unique,
                PolicyIds, Policy, At
  <2> QED  BY <2>1, <2>2
<1>10. CASE HandlerFails
  <2>1. JobOK'
    BY <1>2, <1>10 DEF HandlerFails
  <2>2. Others'
    BY <1>10 DEF HandlerFails, Others, JobOK, PoliciesTypeOK, Unique, PolicyIds, Policy, At
  <2> QED  BY <2>1, <2>2
<1>11. CASE AssignOwner
  <2>1. Others'
    <3>1. owner' \in [Tickets -> Emails \cup {Nobody}]
      BY <1>11 DEF AssignOwner, Assign, ReadMapping, AskOnCall, SearchOwner, SetOwner,
                   Others, JobOK, At
    <3>2. UNCHANGED <<mappings, duty, deleted, indexed>>
      BY <1>11 DEF AssignOwner, Assign, ReadMapping, AskOnCall, SearchOwner, SetOwner
    <3> QED  BY <1>11, <3>1, <3>2
             DEF AssignOwner, Others, PoliciesTypeOK, Unique, PolicyIds, Policy
  <2>2. JobOK'
    <3>1. CASE Finish
      BY <1>2, <1>11, <3>1 DEF AssignOwner
    <3>2. CASE ReadMapping /\ ~Finish
      <4>1. PICK m \in Enabled(mappings, job.group) :
              job' = [job EXCEPT !.step = "oncall", !.roster = m.roster]
        BY <3>2 DEF ReadMapping
      <4>2. m.roster \in Rosters /\ m.roster \in RostersFor(mappings, job.group)
        BY DEF Enabled, RostersFor, Others, Mapping
      <4>3. m.roster \in job.named
        BY <3>2, <4>2 DEF HistoryKept, ReadMapping, At
      <4>4. job' \in JobRecord /\ job'.step = "oncall" /\ job'.roster = m.roster
            /\ job'.named = job.named /\ job'.ticket = job.ticket
            /\ job'.policy = job.policy
        BY <4>1, <4>2 DEF JobOK, JobRecord, Steps
      <4> QED  BY <1>11, <3>2, <4>3, <4>4 DEF JobOK, AssignOwner, ReadMapping, At, PolicyIds
    <3>3. CASE AskOnCall /\ ~Finish
      <4>1. job.roster \in Rosters
        BY <3>3 DEF AskOnCall, JobOK, JobRecord
      <4>2. duty[job.roster] \in Emails
        BY <3>3, <4>1 DEF AskOnCall, Others
      <4>3. job' \in JobRecord /\ job'.step = "search" /\ job'.email \in Emails
            /\ job'.ticket = job.ticket /\ job'.policy = job.policy
        <5> DEFINE onCall == duty[job.roster]
        <5>1. job' = [job EXCEPT !.step = "search", !.email = onCall]
          BY <3>3 DEF AskOnCall
        <5>2. onCall \in Emails
          BY <4>2
        <5> HIDE DEF onCall
        <5> QED  BY <5>1, <5>2 DEF JobOK, JobRecord, Steps
      <4>4. job.step = "oncall"
        BY <3>3 DEF AskOnCall, At
      <4> QED  BY <1>11, <4>3, <4>4 DEF JobOK, AssignOwner, At, PolicyIds
    <3>4. CASE SearchOwner /\ ~Finish
      <4>1. job' \in JobRecord /\ job'.step = "owner" /\ job'.email = job.email
            /\ job'.ticket = job.ticket /\ job'.policy = job.policy
        BY <3>4 DEF SearchOwner, Proceed, JobOK, JobRecord, Steps
      <4> QED  BY <1>11, <3>4, <4>1 DEF JobOK, AssignOwner, SearchOwner, At, PolicyIds
    <3> QED  BY <1>11, <3>1, <3>2, <3>3, <3>4 DEF AssignOwner, Assign, SetOwner
  <2> QED  BY <2>1, <2>2
<1> QED  BY <1>4, <1>5, <1>6, <1>7, <1>8, <1>9, <1>10, <1>11 DEF Handler

(* What a change by someone else may do to mappings, shifts and owners,    *)
(* and that the handler's histories take note of it.                       *)
LEMMA ChangeSteps ==
  ASSUME TypeOK, Places, Change
  PROVE  /\ Observe
         /\ mappings' \subseteq Mapping
         /\ \A m, n \in mappings' : m.group = n.group => m = n
         /\ duty' \in [Rosters -> Emails \cup {Nobody}]
         /\ owner' \in [Tickets -> Emails \cup {Nobody}]
         /\ deleted' \subseteq created
         /\ UNCHANGED <<request, accounts, created, events, tracked, lost>>
         /\ changes' \in 0 .. MaxChanges /\ changes' # changes
<1> USE DEF TypeOK, AssignTypeOK, rosters
<1>1. /\ UNCHANGED <<request, accounts, created, events, tracked, lost>>
      /\ changes' \in 0 .. MaxChanges /\ changes' # changes
  BY CreateAssumption DEF Change
<1>2. CASE ChangePolicies  BY <1>1, <1>2 DEF ChangePolicies
<1>3. ASSUME NEW m \in Mapping, CreateMapping(m) \/ UpdateMapping(m) \/ DeleteMapping(m)
      PROVE  Observe /\ mappings' \subseteq Mapping
             /\ (\A k, n \in mappings' : k.group = n.group => k = n)
             /\ UNCHANGED <<duty, owner, deleted>>
  BY <1>3 DEF CreateMapping, UpdateMapping, DeleteMapping
<1>4. ASSUME NEW s \in Rosters, NEW e \in Emails \cup {Nobody}, ShiftEnds(s, e)
      PROVE  Observe /\ duty' \in [Rosters -> Emails \cup {Nobody}]
             /\ UNCHANGED <<mappings, owner, deleted>>
  BY <1>4 DEF ShiftEnds
<1>5. ASSUME NEW t \in created, DeleteTicket(t)
      PROVE  Observe /\ deleted' \subseteq created /\ UNCHANGED <<rosters, owner>>
  BY <1>5 DEF DeleteTicket
<1>6. ASSUME NEW t \in created, NEW e \in users \cup {Nobody}, UpdateOwner(t, e)
      PROVE  Observe /\ owner' \in [Tickets -> Emails \cup {Nobody}]
             /\ UNCHANGED <<rosters, deleted>>
  BY <1>6 DEF UpdateOwner
<1>7. CASE ChangeRosters
  <2>1. CASE \E m \in Mapping : CreateMapping(m) \/ UpdateMapping(m) \/ DeleteMapping(m)
    BY <1>1, <1>3, <2>1
  <2>2. CASE \E s \in Rosters, e \in Emails \cup {Nobody} : ShiftEnds(s, e)
    BY <1>1, <1>4, <2>2
  <2>3. CASE \E t \in created : DeleteTicket(t)
    BY <1>1, <1>5, <2>3
  <2>4. CASE \E t \in created, e \in users \cup {Nobody} : UpdateOwner(t, e)
    BY <1>1, <1>6, <2>4
  <2> QED  BY <1>7, <2>1, <2>2, <2>3, <2>4 DEF ChangeRosters
<1> QED  BY <1>2, <1>7 DEF Change

(* What a change by someone else does to ticket_meta: nothing, and each    *)
(* policy keeps its number and priority; or it clears the policy that is   *)
(* deleted.                                                                *)
LEMMA ChangeMeta ==
  ASSUME TypeOK, Change
  PROVE  \/ /\ UNCHANGED meta
            /\ \A p \in policies :
                 \E q \in policies' : q.id = p.id /\ q.priority = p.priority
         \/ \E p \in policies :
              /\ policies' = policies \ {p} /\ policyNo' = policyNo
              /\ meta' = [t \in Tickets |-> IF meta[t] = p.id THEN NoPolicy ELSE meta[t]]
<1> USE DEF TypeOK, PoliciesTypeOK, Policy, PolicyIds
<1>1. ASSUME NEW priority \in Priorities, NEW default \in BOOLEAN,
             CreatePolicy(priority, default)
      PROVE  policies \subseteq policies'
  BY <1>1 DEF CreatePolicy
<1>2. ASSUME NEW q \in policies, UpdatePolicy(q, ~q.default), NEW p \in policies
      PROVE  \E s \in policies' : s.id = p.id /\ s.priority = p.priority
  <2> DEFINE b == ~q.default
             new == [q EXCEPT !.default = b]
  <2>1. policies' = (policies \ {q}) \cup {new}
    BY <1>2 DEF UpdatePolicy
  <2> HIDE DEF b
  <2>2. new.id = q.id /\ new.priority = q.priority
    <3>1. q \in Policy  OBVIOUS
    <3> QED  BY <3>1
  <2> HIDE DEF new
  <2> QED  BY <2>1, <2>2
<1>3. CASE ChangeRosters
  BY <1>3 DEF ChangeRosters, policyTable
<1>4. CASE ChangePolicies
  BY <1>1, <1>2, <1>4 DEF ChangePolicies, DeletePolicy
<1> QED  BY <1>3, <1>4 DEF Change

(* A policy that is there after a change was there before it, if it is not *)
(* a new one, and no ticket has lost it.                                   *)
LEMMA ChangeKeeps ==
  ASSUME TypeOK, Change, NEW i \in PolicyIds, NEW s \in policies', s.id = i
  PROVE  /\ \E q \in policies : q.id = i
         /\ \A t \in Tickets : meta[t] = i => meta'[t] = i
<1> USE DEF TypeOK, PoliciesTypeOK, Policy, PolicyIds
<1>1. ASSUME NEW priority \in Priorities, NEW default \in BOOLEAN,
             CreatePolicy(priority, default)
      PROVE  \E q \in policies : q.id = i
  BY <1>1 DEF CreatePolicy
<1>2. ASSUME NEW q \in policies, UpdatePolicy(q, ~q.default)
      PROVE  \E p \in policies : p.id = i
  <2> DEFINE b == ~q.default
             new == [q EXCEPT !.default = b]
  <2>1. policies' = (policies \ {q}) \cup {new}
    BY <1>2 DEF UpdatePolicy
  <2> HIDE DEF b
  <2>2. new.id = q.id
    <3>1. q \in Policy  OBVIOUS
    <3> QED  BY <3>1
  <2> HIDE DEF new
  <2> QED  BY <2>1, <2>2
<1>3. CASE ChangeRosters
  BY <1>3 DEF ChangeRosters, policyTable
<1>4. ASSUME NEW p \in policies, DeletePolicy(p)
      PROVE  s \in policies /\ p.id # i
  BY <1>4 DEF DeletePolicy
<1>5. CASE ChangePolicies
  BY <1>1, <1>2, <1>4, <1>5 DEF ChangePolicies
<1> QED  BY <1>3, <1>5 DEF Change

(* Changes by others keep the types.                                       *)
LEMMA ChangeTyped ==
  ASSUME TypeOK, Places, Change
  PROVE  TypeOK' /\ Places'
<1>1. PoliciesTypeOK' /\ policyNo <= policyNo'
  BY PoliciesStep DEF TypeOK, Next
<1>2. JobOK /\ Others
  BY Parts
<1>3. PolicyIds \subseteq PolicyIds'
  BY <1>1, <1>2 DEF Others, PoliciesTypeOK, PolicyIds
<1>4. JobOK'
  <2>1. job' \in JobRecord /\ (job'.step = "idle" => job' = NoJob)
    BY <1>2, ChangeSteps, ObserveTyped DEF JobOK, At
  <2>2. /\ job'.step = job.step /\ job'.ticket = job.ticket
        /\ job'.policy = job.policy /\ job'.roster = job.roster
        /\ job'.email = job.email /\ job.named \subseteq job'.named
    BY <1>2, ChangeSteps, ObserveKeeps DEF JobOK
  <2> QED  BY <1>2, <1>3, <2>1, <2>2, ChangeSteps DEF JobOK, At
<1>5. meta' \in [Tickets -> {Absent, NoPolicy} \cup PolicyIds']
  BY <1>2, <1>3, ChangeMeta DEF Others
<1>6. Others'
  BY <1>1, <1>2, <1>5, ChangeSteps DEF Others, request, accounts
<1> QED  BY <1>4, <1>6, PartsAfter

(* Every step keeps the types.                                             *)
LEMMA TypeStep ==
  ASSUME TypeOK, Places, HistoryKept, [Next]_vars
  PROVE  TypeOK' /\ Places'
<1>1. CASE Reindex
  BY <1>1 DEF Reindex, TypeOK, Places, request, zammad, setup, policyTable, rosters,
              tables, PoliciesTypeOK, AssignTypeOK, PolicyIds, Policy, Unique, At
<1>2. CASE UNCHANGED vars
  BY <1>2 DEF vars, TypeOK, Places, request, accounts, zammad, setup, policyTable,
              rosters, tables, PoliciesTypeOK, AssignTypeOK, PolicyIds, Policy,
              Unique, At
<1> QED  BY <1>1, <1>2, RequestTyped, HandlerTyped, ChangeTyped DEF Next

-----------------------------------------------------------------------------
(* The handler.                                                            *)

(* The requests and the search index leave the handler alone, accounts are *)
(* never taken back, and policies of tickets neither given nor withdrawn.  *)
LEMMA RequestKeeps ==
  ASSUME TypeOK, (\E r \in Requests : Step(r)) \/ Reindex \/ UNCHANGED vars
  PROVE  /\ UNCHANGED <<job, owner, deleted, setup, tracked>>
         /\ users \subseteq users' /\ created \subseteq created'
         /\ lost \subseteq lost'
         /\ \A t \in Tickets : meta[t] # Absent => meta'[t] = meta[t]
         /\ \A t \in Tickets : meta[t] = Absent => meta'[t] \in {Absent, NoPolicy}
<1> USE DEF TypeOK, zammad, tables, accounts
<1>1. ASSUME NEW r \in Requests, Step(r)
      PROVE  /\ UNCHANGED <<job, owner, deleted, setup, tracked>>
             /\ users \subseteq users' /\ created \subseteq created'
             /\ lost \subseteq lost'
             /\ \A t \in Tickets : meta[t] # Absent => meta'[t] = meta[t]
             /\ \A t \in Tickets : meta[t] = Absent => meta'[t] \in {Absent, NoPolicy}
  <2>1. CASE RecordTicket(r)
    BY <2>1 DEF RecordTicket, EnsureMeta
  <2>2. CASE ~RecordTicket(r)
    BY <1>1, <2>2 DEF Step, Search, CreateUser, CreateUserFails, SearchAgain,
       CreateTicket, CreateTicketUnheard, NewTicket, CallFails, RecordTicketFails
  <2> QED  BY <2>1, <2>2
<1>2. CASE Reindex  BY <1>2 DEF Reindex
<1>3. CASE UNCHANGED vars  BY <1>3 DEF vars
<1> QED  BY <1>1, <1>2, <1>3

(* The histories stay up to date, and the person in the handler's hands    *)
(* stays one of those they list.                                           *)
LEMMA HistoryStep ==
  ASSUME TypeOK, Places, HistoryKept, [Next]_vars
  PROVE  HistoryKept'
<1>0. JobOK /\ Others
  BY Parts
<1>1. CASE (\E r \in Requests : Step(r)) \/ Reindex \/ UNCHANGED vars
  BY <1>1, RequestKeeps DEF HistoryKept, At, setup, rosters
<1>2. CASE Change
  <2>1. Observe /\ users' = users
    BY <1>2, ChangeSteps DEF accounts
  <2>2. /\ job'.step = job.step /\ job'.group = job.group /\ job'.email = job.email
        /\ job.named \subseteq job'.named /\ job.seen \subseteq job'.seen
        /\ ~At("idle") =>
             /\ RostersFor(mappings', job.group) \subseteq job'.named
             /\ OnCall(duty', job'.named) \subseteq job'.seen
    BY <1>0, <2>1, ObserveKeeps DEF JobOK
  <2> QED  BY <2>1, <2>2 DEF HistoryKept, At
<1>3. CASE Handler
  <2>1. UNCHANGED <<mappings, duty, users>>
    <3>1. CASE AssignOwner
      BY <3>1 DEF AssignOwner, Assign, ReadMapping, AskOnCall, SearchOwner, SetOwner, rosters
    <3>2. CASE ~AssignOwner
      BY <1>3, <3>2 DEF Handler, TakeCreate, AutoTicket, ReadPolicy, AssignPolicy,
         StartSla, RecordAutoTicket, HandlerFails, setup, rosters, accounts
    <3> QED  BY <3>1, <3>2
  <2>2. ASSUME Finish PROVE HistoryKept'
    BY <2>2 DEF Finish, NoJob, HistoryKept, At
  <2>3. ASSUME ~At("idle"), job'.step \notin {"search", "owner"},
               job'.group = job.group, job'.named = job.named, job'.seen = job.seen
        PROVE  HistoryKept'
    BY <2>1, <2>3 DEF HistoryKept, At
  <2>4. ASSUME NEW step \in {"state", "mapping"}, ~At("idle"), Proceed(step)
        PROVE  HistoryKept'
    <3>1. /\ job'.step = step /\ job'.group = job.group
          /\ job'.named = job.named /\ job'.seen = job.seen
      BY <1>0, <2>4 DEF Proceed, JobOK, JobRecord
    <3> QED  BY <2>3, <2>4, <3>1
  <2>5. ASSUME NEW step \in {"policy", "record"}, NEW t \in Tickets,
               NEW group \in Groups \cup {NoGroup}, Begin(step, t, group)
        PROVE  HistoryKept'
    <3>1. step \in Steps \ {"idle", "search", "owner"}  BY DEF Steps
    <3>2. /\ job'.step = step
          /\ RostersFor(mappings, job'.group) \subseteq job'.named
          /\ OnCall(duty, job'.named) \subseteq job'.seen
      BY <1>0, <2>5, <3>1, BeginTyped DEF Others
    <3> QED  BY <2>1, <3>2 DEF HistoryKept, At
  <2>6. ASSUME NEW t \in Tickets, TakeCreate(t) PROVE HistoryKept'
    BY <2>5, <2>6, AssignAssumption DEF TakeCreate
  <2>7. ASSUME NEW t \in Tickets, AutoTicket(t) PROVE HistoryKept'
    BY <2>5, <2>7, AssignAssumption DEF AutoTicket
  <2>8. CASE ReadPolicy
    <3>1. ASSUME NEW p \in DefaultsFor(PriorityOf[job.ticket]),
                 job' = [job EXCEPT !.step = "assign", !.policy = p.id]
          PROVE  HistoryKept'
      <4>1. /\ job'.step = "assign" /\ job'.group = job.group
            /\ job'.named = job.named /\ job'.seen = job.seen
        BY <1>0, <3>1 DEF JobOK, JobRecord
      <4> QED  BY <2>3, <2>8, <4>1 DEF ReadPolicy, At
    <3> QED  BY <2>2, <2>8, <3>1 DEF ReadPolicy
  <2>9. CASE AssignPolicy \/ StartSla \/ RecordAutoTicket
    BY <2>2, <2>4, <2>9 DEF AssignPolicy, StartSla, RecordAutoTicket, At
  <2>10. CASE HandlerFails
    BY <2>2, <2>10 DEF HandlerFails
  <2>11. CASE ReadMapping /\ ~Finish
    <3>1. PICK m \in Enabled(mappings, job.group) :
            job' = [job EXCEPT !.step = "oncall", !.roster = m.roster]
      BY <2>11 DEF ReadMapping
    <3>2. /\ job'.step = "oncall" /\ job'.group = job.group
          /\ job'.named = job.named /\ job'.seen = job.seen
      BY <1>0, <3>1 DEF JobOK, JobRecord
    <3> QED  BY <2>3, <2>11, <3>2 DEF ReadMapping, At
  <2>12. CASE AskOnCall /\ ~Finish
    <3> DEFINE onCall == duty[job.roster]
    <3>1. job' = [job EXCEPT !.step = "search", !.email = onCall] /\ onCall # Nobody
      BY <2>12 DEF AskOnCall
    <3>2. job.roster \in job.named /\ ~At("idle")
      BY <1>0, <2>12 DEF JobOK, AskOnCall, At
    <3>3. onCall \in job.seen
      BY <3>1, <3>2 DEF HistoryKept, OnCall
    <3> HIDE DEF onCall
    <3>4. /\ job'.step = "search" /\ job'.group = job.group /\ job'.email = onCall
          /\ job'.named = job.named /\ job'.seen = job.seen
      BY <1>0, <3>1 DEF JobOK, JobRecord
    <3> QED  BY <2>1, <3>2, <3>3, <3>4 DEF HistoryKept, At
  <2>13. CASE SearchOwner /\ ~Finish
    <3>1. /\ job'.step = "owner" /\ job'.group = job.group /\ job'.email = job.email
          /\ job'.named = job.named /\ job'.seen = job.seen
      BY <1>0, <2>13 DEF SearchOwner, Proceed, JobOK, JobRecord
    <3>2. job.email \in users /\ At("search")
      BY <1>0, <2>13 DEF SearchOwner, Others
    <3> QED  BY <2>1, <3>1, <3>2 DEF HistoryKept, At
  <2>14. CASE AssignOwner
    BY <2>2, <2>11, <2>12, <2>13, <2>14 DEF AssignOwner, Assign, SetOwner
  <2> QED  BY <1>3, <2>6, <2>7, <2>8, <2>9, <2>10, <2>14 DEF Handler
<1> QED  BY <1>1, <1>2, <1>3 DEF Next

-----------------------------------------------------------------------------
(* Policies of tickets.                                                    *)

(* The handler gives a ticket a policy only in AssignPolicy, and takes     *)
(* none away.                                                              *)
LEMMA HandlerMeta ==
  ASSUME TypeOK, Handler
  PROVE  /\ UNCHANGED policyTable
         /\ tracked \subseteq tracked' /\ lost \subseteq lost'
         /\ \A t \in Tickets :
              \/ meta'[t] = meta[t]
              \/ meta[t] = Absent /\ meta'[t] = NoPolicy
              \/ AssignPolicy /\ job.ticket = t /\ meta'[t] = job.policy
                 /\ \E p \in policies : p.id = job.policy
<1> USE DEF TypeOK, tables, setup, policyTable
<1>1. CASE AssignPolicy
  <2>1. UNCHANGED <<policies, policyNo, tracked, lost>>
    BY <1>1 DEF AssignPolicy
  <2>2. \/ meta' = meta
        \/ /\ meta' = [meta EXCEPT ![job.ticket] = job.policy]
           /\ \E p \in policies : p.id = job.policy
    BY <1>1 DEF AssignPolicy
  <2> QED  BY <1>1, <2>1, <2>2
<1>2. ASSUME NEW t \in Tickets, TakeCreate(t)
      PROVE  /\ UNCHANGED <<policies, policyNo, tracked, lost>>
             /\ \A u \in Tickets :
                  \/ meta'[u] = meta[u]
                  \/ meta[u] = Absent /\ meta'[u] = NoPolicy
  <2>1. UNCHANGED <<policies, policyNo, tracked, lost>>
    BY <1>2 DEF TakeCreate
  <2>2. EnsureMeta(t)
    BY <1>2 DEF TakeCreate
  <2> QED  BY <2>1, <2>2 DEF EnsureMeta
<1>3. CASE RecordAutoTicket
  BY <1>3 DEF RecordAutoTicket, EnsureMeta
<1>4. CASE HandlerFails
  BY <1>4 DEF HandlerFails
<1>5. CASE AssignOwner
  BY <1>5 DEF AssignOwner
<1>6. CASE (\E t \in Tickets : AutoTicket(t)) \/ ReadPolicy \/ StartSla
  BY <1>6 DEF AutoTicket, ReadPolicy, StartSla
<1> QED  BY <1>1, <1>2, <1>3, <1>4, <1>5, <1>6 DEF Handler

(* A change of the policies neither renames a policy's priority nor uses   *)
(* the number of one that has been deleted.                                *)
LEMMA PoliciesKeep ==
  ASSUME PoliciesTypeOK, Change
  PROVE  \A p \in policies' :
           \/ \E q \in policies : q.id = p.id /\ q.priority = p.priority
           \/ p.id = policyNo + 1
<1> USE DEF PoliciesTypeOK, Policy, PolicyIds
<1>1. ASSUME NEW priority \in Priorities, NEW default \in BOOLEAN,
             CreatePolicy(priority, default), NEW p \in policies'
      PROVE  p \in policies \/ p.id = policyNo + 1
  BY <1>1 DEF CreatePolicy
<1>2. ASSUME NEW q \in policies, UpdatePolicy(q, ~q.default), NEW p \in policies'
      PROVE  p \in policies \/ (q.id = p.id /\ q.priority = p.priority)
  <2> DEFINE b == ~q.default
  <2>1. q \in Policy  OBVIOUS
  <2>2. p \in policies \/ p = [q EXCEPT !.default = b]
    BY <1>2 DEF UpdatePolicy
  <2> HIDE DEF b
  <2> QED  BY <2>1, <2>2
<1>3. ASSUME NEW q \in policies, DeletePolicy(q)
      PROVE  policies' \subseteq policies
  BY <1>3 DEF DeletePolicy
<1>4. CASE ChangeRosters
  BY <1>4 DEF ChangeRosters, policyTable
<1>5. CASE ChangePolicies
  BY <1>1, <1>2, <1>3, <1>5 DEF ChangePolicies
<1> QED  BY <1>4, <1>5 DEF Change

(* PolicyFits and what the handler holds are kept together.                *)
LEMMA FitsStep ==
  ASSUME TypeOK, Places, HistoryKept, PolicyFits, PolicyInHandFits, [Next]_vars
  PROVE  PolicyFits' /\ PolicyInHandFits'
<1>0. JobOK /\ Others /\ JobOK' /\ Others'
  BY Parts, PartsAfter, TypeStep
<1> USE <1>0 DEF PolicyFits, PolicyInHandFits
<1>1. CASE (\E r \in Requests : Step(r)) \/ Reindex \/ UNCHANGED vars
  <2>1. /\ UNCHANGED <<job, policies, policyNo>>
        /\ \A t \in Tickets : meta'[t] \in PolicyIds => meta[t] = meta'[t]
    BY <1>1, RequestKeeps DEF setup, policyTable, Others, PolicyIds, NoPolicy, Absent,
       PoliciesTypeOK
  <2> QED  BY <2>1 DEF At, PolicyIds
<1>2. CASE Handler
  <2>1. UNCHANGED <<policies, policyNo>>
    BY <1>2, HandlerMeta DEF policyTable
  <2>2. PolicyFits'
    <3> SUFFICES ASSUME NEW t \in Tickets, meta'[t] \in PolicyIds
                 PROVE  \E p \in policies : p.id = meta'[t] /\ p.priority = PriorityOf[t]
      BY <2>1 DEF PolicyIds
    <3>1. CASE meta'[t] = meta[t]  BY <3>1
    <3>2. CASE meta'[t] = NoPolicy
      BY <3>2 DEF NoPolicy, PolicyIds
    <3>3. CASE AssignPolicy /\ job.ticket = t /\ meta'[t] = job.policy
               /\ \E p \in policies : p.id = job.policy
      BY <3>3 DEF AssignPolicy
    <3> QED  BY <1>2, <3>1, <3>2, <3>3, HandlerMeta
  <2>3. PolicyInHandFits'
    <3>1. CASE ReadPolicy /\ ~Finish
      <4>1. PICK p \in DefaultsFor(PriorityOf[job.ticket]) :
              job' = [job EXCEPT !.step = "assign", !.policy = p.id]
        BY <3>1 DEF ReadPolicy
      <4>2. job'.policy = p.id /\ job'.ticket = job.ticket
        BY <4>1 DEF JobOK, JobRecord
      <4>3. p \in policies /\ p.priority = PriorityOf[job.ticket]
        BY DEF DefaultsFor
      <4> QED  BY <2>1, <4>2, <4>3 DEF Others, PoliciesTypeOK
    <3>2. ASSUME NEW step \in Steps \ {"assign"}, Proceed(step) PROVE ~At("assign")'
      BY <3>2 DEF Proceed, At, JobOK, JobRecord
    <3>3. ASSUME Finish PROVE ~At("assign")'
      BY <3>3 DEF Finish, NoJob, At
    <3>4. ASSUME NEW step \in {"policy", "record"}, NEW t \in Tickets,
                 NEW g \in Groups \cup {NoGroup}, Begin(step, t, g)
          PROVE  ~At("assign")'
      BY <3>4 DEF Begin, NoJob, At
    <3>5. ASSUME NEW t \in Tickets, TakeCreate(t) \/ AutoTicket(t) PROVE ~At("assign")'
      BY <3>4, <3>5, AssignAssumption DEF TakeCreate, AutoTicket
    <3>6. CASE AssignPolicy \/ StartSla \/ RecordAutoTicket \/ HandlerFails
      BY <3>2, <3>3, <3>6 DEF AssignPolicy, StartSla, RecordAutoTicket, HandlerFails, Steps
    <3>7. CASE AssignOwner
      <4>1. CASE ReadMapping \/ AskOnCall
        BY <3>3, <4>1 DEF ReadMapping, AskOnCall, JobOK, JobRecord, At
      <4>2. CASE SearchOwner \/ SetOwner
        BY <3>2, <3>3, <4>2 DEF SearchOwner, SetOwner, Steps
      <4> QED  BY <3>7, <4>1, <4>2 DEF AssignOwner, Assign
    <3> QED  BY <1>2, <3>1, <3>3, <3>5, <3>6, <3>7 DEF Handler
  <2> QED  BY <2>2, <2>3
<1>3. CASE Change
  <2>1. job'.step = job.step /\ job'.ticket = job.ticket /\ job'.policy = job.policy
    BY <1>3, ChangeSteps, ObserveKeeps DEF JobOK
  <2>2. PoliciesTypeOK /\ policyNo \in Nat /\ PoliciesTypeOK'
    BY PoliciesAssumption DEF Others, PoliciesTypeOK
  <2>3. PolicyInHandFits'
    BY <1>3, <2>1, <2>2, PoliciesKeep DEF At, JobOK, PolicyIds
  <2>4. PolicyFits'
    <3> SUFFICES ASSUME NEW t \in Tickets, meta'[t] \in PolicyIds'
                 PROVE  \E p \in policies' : p.id = meta'[t] /\ p.priority = PriorityOf[t]
      OBVIOUS
    <3>1. meta'[t] = meta[t]
      BY <1>3, ChangeMeta DEF PolicyIds, NoPolicy
    <3>2. meta[t] \in PolicyIds
      BY <2>2, <3>1 DEF Others, PolicyIds, NoPolicy, Absent
    <3>3. PICK p \in policies : p.id = meta[t] /\ p.priority = PriorityOf[t]
      BY <3>2
    <3>4. ASSUME NEW d \in policies, policies' = policies \ {d},
                 meta' = [u \in Tickets |-> IF meta[u] = d.id THEN NoPolicy ELSE meta[u]]
          PROVE  p \in policies'
      BY <3>1, <3>2, <3>3, <3>4 DEF PolicyIds, NoPolicy
    <3> QED  BY <1>3, <3>1, <3>3, <3>4, ChangeMeta
  <2> QED  BY <2>3, <2>4
<1> QED  BY <1>1, <1>2, <1>3 DEF Next

-----------------------------------------------------------------------------
(* What is recorded and tracked.                                           *)

(* A ticket once recorded stays recorded, and one once lost stays lost.    *)
LEMMA StaysRecorded ==
  ASSUME TypeOK, Places, [Next]_vars
  PROVE  /\ lost \subseteq lost' /\ tracked \subseteq tracked'
         /\ \A t \in Tickets : meta[t] # Absent => meta'[t] # Absent
<1> USE DEF NoPolicy, Absent, PolicyIds
<1>1. CASE (\E r \in Requests : Step(r)) \/ Reindex \/ UNCHANGED vars
  BY <1>1, RequestKeeps
<1>2. CASE Handler
  <2>1. policyNo \in Nat /\ job.policy \in PolicyIds \cup {0}
    BY PoliciesAssumption DEF TypeOK, PoliciesTypeOK
  <2> QED  BY <1>2, <2>1, HandlerMeta
<1>3. CASE Change
  BY <1>3, ChangeMeta, ChangeSteps DEF TypeOK
<1> QED  BY <1>1, <1>2, <1>3 DEF Next

(* A request is answered 201 when it has recorded its ticket or failed to. *)
LEMMA ToldStep ==
  ASSUME TypeOK, Places, ToldIsKnown, [Next]_vars
  PROVE  ToldIsKnown'
<1> SUFFICES ASSUME NEW r \in Requests, response'[r] = "created",
                    meta'[ticket'[r]] = Absent
             PROVE  ticket'[r] \in lost'
  BY DEF ToldIsKnown
<1>1. CASE response[r] = "created" /\ ticket'[r] = ticket[r]
  <2>1. ticket[r] \in Tickets
    BY <1>1 DEF Places, TypeOK
  <2> QED  BY <1>1, <2>1, StaysRecorded DEF ToldIsKnown
<1>2. ASSUME NEW s \in Requests, Step(s), response[r] # "created" \/ ticket'[r] # ticket[r]
      PROVE  ticket'[r] \in lost'
  <2>1. CASE RecordTicket(s)
    <3>1. s = r  BY <1>2, <2>1 DEF RecordTicket, Respond, TypeOK
    <3>2. ticket[r] \in Tickets
      BY <2>1, <3>1 DEF RecordTicket, Places, TypeOK
    <3>3. meta'[ticket[r]] # Absent /\ ticket' = ticket
      BY <2>1, <3>1, <3>2 DEF RecordTicket, EnsureMeta, TypeOK, NoPolicy, Absent
    <3> QED  BY <3>3
  <2>2. CASE RecordTicketFails(s)
    BY <1>2, <2>2 DEF RecordTicketFails, Respond, TypeOK
  <2>3. CASE ~RecordTicket(s) /\ ~RecordTicketFails(s)
    <3>1. response'[r] # "created" \/ (response[r] = "created" /\ ticket'[r] = ticket[r])
      BY <1>2, <2>3 DEF Step, Search, CreateUser, CreateUserFails, SearchAgain,
         CreateTicket, CreateTicketUnheard, CallFails, GoTo, Respond, TypeOK, request
    <3> QED  BY <1>2, <3>1
  <2> QED  BY <2>1, <2>2, <2>3
<1>3. CASE Handler \/ Reindex \/ Change \/ UNCHANGED vars
  <2>1. CASE AssignOwner
    BY <1>1, <2>1 DEF AssignOwner, request
  <2>2. CASE Handler /\ ~AssignOwner
    <3>1. UNCHANGED request
      BY <2>2 DEF Handler, TakeCreate, AutoTicket, ReadPolicy, AssignPolicy,
         StartSla, RecordAutoTicket, HandlerFails
    <3> QED  BY <1>1, <3>1 DEF request
  <2>3. CASE Reindex \/ Change \/ UNCHANGED vars
    BY <1>1, <2>3 DEF Reindex, Change, vars, request
  <2> QED  BY <1>3, <2>1, <2>2, <2>3
<1> QED  BY <1>1, <1>2, <1>3 DEF Next

(* Between AssignPolicy and StartSla the handler is at "state", and leaves *)
(* it with the row or with a ticket that is lost.                          *)
LEMMA TrackedStep ==
  ASSUME TypeOK, Places, AssignedIsTracked, [Next]_vars
  PROVE  AssignedIsTracked'
<1>0. JobOK /\ Others
  BY Parts
<1> SUFFICES ASSUME NEW t \in Tickets, meta'[t] \in PolicyIds',
                    t \notin tracked' \cup lost'
             PROVE  At("state")' /\ job'.ticket = t
  BY DEF AssignedIsTracked
<1> USE DEF PolicyIds, NoPolicy, Absent
<1>1. t \notin tracked \cup lost
  BY StaysRecorded
<1>2. meta[t] \in PolicyIds => At("state") /\ job.ticket = t
  BY <1>1 DEF AssignedIsTracked
<1>3. CASE (\E r \in Requests : Step(r)) \/ Reindex \/ UNCHANGED vars
  <2>1. UNCHANGED <<job, policyNo>> /\ meta'[t] = meta[t]
    BY <1>3, RequestKeeps DEF setup, policyTable
  <2> QED  BY <1>2, <2>1 DEF At
<1>4. CASE Change
  <2>1. meta'[t] = meta[t] /\ meta[t] \in PolicyIds
    BY <1>0, <1>4, ChangeMeta DEF Others
  <2>2. job'.step = job.step /\ job'.ticket = job.ticket
    BY <1>0, <1>4, ChangeSteps, ObserveKeeps DEF JobOK
  <2> QED  BY <1>2, <2>1, <2>2 DEF At
<1>5. CASE Handler
  <2>1. UNCHANGED policyNo
    BY <1>5, HandlerMeta DEF policyTable
  <2>2. CASE AssignPolicy /\ job.ticket = t /\ meta'[t] = job.policy
             /\ \E p \in policies : p.id = job.policy
    <3>1. job' = [job EXCEPT !.step = "state"]
      BY <2>2 DEF AssignPolicy, Proceed
    <3> QED  BY <1>0, <2>2, <3>1 DEF JobOK, JobRecord, At
  <2>3. CASE meta'[t] = meta[t]
    <3>1. At("state") /\ job.ticket = t  BY <1>2, <2>1, <2>3
    <3>2. ~StartSla
      BY <3>1 DEF StartSla
    <3>3. ~HandlerFails
      BY <3>1 DEF HandlerFails
    <3> QED  BY <1>5, <3>1, <3>2, <3>3 DEF Handler, TakeCreate, AutoTicket, Begin,
             ReadPolicy, AssignPolicy, RecordAutoTicket, AssignOwner, Assign,
             ReadMapping, AskOnCall, SearchOwner, SetOwner, At
  <2> QED  BY <1>5, <2>1, <2>2, <2>3, HandlerMeta
<1> QED  BY <1>3, <1>4, <1>5 DEF Next

-----------------------------------------------------------------------------
(* What is lost when nothing goes wrong: nothing.                          *)

(* A ticket without a group has nobody on call.                            *)
LEMMA NoGroupNoRoster ==
  ASSUME Others
  PROVE  RostersFor(mappings, NoGroup) = {}
  BY AssignAssumption DEF Others, RostersFor, Enabled, Mapping

(* Nothing takes away what the handler has written, but the deletion of    *)
(* the policy, and what is covered is found.                               *)
LEMMA HandlingStep ==
  ASSUME TypeOK, Places, HistoryKept, HandlingKept, [Next]_vars
  PROVE  HandlingKept'
<1>0. JobOK /\ Others /\ JobOK' /\ Others'
  BY Parts, PartsAfter, TypeStep
<1>1. CASE (\E r \in Requests : Step(r)) \/ Reindex \/ UNCHANGED vars
  <2>1. UNCHANGED <<job, policies, mappings, duty, tracked>>
    BY <1>1, RequestKeeps DEF setup, policyTable, rosters
  <2>2. indexed \subseteq indexed'
    BY <1>0, <1>1 DEF Step, Search, CreateUser, CreateUserFails, SearchAgain, CreateTicket,
       CreateTicketUnheard, CallFails, RecordTicket, RecordTicketFails, Reindex, vars,
       accounts, Others
  <2>3. ~At("idle") /\ meta[job.ticket] # Absent => meta'[job.ticket] = meta[job.ticket]
    BY <1>0, <1>1, RequestKeeps DEF JobOK, Others
  <2>4. job.policy # Absent
    BY <1>0 DEF JobOK, JobRecord, Absent
  <2>5. Covered(mappings, duty, indexed, job.group, job.named)
          => Covered(mappings', duty', indexed', job'.group, job'.named)
    BY <2>1, <2>2 DEF Covered
  <2> SUFFICES ASSUME ~At("idle") PROVE HandlingKept'
    BY <2>1 DEF HandlingKept, At
  <2>6. /\ At("policy")' \/ At("record")' => job'.policy = 0
        /\ job'.covered => /\ Covered(mappings', duty', indexed', job'.group, job'.named)
                           /\ At("search")' => job'.email \in indexed'
    BY <2>1, <2>2, <2>5 DEF HandlingKept, At
  <2>7. (\E p \in policies' : p.id = job'.policy) /\ ~At("assign")' =>
          meta'[job'.ticket] = job'.policy
          /\ (~At("state")' => job'.ticket \in tracked')
    BY <2>1, <2>3, <2>4 DEF HandlingKept, At
  <2> QED  BY <2>6, <2>7 DEF HandlingKept
<1>2. CASE Change
  <2>1. CASE At("idle")
    BY <1>2, <2>1, ChangeSteps DEF HandlingKept, At, Observe
  <2>2. CASE ~At("idle")
    <3>1. Observe /\ UNCHANGED <<tracked, indexed>>
      BY <1>2, ChangeSteps DEF Change, accounts
    <3>2. /\ job'.step = job.step /\ job'.ticket = job.ticket
          /\ job'.group = job.group /\ job'.policy = job.policy
          /\ job'.email = job.email
          /\ job'.covered <=>
               job.covered /\ Covered(mappings', duty', indexed, job.group, job'.named)
      BY <1>0, <2>2, <3>1, ObserveKeeps DEF JobOK
    <3>3. Covered(mappings', duty', indexed, job.group, job'.named)
            => Covered(mappings', duty', indexed', job'.group, job'.named)
      BY <3>1, <3>2 DEF Covered
    <3>4. ASSUME NEW p \in policies', p.id = job.policy, ~At("assign")
          PROVE  meta'[job.ticket] = job.policy
                 /\ (~At("state") => job.ticket \in tracked)
      <4>1. job.policy \in PolicyIds /\ job.ticket \in Tickets
        BY <1>0, <2>2, <3>4, NoTicketIsNone
           DEF JobOK, Others, PoliciesTypeOK, Policy, PolicyIds
      <4>2. \E q \in policies : q.id = job.policy
        BY <1>2, <3>4, <4>1, ChangeKeeps
      <4>3. meta[job.ticket] = job.policy /\ (~At("state") => job.ticket \in tracked)
        BY <2>2, <3>4, <4>2 DEF HandlingKept
      <4> QED  BY <1>2, <3>4, <4>1, <4>3, ChangeKeeps
    <3>5. At("policy")' \/ At("record")' => job'.policy = 0
      BY <2>2, <3>2 DEF HandlingKept, At
    <3>6. (\E p \in policies' : p.id = job'.policy) /\ ~At("assign")' =>
            meta'[job'.ticket] = job'.policy
            /\ (~At("state")' => job'.ticket \in tracked')
      BY <3>1, <3>2, <3>4 DEF At
    <3>7. job'.covered => Covered(mappings', duty', indexed', job'.group, job'.named)
                             /\ (At("search")' => job'.email \in indexed')
      BY <2>2, <3>1, <3>2, <3>3 DEF HandlingKept, At
    <3> QED  BY <3>5, <3>6, <3>7 DEF HandlingKept
  <2> QED  BY <2>1, <2>2
<1>3. CASE Handler
  <2>1. ASSUME Finish PROVE HandlingKept'
    BY <2>1 DEF Finish, NoJob, HandlingKept, At
  <2>2. UNCHANGED <<policies, mappings, duty, indexed>>
    <3>1. CASE AssignOwner
      BY <3>1 DEF AssignOwner, Assign, ReadMapping, AskOnCall, SearchOwner, SetOwner,
                  rosters, policyTable
    <3>2. CASE ~AssignOwner
      BY <1>3, <3>2 DEF Handler, TakeCreate, AutoTicket, ReadPolicy, AssignPolicy,
         StartSla, RecordAutoTicket, HandlerFails, setup, rosters, accounts, policyTable
    <3> QED  BY <3>1, <3>2
  <2>3. \A p \in policies : p.id # 0
    BY <1>0 DEF Others, PoliciesTypeOK, Policy, PolicyIds
  <2>4. ASSUME NEW step \in {"policy", "record"}, NEW t \in Tickets,
               NEW group \in Groups \cup {NoGroup}, Begin(step, t, group)
        PROVE  HandlingKept'
    <3>1. step \in Steps \ {"idle", "search", "owner"}  BY DEF Steps
    <3>2. job'.step = step /\ job'.policy = 0
          /\ (job'.covered <=> Covered(mappings, duty, indexed, job'.group, job'.named))
      BY <1>0, <2>4, <3>1, BeginTyped DEF Others
    <3>3. Covered(mappings, duty, indexed, job'.group, job'.named)
            => Covered(mappings', duty', indexed', job'.group, job'.named)
      BY <2>2 DEF Covered
    <3> QED  BY <2>2, <2>3, <3>2, <3>3 DEF HandlingKept, At
  <2>5. ASSUME NEW t \in Tickets, TakeCreate(t) \/ AutoTicket(t) PROVE HandlingKept'
    BY <2>4, <2>5, AssignAssumption DEF TakeCreate, AutoTicket
  <2>6. ASSUME job'.group = job.group, job'.named = job.named, job'.covered = job.covered,
               ~At("idle"), job'.step \notin {"idle", "policy", "record"},
               (\E p \in policies : p.id = job'.policy) /\ ~At("assign")' =>
                 meta'[job'.ticket] = job'.policy
                 /\ (~At("state")' => job'.ticket \in tracked'),
               job.covered /\ At("search")' => job'.email \in indexed
        PROVE  HandlingKept'
    <3>1. Covered(mappings, duty, indexed, job.group, job.named)
            => Covered(mappings', duty', indexed', job'.group, job'.named)
      BY <2>2, <2>6 DEF Covered
    <3> QED  BY <2>2, <2>6, <3>1 DEF HandlingKept, At
  <2>7. CASE ReadPolicy /\ ~Finish
    <3>1. PICK p \in DefaultsFor(PriorityOf[job.ticket]) :
            job' = [job EXCEPT !.step = "assign", !.policy = p.id]
      BY <2>7 DEF ReadPolicy
    <3>2. job'.step = "assign" /\ job'.group = job.group /\ job'.named = job.named
          /\ job'.covered = job.covered
      BY <1>0, <3>1 DEF JobOK, JobRecord
    <3> QED  BY <2>6, <2>7, <3>2 DEF ReadPolicy, At
  <2>8. ASSUME NEW step \in {"state", "mapping", "owner"}, Proceed(step)
        PROVE  job'.step = step /\ job'.ticket = job.ticket /\ job'.policy = job.policy
               /\ job'.covered = job.covered /\ job'.group = job.group
               /\ job'.named = job.named /\ job'.email = job.email
    BY <1>0, <2>8 DEF Proceed, JobOK, JobRecord
  <2>9. CASE AssignPolicy /\ ~Finish
    <3>1. meta' = [meta EXCEPT ![job.ticket] = job.policy] /\ Proceed("state")
          /\ At("assign")
      BY <2>9 DEF AssignPolicy
    <3>2. meta'[job.ticket] = job.policy
      BY <1>0, <3>1 DEF JobOK, Others, At
    <3> QED  BY <2>6, <2>8, <3>1, <3>2 DEF At
  <2>10. CASE StartSla /\ ~Finish
    <3>1. tracked' = tracked \cup {job.ticket} /\ meta' = meta /\ Proceed("mapping")
          /\ At("state")
      BY <2>10 DEF StartSla
    <3> QED  BY <2>6, <2>8, <3>1 DEF HandlingKept, At
  <2>11. CASE RecordAutoTicket /\ ~Finish
    <3>1. At("record") /\ Proceed("mapping")
      BY <2>11 DEF RecordAutoTicket
    <3>2. job.policy = 0
      BY <3>1 DEF HandlingKept, At
    <3> QED  BY <2>3, <2>6, <2>8, <3>1, <3>2 DEF At
  <2>12. CASE AssignOwner /\ ~Finish
    <3>1. UNCHANGED <<meta, tracked>>
      BY <2>12 DEF AssignOwner, tables
    <3>2. ASSUME job'.step \in {"oncall", "search", "owner"},
                 job.step \in {"mapping", "oncall", "search"},
                 job'.policy = job.policy, job'.ticket = job.ticket,
                 job'.group = job.group, job'.named = job.named,
                 job'.covered = job.covered,
                 job.covered /\ At("search")' => job'.email \in indexed
          PROVE  HandlingKept'
      BY <2>6, <3>1, <3>2 DEF HandlingKept, At
    <3>3. CASE ReadMapping
      <4>1. PICK m \in Enabled(mappings, job.group) :
              job' = [job EXCEPT !.step = "oncall", !.roster = m.roster]
        BY <2>12, <3>3 DEF ReadMapping
      <4>2. /\ job'.step = "oncall" /\ job'.group = job.group /\ job'.named = job.named
            /\ job'.ticket = job.ticket /\ job'.policy = job.policy
            /\ job'.covered = job.covered
        BY <1>0, <4>1 DEF JobOK, JobRecord
      <4> QED  BY <3>2, <3>3, <4>2 DEF ReadMapping, At
    <3>4. CASE AskOnCall
      <4> DEFINE onCall == duty[job.roster]
      <4>1. job' = [job EXCEPT !.step = "search", !.email = onCall] /\ At("oncall")
        BY <2>12, <3>4 DEF AskOnCall
      <4>2. job.covered => onCall \in indexed
        BY <1>0, <4>1 DEF JobOK, HandlingKept, Covered, At
      <4> HIDE DEF onCall
      <4>3. /\ job'.step = "search" /\ job'.email = onCall /\ job'.group = job.group
            /\ job'.ticket = job.ticket /\ job'.policy = job.policy
            /\ job'.named = job.named /\ job'.covered = job.covered
        BY <1>0, <4>1 DEF JobOK, JobRecord
      <4> QED  BY <3>2, <4>1, <4>2, <4>3 DEF At
    <3>5. CASE SearchOwner
      <4>1. At("search") /\ Proceed("owner")
        BY <2>12, <3>5 DEF SearchOwner
      <4> QED  BY <2>8, <3>2, <4>1 DEF At
    <3> QED  BY <2>12, <3>3, <3>4, <3>5 DEF AssignOwner, Assign, SetOwner
  <2> QED  BY <1>3, <2>1, <2>5, <2>7, <2>9, <2>10, <2>11, <2>12 DEF Handler, HandlerFails
<1> QED  BY <1>1, <1>2, <1>3 DEF Next

-----------------------------------------------------------------------------
(* The theorems.                                                           *)

(* At first nothing is created, recorded or in hand, and every policy is   *)
(* the default of its priority.                                            *)
LEMMA InitIInv == Init => IInv
<1> SUFFICES ASSUME Init PROVE IInv
  OBVIOUS
<1> USE PoliciesAssumption, AssignAssumption, CreateAssumption, NoTicketIsNone DEF Init
<1>1. job \in JobRecord /\ At("idle") /\ job.ticket = NoTicket /\ job.policy = 0
  BY DEF NoJob, JobRecord, Steps, At
<1>2. PoliciesTypeOK
  <2> DEFINE row(i) == [id |-> i, priority |-> Seeded[i], default |-> TRUE]
  <2>1. policyNo \in 0 .. MaxPolicies  OBVIOUS
  <2>2. policies = {row(i) : i \in DOMAIN Seeded}  OBVIOUS
  <2>3. \A i \in DOMAIN Seeded : i \in PolicyIds /\ Seeded[i] \in Priorities
    BY DEF PolicyIds
  <2>4. \A i, j \in DOMAIN Seeded : Seeded[i] = Seeded[j] => i = j
    OBVIOUS
  <2> HIDE DEF Init
  <2>5. policies \subseteq Policy
    <3>1. ASSUME NEW i \in DOMAIN Seeded PROVE row(i) \in Policy
      BY <2>3 DEF Policy
    <3> HIDE DEF row
    <3> QED  BY <2>2, <3>1
  <2>6. \A i : row(i).id = i /\ row(i).priority = Seeded[i]
    OBVIOUS
  <2> HIDE DEF row
  <2>7. \A p, q \in policies : p.id = q.id => p = q
    BY <2>2, <2>6
  <2>8. \A p, q \in policies : p.priority = q.priority => p = q
    BY <2>2, <2>4, <2>6
  <2> QED  BY <2>1, <2>5, <2>7, <2>8 DEF PoliciesTypeOK, Unique
<1>3. Others
  <2>1. mappings \subseteq Mapping /\ \A m, n \in mappings : m.group = n.group => m = n
    OBVIOUS
  <2>2. /\ duty \in [Rosters -> Emails \cup {Nobody}]
        /\ owner \in [Tickets -> Emails \cup {Nobody}]
        /\ meta \in [Tickets -> {Absent, NoPolicy} \cup PolicyIds]
    OBVIOUS
  <2>3. \A r \in Requests :
          /\ pc[r] \in {"ticket", "search"}
          /\ pc[r] = "search" <=> email[r] # Nobody
          /\ response[r] = "none" /\ ticket[r] = NoTicket
    OBVIOUS
  <2>4. /\ pc \in [Requests -> {"search", "user", "again", "ticket", "meta", "done"}]
        /\ email \in [Requests -> Emails \cup {Nobody}]
        /\ ticket \in [Requests -> created \cup {NoTicket}]
        /\ response \in [Requests -> {"none", "created", "failed", "panicked"}]
    OBVIOUS
  <2>5. /\ users \subseteq Emails /\ indexed \subseteq users
        /\ created \subseteq Tickets /\ events \subseteq created
        /\ deleted \subseteq created /\ deleted \subseteq Tickets
        /\ tracked \subseteq created /\ lost \subseteq created
        /\ changes \in 0 .. MaxChanges
    OBVIOUS
  <2> HIDE DEF Init
  <2> QED  BY <1>2, <2>1, <2>2, <2>3, <2>4, <2>5 DEF Others
<1>4. TypeOK /\ Places
  BY <1>1, <1>3, Parts DEF JobOK, At
<1>5. \A t \in Tickets : meta[t] \notin PolicyIds
  BY DEF Absent, PolicyIds
<1> QED
  BY <1>1, <1>4, <1>5 DEF IInv, PolicyFits, PolicyInHandFits, ToldIsKnown,
     AssignedIsTracked, HistoryKept, HandlingKept, At

(* Every step keeps the invariant.                                         *)
LEMMA NextIInv == IInv /\ [Next]_vars => IInv'
  BY TypeStep, FitsStep, ToldStep, TrackedStep, HistoryStep, HandlingStep DEF IInv

(* The invariant holds in all behaviours.                                  *)
LEMMA Invariance == Spec => []IInv
  BY InitIInv, NextIInv, PTL DEF Spec

(* Every variable keeps its type; the table of policies its constraints.   *)
THEOREM TypeCorrect == Spec => []TypeOK
<1>1. IInv => TypeOK  BY DEF IInv
<1> QED  BY <1>1, Invariance, PTL

(* A ticket's policy exists and is one for its priority, whatever changes  *)
(* between the handler's lookup and its assignment.                        *)
THEOREM PolicyAlwaysFits == Spec => []PolicyFits
<1>1. IInv => PolicyFits  BY DEF IInv
<1> QED  BY <1>1, Invariance, PTL

(* A ticket the caller was told of is recorded, or has been lost.          *)
THEOREM ToldIsAlwaysKnown == Spec => []ToldIsKnown
<1>1. IInv => ToldIsKnown  BY DEF IInv
<1> QED  BY <1>1, Invariance, PTL

(* A ticket with a policy has its SLA row, is about to get it or is lost.  *)
THEOREM AssignedIsAlwaysTracked == Spec => []AssignedIsTracked
<1>1. IInv => AssignedIsTracked  BY DEF IInv
<1> QED  BY <1>1, Invariance, PTL

(* A policy once assigned stays until it is deleted.                       *)
THEOREM PolicyAlwaysKept == Spec => PolicyKept
<1> DEFINE Kept == \A t \in Tickets :
                     meta[t] \in PolicyIds /\ meta'[t] \notin PolicyIds
                       => \A p \in policies' : p.id # meta[t]
<1>1. ASSUME IInv, [Next]_vars PROVE Kept
  <2> USE DEF IInv, PolicyIds, NoPolicy, Absent
  <2>1. CASE (\E r \in Requests : Step(r)) \/ Reindex \/ UNCHANGED vars
    BY <1>1, <2>1, RequestKeeps
  <2>2. CASE Handler
    <3>1. \A p \in policies : p.id \in PolicyIds
      BY <1>1 DEF TypeOK, PoliciesTypeOK, Policy
    <3> QED  BY <1>1, <2>2, <3>1, HandlerMeta
  <2>3. CASE Change
    <3>1. \A p, q \in policies : p.id = q.id => p = q
      BY <1>1 DEF TypeOK, PoliciesTypeOK
    <3> QED  BY <1>1, <2>3, <3>1, ChangeMeta
  <2> QED  BY <1>1, <2>1, <2>2, <2>3 DEF Next
<1>2. PolicyKept <=> [][Kept]_vars
  BY DEF PolicyKept
<1> HIDE DEF Kept
<1> QED  BY <1>1, <1>2, Invariance, PTL DEF Spec

(* Whoever the handler makes the owner was on call for the ticket's group  *)
(* at some time since the handler turned to it, and has an account.        *)
THEOREM OwnerAlwaysWasOnCall == Spec => OwnerWasOnCall
<1> DEFINE OnCallThen ==
      \A t \in Tickets : changes' = changes /\ owner'[t] # owner[t] =>
        t = job.ticket /\ owner'[t] \in job.seen /\ owner'[t] \in users
<1>1. ASSUME IInv, [Next]_vars PROVE OnCallThen
  <2> SUFFICES ASSUME NEW t \in Tickets, changes' = changes, owner'[t] # owner[t]
               PROVE  t = job.ticket /\ owner'[t] \in job.seen /\ owner'[t] \in users
    OBVIOUS
  <2>1. CASE (\E r \in Requests : Step(r)) \/ Reindex \/ UNCHANGED vars
    BY <1>1, <2>1, RequestKeeps DEF IInv
  <2>2. ~Change
    BY <1>1, ChangeSteps DEF IInv
  <2>3. CASE Handler
    <3>1. SetOwner
      BY <2>3 DEF Handler, TakeCreate, AutoTicket, NewTicket, ReadPolicy, AssignPolicy,
         StartSla, RecordAutoTicket, HandlerFails, AssignOwner, Assign, ReadMapping,
         AskOnCall, SearchOwner, zammad
    <3>2. t = job.ticket /\ owner'[t] = job.email /\ At("owner")
      BY <1>1, <3>1 DEF SetOwner, IInv, TypeOK, AssignTypeOK
    <3> QED  BY <1>1, <3>2 DEF IInv, HistoryKept, At
  <2> QED  BY <1>1, <2>1, <2>2, <2>3 DEF Next
<1>2. OwnerWasOnCall <=> [][OnCallThen]_vars
  BY DEF OwnerWasOnCall
<1> HIDE DEF OnCallThen
<1> QED  BY <1>1, <1>2, Invariance, PTL DEF Spec

(* A handling without failure leaves its ticket complete, whatever changes *)
(* meanwhile.                                                              *)
THEOREM HandlingAlwaysCompletes == Spec => HandlingIsComplete
<1> DEFINE t == job.ticket
           Ends == ~At("idle") /\ At("idle")' /\ t \notin lost'
           Complete == /\ At("policy") => DefaultsFor(PriorityOf[t]) = {}
                       /\ (\E p \in policies : p.id = job.policy) =>
                            t \in tracked' /\ meta'[t] = job.policy
                       /\ ~At("policy") /\ ~At("assign") /\ job.covered
                            /\ t \notin deleted => owner'[t] \in job.seen
<1>1. ASSUME IInv, [Next]_vars, Ends PROVE Complete
  <2>1. JobOK /\ Others /\ HandlingKept /\ t \in Tickets
    BY <1>1, Parts DEF IInv, JobOK, Others
  <2>2. Handler
    <3>1. ~Change
      BY <1>1, <2>1, ChangeSteps, ObserveKeeps DEF IInv, JobOK, At
    <3> QED  BY <1>1, <3>1, RequestKeeps DEF IInv, Next, At
  <2>3. \A step \in Steps \ {"idle"} : ~Proceed(step)
    BY <1>1, <2>1 DEF Proceed, JobOK, JobRecord, At
  <2>4. ~\E u \in Tickets : TakeCreate(u) \/ AutoTicket(u)
    BY <1>1 DEF TakeCreate, AutoTicket, Begin
  <2>5. ~HandlerFails
    BY <1>1 DEF HandlerFails
  <2>6. job.group = NoGroup => ~job.covered
    BY <1>1, <2>1, NoGroupNoRoster DEF HandlingKept, Covered
  <2>7. \A p \in policies : p.id # 0
    BY <2>1 DEF Others, PoliciesTypeOK, Policy, PolicyIds
  <2>8. CASE ReadPolicy
    <3>1. ASSUME NEW p \in DefaultsFor(PriorityOf[t]),
                 job' = [job EXCEPT !.step = "assign", !.policy = p.id]
          PROVE  FALSE
      <4>1. job'.step = "assign"  BY <2>1, <3>1 DEF JobOK, JobRecord
      <4> QED  BY <1>1, <4>1 DEF At
    <3>2. DefaultsFor(PriorityOf[t]) = {} /\ At("policy")
      BY <2>8, <3>1 DEF ReadPolicy
    <3>3. job.policy = 0
      BY <1>1, <2>1, <3>2 DEF HandlingKept
    <3> QED  BY <2>7, <3>2, <3>3
  <2>9. CASE AssignPolicy
    <3>1. At("assign") /\ ~\E p \in policies : p.id = job.policy
      BY <2>3, <2>9 DEF AssignPolicy, Steps
    <3> QED  BY <3>1 DEF At
  <2>10. CASE StartSla
    <3>1. At("state") /\ tracked' = tracked \cup {t} /\ meta' = meta
          /\ job.group = NoGroup
      BY <2>3, <2>10 DEF StartSla, Steps, tables
    <3>2. (\E p \in policies : p.id = job.policy) => meta[t] = job.policy
      BY <1>1, <2>1, <3>1 DEF HandlingKept, At
    <3> QED  BY <2>6, <3>1, <3>2 DEF At
  <2>11. CASE RecordAutoTicket
    <3>1. At("record") /\ job.group = NoGroup
      BY <2>3, <2>11 DEF RecordAutoTicket, Steps
    <3>2. job.policy = 0
      BY <1>1, <2>1, <3>1 DEF HandlingKept
    <3> QED  BY <2>6, <2>7, <3>1, <3>2 DEF At
  <2>12. CASE AssignOwner
    <3>1. meta' = meta /\ tracked' = tracked
          /\ job.step \in {"mapping", "oncall", "search", "owner"}
      BY <2>12 DEF AssignOwner, Assign, ReadMapping, AskOnCall, SearchOwner, SetOwner,
                   tables, At
    <3>2. (\E p \in policies : p.id = job.policy) => t \in tracked' /\ meta'[t] = job.policy
      BY <1>1, <2>1, <3>1 DEF HandlingKept, At
    <3>3. ASSUME job.covered, t \notin deleted PROVE owner'[t] \in job.seen
      <4>0. Covered(mappings, duty, indexed, job.group, job.named)
        BY <1>1, <2>1, <3>3 DEF HandlingKept
      <4>1. ~ReadMapping
        <5>1. ASSUME NEW m \in Enabled(mappings, job.group),
                     job' = [job EXCEPT !.step = "oncall", !.roster = m.roster]
              PROVE  FALSE
          <6>1. job'.step = "oncall"  BY <2>1, <5>1 DEF JobOK, JobRecord
          <6> QED  BY <1>1, <6>1 DEF At
        <5> QED  BY <4>0, <5>1 DEF ReadMapping, Covered, RostersFor
      <4>2. ~AskOnCall
        <5> DEFINE person == duty[job.roster]
        <5>1. ASSUME AskOnCall PROVE FALSE
          <6>1. ASSUME job' = [job EXCEPT !.step = "search", !.email = person]
                PROVE  FALSE
            <7> HIDE DEF person
            <7>1. job'.step = "search"  BY <2>1, <6>1 DEF JobOK, JobRecord
            <7> QED  BY <1>1, <7>1 DEF At
          <6>2. person = Nobody /\ job.roster \in job.named
            BY <2>1, <5>1, <6>1 DEF AskOnCall, JobOK
          <6>3. Nobody \in indexed
            BY <4>0, <6>2 DEF Covered
          <6> QED  BY <2>1, <6>3, AssignAssumption DEF Others
        <5> QED  BY <5>1
      <4>3. ~SearchOwner
        BY <1>1, <2>1, <2>3, <3>3 DEF SearchOwner, Steps, HandlingKept
      <4>4. SetOwner
        BY <2>12, <4>1, <4>2, <4>3 DEF AssignOwner, Assign
      <4>5. owner'[t] = job.email /\ At("owner")
        BY <2>1, <3>3, <4>4 DEF SetOwner, Others
      <4> QED  BY <1>1, <4>5 DEF IInv, HistoryKept, At
    <3> QED  BY <3>1, <3>2, <3>3 DEF At
  <2> QED  BY <2>2, <2>4, <2>5, <2>8, <2>9, <2>10, <2>11, <2>12 DEF Handler
<1>2. HandlingIsComplete <=> [][Ends => Complete]_vars
  BY DEF HandlingIsComplete
<1> HIDE DEF Ends, Complete
<1> QED  BY <1>1, <1>2, Invariance, PTL DEF Spec
=============================================================================
