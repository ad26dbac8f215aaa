--------------------------- MODULE SeedingTheorems ---------------------------
(***************************************************************************)
(* What a success of the seed modes stands for, that nothing is seeded     *)
(* twice, and that seed-demo repairs what it finds: for any number of      *)
(* processes, runs and faults, and any lists of rows.                      *)
(***************************************************************************)
EXTENDS Seeding, SequenceTheorems, TLAPS

On(p) == run[p].pc # "off"
Length == Len(Priorities)
DemoLength == Len(Demo)

(* The places of a run that has created the tenant and not yet seeded it.  *)
Creating == {"schema", "provision", "undo schema", "undo tenant", "key", "rows"}
Finishing == {"admin", "policies", "demo", "done"}
Before == {"check", "drop", "delete", "look", "create"}

(* A run that has had to itself all that matters to it.                    *)
Calm(p) == ~overlap \/ ~run[p].disturbed

(* What a run holds at which place.                                        *)
Placed(p) ==
  /\ ~On(p) => ~run[p].creates /\ run[p].mode = "seed"
  /\ On(p) => runs > 0
  /\ run[p].pc \in Before \cup {"migrate"} => ~run[p].creates
  /\ run[p].pc \in Creating => run[p].creates
  /\ run[p].pc \in {"check", "drop", "delete", "policies", "demo"} => run[p].mode = "demo"
  /\ run[p].pc \notin {"rows", "demo", "failed"} => run[p].next = 1
  /\ run[p].pc = "rows" => run[p].next <= Len(SeedRows)
  /\ run[p].pc = "demo" => run[p].next <= Len(DemoRows)

(* Two runs that meet know of it.                                          *)
Meet(p, q) ==
  p # q /\ On(p) /\ On(q) =>
    /\ run[p].disturbed
    /\ ~overlap => /\ run[p].mode # "demo"
                   /\ \/ ~run[p].creates \/ run[p].pc = "failed"
                      \/ ~run[q].creates \/ run[q].pc = "failed"

(* The tenant belongs to the run that has created it.                      *)
Owner(p) ==
  Calm(p) /\ On(p) /\ run[p].creates /\ run[p].pc # "failed" =>
    tenant = run[p].tid /\ tenant # NoTenant

(* The rows of a seed that are already there, and those that are not.      *)
Progress(p) ==
  /\ Calm(p) /\ run[p].pc = "rows" =>
       /\ apiKey /\ schema.state = "ready"
       /\ \A i \in 1 .. run[p].next - 1 : rows[SeedRows[i]] > 0
  /\ Calm(p) /\ run[p].pc = "key" => schema.state = "ready"
  /\ ~overlap /\ run[p].pc = "rows" /\ run[p].next \in 2 .. Length + 1
       => rows[ConfigRow] = 0
  /\ Calm(p) /\ run[p].creates /\ run[p].pc \in Finishing =>
       Seeded /\ schema.state = "ready"
  /\ Calm(p) /\ run[p].pc = "demo" =>
       \A i \in 1 .. run[p].next - 1 : rows[DemoRows[i]] > 0
  /\ ~overlap /\ run[p].pc = "demo" /\ run[p].next > 1 =>
       \A i \in run[p].next .. Len(DemoRows) : i > DemoLength => rows[DemoRows[i]] = 0

(* The tenant and the administrator a run that met nobody finds or leaves. *)
Found(p) ==
  /\ ~run[p].disturbed /\ run[p].pc \in {"migrate"} \cup Finishing =>
       tenant = run[p].tid /\ tenant # NoTenant
  /\ ~run[p].disturbed /\ run[p].pc \in Finishing => schema.state = "ready"
  /\ run[p].pc \in Finishing \ {"admin"} =>
       /\ ~run[p].disturbed \/ (run[p].creates /\ ~overlap) => admin # "none"
       /\ ~run[p].disturbed /\ run[p].password => admin = "configured"

NoDemo == \A row \in DemoSet : rows[row] = 0

(* The way of a demo run that meets no fault and no other run.  With an    *)
(* orphaned schema it may end early, and the orphan is gone then.          *)
WayThere(p) ==
  LET me == run[p] IN
  /\ me.pc = "check" => me.orphan = Orphan
  /\ me.pc = "drop" => tenant # NoTenant /\ ~me.orphan
  /\ me.pc = "delete" => ~me.orphan /\ schema.state = "none"
  /\ me.pc \in {"look", "create"} => tenant = NoTenant
  /\ me.pc \in {"look", "create", "schema"} => schema.state = "none" \/ me.orphan
  /\ me.pc = "provision" => schema.state = "behind" \/ (me.orphan /\ schema.state # "none")
  /\ me.pc \in {"schema", "provision", "key"} =>
       ~apiKey /\ (~me.orphan => rows = NoRows)
  /\ me.pc = "undo schema" => me.orphan
  /\ me.pc = "undo tenant" => me.orphan /\ schema.state = "none"
  /\ me.pc = "failed" => me.orphan /\ ~Orphan
  /\ me.pc # "migrate"

WayBack(p) ==
  LET me == run[p] IN
  /\ me.pc = "rows" /\ ~me.orphan =>
       NoDemo /\ \A i \in me.next .. Len(SeedRows) : rows[SeedRows[i]] = 0
  /\ me.pc \in Finishing => me.creates
  /\ me.pc \in {"admin", "policies"} /\ ~me.orphan => NoDemo
  /\ me.pc = "demo" =>
       /\ Entries(Priorities) \subseteq me.known /\ me.knownIn = schema.no
       /\ ~me.orphan => \A i \in me.next .. Len(DemoRows) : rows[DemoRows[i]] = 0
  /\ me.pc = "done" => \A row \in DemoSet : rows[row] > 0

Way(p) == run[p].mode = "demo" /\ ~run[p].disturbed => WayThere(p) /\ WayBack(p)

(* What must be there when a row is that no index protects.                *)
Ordered ==
  ~overlap =>
    /\ rows[ConfigRow] > 0 => rows[SeedRows[1]] > 0
    /\ \A i \in DemoLength + 1 .. Len(DemoRows) :
         rows[DemoRows[i]] > 0 => rows[DemoRows[1]] > 0

IInv ==
  /\ TypeOK /\ Ordered /\ NothingDuplicated
  /\ \A p \in Proc : Placed(p) /\ Owner(p) /\ Progress(p) /\ Found(p) /\ Way(p)
  /\ \A p, q \in Proc : Meet(p, q)

-----------------------------------------------------------------------------
(* The lists of rows.                                                      *)
LEMMA Mapped ==
  ASSUME NEW S, NEW list, list \in Seq(Entries(list)), NEW f \in [DOMAIN list -> S]
  PROVE  f \in Seq(S) /\ Len(f) = Len(list)
<1>1. DOMAIN list = 1 .. Len(list) /\ Len(list) \in Nat
  BY LenProperties
<1> QED
  BY <1>1

(* Three lists one after the other.                                        *)
LEMMA Joined ==
  ASSUME NEW S, NEW a \in Seq(S), NEW b \in Seq(S), NEW c \in Seq(S)
  PROVE  /\ a \o b \o c \in Seq(S)
         /\ Len(a \o b \o c) = Len(a) + Len(b) + Len(c)
         /\ \A i \in 1 .. Len(a) : (a \o b \o c)[i] = a[i]
         /\ \A i \in 1 .. Len(b) : (a \o b \o c)[Len(a) + i] = b[i]
         /\ \A i \in 1 .. Len(c) : (a \o b \o c)[Len(a) + Len(b) + i] = c[i]
<1>1. /\ Len(a) \in Nat /\ Len(b) \in Nat /\ Len(c) \in Nat
  BY LenProperties
<1>2. /\ a \o b \in Seq(S) /\ Len(a \o b) = Len(a) + Len(b)
      /\ \A i \in 1 .. Len(a) + Len(b) :
           (a \o b)[i] = IF i <= Len(a) THEN a[i] ELSE b[i - Len(a)]
  BY ConcatProperties
<1>3. /\ (a \o b) \o c \in Seq(S) /\ Len((a \o b) \o c) = Len(a \o b) + Len(c)
      /\ \A i \in 1 .. Len(a \o b) + Len(c) :
           ((a \o b) \o c)[i] = IF i <= Len(a \o b) THEN (a \o b)[i] ELSE c[i - Len(a \o b)]
  BY <1>2, ConcatProperties
<1>4. \A i \in 1 .. Len(a) : (a \o b \o c)[i] = a[i]
  <2> TAKE i \in 1 .. Len(a)
  <2>1. (a \o b)[i] = a[i]
    BY <1>1, <1>2
  <2> QED
    BY <1>1, <1>2, <1>3, <2>1
<1>5. \A i \in 1 .. Len(b) : (a \o b \o c)[Len(a) + i] = b[i]
  <2> TAKE i \in 1 .. Len(b)
  <2>1. (a \o b)[Len(a) + i] = b[i]
    BY <1>1, <1>2
  <2> QED
    BY <1>1, <1>2, <1>3, <2>1
<1>6. \A i \in 1 .. Len(c) : (a \o b \o c)[Len(a) + Len(b) + i] = c[i]
  BY <1>1, <1>2, <1>3
<1> QED
  BY <1>1, <1>2, <1>3, <1>4, <1>5, <1>6

(* Policies first, then the configuration, then keys; no two alike.        *)
LEMMA SeedList ==
  /\ Length \in Nat \ {0} /\ Len(SeedRows) \in Nat /\ Length < Len(SeedRows)
  /\ DOMAIN SeedRows = 1 .. Len(SeedRows)
  /\ \A i \in 1 .. Length : SeedRows[i] = PolicyRow(Priorities[i])
  /\ SeedRows[Length + 1] = ConfigRow
  /\ \A i \in Length + 2 .. Len(SeedRows) :
       /\ i - Length - 1 \in DOMAIN Services
       /\ SeedRows[i] = KeyRow(Services[i - Length - 1])
<1> DEFINE a == [i \in DOMAIN Priorities |-> PolicyRow(Priorities[i])]
           b == <<ConfigRow>>
           c == [i \in DOMAIN Services |-> KeyRow(Services[i])]
           S == Entries(a) \cup {ConfigRow} \cup Entries(c)
<1>1. /\ Priorities \in Seq(Entries(Priorities)) /\ Services \in Seq(Entries(Services))
      /\ Len(Priorities) > 0
  BY SeedingAssumption
<1>2. /\ Len(Priorities) \in Nat /\ DOMAIN Priorities = 1 .. Len(Priorities)
      /\ Len(Services) \in Nat /\ DOMAIN Services = 1 .. Len(Services)
  BY <1>1, LenProperties
<1>3. a \in [DOMAIN Priorities -> S] /\ c \in [DOMAIN Services -> S]
  BY DEF Entries
<1>4. a \in Seq(S) /\ Len(a) = Length
  <2> HIDE DEF a, S
  <2> QED
    BY <1>1, <1>3, Mapped DEF Length
<1>5. c \in Seq(S) /\ Len(c) = Len(Services)
  <2> HIDE DEF c, S
  <2> QED
    BY <1>1, <1>3, Mapped
<1>6. b \in Seq(S) /\ Len(b) = 1 /\ b[1] = ConfigRow
  OBVIOUS
<1>7. SeedRows = a \o b \o c
  BY DEF SeedRows
<1>8. \A i \in 1 .. Length : a[i] = PolicyRow(Priorities[i])
  BY <1>2 DEF Length
<1>9. \A i \in 1 .. Len(Services) : c[i] = KeyRow(Services[i])
  BY <1>2
<1> HIDE DEF a, b, c, S
<1>10. /\ SeedRows \in Seq(S) /\ Len(SeedRows) = Length + 1 + Len(Services)
       /\ \A i \in 1 .. Length : SeedRows[i] = a[i]
       /\ \A i \in 1 .. 1 : SeedRows[Length + i] = b[i]
       /\ \A i \in 1 .. Len(Services) : SeedRows[Length + 1 + i] = c[i]
  <2>1. /\ SeedRows \in Seq(S) /\ Len(SeedRows) = Len(a) + Len(b) + Len(c)
        /\ \A i \in 1 .. Len(a) : SeedRows[i] = a[i]
        /\ \A i \in 1 .. Len(b) : SeedRows[Len(a) + i] = b[i]
        /\ \A i \in 1 .. Len(c) : SeedRows[Len(a) + Len(b) + i] = c[i]
    <3>1. a \in Seq(S) /\ b \in Seq(S) /\ c \in Seq(S)
      BY <1>4, <1>5, <1>6
    <3>2. /\ a \o b \o c \in Seq(S)
          /\ Len(a \o b \o c) = Len(a) + Len(b) + Len(c)
          /\ \A i \in 1 .. Len(a) : (a \o b \o c)[i] = a[i]
          /\ \A i \in 1 .. Len(b) : (a \o b \o c)[Len(a) + i] = b[i]
          /\ \A i \in 1 .. Len(c) : (a \o b \o c)[Len(a) + Len(b) + i] = c[i]
      BY <3>1, Joined
    <3> QED
      BY <3>2, <1>7, Zenon
  <2> QED
    BY <2>1, <1>4, <1>5, <1>6
<1>11. DOMAIN SeedRows = 1 .. Len(SeedRows)
  BY <1>10, LenProperties
<1>12. ASSUME NEW i \in Length + 2 .. Len(SeedRows)
       PROVE  /\ i - Length - 1 \in DOMAIN Services
              /\ SeedRows[i] = KeyRow(Services[i - Length - 1])
  <2> Length \in Nat
    BY <1>2 DEF Length
  <2>1. i - Length - 1 \in 1 .. Len(Services) /\ i = Length + 1 + (i - Length - 1)
    BY <1>2, <1>10
  <2>2. SeedRows[i] = c[i - Length - 1]
    BY <1>10, <2>1
  <2> QED
    BY <1>2, <1>9, <2>1, <2>2
<1> QED
  BY <1>1, <1>2, <1>6, <1>8, <1>10, <1>11, <1>12, SMTT(30) DEF Length

(* Tickets first, then their SLA states, then the links.                   *)
LEMMA DemoList ==
  /\ DemoLength \in Nat \ {0} /\ Len(DemoRows) \in Nat /\ DemoLength <= Len(DemoRows)
  /\ DOMAIN DemoRows = 1 .. Len(DemoRows)
  /\ \A i \in 1 .. DemoLength : DemoRows[i] = TicketRow(i) /\ Demo[i] \in Entries(Priorities)
  /\ \A i \in DemoLength + 1 .. 2 * DemoLength : DemoRows[i] = StateRow(i - DemoLength)
  /\ \A i \in 2 * DemoLength + 1 .. Len(DemoRows) :
       /\ i - 2 * DemoLength \in DOMAIN Linked
       /\ DemoRows[i] = LinkRow(Linked[i - 2 * DemoLength])
<1> DEFINE a == [i \in DOMAIN Demo |-> TicketRow(i)]
           b == [i \in DOMAIN Demo |-> StateRow(i)]
           c == [i \in DOMAIN Linked |-> LinkRow(Linked[i])]
           S == Entries(a) \cup Entries(b) \cup Entries(c)
<1>1. /\ Demo \in Seq(Entries(Demo)) /\ Linked \in Seq(Entries(Linked))
      /\ Len(Demo) > 0 /\ Entries(Demo) \subseteq Entries(Priorities)
  BY SeedingAssumption
<1>2. /\ Len(Demo) \in Nat /\ DOMAIN Demo = 1 .. Len(Demo)
      /\ Len(Linked) \in Nat /\ DOMAIN Linked = 1 .. Len(Linked)
  BY <1>1, LenProperties
<1>3. /\ a \in [DOMAIN Demo -> S] /\ b \in [DOMAIN Demo -> S]
      /\ c \in [DOMAIN Linked -> S]
  BY DEF Entries
<1>4. a \in Seq(S) /\ Len(a) = DemoLength
  <2> HIDE DEF a, S
  <2> QED
    BY <1>1, <1>3, Mapped DEF DemoLength
<1>5. b \in Seq(S) /\ Len(b) = DemoLength
  <2> HIDE DEF b, S
  <2> QED
    BY <1>1, <1>3, Mapped DEF DemoLength
<1>6. c \in Seq(S) /\ Len(c) = Len(Linked)
  <2> HIDE DEF c, S
  <2> QED
    BY <1>1, <1>3, Mapped
<1>7. DemoRows = a \o b \o c
  BY DEF DemoRows
<1>8. \A i \in 1 .. DemoLength : a[i] = TicketRow(i) /\ b[i] = StateRow(i)
  BY <1>2 DEF DemoLength
<1>9. \A i \in 1 .. Len(Linked) : c[i] = LinkRow(Linked[i])
  BY <1>2
<1> HIDE DEF a, b, c, S
<1>10. /\ DemoRows \in Seq(S) /\ Len(DemoRows) = DemoLength + DemoLength + Len(Linked)
       /\ \A i \in 1 .. DemoLength : DemoRows[i] = a[i]
       /\ \A i \in 1 .. DemoLength : DemoRows[DemoLength + i] = b[i]
       /\ \A i \in 1 .. Len(Linked) : DemoRows[DemoLength + DemoLength + i] = c[i]
  <2>1. /\ DemoRows \in Seq(S) /\ Len(DemoRows) = Len(a) + Len(b) + Len(c)
        /\ \A i \in 1 .. Len(a) : DemoRows[i] = a[i]
        /\ \A i \in 1 .. Len(b) : DemoRows[Len(a) + i] = b[i]
        /\ \A i \in 1 .. Len(c) : DemoRows[Len(a) + Len(b) + i] = c[i]
    <3>1. a \in Seq(S) /\ b \in Seq(S) /\ c \in Seq(S)
      BY <1>4, <1>5, <1>6
    <3>2. /\ a \o b \o c \in Seq(S)
          /\ Len(a \o b \o c) = Len(a) + Len(b) + Len(c)
          /\ \A i \in 1 .. Len(a) : (a \o b \o c)[i] = a[i]
          /\ \A i \in 1 .. Len(b) : (a \o b \o c)[Len(a) + i] = b[i]
          /\ \A i \in 1 .. Len(c) : (a \o b \o c)[Len(a) + Len(b) + i] = c[i]
      BY <3>1, Joined
    <3> QED
      BY <3>2, <1>7, Zenon
  <2> QED
    BY <2>1, <1>4, <1>5, <1>6
<1>11. DOMAIN DemoRows = 1 .. Len(DemoRows)
  BY <1>10, LenProperties
<1>12. \A i \in 1 .. DemoLength : DemoRows[i] = TicketRow(i) /\ Demo[i] \in Entries(Priorities)
  BY <1>1, <1>2, <1>8, <1>10 DEF Entries, DemoLength
<1>13. ASSUME NEW i \in DemoLength + 1 .. 2 * DemoLength
       PROVE  DemoRows[i] = StateRow(i - DemoLength)
  <2>1. i - DemoLength \in 1 .. DemoLength /\ i = DemoLength + (i - DemoLength)
    BY <1>2 DEF DemoLength
  <2>2. DemoRows[i] = b[i - DemoLength]
    BY <1>10, <2>1
  <2> QED
    BY <1>8, <2>1, <2>2
<1>14. ASSUME NEW i \in 2 * DemoLength + 1 .. Len(DemoRows)
       PROVE  /\ i - 2 * DemoLength \in DOMAIN Linked
              /\ DemoRows[i] = LinkRow(Linked[i - 2 * DemoLength])
  <2>1. /\ i - 2 * DemoLength \in 1 .. Len(Linked)
        /\ i = DemoLength + DemoLength + (i - 2 * DemoLength)
    BY <1>2, <1>10 DEF DemoLength
  <2>2. DemoRows[i] = c[i - 2 * DemoLength]
    BY <1>10, <2>1
  <2> QED
    BY <1>2, <1>9, <2>1, <2>2
<1> QED
  BY <1>1, <1>2, <1>10, <1>11, <1>12, <1>13, <1>14 DEF DemoLength

(* No two entries of the seed list are the same row.                       *)
LEMMA SeedRowsApart ==
  /\ \A i \in 1 .. Len(SeedRows) : SeedRows[i] \in SeedSet
  /\ \A row \in SeedSet : \E i \in 1 .. Len(SeedRows) : row = SeedRows[i]
  /\ \A i, j \in 1 .. Len(SeedRows) : SeedRows[i] = SeedRows[j] => i = j
  /\ \A row \in SeedSet : row.table \in {"sla_policies", "zammad_config", "integration_keys"}
<1>1. /\ Length \in Nat \ {0} /\ Len(SeedRows) \in Nat /\ Length < Len(SeedRows)
      /\ DOMAIN SeedRows = 1 .. Len(SeedRows)
  BY SeedList
<1>2. ASSUME NEW i \in 1 .. Len(SeedRows)
      PROVE  \/ /\ i \in 1 .. Length /\ i \in DOMAIN Priorities
                /\ SeedRows[i] = PolicyRow(Priorities[i])
             \/ i = Length + 1 /\ SeedRows[i] = ConfigRow
             \/ /\ i \in Length + 2 .. Len(SeedRows)
                /\ i - Length - 1 \in DOMAIN Services
                /\ SeedRows[i] = KeyRow(Services[i - Length - 1])
  <2>1. DOMAIN Priorities = 1 .. Length
    BY SeedingAssumption, LenProperties DEF Length
  <2>2. CASE i \in 1 .. Length
    BY <2>1, <2>2, SeedList
  <2>3. CASE i = Length + 1
    BY <2>3, SeedList
  <2>4. CASE i \in Length + 2 .. Len(SeedRows)
    BY <2>4, SeedList
  <2> QED
    BY <1>1, <2>2, <2>3, <2>4
<1>3. ASSUME NEW i \in 1 .. Len(SeedRows), NEW j \in 1 .. Len(SeedRows),
             SeedRows[i] = SeedRows[j]
      PROVE  i = j
  <2>1. /\ \A k, l \in DOMAIN Priorities : Priorities[k] = Priorities[l] => k = l
        /\ \A k, l \in DOMAIN Services : Services[k] = Services[l] => k = l
    BY SeedingAssumption
  <2>2. CASE i \in 1 .. Length
    BY <1>1, <1>2, <1>3, <2>1, <2>2 DEF PolicyRow, ConfigRow, KeyRow
  <2>3. CASE i = Length + 1
    BY <1>1, <1>2, <1>3, <2>1, <2>3 DEF PolicyRow, ConfigRow, KeyRow
  <2>4. CASE i \in Length + 2 .. Len(SeedRows)
    BY <1>1, <1>2, <1>3, <2>1, <2>4 DEF PolicyRow, ConfigRow, KeyRow
  <2> QED
    BY <1>1, <2>2, <2>3, <2>4
<1>4. \A i \in 1 .. Len(SeedRows) :
        SeedRows[i].table \in {"sla_policies", "zammad_config", "integration_keys"}
  <2> TAKE i \in 1 .. Len(SeedRows)
  <2>1. CASE i \in 1 .. Length
    <3>1. SeedRows[i] = PolicyRow(Priorities[i])
      BY <2>1, SeedList
    <3> QED
      BY <3>1 DEF PolicyRow
  <2>2. CASE i = Length + 1
    BY <2>2, SeedList DEF ConfigRow
  <2>3. CASE i \in Length + 2 .. Len(SeedRows)
    <3>1. SeedRows[i] = KeyRow(Services[i - Length - 1])
      BY <2>3, SeedList
    <3> QED
      BY <3>1 DEF KeyRow
  <2> QED
    BY <1>1, <2>1, <2>2, <2>3
<1> QED
  BY <1>1, <1>3, <1>4 DEF SeedSet, Entries

(* No two entries of the demo list are, and only tickets come early.       *)
LEMMA DemoRowsApart ==
  /\ \A i \in 1 .. Len(DemoRows) : DemoRows[i] \in DemoSet
  /\ \A row \in DemoSet : \E i \in 1 .. Len(DemoRows) : row = DemoRows[i]
  /\ \A i, j \in 1 .. Len(DemoRows) : DemoRows[i] = DemoRows[j] => i = j
  /\ \A i \in 1 .. Len(DemoRows) : DemoRows[i].table = "ticket_meta" <=> i <= DemoLength
  /\ \A row \in DemoSet : row.table \in {"ticket_meta", "sla_states", "incident_links"}
<1>1. /\ DemoLength \in Nat \ {0} /\ Len(DemoRows) \in Nat /\ DemoLength <= Len(DemoRows)
      /\ DOMAIN DemoRows = 1 .. Len(DemoRows)
  BY DemoList
<1>2. ASSUME NEW i \in 1 .. Len(DemoRows)
      PROVE  \/ i \in 1 .. DemoLength /\ DemoRows[i] = TicketRow(i)
             \/ /\ i \in DemoLength + 1 .. 2 * DemoLength
                /\ DemoRows[i] = StateRow(i - DemoLength)
             \/ /\ i \in 2 * DemoLength + 1 .. Len(DemoRows)
                /\ i - 2 * DemoLength \in DOMAIN Linked
                /\ DemoRows[i] = LinkRow(Linked[i - 2 * DemoLength])
  <2>1. CASE i \in 1 .. DemoLength
    BY <2>1, DemoList
  <2>2. CASE i \in DemoLength + 1 .. 2 * DemoLength
    BY <2>2, DemoList
  <2>3. CASE i \in 2 * DemoLength + 1 .. Len(DemoRows)
    BY <2>3, DemoList
  <2> QED
    BY <1>1, <2>1, <2>2, <2>3
<1>3. ASSUME NEW i \in 1 .. Len(DemoRows), NEW j \in 1 .. Len(DemoRows),
             DemoRows[i] = DemoRows[j]
      PROVE  i = j
  <2>1. \A k, l \in DOMAIN Linked : Linked[k] = Linked[l] => k = l
    BY SeedingAssumption
  <2>2. CASE i \in 1 .. DemoLength
    BY <1>1, <1>2, <1>3, <2>2 DEF TicketRow, StateRow, LinkRow
  <2>3. CASE i \in DemoLength + 1 .. 2 * DemoLength
    BY <1>1, <1>2, <1>3, <2>3 DEF TicketRow, StateRow, LinkRow
  <2>4. CASE i \in 2 * DemoLength + 1 .. Len(DemoRows)
    BY <1>1, <1>2, <1>3, <2>1, <2>4 DEF TicketRow, StateRow, LinkRow
  <2> QED
    BY <1>1, <2>2, <2>3, <2>4
<1>4. \A i \in 1 .. Len(DemoRows) :
        /\ DemoRows[i].table \in {"ticket_meta", "sla_states", "incident_links"}
        /\ DemoRows[i].table = "ticket_meta" <=> i <= DemoLength
  BY <1>1, <1>2 DEF TicketRow, StateRow, LinkRow
<1> QED
  BY <1>1, <1>3, <1>4 DEF DemoSet, Entries

(* No row is in both lists.                                                *)
LEMMA RowsApart == SeedSet \cap DemoSet = {} /\ ConfigRow \in SeedSet
<1>1. ConfigRow \in SeedSet
  BY SeedList, SeedRowsApart
<1> QED
  BY <1>1, SeedRowsApart, DemoRowsApart

(* The priorities whose policies a demo run reads.                         *)
PoliciesRead ==
  {row.key : row \in {r \in SeedSet : r.table = "sla_policies" /\ rows[r] > 0}}

(* What is read are seeded priorities, and all of them once they are.      *)
LEMMA KeysKnown ==
  /\ PoliciesRead \subseteq Entries(Priorities)
  /\ Seeded => Entries(Priorities) \subseteq PoliciesRead
<1>1. ASSUME NEW row \in SeedSet, row.table = "sla_policies"
      PROVE  row.key \in Entries(Priorities)
  <2>1. PICK i \in 1 .. Len(SeedRows) : row = SeedRows[i]
    BY SeedRowsApart
  <2>2. CASE i \in 1 .. Length
    <3>1. row = PolicyRow(Priorities[i]) /\ i \in DOMAIN Priorities
      BY <2>1, <2>2, SeedList, SeedingAssumption, LenProperties DEF Length
    <3> QED
      BY <3>1 DEF PolicyRow, Entries
  <2>3. CASE i = Length + 1
    BY <1>1, <2>1, <2>3, SeedList DEF ConfigRow
  <2>4. CASE i \in Length + 2 .. Len(SeedRows)
    <3>1. row = KeyRow(Services[i - Length - 1])
      BY <2>1, <2>4, SeedList
    <3> QED
      BY <1>1, <3>1 DEF KeyRow
  <2> QED
    BY <2>1, <2>2, <2>3, <2>4, SeedList
<1>2. ASSUME Seeded, NEW i \in DOMAIN Priorities
      PROVE  Priorities[i] \in PoliciesRead
  <2>1. i \in 1 .. Length /\ i \in 1 .. Len(SeedRows)
    BY SeedList, SeedingAssumption, LenProperties DEF Length
  <2>2. PolicyRow(Priorities[i]) \in SeedSet
    BY <2>1, SeedList, SeedRowsApart
  <2>3. /\ PolicyRow(Priorities[i]).table = "sla_policies"
        /\ PolicyRow(Priorities[i]).key = Priorities[i]
    BY DEF PolicyRow
  <2> QED
    BY <1>2, <2>2, <2>3 DEF PoliciesRead, Seeded
<1> QED
  BY <1>1, <1>2 DEF PoliciesRead, Entries

-----------------------------------------------------------------------------
(* What a step changes of the run of its process.                          *)

Same(p) ==
  /\ run'[p].mode = run[p].mode /\ run'[p].password = run[p].password
  /\ run'[p].orphan = run[p].orphan

SameTenant(p) == run'[p].creates = run[p].creates /\ run'[p].tid = run[p].tid

SameRows(p) ==
  /\ run'[p].next = run[p].next
  /\ run'[p].known = run[p].known /\ run'[p].knownIn = run[p].knownIn

(* A run that goes on.                                                     *)
LEMMA GotoFields ==
  ASSUME run \in [Proc -> Run], NEW p \in Proc, NEW label \in Labels, Goto(p, label)
  PROVE  /\ run' \in [Proc -> Run] /\ run'[p].pc = label
         /\ Same(p) /\ SameTenant(p) /\ SameRows(p)
         /\ run'[p].disturbed = run[p].disturbed
BY DEF Run, Goto, Same, SameTenant, SameRows

(* A run one of whose statements fails.                                    *)
LEMMA FaultFields ==
  ASSUME run \in [Proc -> Run], NEW p \in Proc, NEW label \in Labels,
         run' = [run EXCEPT ![p].pc = label, ![p].disturbed = TRUE]
  PROVE  /\ run' \in [Proc -> Run] /\ run'[p].pc = label
         /\ Same(p) /\ SameTenant(p) /\ SameRows(p) /\ run'[p].disturbed
BY DEF Run, Same, SameTenant, SameRows

(* A run that has looked the tenant up.                                    *)
LEMMA LookFields ==
  ASSUME run \in [Proc -> Run], NEW p \in Proc, NEW label \in Labels,
         NEW tid \in 0 .. MaxRuns,
         run' = [run EXCEPT ![p].pc = label, ![p].tid = tid]
  PROVE  /\ run' \in [Proc -> Run] /\ run'[p].pc = label /\ run'[p].tid = tid
         /\ Same(p) /\ run'[p].creates = run[p].creates /\ SameRows(p)
         /\ run'[p].disturbed = run[p].disturbed
BY ZenonT(60) DEF Run, Same, SameRows

(* A run that has created the tenant.                                      *)
LEMMA CreateFields ==
  ASSUME run \in [Proc -> Run], NEW p \in Proc, NEW label \in Labels,
         NEW tid \in 0 .. MaxRuns,
         run' = [run EXCEPT ![p].pc = label, ![p].tid = tid, ![p].creates = TRUE]
  PROVE  /\ run' \in [Proc -> Run] /\ run'[p].pc = label /\ run'[p].tid = tid
         /\ Same(p) /\ run'[p].creates /\ SameRows(p)
         /\ run'[p].disturbed = run[p].disturbed
BY ZenonT(60) DEF Run, Same, SameRows

(* A run that has inserted a row.                                          *)
LEMMA InsertFields ==
  ASSUME run \in [Proc -> Run], NEW p \in Proc, NEW label \in Labels,
         NEW next \in Nat \ {0},
         run' = [run EXCEPT ![p].next = next, ![p].pc = label]
  PROVE  /\ run' \in [Proc -> Run] /\ run'[p].pc = label /\ run'[p].next = next
         /\ Same(p) /\ SameTenant(p)
         /\ run'[p].known = run[p].known /\ run'[p].knownIn = run[p].knownIn
         /\ run'[p].disturbed = run[p].disturbed
BY DEF Run, Same, SameTenant

(* A run that has read the policies.                                       *)
LEMMA ReadFields ==
  ASSUME run \in [Proc -> Run], NEW p \in Proc, NEW label \in Labels,
         NEW known \in SUBSET Entries(Priorities), NEW in \in 0 .. MaxRuns,
         run' = [run EXCEPT ![p].pc = label, ![p].knownIn = in, ![p].known = known]
  PROVE  /\ run' \in [Proc -> Run] /\ run'[p].pc = label
         /\ run'[p].known = known /\ run'[p].knownIn = in
         /\ Same(p) /\ SameTenant(p) /\ run'[p].next = run[p].next
         /\ run'[p].disturbed = run[p].disturbed
BY ZenonT(60) DEF Run, Same, SameTenant

(* A process that runs nothing.                                            *)
LEMMA NoRunTyped == NoRun \in Run
<1>1. /\ 0 \in 0 .. MaxRuns /\ 1 \in Nat \ {0} /\ {} \in SUBSET Entries(Priorities)
      /\ "off" \in Labels
  BY SeedingAssumption DEF Labels
<1> QED
  BY <1>1, Zenon DEF NoRun, Run

(* A start, and what the runs it meets learn of it.                        *)
LEMMA StartStep ==
  ASSUME run \in [Proc -> Run], NEW p \in Proc, Start(p)
  PROVE  /\ run' \in [Proc -> Run] /\ run[p].pc = "off"
         /\ runs < MaxRuns /\ runs' = runs + 1
         /\ UNCHANGED <<tenant, apiKey, admin, schema, rows, faults>>
         /\ run'[p].pc = IF run'[p].mode = "demo" THEN "check" ELSE "look"
         /\ ~run'[p].creates /\ run'[p].next = 1 /\ run'[p].orphan = Orphan
         /\ run'[p].disturbed <=> \E q \in Proc : On(q)
         /\ \A q \in Proc \ {p} : run'[q] = [run[q] EXCEPT !.disturbed = On(q)]
         /\ overlap' \in BOOLEAN
         /\ ~overlap' => /\ ~overlap
                        /\ \A q \in Proc : On(q) =>
                             run[q].mode # "demo" /\ run'[p].mode # "demo"
<1>1. PICK mode \in {"seed", "demo"}, password \in BOOLEAN :
        LET others == {q \in Proc : run[q].pc # "off"} IN
        /\ overlap' = (overlap \/ (others # {} /\ mode = "demo")
                               \/ \E q \in others : run[q].mode = "demo")
        /\ run' = [q \in Proc |->
             IF q = p
             THEN [NoRun EXCEPT !.pc = IF mode = "demo" THEN "check" ELSE "look",
                                !.mode = mode, !.password = password,
                                !.disturbed = others # {}, !.orphan = Orphan]
             ELSE [run[q] EXCEPT !.disturbed = run[q].pc # "off"]]
  BY DEF Start
<1> DEFINE met == \E q \in Proc : On(q)
           label == IF mode = "demo" THEN "check" ELSE "look"
<1>2. /\ run' = [q \in Proc |-> run'[q]]
      /\ run'[p] = [NoRun EXCEPT !.pc = label, !.mode = mode, !.password = password,
                                 !.disturbed = met, !.orphan = Orphan]
      /\ \A q \in Proc \ {p} : run'[q] = [run[q] EXCEPT !.disturbed = On(q)]
  BY <1>1 DEF On
<1>3. label \in Labels /\ met \in BOOLEAN /\ Orphan \in BOOLEAN
  BY DEF Orphan, Labels
<1>4. overlap' = (overlap \/ (met /\ mode = "demo")
                          \/ \E q \in Proc : On(q) /\ run[q].mode = "demo")
  BY <1>1 DEF On
<1> DEFINE orphan == Orphan
<1>5. /\ run'[p] \in Run
      /\ run'[p].pc = label /\ run'[p].mode = mode
      /\ run'[p].disturbed = met /\ run'[p].orphan = orphan
      /\ ~run'[p].creates /\ run'[p].next = 1
  <2>1. /\ run'[p] = [NoRun EXCEPT !.pc = label, !.mode = mode, !.password = password,
                                   !.disturbed = met, !.orphan = orphan]
        /\ label \in Labels /\ met \in BOOLEAN /\ orphan \in BOOLEAN
    BY <1>2, <1>3
  <2> HIDE DEF label, met, orphan
  <2> QED
    BY <2>1, NoRunTyped, ZenonT(60) DEF NoRun, Run
<1>6. ASSUME NEW q \in Proc \ {p}
      PROVE  run'[q] \in Run
  <2>1. run[q] \in Run /\ On(q) \in BOOLEAN
    BY DEF On
  <2>2. run'[q] = [run[q] EXCEPT !.disturbed = On(q)]
    BY <1>2, Zenon
  <2> QED
    BY <2>1, <2>2 DEF Run
<1>7. run' \in [Proc -> Run]
  BY <1>2, <1>5, <1>6
<1>8. /\ run[p].pc = "off" /\ runs < MaxRuns /\ runs' = runs + 1
      /\ UNCHANGED <<tenant, apiKey, admin, schema, rows, faults>>
  BY Zenon DEF Start
<1> QED
  BY <1>2, <1>4, <1>5, <1>7, <1>8

(* A step but a start leaves the other runs alone.                         *)
LEMMA Frame ==
  ASSUME NEW p \in Proc, NEW q \in Proc, p # q, TypeOK, Step(p), ~Start(p)
  PROVE  run'[q] = run[q] /\ UNCHANGED <<runs, overlap>> /\ On(p)
BY DEF TypeOK, Step, On, Active, Exit, Crash, CheckDemo, DropDemo, DeleteDemo, Look,
       Migrate, CreateTenant, CreateSchema, Provision, UndoSchema, UndoTenant, InsertKey,
       InsertRow, Insert, EnsureLocalAdmin, ReadPolicies, InsertDemo, Goto, FaultTo,
       MigrateTo, MigrationFailsTo, database, control

(* A step that stays within the types.                                     *)
LEMMA FaultTypes ==
  ASSUME TypeOK, NEW p \in Proc, NEW label \in Labels, FaultTo(p, label)
  PROVE  TypeOK'
<1>1. run' \in [Proc -> Run]
  BY FaultFields DEF FaultTo, TypeOK
<1>2. faults' \in 0 .. MaxFaults
  BY SeedingAssumption DEF FaultTo, TypeOK
<1>3. UNCHANGED <<tenant, apiKey, admin, schema, rows, runs, overlap>>
  BY DEF FaultTo, database
<1> QED
  BY <1>1, <1>2, <1>3 DEF TypeOK

(* A step that changes nothing but the place of the run.                   *)
LEMMA GotoTypes ==
  ASSUME TypeOK, NEW p \in Proc, NEW label \in Labels, Goto(p, label),
         UNCHANGED <<database, control>>
  PROVE  TypeOK'
BY GotoFields DEF TypeOK, database, control

(* An insertion, or the failure of one.                                    *)
LEMMA InsertTypes ==
  ASSUME TypeOK, NEW p \in Proc, NEW list, NEW after \in Labels, NEW mayInsert \in BOOLEAN,
         list[run[p].next] \in Row, Insert(p, list, after, mayInsert)
  PROVE  TypeOK'
<1> DEFINE row == list[run[p].next]
<1> rows \in [Row -> Nat] /\ run \in [Proc -> Run] /\ row \in Row
  BY DEF TypeOK
<1>1. CASE /\ schema.state # "none" /\ rows' = [rows EXCEPT ![row] = @ + 1]
           /\ run' = [run EXCEPT
                ![p].next = IF run[p].next = Len(list) THEN 1 ELSE @ + 1,
                ![p].pc = IF run[p].next = Len(list) THEN after ELSE @]
           /\ UNCHANGED <<tenant, apiKey, admin, schema, control>>
  <2> HIDE DEF row
  <2>1. rows' \in [Row -> Nat]
    BY <1>1
  <2>2. run' \in [Proc -> Run]
    <3> DEFINE next == IF run[p].next = Len(list) THEN 1 ELSE run[p].next + 1
               label == IF run[p].next = Len(list) THEN after ELSE run[p].pc
    <3>1. run[p].next \in Nat \ {0} /\ run[p].pc \in Labels
      BY DEF Run
    <3>2. next \in Nat \ {0} /\ label \in Labels
      BY <3>1
    <3>3. run' = [run EXCEPT ![p].next = next, ![p].pc = label]
      BY <1>1
    <3> HIDE DEF next, label
    <3> QED
      BY <3>2, <3>3, InsertFields
  <2> QED
    BY <1>1, <2>1, <2>2 DEF TypeOK, control
<1>2. CASE Goto(p, "failed") /\ UNCHANGED <<database, control>>
  BY <1>2, GotoTypes DEF Labels
<1>3. CASE FaultTo(p, "failed")
  BY <1>3, FaultTypes DEF Labels
<1> QED
  BY <1>1, <1>2, <1>3 DEF Insert

(* Every step.                                                             *)
LEMMA TypeStep ==
  ASSUME TypeOK, NEW p \in Proc, Placed(p), Step(p)
  PROVE  TypeOK'
<1> USE DEF Labels
<1> /\ run \in [Proc -> Run] /\ MaxRuns \in Nat /\ MaxFaults \in Nat
    /\ runs \in 0 .. MaxRuns /\ faults \in 0 .. MaxFaults
    /\ tenant \in 0 .. MaxRuns
  BY SeedingAssumption DEF TypeOK
<1> NoRows \in [Row -> Nat]
  BY DEF NoRows
<1>1. CASE Start(p)
  <2>1. runs' \in 0 .. MaxRuns
    <3>1. runs < MaxRuns /\ runs' = runs + 1
      BY <1>1, StartStep
    <3> QED
      BY <3>1
  <2> QED
    BY <1>1, <2>1, StartStep DEF TypeOK
<1>2. CASE Exit(p)
  BY <1>2, NoRunTyped DEF Exit, TypeOK, database, control
<1>3. CASE Crash(p)
  <2>1. run' \in [Proc -> Run]
    BY <1>3, NoRunTyped DEF Crash
  <2>2. faults' \in 0 .. MaxFaults
    BY <1>3 DEF Crash
  <2> QED
    BY <1>3, <2>1, <2>2 DEF Crash, TypeOK
<1>4. CASE CheckDemo(p)
  BY <1>4, GotoTypes, FaultTypes DEF CheckDemo
<1>5. CASE DropDemo(p)
  <2>1. CASE DropSchema /\ Goto(p, "delete") /\ UNCHANGED <<tenant, apiKey, admin, control>>
    BY <2>1, GotoFields DEF DropSchema, TypeOK, control
  <2> QED
    BY <1>5, <2>1, FaultTypes DEF DropDemo
<1>6. CASE DeleteDemo(p)
  <2>1. CASE DeleteTenant /\ Goto(p, "look") /\ UNCHANGED <<schema, rows, control>>
    <3>1. run' \in [Proc -> Run]
      BY <2>1, GotoFields
    <3>2. tenant' \in 0 .. MaxRuns
      BY <2>1 DEF DeleteTenant, NoTenant
    <3> QED
      BY <2>1, <3>1, <3>2 DEF DeleteTenant, TypeOK, control
  <2> QED
    BY <1>6, <2>1, FaultTypes DEF DeleteDemo
<1>7. CASE Look(p)
  <2>1. CASE /\ run' = [run EXCEPT
                  ![p].pc = IF tenant = NoTenant THEN "create" ELSE "migrate",
                  ![p].tid = tenant]
             /\ UNCHANGED <<database, control>>
    <3>1. (IF tenant = NoTenant THEN "create" ELSE "migrate") \in Labels
      OBVIOUS
    <3>2. run' \in [Proc -> Run]
      BY <2>1, <3>1, LookFields
    <3> QED
      BY <2>1, <3>2 DEF TypeOK, database, control
  <2> QED
    BY <1>7, <2>1, FaultTypes DEF Look
<1>8. ASSUME NEW label \in Labels, MigrateTo(p, label)
      PROVE  TypeOK'
  <2>1. run' \in [Proc -> Run]
    BY <1>8, GotoFields DEF MigrateTo
  <2> QED
    BY <1>8, <2>1 DEF TypeOK, MigrateTo, Migratable, control
<1>9. ASSUME NEW label \in Labels, MigrationFailsTo(p, label)
      PROVE  TypeOK'
  <2>1. CASE /\ schema.state = "behind" /\ faults < MaxFaults /\ faults' = faults + 1
             /\ schema' = [schema EXCEPT !.state = "dirty"]
             /\ run' = [run EXCEPT ![p].pc = label, ![p].disturbed = TRUE]
             /\ UNCHANGED <<tenant, apiKey, admin, rows, runs, overlap>>
    <3>1. run' \in [Proc -> Run]
      BY <2>1, FaultFields
    <3>2. faults' \in 0 .. MaxFaults
      <4>1. faults < MaxFaults /\ faults' = faults + 1
        BY <2>1, Zenon
      <4> HIDE DEF Labels
      <4> QED
        BY <4>1
    <3> QED
      BY <2>1, <3>1, <3>2 DEF TypeOK
  <2> QED
    BY <1>9, <2>1, GotoTypes, FaultTypes DEF MigrationFailsTo
<1>10. CASE Migrate(p) \/ Provision(p)
  BY <1>8, <1>9, <1>10 DEF Migrate, Provision
<1>11. CASE CreateTenant(p)
  <2>1. CASE /\ tenant = NoTenant /\ tenant' = runs
             /\ run' = [run EXCEPT ![p].pc = "schema", ![p].tid = runs, ![p].creates = TRUE]
             /\ UNCHANGED <<apiKey, admin, schema, rows, control>>
    <3>1. run' \in [Proc -> Run]
      BY <2>1, CreateFields
    <3>2. ~apiKey /\ admin = "none"
      BY <2>1 DEF TypeOK
    <3> QED
      BY <2>1, <3>1, <3>2 DEF TypeOK, control
  <2> QED
    BY <1>11, <2>1, GotoTypes, FaultTypes DEF CreateTenant
<1>12. CASE CreateSchema(p)
  <2>1. CASE /\ schema' = IF schema.state = "none"
                          THEN [no |-> runs, state |-> "behind"] ELSE schema
             /\ Goto(p, "provision") /\ UNCHANGED <<tenant, apiKey, admin, rows, control>>
    <3>1. run' \in [Proc -> Run]
      BY <2>1, GotoFields
    <3>2. schema' \in [no : 0 .. MaxRuns, state : {"none", "behind", "dirty", "ready"}]
      BY <2>1 DEF TypeOK
    <3> QED
      BY <2>1, <3>1, <3>2 DEF TypeOK, control
  <2> QED
    BY <1>12, <2>1, FaultTypes DEF CreateSchema
<1>13. CASE UndoSchema(p)
  <2>1. CASE DropSchema /\ Goto(p, "undo tenant")
             /\ UNCHANGED <<tenant, apiKey, admin, control>>
    BY <2>1, GotoFields DEF DropSchema, TypeOK, control
  <2> QED
    BY <1>13, <2>1, FaultTypes DEF UndoSchema
<1>14. CASE UndoTenant(p)
  <2>1. CASE DeleteTenant /\ Goto(p, "failed") /\ UNCHANGED <<schema, rows, control>>
    <3>1. run' \in [Proc -> Run]
      BY <2>1, GotoFields
    <3>2. tenant' \in 0 .. MaxRuns
      BY <2>1 DEF DeleteTenant, NoTenant
    <3> QED
      BY <2>1, <3>1, <3>2 DEF DeleteTenant, TypeOK, control
  <2>2. CASE Goto(p, "failed") /\ UNCHANGED <<tenant, apiKey, admin, schema, rows, control>>
    BY <2>2, GotoTypes DEF database
  <2> QED
    BY <1>14, <2>1, <2>2, FaultTypes DEF UndoTenant
<1>15. CASE InsertKey(p)
  <2>1. CASE /\ OwnsTenant(p) /\ apiKey' = TRUE /\ Goto(p, "rows")
             /\ UNCHANGED <<tenant, admin, schema, rows, control>>
    <3>1. run' \in [Proc -> Run]
      BY <2>1, GotoFields
    <3> QED
      BY <2>1, <3>1 DEF TypeOK, OwnsTenant, control
  <2> QED
    BY <1>15, <2>1, GotoTypes, FaultTypes DEF InsertKey
<1>16. CASE InsertRow(p)
  <2>1. run[p].next \in 1 .. Len(SeedRows)
    <3>1. run[p].next \in Nat \ {0} /\ run[p].next <= Len(SeedRows)
      BY <1>16 DEF InsertRow, Placed, Run
    <3> QED
      BY <3>1, SeedList
  <2> QED
    BY <1>16, <2>1, SeedRowsApart, InsertTypes DEF InsertRow, Row
<1>17. CASE EnsureLocalAdmin(p)
  <2>1. CASE /\ OwnsTenant(p)
             /\ admin' = IF run[p].password THEN "configured"
                         ELSE IF admin = "none" THEN "default" ELSE admin
             /\ Goto(p, IF run[p].mode = "demo" THEN "policies" ELSE "done")
             /\ UNCHANGED <<tenant, apiKey, schema, rows, control>>
    <3>1. run' \in [Proc -> Run]
      BY <2>1, GotoFields
    <3> QED
      BY <2>1, <3>1 DEF TypeOK, OwnsTenant, control
  <2> QED
    BY <1>17, <2>1, GotoTypes, FaultTypes DEF EnsureLocalAdmin
<1>18. CASE ReadPolicies(p)
  <2>1. CASE /\ run' = [run EXCEPT ![p].pc = "demo", ![p].knownIn = schema.no,
                                   ![p].known = PoliciesRead]
             /\ UNCHANGED <<database, control>>
    <3>1. schema.no \in 0 .. MaxRuns
      BY DEF TypeOK
    <3>2. run' \in [Proc -> Run]
      BY <2>1, <3>1, KeysKnown, ReadFields
    <3> QED
      BY <2>1, <3>2 DEF TypeOK, database, control
  <2> QED
    BY <1>18, <2>1, GotoTypes, FaultTypes DEF ReadPolicies, PoliciesRead
<1>19. CASE InsertDemo(p)
  <2>1. run[p].next \in 1 .. Len(DemoRows)
    <3>1. run[p].next \in Nat \ {0} /\ run[p].next <= Len(DemoRows)
      BY <1>19 DEF InsertDemo, Placed, Run
    <3> QED
      BY <3>1, DemoList
  <2> QED
    BY <1>19, <2>1, DemoRowsApart, InsertTypes DEF InsertDemo, Row
<1> QED
  BY <1>1, <1>2, <1>3, <1>4, <1>5, <1>6, <1>7, <1>10, <1>11, <1>12, <1>13, <1>14,
     <1>15, <1>16, <1>17, <1>18, <1>19 DEF Step

-----------------------------------------------------------------------------
(* The other runs.                                                         *)

Own(p) == Placed(p) /\ Owner(p) /\ Progress(p) /\ Found(p) /\ Way(p)

(* A run that has created the tenant is not undone by the seed runs it     *)
(* meets.                                                                  *)
LEMMA Quiet ==
  ASSUME TypeOK, NEW p \in Proc, NEW q \in Proc, p # q, Placed(p), Meet(p, q), Owner(q),
         ~overlap, On(q), run[q].creates, run[q].pc # "failed", Step(p), ~Start(p)
  PROVE  /\ UNCHANGED <<tenant, apiKey, rows>>
         /\ schema.state = "ready" => schema'.state = "ready"
         /\ admin # "none" => admin' # "none"
<1>1. On(p)
  BY Frame
<1>2. /\ run[p].mode # "demo" /\ (~run[p].creates \/ run[p].pc = "failed")
      /\ tenant # NoTenant
  BY <1>1 DEF Meet, Owner, Calm
<1>3. run[p].pc \notin Creating \cup {"check", "drop", "delete", "policies", "demo"}
  BY <1>2 DEF Placed, Creating
<1>4. \/ Exit(p) \/ Crash(p) \/ Look(p) \/ Migrate(p) \/ CreateTenant(p)
      \/ EnsureLocalAdmin(p)
  BY <1>3 DEF Step, Creating, CheckDemo, DropDemo, DeleteDemo, CreateSchema, Provision,
     UndoSchema, UndoTenant, InsertKey, InsertRow, ReadPolicies, InsertDemo
<1>5. CASE Exit(p)
  BY <1>5 DEF Exit, database
<1>6. CASE Crash(p)
  BY <1>6 DEF Crash, TypeOK
<1>7. CASE Look(p)
  BY <1>7 DEF Look, FaultTo, database
<1>8. CASE Migrate(p)
  BY <1>8 DEF Migrate, MigrateTo, MigrationFailsTo, FaultTo, database, TypeOK
<1>9. CASE CreateTenant(p)
  BY <1>2, <1>9 DEF CreateTenant, FaultTo, database
<1>10. CASE EnsureLocalAdmin(p)
  BY <1>10 DEF EnsureLocalAdmin, FaultTo, database
<1> QED
  BY <1>4, <1>5, <1>6, <1>7, <1>8, <1>9, <1>10

(* What holds of a run holds after a step of another.                      *)
LEMMA OthersStep ==
  ASSUME IInv, NEW p \in Proc, NEW q \in Proc, p # q, Step(p)
  PROVE  Own(q)'
<1> /\ TypeOK /\ run \in [Proc -> Run] /\ run[q] \in Run /\ runs \in Nat
    /\ Placed(q) /\ Owner(q) /\ Progress(q) /\ Found(q) /\ Way(q)
    /\ Placed(p) /\ Meet(p, q) /\ Meet(q, p)
  BY DEF IInv, TypeOK
<1>1. CASE ~On(q)
  <2>1. ~run[q].creates /\ run[q].mode = "seed" /\ run[q].next = 1
    BY <1>1 DEF Placed, On
  <2>2. run'[q] = run[q] \/ run'[q] = [run[q] EXCEPT !.disturbed = On(q)]
    BY StartStep, Frame
  <2>3. /\ run'[q].pc = "off" /\ ~run'[q].creates /\ run'[q].mode = "seed"
        /\ run'[q].next = 1
    BY <1>1, <2>1, <2>2 DEF Run, On
  <2> QED
    BY <2>3 DEF Own, Placed, On, Owner, Progress, Found, Way, Before, Creating, Finishing
<1>2. CASE On(q) /\ Start(p)
  <2>1. run'[q] = [run[q] EXCEPT !.disturbed = TRUE]
    BY <1>2, StartStep
  <2>2. /\ run'[q].pc = run[q].pc /\ run'[q].creates = run[q].creates
        /\ run'[q].mode = run[q].mode /\ run'[q].next = run[q].next
        /\ run'[q].tid = run[q].tid /\ run'[q].disturbed
        /\ run'[q].password = run[q].password
    BY <2>1 DEF Run
  <2>3. /\ UNCHANGED <<tenant, apiKey, admin, schema, rows>> /\ runs' = runs + 1
        /\ overlap => overlap'
    BY <1>2, StartStep
  <2>4. Placed(q)'
    <3>1. On(q)' /\ runs' > 0
      BY <1>2, <2>2, <2>3 DEF On
    <3> QED
      BY <2>2, <3>1, Zenon DEF Placed
  <2>5. Calm(q)' => Calm(q) /\ ~overlap /\ ~overlap'
    BY <2>2, <2>3 DEF Calm
  <2>6. Owner(q)'
    BY <1>2, <2>2, <2>3, <2>5 DEF Owner, On
  <2>7. Progress(q)'
    BY <2>2, <2>3, <2>5 DEF Progress, Finishing, Seeded
  <2>8. Found(q)'
    BY <2>2, <2>3 DEF Found, Finishing
  <2>9. Way(q)'
    BY <2>2 DEF Way
  <2> QED
    BY <2>4, <2>6, <2>7, <2>8, <2>9 DEF Own
<1>3. CASE On(q) /\ ~Start(p)
  <2>1. run'[q] = run[q] /\ UNCHANGED <<runs, overlap>> /\ On(p)
    BY <1>3, Frame
  <2>2. run[q].disturbed /\ (~overlap => run[q].mode # "demo")
    BY <1>3, <2>1 DEF Meet
  <2>3. Placed(q)'
    BY <2>1 DEF Placed, On
  <2>4. Way(q)'
    BY <2>1, <2>2 DEF Way
  <2>5. CASE overlap \/ ~run[q].creates \/ run[q].pc = "failed"
    <3>1. Owner(q)'
      BY <2>1, <2>2, <2>5 DEF Owner, Calm
    <3>2. Progress(q)' /\ Found(q)'
      BY <2>1, <2>2, <2>5 DEF Progress, Found, Calm, Placed, Creating, Finishing
    <3> QED
      BY <2>3, <2>4, <3>1, <3>2 DEF Own
  <2>6. CASE ~overlap /\ run[q].creates /\ run[q].pc # "failed"
    <3>1. /\ UNCHANGED <<tenant, apiKey, rows>>
          /\ schema.state = "ready" => schema'.state = "ready"
          /\ admin # "none" => admin' # "none"
      BY <1>3, <2>6, Quiet
    <3>2. Owner(q)'
      BY <2>1, <3>1 DEF Owner, Calm, On
    <3>3. Progress(q)'
      BY <2>1, <2>2, <3>1 DEF Progress, Calm, Placed, Finishing, Seeded
    <3>4. Found(q)'
      BY <2>1, <2>2, <3>1 DEF Found, Finishing
    <3> QED
      BY <2>3, <2>4, <3>2, <3>3, <3>4 DEF Own
  <2> QED
    BY <2>5, <2>6
<1> QED
  BY <1>1, <1>2, <1>3

(* What a run keeps of itself while it lasts.                              *)
LEMMA MovesStep ==
  ASSUME TypeOK, NEW p \in Proc, Step(p), ~Start(p), On(p)'
  PROVE  /\ run[p].disturbed => run'[p].disturbed
         /\ run'[p].mode = run[p].mode
         /\ \/ run'[p].creates = run[p].creates /\ run[p].pc # "failed"
            \/ tenant = NoTenant
<1> DEFINE Goal == /\ run[p].disturbed => run'[p].disturbed
                   /\ run'[p].mode = run[p].mode
                   /\ run'[p].creates = run[p].creates
<1> /\ run \in [Proc -> Run] /\ MaxRuns \in Nat /\ runs \in 0 .. MaxRuns
    /\ tenant \in 0 .. MaxRuns /\ schema.no \in 0 .. MaxRuns
  BY SeedingAssumption DEF TypeOK
<1>1. ASSUME NEW label \in Labels, Goto(p, label)
      PROVE  Goal
  BY <1>1, GotoFields DEF Same, SameTenant
<1>2. ASSUME NEW label \in Labels, FaultTo(p, label)
      PROVE  Goal
  BY <1>2, FaultFields DEF FaultTo, Same, SameTenant
<1>3. ASSUME NEW list, NEW after \in Labels, NEW mayInsert \in BOOLEAN,
             Insert(p, list, after, mayInsert)
      PROVE  Goal
  <2>1. CASE run' = [run EXCEPT
                       ![p].next = IF run[p].next = Len(list) THEN 1 ELSE @ + 1,
                       ![p].pc = IF run[p].next = Len(list) THEN after ELSE @]
    BY <2>1 DEF Run
  <2> QED
    BY <1>1, <1>2, <1>3, <2>1 DEF Insert, Labels
<1>4. CASE Exit(p) \/ Crash(p)
  BY <1>4 DEF Exit, Crash, On, NoRun
<1>5. CASE CheckDemo(p) \/ DropDemo(p) \/ DeleteDemo(p)
  <2>1. Goal
    BY <1>1, <1>2, <1>5 DEF CheckDemo, DropDemo, DeleteDemo, Labels
  <2> QED
    BY <1>5, <2>1 DEF CheckDemo, DropDemo, DeleteDemo
<1>6. CASE Look(p)
  <2>1. CASE run' = [run EXCEPT
               ![p].pc = IF tenant = NoTenant THEN "create" ELSE "migrate",
               ![p].tid = tenant]
    <3>1. (IF tenant = NoTenant THEN "create" ELSE "migrate") \in Labels
      BY DEF Labels
    <3> QED
      BY <1>6, <2>1, <3>1, LookFields, ZenonT(60) DEF Look, Same
  <2>2. CASE FaultTo(p, "create")
    BY <1>2, <1>6, <2>2 DEF Look, Labels
  <2> QED
    BY <1>6, <2>1, <2>2 DEF Look
<1>7. CASE Migrate(p) \/ Provision(p)
  <2>1. ASSUME NEW label \in Labels, MigrateTo(p, label) \/ MigrationFailsTo(p, label)
        PROVE  Goal
    <3>1. CASE run' = [run EXCEPT ![p].pc = label, ![p].disturbed = TRUE]
      BY <3>1, FaultFields DEF Same, SameTenant
    <3> QED
      BY <1>1, <1>2, <2>1, <3>1 DEF MigrateTo, MigrationFailsTo
  <2>2. Goal
    BY <1>7, <2>1 DEF Migrate, Provision, Labels
  <2> QED
    BY <1>7, <2>2 DEF Migrate, Provision
<1>8. CASE CreateTenant(p)
  <2>1. CASE /\ tenant = NoTenant
             /\ run' = [run EXCEPT ![p].pc = "schema", ![p].tid = runs, ![p].creates = TRUE]
    BY <2>1 DEF Run
  <2>2. CASE Goto(p, "failed") \/ FaultTo(p, "failed")
    BY <1>1, <1>2, <1>8, <2>2 DEF CreateTenant, Labels
  <2> QED
    BY <1>8, <2>1, <2>2 DEF CreateTenant
<1>9. CASE CreateSchema(p) \/ UndoSchema(p) \/ UndoTenant(p) \/ InsertKey(p)
  <2>1. Goal
    BY <1>1, <1>2, <1>9 DEF CreateSchema, UndoSchema, UndoTenant, InsertKey, Labels
  <2> QED
    BY <1>9, <2>1 DEF CreateSchema, UndoSchema, UndoTenant, InsertKey
<1>10. CASE InsertRow(p)
  <2>1. Goal
    BY <1>3, <1>10 DEF InsertRow, Labels
  <2> QED
    BY <1>10, <2>1 DEF InsertRow
<1>11. CASE InsertDemo(p)
  <2>1. Goal
    BY <1>3, <1>11 DEF InsertDemo, Labels
  <2> QED
    BY <1>11, <2>1 DEF InsertDemo
<1>12. CASE EnsureLocalAdmin(p)
  <2>1. Goal
    BY <1>1, <1>2, <1>12 DEF EnsureLocalAdmin, Labels
  <2> QED
    BY <1>12, <2>1 DEF EnsureLocalAdmin
<1>13. CASE ReadPolicies(p)
  <2>1. \/ run' = [run EXCEPT ![p].pc = "demo", ![p].knownIn = schema.no,
                             ![p].known = PoliciesRead]
        \/ Goto(p, "failed") \/ FaultTo(p, "failed")
    BY <1>13, Zenon DEF ReadPolicies, PoliciesRead
  <2>2. CASE run' = [run EXCEPT ![p].pc = "demo", ![p].knownIn = schema.no,
                                ![p].known = PoliciesRead]
    <3>1. "demo" \in Labels
      BY DEF Labels
    <3> QED
      BY <1>13, <2>2, <3>1, KeysKnown, ReadFields, ZenonT(60) DEF ReadPolicies, Same, SameTenant
  <2>3. CASE Goto(p, "failed") \/ FaultTo(p, "failed")
    BY <1>1, <1>2, <1>13, <2>3 DEF ReadPolicies, Labels
  <2> QED
    BY <2>1, <2>2, <2>3
<1> QED
  BY <1>4, <1>5, <1>6, <1>7, <1>8, <1>9, <1>10, <1>11, <1>12, <1>13 DEF Step

(* What two runs know of each other holds after every step.                *)
LEMMA MeetStep ==
  ASSUME IInv, NEW p \in Proc, Step(p)
  PROVE  \A q, r \in Proc : Meet(q, r)'
<1> /\ TypeOK /\ run \in [Proc -> Run]
    /\ \A q \in Proc : Placed(q) /\ Owner(q)
    /\ \A q, r \in Proc : Meet(q, r)
  BY DEF IInv, TypeOK
<1>1. CASE Start(p)
  <2>1. ASSUME NEW q \in Proc \ {p}
        PROVE  /\ On(q)' <=> On(q)
               /\ On(q) => run'[q].disturbed
               /\ run'[q].mode = run[q].mode /\ run'[q].creates = run[q].creates
               /\ run'[q].pc = run[q].pc
    <3>1. run[q] \in Run /\ run'[q] = [run[q] EXCEPT !.disturbed = On(q)]
      BY <1>1, StartStep
    <3> QED
      BY <3>1 DEF Run, On
  <2>2. /\ ~run'[p].creates
        /\ \A q \in Proc : On(q) => run'[p].disturbed
        /\ ~overlap' => /\ ~overlap
                        /\ \A q \in Proc : On(q) =>
                             run[q].mode # "demo" /\ run'[p].mode # "demo"
        /\ ~On(p)
    BY <1>1, StartStep DEF On
  <2>3. ASSUME NEW q \in Proc, NEW r \in Proc
        PROVE  Meet(q, r)'
    <3>1. CASE q # p /\ r # p
      BY <2>1, <2>2, <3>1 DEF Meet
    <3>2. CASE q = p /\ r # p
      BY <2>1, <2>2, <3>2 DEF Meet
    <3>3. CASE q # p /\ r = p
      BY <2>1, <2>2, <3>3 DEF Meet
    <3> QED
      BY <3>1, <3>2, <3>3 DEF Meet
  <2> QED
    BY <2>3
<1>2. CASE ~Start(p)
  <2>1. \A q \in Proc \ {p} : run'[q] = run[q]
    BY <1>2, Frame
  <2>2. overlap' = overlap /\ On(p)
    BY <1>2 DEF TypeOK, Step, On, Active, Exit, Crash, CheckDemo, DropDemo, DeleteDemo,
       Look, Migrate, CreateTenant, CreateSchema, Provision, UndoSchema, UndoTenant,
       InsertKey, InsertRow, Insert, EnsureLocalAdmin, ReadPolicies, InsertDemo, Goto,
       FaultTo, MigrateTo, MigrationFailsTo, database, control
  <2>3. On(p)' => /\ run[p].disturbed => run'[p].disturbed
                  /\ run'[p].mode = run[p].mode
                  /\ \/ run'[p].creates = run[p].creates /\ run[p].pc # "failed"
                     \/ tenant = NoTenant
    BY <1>2, MovesStep
  <2> QED
    BY <2>1, <2>2, <2>3 DEF Meet, Owner, Calm, On
<1> QED
  BY <1>1, <1>2

-----------------------------------------------------------------------------
(* The run that takes the step.                                            *)

(* A statement that fails has disturbed the run.                           *)
LEMMA FaultOwn ==
  ASSUME IInv, NEW p \in Proc, NEW label \in Labels, On(p),
         run' = [run EXCEPT ![p].pc = label, ![p].disturbed = TRUE],
         UNCHANGED <<tenant, runs, overlap>>,
         \/ label = "failed"
         \/ /\ label \in {"delete", "look", "create"} /\ ~run[p].creates
            /\ label = "delete" => run[p].mode = "demo"
            /\ run[p].next = 1
         \/ /\ label \in {"undo schema", "undo tenant"} /\ run[p].creates
            /\ run[p].pc # "failed" /\ run[p].next = 1
  PROVE  Own(p)'
<1>1. /\ run'[p].pc = label /\ Same(p) /\ SameTenant(p) /\ SameRows(p) /\ run'[p].disturbed
      /\ Placed(p) /\ Owner(p)
  BY FaultFields DEF IInv, TypeOK
<1>2. Placed(p)'
  <2>1. runs' > 0
    BY <1>1 DEF Placed
  <2> QED
    BY <1>1, <2>1 DEF Placed, On, Same, SameTenant, SameRows, Before, Creating
<1>3. Owner(p)'
  BY <1>1 DEF Owner, SameTenant, Calm
<1>4. Progress(p)'
  BY <1>1 DEF Progress, Finishing
<1>5. Found(p)'
  BY <1>1 DEF Found, Finishing
<1>6. Way(p)'
  BY <1>1 DEF Way
<1> QED
  BY <1>2, <1>3, <1>4, <1>5, <1>6 DEF Own

(* A run that gives up.                                                    *)
LEMMA FailedOwn ==
  ASSUME IInv, NEW p \in Proc, On(p), Goto(p, "failed"), UNCHANGED runs,
         run[p].mode = "demo" /\ ~run[p].disturbed => run[p].orphan /\ ~Orphan'
  PROVE  Own(p)'
<1>1. /\ run'[p].pc = "failed" /\ Same(p) /\ run'[p].disturbed = run[p].disturbed
      /\ Placed(p) /\ runs' > 0
  BY GotoFields DEF IInv, TypeOK, Labels, Placed
<1>2. Placed(p)'
  BY <1>1 DEF Placed, On, Before, Creating
<1>3. Owner(p)'
  BY <1>1 DEF Owner
<1>4. Progress(p)' /\ Found(p)'
  BY <1>1 DEF Progress, Found, Finishing
<1>5. Way(p)'
  BY <1>1 DEF Way, WayThere, WayBack, Same, Finishing
<1> QED
  BY <1>2, <1>3, <1>4, <1>5 DEF Own

(* A start.                                                                *)
LEMMA StartOwn ==
  ASSUME IInv, NEW p \in Proc, Start(p)
  PROVE  Own(p)'
<1>1. /\ run'[p].pc = IF run'[p].mode = "demo" THEN "check" ELSE "look"
      /\ ~run'[p].creates /\ run'[p].next = 1 /\ run'[p].orphan = Orphan
      /\ UNCHANGED <<tenant, schema>> /\ runs' > 0
  <2>1. runs' > 0
    BY StartStep DEF IInv, TypeOK
  <2> QED
    BY <2>1, StartStep DEF IInv, TypeOK
<1>2. Placed(p)'
  BY <1>1 DEF Placed, On, Before, Creating
<1>3. Owner(p)'
  BY <1>1 DEF Owner
<1>4. Progress(p)' /\ Found(p)'
  BY <1>1 DEF Progress, Found, Finishing
<1>5. Way(p)'
  BY <1>1 DEF Way, WayThere, WayBack, Finishing, Orphan
<1> QED
  BY <1>2, <1>3, <1>4, <1>5 DEF Own

(* An end, in order or not.                                                *)
LEMMA EndOwn ==
  ASSUME IInv, NEW p \in Proc, Exit(p) \/ Crash(p)
  PROVE  Own(p)'
<1>1. run'[p] = NoRun
  BY DEF Exit, Crash, IInv, TypeOK
<1>2. /\ run'[p].pc = "off" /\ ~run'[p].creates /\ run'[p].mode = "seed"
      /\ run'[p].next = 1
  BY <1>1 DEF NoRun
<1> QED
  BY <1>2 DEF Own, Placed, On, Owner, Progress, Found, Way, Before, Creating, Finishing

(* The statements of a demo run before it seeds.                           *)
LEMMA RebuildOwn ==
  ASSUME IInv, NEW p \in Proc, CheckDemo(p) \/ DropDemo(p) \/ DeleteDemo(p)
  PROVE  Own(p)'
<1> DEFINE after == CASE run[p].pc = "check" /\ tenant # NoTenant -> "drop"
                      [] run[p].pc = "drop" -> "delete"
                      [] OTHER -> "look"
<1>1. /\ run \in [Proc -> Run] /\ Placed(p) /\ Way(p) /\ On(p)
      /\ run[p].pc \in {"check", "drop", "delete"}
  BY DEF IInv, TypeOK, On, CheckDemo, DropDemo, DeleteDemo
<1>2. /\ run[p].mode = "demo" /\ ~run[p].creates /\ run[p].next = 1
  BY <1>1 DEF Placed, Before
<1>3. \/ /\ Goto(p, after) /\ UNCHANGED <<runs, overlap>>
         /\ \/ run[p].pc = "check" /\ UNCHANGED <<tenant, schema>>
            \/ run[p].pc = "drop" /\ schema'.state = "none" /\ UNCHANGED tenant
            \/ run[p].pc = "delete" /\ tenant' = NoTenant /\ UNCHANGED schema
      \/ FaultTo(p, "look") \/ FaultTo(p, "delete")
  BY DEF CheckDemo, DropDemo, DeleteDemo, DropSchema, DeleteTenant, database, control,
         IInv, TypeOK
<1>4. CASE FaultTo(p, "look") \/ FaultTo(p, "delete")
  <2>1. UNCHANGED <<tenant, runs, overlap>>
    BY <1>4 DEF FaultTo, database
  <2> QED
    BY <1>1, <1>2, <1>4, <2>1, FaultOwn DEF FaultTo, Labels
<1>5. CASE /\ Goto(p, after) /\ UNCHANGED <<runs, overlap>>
           /\ \/ run[p].pc = "check" /\ UNCHANGED <<tenant, schema>>
              \/ run[p].pc = "drop" /\ schema'.state = "none" /\ UNCHANGED tenant
              \/ run[p].pc = "delete" /\ tenant' = NoTenant /\ UNCHANGED schema
  <2>1. /\ run'[p].pc = after /\ Same(p) /\ SameTenant(p) /\ SameRows(p)
        /\ run'[p].disturbed = run[p].disturbed /\ after \in {"drop", "delete", "look"}
        /\ runs' > 0
    BY <1>1, <1>5, GotoFields DEF Labels, Placed
  <2>2. Placed(p)'
    BY <1>2, <2>1 DEF Placed, On, Same, SameTenant, SameRows, Before, Creating
  <2>3. Owner(p)' /\ Progress(p)' /\ Found(p)'
    BY <1>2, <2>1 DEF Owner, Progress, Found, Finishing, SameTenant
  <2>4. Way(p)'
    <3>1. CASE run[p].pc = "check"
      BY <1>1, <1>2, <1>5, <2>1, <3>1 DEF Way, WayThere, WayBack, Same, Finishing, Orphan
    <3>2. CASE run[p].pc = "drop"
      BY <1>1, <1>2, <1>5, <2>1, <3>2 DEF Way, WayThere, WayBack, Same, Finishing, Orphan
    <3>3. CASE run[p].pc = "delete"
      BY <1>1, <1>2, <1>5, <2>1, <3>3 DEF Way, WayThere, WayBack, Same, Finishing, Orphan
    <3> QED
      BY <1>1, <3>1, <3>2, <3>3
  <2> QED
    BY <2>2, <2>3, <2>4 DEF Own
<1> QED
  BY <1>3, <1>4, <1>5

(* The lookup of the tenant.                                               *)
LEMMA LookOwn ==
  ASSUME IInv, NEW p \in Proc, Look(p)
  PROVE  Own(p)'
<1> DEFINE after == IF tenant = NoTenant THEN "create" ELSE "migrate"
<1>1. /\ run \in [Proc -> Run] /\ Placed(p) /\ Way(p) /\ On(p) /\ run[p].pc = "look"
      /\ tenant \in 0 .. MaxRuns
  BY DEF IInv, TypeOK, On, Look
<1>2. ~run[p].creates /\ run[p].next = 1
  BY <1>1 DEF Placed, Before
<1>3. CASE FaultTo(p, "create")
  <2>1. UNCHANGED <<tenant, runs, overlap>>
    BY <1>3 DEF FaultTo, database
  <2> QED
    BY <1>1, <1>2, <1>3, <2>1, FaultOwn DEF FaultTo, Labels
<1>4. CASE /\ run' = [run EXCEPT ![p].pc = after, ![p].tid = tenant]
           /\ UNCHANGED <<database, control>>
  <2>1. /\ run'[p].pc = after /\ run'[p].tid = tenant /\ Same(p)
        /\ run'[p].creates = run[p].creates /\ SameRows(p)
        /\ run'[p].disturbed = run[p].disturbed
    <3>1. CASE tenant = NoTenant
      BY <1>1, <1>4, <3>1, LookFields DEF Labels
    <3>2. CASE tenant # NoTenant
      BY <1>1, <1>4, <3>2, LookFields DEF Labels
    <3> QED
      BY <3>1, <3>2
  <2>2. UNCHANGED <<tenant, schema>> /\ runs' > 0
    BY <1>1, <1>4 DEF database, control, Placed
  <2>3. Placed(p)'
    BY <1>2, <2>1, <2>2 DEF Placed, On, SameRows, Before, Creating
  <2>4. Owner(p)' /\ Progress(p)' /\ Found(p)'
    BY <1>2, <2>1, <2>2 DEF Owner, Progress, Found, Finishing
  <2>5. Way(p)'
    BY <1>1, <1>2, <2>1, <2>2 DEF Way, WayThere, WayBack, Same, Finishing, Orphan
  <2> QED
    BY <2>3, <2>4, <2>5 DEF Own
<1> QED
  BY <1>3, <1>4 DEF Look

(* The migration of a tenant that exists.                                  *)
LEMMA MigrateOwn ==
  ASSUME IInv, NEW p \in Proc, Migrate(p)
  PROVE  Own(p)'
<1>1. /\ run \in [Proc -> Run] /\ Placed(p) /\ Way(p) /\ Found(p) /\ On(p)
      /\ run[p].pc = "migrate" /\ schema.state \in {"none", "behind", "dirty", "ready"}
  BY DEF IInv, TypeOK, On, Migrate
<1>2. ~run[p].creates /\ run[p].next = 1
  BY <1>1 DEF Placed, Before
<1>3. ~(run[p].mode = "demo" /\ ~run[p].disturbed)
  BY <1>1 DEF Way, WayThere
<1>4. CASE MigrateTo(p, "admin")
  <2>1. /\ run'[p].pc = "admin" /\ Same(p) /\ SameTenant(p) /\ SameRows(p)
        /\ run'[p].disturbed = run[p].disturbed
    BY <1>1, <1>4, GotoFields DEF MigrateTo, Labels
  <2>2. /\ UNCHANGED <<tenant, overlap>> /\ runs' > 0 /\ schema'.state = "ready"
    BY <1>1, <1>4 DEF MigrateTo, control, Placed, IInv, TypeOK
  <2>3. Placed(p)'
    BY <1>2, <2>1, <2>2 DEF Placed, On, SameTenant, SameRows, Before, Creating
  <2>4. Owner(p)' /\ Progress(p)'
    BY <1>2, <2>1 DEF Owner, Progress, SameTenant
  <2>5. Found(p)'
    BY <1>1, <2>1, <2>2 DEF Found, SameTenant
  <2>6. Way(p)'
    BY <1>3, <2>1 DEF Way, Same
  <2> QED
    BY <2>3, <2>4, <2>5, <2>6 DEF Own
<1>5. CASE Goto(p, "failed") /\ UNCHANGED <<database, control>>
  BY <1>1, <1>3, <1>5, FailedOwn DEF control
<1>6. CASE /\ run' = [run EXCEPT ![p].pc = "failed", ![p].disturbed = TRUE]
           /\ UNCHANGED <<tenant, runs, overlap>>
  BY <1>1, <1>6, FaultOwn DEF Labels
<1> QED
  BY <1>4, <1>5, <1>6 DEF Migrate, MigrationFailsTo, FaultTo, database

(* The row of the tenant.                                                  *)
LEMMA CreateTenantOwn ==
  ASSUME IInv, NEW p \in Proc, CreateTenant(p)
  PROVE  Own(p)'
<1>1. /\ TypeOK /\ run \in [Proc -> Run] /\ Placed(p) /\ Way(p) /\ On(p)
      /\ run[p].pc = "create" /\ runs \in 0 .. MaxRuns
  BY DEF IInv, TypeOK, On, CreateTenant
<1>2. ~run[p].creates /\ run[p].next = 1 /\ runs > 0
  BY <1>1 DEF Placed, Before
<1>3. CASE /\ tenant = NoTenant /\ tenant' = runs
           /\ run' = [run EXCEPT ![p].pc = "schema", ![p].tid = runs, ![p].creates = TRUE]
           /\ UNCHANGED <<apiKey, admin, schema, rows, control>>
  <2>1. /\ run'[p].pc = "schema" /\ run'[p].tid = runs /\ run'[p].creates
        /\ Same(p) /\ SameRows(p) /\ run'[p].disturbed = run[p].disturbed
    BY <1>1, <1>3, CreateFields DEF Labels
  <2>2. Placed(p)'
    <3>1. runs' > 0
      BY <1>2, <1>3 DEF control
    <3> QED
      BY <1>2, <2>1, <3>1 DEF Placed, On, SameRows, Before, Creating
  <2>3. tenant' = run'[p].tid /\ tenant' # NoTenant
    BY <1>1, <1>2, <1>3, <2>1 DEF NoTenant
  <2>4. Owner(p)'
    BY <2>3 DEF Owner
  <2>5. Progress(p)' /\ Found(p)'
    BY <2>1 DEF Progress, Found, Finishing
  <2>6. ~apiKey' /\ (schema'.state = "none" => rows' = NoRows)
    BY <1>1, <1>3 DEF TypeOK
  <2>7. Way(p)'
    BY <1>1, <1>3, <2>1, <2>6 DEF Way, WayThere, WayBack, Same, Finishing
  <2> QED
    BY <2>2, <2>4, <2>5, <2>7 DEF Own
<1>4. CASE tenant # NoTenant /\ Goto(p, "failed") /\ UNCHANGED <<database, control>>
  <2>1. ~(run[p].mode = "demo" /\ ~run[p].disturbed)
    BY <1>1, <1>4 DEF Way, WayThere
  <2> QED
    BY <1>1, <1>4, <2>1, FailedOwn DEF control
<1>5. CASE FaultTo(p, "failed")
  <2>1. UNCHANGED <<tenant, runs, overlap>>
    BY <1>5 DEF FaultTo, database
  <2> QED
    BY <1>1, <1>5, <2>1, FaultOwn DEF FaultTo, Labels
<1> QED
  BY <1>3, <1>4, <1>5 DEF CreateTenant

(* The run that has created the tenant keeps it.                           *)
LEMMA CreatorFault ==
  ASSUME IInv, NEW p \in Proc, NEW label \in {"undo schema", "undo tenant", "failed"},
         run[p].pc \in Creating \ {"rows"},
         run' = [run EXCEPT ![p].pc = label, ![p].disturbed = TRUE],
         UNCHANGED <<tenant, runs, overlap>>
  PROVE  Own(p)'
<1>1. Placed(p) /\ On(p) /\ run[p].pc # "failed"
  BY DEF IInv, Creating, On
<1>2. run[p].creates /\ run[p].next = 1
  BY <1>1 DEF Placed, Creating
<1> QED
  BY <1>1, <1>2, FaultOwn DEF Labels

(* Its schema.                                                             *)
LEMMA CreateSchemaOwn ==
  ASSUME IInv, NEW p \in Proc, CreateSchema(p)
  PROVE  Own(p)'
<1>1. /\ TypeOK /\ run \in [Proc -> Run] /\ Placed(p) /\ Owner(p) /\ Way(p) /\ On(p)
      /\ run[p].pc = "schema"
  BY DEF IInv, TypeOK, On, CreateSchema
<1>2. run[p].creates /\ run[p].next = 1 /\ runs > 0
  BY <1>1 DEF Placed, Creating
<1>3. CASE /\ schema' = IF schema.state = "none"
                        THEN [no |-> runs, state |-> "behind"] ELSE schema
           /\ Goto(p, "provision") /\ UNCHANGED <<tenant, apiKey, admin, rows, control>>
  <2>1. /\ run'[p].pc = "provision" /\ Same(p) /\ SameTenant(p) /\ SameRows(p)
        /\ run'[p].disturbed = run[p].disturbed
    BY <1>1, <1>3, GotoFields DEF Labels
  <2>2. UNCHANGED <<tenant, apiKey, rows, overlap>> /\ runs' > 0
    BY <1>2, <1>3 DEF control
  <2>3. Placed(p)'
    BY <1>2, <2>1, <2>2 DEF Placed, On, SameTenant, SameRows, Before, Creating
  <2>4. Owner(p)'
    BY <1>1, <1>2, <2>1, <2>2 DEF Owner, Calm, SameTenant
  <2>5. Progress(p)' /\ Found(p)'
    BY <2>1 DEF Progress, Found, Finishing
  <2>6. schema'.state = "behind" \/ (schema' = schema /\ schema.state # "none")
    BY <1>3
  <2>7. Way(p)'
    BY <1>1, <2>1, <2>2, <2>6 DEF Way, WayThere, WayBack, Same, Finishing
  <2> QED
    BY <2>3, <2>4, <2>5, <2>7 DEF Own
<1>4. CASE FaultTo(p, "undo tenant")
  <2>1. UNCHANGED <<tenant, runs, overlap>>
    BY <1>4 DEF FaultTo, database
  <2> QED
    BY <1>1, <1>4, <2>1, CreatorFault DEF FaultTo, Creating
<1> QED
  BY <1>3, <1>4 DEF CreateSchema

(* The migration of a new tenant.                                          *)
LEMMA ProvisionOwn ==
  ASSUME IInv, NEW p \in Proc, Provision(p)
  PROVE  Own(p)'
<1>1. /\ TypeOK /\ run \in [Proc -> Run] /\ Placed(p) /\ Owner(p) /\ Way(p) /\ On(p)
      /\ run[p].pc = "provision" /\ schema.state \in {"none", "behind", "dirty", "ready"}
  BY DEF IInv, TypeOK, On, Provision
<1>2. run[p].creates /\ run[p].next = 1 /\ runs > 0
  BY <1>1 DEF Placed, Creating
<1>3. ASSUME NEW label \in {"key", "undo schema"}, Goto(p, label),
             UNCHANGED <<tenant, apiKey, rows, runs, overlap>>,
             label = "key" => schema'.state = "ready",
             label = "undo schema" => schema.state \notin {"behind", "ready"}
      PROVE  Own(p)'
  <2>1. /\ run'[p].pc = label /\ Same(p) /\ SameTenant(p) /\ SameRows(p)
        /\ run'[p].disturbed = run[p].disturbed
    BY <1>1, <1>3, GotoFields DEF Labels
  <2>2. UNCHANGED <<tenant, apiKey, rows, overlap>> /\ runs' > 0
    BY <1>2, <1>3
  <2>3. Placed(p)'
    BY <1>2, <2>1, <2>2 DEF Placed, On, SameTenant, SameRows, Before, Creating
  <2>4. Owner(p)'
    BY <1>1, <1>2, <2>1, <2>2 DEF Owner, Calm, SameTenant
  <2>5. Progress(p)'
    BY <1>3, <2>1 DEF Progress, Finishing
  <2>6. Found(p)'
    BY <2>1 DEF Found, Finishing
  <2>7. Way(p)'
    <3>1. CASE label = "key"
      BY <1>1, <2>1, <2>2, <3>1 DEF Way, WayThere, WayBack, Same, Finishing
    <3>2. CASE label = "undo schema"
      BY <1>1, <1>3, <2>1, <2>2, <3>2 DEF Way, WayThere, WayBack, Same, Finishing
    <3> QED
      BY <3>1, <3>2
  <2> QED
    BY <2>3, <2>4, <2>5, <2>6, <2>7 DEF Own
<1>4. CASE MigrateTo(p, "key")
  <2>1. schema'.state = "ready"
    BY <1>4 DEF MigrateTo, IInv, TypeOK
  <2> QED
    BY <1>3, <1>4, <2>1 DEF MigrateTo, control
<1>5. CASE ~Migratable /\ Goto(p, "undo schema") /\ UNCHANGED <<database, control>>
  BY <1>3, <1>5 DEF Migratable, database, control
<1>6. CASE /\ run' = [run EXCEPT ![p].pc = "undo schema", ![p].disturbed = TRUE]
           /\ UNCHANGED <<tenant, runs, overlap>>
  BY <1>1, <1>6, CreatorFault DEF Creating
<1> QED
  BY <1>4, <1>5, <1>6 DEF Provision, MigrationFailsTo, FaultTo, database

(* The statements that undo a failed provisioning.                         *)
LEMMA UndoOwn ==
  ASSUME IInv, NEW p \in Proc, UndoSchema(p) \/ UndoTenant(p)
  PROVE  Own(p)'
<1>1. /\ TypeOK /\ run \in [Proc -> Run] /\ Placed(p) /\ Owner(p) /\ Way(p) /\ On(p)
      /\ run[p].pc \in {"undo schema", "undo tenant"}
  BY DEF IInv, TypeOK, On, UndoSchema, UndoTenant
<1>2. run[p].creates /\ run[p].next = 1 /\ runs > 0
  BY <1>1 DEF Placed, Creating
<1>3. CASE /\ run[p].pc = "undo schema" /\ DropSchema /\ Goto(p, "undo tenant")
           /\ UNCHANGED <<tenant, apiKey, admin, control>>
  <2>1. /\ run'[p].pc = "undo tenant" /\ Same(p) /\ SameTenant(p) /\ SameRows(p)
        /\ run'[p].disturbed = run[p].disturbed
    BY <1>1, <1>3, GotoFields DEF Labels
  <2>2. UNCHANGED <<tenant, overlap>> /\ runs' > 0 /\ schema'.state = "none"
    BY <1>1, <1>2, <1>3 DEF control, DropSchema, TypeOK
  <2>3. Placed(p)'
    BY <1>2, <2>1, <2>2 DEF Placed, On, SameTenant, SameRows, Before, Creating
  <2>4. Owner(p)'
    BY <1>1, <1>2, <1>3, <2>1, <2>2 DEF Owner, Calm, SameTenant
  <2>5. Progress(p)' /\ Found(p)'
    BY <2>1 DEF Progress, Found, Finishing
  <2>6. Way(p)'
    BY <1>1, <1>3, <2>1, <2>2 DEF Way, WayThere, WayBack, Same, Finishing
  <2> QED
    BY <2>3, <2>4, <2>5, <2>6 DEF Own
<1>4. CASE run[p].pc = "undo tenant" /\ Goto(p, "failed") /\ UNCHANGED <<schema, runs>>
  <2>1. run[p].mode = "demo" /\ ~run[p].disturbed => run[p].orphan /\ ~Orphan'
    BY <1>1, <1>4 DEF Way, WayThere, Orphan
  <2> QED
    BY <1>1, <1>4, <2>1, FailedOwn
<1>5. CASE FaultTo(p, "undo tenant") \/ FaultTo(p, "failed")
  <2>1. UNCHANGED <<tenant, runs, overlap>>
    BY <1>5 DEF FaultTo, database
  <2> QED
    BY <1>1, <1>5, <2>1, CreatorFault DEF FaultTo, Creating
<1> QED
  BY <1>3, <1>4, <1>5 DEF UndoSchema, UndoTenant, control

(* The development key.                                                    *)
LEMMA InsertKeyOwn ==
  ASSUME IInv, NEW p \in Proc, InsertKey(p)
  PROVE  Own(p)'
<1>1. /\ TypeOK /\ run \in [Proc -> Run] /\ Placed(p) /\ Owner(p) /\ Progress(p) /\ Way(p)
      /\ On(p) /\ run[p].pc = "key"
  BY DEF IInv, TypeOK, On, InsertKey
<1>2. run[p].creates /\ run[p].next = 1 /\ runs > 0
  BY <1>1 DEF Placed, Creating
<1>3. CASE /\ apiKey' = TRUE /\ Goto(p, "rows")
           /\ UNCHANGED <<tenant, admin, schema, rows, control>>
  <2>1. /\ run'[p].pc = "rows" /\ Same(p) /\ SameTenant(p) /\ SameRows(p)
        /\ run'[p].disturbed = run[p].disturbed /\ run'[p].next = 1
    BY <1>1, <1>2, <1>3, GotoFields DEF Labels, SameRows
  <2>2. UNCHANGED <<tenant, schema, rows, overlap>> /\ runs' > 0 /\ apiKey'
    BY <1>2, <1>3 DEF control
  <2>3. Placed(p)'
    BY <1>2, <2>1, <2>2, SeedList DEF Placed, On, SameTenant, Before, Creating
  <2>4. Owner(p)'
    BY <1>1, <1>2, <2>1, <2>2 DEF Owner, Calm, SameTenant
  <2>5. Progress(p)'
    <3>1. Calm(p)' => Calm(p)
      BY <2>1, <2>2 DEF Calm
    <3>2. \A i \in 1 .. run'[p].next - 1 : FALSE
      BY <2>1
    <3>3. run'[p].next \notin 2 .. Length + 1
      BY <2>1, SeedList
    <3> QED
      BY <1>1, <2>1, <2>2, <3>1, <3>2, <3>3 DEF Progress, Finishing
  <2>6. Found(p)'
    BY <2>1 DEF Found, Finishing
  <2>7. Way(p)'
    <3>1. rows = NoRows => NoDemo' /\ \A i \in 1 .. Len(SeedRows) : rows'[SeedRows[i]] = 0
      BY <2>2, SeedRowsApart DEF NoDemo, NoRows, Row
    <3> QED
      BY <1>1, <2>1, <2>2, <3>1 DEF Way, WayThere, WayBack, Same, Finishing
  <2> QED
    BY <2>3, <2>4, <2>5, <2>6, <2>7 DEF Own
<1>4. CASE /\ ~OwnsTenant(p) \/ apiKey
           /\ Goto(p, "failed") /\ UNCHANGED <<database, control>>
  <2>1. ~(run[p].mode = "demo" /\ ~run[p].disturbed)
    BY <1>1, <1>2, <1>4 DEF Way, WayThere, Owner, Calm, OwnsTenant
  <2> QED
    BY <1>1, <1>4, <2>1, FailedOwn DEF control
<1>5. CASE FaultTo(p, "failed")
  <2>1. UNCHANGED <<tenant, runs, overlap>>
    BY <1>5 DEF FaultTo, database
  <2> QED
    BY <1>1, <1>5, <2>1, CreatorFault DEF FaultTo, Creating
<1> QED
  BY <1>3, <1>4, <1>5 DEF InsertKey

(* A list of rows of which one more is inserted.                           *)
LEMMA Inserted ==
  ASSUME TypeOK, NEW row \in Row, rows' = [rows EXCEPT ![row] = @ + 1]
  PROVE  /\ \A r \in Row : rows[r] > 0 => rows'[r] > 0
         /\ rows'[row] > 0 /\ rows'[row] = rows[row] + 1
         /\ \A r \in Row : r # row => rows'[r] = rows[r]
BY DEF TypeOK

(* A row of the seed list.                                                 *)
LEMMA InsertRowOwn ==
  ASSUME IInv, NEW p \in Proc, InsertRow(p)
  PROVE  Own(p)'
<1> DEFINE n == run[p].next
           row == SeedRows[n]
           last == n = Len(SeedRows)
<1>1. /\ TypeOK /\ run \in [Proc -> Run] /\ Placed(p) /\ Owner(p) /\ Progress(p)
      /\ Way(p) /\ Ordered /\ On(p) /\ run[p].pc = "rows" /\ runs > 0
  BY DEF IInv, TypeOK, On, InsertRow, Placed
<1>2. run[p].creates /\ n \in 1 .. Len(SeedRows)
  BY <1>1, SeedList DEF Placed, Creating, Run
<1>3. row \in SeedSet /\ row \in Row
  BY <1>2, SeedRowsApart DEF Row
<1>4. CASE /\ schema.state # "none" /\ (row = ConfigRow \/ rows[row] = 0)
           /\ rows' = [rows EXCEPT ![row] = @ + 1]
           /\ run' = [run EXCEPT ![p].next = IF last THEN 1 ELSE n + 1,
                                 ![p].pc = IF last THEN "admin" ELSE "rows"]
           /\ UNCHANGED <<tenant, apiKey, admin, schema, control>>
  <2>1. /\ \A r \in Row : rows[r] > 0 => rows'[r] > 0
        /\ rows'[row] > 0
        /\ \A r \in Row : r # row => rows'[r] = rows[r]
    BY <1>1, <1>3, <1>4, Inserted
  <2>2. UNCHANGED <<tenant, apiKey, admin, schema, overlap>> /\ runs' > 0
    BY <1>1, <1>4 DEF control
  <2>3. ASSUME NEW i \in 1 .. Len(SeedRows)
        PROVE  SeedRows[i] \in Row /\ (i # n => SeedRows[i] # row)
    BY <1>2, SeedRowsApart DEF Row
  <2>4. \A r \in DemoSet : r \in Row /\ r # row
    BY <1>3, RowsApart DEF Row
  <2>5. CASE ~last
    <3>1. /\ run'[p].pc = "rows" /\ run'[p].next = n + 1 /\ Same(p) /\ SameTenant(p)
          /\ run'[p].disturbed = run[p].disturbed
      <4>1. run' = [run EXCEPT ![p].next = n + 1, ![p].pc = "rows"] /\ n + 1 \in Nat \ {0}
        BY <1>2, <1>4, <2>5, SeedList
      <4> QED
        BY <1>1, <4>1, InsertFields, ZenonT(60) DEF Labels
    <3>2. Placed(p)'
      BY <1>2, <2>2, <2>5, <3>1, SeedList DEF Placed, On, SameTenant, Before, Creating
    <3>3. Owner(p)'
      BY <1>1, <1>2, <2>2, <3>1 DEF Owner, Calm, SameTenant
    <3>4. Progress(p)'
      <4>1. Calm(p)' => Calm(p)
        BY <2>2, <3>1 DEF Calm
      <4>2. ASSUME Calm(p), NEW i \in 1 .. n
            PROVE  rows'[SeedRows[i]] > 0
        <5>1. i \in 1 .. Len(SeedRows) /\ (i = n \/ i \in 1 .. n - 1)
          BY <1>2, SeedList
        <5> QED
          BY <1>1, <2>1, <2>3, <4>2, <5>1 DEF Progress
      <4>3. ASSUME ~overlap, n + 1 \in 2 .. Length + 1
            PROVE  rows'[ConfigRow] = 0
        <5>1. n \in 1 .. Length
          BY <1>2, <4>3, SeedList
        <5>2. ConfigRow \in Row /\ ConfigRow # row
          BY <1>2, <2>3, <5>1, SeedList
        <5>3. rows[ConfigRow] = 0
          <6>1. CASE n = 1
            BY <1>1, <1>4, <4>3, <5>2, <6>1 DEF Ordered, TypeOK
          <6>2. CASE n \in 2 .. Length + 1
            BY <1>1, <4>3, <6>2 DEF Progress
          <6> QED
            BY <5>1, <6>1, <6>2, SeedList
        <5> QED
          BY <2>1, <5>2, <5>3
      <4>4. run'[p].next = n + 1 /\ run'[p].next - 1 = n
        BY <1>2, <3>1, SeedList
      <4>5. \A i \in 1 .. run'[p].next - 1 : Calm(p) => rows'[SeedRows[i]] > 0
        BY <4>2, <4>4
      <4>6. ~overlap /\ run'[p].next \in 2 .. Length + 1 => rows'[ConfigRow] = 0
        BY <4>3, <4>4
      <4>7. Calm(p) => apiKey /\ schema.state = "ready"
        BY <1>1 DEF Progress
      <4> HIDE DEF n
      <4> QED
        BY <2>2, <3>1, <4>1, <4>5, <4>6, <4>7 DEF Progress, Finishing
    <3>5. Found(p)'
      BY <3>1 DEF Found, Finishing
    <3>6. Way(p)'
      <4>1. NoDemo => NoDemo'
        BY <2>1, <2>4 DEF NoDemo
      <4>2. ASSUME \A i \in n .. Len(SeedRows) : rows[SeedRows[i]] = 0,
                   NEW i \in n + 1 .. Len(SeedRows)
            PROVE  rows'[SeedRows[i]] = 0
        <5>1. i \in 1 .. Len(SeedRows) /\ i # n /\ i \in n .. Len(SeedRows)
          BY <1>2, SeedList
        <5> QED
          BY <2>1, <2>3, <4>2, <5>1
      <4> QED
        BY <1>1, <3>1, <4>1, <4>2 DEF Way, WayThere, WayBack, Same, Finishing
    <3> QED
      BY <3>2, <3>3, <3>4, <3>5, <3>6 DEF Own
  <2>6. CASE last
    <3>1. /\ run'[p].pc = "admin" /\ run'[p].next = 1 /\ Same(p) /\ SameTenant(p)
          /\ run'[p].disturbed = run[p].disturbed
      <4>1. run' = [run EXCEPT ![p].next = 1, ![p].pc = "admin"] /\ 1 \in Nat \ {0}
        BY <1>4, <2>6
      <4> QED
        BY <1>1, <4>1, InsertFields DEF Labels
    <3>2. Placed(p)'
      BY <2>2, <3>1 DEF Placed, On, Before, Creating
    <3>3. Owner(p)'
      BY <1>1, <1>2, <2>2, <3>1 DEF Owner, Calm, SameTenant
    <3>4. Calm(p)' => Calm(p)
      BY <2>2, <3>1 DEF Calm
    <3>5. Calm(p) => apiKey /\ schema.state = "ready"
      BY <1>1 DEF Progress
    <3>6. Progress(p)'
      <4>1. ASSUME Calm(p), NEW r \in SeedSet
            PROVE  rows'[r] > 0
        <5>1. PICK i \in 1 .. Len(SeedRows) : r = SeedRows[i]
          BY SeedRowsApart
        <5>2. i = n \/ i \in 1 .. n - 1
          <6>1. n = Len(SeedRows) /\ Len(SeedRows) \in Nat
            BY <2>6, SeedList
          <6> HIDE DEF n
          <6> QED
            BY <5>1, <6>1
        <5> QED
          BY <1>1, <2>1, <2>3, <4>1, <5>1, <5>2 DEF Progress
      <4> QED
        BY <2>2, <3>1, <3>4, <3>5, <4>1 DEF Progress, Seeded
    <3>7. Found(p)'
      BY <1>1, <1>2, <2>2, <3>1, <3>5 DEF Found, Owner, Calm, SameTenant
    <3>8. Way(p)'
      <4>1. NoDemo => NoDemo'
        BY <2>1, <2>4 DEF NoDemo
      <4> QED
        BY <1>1, <1>2, <3>1, <4>1 DEF Way, WayThere, WayBack, Same, SameTenant
    <3> QED
      BY <3>2, <3>3, <3>6, <3>7, <3>8 DEF Own
  <2> QED
    BY <2>5, <2>6
<1>5. CASE /\ schema.state # "ready" \/ ~(row = ConfigRow \/ rows[row] = 0)
           /\ Goto(p, "failed") /\ UNCHANGED <<database, control>>
  <2>1. ASSUME run[p].mode = "demo", ~run[p].disturbed
        PROVE  run[p].orphan /\ ~Orphan'
    <3>1. tenant' # NoTenant /\ schema.state = "ready"
      BY <1>1, <1>2, <1>5, <2>1 DEF Owner, Progress, Calm, database
    <3>2. ~run[p].orphan => rows[row] = 0
      <4>1. n \in n .. Len(SeedRows)
        BY <1>2, SeedList
      <4> QED
        BY <1>1, <2>1, <4>1 DEF Way, WayBack
    <3> QED
      BY <1>5, <3>1, <3>2 DEF Orphan
  <2> QED
    BY <1>1, <1>5, <2>1, FailedOwn DEF control
<1>6. CASE FaultTo(p, "failed")
  <2>1. UNCHANGED <<tenant, runs, overlap>>
    BY <1>6 DEF FaultTo, database
  <2> QED
    BY <1>1, <1>6, <2>1, FaultOwn DEF FaultTo, Labels
<1> QED
  BY <1>1, <1>4, <1>5, <1>6 DEF InsertRow, Insert

(* The administrator.                                                      *)
LEMMA EnsureLocalAdminOwn ==
  ASSUME IInv, NEW p \in Proc, EnsureLocalAdmin(p)
  PROVE  Own(p)'
<1> DEFINE after == IF run[p].mode = "demo" THEN "policies" ELSE "done"
<1>1. /\ TypeOK /\ run \in [Proc -> Run] /\ Placed(p) /\ Owner(p) /\ Progress(p)
      /\ Found(p) /\ Way(p) /\ On(p) /\ run[p].pc = "admin" /\ runs > 0 /\ run[p].next = 1
      /\ run[p].mode \in {"seed", "demo"}
  BY DEF IInv, TypeOK, On, EnsureLocalAdmin, Placed, Run
<1>2. CASE /\ OwnsTenant(p)
           /\ admin' = IF run[p].password THEN "configured"
                       ELSE IF admin = "none" THEN "default" ELSE admin
           /\ Goto(p, after) /\ UNCHANGED <<tenant, apiKey, schema, rows, control>>
  <2>1. /\ run'[p].pc = after /\ Same(p) /\ SameTenant(p) /\ SameRows(p)
        /\ run'[p].disturbed = run[p].disturbed
    BY <1>1, <1>2, GotoFields DEF Labels
  <2>2. UNCHANGED <<tenant, apiKey, schema, rows, overlap>> /\ runs' > 0
    BY <1>1, <1>2 DEF control
  <2>3. admin' # "none" /\ (run[p].password => admin' = "configured")
    BY <1>2
  <2>4. Placed(p)'
    BY <1>1, <2>1, <2>2 DEF Placed, On, Same, SameTenant, SameRows, Before, Creating
  <2>5. Owner(p)'
    BY <1>1, <2>1, <2>2 DEF Owner, Calm, SameTenant
  <2>6. Calm(p)' => Calm(p)
    BY <2>1, <2>2 DEF Calm
  <2>7. Progress(p)'
    BY <1>1, <2>1, <2>2, <2>6 DEF Progress, SameTenant, Finishing, Seeded
  <2>8. Found(p)'
    BY <1>1, <2>1, <2>2, <2>3 DEF Found, Same, SameTenant, Finishing
  <2>9. Way(p)'
    <3>1. NoDemo' = NoDemo
      BY <2>2 DEF NoDemo
    <3> QED
      BY <1>1, <2>1, <3>1 DEF Way, WayThere, WayBack, Same, SameTenant, Finishing
  <2> QED
    BY <2>4, <2>5, <2>7, <2>8, <2>9 DEF Own
<1>3. CASE ~OwnsTenant(p) /\ Goto(p, "failed") /\ UNCHANGED <<database, control>>
  <2>1. run[p].disturbed
    BY <1>1, <1>3 DEF Found, Finishing, OwnsTenant
  <2> QED
    BY <1>1, <1>3, <2>1, FailedOwn DEF control
<1>4. CASE FaultTo(p, "failed")
  <2>1. UNCHANGED <<tenant, runs, overlap>>
    BY <1>4 DEF FaultTo, database
  <2> QED
    BY <1>1, <1>4, <2>1, FaultOwn DEF FaultTo, Labels
<1> QED
  BY <1>2, <1>3, <1>4 DEF EnsureLocalAdmin

(* The policies a demo run goes on with.                                   *)
LEMMA ReadPoliciesOwn ==
  ASSUME IInv, NEW p \in Proc, ReadPolicies(p)
  PROVE  Own(p)'
<1>1. /\ TypeOK /\ run \in [Proc -> Run] /\ Placed(p) /\ Owner(p) /\ Progress(p)
      /\ Found(p) /\ Way(p) /\ On(p) /\ run[p].pc = "policies" /\ runs > 0
      /\ run[p].next = 1 /\ run[p].mode = "demo" /\ schema.no \in 0 .. MaxRuns
  BY DEF IInv, TypeOK, On, ReadPolicies, Placed
<1>2. CASE /\ run' = [run EXCEPT ![p].pc = "demo", ![p].knownIn = schema.no,
                                 ![p].known = PoliciesRead]
           /\ UNCHANGED <<database, control>>
  <2>1. /\ run'[p].pc = "demo" /\ run'[p].known = PoliciesRead
        /\ run'[p].knownIn = schema.no /\ Same(p) /\ SameTenant(p)
        /\ run'[p].next = run[p].next /\ run'[p].disturbed = run[p].disturbed
    <3>1. run[p] \in Run /\ run' = [run EXCEPT ![p] =
             [run[p] EXCEPT !.pc = "demo", !.knownIn = schema.no, !.known = PoliciesRead]]
      BY <1>1, <1>2
    <3> QED
      BY <1>1, <3>1 DEF Run, Same, SameTenant
  <2>2. UNCHANGED <<tenant, apiKey, admin, schema, rows, overlap>> /\ runs' > 0
    BY <1>1, <1>2 DEF database, control
  <2>3. Placed(p)'
    BY <1>1, <2>1, <2>2, DemoList DEF Placed, On, Same, SameTenant, Before, Creating
  <2>4. Owner(p)'
    BY <1>1, <2>1, <2>2 DEF Owner, Calm, SameTenant
  <2>5. Calm(p)' => Calm(p)
    BY <2>1, <2>2 DEF Calm
  <2>6. Progress(p)'
    <3>1. ~(run'[p].next > 1) /\ \A i \in 1 .. run'[p].next - 1 : FALSE
      BY <1>1, <2>1
    <3> QED
      BY <1>1, <2>1, <2>2, <2>5, <3>1 DEF Progress, SameTenant, Finishing, Seeded
  <2>7. Found(p)'
    BY <1>1, <2>1, <2>2 DEF Found, Same, SameTenant, Finishing
  <2>8. Way(p)'
    <3>1. ASSUME ~run[p].disturbed
          PROVE  /\ run[p].creates /\ Entries(Priorities) \subseteq PoliciesRead
                 /\ ~run[p].orphan => NoDemo
      BY <1>1, <3>1, KeysKnown DEF Way, WayBack, Progress, Calm, Finishing
    <3>2. NoDemo => \A i \in 1 .. Len(DemoRows) : rows'[DemoRows[i]] = 0
      BY <2>2, DemoRowsApart DEF NoDemo
    <3> QED
      BY <1>1, <2>1, <2>2, <3>1, <3>2 DEF Way, WayThere, WayBack, Same, SameTenant, Finishing
  <2> QED
    BY <2>3, <2>4, <2>6, <2>7, <2>8 DEF Own
<1>3. CASE schema.state # "ready" /\ Goto(p, "failed") /\ UNCHANGED <<database, control>>
  <2>1. run[p].disturbed
    BY <1>1, <1>3 DEF Found, Finishing
  <2> QED
    BY <1>1, <1>3, <2>1, FailedOwn DEF control
<1>4. CASE FaultTo(p, "failed")
  <2>1. UNCHANGED <<tenant, runs, overlap>>
    BY <1>4 DEF FaultTo, database
  <2> QED
    BY <1>1, <1>4, <2>1, FaultOwn DEF FaultTo, Labels
<1>5. \/ /\ run' = [run EXCEPT ![p].pc = "demo", ![p].knownIn = schema.no,
                               ![p].known = PoliciesRead]
         /\ UNCHANGED <<database, control>>
      \/ schema.state # "ready" /\ Goto(p, "failed") /\ UNCHANGED <<database, control>>
      \/ FaultTo(p, "failed")
  BY Zenon DEF ReadPolicies, PoliciesRead
<1> QED
  BY <1>2, <1>3, <1>4, <1>5

(* A row of the demo list.                                                 *)
LEMMA InsertDemoOwn ==
  ASSUME IInv, NEW p \in Proc, InsertDemo(p)
  PROVE  Own(p)'
<1> DEFINE n == run[p].next
           row == DemoRows[n]
           last == n = Len(DemoRows)
           MayInsert == /\ schema.no = run[p].knownIn
                        /\ row.table = "ticket_meta" =>
                             rows[row] = 0 /\ Demo[row.key] \in run[p].known
<1>1. /\ TypeOK /\ run \in [Proc -> Run] /\ Placed(p) /\ Owner(p) /\ Progress(p)
      /\ Found(p) /\ Way(p) /\ Ordered /\ On(p) /\ run[p].pc = "demo" /\ runs > 0
      /\ run[p].mode = "demo"
  BY DEF IInv, TypeOK, On, InsertDemo, Placed
<1>2. n \in 1 .. Len(DemoRows)
  BY <1>1, DemoList DEF Placed, Run
<1>3. row \in DemoSet /\ row \in Row
  BY <1>2, DemoRowsApart DEF Row
<1>4. CASE /\ MayInsert /\ rows' = [rows EXCEPT ![row] = @ + 1]
           /\ run' = [run EXCEPT ![p].next = IF last THEN 1 ELSE n + 1,
                                 ![p].pc = IF last THEN "done" ELSE "demo"]
           /\ UNCHANGED <<tenant, apiKey, admin, schema, control>>
  <2>1. /\ \A r \in Row : rows[r] > 0 => rows'[r] > 0
        /\ rows'[row] > 0
        /\ \A r \in Row : r # row => rows'[r] = rows[r]
    BY <1>1, <1>3, <1>4, Inserted
  <2>2. UNCHANGED <<tenant, apiKey, admin, schema, overlap>> /\ runs' > 0
    BY <1>1, <1>4 DEF control
  <2>3. ASSUME NEW i \in 1 .. Len(DemoRows)
        PROVE  DemoRows[i] \in Row /\ (i # n => DemoRows[i] # row)
    BY <1>2, DemoRowsApart DEF Row
  <2>4. Seeded => Seeded'
    BY <2>1, <2>2 DEF Seeded, Row
  <2>5. ASSUME Calm(p), NEW i \in 1 .. n
        PROVE  rows'[DemoRows[i]] > 0
    <3>1. i \in 1 .. Len(DemoRows) /\ (i = n \/ i \in 1 .. n - 1)
      BY <1>2, DemoList
    <3> QED
      BY <1>1, <2>1, <2>3, <2>5, <3>1 DEF Progress
  <2>6. CASE ~last
    <3>1. /\ run'[p].pc = "demo" /\ run'[p].next = n + 1 /\ Same(p) /\ SameTenant(p)
          /\ run'[p].known = run[p].known /\ run'[p].knownIn = run[p].knownIn
          /\ run'[p].disturbed = run[p].disturbed
      <4>1. run' = [run EXCEPT ![p].next = n + 1, ![p].pc = "demo"] /\ n + 1 \in Nat \ {0}
        BY <1>2, <1>4, <2>6, DemoList
      <4> QED
        BY <1>1, <4>1, InsertFields, ZenonT(60) DEF Labels
    <3>2. Placed(p)'
      BY <1>1, <1>2, <2>2, <2>6, <3>1, DemoList DEF Placed, On, Same, Before, Creating
    <3>3. Owner(p)'
      BY <1>1, <2>2, <3>1 DEF Owner, Calm, SameTenant
    <3>4. Progress(p)'
      <4>1. Calm(p)' => Calm(p)
        BY <2>2, <3>1 DEF Calm
      <4>2. run'[p].next = n + 1 /\ run'[p].next - 1 = n
        BY <1>2, <3>1, DemoList
      <4>3. \A i \in 1 .. run'[p].next - 1 : Calm(p) => rows'[DemoRows[i]] > 0
        BY <2>5, <4>2
      <4>4. ASSUME ~overlap, NEW i \in n + 1 .. Len(DemoRows), i > DemoLength
            PROVE  rows'[DemoRows[i]] = 0
        <5>1. i \in 1 .. Len(DemoRows) /\ i # n /\ i \in n .. Len(DemoRows)
              /\ i \in DemoLength + 1 .. Len(DemoRows)
          BY <1>2, <4>4, DemoList
        <5>2. rows[DemoRows[i]] = 0
          <6>1. CASE n = 1
            <7>1. row.table = "ticket_meta"
              BY <6>1, DemoList, DemoRowsApart
            <7>2. rows[DemoRows[1]] = 0
              BY <1>4, <6>1, <7>1
            <7>3. rows[DemoRows[i]] \in Nat
              BY <1>1, <2>3, <5>1 DEF TypeOK
            <7> QED
              BY <1>1, <4>4, <5>1, <7>2, <7>3 DEF Ordered
          <6>2. CASE n > 1
            BY <1>1, <4>4, <5>1, <6>2 DEF Progress
          <6> QED
            BY <1>2, <6>1, <6>2, DemoList
        <5> QED
          BY <2>1, <2>3, <5>1, <5>2
      <4>5. ASSUME ~overlap, NEW i \in run'[p].next .. Len(DemoRows), i > DemoLength
            PROVE  rows'[DemoRows[i]] = 0
        BY <4>2, <4>4, <4>5
      <4>6. /\ Calm(p) /\ run[p].creates => Seeded /\ schema.state = "ready"
        BY <1>1 DEF Progress, Finishing
      <4> HIDE DEF n
      <4> QED
        BY <2>2, <2>4, <3>1, <4>1, <4>3, <4>5, <4>6 DEF Progress, Finishing, SameTenant
    <3>5. Found(p)'
      BY <1>1, <2>2, <3>1 DEF Found, Same, SameTenant, Finishing
    <3>6. Way(p)'
      <4>1. ASSUME \A i \in n .. Len(DemoRows) : rows[DemoRows[i]] = 0,
                   NEW i \in n + 1 .. Len(DemoRows)
            PROVE  rows'[DemoRows[i]] = 0
        <5>1. i \in 1 .. Len(DemoRows) /\ i # n /\ i \in n .. Len(DemoRows)
          BY <1>2, DemoList
        <5> QED
          BY <2>1, <2>3, <4>1, <5>1
      <4> QED
        BY <1>1, <2>2, <3>1, <4>1 DEF Way, WayThere, WayBack, Same, SameTenant, Finishing
    <3> QED
      BY <3>2, <3>3, <3>4, <3>5, <3>6 DEF Own
  <2>7. CASE last
    <3>1. /\ run'[p].pc = "done" /\ run'[p].next = 1 /\ Same(p) /\ SameTenant(p)
          /\ run'[p].disturbed = run[p].disturbed
      <4>1. run' = [run EXCEPT ![p].next = 1, ![p].pc = "done"] /\ 1 \in Nat \ {0}
        BY <1>4, <2>7
      <4> QED
        BY <1>1, <4>1, InsertFields DEF Labels
    <3>2. Placed(p)'
      BY <2>2, <3>1 DEF Placed, On, Before, Creating
    <3>3. Owner(p)'
      BY <1>1, <2>2, <3>1 DEF Owner, Calm, SameTenant
    <3>4. Calm(p)' => Calm(p)
      BY <2>2, <3>1 DEF Calm
    <3>5. Progress(p)'
      <4>1. Calm(p) /\ run[p].creates => Seeded /\ schema.state = "ready"
        BY <1>1 DEF Progress, Finishing
      <4> QED
        BY <2>2, <2>4, <3>1, <3>4, <4>1 DEF Progress, Finishing, SameTenant
    <3>6. Found(p)'
      BY <1>1, <2>2, <3>1 DEF Found, Same, SameTenant, Finishing
    <3>7. Way(p)'
      <4>1. ASSUME Calm(p), NEW r \in DemoSet
            PROVE  rows'[r] > 0
        <5>1. PICK i \in 1 .. Len(DemoRows) : r = DemoRows[i]
          BY DemoRowsApart
        <5> QED
          BY <2>5, <2>7, <4>1, <5>1
      <4> QED
        BY <1>1, <3>1, <4>1 DEF Way, WayThere, WayBack, Same, SameTenant, Finishing, Calm
    <3> QED
      BY <3>2, <3>3, <3>5, <3>6, <3>7 DEF Own
  <2> QED
    BY <2>6, <2>7
<1>5. CASE /\ schema.state # "ready" \/ ~MayInsert
           /\ Goto(p, "failed") /\ UNCHANGED <<database, control>>
  <2>1. ASSUME ~run[p].disturbed
        PROVE  run[p].orphan /\ ~Orphan'
    <3>1. /\ schema.state = "ready" /\ tenant' # NoTenant
          /\ schema.no = run[p].knownIn /\ Entries(Priorities) \subseteq run[p].known
          /\ ~run[p].orphan => rows[row] = 0
      <4>1. n \in n .. Len(DemoRows)
        BY <1>2, DemoList
      <4> QED
        BY <1>1, <1>5, <2>1, <4>1 DEF Found, Way, WayBack, Finishing, database
    <3>2. row.table = "ticket_meta" => Demo[row.key] \in run[p].known
      <4>1. ASSUME row.table = "ticket_meta"
            PROVE  row = TicketRow(n) /\ Demo[n] \in Entries(Priorities)
        BY <1>2, <4>1, DemoList, DemoRowsApart
      <4>2. TicketRow(n).key = n
        BY DEF TicketRow
      <4> QED
        BY <3>1, <4>1, <4>2
    <3> QED
      BY <1>5, <3>1, <3>2 DEF Orphan
  <2> QED
    BY <1>1, <1>5, <2>1, FailedOwn DEF control
<1>6. CASE FaultTo(p, "failed")
  <2>1. UNCHANGED <<tenant, runs, overlap>>
    BY <1>6 DEF FaultTo, database
  <2> QED
    BY <1>1, <1>6, <2>1, FaultOwn DEF FaultTo, Labels
<1> QED
  BY <1>1, <1>4, <1>5, <1>6 DEF InsertDemo, Insert

-----------------------------------------------------------------------------
(* The tables.                                                             *)

(* A row that no index protects is inserted by a run that found none.      *)
LEMMA RowsStep ==
  ASSUME IInv, NEW p \in Proc, Step(p)
  PROVE  Ordered' /\ NothingDuplicated'
<1>1. /\ TypeOK /\ rows \in [Row -> Nat] /\ run \in [Proc -> Run] /\ Ordered
      /\ NothingDuplicated /\ Placed(p) /\ Progress(p) /\ overlap \in BOOLEAN
  BY DEF IInv, TypeOK
<1>2. /\ \A i \in 1 .. Len(SeedRows) : SeedRows[i] \in Row
      /\ \A i \in 1 .. Len(DemoRows) : DemoRows[i] \in Row
      /\ ConfigRow \in Row /\ 1 \in 1 .. Len(SeedRows) /\ 1 \in 1 .. Len(DemoRows)
      /\ DemoLength + 1 .. Len(DemoRows) \subseteq 1 .. Len(DemoRows)
  BY SeedRowsApart, DemoRowsApart, RowsApart, SeedList, DemoList DEF Row
<1>3. overlap => overlap'
  BY <1>1, StartStep, Frame
     DEF Step, Exit, Crash, CheckDemo, DropDemo, DeleteDemo, Look, Migrate, CreateTenant,
       CreateSchema, Provision, UndoSchema, UndoTenant, InsertKey, InsertRow, Insert,
       EnsureLocalAdmin, ReadPolicies, InsertDemo, FaultTo, MigrateTo, MigrationFailsTo,
       control
<1>4. CASE rows' = rows
  BY <1>1, <1>3, <1>4 DEF Ordered, NothingDuplicated
<1>5. CASE rows' = NoRows
  BY <1>2, <1>5 DEF Ordered, NothingDuplicated, NoRows
<1>6. ASSUME InsertRow(p), rows' # rows
      PROVE  Ordered' /\ NothingDuplicated'
  <2> DEFINE n == run[p].next
             row == SeedRows[n]
  <2>1. n \in 1 .. Len(SeedRows) /\ run[p].pc = "rows"
    BY <1>1, <1>6, SeedList DEF InsertRow, Placed, Run
  <2>2. /\ rows' = [rows EXCEPT ![row] = @ + 1] /\ overlap' = overlap
        /\ row = ConfigRow \/ rows[row] = 0
    BY <1>6 DEF InsertRow, Insert, FaultTo, database, control
  <2>3. row \in Row /\ row \in SeedSet
    BY <1>2, <2>1, SeedRowsApart
  <2>4. /\ \A r \in Row : rows[r] > 0 => rows'[r] > 0
        /\ rows'[row] = rows[row] + 1
        /\ \A r \in Row : r # row => rows'[r] = rows[r]
    BY <1>1, <2>2, <2>3, Inserted
  <2>5. ASSUME ~overlap, row = ConfigRow
        PROVE  rows[row] = 0 /\ rows[SeedRows[1]] > 0
    <3>1. Length + 1 \in 1 .. Len(SeedRows) /\ SeedRows[Length + 1] = ConfigRow
      BY SeedList
    <3>2. n = Length + 1
      BY <2>1, <2>5, <3>1, SeedRowsApart
    <3>3. n \in 2 .. Length + 1 /\ 1 \in 1 .. n - 1
      BY <3>2, SeedList
    <3> HIDE DEF n
    <3>4. n = run[p].next
      BY DEF n
    <3> QED
      BY <1>1, <2>1, <2>5, <3>3, <3>4 DEF Progress, Calm
  <2>6. NothingDuplicated'
    <3>1. ASSUME ~overlap
          PROVE  rows'[row] = 1
      BY <2>2, <2>4, <2>5, <3>1
    <3> QED
      BY <1>1, <2>2, <2>4, <3>1 DEF NothingDuplicated
  <2>7. Ordered'
    <3>1. ASSUME ~overlap, rows'[ConfigRow] > 0
          PROVE  rows'[SeedRows[1]] > 0
      BY <1>1, <1>2, <2>4, <2>5, <3>1 DEF Ordered
    <3>2. \A r \in DemoSet : r \in Row /\ r # row
      BY <2>3, RowsApart DEF Row
    <3>3. ASSUME ~overlap, NEW i \in DemoLength + 1 .. Len(DemoRows), rows'[DemoRows[i]] > 0
          PROVE  rows'[DemoRows[1]] > 0
      <4>1. DemoRows[i] \in DemoSet /\ DemoRows[1] \in DemoSet
        BY <1>2, DemoRowsApart
      <4> QED
        BY <1>1, <2>4, <3>2, <3>3, <4>1 DEF Ordered
    <3> QED
      BY <2>2, <3>1, <3>3 DEF Ordered
  <2> QED
    BY <2>6, <2>7
<1>7. ASSUME InsertDemo(p), rows' # rows
      PROVE  Ordered' /\ NothingDuplicated'
  <2> DEFINE n == run[p].next
             row == DemoRows[n]
  <2>1. n \in 1 .. Len(DemoRows) /\ run[p].pc = "demo"
    BY <1>1, <1>7, DemoList DEF InsertDemo, Placed, Run
  <2>2. /\ rows' = [rows EXCEPT ![row] = @ + 1] /\ overlap' = overlap
        /\ row.table = "ticket_meta" => rows[row] = 0
    BY <1>7 DEF InsertDemo, Insert, FaultTo, database, control
  <2>3. row \in Row /\ row \in DemoSet
    BY <1>2, <2>1, DemoRowsApart
  <2>4. /\ \A r \in Row : rows[r] > 0 => rows'[r] > 0
        /\ rows'[row] = rows[row] + 1
        /\ \A r \in Row : r # row => rows'[r] = rows[r]
    BY <1>1, <2>2, <2>3, Inserted
  <2>5. ASSUME ~overlap, ~(row.table = "ticket_meta")
        PROVE  rows[row] = 0 /\ rows[DemoRows[1]] > 0
    <3>1. n > DemoLength /\ n > 1
      BY <2>1, <2>5, DemoRowsApart, DemoList
    <3>2. n \in n .. Len(DemoRows) /\ 1 \in 1 .. n - 1
      BY <2>1, <3>1, DemoList
    <3> HIDE DEF n
    <3>3. n = run[p].next
      BY DEF n
    <3> QED
      BY <1>1, <2>1, <2>5, <3>1, <3>2, <3>3 DEF Progress, Calm
  <2>6. NothingDuplicated'
    <3>1. ASSUME ~overlap
          PROVE  rows'[row] = 1
      BY <2>2, <2>4, <2>5, <3>1
    <3> QED
      BY <1>1, <2>2, <2>4, <3>1 DEF NothingDuplicated
  <2>7. Ordered'
    <3>1. \A r \in SeedSet : r \in Row /\ r # row
      BY <2>3, RowsApart DEF Row
    <3>2. ASSUME ~overlap, rows'[ConfigRow] > 0
          PROVE  rows'[SeedRows[1]] > 0
      <4>1. ConfigRow \in SeedSet /\ SeedRows[1] \in SeedSet
        BY <1>2, RowsApart, SeedRowsApart
      <4> QED
        BY <1>1, <2>4, <3>1, <3>2, <4>1 DEF Ordered
    <3>3. ASSUME ~overlap, NEW i \in DemoLength + 1 .. Len(DemoRows), rows'[DemoRows[i]] > 0
          PROVE  rows'[DemoRows[1]] > 0
      <4>1. CASE n = i
        <5>1. ~(row.table = "ticket_meta")
          BY <1>2, <2>1, <4>1, DemoRowsApart, DemoList
        <5> QED
          BY <1>2, <2>4, <2>5, <3>3, <5>1
      <4>2. CASE n # i
        <5>1. DemoRows[i] # row /\ DemoRows[i] \in Row
          BY <1>2, <2>1, <4>2, DemoRowsApart
        <5>2. rows[DemoRows[i]] > 0
          BY <2>4, <3>3, <5>1
        <5> QED
          BY <1>1, <1>2, <2>4, <3>3, <5>2 DEF Ordered
      <4> QED
        BY <4>1, <4>2
    <3> QED
      BY <2>2, <3>2, <3>3 DEF Ordered
  <2> QED
    BY <2>6, <2>7
<1>8. rows' = rows \/ rows' = NoRows \/ InsertRow(p) \/ InsertDemo(p)
  <2>1. CASE Start(p)
    BY <1>1, <2>1, StartStep
  <2> QED
    BY <2>1 DEF Step, Exit, Crash, CheckDemo, DropDemo, DropSchema, DeleteDemo, Look, Migrate,
       CreateTenant, CreateSchema, Provision, UndoSchema, UndoTenant, InsertKey,
       EnsureLocalAdmin, ReadPolicies, FaultTo, MigrateTo, MigrationFailsTo, database
<1> QED
  BY <1>4, <1>5, <1>6, <1>7, <1>8

-----------------------------------------------------------------------------
(* The specification.                                                      *)

(* The empty database.                                                     *)
LEMMA InitIInv == Init => IInv
<1> SUFFICES ASSUME Init PROVE IInv
  OBVIOUS
<1>1. \A p \in Proc : /\ run[p].pc = "off" /\ ~run[p].creates /\ run[p].mode = "seed"
                      /\ run[p].next = 1 /\ run[p] \in Run
  BY NoRunTyped DEF Init, NoRun
<1>2. TypeOK
  <2>1. 0 \in 0 .. MaxRuns /\ 0 \in 0 .. MaxFaults
    BY SeedingAssumption
  <2>2. run \in [Proc -> Run] /\ rows \in [Row -> Nat]
    BY NoRunTyped DEF Init, NoRows
  <2>3. tenant \in 0 .. MaxRuns /\ runs \in 0 .. MaxRuns /\ faults \in 0 .. MaxFaults
    BY <2>1 DEF Init, NoTenant
  <2>4. schema \in [no : 0 .. MaxRuns, state : {"none", "behind", "dirty", "ready"}]
    BY <2>1 DEF Init
  <2> QED
    BY <2>2, <2>3, <2>4 DEF Init, TypeOK
<1>3. \A r \in Row : rows[r] = 0
  BY DEF Init, NoRows
<1>4. NothingDuplicated
  BY <1>3 DEF NothingDuplicated
<1>5. Ordered
  <2>1. /\ ConfigRow \in Row
        /\ \A i \in DemoLength + 1 .. Len(DemoRows) : DemoRows[i] \in Row
    BY RowsApart, DemoRowsApart, DemoList DEF Row
  <2> QED
    BY <1>3, <2>1 DEF Ordered
<1>6. ASSUME NEW p \in Proc
      PROVE  Placed(p) /\ Owner(p) /\ Progress(p) /\ Found(p) /\ Way(p)
  BY <1>1 DEF Placed, On, Owner, Progress, Found, Way, Before, Creating, Finishing
<1>7. \A p, q \in Proc : Meet(p, q)
  BY <1>1 DEF Meet, On
<1> QED
  BY <1>2, <1>4, <1>5, <1>6, <1>7 DEF IInv

(* Each action keeps each part of the invariant.                           *)
LEMMA NextIInv == IInv /\ [Next]_vars => IInv'
<1> SUFFICES ASSUME IInv, [Next]_vars PROVE IInv'
  OBVIOUS
<1>1. CASE UNCHANGED vars
  <2>1. UNCHANGED <<tenant, apiKey, admin, schema, rows, run, runs, faults, overlap>>
    BY <1>1 DEF vars, database, control
  <2>2. TypeOK'
    BY <2>1 DEF IInv, TypeOK
  <2>3. Ordered' /\ NothingDuplicated'
    BY <2>1 DEF IInv, Ordered, NothingDuplicated
  <2>4. ASSUME NEW q \in Proc
        PROVE  Placed(q)' /\ Owner(q)' /\ Progress(q)' /\ Found(q)' /\ Way(q)'
    <3>1. Placed(q)' /\ Owner(q)' /\ Found(q)'
      BY <2>1 DEF IInv, Placed, Owner, Found, On, Calm
    <3>2. Progress(q)'
      BY <2>1 DEF IInv, Progress, Calm, Seeded
    <3>3. Way(q)'
      BY <2>1 DEF IInv, Way, WayThere, WayBack, NoDemo, Orphan
    <3> QED
      BY <3>1, <3>2, <3>3
  <2>5. \A q, r \in Proc : Meet(q, r)'
    BY <2>1 DEF IInv, Meet, On
  <2> QED
    BY <2>2, <2>3, <2>4, <2>5 DEF IInv
<1>2. ASSUME NEW p \in Proc, Step(p)
      PROVE  IInv'
  <2>1. TypeOK'
    BY <1>2, TypeStep DEF IInv
  <2>2. Ordered' /\ NothingDuplicated'
    BY <1>2, RowsStep
  <2>3. \A q, r \in Proc : Meet(q, r)'
    BY <1>2, MeetStep
  <2>4. Own(p)'
    BY <1>2, StartOwn, EndOwn, RebuildOwn, LookOwn, MigrateOwn, CreateTenantOwn,
       CreateSchemaOwn, ProvisionOwn, UndoOwn, InsertKeyOwn, InsertRowOwn,
       EnsureLocalAdminOwn, ReadPoliciesOwn, InsertDemoOwn DEF Step
  <2>5. \A q \in Proc : Own(q)'
    BY <1>2, <2>4, OthersStep
  <2> QED
    BY <2>1, <2>2, <2>3, <2>5 DEF IInv, Own
<1> QED
  BY <1>1, <1>2 DEF Next

(* Every run of the seed modes keeps the invariant.                        *)
THEOREM Invariance == Spec => []IInv
  BY InitIInv, NextIInv, PTL DEF Spec

(* The tables, the tenant and every run keep the form the modes give them, *)
(* whatever is interrupted, run again or run at the same time.             *)
THEOREM TypeCorrect == Spec => []TypeOK
<1>1. IInv => TypeOK
  BY DEF IInv
<1> QED
  BY <1>1, Invariance, PTL

(* Unless a demo run overlaps another run no row is ever seeded twice, not *)
(* zammad_config's and not a demo row, for which there is no unique index  *)
(* (seed.go Run, demo.go RunDemo).                                         *)
THEOREM SeededOnce == Spec => []NothingDuplicated
<1>1. IInv => NothingDuplicated
  BY DEF IInv
<1> QED
  BY <1>1, Invariance, PTL

(* A run that reports success has left what it promises: the run that has  *)
(* created the tenant everything, a run that met nobody the migrated       *)
(* schema and the administrator with the password it was given.            *)
THEOREM SuccessKept == Spec => []SuccessMeansSeeded
<1>1. ASSUME IInv, NEW p \in Proc, run[p].pc = "done", ~overlap
      PROVE  /\ run[p].creates \/ ~run[p].disturbed =>
                  admin # "none" /\ schema.state = "ready"
             /\ run[p].creates => Seeded
             /\ run[p].password /\ ~run[p].disturbed => admin = "configured"
  BY <1>1 DEF IInv, Found, Progress, Calm, Finishing
<1>2. IInv => SuccessMeansSeeded
  BY <1>1 DEF SuccessMeansSeeded
<1> QED
  BY <1>2, Invariance, PTL

(* seed-demo repairs whatever it finds: with no fault and no other run it  *)
(* ends with everything in the tables, unless it has met an orphaned       *)
(* schema, and that is gone after it (demo.go RunDemo).                    *)
THEOREM DemoRepairs == Spec => []DemoRebuilds
<1>1. ASSUME IInv, NEW p \in Proc, run[p].mode = "demo", ~run[p].disturbed
      PROVE  /\ run[p].pc = "failed" => run[p].orphan /\ ~Orphan
             /\ run[p].pc = "done" =>
                  run[p].creates /\ Seeded /\ \A row \in Row : rows[row] > 0
  <2>1. WayThere(p) /\ WayBack(p) /\ Progress(p)
    BY <1>1 DEF IInv, Way
  <2> QED
    BY <1>1, <2>1 DEF WayThere, WayBack, Progress, Calm, Finishing, Seeded, Row
<1>2. IInv => DemoRebuilds
  BY <1>1 DEF DemoRebuilds
<1> QED
  BY <1>2, Invariance, PTL
=============================================================================
