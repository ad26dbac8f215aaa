--------------------------- MODULE PortalTheorems ---------------------------
(***************************************************************************)
(* Theorems about Portal, for any number of requests in progress, whoever  *)
(* makes them, of organisations and tickets, and any faults: a route of the*)
(* portal reaches what is the organisation's of the caller's token and     *)
(* nothing else, and an answer that is not an error leaves out at most the *)
(* part of a detail page whose own reading failed.                         *)
(***************************************************************************)
EXTENDS Portal, SequenceTheorems, TLAPS

(* Which requests come to which step, and what they have by then.          *)
Placed(q) ==
  /\ q.pc = "org" => q.op \in PortalOps /\ q.org \in Orgs /\ q.zammadOrg = None
  /\ q.pc = "tickets" => q.op = "list" /\ q.zammadOrg \in ZammadOrgs
  /\ q.pc = "ticket" => q.op \in {"detail", "articles", "reply"} /\ q.zammadOrg \in ZammadOrgs
  /\ q.pc = "articles" => q.op \in {"detail", "thread"}
  /\ q.pc = "meta" => q.op \in {"detail", "articles", "thread", "note"}
  /\ q.pc = "documents" => q.op \in {"detail", "articles"}
  /\ q.pc = "notes" => q.op = "thread"
  /\ q.pc = "insert" => q.op = "note" /\ q.ticket \in known
  /\ q.pc = "post" => q.op \in {"reply", "public reply"}
  /\ q.pc # "done" => q.answer = "" /\ q.tickets = {} /\ q.shown.notes = {}

(* PortalScoped of one request, and what is true of its organisation until *)
(* it is read: the one its row names now is one it has named since the     *)
(* request began; and from then until the next call: the tickets that      *)
(* organisation has now are among those it has had since.                  *)
Scoped(q) ==
  /\ q.zammadOrg \in q.valid \cup {None}
  /\ (\/ q.pc \in {"articles", "meta", "documents", "post"}
      \/ q.answer = "ok" /\ q.op # "list") => q.ticket \in q.own
  /\ q.tickets \subseteq q.own
  /\ q.op = "detail" => q.shown.articles \subseteq PublicOf(q.ticket)
  /\ q.shown.notes = {}
  /\ q.pc = "org" => {orgs[q.org]} \cap ZammadOrgs \subseteq q.valid
  /\ q.pc \in {"tickets", "ticket"} => TicketsOf(q.zammadOrg) \subseteq q.own

(* What was there when a request began is there still, or has been taken   *)
(* off the account; and once it has been read it is on the answer.         *)
Due(q) ==
  /\ q.due.articles \subseteq IF q.op = "detail" THEN PublicOf(q.ticket) ELSE ArticlesOf(q.ticket)
  /\ q.due.notes \subseteq NotesOf(q.ticket)
  /\ q.pc # "done" => q.due.documents \subseteq DocumentsOf(q.ticket)
  /\ q.op \notin {"detail", "thread"} => q.due.articles = {}
  /\ q.op # "thread" => q.due.notes = {}
  /\ q.op \notin {"detail", "articles"} => q.due.documents = {}

Complete(q) ==
  /\ q.failed # {} => q.op = "detail"
  /\ (q.pc \in {"meta", "documents", "notes"} \/ q.answer = "ok") /\ "articles" \notin q.failed
       => q.due.articles \subseteq q.shown.articles
  /\ q.answer = "ok" =>
       /\ q.due.notes \subseteq q.shown.notes
       /\ "documents" \notin q.failed => q.due.documents \subseteq q.shown.documents

Good(q) == Placed(q) /\ (q.op \in PortalOps => Scoped(q)) /\ Due(q) /\ Complete(q)

IInv == TypeOK /\ \A r \in Requests : Good(req[r])

-----------------------------------------------------------------------------
LEMMA InitIInv == Init => IInv
<1> SUFFICES ASSUME Init PROVE IInv
  OBVIOUS
<1>1. PICK t \in Tickets :
        req = [r \in Requests |->
                 [NewRequest("thread", None, t, "done") EXCEPT !.answer = "failed"]]
  BY DEF Init
<1>2. \A r \in Requests :
        /\ req[r].op = "thread" /\ req[r].pc = "done" /\ req[r].answer = "failed"
        /\ req[r].due = Nothing /\ req[r].failed = {}
        /\ req[r] \in Request
  BY <1>1 DEF NewRequest, Request, Nothing, Shown, PortalOps, ThreadOps
<1>3. notes \in Seq(known) /\ Len(notes) = 0 /\ Len(articles) = 0
      /\ articles \in Seq([ticket : Tickets, internal : BOOLEAN])
  BY EmptySeq DEF Init
<1>4. TypeOK
  <2>1. req \in [Requests -> Request]
    BY <1>1, <1>2
  <2>2. /\ orgs \in [Orgs -> ZammadOrgs \cup {None, Unset}]
        /\ ticketOrg \in [Tickets -> ZammadOrgs \cup {None, Gone}]
        /\ known \subseteq Tickets /\ documents \subseteq known \X Documents
    BY DEF Init
  <2>3. Len(notes) <= MaxNotes /\ Len(articles) <= MaxArticles
    BY <1>3, BoundsAssumption
  <2> QED
    BY <1>3, <2>1, <2>2, <2>3 DEF TypeOK
<1>5. \A r \in Requests : Good(req[r])
  <2> TAKE r \in Requests
  <2>1. Placed(req[r]) /\ Complete(req[r]) /\ req[r].op \notin PortalOps
    BY <1>2 DEF Placed, Complete, PortalOps
  <2>2. Due(req[r])
    BY <1>2 DEF Due, Nothing
  <2> QED
    BY <2>1, <2>2 DEF Good
<1> QED
  BY <1>4, <1>5 DEF IInv

(* Sequences that grow at the end: articles and notes are never deleted.   *)
Grows(s, u) == DOMAIN s \subseteq DOMAIN u /\ \A k \in DOMAIN s : u[k] = s[k]

LEMMA AppendGrows ==
  ASSUME NEW S, NEW s \in Seq(S), NEW e \in S
  PROVE  Append(s, e) \in Seq(S) /\ Len(Append(s, e)) = Len(s) + 1 /\ Grows(s, Append(s, e))
<1>1. DOMAIN s = 1 .. Len(s) /\ Len(s) \in Nat
  BY LenProperties
<1>2. /\ Append(s, e) \in Seq(S) /\ Len(Append(s, e)) = Len(s) + 1
      /\ \A k \in 1 .. Len(s) : Append(s, e)[k] = s[k]
  BY AppendProperties
<1>3. DOMAIN Append(s, e) = 1 .. Len(s) + 1
  BY <1>2, LenProperties
<1> QED
  BY <1>1, <1>2, <1>3 DEF Grows

LEMMA ConcatGrows ==
  ASSUME NEW S, NEW s \in Seq(S), NEW u \in Seq(S)
  PROVE  s \o u \in Seq(S) /\ Len(s \o u) = Len(s) + Len(u) /\ Grows(s, s \o u)
<1>1. /\ DOMAIN s = 1 .. Len(s) /\ Len(s) \in Nat
      /\ Len(u) \in Nat
  BY LenProperties
<1>2. /\ s \o u \in Seq(S) /\ Len(s \o u) = Len(s) + Len(u)
      /\ \A k \in 1 .. Len(s) + Len(u) :
           (s \o u)[k] = IF k <= Len(s) THEN s[k] ELSE u[k - Len(s)]
  BY ConcatProperties
<1>3. DOMAIN (s \o u) = 1 .. Len(s) + Len(u)
  BY <1>2, LenProperties
<1> QED
  BY <1>1, <1>2, <1>3 DEF Grows

(* What a step of a request may do to the tables and to Zammad.            *)
ThreadsGrow ==
  /\ UNCHANGED <<orgs, known, documents, ticketOrg>>
  /\ Grows(articles, articles') /\ Grows(notes, notes')
  /\ notes' \in Seq(known) /\ Len(notes') <= MaxNotes
  /\ articles' \in Seq([ticket : Tickets, internal : BOOLEAN])
  /\ Len(articles') <= MaxArticles

LEMMA NothingGrows ==
  ASSUME IInv, UNCHANGED <<tables, zammad>>
  PROVE  ThreadsGrow
BY DEF IInv, TypeOK, tables, zammad, ThreadsGrow, Grows

(* Changes no request in progress needs to be told of: what it may rely on *)
(* is only added to, and an organisation or a ticket is at most taken away.*)
Harmless ==
  /\ known \subseteq known' /\ documents \subseteq documents'
  /\ Grows(articles, articles') /\ Grows(notes, notes')
  /\ \A o \in Orgs : orgs'[o] \in ZammadOrgs => orgs'[o] = orgs[o]
  /\ \A t \in Tickets : ticketOrg'[t] \in ZammadOrgs => ticketOrg'[t] = ticketOrg[t]

LEMMA GrowingIsHarmless == ThreadsGrow => Harmless
BY DEF ThreadsGrow, Harmless

LEMMA GoodLasts ==
  ASSUME Harmless, NEW q \in Request, Good(q)
  PROVE  Good(q)'
<1>1. Placed(q)' /\ Complete(q)'
  BY DEF Harmless, Good, Placed, Complete
<1>2. \A t : /\ PublicOf(t) \subseteq PublicOf(t)' /\ ArticlesOf(t) \subseteq ArticlesOf(t)'
             /\ NotesOf(t) \subseteq NotesOf(t)' /\ DocumentsOf(t) \subseteq DocumentsOf(t)'
  BY DEF Harmless, Grows, PublicOf, ArticlesOf, NotesOf, DocumentsOf
<1>3. Due(q)'
  BY <1>2 DEF Good, Due
<1>4. q.op \in PortalOps => Scoped(q)'
  <2> SUFFICES ASSUME Scoped(q) PROVE Scoped(q)'
    BY DEF Good
  <2>1. q.pc = "org" => {orgs'[q.org]} \cap ZammadOrgs \subseteq q.valid
    BY DEF Harmless, Good, Placed, Scoped
  <2>2. q.pc \in {"tickets", "ticket"} => TicketsOf(q.zammadOrg)' \subseteq TicketsOf(q.zammadOrg)
    BY DEF Harmless, Good, Placed, TicketsOf
  <2> QED
    BY <1>2, <2>1, <2>2 DEF Scoped
<1> QED
  BY <1>1, <1>3, <1>4 DEF Good

(* If nothing else happens, everything stays in order.                     *)
LEMMA RequestsLast ==
  ASSUME IInv, Harmless, UNCHANGED req
  PROVE  \A s \in Requests : Good(req[s])'
<1> SUFFICES ASSUME NEW s \in Requests PROVE Good(req[s])'
  OBVIOUS
<1>1. PICK p \in Request : p = req[s]
  BY DEF IInv, TypeOK
<1>2. Good(p)'
  BY <1>1, GoodLasts DEF IInv
<1> QED
  BY <1>1, <1>2

(* A step of one request that leaves it in order leaves everything in      *)
(* order.                                                                  *)
LEMMA OneRequest ==
  ASSUME IInv, ThreadsGrow, NEW r \in Requests, NEW q \in Request, Good(q),
         req' = [req EXCEPT ![r] = q]
  PROVE  IInv'
<1>1. TypeOK'
  BY DEF IInv, TypeOK, ThreadsGrow
<1>2. ASSUME NEW s \in Requests
      PROVE  Good(req[s])'
  <2>1. CASE s = r
    <3>1. req'[s] = q
      BY <2>1 DEF IInv, TypeOK
    <3> QED
      BY <3>1, GoodLasts, GrowingIsHarmless
  <2>2. CASE s # r
    <3>1. PICK p \in Request : p = req[s]
      BY DEF IInv, TypeOK
    <3>2. Good(p)'
      BY <3>1, GoodLasts, GrowingIsHarmless DEF IInv
    <3>3. req'[s] = p
      BY <2>2, <3>1 DEF IInv, TypeOK
    <3> QED
      BY <3>2, <3>3
  <2> QED
    BY <2>1, <2>2
<1> QED
  BY <1>1, <1>2 DEF IInv

-----------------------------------------------------------------------------
(* The steps of a request, in the order they are taken.                    *)

(* An error answers nothing, and so is in order.                           *)
LEMMA RefuseStep ==
  ASSUME IInv, ThreadsGrow, NEW r \in Requests,
         NEW a \in {"forbidden", "not found", "failed"}, Refuse(r, a)
  PROVE  IInv'
<1>1. req[r] \in Request
  BY DEF IInv, TypeOK
<1>2. PICK q \in Request :
        q = [NewRequest(req[r].op, None, req[r].ticket, "done") EXCEPT !.answer = a]
  <2> DEFINE n == NewRequest(req[r].op, None, req[r].ticket, "done")
  <2>1. req[r].op \in PortalOps \cup ThreadOps /\ req[r].ticket \in Tickets
    BY <1>1 DEF Request
  <2>2. Nothing \in Shown
    BY DEF Nothing, Shown
  <2>3. n \in Request
    BY <2>1, <2>2 DEF NewRequest, Request
  <2> QED
    BY <2>3 DEF Request
<1>3. req' = [req EXCEPT ![r] = q]
  BY <1>2 DEF Refuse
<1>4. /\ q.pc = "done" /\ q.answer \notin {"", "ok"} /\ q.zammadOrg = None
      /\ q.tickets = {} /\ q.shown.articles = {} /\ q.shown.notes = {}
      /\ q.due.articles = {} /\ q.due.notes = {} /\ q.due.documents = {}
      /\ q.failed = {}
  BY <1>2 DEF NewRequest, Nothing
<1>5. Placed(q) /\ Complete(q)
  BY <1>4 DEF Placed, Complete
<1>6. Scoped(q) /\ Due(q)
  BY <1>4 DEF Scoped, Due
<1> QED
  BY <1>3, <1>5, <1>6, OneRequest DEF Good

LEMMA ResolveOrgStep ==
  ASSUME IInv, NEW r \in Requests, ResolveOrg(r)
  PROVE  IInv'
<1>1. /\ req[r] \in Request /\ Good(req[r]) /\ req[r].pc = "org"
      /\ orgs[req[r].org] \in ZammadOrgs
  BY DEF IInv, TypeOK, ResolveOrg, At
<1> DEFINE z == orgs[req[r].org]
<1>2. PICK q \in Request :
        q = [req[r] EXCEPT !.zammadOrg = z, !.own = TicketsOf(z),
               !.pc = IF req[r].op = "list" THEN "tickets" ELSE "ticket"]
  BY <1>1 DEF Request, TicketsOf
<1>3. req' = [req EXCEPT ![r] = q]
  BY <1>2 DEF ResolveOrg, IInv, TypeOK
<1>4. Placed(q)
  BY <1>1, <1>2, ZenonT(60) DEF Good, Placed, Request, PortalOps
<1>5. Scoped(q)
  BY <1>1, <1>2, ZenonT(60) DEF Good, Placed, Scoped, Request
<1>6. Due(q) /\ Complete(q)
  BY <1>1, <1>2, ZenonT(60) DEF Good, Placed, Due, Complete, Request
<1> QED
  BY <1>3, <1>4, <1>5, <1>6, NothingGrows, OneRequest DEF ResolveOrg, Good

(* Articles and notes are known by their places in their sequences.        *)
LEMMA Numbers ==
  ASSUME IInv, NEW t
  PROVE  /\ ArticlesOf(t) \subseteq 1 .. MaxArticles /\ PublicOf(t) \subseteq ArticlesOf(t)
         /\ NotesOf(t) \subseteq 1 .. MaxNotes
<1>1. /\ articles \in Seq([ticket : Tickets, internal : BOOLEAN])
      /\ notes \in Seq(known)
      /\ Len(articles) <= MaxArticles /\ Len(notes) <= MaxNotes
  BY DEF IInv, TypeOK
<1>2. /\ DOMAIN articles = 1 .. Len(articles) /\ Len(articles) \in Nat
      /\ DOMAIN notes = 1 .. Len(notes) /\ Len(notes) \in Nat
  BY <1>1, LenProperties
<1> QED
  BY <1>1, <1>2, BoundsAssumption DEF ArticlesOf, PublicOf, NotesOf

(* What a step changes of its request is at most its place, what it shows  *)
(* and its answer.                                                         *)
Same(p, q) ==
  /\ q.op = p.op /\ q.org = p.org /\ q.ticket = p.ticket
  /\ q.zammadOrg = p.zammadOrg /\ q.failed = p.failed
  /\ q.valid = p.valid /\ q.own = p.own /\ q.due = p.due

LEMMA ListTicketsStep ==
  ASSUME IInv, NEW r \in Requests, ListTickets(r)
  PROVE  IInv'
<1>1. PICK p \in Request : p = req[r] /\ Good(p) /\ p.pc = "tickets"
  BY DEF IInv, TypeOK, At, ListTickets
<1>2. PICK q \in Request :
        q = [p EXCEPT !.pc = "done", !.answer = "ok", !.tickets = TicketsOf(p.zammadOrg)]
  BY <1>1 DEF Request, TicketsOf
<1>3. req' = [req EXCEPT ![r] = q]
  BY <1>1, <1>2 DEF ListTickets, IInv, TypeOK
<1>4. Same(p, q) /\ q.shown = p.shown /\ q.pc = "done" /\ q.answer = "ok"
      /\ q.tickets = TicketsOf(p.zammadOrg)
  BY <1>1, <1>2, ZenonT(60) DEF Same, Request
<1>5. Placed(q)
  BY <1>1, <1>4 DEF Good, Placed, Same
<1>6. q.op \in PortalOps => Scoped(q)
  BY <1>1, <1>4, OrgsAssumption DEF Good, Placed, Scoped, Same, PortalOps
<1>7. Due(q)
  BY <1>1, <1>4 DEF Good, Placed, Due, Same
<1>8. Complete(q)
  BY <1>1, <1>4 DEF Good, Placed, Due, Complete, Same
<1> QED
  BY <1>1, <1>3, <1>5, <1>6, <1>7, <1>8, NothingGrows, OneRequest DEF ListTickets, Good

(* The ticket is checked against the organisation looked up.               *)
LEMMA GetTicketStep ==
  ASSUME IInv, NEW r \in Requests, GetTicket(r)
  PROVE  IInv'
<1>1. PICK p \in Request : p = req[r] /\ Good(p) /\ p.pc = "ticket"
        /\ ticketOrg[p.ticket] = p.zammadOrg
  BY DEF IInv, TypeOK, At, GetTicket
<1>2. PICK q \in Request :
        q = [p EXCEPT !.pc = AfterCheck(p.op)]
  BY <1>1, ZenonT(60) DEF Good, Placed, Request, AfterCheck
<1>3. req' = [req EXCEPT ![r] = q]
  BY <1>1, <1>2 DEF GetTicket, GoTo, IInv, TypeOK
<1>4. Same(p, q) /\ q.shown = p.shown /\ q.answer = p.answer /\ q.tickets = p.tickets
      /\ \/ p.op = "detail" /\ q.pc = "articles"
         \/ p.op = "articles" /\ q.pc = "meta"
         \/ p.op = "reply" /\ q.pc = "post"
  BY <1>1, <1>2, ZenonT(60) DEF Same, Request, Good, Placed, AfterCheck
<1>5. Placed(q)
  BY <1>1, <1>4 DEF Good, Placed, Same
<1>6. q.op \in PortalOps => Scoped(q)
  <2>1. p.zammadOrg # None /\ p.ticket \in TicketsOf(p.zammadOrg)
    BY <1>1, OrgsAssumption DEF Good, Placed, TicketsOf, Request
  <2>2. p.op \in PortalOps => p.ticket \in p.own
    BY <1>1, <2>1 DEF Good, Placed, Scoped
  <2> QED
    BY <1>1, <1>4, <2>2 DEF Good, Placed, Scoped, Same
<1>7. Due(q)
  BY <1>1, <1>4 DEF Good, Placed, Due, Same
<1>8. Complete(q)
  BY <1>1, <1>4 DEF Good, Placed, Due, Complete, Same
<1> QED
  BY <1>1, <1>3, <1>5, <1>6, <1>7, <1>8, NothingGrows, OneRequest DEF GetTicket, Good

LEMMA ListArticlesStep ==
  ASSUME IInv, NEW r \in Requests, ListArticles(r)
  PROVE  IInv'
<1>1. PICK p \in Request : p = req[r] /\ Good(p) /\ p.pc = "articles"
  BY DEF IInv, TypeOK, At, ListArticles
<1>2. PICK q \in Request :
        q = [p EXCEPT !.pc = "meta",
                     !.shown.articles = IF p.op = "detail" THEN PublicOf(p.ticket)
                                        ELSE ArticlesOf(p.ticket)]
  <2>1. /\ [p.shown EXCEPT !.articles = PublicOf(p.ticket)] \in Shown
        /\ [p.shown EXCEPT !.articles = ArticlesOf(p.ticket)] \in Shown
    BY <1>1, Numbers DEF Request, Shown
  <2> QED
    BY <1>1, <2>1 DEF Request
<1>3. req' = [req EXCEPT ![r] = q]
  BY <1>1, <1>2 DEF ListArticles, IInv, TypeOK
<1>4. Same(p, q) /\ q.pc = "meta" /\ q.answer = p.answer /\ q.tickets = p.tickets
      /\ q.shown.notes = p.shown.notes
      /\ q.shown.articles = IF p.op = "detail" THEN PublicOf(p.ticket)
                                        ELSE ArticlesOf(p.ticket)
  BY <1>1, <1>2, ZenonT(60) DEF Same, Request, Shown
<1>5. Placed(q)
  BY <1>1, <1>4 DEF Good, Placed, Same
<1>6. q.op \in PortalOps => Scoped(q)
  BY <1>1, <1>4 DEF Good, Placed, Scoped, Same
<1>7. Due(q)
  BY <1>1, <1>4 DEF Good, Placed, Due, Same
<1>8. Complete(q)
  BY <1>1, <1>4 DEF Good, Placed, Due, Complete, Same
<1> QED
  BY <1>1, <1>3, <1>5, <1>6, <1>7, <1>8, NothingGrows, OneRequest DEF ListArticles, Good

LEMMA GetTicketMetaIDStep ==
  ASSUME IInv, NEW r \in Requests, GetTicketMetaID(r)
  PROVE  IInv'
<1>1. PICK p \in Request : p = req[r] /\ Good(p) /\ p.pc = "meta" /\ p.ticket \in known
  BY DEF IInv, TypeOK, At, GetTicketMetaID
<1>2. PICK q \in Request :
        q = [p EXCEPT !.pc = AfterMeta(p.op)]
  BY <1>1, ZenonT(60) DEF Good, Placed, Request, AfterMeta
<1>3. req' = [req EXCEPT ![r] = q]
  BY <1>1, <1>2 DEF GetTicketMetaID, GoTo, IInv, TypeOK
<1>4. Same(p, q) /\ q.shown = p.shown /\ q.answer = p.answer /\ q.tickets = p.tickets
      /\ \/ p.op = "thread" /\ q.pc = "notes"
         \/ p.op = "note" /\ q.pc = "insert"
         \/ p.op \in {"detail", "articles"} /\ q.pc = "documents"
  BY <1>1, <1>2, ZenonT(60) DEF Same, Request, Good, Placed, AfterMeta
<1>5. Placed(q)
  BY <1>1, <1>4 DEF Good, Placed, Same
<1>6. q.op \in PortalOps => Scoped(q)
  BY <1>1, <1>4 DEF Good, Placed, Scoped, Same, PortalOps
<1>7. Due(q)
  BY <1>1, <1>4 DEF Good, Placed, Due, Same
<1>8. Complete(q)
  BY <1>1, <1>4 DEF Good, Placed, Due, Complete, Same
<1> QED
  BY <1>1, <1>3, <1>5, <1>6, <1>7, <1>8, NothingGrows, OneRequest DEF GetTicketMetaID, Good

LEMMA ListArticleLinksStep ==
  ASSUME IInv, NEW r \in Requests, ListArticleLinks(r)
  PROVE  IInv'
<1>1. PICK p \in Request : p = req[r] /\ Good(p) /\ p.pc = "documents"
  BY DEF IInv, TypeOK, At, ListArticleLinks
<1>2. PICK q \in Request :
        q = [p EXCEPT !.pc = "done", !.answer = "ok",
                     !.shown.documents = DocumentsOf(p.ticket)]
  BY <1>1, ZenonT(60) DEF Request, Shown, DocumentsOf
<1>3. req' = [req EXCEPT ![r] = q]
  BY <1>1, <1>2 DEF ListArticleLinks, IInv, TypeOK
<1>4. Same(p, q) /\ q.pc = "done" /\ q.answer = "ok" /\ q.tickets = p.tickets
      /\ q.shown.notes = p.shown.notes /\ q.shown.articles = p.shown.articles
      /\ q.shown.documents = DocumentsOf(p.ticket)
  <2>1. q.shown = [p.shown EXCEPT !.documents = DocumentsOf(p.ticket)] /\ p.shown \in Shown
    BY <1>1, <1>2 DEF Request
  <2>2. /\ q.shown.notes = p.shown.notes /\ q.shown.articles = p.shown.articles
        /\ q.shown.documents = DocumentsOf(p.ticket)
    BY <2>1 DEF Shown
  <2>3. Same(p, q) /\ q.pc = "done" /\ q.answer = "ok" /\ q.tickets = p.tickets
    BY <1>1, <1>2, ZenonT(60) DEF Same, Request
  <2> QED
    BY <2>2, <2>3
<1>5. Placed(q)
  BY <1>1, <1>4 DEF Good, Placed, Same
<1>6. q.op \in PortalOps => Scoped(q)
  BY <1>1, <1>4 DEF Good, Placed, Scoped, Same
<1>7. Due(q)
  BY <1>1, <1>4 DEF Good, Placed, Due, Same
<1>8. Complete(q)
  BY <1>1, <1>4 DEF Good, Placed, Due, Complete, Same
<1> QED
  BY <1>1, <1>3, <1>5, <1>6, <1>7, <1>8, NothingGrows, OneRequest DEF ListArticleLinks, Good

LEMMA ListNotesStep ==
  ASSUME IInv, NEW r \in Requests, ListNotes(r)
  PROVE  IInv'
<1>1. PICK p \in Request : p = req[r] /\ Good(p) /\ p.pc = "notes"
  BY DEF IInv, TypeOK, At, ListNotes
<1>2. PICK q \in Request :
        q = [p EXCEPT !.pc = "done", !.answer = "ok", !.shown.notes = NotesOf(p.ticket)]
  <2>1. [p.shown EXCEPT !.notes = NotesOf(p.ticket)] \in Shown
    BY <1>1, Numbers DEF Request, Shown
  <2> QED
    BY <1>1, <2>1 DEF Request
<1>3. req' = [req EXCEPT ![r] = q]
  BY <1>1, <1>2 DEF ListNotes, IInv, TypeOK
<1>4. Same(p, q) /\ q.pc = "done" /\ q.answer = "ok" /\ q.tickets = p.tickets
      /\ q.shown.articles = p.shown.articles
      /\ q.shown.notes = NotesOf(p.ticket)
  <2>1. q.shown = [p.shown EXCEPT !.notes = NotesOf(p.ticket)] /\ p.shown \in Shown
    BY <1>1, <1>2 DEF Request
  <2>2. q.shown.articles = p.shown.articles /\ q.shown.notes = NotesOf(p.ticket)
    BY <2>1 DEF Shown
  <2>3. Same(p, q) /\ q.pc = "done" /\ q.answer = "ok" /\ q.tickets = p.tickets
    BY <1>1, <1>2, ZenonT(60) DEF Same, Request
  <2> QED
    BY <2>2, <2>3
<1>5. Placed(q)
  BY <1>1, <1>4 DEF Good, Placed, Same
<1>6. q.op \in PortalOps => Scoped(q)
  BY <1>1, <1>4 DEF Good, Placed, Scoped, Same, PortalOps
<1>7. Due(q)
  BY <1>1, <1>4 DEF Good, Placed, Due, Same
<1>8. Complete(q)
  BY <1>1, <1>4 DEF Good, Placed, Due, Complete, Same
<1> QED
  BY <1>1, <1>3, <1>5, <1>6, <1>7, <1>8, NothingGrows, OneRequest DEF ListNotes, Good

(* A request that is answered has shown what it owes, but for the parts of *)
(* a detail page whose reading failed.                                     *)
LEMMA RespondStep ==
  ASSUME IInv, ThreadsGrow, NEW r \in Requests, Respond(r),
         req[r].pc # "done", req[r].op # "list",
         req[r].op \in PortalOps => req[r].pc \in {"meta", "documents", "post"},
         "articles" \notin req[r].failed => req[r].due.articles \subseteq req[r].shown.articles,
         req[r].due.notes \subseteq req[r].shown.notes,
         req[r].due.documents \subseteq req[r].shown.documents
  PROVE  IInv'
<1>1. PICK p \in Request : p = req[r] /\ Good(p)
  BY DEF IInv, TypeOK
<1>2. PICK q \in Request : q = [p EXCEPT !.pc = "done", !.answer = "ok"]
  BY <1>1 DEF Request
<1>3. req' = [req EXCEPT ![r] = q]
  BY <1>1, <1>2 DEF Respond, IInv, TypeOK
<1>4. /\ Same(p, q) /\ q.shown = p.shown /\ q.tickets = p.tickets
      /\ q.pc = "done" /\ q.answer = "ok"
  BY <1>1, <1>2 DEF Same, Request
<1>5. Placed(q)
  BY <1>1, <1>4 DEF Good, Placed, Same
<1>6. q.op \in PortalOps => Scoped(q)
  BY <1>1, <1>4 DEF Good, Placed, Scoped, Same
<1>7. Due(q) /\ Complete(q)
  BY <1>1, <1>4 DEF Good, Due, Complete, Same
<1> QED
  BY <1>3, <1>5, <1>6, <1>7, OneRequest DEF Good

(* A query that finds no row of ticket_meta: what it would have led to is  *)
(* not there, since links and notes need the row.                          *)
LEMMA GetTicketMetaIDUnknownStep ==
  ASSUME IInv, NEW r \in Requests, GetTicketMetaIDUnknown(r)
  PROVE  IInv'
<1>1. /\ req[r] \in Request /\ Good(req[r]) /\ req[r].pc = "meta"
      /\ req[r].ticket \notin known /\ UNCHANGED <<tables, zammad>>
  BY DEF IInv, TypeOK, At, GetTicketMetaIDUnknown
<1>2. ThreadsGrow
  BY <1>1, NothingGrows
<1>3. CASE Respond(r) /\ req[r].op # "note"
  <2>1. NotesOf(req[r].ticket) = {}
    <3>1. notes \in Seq(known)
      BY DEF IInv, TypeOK
    <3>2. DOMAIN notes = 1 .. Len(notes) /\ \A k \in 1 .. Len(notes) : notes[k] \in known
      BY <3>1, LenProperties, ElementOfSeq
    <3> QED
      BY <1>1, <3>2 DEF NotesOf
  <2>2. DocumentsOf(req[r].ticket) = {}
    BY <1>1 DEF DocumentsOf, IInv, TypeOK
  <2>3. /\ "articles" \notin req[r].failed => req[r].due.articles \subseteq req[r].shown.articles
        /\ req[r].due.notes \subseteq req[r].shown.notes
        /\ req[r].due.documents \subseteq req[r].shown.documents
    BY <1>1, <2>1, <2>2 DEF Good, Due, Complete
  <2> QED
    BY <1>1, <1>2, <1>3, <2>3, RespondStep DEF Good, Placed
<1>4. CASE Fail(r)
  BY <1>2, <1>4, RefuseStep DEF Fail
<1> QED
  BY <1>3, <1>4 DEF GetTicketMetaIDUnknown

(* A detail page goes on, or is answered, without what could not be read.  *)
LEMMA WithoutStep ==
  ASSUME IInv, NEW r \in Requests, req[r].op = "detail", UNCHANGED <<tables, zammad>>,
         \/ GoOnWithout(r, "documents", "done") /\ req[r].pc \in {"meta", "documents"}
         \/ GoOnWithout(r, "articles", "meta") /\ req[r].pc = "articles"
  PROVE  IInv'
<1>1. PICK p \in Request : p = req[r] /\ Good(p)
  BY DEF IInv, TypeOK
<1>2. PICK part \in {"articles", "documents"}, pc \in {"meta", "done"} :
        /\ GoOnWithout(r, part, pc)
        /\ \/ part = "documents" /\ pc = "done" /\ p.pc \in {"meta", "documents"}
           \/ part = "articles" /\ pc = "meta" /\ p.pc = "articles"
  BY <1>1
<1> DEFINE failed == p.failed \cup {part}
           answer == IF pc = "done" THEN "ok" ELSE ""
<1>2a. failed \subseteq {"articles", "documents"} /\ answer \in {"", "ok"}
  BY DEF Request
<1> HIDE DEF failed, answer
<1>3. PICK q \in Request :
        q = [p EXCEPT !.failed = failed, !.pc = pc, !.answer = answer]
  BY <1>1, <1>2a DEF Request
<1>4. req' = [req EXCEPT ![r] = q]
  BY <1>1, <1>2, <1>3 DEF GoOnWithout, IInv, TypeOK, failed, answer
<1>5. /\ q.op = "detail" /\ q.shown = p.shown /\ q.tickets = p.tickets
      /\ q.ticket = p.ticket /\ q.valid = p.valid /\ q.own = p.own /\ q.due = p.due
      /\ q.org = p.org /\ q.zammadOrg = p.zammadOrg
      /\ q.failed = p.failed \cup {part} /\ q.pc = pc
      /\ q.answer = IF pc = "done" THEN "ok" ELSE ""
  <2>1. /\ q.op = "detail" /\ q.shown = p.shown /\ q.tickets = p.tickets
        /\ q.ticket = p.ticket /\ q.valid = p.valid /\ q.own = p.own /\ q.due = p.due
        /\ q.org = p.org /\ q.zammadOrg = p.zammadOrg
    BY <1>1, <1>3, ZenonT(60) DEF Request
  <2>2. q.failed = failed /\ q.pc = pc /\ q.answer = answer
    BY <1>1, <1>3, ZenonT(60) DEF Request
  <2> QED
    BY <2>1, <2>2 DEF failed, answer
<1>6. Placed(q)
  BY <1>1, <1>2, <1>5 DEF Good, Placed
<1>7. Scoped(q)
  BY <1>1, <1>2, <1>5 DEF Good, Placed, Scoped, PortalOps
<1>8. Due(q)
  BY <1>1, <1>2, <1>5 DEF Good, Due
<1>9. Complete(q)
  <2>1. q.due.notes = {}
    BY <1>1, <1>2, <1>5 DEF Good, Due
  <2>2. CASE part = "articles" /\ pc = "meta"
    <3>1. "articles" \in q.failed /\ q.answer # "ok"
      BY <1>5, <2>2
    <3> QED
      BY <1>5, <3>1 DEF Complete
  <2>3. CASE part = "documents" /\ pc = "done" /\ p.pc \in {"meta", "documents"}
    <3>1. "documents" \in q.failed /\ ("articles" \in p.failed => "articles" \in q.failed)
      BY <1>5, <2>3
    <3>2. "articles" \notin q.failed => q.due.articles \subseteq q.shown.articles
      BY <1>1, <1>5, <2>3, <3>1 DEF Good, Complete
    <3> QED
      BY <1>5, <2>1, <3>1, <3>2 DEF Complete
  <2> QED
    BY <1>2, <2>2, <2>3
<1> QED
  BY <1>4, <1>6, <1>7, <1>8, <1>9, NothingGrows, OneRequest DEF Good

(* A call or a query that fails ends the request with an error, but for    *)
(* those a detail page does without.                                       *)
LEMMA FailingStep ==
  ASSUME IInv, NEW r \in Requests, ZammadReadFails(r) \/ QueryFails(r)
  PROVE  IInv'
<1>1. UNCHANGED <<tables, zammad>> /\ Placed(req[r])
  BY DEF ZammadReadFails, QueryFails, IInv, Good
<1>2. CASE Fail(r)
  BY <1>1, <1>2, NothingGrows, RefuseStep DEF Fail
<1>3. CASE ZammadReadFails(r) /\ ~Fail(r)
  BY <1>1, <1>3, WithoutStep DEF ZammadReadFails, At
<1>4. CASE QueryFails(r) /\ ~Fail(r)
  <2>1. /\ req[r].op = "detail" /\ GoOnWithout(r, "documents", "done")
        /\ req[r].pc \in {"meta", "documents"}
    BY <1>1, <1>4 DEF QueryFails, Placed
  <2> QED
    BY <1>1, <2>1, WithoutStep
<1> QED
  BY <1>2, <1>3, <1>4

(* A caller without an organisation, and a ticket that is not his          *)
(* organisation's, or not there.                                           *)
LEMMA RefusedStep ==
  ASSUME IInv, NEW r \in Requests,
         ResolveOrgFails(r) \/ GetTicketRefused(r) \/ ListArticlesNotFound(r)
           \/ CreateArticleNotFound(r)
  PROVE  IInv'
<1>1. UNCHANGED <<tables, zammad>>
  BY DEF ResolveOrgFails, GetTicketRefused, ListArticlesNotFound, CreateArticleNotFound
<1>2. CASE \E a \in {"forbidden", "not found", "failed"} : Refuse(r, a)
  BY <1>1, <1>2, NothingGrows, RefuseStep
<1>3. CASE ListArticlesNotFound(r) /\ req[r].op = "detail"
  BY <1>1, <1>3, WithoutStep DEF ListArticlesNotFound, At
<1> QED
  BY <1>2, <1>3
     DEF ResolveOrgFails, GetTicketRefused, ListArticlesNotFound, CreateArticleNotFound, Fail

LEMMA BeginRefusedStep ==
  ASSUME IInv, NEW r \in Requests, NEW op \in PortalOps, NEW t \in Tickets,
         BeginRefused(r, op, t)
  PROVE  IInv'
<1>1. PICK q \in Request :
        q = [NewRequest(op, None, t, "done") EXCEPT !.answer = "forbidden"]
  <2>1. Nothing \in Shown
    BY DEF Nothing, Shown
  <2>2. NewRequest(op, None, t, "done") \in Request
    BY <2>1 DEF NewRequest, Request
  <2> QED
    BY <2>2 DEF Request
<1>2. req' = [req EXCEPT ![r] = q] /\ UNCHANGED <<tables, zammad>>
  BY <1>1 DEF BeginRefused
<1>3. /\ q.pc = "done" /\ q.answer \notin {"", "ok"} /\ q.zammadOrg = None
      /\ q.tickets = {} /\ q.shown.articles = {} /\ q.shown.notes = {}
      /\ q.due.articles = {} /\ q.due.notes = {} /\ q.due.documents = {}
      /\ q.failed = {}
  BY <1>1 DEF NewRequest, Nothing
<1>4. Placed(q) /\ Complete(q)
  BY <1>3 DEF Placed, Complete
<1>5. Scoped(q) /\ Due(q)
  BY <1>3 DEF Scoped, Due
<1> QED
  BY <1>2, <1>4, <1>5, NothingGrows, OneRequest DEF Good

LEMMA InsertNoteStep ==
  ASSUME IInv, NEW r \in Requests, InsertNote(r)
  PROVE  IInv'
<1>1. /\ req[r] \in Request /\ Good(req[r]) /\ req[r].pc = "insert"
      /\ req[r].op = "note" /\ req[r].ticket \in known
      /\ notes \in Seq(known) /\ Len(notes) < MaxNotes
      /\ notes' = Append(notes, req[r].ticket) /\ Respond(r)
      /\ UNCHANGED <<orgs, known, documents, zammad>>
  BY DEF IInv, TypeOK, At, InsertNote, Good, Placed
<1>2. /\ notes' \in Seq(known) /\ Len(notes') = Len(notes) + 1 /\ Grows(notes, notes')
      /\ Len(notes) \in Nat
  BY <1>1, AppendGrows, LenProperties
<1>3. ThreadsGrow
  <2>1. Len(notes') <= MaxNotes
    BY <1>1, <1>2, BoundsAssumption
  <2> QED
    BY <1>1, <1>2, <2>1 DEF ThreadsGrow, Grows, IInv, TypeOK, zammad
<1>4. /\ req[r].due.articles = {} /\ req[r].due.notes = {} /\ req[r].due.documents = {}
  BY <1>1 DEF Good, Due
<1> QED
  BY <1>1, <1>3, <1>4, RespondStep DEF PortalOps

(* Any number of articles may have been posted.                            *)
LEMMA PostedGrows ==
  ASSUME IInv, NEW t \in Tickets, NEW n \in Nat, n <= MaxArticles - Len(articles),
         articles' = articles \o Posted(t, n), UNCHANGED <<tables, ticketOrg>>
  PROVE  ThreadsGrow
<1> DEFINE S == [ticket : Tickets, internal : BOOLEAN]
<1>1. /\ articles \in Seq(S) /\ Len(articles) \in Nat
  BY LenProperties DEF IInv, TypeOK
<1>2. Posted(t, n) \in [1 .. n -> S]
  BY DEF Posted
<1>3. Posted(t, n) \in Seq(S)
  BY <1>2, SeqDef
<1>4. Len(Posted(t, n)) = n
  <2>1. DOMAIN Posted(t, n) = 1 .. Len(Posted(t, n)) /\ Len(Posted(t, n)) \in Nat
    BY <1>3, LenProperties
  <2>2. DOMAIN Posted(t, n) = 1 .. n
    BY DEF Posted
  <2> DEFINE m == Len(Posted(t, n))
  <2>3. m # 0 => m \in 1 .. n
    BY <2>1, <2>2
  <2>4. n # 0 => n \in 1 .. m
    BY <2>1, <2>2
  <2> HIDE DEF m
  <2>5. m \in Nat
    BY <2>1 DEF m
  <2>6. m = n
    BY <2>3, <2>4, <2>5
  <2> QED
    BY <2>6 DEF m
<1>5. /\ articles' \in Seq(S) /\ Len(articles') = Len(articles) + n
      /\ Grows(articles, articles')
  BY <1>1, <1>3, <1>4, ConcatGrows
<1>6. Len(articles') <= MaxArticles
  BY <1>1, <1>5, BoundsAssumption
<1> QED
  BY <1>5, <1>6 DEF ThreadsGrow, Grows, IInv, TypeOK, tables

LEMMA CreateArticleStep ==
  ASSUME IInv, NEW r \in Requests, NEW n \in 0 .. MaxArticles,
         CreateArticle(r, n) \/ CreateArticleFails(r, n)
  PROVE  IInv'
<1>1. /\ req[r] \in Request /\ Good(req[r]) /\ req[r].pc = "post"
      /\ req[r].ticket \in Tickets /\ req[r].op \in {"reply", "public reply"}
      /\ articles' = articles \o Posted(req[r].ticket, n)
      /\ UNCHANGED <<tables, ticketOrg>>
  BY DEF IInv, TypeOK, Request, At, CreateArticle, CreateArticleFails, Good, Placed
<1>2. n \in Nat /\ n <= MaxArticles - Len(articles)
  <2>1. Len(articles) \in Nat
    BY LenProperties DEF IInv, TypeOK
  <2>2. n \in 0 .. MaxArticles - Len(articles)
    BY <2>1, BoundsAssumption DEF CreateArticle, CreateArticleFails
  <2> QED
    BY <2>1, <2>2, BoundsAssumption
<1>3. ThreadsGrow
  BY <1>1, <1>2, PostedGrows
<1>4. /\ req[r].due.articles = {} /\ req[r].due.notes = {} /\ req[r].due.documents = {}
  BY <1>1 DEF Good, Due
<1>5. CASE Respond(r)
  BY <1>1, <1>3, <1>4, <1>5, RespondStep
<1>6. CASE Fail(r)
  BY <1>3, <1>6, RefuseStep DEF Fail
<1> QED
  BY <1>5, <1>6 DEF CreateArticle, CreateArticleFails

LEMMA BeginStep ==
  ASSUME IInv, NEW r \in Requests, NEW op, NEW o, NEW t \in Tickets, Begin(r, op, o, t),
         \/ op \in PortalOps /\ o \in Orgs
         \/ op \in ThreadOps /\ o = None
  PROVE  IInv'
<1>0. o \in Orgs \cup {None} /\ op \in PortalOps \cup ThreadOps /\ (o = None => op \in ThreadOps)
  BY OrgsAssumption
<1> DEFINE valid == IF o = None THEN {} ELSE {orgs[o]} \cap ZammadOrgs
           due == [articles |-> CASE op = "thread" -> ArticlesOf(t)
                                  [] op = "detail" -> PublicOf(t)
                                  [] OTHER -> {},
                   notes |-> IF op = "thread" THEN NotesOf(t) ELSE {},
                   documents |-> IF op \in {"detail", "articles"} THEN DocumentsOf(t) ELSE {}]
<1>1. due \in Shown
  <2>1. DocumentsOf(t) \subseteq Documents
    BY DEF DocumentsOf
  <2> QED
    BY <2>1, Numbers DEF Shown
<1>2. /\ FirstStep(op) \in {"org", "articles", "post", "meta"}
      /\ FirstStep(op) = "org" <=> op \in PortalOps
      /\ FirstStep(op) = "articles" <=> op = "thread"
      /\ FirstStep(op) = "post" <=> op = "public reply"
      /\ FirstStep(op) = "meta" <=> op = "note"
  BY <1>0 DEF FirstStep, PortalOps, ThreadOps
<1>3. PICK q \in Request :
        q = [NewRequest(op, o, t, FirstStep(op)) EXCEPT !.valid = valid, !.due = due]
  <2>1. Nothing \in Shown
    BY DEF Nothing, Shown
  <2>2. valid \in SUBSET ZammadOrgs
    OBVIOUS
  <2> HIDE DEF valid, due
  <2> QED
    BY <1>0, <1>1, <1>2, <2>1, <2>2 DEF NewRequest, Request
<1>4. req' = [req EXCEPT ![r] = q] /\ UNCHANGED <<tables, zammad>>
  BY <1>3 DEF Begin
<1>5a. /\ op = "thread" => due.articles = ArticlesOf(t)
       /\ op = "detail" => due.articles = PublicOf(t)
       /\ op \notin {"thread", "detail"} => due.articles = {}
       /\ due.notes = IF op = "thread" THEN NotesOf(t) ELSE {}
       /\ due.documents = IF op \in {"detail", "articles"} THEN DocumentsOf(t) ELSE {}
  OBVIOUS
<1> HIDE DEF due
<1>5. /\ q.op = op /\ q.org = o /\ q.ticket = t /\ q.pc = FirstStep(op)
      /\ q.zammadOrg = None /\ q.tickets = {} /\ q.answer = "" /\ q.failed = {}
      /\ q.shown.articles = {} /\ q.shown.notes = {}
      /\ q.valid = valid /\ q.due = due
  BY <1>3 DEF NewRequest, Nothing
<1>6. Placed(q)
  BY <1>0, <1>2, <1>5 DEF Placed, PortalOps, ThreadOps
<1>7. q.op \in PortalOps => Scoped(q)
  <2> SUFFICES ASSUME op \in PortalOps PROVE Scoped(q)
    BY <1>5
  <2>1. o \in Orgs /\ o # None
    BY <1>0, OrgsAssumption DEF PortalOps, ThreadOps
  <2>2. q.pc = "org"
    BY <1>2, <1>5
  <2> QED
    BY <1>5, <2>1, <2>2 DEF Scoped
<1>8. Due(q)
  BY <1>5, <1>5a DEF Due
<1>9. Complete(q)
  <2>1. q.pc = "meta" => q.due.articles = {}
    BY <1>2, <1>5, <1>5a
  <2> QED
    BY <1>2, <1>5, <2>1 DEF Complete
<1> QED
  BY <1>4, <1>6, <1>7, <1>8, <1>9, NothingGrows, OneRequest DEF Good

-----------------------------------------------------------------------------
(* The others: administrators, agents and Zammad.                          *)

LEMMA HarmlessStep ==
  ASSUME IInv,
         \/ \E o \in Orgs : DeleteCustomerOrg(o)
         \/ \E t \in Tickets : \/ DeleteTicket(t) \/ ZammadNote(t) \/ TicketKnown(t)
                               \/ \E d \in Documents : LinkArticle(t, d)
         \/ UNCHANGED vars
  PROVE  IInv'
<1>0. TypeOK
  BY DEF IInv
<1>1. ASSUME NEW o \in Orgs, DeleteCustomerOrg(o)
      PROVE  IInv'
  <2>1. TypeOK' /\ UNCHANGED req
    BY <1>0, <1>1 DEF DeleteCustomerOrg, TypeOK, zammad
  <2>2. Harmless
    BY <1>0, <1>1, OrgsAssumption DEF DeleteCustomerOrg, Harmless, Grows, TypeOK, zammad
  <2> QED
    BY <2>1, <2>2, RequestsLast DEF IInv
<1>2. ASSUME NEW t \in Tickets, DeleteTicket(t)
      PROVE  IInv'
  <2>1. TypeOK' /\ UNCHANGED req
    BY <1>0, <1>2 DEF DeleteTicket, TypeOK, tables
  <2>2. Harmless
    BY <1>0, <1>2, OrgsAssumption DEF DeleteTicket, Harmless, Grows, TypeOK, tables
  <2> QED
    BY <2>1, <2>2, RequestsLast DEF IInv
<1>3. ASSUME NEW t \in Tickets, ZammadNote(t)
      PROVE  IInv'
  <2>1. /\ articles' \in Seq([ticket : Tickets, internal : BOOLEAN])
        /\ Len(articles') = Len(articles) + 1 /\ Grows(articles, articles')
        /\ Len(articles) \in Nat
    <3> DEFINE e == [ticket |-> t, internal |-> TRUE]
    <3>1. e \in [ticket : Tickets, internal : BOOLEAN] /\ articles' = Append(articles, e)
      BY <1>3 DEF ZammadNote
    <3> HIDE DEF e
    <3>2. articles \in Seq([ticket : Tickets, internal : BOOLEAN])
      BY <1>0 DEF TypeOK
    <3> QED
      BY <3>1, <3>2, AppendGrows, LenProperties
  <2>2. Len(articles') <= MaxArticles
    BY <1>3, <2>1, BoundsAssumption DEF ZammadNote
  <2>3. TypeOK' /\ UNCHANGED req
    BY <1>0, <1>3, <2>1, <2>2 DEF ZammadNote, TypeOK, tables
  <2>4. Harmless
    BY <1>3, <2>1 DEF ZammadNote, Harmless, Grows, tables
  <2> QED
    BY <2>3, <2>4, RequestsLast DEF IInv
<1>4. ASSUME NEW t \in Tickets, TicketKnown(t)
      PROVE  IInv'
  <2>1. notes' \in Seq(known')
    BY <1>0, <1>4, SeqMonotonic DEF TicketKnown, TypeOK
  <2>2. TypeOK' /\ UNCHANGED req
    BY <1>0, <1>4, <2>1 DEF TicketKnown, TypeOK, zammad
  <2>3. Harmless
    BY <1>4 DEF TicketKnown, Harmless, Grows, zammad
  <2> QED
    BY <2>2, <2>3, RequestsLast DEF IInv
<1>5. ASSUME NEW t \in Tickets, NEW d \in Documents, LinkArticle(t, d)
      PROVE  IInv'
  <2>1. TypeOK' /\ UNCHANGED req
    BY <1>0, <1>5 DEF LinkArticle, Linkable, TypeOK, zammad
  <2>2. Harmless
    BY <1>5 DEF LinkArticle, Harmless, Grows, zammad
  <2> QED
    BY <2>1, <2>2, RequestsLast DEF IInv
<1>6. CASE UNCHANGED vars
  <2>1. TypeOK' /\ UNCHANGED req
    BY <1>0, <1>6 DEF vars, TypeOK, tables, zammad
  <2>2. Harmless
    BY <1>6 DEF vars, tables, zammad, Harmless, Grows
  <2> QED
    BY <2>1, <2>2, RequestsLast DEF IInv
<1> QED
  BY <1>1, <1>2, <1>3, <1>4, <1>5, <1>6

(* An organisation's row is written: the requests of its members that are  *)
(* in progress may meet the old one or the new one.                        *)
LEMMA CustomerOrgStep ==
  ASSUME IInv, NEW o \in Orgs, NEW z \in ZammadOrgs \cup {Unset},
         CreateCustomerOrg(o, z) \/ (UpdateCustomerOrg(o, z) /\ z \in ZammadOrgs)
  PROVE  IInv'
<1>1. /\ orgs' = [orgs EXCEPT ![o] = z]
      /\ UNCHANGED <<known, documents, notes, zammad>>
  BY DEF CreateCustomerOrg, UpdateCustomerOrg
<1>2. req' = [r \in Requests |->
                IF req[r].org = o /\ At(r, "org")
                THEN [req[r] EXCEPT !.valid = @ \cup ({z} \cap ZammadOrgs)] ELSE req[r]]
  <2>1. z \in ZammadOrgs => {z} \cap ZammadOrgs = {z}
    OBVIOUS
  <2> QED
    BY <2>1 DEF CreateCustomerOrg, UpdateCustomerOrg
<1>3. ASSUME NEW s \in Requests
      PROVE  req'[s] \in Request /\ Good(req[s])'
  <2>1. PICK p \in Request : p = req[s] /\ Good(p)
    BY DEF IInv, TypeOK
  <2>2. PICK q \in Request :
          q = IF p.org = o /\ p.pc = "org"
              THEN [p EXCEPT !.valid = @ \cup ({z} \cap ZammadOrgs)] ELSE p
    BY DEF Request
  <2>3. req'[s] = q
    BY <1>2, <2>1, <2>2 DEF At
  <2>4. /\ q.op = p.op /\ q.org = p.org /\ q.ticket = p.ticket /\ q.pc = p.pc
        /\ q.zammadOrg = p.zammadOrg /\ q.tickets = p.tickets /\ q.shown = p.shown
        /\ q.failed = p.failed /\ q.answer = p.answer /\ q.own = p.own /\ q.due = p.due
        /\ p.valid \subseteq q.valid
        /\ p.org = o /\ p.pc = "org" => {z} \cap ZammadOrgs \subseteq q.valid
    BY <2>2, ZenonT(60) DEF Request
  <2>5. Placed(q)'
    BY <1>1, <2>1, <2>4 DEF Good, Placed
  <2>6. Due(q)' /\ Complete(q)'
    BY <1>1, <2>1, <2>4
       DEF Good, Due, Complete, PublicOf, ArticlesOf, NotesOf, DocumentsOf, zammad
  <2>7. q.op \in PortalOps => Scoped(q)'
    <3> SUFFICES ASSUME Scoped(p) PROVE Scoped(q)'
      BY <2>1, <2>4 DEF Good
    <3>1. q.pc = "org" => {orgs'[q.org]} \cap ZammadOrgs \subseteq q.valid
      BY <1>1, <2>1, <2>4 DEF Good, Placed, Scoped, IInv, TypeOK
    <3>2. TicketsOf(q.zammadOrg)' = TicketsOf(q.zammadOrg)
          /\ PublicOf(q.ticket)' = PublicOf(q.ticket)
      BY <1>1 DEF TicketsOf, PublicOf, ArticlesOf, zammad
    <3> QED
      BY <2>4, <3>1, <3>2 DEF Scoped
  <2> QED
    BY <2>3, <2>5, <2>6, <2>7 DEF Good
<1>4. TypeOK'
  BY <1>1, <1>2, <1>3 DEF IInv, TypeOK, zammad
<1> QED
  BY <1>3, <1>4 DEF IInv

(* A ticket is opened or moved: requests that have looked up the           *)
(* organisation it gets may still find it.                                 *)
LEMMA SetTicketOrgStep ==
  ASSUME IInv, NEW t \in Tickets, NEW z \in ZammadOrgs, SetTicketOrg(t, z)
  PROVE  IInv'
<1>1. /\ ticketOrg' = [ticketOrg EXCEPT ![t] = z]
      /\ UNCHANGED <<tables, articles>>
      /\ req' = [r \in Requests |->
                   IF req[r].zammadOrg = z /\ req[r].pc \in {"tickets", "ticket"}
                   THEN [req[r] EXCEPT !.own = @ \cup {t}] ELSE req[r]]
  BY DEF SetTicketOrg
<1>2. ASSUME NEW s \in Requests
      PROVE  req'[s] \in Request /\ Good(req[s])'
  <2>1. PICK p \in Request : p = req[s] /\ Good(p)
    BY DEF IInv, TypeOK
  <2>2. PICK q \in Request :
          q = IF p.zammadOrg = z /\ p.pc \in {"tickets", "ticket"} THEN [p EXCEPT !.own = @ \cup {t}] ELSE p
    BY DEF Request
  <2>3. req'[s] = q
    BY <1>1, <2>1, <2>2 DEF At
  <2>4. /\ q.op = p.op /\ q.org = p.org /\ q.ticket = p.ticket /\ q.pc = p.pc
        /\ q.zammadOrg = p.zammadOrg /\ q.tickets = p.tickets /\ q.shown = p.shown
        /\ q.failed = p.failed /\ q.answer = p.answer /\ q.valid = p.valid /\ q.due = p.due
        /\ p.own \subseteq q.own
        /\ p.zammadOrg = z /\ p.pc \in {"tickets", "ticket"} => t \in q.own
    BY <2>2, ZenonT(60) DEF Request
  <2>5. Placed(q)'
    BY <1>1, <2>1, <2>4 DEF Good, Placed, tables
  <2>6. Due(q)' /\ Complete(q)'
    BY <1>1, <2>1, <2>4
       DEF Good, Due, Complete, PublicOf, ArticlesOf, NotesOf, DocumentsOf, tables
  <2>7. q.op \in PortalOps => Scoped(q)'
    <3> SUFFICES ASSUME Scoped(p) PROVE Scoped(q)'
      BY <2>1, <2>4 DEF Good
    <3>1. q.pc \in {"tickets", "ticket"} => TicketsOf(q.zammadOrg)' \subseteq q.own
      BY <1>1, <2>4 DEF Scoped, TicketsOf, IInv, TypeOK
    <3>2. PublicOf(q.ticket)' = PublicOf(q.ticket) /\ orgs' = orgs
      BY <1>1 DEF PublicOf, ArticlesOf, tables
    <3> QED
      BY <2>4, <3>1, <3>2 DEF Scoped
  <2> QED
    BY <2>3, <2>5, <2>6, <2>7 DEF Good
<1>3. TypeOK'
  BY <1>1, <1>2 DEF IInv, TypeOK, tables
<1> QED
  BY <1>2, <1>3 DEF IInv

(* A link is taken away: it need not be on any answer now in progress.     *)
LEMMA UnlinkArticleStep ==
  ASSUME IInv, NEW t \in Tickets, NEW d \in Documents, UnlinkArticle(t, d)
  PROVE  IInv'
<1>1. /\ documents' = documents \ {<<t, d>>}
      /\ UNCHANGED <<orgs, known, notes, zammad>>
      /\ req' = [r \in Requests |->
                   IF req[r].ticket = t /\ ~At(r, "done")
                   THEN [req[r] EXCEPT !.due.documents = @ \ {d}] ELSE req[r]]
  BY DEF UnlinkArticle
<1>2. ASSUME NEW s \in Requests
      PROVE  req'[s] \in Request /\ Good(req[s])'
  <2>1. PICK p \in Request : p = req[s] /\ Good(p)
    BY DEF IInv, TypeOK
  <2> DEFINE less == [p.due EXCEPT !.documents = @ \ {d}]
  <2>2. less \in Shown /\ p.due \in Shown
    BY DEF Request, Shown
  <2>3. /\ less.articles = p.due.articles /\ less.notes = p.due.notes
        /\ less.documents = p.due.documents \ {d}
    BY <2>2 DEF Shown
  <2> HIDE DEF less
  <2>4. PICK q \in Request :
          q = IF p.ticket = t /\ p.pc # "done" THEN [p EXCEPT !.due = less] ELSE p
    BY <2>2 DEF Request
  <2>5. req'[s] = q
    BY <1>1, <2>1, <2>4 DEF At, less
  <2>6. /\ q.op = p.op /\ q.org = p.org /\ q.ticket = p.ticket /\ q.pc = p.pc
        /\ q.zammadOrg = p.zammadOrg /\ q.tickets = p.tickets /\ q.shown = p.shown
        /\ q.failed = p.failed /\ q.answer = p.answer /\ q.valid = p.valid /\ q.own = p.own
        /\ q.due = IF p.ticket = t /\ p.pc # "done" THEN less ELSE p.due
    BY <2>4, ZenonT(60) DEF Request
  <2>7. Placed(q)'
    BY <1>1, <2>1, <2>6 DEF Good, Placed
  <2>8. /\ PublicOf(q.ticket)' = PublicOf(q.ticket) /\ ArticlesOf(q.ticket)' = ArticlesOf(q.ticket)
        /\ NotesOf(q.ticket)' = NotesOf(q.ticket)
        /\ TicketsOf(q.zammadOrg)' = TicketsOf(q.zammadOrg) /\ orgs' = orgs
    BY <1>1 DEF PublicOf, ArticlesOf, NotesOf, TicketsOf, zammad
  <2>9. q.pc # "done" => q.due.documents \subseteq DocumentsOf(q.ticket)'
    BY <1>1, <2>1, <2>3, <2>6 DEF Good, Due, DocumentsOf
  <2>10. Due(q)'
    BY <2>1, <2>3, <2>6, <2>8, <2>9 DEF Good, Due
  <2>11. Complete(q)'
    BY <2>1, <2>3, <2>6 DEF Good, Complete
  <2>12. q.op \in PortalOps => Scoped(q)'
    BY <2>1, <2>6, <2>8 DEF Good, Scoped
  <2> QED
    BY <2>5, <2>7, <2>10, <2>11, <2>12 DEF Good
<1>3. TypeOK'
  BY <1>1, <1>2 DEF IInv, TypeOK, zammad
<1> QED
  BY <1>2, <1>3 DEF IInv

-----------------------------------------------------------------------------
LEMMA InvStep == IInv /\ [Next]_vars => IInv'
<1> SUFFICES ASSUME IInv, [Next]_vars PROVE IInv'
  OBVIOUS
<1>1. ASSUME NEW r \in Requests, RequestStep(r)
      PROVE  IInv'
  BY <1>1, ResolveOrgStep, RefusedStep, ListTicketsStep, GetTicketStep, FailingStep,
     ListArticlesStep, GetTicketMetaIDStep, GetTicketMetaIDUnknownStep,
     ListArticleLinksStep, ListNotesStep, InsertNoteStep, CreateArticleStep
     DEF RequestStep
<1>2. ASSUME NEW r \in Requests, NEW op \in PortalOps, NEW t \in Tickets,
             BeginRefused(r, op, t) \/ \E o \in Orgs : Begin(r, op, o, t)
      PROVE  IInv'
  BY <1>2, BeginStep, BeginRefusedStep
<1>3. ASSUME NEW r \in Requests, NEW op \in ThreadOps, NEW t \in Tickets, Begin(r, op, None, t)
      PROVE  IInv'
  BY <1>3, BeginStep
<1>4. ASSUME NEW o \in Orgs, NEW z \in ZammadOrgs \cup {Unset},
             CreateCustomerOrg(o, z) \/ (UpdateCustomerOrg(o, z) /\ z \in ZammadOrgs)
      PROVE  IInv'
  BY <1>4, CustomerOrgStep
<1>5. ASSUME NEW t \in Tickets, NEW z \in ZammadOrgs, SetTicketOrg(t, z)
      PROVE  IInv'
  BY <1>5, SetTicketOrgStep
<1>6. ASSUME NEW t \in Tickets, NEW d \in Documents, UnlinkArticle(t, d)
      PROVE  IInv'
  BY <1>6, UnlinkArticleStep
<1> QED
  BY <1>1, <1>2, <1>3, <1>4, <1>5, <1>6, HarmlessStep DEF Next

THEOREM Invariance == Spec => []IInv
BY InitIInv, InvStep, PTL DEF Spec

(* Every variable of the portal keeps its type.                            *)
THEOREM TypeCorrect == Spec => []TypeOK
<1>1. IInv => TypeOK
  BY DEF IInv
<1> QED
  BY <1>1, Invariance, PTL

(* A route of the portal serves its caller as a member of an organisation  *)
(* his token's row named while the request waited for it, and reaches only *)
(* what is that organisation's, whoever moves tickets and edits            *)
(* organisations between the calls of the request.                         *)
THEOREM PortalAlwaysScoped == Spec => []PortalScoped
<1>1. IInv => PortalScoped
  BY DEF IInv, Good, Scoped, PortalScoped
<1> QED
  BY <1>1, Invariance, PTL

(* What an answered thread or list of articles leaves out was not there    *)
(* when it was asked for; a detail page leaves out at most the part whose  *)
(* own reading failed.                                                     *)
THEOREM NothingEverMissing == Spec => []NothingMissing
<1>1. IInv => NothingMissing
  BY DEF IInv, Good, Complete, NothingMissing
<1> QED
  BY <1>1, Invariance, PTL
=============================================================================
