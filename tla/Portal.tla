------------------------------- MODULE Portal -------------------------------
(***************************************************************************)
(* The routes of the customer portal, which show and answer the tickets of *)
(* the organisation on the caller's token, and those of the comment thread,*)
(* which read the whole of it and add replies and notes.  Meanwhile        *)
(* customer_orgs is edited, knowledge base articles are linked, tickets    *)
(* move to other organisations, and every query and every call to Zammad   *)
(* may fail.                                                               *)
(*                                                                         *)
(* Every authenticated caller may call every route: neither the router nor *)
(* a handler asks for a role.  Only the portal's routes look at the        *)
(* caller's organisation, so nothing here confines a caller to them.       *)
(*                                                                         *)
(* Left out: what the tickets and the comments say, the order of a thread, *)
(* the SLA due times of a detail page (one more query whose failure is     *)
(* ignored), and requests rejected for their form.  Zammad is configured.  *)
(***************************************************************************)
EXTENDS Naturals, Sequences

CONSTANTS
  Requests,    \* HTTP requests in progress at a time, whoever makes them
  Orgs,        \* ids in customer_orgs, as the callers' tokens carry them
  ZammadOrgs,  \* Zammad's organisation ids
  Tickets,     \* tickets, in Zammad or not
  Documents,   \* BookOwl articles
  Faults,      \* which of "db", "api" happen
  MaxArticles, \* bound: articles in Zammad
  MaxNotes     \* bound: rows in internal_notes

None == "none"    \* no such row, no such ticket
Unset == "unset"  \* zammad_org_id IS NULL
Gone == "gone"    \* a deleted ticket, whose number is not used again

ASSUME OrgsAssumption == None \notin Orgs /\ {None, Unset, Gone} \cap ZammadOrgs = {}
ASSUME BoundsAssumption == MaxArticles \in Nat /\ MaxNotes \in Nat

(* The routes under /portal, and those under /tickets/{id}/comments.       *)
PortalOps == {"list", "detail", "articles", "reply"}
ThreadOps == {"thread", "public reply", "note"}

VARIABLES
  orgs,      \* table customer_orgs: the Zammad organisation of each row
  known,     \* table ticket_meta: the tickets with a row
  documents, \* table article_links: pairs of ticket and document
  notes,     \* table internal_notes: the tickets they are about
  ticketOrg, \* Zammad: the organisation of each ticket
  articles,  \* Zammad: articles, with their ticket and visibility
  req        \* the requests: local state, history and, at "done", the answer

tables == <<orgs, known, documents, notes>>
zammad == <<ticketOrg, articles>>
vars == <<tables, zammad, req>>

Nothing == [articles |-> {}, notes |-> {}, documents |-> {}]
Shown == [articles : SUBSET (1 .. MaxArticles), notes : SUBSET (1 .. MaxNotes),
          documents : SUBSET Documents]
Request ==
  [op : PortalOps \cup ThreadOps,
   org : Orgs \cup {None},
   ticket : Tickets,
   pc : {"org", "tickets", "ticket", "articles", "meta", "documents", "notes",
         "insert", "post", "done"},
   zammadOrg : ZammadOrgs \cup {None},
   tickets : SUBSET Tickets,
   shown : Shown,
   answer : {"", "ok", "forbidden", "not found", "failed"},
   valid : SUBSET ZammadOrgs,  \* history: what the caller's row said until it was read
   own : SUBSET Tickets,       \* history: what zammadOrg had from then to the next call
   due : Shown,                \* history: what was there when it began
   failed : SUBSET {"articles", "documents"}]  \* history: what could not be read

TypeOK ==
  /\ orgs \in [Orgs -> ZammadOrgs \cup {None, Unset}]
  /\ known \subseteq Tickets
  /\ documents \subseteq known \X Documents
  /\ notes \in Seq(known) /\ Len(notes) <= MaxNotes
  /\ ticketOrg \in [Tickets -> ZammadOrgs \cup {None, Gone}]
  /\ articles \in Seq([ticket : Tickets, internal : BOOLEAN])
  /\ Len(articles) <= MaxArticles
  /\ req \in [Requests -> Request]

NewRequest(op, o, t, pc) ==
  [op |-> op, org |-> o, ticket |-> t, pc |-> pc, zammadOrg |-> None,
   tickets |-> {}, shown |-> Nothing, answer |-> "",
   valid |-> {}, own |-> {}, due |-> Nothing, failed |-> {}]

Init ==
  /\ orgs = [o \in Orgs |-> None]
  /\ known = {} /\ documents = {} /\ notes = <<>>
  /\ ticketOrg = [t \in Tickets |-> None]
  /\ articles = <<>>
  /\ \E t \in Tickets :
       req = [r \in Requests |->
                [NewRequest("thread", None, t, "done") EXCEPT !.answer = "failed"]]

At(r, pc) == req[r].pc = pc

-----------------------------------------------------------------------------
(* Administrators, agents and Zammad.                                      *)

CreateCustomerOrg(o, z) ==
  /\ orgs[o] = None
  /\ orgs' = [orgs EXCEPT ![o] = z]
  /\ req' = [r \in Requests |->
               IF req[r].org = o /\ At(r, "org")
               THEN [req[r] EXCEPT !.valid = @ \cup ({z} \cap ZammadOrgs)] ELSE req[r]]
  /\ UNCHANGED <<known, documents, notes, zammad>>

(* COALESCE: an id that is not sent stays as it is.                        *)
UpdateCustomerOrg(o, z) ==
  /\ orgs[o] # None
  /\ orgs' = [orgs EXCEPT ![o] = z]
  /\ req' = [r \in Requests |->
               IF req[r].org = o /\ At(r, "org")
               THEN [req[r] EXCEPT !.valid = @ \cup {z}] ELSE req[r]]
  /\ UNCHANGED <<known, documents, notes, zammad>>

DeleteCustomerOrg(o) ==
  /\ orgs[o] # None
  /\ orgs' = [orgs EXCEPT ![o] = None]
  /\ UNCHANGED <<known, documents, notes, zammad, req>>

(* A ticket is opened, or moved to another organisation.                   *)
SetTicketOrg(t, z) ==
  /\ ticketOrg[t] \notin {z, Gone}
  /\ ticketOrg' = [ticketOrg EXCEPT ![t] = z]
  /\ req' = [r \in Requests |->
               IF req[r].zammadOrg = z /\ req[r].pc \in {"tickets", "ticket"}
               THEN [req[r] EXCEPT !.own = @ \cup {t}] ELSE req[r]]
  /\ UNCHANGED <<tables, articles>>

Exists(t) == ticketOrg[t] \in ZammadOrgs

(* What TicketOwl has stored about the ticket stays.                       *)
DeleteTicket(t) ==
  /\ Exists(t)
  /\ ticketOrg' = [ticketOrg EXCEPT ![t] = Gone]
  /\ UNCHANGED <<tables, articles, req>>

(* An agent writes an internal article in Zammad.                          *)
ZammadNote(t) ==
  /\ Exists(t)
  /\ Len(articles) < MaxArticles
  /\ articles' = Append(articles, [ticket |-> t, internal |-> TRUE])
  /\ UNCHANGED <<tables, ticketOrg, req>>

(* The event of a new ticket makes it known.                               *)
TicketKnown(t) ==
  /\ Exists(t)
  /\ known' = known \cup {t}
  /\ UNCHANGED <<orgs, documents, notes, zammad, req>>

Linkable(t, d) == t \in known /\ <<t, d>> \notin documents

LinkArticle(t, d) ==
  /\ Linkable(t, d)
  /\ documents' = documents \cup {<<t, d>>}
  /\ UNCHANGED <<orgs, known, notes, zammad, req>>

UnlinkArticle(t, d) ==
  /\ <<t, d>> \in documents
  /\ documents' = documents \ {<<t, d>>}
  /\ req' = [r \in Requests |->
               IF req[r].ticket = t /\ ~At(r, "done")
               THEN [req[r] EXCEPT !.due.documents = @ \ {d}] ELSE req[r]]
  /\ UNCHANGED <<orgs, known, notes, zammad>>

-----------------------------------------------------------------------------
(* The requests.                                                           *)

(* An error carries nothing of what was read.                              *)
Refuse(r, a) ==
  req' = [req EXCEPT ![r] = [NewRequest(@.op, None, @.ticket, "done") EXCEPT !.answer = a]]

Fail(r) == Refuse(r, "failed")

Respond(r) == req' = [req EXCEPT ![r].pc = "done", ![r].answer = "ok"]

(* A detail page does without a part: the failure is logged, the part left *)
(* empty, and nothing on the answer tells it from one that is empty.       *)
GoOnWithout(r, part, pc) ==
  req' = [req EXCEPT ![r].failed = @ \cup {part}, ![r].pc = pc,
                     ![r].answer = IF pc = "done" THEN "ok" ELSE ""]

TicketsOf(z) == {t \in Tickets : ticketOrg[t] = z}
ArticlesOf(t) == {k \in DOMAIN articles : articles[k].ticket = t}
PublicOf(t) == {k \in ArticlesOf(t) : ~articles[k].internal}
NotesOf(t) == {k \in DOMAIN notes : notes[k] = t}
DocumentsOf(t) == {d \in Documents : <<t, d>> \in documents}

GoTo(r, pc) == req' = [req EXCEPT ![r].pc = pc]
DbFails == "db" \in Faults
ApiFails == "api" \in Faults

(* Where the service's method begins: the portal's with the organisation.  *)
FirstStep(op) ==
  CASE op \in PortalOps -> "org"
    [] op = "thread" -> "articles"
    [] op = "public reply" -> "post"
    [] op = "note" -> "meta"

Begin(r, op, o, t) ==
  /\ At(r, "done")
  /\ req' = [req EXCEPT ![r] =
       [NewRequest(op, o, t, FirstStep(op)) EXCEPT
          !.valid = IF o = None THEN {} ELSE {orgs[o]} \cap ZammadOrgs,
          !.due = [articles |-> CASE op = "thread" -> ArticlesOf(t)
                                  [] op = "detail" -> PublicOf(t)
                                  [] OTHER -> {},
                   notes |-> IF op = "thread" THEN NotesOf(t) ELSE {},
                   documents |-> IF op \in {"detail", "articles"} THEN DocumentsOf(t) ELSE {}]]]
  /\ UNCHANGED <<tables, zammad>>

(* The portal, for a caller whose token carries no organisation.           *)
BeginRefused(r, op, t) ==
  /\ At(r, "done")
  /\ req' = [req EXCEPT ![r] =
                [NewRequest(op, None, t, "done") EXCEPT !.answer = "forbidden"]]
  /\ UNCHANGED <<tables, zammad>>

(* No row, a row without zammad_org_id and a failed query answer the same. *)
ResolveOrg(r) ==
  /\ At(r, "org")
  /\ LET z == orgs[req[r].org] IN
       /\ z \in ZammadOrgs
       /\ req' = [req EXCEPT ![r].zammadOrg = z,
                    ![r].own = TicketsOf(z),
                    ![r].pc = IF req[r].op = "list" THEN "tickets" ELSE "ticket"]
  /\ UNCHANGED <<tables, zammad>>

ResolveOrgFails(r) ==
  /\ At(r, "org")
  /\ orgs[req[r].org] \in {None, Unset} \/ DbFails
  /\ Fail(r)
  /\ UNCHANGED <<tables, zammad>>

(* Zammad filters by organization_id.                                      *)
ListTickets(r) ==
  /\ At(r, "tickets")
  /\ req' = [req EXCEPT ![r].pc = "done", ![r].answer = "ok",
               ![r].tickets = TicketsOf(req[r].zammadOrg)]
  /\ UNCHANGED <<tables, zammad>>

AfterCheck(op) ==
  CASE op = "detail" -> "articles" [] op = "articles" -> "meta" [] op = "reply" -> "post"

AfterMeta(op) ==
  CASE op = "thread" -> "notes" [] op = "note" -> "insert" [] OTHER -> "documents"

(* Variants of the actions below: bugs the runs must find.                 *)
GetTicketUnchecked(r) ==
  /\ At(r, "ticket")
  /\ Exists(req[r].ticket)
  /\ GoTo(r, AfterCheck(req[r].op))
  /\ UNCHANGED <<tables, zammad>>

ZammadReadFailsQuietly(r) ==
  /\ ApiFails
  /\ req[r].pc \in {"tickets", "ticket", "articles"}
  /\ IF At(r, "articles")
     THEN GoOnWithout(r, "articles", "meta")
     ELSE Fail(r)
  /\ UNCHANGED <<tables, zammad>>

GetTicket(r) ==
  /\ At(r, "ticket")
  /\ ticketOrg[req[r].ticket] = req[r].zammadOrg
  /\ GoTo(r, AfterCheck(req[r].op))
  /\ UNCHANGED <<tables, zammad>>

GetTicketRefused(r) ==
  /\ At(r, "ticket")
  /\ ticketOrg[req[r].ticket] # req[r].zammadOrg
  /\ Refuse(r, IF Exists(req[r].ticket) THEN "forbidden" ELSE "not found")
  /\ UNCHANGED <<tables, zammad>>

(* Any call to Zammad that only reads; a detail page does without its      *)
(* comments.                                                               *)
ZammadReadFails(r) ==
  /\ ApiFails
  /\ req[r].pc \in {"tickets", "ticket", "articles"}
  /\ IF At(r, "articles") /\ req[r].op = "detail"
     THEN GoOnWithout(r, "articles", "meta")
     ELSE Fail(r)
  /\ UNCHANGED <<tables, zammad>>

ListArticles(r) ==
  /\ At(r, "articles")
  /\ LET t == req[r].ticket IN
       /\ Exists(t)
       /\ req' = [req EXCEPT ![r].pc = "meta",
            ![r].shown.articles = IF req[r].op = "detail" THEN PublicOf(t) ELSE ArticlesOf(t)]
  /\ UNCHANGED <<tables, zammad>>

(* To a detail page, that the ticket has gone since it was checked is one  *)
(* more failure.                                                           *)
ListArticlesNotFound(r) ==
  /\ At(r, "articles")
  /\ ~Exists(req[r].ticket)
  /\ IF req[r].op = "detail" THEN GoOnWithout(r, "articles", "meta") ELSE Refuse(r, "not found")
  /\ UNCHANGED <<tables, zammad>>

GetTicketMetaID(r) ==
  /\ At(r, "meta")
  /\ req[r].ticket \in known
  /\ GoTo(r, AfterMeta(req[r].op))
  /\ UNCHANGED <<tables, zammad>>

(* Only a note needs the row.                                              *)
GetTicketMetaIDUnknown(r) ==
  /\ At(r, "meta")
  /\ req[r].ticket \notin known
  /\ IF req[r].op = "note" THEN Fail(r) ELSE Respond(r)
  /\ UNCHANGED <<tables, zammad>>

(* Any query after the organisation's; a detail page does without the      *)
(* documents.                                                              *)
QueryFails(r) ==
  /\ DbFails
  /\ req[r].pc \in {"meta", "documents", "notes", "insert"}
  /\ IF req[r].op = "detail" THEN GoOnWithout(r, "documents", "done") ELSE Fail(r)
  /\ UNCHANGED <<tables, zammad>>

ListArticleLinks(r) ==
  /\ At(r, "documents")
  /\ req' = [req EXCEPT ![r].pc = "done", ![r].answer = "ok",
               ![r].shown.documents = DocumentsOf(req[r].ticket)]
  /\ UNCHANGED <<tables, zammad>>

ListNotes(r) ==
  /\ At(r, "notes")
  /\ req' = [req EXCEPT ![r].pc = "done", ![r].answer = "ok",
               ![r].shown.notes = NotesOf(req[r].ticket)]
  /\ UNCHANGED <<tables, zammad>>

InsertNote(r) ==
  /\ At(r, "insert")
  /\ Len(notes) < MaxNotes
  /\ notes' = Append(notes, req[r].ticket)
  /\ Respond(r)
  /\ UNCHANGED <<orgs, known, documents, zammad>>

(* The call is repeated when its answer is a 5xx: it may make several      *)
(* articles.                                                               *)
Posted(t, n) == [k \in 1 .. n |-> [ticket |-> t, internal |-> FALSE]]

CreateArticle(r, n) ==
  /\ At(r, "post")
  /\ Exists(req[r].ticket)
  /\ n \in 1 .. MaxArticles - Len(articles)
  /\ n = 1 \/ ApiFails
  /\ articles' = articles \o Posted(req[r].ticket, n)
  /\ Respond(r)
  /\ UNCHANGED <<tables, ticketOrg>>

(* The call fails, with the articles of its attempts made or not.          *)
CreateArticleFails(r, n) ==
  /\ At(r, "post")
  /\ ApiFails
  /\ n \in 0 .. MaxArticles - Len(articles)
  /\ Exists(req[r].ticket) \/ n = 0
  /\ articles' = articles \o Posted(req[r].ticket, n)
  /\ Fail(r)
  /\ UNCHANGED <<tables, ticketOrg>>

(* The comment handler does not tell a missing ticket from a failure.      *)
CreateArticleNotFound(r) ==
  /\ At(r, "post")
  /\ ~Exists(req[r].ticket)
  /\ Refuse(r, IF req[r].op = "reply" THEN "not found" ELSE "failed")
  /\ UNCHANGED <<tables, zammad>>

-----------------------------------------------------------------------------

RequestStep(r) ==
  \/ ResolveOrg(r) \/ ResolveOrgFails(r)
  \/ ListTickets(r)
  \/ GetTicket(r) \/ GetTicketRefused(r) \/ ZammadReadFails(r)
  \/ ListArticles(r) \/ ListArticlesNotFound(r)
  \/ GetTicketMetaID(r) \/ GetTicketMetaIDUnknown(r) \/ QueryFails(r)
  \/ ListArticleLinks(r) \/ ListNotes(r) \/ InsertNote(r)
  \/ \E n \in 0 .. MaxArticles : CreateArticle(r, n) \/ CreateArticleFails(r, n)
  \/ CreateArticleNotFound(r)

Next ==
  \/ \E r \in Requests : RequestStep(r)
  \/ \E r \in Requests, t \in Tickets :
       \/ \E op \in PortalOps :
            BeginRefused(r, op, t) \/ \E o \in Orgs : Begin(r, op, o, t)
       \/ \E op \in ThreadOps : Begin(r, op, None, t)
  \/ \E o \in Orgs :
       \/ DeleteCustomerOrg(o)
       \/ CreateCustomerOrg(o, Unset)
       \/ \E z \in ZammadOrgs : CreateCustomerOrg(o, z) \/ UpdateCustomerOrg(o, z)
  \/ \E t \in Tickets :
       \/ DeleteTicket(t) \/ ZammadNote(t) \/ TicketKnown(t)
       \/ \E z \in ZammadOrgs : SetTicketOrg(t, z)
       \/ \E d \in Documents : LinkArticle(t, d) \/ UnlinkArticle(t, d)

Spec == Init /\ [][Next]_vars

-----------------------------------------------------------------------------
(* Whoever calls a route of the portal is served as a member of an         *)
(* organisation the administrator gave to the organisation on his token    *)
(* between the beginning of the request and the reading of that row; the   *)
(* ticket he reads or replies to, and every ticket he is listed, was that  *)
(* organisation's between then and the answer of the call that lists or    *)
(* checks; and of a ticket he is shown nothing internal.  Organisations,   *)
(* tickets and threads change between any two calls of the request.  It    *)
(* says nothing of the thread's routes, which check no organisation.       *)
PortalScoped ==
  \A r \in Requests : req[r].op \in PortalOps =>
    /\ req[r].zammadOrg \in req[r].valid \cup {None}
    /\ (\/ req[r].pc \in {"articles", "meta", "documents", "post"}
        \/ req[r].answer = "ok" /\ req[r].op # "list") => req[r].ticket \in req[r].own
    /\ req[r].tickets \subseteq req[r].own
    /\ req[r].op = "detail" => req[r].shown.articles \subseteq PublicOf(req[r].ticket)
    /\ req[r].shown.notes = {}

(* An answered thread or list of articles lacks nothing that was there     *)
(* when it was asked for: no failure is answered with a part of it.  A     *)
(* detail page lacks only the part whose own reading failed: one that      *)
(* could not read its comments still shows the documents, and the other    *)
(* way round.                                                              *)
NothingMissing ==
  \A r \in Requests : req[r].answer = "ok" =>
    /\ req[r].failed # {} => req[r].op = "detail"
    /\ "articles" \notin req[r].failed => req[r].due.articles \subseteq req[r].shown.articles
    /\ "documents" \notin req[r].failed => req[r].due.documents \subseteq req[r].shown.documents
    /\ req[r].due.notes \subseteq req[r].shown.notes
=============================================================================
