----------------------------- MODULE PostMortem -----------------------------
(***************************************************************************)
(* POST /tickets/{id}/postmortem: look for a link to a post-mortem, have   *)
(* BookOwl write one, store the link.  Every request runs these steps on   *)
(* its own database connection, so agents who press the button together    *)
(* interleave.  The table has a unique index on the ticket and no row of   *)
(* it is ever changed or deleted.                                          *)
(*                                                                         *)
(* Left out: the incidents and the title that go into the document; an     *)
(* incident NightOwl does not return is skipped.                           *)
(***************************************************************************)
EXTENDS Integers, FiniteSets

CONSTANTS
  Requests,   \* requests of agents
  Tickets,    \* tickets that TicketOwl tracks
  Faults,     \* which of "db", "api" fail
  MaxDocs     \* bound: documents in BookOwl

ASSUME BoundAssumption == MaxDocs \in Nat

NoDoc == 0
Docs == 1 .. MaxDocs

VARIABLES
  pc,       \* of each request: "new", "create", "store", "done"
  ticketOf, \* the ticket a request is about
  doc,      \* the document a request has had written, or was told of
  response, \* "none", 201 as "created", 409 as "conflict", 500 as "failed"
  link,     \* table postmortem_links: document of a ticket
  docs,     \* BookOwl: documents written
  lost      \* history: documents whose writing was not answered

request == <<pc, ticketOf, doc, response>>
vars == <<request, link, docs, lost>>

TypeOK ==
  /\ pc \in [Requests -> {"new", "create", "store", "done"}]
  /\ ticketOf \in [Requests -> Tickets]
  /\ doc \in [Requests -> docs \cup {NoDoc}]
  /\ response \in [Requests -> {"none", "created", "conflict", "failed"}]
  /\ \A r \in Requests : pc[r] = "done" <=> response[r] # "none"
  /\ link \in [Tickets -> docs \cup {NoDoc}]
  /\ docs \subseteq Docs /\ lost \subseteq docs

Init ==
  /\ pc = [r \in Requests |-> "new"]
  /\ ticketOf \in [Requests -> Tickets]
  /\ doc = [r \in Requests |-> NoDoc]
  /\ response = [r \in Requests |-> "none"]
  /\ link = [t \in Tickets |-> NoDoc]
  /\ docs = {} /\ lost = {}

NextDoc(d) == d \in Docs \ docs /\ \A e \in Docs \ docs : d <= e

Respond(r, answer) ==
  /\ pc' = [pc EXCEPT ![r] = "done"]
  /\ response' = [response EXCEPT ![r] = answer]
  /\ UNCHANGED ticketOf

(* Variants of the actions below: bugs the runs must find.                 *)
StoreReplaces(r) ==
  /\ pc[r] = "store"
  /\ link' = [link EXCEPT ![ticketOf[r]] = doc[r]]
  /\ Respond(r, "created")
  /\ UNCHANGED <<doc, docs, lost>>

StoreIgnoresConflict(r) ==
  /\ pc[r] = "store"
  /\ link' = [link EXCEPT ![ticketOf[r]] = IF @ = NoDoc THEN doc[r] ELSE @]
  /\ Respond(r, "created")
  /\ UNCHANGED <<doc, docs, lost>>

(* GetPostMortemLink: a row means 409 with its URL.                        *)
Check(r) ==
  /\ pc[r] = "new"
  /\ LET existing == link[ticketOf[r]]
     IN  IF existing # NoDoc
         THEN Respond(r, "conflict") /\ doc' = [doc EXCEPT ![r] = existing]
         ELSE pc' = [pc EXCEPT ![r] = "create"] /\ UNCHANGED <<ticketOf, doc, response>>
  /\ UNCHANGED <<link, docs, lost>>

(* BookOwl writes the document and its answer arrives.                     *)
Create(r, d) ==
  /\ pc[r] = "create"
  /\ NextDoc(d)
  /\ docs' = docs \cup {d}
  /\ doc' = [doc EXCEPT ![r] = d]
  /\ pc' = [pc EXCEPT ![r] = "store"]
  /\ UNCHANGED <<ticketOf, response, link, lost>>

(* BookOwl writes it, but the answer is lost: the client tries again or    *)
(* gives up.                                                               *)
CreateUnheard(r, d) ==
  /\ "api" \in Faults
  /\ pc[r] = "create"
  /\ NextDoc(d)
  /\ docs' = docs \cup {d} /\ lost' = lost \cup {d}
  /\ UNCHANGED <<request, link>>

(* CreatePostMortemLink: the unique index refuses a second row.            *)
Store(r) ==
  /\ pc[r] = "store"
  /\ IF link[ticketOf[r]] = NoDoc
     THEN link' = [link EXCEPT ![ticketOf[r]] = doc[r]] /\ Respond(r, "created")
     ELSE Respond(r, "failed") /\ UNCHANGED link
  /\ UNCHANGED <<doc, docs, lost>>

(* The row is stored, and the answer of the database lost.                 *)
StoreUnheard(r) ==
  /\ "db" \in Faults
  /\ pc[r] = "store"
  /\ link[ticketOf[r]] = NoDoc
  /\ link' = [link EXCEPT ![ticketOf[r]] = doc[r]]
  /\ Respond(r, "failed")
  /\ UNCHANGED <<doc, docs, lost>>

(* A query or a call fails: 500, and what has been written stays.          *)
Fails(r) ==
  /\ \/ "db" \in Faults /\ pc[r] \in {"new", "create", "store"}
     \/ "api" \in Faults /\ pc[r] \in {"new", "create"}
  /\ Respond(r, "failed")
  /\ UNCHANGED <<doc, link, docs, lost>>

Step(r) ==
  \/ Check(r) \/ Store(r) \/ StoreUnheard(r) \/ Fails(r)
  \/ \E d \in Docs : Create(r, d) \/ CreateUnheard(r, d)

Next == \E r \in Requests : Step(r)

Spec == Init /\ [][Next]_vars

-----------------------------------------------------------------------------
(* Properties.                                                             *)

(* Requests that check, have a document written and store its link in      *)
(* three steps answer as if each had run alone: one 201 for a ticket at    *)
(* most, 409 only when and with what is linked, a document linked to one   *)
(* ticket only, and a link that is never changed (the unique index of      *)
(* postmortem_links, and the order of steps in CreatePostMortem).          *)
Answered ==
  [r \in Requests |->
    [code |-> response[r],
     doc  |-> IF response[r] \in {"created", "conflict"} THEN doc[r] ELSE NoDoc]]

Register == INSTANCE WriteOnce WITH answer <- Answered, Documents <- Docs

ActsAtOnce == Register!Spec

(* A document nobody can reach from a ticket belongs to a request that is  *)
(* still running or was answered 500, or its writing was never answered.   *)
OrphansExplained ==
  \A d \in docs :
    \/ \E t \in Tickets : link[t] = d
    \/ d \in lost
    \/ \E r \in Requests : doc[r] = d /\ (pc[r] = "store" \/ response[r] = "failed")
=============================================================================
