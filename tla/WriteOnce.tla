----------------------------- MODULE WriteOnce -----------------------------
(***************************************************************************)
(* What those who ask for a ticket's post-mortem may rely on, whatever the *)
(* requests of others do in between: every request takes effect in one     *)
(* instant, on a register for each ticket that is written once.  A request *)
(* that fails may have written it all the same.                            *)
(***************************************************************************)
CONSTANTS Requests, Tickets, Documents, NoDoc

VARIABLES
  ticketOf,  \* the ticket a request is about
  link,      \* the register of a ticket
  answer     \* what a request was answered: a code and a document

vars == <<ticketOf, link, answer>>

Unanswered == [code |-> "none", doc |-> NoDoc]

Init ==
  /\ ticketOf \in [Requests -> Tickets]
  /\ link = [t \in Tickets |-> NoDoc]
  /\ answer = [r \in Requests |-> Unanswered]

Answer(r, code, d) ==
  /\ answer[r] = Unanswered
  /\ answer' = [answer EXCEPT ![r] = [code |-> code, doc |-> d]]
  /\ UNCHANGED ticketOf

(* An empty register gets a document that is no other ticket's.            *)
Write(t, d) ==
  /\ link[t] = NoDoc
  /\ \A u \in Tickets : link[u] # d
  /\ link' = [link EXCEPT ![t] = d]

Created(r, d) == Write(ticketOf[r], d) /\ Answer(r, "created", d)

Conflict(r) ==
  /\ link[ticketOf[r]] # NoDoc
  /\ Answer(r, "conflict", link[ticketOf[r]])
  /\ UNCHANGED link

Failed(r) ==
  /\ \/ UNCHANGED link
     \/ \E d \in Documents : Write(ticketOf[r], d)
  /\ Answer(r, "failed", NoDoc)

Next ==
  \E r \in Requests : Conflict(r) \/ Failed(r) \/ \E d \in Documents : Created(r, d)

Spec == Init /\ [][Next]_vars
=============================================================================
