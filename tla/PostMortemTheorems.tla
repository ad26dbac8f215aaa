-------------------------- MODULE PostMortemTheorems --------------------------
(***************************************************************************)
(* Proofs about PostMortem, for every set of requests and tickets, every   *)
(* choice of faults and every number of documents.                         *)
(***************************************************************************)
EXTENDS PostMortem, TLAPS

(* A request has a document from the time it was written for it, and not   *)
(* before: what AnswerIsLinked and OrphansExplained need to be inductive.  *)
DocsInPlace ==
  \A r \in Requests :
    /\ pc[r] \in {"new", "create"} => doc[r] = NoDoc /\ response[r] = "none"
    /\ pc[r] = "store" => doc[r] # NoDoc /\ response[r] = "none"
    /\ response[r] \in {"created", "conflict"} => doc[r] # NoDoc

(* 201 and 409 tell the truth: the document they name is the one linked to *)
(* the ticket, then and ever after.                                        *)
AnswerIsLinked ==
  \A r \in Requests :
    response[r] \in {"created", "conflict"} => link[ticketOf[r]] = doc[r]

(* The document a request is about to link is its own: no ticket is linked *)
(* to it and no other request has it.                                      *)
OwnDocs ==
  \A r \in Requests : pc[r] = "store" =>
    /\ \A t \in Tickets : link[t] # doc[r]
    /\ \A s \in Requests : pc[s] = "store" /\ doc[s] = doc[r] => s = r

IInv == TypeOK /\ DocsInPlace /\ AnswerIsLinked /\ OwnDocs /\ OrphansExplained

(* No document has been written and no request answered at the start.      *)
LEMMA InitIInv == Init => IInv
  BY DEF Init, IInv, TypeOK, DocsInPlace, AnswerIsLinked, OwnDocs, OrphansExplained, NoDoc,
         Docs

(* Every step of a request keeps the types.                                *)
LEMMA TypeStep ==
  ASSUME TypeOK, NEW r \in Requests, Step(r)
  PROVE  TypeOK'
<1> USE DEF TypeOK, Respond, NoDoc, Docs
<1>1. CASE Check(r)
  BY <1>1 DEF Check
<1>2. CASE Store(r)
  BY <1>2 DEF Store
<1>3. CASE Fails(r)
  BY <1>3 DEF Fails
<1>4. CASE \E d \in Docs : Create(r, d)
  BY <1>4 DEF Create, NextDoc
<1>5. CASE \E d \in Docs : CreateUnheard(r, d)
  BY <1>5 DEF CreateUnheard, NextDoc, request
<1>6. CASE StoreUnheard(r)
  BY <1>6 DEF StoreUnheard
<1>7. QED
  BY <1>1, <1>2, <1>3, <1>4, <1>5, <1>6 DEF Step

(* A step fills an empty link or leaves it.                                *)
LEMMA LinkStep ==
  ASSUME TypeOK, NEW r \in Requests, Step(r), NEW t \in Tickets, link[t] # NoDoc
  PROVE  link'[t] = link[t]
  BY DEF Step, Check, Store, StoreUnheard, Fails, Create, CreateUnheard, Respond, TypeOK

(* Every step keeps the strengthening of the invariant.                    *)
LEMMA PlaceStep ==
  ASSUME TypeOK, DocsInPlace, NEW r \in Requests, Step(r)
  PROVE  DocsInPlace'
<1> USE DEF TypeOK, DocsInPlace, Respond, NoDoc, Docs
<1>1. CASE Check(r)
  BY <1>1 DEF Check
<1>2. CASE Store(r)
  BY <1>2 DEF Store
<1>3. CASE Fails(r)
  BY <1>3 DEF Fails
<1>4. CASE \E d \in Docs : Create(r, d)
  BY <1>4 DEF Create, NextDoc
<1>5. CASE \E d \in Docs : CreateUnheard(r, d)
  BY <1>5 DEF CreateUnheard, request
<1>6. CASE StoreUnheard(r)
  BY <1>6 DEF StoreUnheard
<1>7. QED
  BY <1>1, <1>2, <1>3, <1>4, <1>5, <1>6 DEF Step

(* An answer that names a document is given when the document is linked,   *)
(* and LinkStep keeps it so.                                               *)
LEMMA AnswerStep ==
  ASSUME TypeOK, DocsInPlace, AnswerIsLinked, NEW r \in Requests, Step(r)
  PROVE  AnswerIsLinked'
<1>1. SUFFICES ASSUME NEW s \in Requests, response'[s] \in {"created", "conflict"}
               PROVE  link'[ticketOf'[s]] = doc'[s]
  BY DEF AnswerIsLinked
<1>2. ticketOf' = ticketOf
  BY DEF Step, Check, Store, StoreUnheard, Fails, Create, CreateUnheard, Respond, request
<1>3. ticketOf[s] \in Tickets
  BY DEF TypeOK
<1>4. CASE response[s] \in {"created", "conflict"}
  <2>1. link[ticketOf[s]] = doc[s] /\ doc[s] # NoDoc
    BY <1>4 DEF AnswerIsLinked, DocsInPlace
  <2>2. link'[ticketOf[s]] = doc[s]
    BY <2>1, <1>3, LinkStep
  <2>3. pc[s] \notin {"new", "create"}
    BY <1>4 DEF DocsInPlace
  <2>4. doc'[s] = doc[s]
    BY <2>3 DEF Step, Check, Store, StoreUnheard, Fails, Create, CreateUnheard, Respond, request, TypeOK
  <2>5. QED
    BY <2>2, <2>4, <1>2
<1>5. CASE response[s] \notin {"created", "conflict"}
  <2>1. s = r /\ (Check(r) \/ Store(r))
    BY <1>1, <1>5
    DEF Step, Check, Store, StoreUnheard, Fails, Create, CreateUnheard, Respond, request, TypeOK
  <2>2. CASE Check(r)
    BY <2>1, <2>2, <1>1, <1>2, <1>3, <1>5 DEF Check, Respond, TypeOK
  <2>3. CASE Store(r)
    BY <2>1, <2>3, <1>1, <1>2, <1>3, <1>5 DEF Store, Respond, TypeOK
  <2>4. QED
    BY <2>1, <2>2, <2>3
<1>6. QED
  BY <1>4, <1>5

(* A new document is linked nowhere, and a linked one leaves its hand.     *)
LEMMA OwnStep ==
  ASSUME TypeOK, OwnDocs, NEW r \in Requests, Step(r)
  PROVE  OwnDocs'
<1> USE DEF TypeOK, OwnDocs, Respond, NoDoc, Docs
<1>1. CASE Check(r)
  BY <1>1 DEF Check
<1>2. CASE Store(r)
  BY <1>2 DEF Store
<1>3. CASE Fails(r)
  BY <1>3 DEF Fails
<1>4. CASE \E d \in Docs : Create(r, d)
  BY <1>4 DEF Create, NextDoc
<1>5. CASE \E d \in Docs : CreateUnheard(r, d)
  BY <1>5 DEF CreateUnheard, NextDoc, request
<1>6. CASE StoreUnheard(r)
  BY <1>6 DEF StoreUnheard
<1>7. QED
  BY <1>1, <1>2, <1>3, <1>4, <1>5, <1>6 DEF Step

(* A document stays accounted for: what leaves "store" is linked or        *)
(* answered 500, and a new document is the one of its request, or lost.    *)
LEMMA OrphanStep ==
  ASSUME TypeOK, DocsInPlace, OrphansExplained, NEW r \in Requests, Step(r)
  PROVE  OrphansExplained'
<1>1. SUFFICES ASSUME NEW d \in docs'
               PROVE  \/ \E t \in Tickets : link'[t] = d
                      \/ d \in lost'
                      \/ \E s \in Requests :
                           doc'[s] = d /\ (pc'[s] = "store" \/ response'[s] = "failed")
  BY DEF OrphansExplained
<1>2. lost \subseteq lost'
  BY DEF Step, Check, Store, StoreUnheard, Fails, Create, CreateUnheard
<1>3. CASE d \notin docs
  BY <1>3, <1>1
  DEF Step, Check, Store, StoreUnheard, Fails, Create, CreateUnheard, Respond, request, TypeOK
<1>4. CASE d \in docs
  <2>1. d # NoDoc
    BY <1>4 DEF TypeOK, Docs, NoDoc
  <2>2. CASE \E t \in Tickets : link[t] = d
    BY <2>1, <2>2, LinkStep
  <2>3. CASE d \in lost
    BY <1>2, <2>3
  <2>4. CASE \E s \in Requests : doc[s] = d /\ (pc[s] = "store" \/ response[s] = "failed")
    <3>1. PICK s \in Requests : doc[s] = d /\ (pc[s] = "store" \/ response[s] = "failed")
      BY <2>4
    <3>2. CASE s # r
      BY <3>1, <3>2
      DEF Step, Check, Store, StoreUnheard, Fails, Create, CreateUnheard, Respond, request, TypeOK
    <3>3. CASE s = r /\ pc[r] = "store"
      <4>1. Store(r) \/ StoreUnheard(r) \/ Fails(r)
        BY <3>3 DEF Step, Check, StoreUnheard, Create, CreateUnheard
      <4>2. CASE Store(r)
        BY <3>1, <3>3, <4>2 DEF Store, Respond, TypeOK
      <4>3. CASE Fails(r)
        BY <3>1, <3>3, <4>3 DEF Fails, Respond, TypeOK
      <4>4. CASE StoreUnheard(r)
        BY <3>1, <3>3, <4>4 DEF StoreUnheard, Respond, TypeOK
      <4>5. QED
        BY <4>1, <4>2, <4>3, <4>4
    <3>4. CASE s = r /\ response[r] = "failed" /\ pc[r] # "store"
      <4>1. pc[r] \notin {"new", "create", "store"}
        BY <3>4 DEF DocsInPlace
      <4>2. QED
        BY <4>1 DEF Step, Check, Store, StoreUnheard, Fails, Create, CreateUnheard
    <3>5. QED
      BY <3>1, <3>2, <3>3, <3>4
  <2>5. QED
    BY <1>4, <2>2, <2>3, <2>4 DEF OrphansExplained
<1>5. QED
  BY <1>3, <1>4

(* The inductive invariant holds in every reachable state.                 *)
THEOREM Invariance == Spec => []IInv
<1>1. IInv /\ [Next]_vars => IInv'
  <2>1. SUFFICES ASSUME IInv, [Next]_vars PROVE IInv'
    OBVIOUS
  <2>2. CASE Next
    BY <2>1, <2>2, TypeStep, PlaceStep, AnswerStep, OwnStep, OrphanStep
    DEF Next, IInv
  <2>3. CASE UNCHANGED vars
    BY <2>1, <2>3
    DEF IInv, TypeOK, DocsInPlace, AnswerIsLinked, OwnDocs, OrphansExplained, vars, request
  <2>4. QED
    BY <2>1, <2>2, <2>3
<1>2. QED
  BY InitIInv, <1>1, PTL DEF Spec

(* TypeOK holds for all values of the constants.                           *)
THEOREM TypeCorrect == Spec => []TypeOK
  BY Invariance, PTL DEF IInv

(* handleCreatePostMortem never answers 201 or 409 with a document other   *)
(* than the one linked to the ticket, however many requests interleave.    *)
THEOREM AnswerIsLinkedAlways == Spec => []AnswerIsLinked
  BY Invariance, PTL DEF IInv

(* Every document without a link stems from a request that failed, is      *)
(* running, or was never answered by BookOwl.                              *)
THEOREM OrphansExplainedAlways == Spec => []OrphansExplained
  BY Invariance, PTL DEF IInv

(* A step of a request answers it as WriteOnce allows, or changes nothing  *)
(* WriteOnce speaks of.                                                    *)
LEMMA RegisterStep ==
  ASSUME IInv, NEW r \in Requests, Step(r)
  PROVE  [Register!Next]_(Register!vars)
<1> DEFINE t == ticketOf[r]
           Unchanged == UNCHANGED <<ticketOf, link, Answered>>
<1>1. t \in Tickets /\ DocsInPlace /\ OwnDocs
  BY DEF IInv, TypeOK
<1>2. ASSUME NEW code \in {"created", "conflict", "failed"}, response[r] = "none",
             Respond(r, code), doc' = [doc EXCEPT ![r] = doc'[r]]
      PROVE  Register!Answer(r, code, IF code = "failed" THEN NoDoc ELSE doc'[r])
  <2>1. Answered[r] = Register!Unanswered
    BY <1>2 DEF Answered, Register!Unanswered
  <2>2. Answered' = [Answered EXCEPT ![r] =
            [code |-> code, doc |-> IF code = "failed" THEN NoDoc ELSE doc'[r]]]
    BY <1>2 DEF Answered, Respond, IInv, TypeOK
  <2>3. QED
    BY <1>2, <2>1, <2>2 DEF Register!Answer, Respond
<1>3. CASE Check(r)
  <2>1. CASE link[t] # NoDoc
    <3>1. response[r] = "none" /\ Respond(r, "conflict") /\ doc' = [doc EXCEPT ![r] = link[t]]
      BY <1>1, <1>3, <2>1 DEF Check, DocsInPlace
    <3>2. Register!Answer(r, "conflict", link[t])
      BY <1>2, <3>1 DEF IInv, TypeOK
    <3>3. Register!Conflict(r)
      BY <1>3, <2>1, <3>2 DEF Register!Conflict, Check
    <3>4. QED
      BY <3>3 DEF Register!Next
  <2>2. CASE link[t] = NoDoc
    <3>1. Unchanged
      BY <1>3, <2>2 DEF Check, Answered
    <3>2. QED
      BY <3>1 DEF Register!vars
  <2>3. QED
    BY <2>1, <2>2
<1>4. ASSUME pc[r] = "store", link[t] = NoDoc, link' = [link EXCEPT ![t] = doc[r]]
      PROVE  doc[r] \in Docs /\ Register!Write(t, doc[r])
  <2>1. doc[r] \in Docs /\ \A u \in Tickets : link[u] # doc[r]
    BY <1>1, <1>4 DEF OwnDocs, DocsInPlace, IInv, TypeOK
  <2>2. QED
    BY <1>4, <2>1 DEF Register!Write
<1>5. CASE Store(r)
  <2>1. response[r] = "none" /\ doc' = [doc EXCEPT ![r] = doc'[r]] /\ doc'[r] = doc[r]
    BY <1>1, <1>5 DEF Store, DocsInPlace, IInv, TypeOK
  <2>2. CASE link[t] = NoDoc
    <3>1. doc[r] \in Docs /\ Register!Write(t, doc[r])
      BY <1>4, <1>5, <2>2 DEF Store
    <3>2. Register!Answer(r, "created", doc[r])
      BY <1>2, <1>5, <2>1, <2>2 DEF Store
    <3>3. Register!Created(r, doc[r])
      BY <3>1, <3>2 DEF Register!Created
    <3>4. QED
      BY <3>1, <3>3 DEF Register!Next
  <2>3. CASE link[t] # NoDoc
    <3>1. Register!Answer(r, "failed", NoDoc)
      BY <1>2, <1>5, <2>1, <2>3 DEF Store
    <3>2. Register!Failed(r)
      BY <1>5, <2>3, <3>1 DEF Store, Register!Failed
    <3>3. QED
      BY <3>2 DEF Register!Next
  <2>4. QED
    BY <2>2, <2>3
<1>6. CASE StoreUnheard(r) \/ Fails(r)
  <2>1. response[r] = "none" /\ doc' = [doc EXCEPT ![r] = doc'[r]] /\ Respond(r, "failed")
    BY <1>1, <1>6 DEF StoreUnheard, Fails, DocsInPlace, IInv, TypeOK
  <2>2. Register!Answer(r, "failed", NoDoc)
    BY <1>2, <2>1
  <2>3. UNCHANGED link \/ \E d \in Docs : Register!Write(t, d)
    BY <1>4, <1>6 DEF StoreUnheard, Fails
  <2>4. Register!Failed(r)
    BY <2>2, <2>3 DEF Register!Failed
  <2>5. QED
    BY <2>4 DEF Register!Next
<1>7. CASE \E d \in Docs : Create(r, d) \/ CreateUnheard(r, d)
  <2>1. UNCHANGED <<ticketOf, link, response>> /\ \A s \in Requests \ {r} : doc'[s] = doc[s]
    BY <1>7 DEF Create, CreateUnheard, request, IInv, TypeOK
  <2>2. response[r] = "none"
    BY <1>1, <1>7 DEF Create, CreateUnheard, DocsInPlace
  <2>3. Unchanged
    BY <2>1, <2>2 DEF Answered
  <2>4. QED
    BY <2>3 DEF Register!vars
<1>8. QED
  BY <1>3, <1>5, <1>6, <1>7 DEF Step

(* Requests that run their steps in any interleaving act, each, in one     *)
(* instant: PostMortem implements WriteOnce (CreatePostMortem and the      *)
(* unique index of postmortem_links).                                      *)
THEOREM ActsAlwaysAtOnce == Spec => ActsAtOnce
<1>1. Init => Register!Init
  <2>1. SUFFICES ASSUME Init PROVE Register!Init
    OBVIOUS
  <2>2. Answered = [r \in Requests |-> Register!Unanswered]
    BY <2>1 DEF Init, Answered, Register!Unanswered
  <2>3. QED
    BY <2>1, <2>2 DEF Init, Register!Init
<1>2. IInv /\ [Next]_vars => [Register!Next]_(Register!vars)
  <2>1. SUFFICES ASSUME IInv, [Next]_vars PROVE [Register!Next]_(Register!vars)
    OBVIOUS
  <2>2. CASE Next
    BY <2>1, <2>2, RegisterStep DEF Next
  <2>3. CASE UNCHANGED vars
    BY <2>3 DEF vars, request, Register!vars, Answered
  <2>4. QED
    BY <2>1, <2>2, <2>3
<1>3. QED
  BY <1>1, <1>2, Invariance, PTL DEF Spec, ActsAtOnce, Register!Spec
=============================================================================
