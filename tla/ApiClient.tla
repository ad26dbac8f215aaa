------------------------------ MODULE ApiClient ------------------------------
(***************************************************************************)
(* Client.do of the Zammad, NightOwl and BookOwl clients: a call with a    *)
(* body is sent up to MaxRetries times.  The server at the other end may   *)
(* carry out any of these requests, also one the client has given up, one  *)
(* it answers by an error, or one whose answer is lost.                    *)
(*                                                                         *)
(* The body is read through a bytes.Reader, which a request that was       *)
(* written has drained; a request made from a drained reader has an empty  *)
(* body.  Left out: methods, paths, payloads and the length of the pauses. *)
(***************************************************************************)
EXTENDS Integers

CONSTANTS
  MaxRetries,   \* attempts of one call
  MaxCalls      \* bound: calls of one client, one after the other

ASSUME RetriesAssumption == MaxRetries \in Nat \ {0}
ASSUME CallsAssumption == MaxCalls \in Nat

VARIABLES
  call,       \* number of the call in progress, or of the last one
  pc,         \* "idle", "send" or "wait"
  attempt,    \* loop variable of do
  reader,     \* bodyReader: "full" or "drained"
  travelling, \* requests the server has not dealt with
  answer,     \* what the server says to the request in hand, "none" as yet
  outcome,    \* how each call ended: "none", "ok", "rejected", "gave up", "unread"
  sent,       \* history: requests written to a connection
  unanswered, \* history: <<call, attempt>> that ended without an answer
  erred,      \* history: <<call, attempt>> answered by a server error
  carried     \* history: requests the server has carried out

history == <<sent, unanswered, erred, carried>>
client == <<call, pc, attempt, reader, outcome>>
vars == <<client, travelling, answer, history>>

Calls == 1 .. MaxCalls
Attempts == 0 .. MaxRetries - 1
Request == [call : Calls, attempt : Attempts, body : {"full", "drained"}]

TypeOK ==
  /\ call \in 0 .. MaxCalls
  /\ pc \in {"idle", "send", "wait"}
  /\ attempt \in Attempts
  /\ reader \in {"full", "drained"}
  /\ sent \subseteq Request /\ travelling \subseteq sent /\ carried \subseteq sent
  /\ answer \in {"none", "ok", "rejected", "error"}
  /\ outcome \in [Calls -> {"none", "ok", "rejected", "gave up", "unread"}]
  /\ unanswered \subseteq Calls \X Attempts
  /\ erred \subseteq Calls \X Attempts

Init ==
  /\ call = 0 /\ pc = "idle" /\ attempt = 0 /\ reader = "full"
  /\ travelling = {} /\ answer = "none"
  /\ outcome = [c \in Calls |-> "none"]
  /\ sent = {} /\ unanswered = {} /\ erred = {} /\ carried = {}

-----------------------------------------------------------------------------
(* The client.                                                             *)

End(result) ==
  /\ pc' = "idle"
  /\ outcome' = [outcome EXCEPT ![call] = result]
  /\ UNCHANGED attempt

(* Variants of the definitions below: bugs the runs must find.             *)
RetryOnceMore ==
  IF attempt <= MaxRetries - 1
  THEN pc' = "send" /\ attempt' = attempt + 1 /\ UNCHANGED outcome
  ELSE End("gave up")

RetryForEver == pc' = "send" /\ UNCHANGED <<attempt, outcome>>

(* The loop goes on, or do gives up.                                       *)
Retry ==
  IF attempt + 1 < MaxRetries
  THEN pc' = "send" /\ attempt' = attempt + 1 /\ UNCHANGED outcome
  ELSE End("gave up")

Begin ==
  /\ pc = "idle"
  /\ call < MaxCalls
  /\ call' = call + 1 /\ attempt' = 0 /\ reader' = "full"
  /\ pc' = "send"
  /\ UNCHANGED <<outcome, travelling, answer, history>>

(* The request is made from what the reader has left, and written.         *)
Send ==
  /\ pc = "send"
  /\ LET request == [call |-> call, attempt |-> attempt, body |-> reader]
     IN  /\ travelling' = travelling \cup {request}
         /\ sent' = sent \cup {request}
  /\ reader' = "drained" /\ answer' = "none"
  /\ pc' = "wait"
  /\ UNCHANGED <<call, attempt, outcome, unanswered, erred, carried>>

NoAnswer ==
  /\ Retry
  /\ unanswered' = unanswered \cup {<<call, attempt>>}

(* No connection: nothing has been read from the reader.                   *)
DialFails ==
  /\ pc = "send"
  /\ NoAnswer
  /\ UNCHANGED <<call, reader, travelling, answer, sent, erred, carried>>

(* The connection breaks or the 30 seconds of the client are over: the     *)
(* loop continues with the reader as it is.                                *)
TransportError ==
  /\ pc = "wait"
  /\ NoAnswer
  /\ UNCHANGED <<call, reader, travelling, answer, sent, erred, carried>>

ReceiveErrorKeepsReader ==
  /\ pc = "wait" /\ answer = "error"
  /\ Retry
  /\ erred' = erred \cup {<<call, attempt>>}
  /\ UNCHANGED <<call, reader, travelling, answer, sent, unanswered, carried>>

ReadErrorRetries ==
  /\ pc = "wait" /\ answer # "none"
  /\ Retry
  /\ UNCHANGED <<call, reader, travelling, answer, history>>

ReceiveErrorAsRejected ==
  /\ pc = "wait" /\ answer \in {"rejected", "error"}
  /\ End("rejected")
  /\ UNCHANGED <<call, reader, travelling, answer, history>>

ReceiveOk ==
  /\ pc = "wait" /\ answer = "ok"
  /\ End("ok")
  /\ UNCHANGED <<call, reader, travelling, answer, history>>

(* 400, 401, 403, 404 and 422 are final.                                   *)
ReceiveRejected ==
  /\ pc = "wait" /\ answer = "rejected"
  /\ End("rejected")
  /\ UNCHANGED <<call, reader, travelling, answer, history>>

(* Any other status is tried again, with a new reader.                     *)
ReceiveError ==
  /\ pc = "wait" /\ answer = "error"
  /\ Retry
  /\ erred' = erred \cup {<<call, attempt>>}
  /\ reader' = "full"
  /\ UNCHANGED <<call, travelling, answer, sent, unanswered, carried>>

(* The body of the answer cannot be read: the call ends at once.           *)
ReadError ==
  /\ pc = "wait" /\ answer # "none"
  /\ End("unread")
  /\ UNCHANGED <<call, reader, travelling, answer, history>>

-----------------------------------------------------------------------------
(* The server and the network.                                             *)

InHand(q) == pc = "wait" /\ q.call = call /\ q.attempt = attempt

(* Nobody reads the answer to a request that was given up.  A server error *)
(* may come before or after the request was carried out.                   *)
Answer(q, status) ==
  /\ travelling' = travelling \ {q}
  /\ answer' = IF InHand(q) THEN status ELSE answer
  /\ \/ status # "rejected" /\ carried' = carried \cup {q}
     \/ status # "ok" /\ UNCHANGED carried
  /\ UNCHANGED <<client, sent, unanswered, erred>>

(* The request is lost, or the answer to it after it was carried out.      *)
Lose(q) ==
  /\ travelling' = travelling \ {q}
  /\ carried' \in {carried, carried \cup {q}}
  /\ UNCHANGED <<client, answer, sent, unanswered, erred>>

ClientStep ==
  \/ Begin \/ Send \/ DialFails \/ TransportError
  \/ ReceiveOk \/ ReceiveRejected \/ ReceiveError \/ ReadError

ServerStep ==
  \E q \in travelling :
    \/ \E status \in {"ok", "rejected", "error"} : Answer(q, status)
    \/ Lose(q)

Next == ClientStep \/ ServerStep

Spec == Init /\ [][Next]_vars

(* Every wait of the client ends, by an answer or by its timeout.          *)
FairSpec == Spec /\ WF_vars(pc # "idle" /\ ClientStep)

-----------------------------------------------------------------------------
(* Properties.                                                             *)

(* An attempt follows on earlier ones of its call only if each of these    *)
(* got no answer or a server error: nothing is sent, and carried out, a    *)
(* second time after a success, a rejection, or an answer whose body could *)
(* not be read.                                                            *)
RetriesExplained ==
  \A q \in sent : \A a \in 0 .. q.attempt - 1 :
    <<q.call, a>> \in unanswered \cup erred

(* An empty body is sent only right after an attempt without an answer: a  *)
(* retry on a server error carries the body.                               *)
EmptyBodyExplained ==
  \A q \in sent :
    q.body = "drained" => <<q.call, q.attempt - 1>> \in unanswered

Failed(c, a) == <<c, a>> \in unanswered \cup erred

(* The requests that were carried out, but for those of failed attempts.   *)
HeardOf(c) == {q \in carried : q.call = c /\ ~Failed(c, q.attempt)}

(* What the caller is told is what the server did, but for the attempts    *)
(* that failed, of which nobody knows: a success was carried out once, a   *)
(* rejected call not at all, and a call is given up only when every one of *)
(* its attempts has failed.                                                *)
ToldWhatWasDone ==
  \A c \in Calls :
    /\ outcome[c] = "ok" => \E q \in carried : HeardOf(c) = {q}
    /\ outcome[c] = "rejected" => HeardOf(c) = {}
    /\ outcome[c] = "gave up" => \A a \in Attempts : Failed(c, a)

(* Every call comes to an end.                                             *)
CallEnds == \A c \in Calls : call = c ~> outcome[c] # "none"

(* zammad/client.go: "Reset bodyReader for retry."                         *)
RetryCarriesBody == \A q \in sent : q.body = "full"
=============================================================================
