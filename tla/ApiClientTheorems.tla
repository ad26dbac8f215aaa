-------------------------- MODULE ApiClientTheorems --------------------------
(***************************************************************************)
(* Theorems about ApiClient, for every number of attempts and of calls:    *)
(* what a call that is repeated, loses its body or is given up tells of    *)
(* its earlier attempts.                                                   *)
(***************************************************************************)
EXTENDS ApiClient, TLAPS

(* What the loop knows of the call in progress: its earlier attempts have  *)
(* failed, and if the reader is empty before a request is made, the last   *)
(* one got no answer.                                                      *)
LoopInvariant ==
  pc # "idle" =>
    /\ call \in Calls
    /\ \A a \in 0 .. attempt - 1 : Failed(call, a)
    /\ pc = "send" /\ reader = "drained" => <<call, attempt - 1>> \in unanswered

(* The attempt in hand is the latest: nothing was sent or has failed after *)
(* it, each attempt sent one request, and no later call has ended.         *)
Latest ==
  /\ \A q \in sent :
       /\ q.call <= call
       /\ pc # "idle" /\ q.call = call
            => q.attempt < attempt \/ (q.attempt = attempt /\ pc = "wait")
  /\ \A p, q \in sent : p.call = q.call /\ p.attempt = q.attempt => p = q
  /\ \A c \in Calls, a \in Attempts :
       Failed(c, a) => c <= call /\ (pc # "idle" /\ c = call => a < attempt)
  /\ \A c \in Calls : c > call \/ (c = call /\ pc # "idle") => outcome[c] = "none"

(* A request on its way has not been carried out, and it is the one in     *)
(* hand, or nobody waits for it.                                           *)
StillTravelling ==
  \A q \in travelling :
    /\ q \notin carried
    /\ Failed(q.call, q.attempt) \/ (InHand(q) /\ answer = "none")

(* What was carried out was asked for by a failed attempt, by the one in   *)
(* hand, or by one whose answer has ended its call; and a success the      *)
(* client is about to hear of was carried out.                             *)
CarriedInHand ==
  /\ \A q \in carried :
       \/ Failed(q.call, q.attempt)
       \/ InHand(q) /\ answer # "rejected"
       \/ outcome[q.call] \in {"ok", "unread"}
  /\ pc = "wait" /\ answer = "ok" => \E q \in carried : InHand(q)

(* The parts of ToldWhatWasDone.                                           *)
GivesUpAfterAll ==
  \A c \in Calls :
    outcome[c] = "gave up" => \A a \in Attempts : Failed(c, a)

HeardIsDone ==
  \A c \in Calls :
    /\ outcome[c] = "ok" => \E q \in carried : HeardOf(c) = {q}
    /\ outcome[c] = "rejected" => HeardOf(c) = {}

LInv ==
  /\ TypeOK
  /\ LoopInvariant
  /\ RetriesExplained
  /\ EmptyBodyExplained
  /\ GivesUpAfterAll

IInv == LInv /\ Latest /\ StillTravelling /\ CarriedInHand /\ HeardIsDone

LEMMA InitLInv == Init => LInv
<1> SUFFICES ASSUME Init PROVE LInv
  OBVIOUS
<1>1. TypeOK
  BY RetriesAssumption, CallsAssumption DEF Init, TypeOK, Attempts, Calls
<1> QED
  BY <1>1 DEF Init, LInv, LoopInvariant, RetriesExplained, EmptyBodyExplained,
              GivesUpAfterAll

(* How the loop goes on after an attempt that failed, whichever way: with  *)
(* one attempt more, or by giving up after the last one.                   *)
LEMMA RetryStep ==
  ASSUME LInv, pc # "idle", Retry, UNCHANGED <<call, sent>>,
         unanswered \subseteq unanswered', unanswered' \subseteq Calls \X Attempts,
         erred \subseteq erred', erred' \subseteq Calls \X Attempts,
         <<call, attempt>> \in unanswered' \cup erred',
         \/ reader' = "full"
         \/ reader' = reader /\ <<call, attempt>> \in unanswered'
  PROVE  /\ pc' \in {"idle", "send"}
         /\ attempt' \in Attempts
         /\ outcome' \in [Calls -> {"none", "ok", "rejected", "gave up", "unread"}]
         /\ (LoopInvariant /\ RetriesExplained /\ EmptyBodyExplained /\ GivesUpAfterAll)'
<1>1. TypeOK /\ LoopInvariant /\ call \in Calls /\ attempt \in Attempts
  BY DEF LInv, LoopInvariant, TypeOK
<1>2. RetriesExplained' /\ EmptyBodyExplained'
  BY DEF LInv, RetriesExplained, EmptyBodyExplained
<1>3. \A a \in 0 .. attempt : <<call, a>> \in unanswered' \cup erred'
  <2>1. ASSUME NEW a \in 0 .. attempt, a # attempt PROVE a \in 0 .. attempt - 1
    BY <1>1, <2>1, RetriesAssumption DEF Attempts
  <2> QED
    BY <1>1, <2>1 DEF LoopInvariant, Failed
<1>4. CASE attempt + 1 < MaxRetries
  <2>1. pc' = "send" /\ attempt' = attempt + 1 /\ outcome' = outcome
    BY <1>4 DEF Retry
  <2>2. attempt' \in Attempts /\ attempt' - 1 = attempt
    BY <1>1, <1>4, <2>1, RetriesAssumption DEF Attempts
  <2>3. LoopInvariant'
    <3>1. \A a \in 0 .. attempt' - 1 : Failed(call, a)'
      BY <1>3, <2>2 DEF Failed
    <3>2. reader' = "drained" => <<call', attempt' - 1>> \in unanswered'
      BY <2>2
    <3> QED
      BY <1>1, <3>1, <3>2 DEF LoopInvariant
  <2>4. GivesUpAfterAll'
    BY <2>1 DEF LInv, GivesUpAfterAll, Failed
  <2> QED
    BY <1>1, <1>2, <2>1, <2>2, <2>3, <2>4 DEF TypeOK
<1>5. CASE ~(attempt + 1 < MaxRetries)
  <2>1. /\ pc' = "idle" /\ attempt' = attempt
        /\ outcome' = [outcome EXCEPT ![call] = "gave up"]
    BY <1>5 DEF Retry, End
  <2>2. Attempts = 0 .. attempt
    BY <1>1, <1>5, RetriesAssumption DEF Attempts
  <2>3. GivesUpAfterAll'
    BY <1>1, <1>3, <2>1, <2>2 DEF LInv, GivesUpAfterAll, Failed, TypeOK
  <2>4. LoopInvariant'
    BY <2>1 DEF LoopInvariant
  <2> QED
    BY <1>1, <1>2, <2>1, <2>3, <2>4 DEF TypeOK
<1> QED
  BY <1>4, <1>5

(* Ending a call in any other way than by giving up explains nothing new.  *)
LEMMA EndStep ==
  ASSUME LInv, pc # "idle", NEW result \in {"ok", "rejected", "unread"}, End(result),
         UNCHANGED <<call, reader, travelling, answer, history>>
  PROVE  LInv'
<1>1. call \in Calls
  BY DEF LInv, LoopInvariant
<1>2. TypeOK'
  BY <1>1 DEF LInv, TypeOK, End, history
<1>3. LoopInvariant'
  BY DEF End, LoopInvariant
<1>4. GivesUpAfterAll'
  BY <1>1 DEF LInv, TypeOK, GivesUpAfterAll, Failed, End, history
<1> QED
  BY <1>2, <1>3, <1>4 DEF LInv, RetriesExplained, EmptyBodyExplained, history

LEMMA LInvStep == LInv /\ [Next]_vars => LInv'
<1> SUFFICES ASSUME LInv, [Next]_vars PROVE LInv'
  OBVIOUS
<1>0. TypeOK /\ LoopInvariant /\ attempt \in Attempts
  BY DEF LInv, TypeOK
<1>1. CASE Begin
  <2>1. call' \in Calls
    <3>1. call \in 0 .. MaxCalls /\ call < MaxCalls /\ call' = call + 1
      BY <1>0, <1>1 DEF Begin, TypeOK
    <3> QED
      BY <3>1, CallsAssumption DEF Calls
  <2>2. call' \in 0 .. MaxCalls /\ 0 \in Attempts
    BY <2>1, CallsAssumption, RetriesAssumption DEF Calls, Attempts
  <2>3. TypeOK'
    BY <1>0, <1>1, <2>2 DEF Begin, TypeOK, history
  <2>4. LoopInvariant'
    BY <1>1, <2>1 DEF Begin, LoopInvariant
  <2> QED
    BY <1>1, <2>3, <2>4 DEF Begin, LInv, RetriesExplained, EmptyBodyExplained,
                            GivesUpAfterAll, Failed, history
<1>2. CASE Send
  <2> DEFINE request == [call |-> call, attempt |-> attempt, body |-> reader]
  <2>1. /\ sent' = sent \cup {request} /\ travelling' = travelling \cup {request}
        /\ pc = "send" /\ pc' = "wait"
        /\ UNCHANGED <<call, attempt, outcome, unanswered, erred>>
    BY <1>2 DEF Send
  <2>2. request \in Request
    BY <1>0, <2>1 DEF LoopInvariant, TypeOK, Request
  <2>3. TypeOK'
    BY <1>0, <1>2, <2>1, <2>2 DEF Send, TypeOK
  <2>4. LoopInvariant'
    BY <1>0, <2>1 DEF LoopInvariant, Failed
  <2>5. RetriesExplained'
    <3>1. \A a \in 0 .. request.attempt - 1 :
             <<request.call, a>> \in unanswered \cup erred
      BY <1>0, <2>1 DEF LoopInvariant, Failed
    <3> QED
      BY <2>1, <3>1 DEF LInv, RetriesExplained
  <2>6. EmptyBodyExplained'
    BY <1>0, <2>1 DEF LInv, EmptyBodyExplained, LoopInvariant
  <2>7. GivesUpAfterAll'
    BY <2>1 DEF LInv, GivesUpAfterAll, Failed
  <2> QED
    BY <2>3, <2>4, <2>5, <2>6, <2>7 DEF LInv
<1>3. CASE DialFails \/ TransportError
  <2>1. /\ pc # "idle" /\ Retry
        /\ unanswered' = unanswered \cup {<<call, attempt>>}
        /\ UNCHANGED <<call, reader, travelling, answer, sent, erred, carried>>
    BY <1>3 DEF DialFails, TransportError, NoAnswer
  <2>2. <<call, attempt>> \in Calls \X Attempts
    BY <1>0, <2>1 DEF LoopInvariant
  <2>3. /\ pc' \in {"idle", "send"}
        /\ attempt' \in Attempts
        /\ outcome' \in [Calls -> {"none", "ok", "rejected", "gave up", "unread"}]
        /\ (LoopInvariant /\ RetriesExplained /\ EmptyBodyExplained /\ GivesUpAfterAll)'
    <3>1. /\ unanswered' \subseteq Calls \X Attempts /\ unanswered \subseteq unanswered'
          /\ erred' \subseteq Calls \X Attempts /\ erred \subseteq erred'
          /\ <<call, attempt>> \in unanswered' \cup erred'
      BY <1>0, <2>1, <2>2 DEF Failed, TypeOK
    <3> QED
      BY <2>1, <3>1, RetryStep
  <2>4. TypeOK'
    BY <1>0, <2>1, <2>2, <2>3 DEF TypeOK
  <2> QED
    BY <2>3, <2>4 DEF LInv
<1>4. CASE ReceiveError
  <2>1. /\ pc # "idle" /\ Retry
        /\ erred' = erred \cup {<<call, attempt>>} /\ reader' = "full"
        /\ UNCHANGED <<call, travelling, answer, sent, unanswered, carried>>
    BY <1>4 DEF ReceiveError
  <2>2. <<call, attempt>> \in Calls \X Attempts
    BY <1>0, <2>1 DEF LoopInvariant
  <2>3. /\ pc' \in {"idle", "send"}
        /\ attempt' \in Attempts
        /\ outcome' \in [Calls -> {"none", "ok", "rejected", "gave up", "unread"}]
        /\ (LoopInvariant /\ RetriesExplained /\ EmptyBodyExplained /\ GivesUpAfterAll)'
    <3>1. /\ unanswered' \subseteq Calls \X Attempts /\ unanswered \subseteq unanswered'
          /\ erred' \subseteq Calls \X Attempts /\ erred \subseteq erred'
          /\ <<call, attempt>> \in unanswered' \cup erred'
      BY <1>0, <2>1, <2>2 DEF Failed, TypeOK
    <3> QED
      BY <2>1, <3>1, RetryStep
  <2>4. TypeOK'
    BY <1>0, <2>1, <2>2, <2>3 DEF TypeOK
  <2> QED
    BY <2>3, <2>4 DEF LInv
<1>5. CASE ReceiveOk \/ ReceiveRejected \/ ReadError
  BY <1>5, EndStep DEF ReceiveOk, ReceiveRejected, ReadError
<1>6. CASE ServerStep
  <2>1. /\ UNCHANGED <<client, sent, unanswered, erred>> /\ travelling' \subseteq travelling
        /\ carried' \subseteq sent
        /\ answer' \in {"none", "ok", "rejected", "error"}
    BY <1>0, <1>6 DEF ServerStep, Answer, Lose, TypeOK
  <2> QED
    BY <1>0, <2>1 DEF LInv, TypeOK, LoopInvariant, Failed, RetriesExplained,
                      EmptyBodyExplained, GivesUpAfterAll, client, history
<1>7. CASE UNCHANGED vars
  BY <1>7 DEF LInv, TypeOK, LoopInvariant, Failed, RetriesExplained,
              EmptyBodyExplained, GivesUpAfterAll, vars, client, history
<1> QED
  BY <1>1, <1>2, <1>3, <1>4, <1>5, <1>6, <1>7 DEF Next, ClientStep

-----------------------------------------------------------------------------
(* What becomes of the calls.                                              *)

(* A step of the client that answers nothing but goes on with the loop.    *)
Fails == DialFails \/ TransportError \/ ReceiveError

(* Whichever way an attempt fails: it is recorded, and the loop goes on    *)
(* with the next one or gives up.                                          *)
LEMMA FailsStep ==
  ASSUME LInv, Fails
  PROVE  /\ pc # "idle" /\ call \in Calls /\ attempt \in Attempts
         /\ UNCHANGED <<call, travelling, sent, carried>>
         /\ \A c \in Calls, a \in Attempts :
              Failed(c, a)' <=> Failed(c, a) \/ (c = call /\ a = attempt)
         /\ \/ pc' = "send" /\ attempt' = attempt + 1 /\ outcome' = outcome
            \/ pc' = "idle" /\ outcome' = [outcome EXCEPT ![call] = "gave up"]
<1>1. pc # "idle" /\ call \in Calls /\ attempt \in Attempts
  BY DEF LInv, LoopInvariant, TypeOK, Fails, DialFails, TransportError, ReceiveError
<1>2. Retry /\ UNCHANGED <<call, travelling, sent, carried>>
  BY DEF Fails, DialFails, TransportError, ReceiveError, NoAnswer
<1>3. unanswered' \cup erred' = unanswered \cup erred \cup {<<call, attempt>>}
  BY DEF Fails, DialFails, TransportError, ReceiveError, NoAnswer
<1>4. ASSUME NEW c \in Calls, NEW a \in Attempts
      PROVE  Failed(c, a)' <=> Failed(c, a) \/ (c = call /\ a = attempt)
  BY <1>3 DEF Failed
<1>5. QED
  BY <1>1, <1>2, <1>4 DEF Retry, End

(* Requests name calls and attempts.                                       *)
LEMMA Requests ==
  ASSUME TypeOK
  PROVE  \A q \in sent \cup travelling \cup carried :
           q.call \in Calls /\ q.attempt \in Attempts
  BY DEF TypeOK, Request

(* The attempt in hand has not failed, and its call has not ended.         *)
LEMMA InProgress ==
  ASSUME TypeOK, LoopInvariant, Latest
  PROVE  /\ call \in Int /\ attempt \in Nat /\ MaxRetries \in Nat /\ attempt < MaxRetries
         /\ pc # "idle" => ~Failed(call, attempt) /\ outcome[call] = "none"
         /\ pc = "send" => \A q \in sent : ~(q.call = call /\ q.attempt = attempt)
<1>1. call \in 0 .. MaxCalls /\ attempt \in Attempts /\ attempt \in 0 .. MaxRetries - 1
  BY DEF TypeOK, Attempts
<1>2. call \in Int /\ attempt \in Nat /\ MaxRetries \in Nat /\ attempt < MaxRetries
  BY <1>1, CallsAssumption, RetriesAssumption
<1>3. ASSUME pc # "idle" PROVE ~Failed(call, attempt) /\ outcome[call] = "none"
  <2>1. call \in Calls
    BY <1>3 DEF LoopInvariant
  <2>2. Failed(call, attempt) => attempt < attempt
    BY <1>1, <1>3, <2>1 DEF Latest
  <2>3. QED
    BY <1>2, <1>3, <2>1, <2>2 DEF Latest
<1>4. ASSUME pc = "send", NEW q \in sent, q.call = call, q.attempt = attempt PROVE FALSE
  <2>1. q.attempt < attempt
    BY <1>4 DEF Latest
  <2>2. QED
    BY <1>2, <1>4, <2>1
<1>5. QED
  BY <1>2, <1>3, <1>4

LEMMA LatestStep == IInv /\ [Next]_vars => Latest'
<1> SUFFICES ASSUME IInv, [Next]_vars PROVE Latest'
  OBVIOUS
<1>t. TypeOK /\ Latest /\ LoopInvariant /\ LInv
  BY DEF IInv, LInv
<1>0. TypeOK /\ Latest /\ LoopInvariant /\ LInv /\ call \in Int /\ attempt \in Int
  BY <1>t, InProgress
<1>n. (\A c \in Calls : c \in Int) /\ (\A a \in Attempts : a \in Int)
  BY CallsAssumption, RetriesAssumption DEF Calls, Attempts
<1>q. \A q \in sent : q.call \in Int /\ q.attempt \in Int
  BY <1>0, <1>n, Requests
<1>1. CASE Begin
  <2>1. call' = call + 1 /\ pc' = "send" /\ UNCHANGED <<outcome, sent, unanswered, erred>>
    BY <1>1 DEF Begin, history
  <2>2. \A q \in sent : q.call < call'
    BY <1>0, <1>n, <1>q, <2>1 DEF Latest
  <2>3. \A c \in Calls, a \in Attempts : Failed(c, a) => c < call'
    BY <1>0, <1>n, <1>q, <2>1 DEF Latest
  <2>4. \A c \in Calls : c >= call' => outcome[c] = "none"
    BY <1>0, <1>n, <1>q, <2>1 DEF Latest
  <2>5. QED
    BY <1>0, <1>n, <1>q, <2>1, <2>2, <2>3, <2>4 DEF Latest, Failed
<1>2. CASE Send
  <2> DEFINE request == [call |-> call, attempt |-> attempt, body |-> reader]
  <2>1. /\ pc = "send" /\ pc' = "wait" /\ sent' = sent \cup {request}
        /\ UNCHANGED <<call, attempt, outcome, unanswered, erred>>
    BY <1>2 DEF Send
  <2>2. \A q \in sent : ~(q.call = call /\ q.attempt = attempt)
    BY <1>0, <1>n, <1>q, <2>1 DEF Latest
  <2>3. \A p, q \in sent' : p.call = q.call /\ p.attempt = q.attempt => p = q
    BY <1>0, <1>q, <2>1, <2>2 DEF Latest
  <2>4. QED
    BY <1>0, <2>1, <2>3 DEF Latest, Failed
<1>3. CASE Fails
  <2>1. /\ pc # "idle" /\ UNCHANGED <<call, sent>>
        /\ \A c \in Calls, a \in Attempts :
             Failed(c, a)' <=> Failed(c, a) \/ (c = call /\ a = attempt)
        /\ \/ pc' = "send" /\ attempt' = attempt + 1 /\ outcome' = outcome
           \/ pc' = "idle" /\ outcome' = [outcome EXCEPT ![call] = "gave up"]
    BY <1>0, <1>3, FailsStep
  <2>2. \A q \in sent : q.call <= call /\ (q.call = call => q.attempt < attempt + 1)
    <3>1. \A q \in sent :
            q.call <= call /\ (q.call = call => q.attempt < attempt \/ q.attempt = attempt)
      BY <1>0, <2>1 DEF Latest
    <3>2. QED
      BY <1>0, <1>q, <3>1
  <2>3. ASSUME NEW c \in Calls, NEW a \in Attempts, Failed(c, a)'
        PROVE  c <= call /\ (c = call => a < attempt + 1)
    <3>1. \/ c <= call /\ (c = call => a < attempt)
          \/ c = call /\ a = attempt
      BY <1>0, <2>1, <2>3 DEF Latest
    <3>2. QED
      BY <1>0, <1>n, <3>1
  <2>4. ASSUME NEW c \in Calls, c > call \/ (c = call /\ pc' # "idle")
        PROVE  outcome'[c] = "none"
    <3>1. outcome[c] = "none"
      BY <1>0, <2>1, <2>4 DEF Latest
    <3>2. c # call \/ pc' # "idle"
      BY <1>0, <1>n, <2>4
    <3>3. QED
      BY <1>0, <2>1, <3>1, <3>2 DEF TypeOK
  <2>5. \A p, q \in sent : p.call = q.call /\ p.attempt = q.attempt => p = q
    BY <1>0 DEF Latest
  <2>6. CASE pc' = "send" /\ attempt' = attempt + 1
    BY <1>0, <2>1, <2>2, <2>3, <2>4, <2>5, <2>6 DEF Latest
  <2>7. CASE pc' = "idle"
    BY <1>0, <2>1, <2>2, <2>3, <2>4, <2>5, <2>7 DEF Latest
  <2>8. QED
    BY <2>1, <2>6, <2>7
<1>4. CASE ReceiveOk \/ ReceiveRejected \/ ReadError
  <2>1. /\ pc' = "idle" /\ UNCHANGED <<call, sent, unanswered, erred>>
        /\ \A c \in Calls : c # call => outcome'[c] = outcome[c]
    BY <1>0, <1>4 DEF ReceiveOk, ReceiveRejected, ReadError, End, history, TypeOK
  <2>2. QED
    BY <1>0, <2>1 DEF Latest, Failed
<1>5. CASE ServerStep \/ UNCHANGED vars
  <2>1. UNCHANGED <<call, pc, attempt, outcome, sent, unanswered, erred>>
    BY <1>5 DEF ServerStep, Answer, Lose, vars, client, history
  <2>2. QED
    BY <1>0, <2>1 DEF Latest, Failed
<1>6. QED
  BY <1>1, <1>2, <1>3, <1>4, <1>5 DEF Next, ClientStep, Fails

LEMMA TravellingStep == IInv /\ [Next]_vars => StillTravelling'
<1> SUFFICES ASSUME IInv, [Next]_vars PROVE StillTravelling'
  OBVIOUS
<1>0. /\ TypeOK /\ Latest /\ LInv /\ LoopInvariant /\ StillTravelling
      /\ \A q \in travelling : q.call \in Calls /\ q.attempt \in Attempts
  BY Requests DEF IInv, LInv
<1>1. CASE Begin
  BY <1>0, <1>1 DEF Begin, StillTravelling, InHand, Failed, history
<1>2. CASE Send
  <2> DEFINE request == [call |-> call, attempt |-> attempt, body |-> reader]
  <2>1. /\ pc = "send" /\ pc' = "wait" /\ travelling' = travelling \cup {request}
        /\ answer' = "none" /\ UNCHANGED <<call, attempt, unanswered, erred>>
    BY <1>2 DEF Send
  <2>2. \A q \in travelling : Failed(q.call, q.attempt)'
    BY <1>0, <2>1 DEF StillTravelling, InHand, Failed
  <2>3. request.call = call' /\ request.attempt = attempt'
    BY <2>1
  <2>4. \A q \in travelling' : q \notin carried'
    <3>1. carried \subseteq sent /\ carried' = carried
      BY <1>0, <1>2 DEF Send, TypeOK
    <3>2. \A q \in sent : ~(q.call = call /\ q.attempt = attempt)
      BY <1>0, <2>1, InProgress
    <3>3. request \notin sent
      BY <3>2
    <3>4. QED
      BY <1>0, <2>1, <3>1, <3>3 DEF StillTravelling
  <2>5. QED
    <3>1. ASSUME NEW q \in travelling'
          PROVE  Failed(q.call, q.attempt)' \/ (InHand(q)' /\ answer' = "none")
      <4>1. CASE q \in travelling
        BY <2>2, <4>1
      <4>2. CASE q = request
        BY <2>1, <2>3, <4>2 DEF InHand
      <4>3. QED
        BY <2>1, <4>1, <4>2
    <3>2. QED
      BY <2>4, <3>1 DEF StillTravelling
<1>3. CASE Fails
  BY <1>0, <1>3, FailsStep DEF StillTravelling, InHand
<1>4. CASE ReceiveOk \/ ReceiveRejected \/ ReadError
  BY <1>0, <1>4
  DEF ReceiveOk, ReceiveRejected, ReadError, StillTravelling, InHand, Failed, history
<1>5. CASE ServerStep
  <2>1. PICK q \in travelling :
          (\E status \in {"ok", "rejected", "error"} : Answer(q, status)) \/ Lose(q)
    BY <1>5 DEF ServerStep
  <2>2. /\ travelling' = travelling \ {q} /\ UNCHANGED <<call, pc, attempt>>
        /\ UNCHANGED <<sent, unanswered, erred>> /\ carried' \subseteq carried \cup {q}
        /\ answer' = answer \/ InHand(q)
    BY <2>1 DEF Answer, Lose, client
  <2>3. \A p \in travelling' : ~(InHand(p) /\ InHand(q))
    BY <1>0, <2>2 DEF Latest, InHand, TypeOK
  <2>4. QED
    BY <1>0, <2>2, <2>3 DEF StillTravelling, InHand, Failed
<1>6. CASE UNCHANGED vars
  BY <1>0, <1>6 DEF StillTravelling, InHand, Failed, vars, client, history
<1>7. QED
  BY <1>1, <1>2, <1>3, <1>4, <1>5, <1>6 DEF Next, ClientStep, Fails

LEMMA CarriedStep == IInv /\ [Next]_vars => CarriedInHand'
<1> SUFFICES ASSUME IInv, [Next]_vars PROVE CarriedInHand'
  OBVIOUS
<1>0. /\ TypeOK /\ Latest /\ LInv /\ LoopInvariant /\ StillTravelling /\ CarriedInHand
      /\ \A q \in carried \cup travelling : q.call \in Calls /\ q.attempt \in Attempts
  BY Requests DEF IInv, LInv
<1>1. CASE Begin
  BY <1>0, <1>1 DEF Begin, CarriedInHand, InHand, Failed, history
<1>2. CASE Send
  BY <1>0, <1>2 DEF Send, CarriedInHand, InHand, Failed
<1>3. CASE Fails
  <2>1. \A q \in carried : outcome[q.call] \in {"ok", "unread"}
                           => outcome'[q.call] = outcome[q.call]
    BY <1>0, <1>3, FailsStep DEF Latest, TypeOK
  <2>2. QED
    BY <1>0, <1>3, <2>1, FailsStep DEF CarriedInHand, InHand
<1>4. CASE ReceiveOk \/ ReceiveRejected \/ ReadError
  <2>1. /\ pc = "wait" /\ pc' = "idle" /\ UNCHANGED <<call, carried, unanswered, erred>>
        /\ call \in Calls
        /\ \A c \in Calls : c # call => outcome'[c] = outcome[c]
        /\ outcome'[call] \in {"ok", "unread"} \/ answer = "rejected"
    BY <1>0, <1>4
    DEF ReceiveOk, ReceiveRejected, ReadError, End, history, TypeOK, LInv, LoopInvariant
  <2>2. QED
    BY <1>0, <2>1 DEF CarriedInHand, InHand, Failed, Latest
<1>5. CASE ServerStep
  <2>1. PICK q \in travelling :
          (\E status \in {"ok", "rejected", "error"} : Answer(q, status)) \/ Lose(q)
    BY <1>5 DEF ServerStep
  <2>2. UNCHANGED <<call, pc, attempt, outcome, sent, unanswered, erred>>
    BY <2>1 DEF Answer, Lose, client
  <2>3. CASE ~InHand(q)
    <3>1. carried' \in {carried, carried \cup {q}} /\ answer' = answer
      BY <2>1, <2>3 DEF Answer, Lose
    <3>2. Failed(q.call, q.attempt)
      BY <1>0, <2>3 DEF StillTravelling
    <3>3. QED
      BY <1>0, <2>2, <3>1, <3>2 DEF CarriedInHand, InHand, Failed
  <2>4. CASE InHand(q)
    <3>1. /\ carried' \in {carried, carried \cup {q}}
          /\ answer' = "rejected" => carried' = carried /\ travelling' = travelling \ {q}
          /\ answer' = "ok" => carried' = carried \cup {q}
      <4>1. answer = "none"
        <5>1. ~Failed(call, attempt)
          BY <1>0, <2>4, InProgress DEF InHand
        <5>2. QED
          BY <1>0, <2>4, <5>1 DEF StillTravelling, InHand
      <4>2. QED
        BY <2>1, <2>4, <4>1 DEF Answer, Lose
    <3>2. /\ \A p \in carried' : p = q \/ p \in carried
          /\ q \in carried' => InHand(q)' /\ answer' # "rejected"
      BY <1>0, <2>2, <2>4, <3>1 DEF InHand, StillTravelling
    <3>3. pc' = "wait" /\ answer' = "ok" => \E p \in carried' : InHand(p)'
      BY <2>2, <2>4, <3>1, <3>2
    <3>4. \A p \in carried : InHand(p) => p = q
      BY <1>0, <2>4 DEF Latest, InHand, TypeOK
    <3>5. \A p \in carried' :
            \/ Failed(p.call, p.attempt)'
            \/ InHand(p)' /\ answer' # "rejected"
            \/ outcome'[p.call] \in {"ok", "unread"}
      BY <1>0, <2>2, <3>2, <3>4 DEF CarriedInHand, Failed
    <3>6. QED
      BY <3>3, <3>5 DEF CarriedInHand
  <2>5. QED
    BY <2>3, <2>4
<1>6. CASE UNCHANGED vars
  BY <1>0, <1>6 DEF CarriedInHand, InHand, Failed, vars, client, history
<1>7. QED
  BY <1>1, <1>2, <1>3, <1>4, <1>5, <1>6 DEF Next, ClientStep, Fails

(* Requests of calls that have ended may still be carried out, and have    *)
(* failed; the call that ends now has one request that has not.            *)
LEMMA HeardStep == IInv /\ [Next]_vars => HeardIsDone'
<1> SUFFICES ASSUME IInv, [Next]_vars, NEW c \in Calls
             PROVE  /\ outcome'[c] = "ok" => \E q \in carried' : HeardOf(c)' = {q}
                    /\ outcome'[c] = "rejected" => HeardOf(c)' = {}
  BY DEF HeardIsDone
<1>0. /\ TypeOK /\ Latest /\ LInv /\ LoopInvariant
      /\ StillTravelling /\ CarriedInHand /\ HeardIsDone
      /\ \A q \in carried \cup travelling : q.call \in Calls /\ q.attempt \in Attempts
      /\ carried \subseteq sent
  BY Requests DEF IInv, LInv, TypeOK
<1>1. ASSUME outcome'[c] = outcome[c], HeardOf(c)' = HeardOf(c), carried \subseteq carried'
      PROVE  /\ outcome'[c] = "ok" => \E q \in carried' : HeardOf(c)' = {q}
             /\ outcome'[c] = "rejected" => HeardOf(c)' = {}
  BY <1>0, <1>1 DEF HeardIsDone
<1>2. CASE Begin \/ Send \/ UNCHANGED vars
  BY <1>1, <1>2 DEF Begin, Send, HeardOf, Failed, vars, client, history
<1>3. CASE Fails
  <2>1. CASE c = call
    <3>1. outcome[c] = "none" /\ outcome'[c] \in {"none", "gave up"}
      BY <1>0, <1>3, <2>1, FailsStep DEF Latest, TypeOK
    <3>2. QED
      BY <3>1
  <2>2. CASE c # call
    <3>1. outcome'[c] = outcome[c] /\ carried' = carried
      BY <1>0, <1>3, <2>2, FailsStep DEF TypeOK
    <3>2. \A q \in carried : q.call = c => (Failed(c, q.attempt)' <=> Failed(c, q.attempt))
      BY <1>0, <1>3, <2>2, FailsStep
    <3>3. HeardOf(c)' = HeardOf(c)
      BY <3>1, <3>2 DEF HeardOf
    <3>4. QED
      BY <1>1, <3>1, <3>3
  <2>3. QED
    BY <2>1, <2>2
<1>4. CASE ReceiveOk \/ ReceiveRejected \/ ReadError
  <2>1. /\ pc = "wait" /\ UNCHANGED <<call, attempt, carried, unanswered, erred>>
        /\ call \in Calls /\ attempt \in Attempts
        /\ c # call => outcome'[c] = outcome[c]
        /\ outcome'[call] = "ok" => answer = "ok"
        /\ outcome'[call] = "rejected" => answer = "rejected"
    BY <1>0, <1>4
    DEF ReceiveOk, ReceiveRejected, ReadError, End, history, TypeOK, LInv, LoopInvariant
  <2>2. HeardOf(c)' = HeardOf(c)
    BY <2>1 DEF HeardOf, Failed
  <2>3. CASE c # call
    BY <1>1, <2>1, <2>2, <2>3
  <2>4. CASE c = call
    <3>1. outcome[c] = "none" /\ ~Failed(call, attempt)
      BY <1>0, <2>1, <2>4, InProgress
    <3>2. \A q \in HeardOf(c) : InHand(q) /\ answer # "rejected"
      BY <1>0, <2>4, <3>1 DEF HeardOf, CarriedInHand
    <3>3. \A p, q \in carried : InHand(p) /\ InHand(q) => p = q
      BY <1>0 DEF Latest, InHand
    <3>4. ASSUME answer = "ok" PROVE \E q \in carried : HeardOf(c) = {q}
      <4>1. PICK q \in carried : InHand(q)
        BY <1>0, <2>1, <3>4 DEF CarriedInHand
      <4>2. q \in HeardOf(c)
        BY <2>4, <3>1, <4>1 DEF HeardOf, InHand
      <4>3. QED
        BY <3>2, <3>3, <4>1, <4>2 DEF HeardOf
    <3>5. QED
      BY <2>1, <2>2, <2>4, <3>2, <3>4
  <2>5. QED
    BY <2>3, <2>4
<1>5. CASE ServerStep
  <2>1. PICK q \in travelling :
          (\E status \in {"ok", "rejected", "error"} : Answer(q, status)) \/ Lose(q)
    BY <1>5 DEF ServerStep
  <2>2. /\ UNCHANGED <<call, pc, attempt, outcome, sent, unanswered, erred>>
        /\ carried' \in {carried, carried \cup {q}}
    BY <2>1 DEF Answer, Lose, client
  <2>3. CASE Failed(q.call, q.attempt) \/ q.call # c
    <3>1. HeardOf(c)' = HeardOf(c)
      BY <2>2, <2>3 DEF HeardOf, Failed
    <3>2. QED
      BY <1>1, <2>2, <3>1
  <2>4. CASE InHand(q) /\ q.call = c
    <3>1. outcome'[c] = "none"
      BY <1>0, <2>2, <2>4 DEF InHand, Latest
    <3>2. QED
      BY <3>1
  <2>5. QED
    BY <1>0, <2>3, <2>4 DEF StillTravelling
<1>6. QED
  BY <1>2, <1>3, <1>4, <1>5 DEF Next, ClientStep, Fails

LEMMA InitIInv == Init => IInv
<1>1. SUFFICES ASSUME Init PROVE IInv
  OBVIOUS
<1>2. LInv
  BY <1>1, InitLInv
<1>3. Latest
  BY <1>1 DEF Init, Latest, Failed
<1>4. StillTravelling /\ CarriedInHand /\ HeardIsDone
  BY <1>1 DEF Init, StillTravelling, CarriedInHand, HeardIsDone
<1>5. QED
  BY <1>2, <1>3, <1>4 DEF IInv

(* The inductive invariant holds in every reachable state.                 *)
THEOREM Invariance == Spec => []IInv
<1>1. IInv /\ [Next]_vars => LInv'
  BY LInvStep DEF IInv
<1>2. IInv /\ [Next]_vars => IInv'
  BY <1>1, LatestStep, TravellingStep, CarriedStep, HeardStep DEF IInv
<1>3. QED
  BY InitIInv, <1>2, PTL DEF Spec

(* Every variable of the client, the server and the network keeps its type.*)
THEOREM TypeCorrect == Spec => []TypeOK
<1>1. IInv => TypeOK
  BY DEF IInv, LInv
<1> QED
  BY <1>1, Invariance, PTL

(* A request is sent again only after every earlier one of its call went   *)
(* unanswered or met a server error: never after a success or a rejection. *)
THEOREM RetriesAlwaysExplained == Spec => []RetriesExplained
<1>1. IInv => RetriesExplained
  BY DEF IInv, LInv
<1> QED
  BY <1>1, Invariance, PTL

(* The body is missing only right after an attempt without an answer.      *)
THEOREM EmptyBodyAlwaysExplained == Spec => []EmptyBodyExplained
<1>1. IInv => EmptyBodyExplained
  BY DEF IInv, LInv
<1> QED
  BY <1>1, Invariance, PTL

(* The caller of do is told what the server did, but for the attempts that *)
(* failed: a success was carried out once, a rejected call not at all, and *)
(* no call is given up before all of its attempts have failed.             *)
THEOREM AlwaysToldWhatWasDone == Spec => []ToldWhatWasDone
<1>1. IInv => ToldWhatWasDone
  BY DEF IInv, LInv, HeardIsDone, GivesUpAfterAll, ToldWhatWasDone
<1> QED
  BY <1>1, Invariance, PTL

-----------------------------------------------------------------------------
(* What CallEnds rests on besides fairness: how many steps a client that   *)
(* has a call to finish can still take.                                    *)
StepsLeft ==
  IF pc = "idle" THEN 0
  ELSE 2 * (MaxRetries - attempt) - (IF pc = "wait" THEN 1 ELSE 0)

(* A call ends after at most two steps for each of its attempts: every     *)
(* step of the client in the loop of do brings the end nearer, whatever    *)
(* the answer, and nothing the server or the network does puts it off.     *)
THEOREM EveryStepEndsACall ==
  Spec => [][/\ StepsLeft \in 0 .. 2 * MaxRetries
             /\ pc # "idle" /\ ClientStep => StepsLeft' < StepsLeft
             /\ ServerStep => StepsLeft' = StepsLeft]_vars
<1>1. ASSUME IInv, [Next]_vars
      PROVE  [/\ StepsLeft \in 0 .. 2 * MaxRetries
              /\ pc # "idle" /\ ClientStep => StepsLeft' < StepsLeft
              /\ ServerStep => StepsLeft' = StepsLeft]_vars
  <2>0. /\ LInv /\ MaxRetries \in Nat /\ attempt \in Nat /\ attempt < MaxRetries
        /\ pc \in {"idle", "send", "wait"}
    BY <1>1, InProgress DEF IInv, LInv, TypeOK
  <2>1. StepsLeft \in 0 .. 2 * MaxRetries
    BY <2>0 DEF StepsLeft
  <2>2. ASSUME pc # "idle", ClientStep PROVE StepsLeft' < StepsLeft
    <3>1. CASE Send
      BY <2>0, <3>1 DEF Send, StepsLeft
    <3>2. CASE Fails
      <4>1. (pc' = "send" /\ attempt' = attempt + 1) \/ pc' = "idle"
        BY <2>0, <3>2, FailsStep
      <4>2. QED
        BY <2>0, <2>2, <4>1 DEF StepsLeft
    <3>3. CASE ReceiveOk \/ ReceiveRejected \/ ReadError
      BY <2>0, <2>2, <3>3 DEF ReceiveOk, ReceiveRejected, ReadError, End, StepsLeft
    <3>4. QED
      BY <2>2, <3>1, <3>2, <3>3 DEF ClientStep, Begin, Fails
  <2>3. ServerStep => StepsLeft' = StepsLeft
    BY DEF ServerStep, Answer, Lose, client, StepsLeft
  <2>4. QED
    BY <2>1, <2>2, <2>3
<1>2. QED
  BY <1>1, Invariance, PTL DEF Spec
=============================================================================
