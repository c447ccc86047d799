-------------------------- MODULE ClientCallsProofs --------------------------
(***************************************************************************)
(* The safety properties of ClientCalls, for every number of callers, keys, *)
(* retries and calls.  One lemma per conjunct of IInv says that every step  *)
(* preserves it; the theorems at the end put them together.                 *)
(***************************************************************************)
EXTENDS ClientInvariant, TLAPS

-----------------------------------------------------------------------------
(* Types.                                                                   *)

\* The record of a call stays one when a field is assigned.
LEMMA CallFields ==
  ASSUME NEW k \in Calls
  PROVE  /\ \A o \in Outcomes : [k EXCEPT !.outcome = o] \in Calls
         /\ \A f \in Transient, o \in Outcomes :
              [k EXCEPT !.fates = Append(@, f), !.outcome = o] \in Calls
         /\ \A a \in AllAnswers, o \in Outcomes :
              [k EXCEPT !.answer = a, !.outcome = o] \in Calls
         /\ \A w \in Keys, o \in Outcomes :
              [k EXCEPT !.own = w, !.outcome = o] \in Calls
         /\ k.attempt < Retries => [k EXCEPT !.attempt = @ + 1] \in Calls
<1> USE ClientAssumption
<1>1. \A o \in Outcomes : [k EXCEPT !.outcome = o] \in Calls
  BY DEF Calls
<1>2. \A f \in Transient, o \in Outcomes :
        [k EXCEPT !.fates = Append(@, f), !.outcome = o] \in Calls
  <2>1. \A f \in Transient : Append(k.fates, f) \in Seq(Transient)
    BY DEF Calls
  <2> QED BY <2>1 DEF Calls
<1>3. \A a \in AllAnswers, o \in Outcomes :
        [k EXCEPT !.answer = a, !.outcome = o] \in Calls
  BY DEF Calls
<1>4. \A w \in Keys, o \in Outcomes : [k EXCEPT !.own = w, !.outcome = o] \in Calls
  BY DEF Calls
<1>5. k.attempt < Retries => [k EXCEPT !.attempt = @ + 1] \in Calls
  BY DEF Calls
<1> QED BY <1>1, <1>2, <1>3, <1>4, <1>5

\* Ending a call, or an attempt, keeps the types of what it assigns.
LEMMA FinishTypes ==
  ASSUME TypeOK, NEW c \in Callers, NEW o \in Outcomes, Finish(c, o)
  PROVE  pc' \in [Callers -> Places] /\ call' \in [Callers -> Calls]
         /\ reply' \in [Callers -> Replies]
<1>1. pc' \in [Callers -> Places]
  BY DEF Finish, TypeOK, Places
<1>2. call' \in [Callers -> Calls]
  BY CallFields DEF Finish, TypeOK
<1>3. reply' \in [Callers -> Replies]
  BY DEF Finish, TypeOK, NoReply, AllAnswers, Replies
<1> QED BY <1>1, <1>2, <1>3

LEMMA FailTypes ==
  ASSUME TypeOK, NEW c \in Callers, NEW f \in Transient, Fail(c, f)
  PROVE  TypeOK'
<1>1. pc' \in [Callers -> Places]
  BY DEF Fail, TypeOK, Places
<1>2. call' \in [Callers -> Calls]
  <2>1. PICK o \in Outcomes : call' = [call EXCEPT ![c] =
               [call[c] EXCEPT !.fates = Append(@, f), !.outcome = o]]
    BY DEF Fail, TypeOK, Calls, Outcomes
  <2> QED BY <2>1, CallFields DEF TypeOK
<1>3. reply' \in [Callers -> Replies]
  BY DEF Fail, TypeOK, NoReply, AllAnswers, Replies
<1> QED BY <1>1, <1>2, <1>3 DEF Fail, TypeOK

\* Every step keeps every variable in its type.
LEMMA TypeStep == IInv /\ [Next]_vars => TypeOK'
<1> SUFFICES ASSUME IInv, [Next]_vars PROVE TypeOK'
  OBVIOUS
<1>0. TypeOK
  BY DEF IInv
<1>1. ASSUME NEW c \in Callers, NEW o \in Ops, Invoke(c, o) PROVE TypeOK'
  <2>1. [NoCall EXCEPT !.n = call[c].n + 1, !.op = o, !.key = apiKey,
                       !.own = call[c].own] \in Calls
    <3>1. call[c].n + 1 \in 0 .. MaxCalls /\ call[c].own \in Keys \cup {NoKey}
      BY <1>0, <1>1, ClientAssumption DEF Invoke, TypeOK, Calls
    <3>2. NoCall \in Calls
      BY ClientAssumption DEF Calls, NoCall, Outcomes, AllAnswers, Methods
    <3> QED BY <1>0, <3>1, <3>2, ClientAssumption DEF TypeOK, Calls
  <2> QED BY <1>0, <1>1, <2>1 DEF Invoke, TypeOK, Places
<1>2. ASSUME NEW c \in Callers, Send(c) PROVE TypeOK'
  <2>1. Request(c) \in Requests
    BY <1>0, <1>2, ClientAssumption
       DEF IInv, RetryInv, RetryOf, TypeOK, Request, Requests, Calls, Send
  <2> QED BY <1>0, <1>2, <2>1 DEF Send, TypeOK, Places
<1>3. ASSUME NEW c \in Callers, SendOnClosed(c) PROVE TypeOK'
  BY <1>0, <1>3, FinishTypes DEF SendOnClosed, TypeOK, Outcomes
<1>4. ASSUME NEW c \in Callers, Wake(c) PROVE TypeOK'
  <2>1. [call[c] EXCEPT !.attempt = @ + 1] \in Calls
    BY <1>0, <1>4, CallFields DEF IInv, RetryInv, RetryOf, Wake, TypeOK
  <2> QED BY <1>0, <1>4, <2>1 DEF Wake, TypeOK, Places
<1>5. ASSUME NEW c \in Callers, Refused(c) PROVE TypeOK'
  <2>1. RaisedFor[reply[c].status] \in Outcomes
    BY <1>5 DEF Refused, Refusals, RaisedFor, Outcomes, Transient
  <2> QED BY <1>0, <1>5, <2>1, FinishTypes DEF Refused, TypeOK
<1>6. ASSUME NEW c \in Callers, BadBody(c) PROVE TypeOK'
  BY <1>0, <1>6, FinishTypes DEF BadBody, TypeOK, Outcomes
<1>7. ASSUME NEW c \in Callers, Answered(c) PROVE TypeOK'
  <2>1. PICK o \in Outcomes : call' = [call EXCEPT ![c] =
               [call[c] EXCEPT !.answer = reply[c].answer, !.outcome = o]]
    BY <1>0, <1>7 DEF Answered, TypeOK, Calls, Outcomes
  <2>2. call' \in [Callers -> Calls]
    BY <1>0, <2>1, CallFields DEF TypeOK, Replies
  <2>3. pc' \in [Callers -> Places] /\ reply' \in [Callers -> Replies]
    BY <1>0, <1>7 DEF Answered, TypeOK, Places, NoReply, AllAnswers, Replies
  <2> QED BY <1>0, <1>7, <2>2, <2>3 DEF Answered, TypeOK
<1>8. ASSUME NEW c \in Callers, Adopt(c) PROVE TypeOK'
  <2>1. call[c].answer \in Keys
    BY <1>8 DEF IInv, AnswerInv, AnswerOf, Adopt, TypeOK
  <2>2. [call[c] EXCEPT !.own = call[c].answer, !.outcome = "ok"] \in Calls
    BY <1>0, <2>1, CallFields DEF TypeOK, Outcomes
  <2> QED BY <1>0, <1>8, <2>1, <2>2 DEF Adopt, TypeOK, Places
<1>9. ASSUME NEW c \in Callers, Cancel(c) PROVE TypeOK'
  BY <1>0, <1>9, FinishTypes DEF Cancel, TypeOK, Outcomes
<1>10. CASE Close
  BY <1>0, <1>10 DEF Close, TypeOK
<1>11. ASSUME NEW m \in wire, NEW s \in Refusals \cup {"retryable"}, Reject(m, s)
       PROVE  TypeOK'
  BY <1>0, <1>11 DEF Reject, Respond, TypeOK, Requests, Replies, Statuses, AllAnswers
<1>12. ASSUME NEW m \in wire, NEW s \in {"2xx", "retryable", "5xx"}, NEW a \in AllAnswers,
              Apply(m, s, a)
       PROVE  TypeOK'
  <2>1. applied' \subseteq EffectRecords
    BY <1>0, <1>12 DEF Apply, TypeOK, Requests, EffectRecords
  <2>2. s \in Statuses
    BY DEF Statuses, Refusals, RaisedFor
  <2> QED BY <1>0, <1>12, <2>1, <2>2 DEF Apply, Respond, TypeOK, Requests, Replies
<1>13. ASSUME NEW c \in Callers, TimedOut(c) \/ ConnectionLost(c) \/ ServerBusy(c)
       PROVE  TypeOK'
  BY <1>0, <1>13, FailTypes DEF TimedOut, ConnectionLost, ServerBusy, Transient
<1>14. CASE UNCHANGED vars
  BY <1>0, <1>14 DEF vars, TypeOK
<1> QED
  BY <1>1, <1>2, <1>3, <1>4, <1>5, <1>6, <1>7, <1>8, <1>9, <1>10, <1>11, <1>12, <1>13, <1>14
     DEF Next, CallerStep, Progress, EngineStep

-----------------------------------------------------------------------------
(* The retry loop.                                                          *)

\* Every step keeps the bookkeeping of the retry loop.
LEMMA RetryStep == IInv /\ [Next]_vars => RetryInv'
<1> SUFFICES ASSUME IInv, [Next]_vars, NEW d \in Callers PROVE RetryOf(d)'
  BY DEF RetryInv
<1>0. /\ call \in [Callers -> Calls] /\ pc \in [Callers -> Places]
      /\ call[d] \in Calls /\ RetryOf(d) /\ Retries \in Nat
  BY ClientAssumption DEF IInv, TypeOK, RetryInv
<1>1. ASSUME NEW c \in Callers, NEW o \in Ops, Invoke(c, o) PROVE RetryOf(d)'
  BY <1>0, <1>1 DEF Invoke, RetryOf, NoCall, Calls
<1>2. ASSUME NEW c \in Callers, Send(c) PROVE RetryOf(d)'
  BY <1>0, <1>2 DEF Send, RetryOf, Calls
<1>3. ASSUME NEW c \in Callers, NEW o \in Outcomes \ {"timeout", "transport"},
             pc[c] \in {"send", "wait", "backoff"}, Finish(c, o)
      PROVE  RetryOf(d)'
  BY <1>0, <1>3 DEF Finish, RetryOf, Calls
<1>4. ASSUME NEW c \in Callers, NEW f \in Transient, pc[c] = "wait", Fail(c, f)
      PROVE  RetryOf(d)'
  <2>1. ASSUME d # c PROVE RetryOf(d)'
    <3>1. call'[d] = call[d] /\ pc'[d] = pc[d]
      BY <1>0, <1>4, <2>1 DEF Fail
    <3> QED BY <1>0, <3>1 DEF RetryOf
  <2>2. ASSUME d = c PROVE RetryOf(d)'
    <3> DEFINE k == call[c]  more == call[c].attempt < Retries
    <3>1. /\ Len(k.fates) = k.attempt /\ k.outcome = "none" /\ k.n > 0
          /\ k.attempt \in 0 .. Retries
      BY <1>0, <1>4, <2>2 DEF RetryOf, Calls
    <3>2. /\ Len(Append(k.fates, f)) = k.attempt + 1
          /\ Append(k.fates, f)[k.attempt + 1] = f
      BY <1>0, <2>2, <3>1 DEF Calls
    <3>3. /\ pc'[c] = IF more THEN "backoff" ELSE "done"
          /\ call'[c].fates = Append(k.fates, f) /\ call'[c].n = k.n
          /\ call'[c].attempt = k.attempt
          /\ call'[c].outcome = IF more THEN k.outcome ELSE f
      BY <1>0, <1>4, <2>2 DEF Fail, Calls
    <3>4. /\ Len(call'[c].fates) = call'[c].attempt + 1
          /\ call'[c].attempt \in 0 .. Retries
          /\ call'[c].fates[call'[c].attempt + 1] = f
          /\ call'[c].n > 0
      BY <3>1, <3>2, <3>3
    <3>5. more \/ call'[c].attempt = Retries
      BY <1>0, <3>1, <3>3
    <3>6. CASE more
      BY <1>0, <2>2, <3>1, <3>3, <3>4, <3>6 DEF RetryOf, Transient
    <3>7. CASE ~more
      BY <1>0, <2>2, <3>1, <3>3, <3>4, <3>5, <3>7 DEF RetryOf, Transient
    <3> QED BY <3>6, <3>7
  <2> QED BY <2>1, <2>2
<1>5. ASSUME NEW c \in Callers, Wake(c) PROVE RetryOf(d)'
  BY <1>0, <1>5 DEF Wake, RetryOf, Calls
<1>6. ASSUME NEW c \in Callers, Answered(c) PROVE RetryOf(d)'
  BY <1>0, <1>6 DEF Answered, RetryOf, Calls
<1>7. ASSUME NEW c \in Callers, Adopt(c) PROVE RetryOf(d)'
  BY <1>0, <1>7 DEF Adopt, RetryOf, Calls
<1>8. ASSUME UNCHANGED <<pc, call>> PROVE RetryOf(d)'
  BY <1>0, <1>8 DEF RetryOf
<1>9. ASSUME NEW c \in Callers, Progress(c) PROVE RetryOf(d)'
  <2>1. ASSUME Refused(c) PROVE RetryOf(d)'
    BY <1>3, <2>1 DEF Refused, Refusals, RaisedFor, Outcomes, Transient
  <2> QED
    BY <1>2, <1>3, <1>4, <1>5, <1>6, <1>7, <1>9, <2>1
       DEF Progress, SendOnClosed, TimedOut, ServerBusy, BadBody, Outcomes, Transient
<1> QED
  BY <1>1, <1>3, <1>4, <1>8, <1>9
     DEF Next, CallerStep, EngineStep, ConnectionLost, Cancel, Close, Reject, Apply,
         Respond, vars, Outcomes, Transient

-----------------------------------------------------------------------------
(* What is sent.                                                            *)

\* d neither starts a call nor gets ready to send an attempt.
SameAttemptOf(d) == /\ call'[d].n = call[d].n
                    /\ call'[d].key = call[d].key
                    /\ call'[d].attempt = call[d].attempt
                    /\ (pc'[d] = "send" => pc[d] = "send")

\* Every step keeps what was sent in agreement with the locals of the callers.
LEMMA SentStep == IInv /\ [Next]_vars => SentInv'
<1> SUFFICES ASSUME IInv, [Next]_vars, NEW m \in Sent' PROVE SentOf(m)'
  BY DEF SentInv
<1>0. /\ call \in [Callers -> Calls] /\ pc \in [Callers -> Places]
      /\ wire \subseteq Requests /\ applied \subseteq EffectRecords
  BY DEF IInv, TypeOK
<1>1. \A x \in Sent : /\ x.caller \in Callers /\ x.n \in Nat /\ x.attempt \in Nat
                     /\ SentOf(x)
  BY <1>0, ClientAssumption DEF IInv, SentInv, Sent, Requests, EffectRecords
<1>2. ASSUME NEW c \in Callers, NEW o \in Ops, Invoke(c, o) PROVE SentOf(m)'
  <2>1. m \in Sent
    BY <1>2 DEF Invoke, Sent
  <2> QED BY <1>0, <1>1, <1>2, <2>1 DEF Invoke, SentOf, NoCall, Calls
<1>3. ASSUME NEW c \in Callers, Send(c) PROVE SentOf(m)'
  <2>1. m \in Sent \/ m = Request(c)
    BY <1>3 DEF Send, Sent
  <2>2. CASE m \in Sent
    BY <1>0, <1>1, <1>3, <2>2 DEF Send, SentOf
  <2>3. CASE m = Request(c)
    BY <1>0, <1>3, <2>3 DEF Send, SentOf, Request, Calls
  <2> QED BY <2>1, <2>2, <2>3
<1>4. ASSUME NEW c \in Callers, Wake(c) PROVE SentOf(m)'
  <2>1. m \in Sent
    BY <1>4 DEF Wake, Sent
  <2> QED BY <1>0, <1>1, <1>4, <2>1 DEF Wake, SentOf, Calls
<1>5. ASSUME m \in Sent, \A d \in Callers : SameAttemptOf(d) PROVE SentOf(m)'
  BY <1>1, <1>5 DEF SentOf, SameAttemptOf
<1>6. ASSUME NEW c \in Callers, NEW o, Finish(c, o), UNCHANGED <<wire, applied>>
      PROVE  SentOf(m)'
  BY <1>0, <1>5, <1>6 DEF Finish, Sent, Calls, SameAttemptOf
<1>7. ASSUME NEW c \in Callers, NEW f, Fail(c, f) PROVE SentOf(m)'
  BY <1>0, <1>5, <1>7 DEF Fail, Sent, Calls, SameAttemptOf
<1>8. ASSUME NEW c \in Callers, Answered(c) PROVE SentOf(m)'
  BY <1>0, <1>5, <1>8 DEF Answered, Sent, Calls, SameAttemptOf
<1>9. ASSUME NEW c \in Callers, Adopt(c) PROVE SentOf(m)'
  BY <1>0, <1>5, <1>9 DEF Adopt, Sent, Calls, SameAttemptOf
<1>10. ASSUME UNCHANGED <<pc, call, wire, applied>> PROVE SentOf(m)'
  BY <1>1, <1>10 DEF Sent, SentOf
<1>11. ASSUME NEW x \in wire, NEW s, Reject(x, s) PROVE SentOf(m)'
  <2>1. m \in Sent
    BY <1>11 DEF Reject, Respond, Sent
  <2> QED BY <1>1, <1>11, <2>1 DEF Reject, Respond, SentOf
<1>12. ASSUME NEW x \in wire, NEW s, NEW a, Apply(x, s, a) PROVE SentOf(m)'
  <2>1. PICK y \in Sent : /\ m.caller = y.caller /\ m.n = y.n
                          /\ m.attempt = y.attempt /\ m.key = y.key
    <3>1. m \in Sent \/ m = [caller |-> x.caller, n |-> x.n, key |-> x.key,
                              attempt |-> x.attempt, answer |-> a]
      BY <1>12 DEF Apply, Respond, Sent
    <3> QED BY <3>1 DEF Sent
  <2> QED BY <1>1, <1>12, <2>1 DEF Apply, Respond, SentOf
<1>13. ASSUME NEW c \in Callers, Progress(c) PROVE SentOf(m)'
  BY <1>3, <1>4, <1>6, <1>7, <1>8, <1>9, <1>13
     DEF Progress, SendOnClosed, TimedOut, ServerBusy, Refused, BadBody
<1> QED
  BY <1>2, <1>6, <1>7, <1>10, <1>11, <1>12, <1>13
     DEF Next, CallerStep, EngineStep, ConnectionLost, Cancel, Close, vars

\* What every step can do to what was sent: nothing, send the attempt a caller
\* is about to make, or move a request from the wire to the applied ones.
LEMMA SentChange ==
  ASSUME IInv, [Next]_vars
  PROVE  \/ wire' \subseteq wire /\ applied' = applied
         \/ \E c \in Callers : /\ pc[c] = "send"
                             /\ wire' = wire \cup {Request(c)} /\ applied' = applied
                             /\ UNCHANGED call
         \/ \E x \in wire, a \in AllAnswers :
              /\ wire' = wire \ {x}
              /\ applied' = applied \cup {[caller |-> x.caller, n |-> x.n, key |-> x.key,
                                          attempt |-> x.attempt, answer |-> a]}
              /\ UNCHANGED call
<1> DEFINE Fewer == wire' \subseteq wire /\ applied' = applied
<1>1. ASSUME NEW c \in Callers, Progress(c) PROVE Fewer \/ Send(c)
  BY <1>1 DEF Progress, SendOnClosed, TimedOut, ServerBusy, Refused, BadBody, Wake,
              Answered, Adopt, Fail
<1>2. ASSUME NEW c \in Callers, CallerStep(c) PROVE Fewer \/ Send(c)
  BY <1>1, <1>2 DEF CallerStep, Invoke, ConnectionLost, Fail, Cancel
<1>3. CASE EngineStep
  BY <1>3 DEF EngineStep, Reject, Apply, Respond
<1> QED BY <1>2, <1>3 DEF Next, Close, Send, vars

\* A call keeps its number, operation and headers until the next call begins.
SameCall(d) == /\ call'[d].n = call[d].n
               /\ call'[d].op = call[d].op
               /\ call'[d].key = call[d].key
NextCall(d) == call'[d].n = call[d].n + 1

LEMMA CallChange ==
  ASSUME IInv, [Next]_vars, NEW d \in Callers
  PROVE  SameCall(d) \/ NextCall(d)
<1> USE DEF SameCall, NextCall
<1>0. call \in [Callers -> Calls]
  BY DEF IInv, TypeOK
<1>1. ASSUME NEW c \in Callers, NEW o \in Ops, Invoke(c, o) PROVE SameCall(d) \/ NextCall(d)
  BY <1>0, <1>1 DEF Invoke, NoCall, Calls
<1>2. ASSUME NEW c \in Callers, NEW o, Finish(c, o) PROVE SameCall(d)
  BY <1>0, <1>2 DEF Finish, Calls
<1>3. ASSUME NEW c \in Callers, NEW f, Fail(c, f) PROVE SameCall(d)
  BY <1>0, <1>3 DEF Fail, Calls
<1>4. ASSUME NEW c \in Callers, Wake(c) \/ Answered(c) \/ Adopt(c) PROVE SameCall(d)
  <2>1. CASE Wake(c)
    BY <1>0, <2>1 DEF Wake, Calls
  <2>2. CASE Answered(c)
    BY <1>0, <2>2 DEF Answered, Calls
  <2>3. CASE Adopt(c)
    BY <1>0, <2>3 DEF Adopt, Calls
  <2> QED BY <1>4, <2>1, <2>2, <2>3
<1>5. ASSUME UNCHANGED call PROVE SameCall(d)
  BY <1>5
<1>6. ASSUME NEW c \in Callers, Progress(c) PROVE SameCall(d)
  BY <1>2, <1>3, <1>4, <1>5, <1>6
     DEF Progress, Send, SendOnClosed, TimedOut, ServerBusy, Refused, BadBody
<1> QED
  BY <1>1, <1>2, <1>3, <1>5, <1>6
     DEF Next, CallerStep, EngineStep, ConnectionLost, Cancel, Close, Reject, Apply,
         Respond, vars

\* A request on the wire is for the operation its caller is performing.
LEMMA WireStep == IInv /\ [Next]_vars => WireInv'
<1> SUFFICES ASSUME IInv, [Next]_vars, NEW m \in wire' PROVE OpOf(m)'
  BY DEF WireInv
<1>0. /\ call \in [Callers -> Calls] /\ wire \subseteq Requests
      /\ \A x \in wire : x.caller \in Callers /\ x.n \in Nat /\ OpOf(x)
                       /\ x.n <= call[x.caller].n
  BY DEF IInv, TypeOK, WireInv, SentInv, SentOf, Sent, Requests
<1>1. CASE m \in wire
  BY <1>0, <1>1, CallChange DEF OpOf, SameCall, NextCall, Calls
<1>2. ASSUME NEW c \in Callers, m = Request(c), UNCHANGED call PROVE OpOf(m)'
  BY <1>2 DEF OpOf, Request
<1> QED BY <1>1, <1>2, SentChange

\* Every step keeps the attempts on the wire distinct from all others.
LEMMA DistinctStep == IInv /\ [Next]_vars => Distinct'
<1> SUFFICES ASSUME IInv, [Next]_vars PROVE Distinct'
  OBVIOUS
<1>0. /\ \A m1 \in wire, m2 \in Sent : SameAttempt(m1, m2) => m1 = m2
      /\ \A m \in Sent : SentOf(m)
  BY DEF IInv, Distinct, SentInv
<1>1. CASE wire' \subseteq wire /\ applied' = applied
  BY <1>0, <1>1 DEF Distinct, Sent
<1>2. ASSUME NEW c \in Callers, pc[c] = "send", wire' = wire \cup {Request(c)},
             applied' = applied
      PROVE  Distinct'
  <2>1. \A m \in Sent : ~SameAttempt(m, Request(c)) /\ ~SameAttempt(Request(c), m)
    BY <1>0, <1>2 DEF SentOf, SameAttempt, Request
  <2> QED BY <1>0, <1>2, <2>1 DEF Distinct, Sent
<1>3. ASSUME NEW x \in wire, NEW a \in AllAnswers, wire' = wire \ {x},
             applied' = applied \cup {[caller |-> x.caller, n |-> x.n, key |-> x.key,
                                      attempt |-> x.attempt, answer |-> a]}
      PROVE  Distinct'
  <2> DEFINE e == [caller |-> x.caller, n |-> x.n, key |-> x.key,
                   attempt |-> x.attempt, answer |-> a]
  <2>1. \A m \in wire' : ~SameAttempt(m, e)
    BY <1>0, <1>3 DEF SameAttempt, Sent
  <2> QED BY <1>0, <1>3, <2>1 DEF Distinct, Sent
<1> QED BY <1>1, <1>2, <1>3, SentChange

\* Every step keeps the headers of the attempts of one call equal.
LEMMA HeadersStep == IInv /\ [Next]_vars => StableHeaders'
<1> SUFFICES ASSUME IInv, [Next]_vars PROVE StableHeaders'
  OBVIOUS
<1>0. /\ \A m1, m2 \in Sent : m1.caller = m2.caller /\ m1.n = m2.n => m1.key = m2.key
      /\ \A m \in Sent : SentOf(m)
  BY DEF IInv, StableHeaders, SentInv, Sent
<1>1. CASE wire' \subseteq wire /\ applied' = applied
  BY <1>0, <1>1 DEF StableHeaders, Sent
<1>2. ASSUME NEW c \in Callers, wire' = wire \cup {Request(c)}, applied' = applied
      PROVE  StableHeaders'
  BY <1>0, <1>2 DEF StableHeaders, Sent, SentOf, Request
<1>3. ASSUME NEW x \in wire, NEW a \in AllAnswers, wire' = wire \ {x},
             applied' = applied \cup {[caller |-> x.caller, n |-> x.n, key |-> x.key,
                                      attempt |-> x.attempt, answer |-> a]}
      PROVE  StableHeaders'
  BY <1>0, <1>3 DEF StableHeaders, Sent
<1> QED BY <1>1, <1>2, <1>3, SentChange

-----------------------------------------------------------------------------
(* What is answered.                                                        *)

\* Every step keeps the answers that callers hold genuine.
LEMMA AnswerStep == IInv /\ [Next]_vars => AnswerInv'
<1> SUFFICES ASSUME IInv, [Next]_vars, NEW d \in Callers PROVE AnswerOf(d)'
  BY DEF AnswerInv
<1>0. /\ call \in [Callers -> Calls] /\ pc \in [Callers -> Places]
      /\ reply \in [Callers -> Replies] /\ call[d] \in Calls /\ reply[d] \in Replies
      /\ AnswerOf(d) /\ RetryOf(d)
  BY DEF IInv, TypeOK, AnswerInv, RetryInv
<1>1. ASSUME NEW c \in Callers, NEW o \in Ops, Invoke(c, o) PROVE AnswerOf(d)'
  BY <1>0, <1>1 DEF Invoke, AnswerOf, EffectOfCall, NoCall, Calls
<1>2. ASSUME NEW c \in Callers, Send(c) PROVE AnswerOf(d)'
  BY <1>0, <1>2 DEF Send, AnswerOf, EffectOfCall, RetryOf
<1>3. ASSUME NEW c \in Callers, NEW o, o # "ok", Finish(c, o),
             UNCHANGED <<applied, registered>>
      PROVE  AnswerOf(d)'
  BY <1>0, <1>3 DEF Finish, AnswerOf, EffectOfCall, NoReply, Calls
<1>4. ASSUME NEW c \in Callers, NEW f \in Transient, Fail(c, f), pc[c] = "wait"
      PROVE  AnswerOf(d)'
  BY <1>0, <1>4 DEF Fail, AnswerOf, EffectOfCall, NoReply, RetryOf, Transient, Calls
<1>5. ASSUME NEW c \in Callers, Wake(c) PROVE AnswerOf(d)'
  BY <1>0, <1>5 DEF Wake, AnswerOf, EffectOfCall, RetryOf, Calls
<1>6. ASSUME NEW c \in Callers, Answered(c) PROVE AnswerOf(d)'
  BY <1>0, <1>6 DEF Answered, WritesKey, AnswerOf, EffectOfCall, NoReply, RetryOf, Calls,
                    Minting
<1>7. ASSUME NEW c \in Callers, Adopt(c) PROVE AnswerOf(d)'
  BY <1>0, <1>7 DEF Adopt, AnswerOf, EffectOfCall, Calls
<1>8. ASSUME UNCHANGED <<pc, call, reply, applied, registered>> PROVE AnswerOf(d)'
  BY <1>0, <1>8 DEF AnswerOf, EffectOfCall
<1>9. ASSUME NEW m \in wire, NEW s \in Refusals \cup {"retryable"}, Reject(m, s)
      PROVE  AnswerOf(d)'
  BY <1>0, <1>9 DEF Reject, Respond, Awaited, AnswerOf, EffectOfCall, Refusals, RaisedFor
<1>10. ASSUME NEW m \in wire, NEW s \in {"2xx", "retryable", "5xx"}, NEW a \in AllAnswers,
              Apply(m, s, a)
       PROVE  AnswerOf(d)'
  <2>1. applied \subseteq applied' /\ registered \subseteq registered'
    BY <1>10 DEF Apply
  <2>2. CASE reply'[d] = reply[d]
    BY <1>0, <1>10, <2>1, <2>2 DEF Apply, Respond, AnswerOf, EffectOfCall
  <2>3. CASE Awaited(m) /\ d = m.caller
    <3>1. m.key = call[d].key /\ m.op = call[d].op
      BY <2>3 DEF IInv, SentInv, SentOf, Sent, WireInv, OpOf, Awaited
    <3>2. EffectOfCall(d, a) \in applied'
      BY <1>10, <2>3, <3>1 DEF Apply, EffectOfCall, Awaited
    <3>3. call[d].op \in Minting => a \in registered' \cup {NoKey, Garbled}
      BY <1>10, <3>1 DEF Apply, Answers, Minting
    <3>4. reply'[d] = [status |-> s, answer |-> a] /\ UNCHANGED <<pc, call>>
      BY <1>0, <1>10, <2>3 DEF Apply, Respond
    <3> QED BY <1>0, <2>1, <2>3, <3>2, <3>3, <3>4 DEF AnswerOf, EffectOfCall, Awaited
  <2> QED BY <1>0, <1>10, <2>2, <2>3 DEF Apply, Respond
<1>11. ASSUME NEW c \in Callers, Progress(c) PROVE AnswerOf(d)'
  <2>1. ASSUME Refused(c) PROVE AnswerOf(d)'
    BY <1>3, <2>1 DEF Refused, Refusals, RaisedFor
  <2> QED
    BY <1>2, <1>3, <1>4, <1>5, <1>6, <1>7, <1>11, <2>1
       DEF Progress, SendOnClosed, TimedOut, ServerBusy, BadBody, Transient
<1> QED
  BY <1>1, <1>3, <1>4, <1>8, <1>9, <1>10, <1>11
     DEF Next, CallerStep, EngineStep, ConnectionLost, Cancel, Close, vars, Transient

-----------------------------------------------------------------------------
(* Keys.                                                                    *)

\* Every step keeps the client's keys accepted by the engine.
LEMMA KeyStep == IInv /\ [Next]_vars => KeyInv'
<1> SUFFICES ASSUME IInv, [Next]_vars PROVE KeyInv'
  OBVIOUS
<1>0. /\ call \in [Callers -> Calls] /\ pc \in [Callers -> Places]
      /\ reply \in [Callers -> Replies] /\ apiKey \in registered \cup {NoKey}
      /\ NoKey \notin registered
      /\ \A d \in Callers : KeyOf(d) /\ AnswerOf(d)
  BY ClientAssumption DEF IInv, TypeOK, AnswerInv, KeyInv
<1> SUFFICES ASSUME NEW d PROVE /\ apiKey' \in registered' \cup {NoKey}
                                /\ d \in Callers => KeyOf(d)'
  BY DEF KeyInv
<1> DEFINE Goal == /\ apiKey' \in registered' \cup {NoKey}
                   /\ d \in Callers => KeyOf(d)'
<1>1. ASSUME NEW c \in Callers, NEW o \in Ops, Invoke(c, o) PROVE Goal
  BY <1>0, <1>1 DEF Invoke, KeyOf, AnswerOf, NoCall, Calls
<1>2. ASSUME NEW c \in Callers, Send(c) PROVE Goal
  BY <1>0, <1>2 DEF Send, KeyOf
<1>3. ASSUME NEW c \in Callers, NEW o, o # "auth", Finish(c, o),
             UNCHANGED <<apiKey, registered>>
      PROVE  Goal
  BY <1>0, <1>3 DEF Finish, KeyOf, NoReply, Calls
<1>4. ASSUME NEW c \in Callers, NEW f \in Transient, Fail(c, f), pc[c] = "wait" PROVE Goal
  BY <1>0, <1>4 DEF Fail, KeyOf, NoReply, Transient, Calls
<1>5. ASSUME NEW c \in Callers, Wake(c) PROVE Goal
  BY <1>0, <1>5 DEF Wake, KeyOf, Calls
<1>6. ASSUME NEW c \in Callers, Answered(c) PROVE Goal
  BY <1>0, <1>6 DEF Answered, KeyOf, NoReply, Calls
<1>7. ASSUME NEW c \in Callers, Adopt(c) PROVE Goal
  BY <1>0, <1>7 DEF Adopt, KeyOf, AnswerOf, Calls
<1>8. ASSUME UNCHANGED <<apiKey, pc, call, reply, registered>> PROVE Goal
  BY <1>0, <1>8 DEF KeyOf
<1>9. ASSUME NEW c \in Callers, Refused(c) PROVE Goal
  <2>1. CASE reply[c].status = "401"
    BY <1>0, <1>9, <2>1 DEF Refused, Finish, KeyOf, NoReply, Calls
  <2>2. CASE reply[c].status # "401"
    BY <1>3, <1>9, <2>2 DEF Refused, Refusals, RaisedFor
  <2> QED BY <2>1, <2>2
<1>10. ASSUME NEW m \in wire, NEW s \in Refusals \cup {"retryable"}, Reject(m, s)
       PROVE  Goal
  <2>1. Awaited(m) /\ s = "401" => call[m.caller].key = NoKey
    <3>1. m.n = call[m.caller].n => m.key = call[m.caller].key
      BY DEF IInv, SentInv, SentOf, Sent
    <3>2. m.caller \in Callers
      BY DEF IInv, TypeOK, Requests
    <3> QED BY <1>0, <1>10, <3>1, <3>2 DEF Reject, Authorized, Awaited, KeyOf
  <2> QED BY <1>0, <1>10, <2>1 DEF Reject, Respond, KeyOf
<1>11. ASSUME NEW m \in wire, NEW s \in {"2xx", "retryable", "5xx"}, NEW a \in AllAnswers,
              Apply(m, s, a)
       PROVE  Goal
  BY <1>0, <1>11 DEF Apply, Respond, KeyOf
<1>12. ASSUME NEW c \in Callers, Progress(c) PROVE Goal
  BY <1>2, <1>3, <1>4, <1>5, <1>6, <1>7, <1>9, <1>12
     DEF Progress, SendOnClosed, TimedOut, ServerBusy, BadBody, Transient
<1> QED
  BY <1>1, <1>3, <1>4, <1>8, <1>10, <1>11, <1>12
     DEF Next, CallerStep, EngineStep, ConnectionLost, Cancel, Close, vars, Transient

-----------------------------------------------------------------------------
(* The invariant and what follows from it.                                  *)

\* A new client, no call made, satisfies the invariant.
LEMMA InitInv == Init => IInv
<1> SUFFICES ASSUME Init PROVE IInv
  OBVIOUS
<1>1. TypeOK
  <2>1. NoCall \in Calls /\ NoReply \in Replies
    BY ClientAssumption DEF NoCall, Calls, NoReply, Replies, Outcomes, AllAnswers, Methods
  <2> QED BY <2>1 DEF Init, TypeOK, Places
<1>2. SentInv /\ WireInv /\ Distinct /\ StableHeaders
  BY DEF Init, SentInv, WireInv, Distinct, StableHeaders, Sent
<1>3. AnswerInv
  BY DEF Init, AnswerInv, AnswerOf, NoReply, NoCall
<1>4. KeyInv
  BY DEF Init, KeyInv, KeyOf, NoReply, NoCall
<1>5. RetryInv
  <2>1. ASSUME NEW c \in Callers
        PROVE  /\ pc[c] = "idle" /\ call[c].fates = <<>> /\ Len(call[c].fates) = 0
               /\ call[c].outcome = "none"
    BY DEF Init, NoCall
  <2>2. 0 <= Retries + 1 /\ 0 # Retries + 1
    BY ClientAssumption
  <2> QED BY <2>1, <2>2 DEF RetryInv, RetryOf
<1> QED BY <1>1, <1>2, <1>3, <1>4, <1>5 DEF IInv

\* The inductive invariant holds in every reachable state of a client, whatever
\* its callers, the engine and the network do.
THEOREM Invariant == Spec => []IInv
<1>1. Init => IInv
  BY InitInv
<1>2. IInv /\ [Next]_vars => IInv'
  BY TypeStep, SentStep, WireStep, DistinctStep, AnswerStep, KeyStep, RetryStep,
     HeadersStep DEF IInv
<1> QED BY <1>1, <1>2, PTL DEF Spec

\* Every variable keeps its type; self.api_key is only ever a key or unset.
THEOREM TypeCorrect == Spec => []TypeOK
<1>1. IInv => TypeOK
  BY DEF IInv
<1> QED BY <1>1, Invariant, PTL

\* Timeouts and transport errors surface only after retries + 1 failed attempts.
THEOREM RetriesComplete == Spec => []RetryDiscipline
<1>1. IInv => RetryDiscipline
  BY DEF IInv, RetryInv, RetryOf, RetryDiscipline
<1> QED BY <1>1, Invariant, PTL

\* A call that returns, returns the engine's answer to its own last attempt.
THEOREM AnswersGenuine == Spec => []AnswerIsOurs
<1>1. IInv => AnswerIsOurs
  <2> SUFFICES ASSUME IInv, NEW c \in Callers, call[c].outcome = "ok"
               PROVE  /\ EffectOfCall(c, call[c].answer) \in applied
                      /\ \A m \in Sent : m.caller = c /\ m.n = call[c].n
                                       => m.attempt <= call[c].attempt
    BY DEF AnswerIsOurs, EffectOfCall, Sent
  <2>1. EffectOfCall(c, call[c].answer) \in applied
    BY DEF IInv, AnswerInv, AnswerOf
  <2>2. \A m \in Sent : SentOf(m)
    BY DEF IInv, SentInv
  <2> QED BY <2>1, <2>2 DEF SentOf
<1> QED BY <1>1, Invariant, PTL

\* All the attempts of a call carry the same key.
THEOREM HeadersStable == Spec => []StableHeaders
<1>1. IInv => StableHeaders
  BY DEF IInv
<1> QED BY <1>1, Invariant, PTL

\* After its own successful create_sandbox_key() a caller gets no 401.
THEOREM MintedKeyAccepted == Spec => []NoAuthErrorAfterMint
<1>1. IInv => NoAuthErrorAfterMint
  BY DEF IInv, KeyInv, KeyOf, NoAuthErrorAfterMint
<1> QED BY <1>1, Invariant, PTL

\* No step replaces an accepted api_key by one that is not.
THEOREM KeysKept == Spec => KeyNeverLost
<1>1. IInv /\ IInv' /\ [Next]_vars
        => ((apiKey \in registered) => (apiKey' \in (registered')))
  <2> SUFFICES ASSUME IInv, [Next]_vars, apiKey \in registered
               PROVE  apiKey' \in (registered')
    OBVIOUS
  <2>1. ASSUME NEW c \in Callers, Adopt(c) PROVE apiKey' \in (registered')
    BY <2>1 DEF IInv, AnswerInv, AnswerOf, Adopt
  <2>2. CASE UNCHANGED <<apiKey, registered>>
    BY <2>2
  <2>3. CASE EngineStep
    <3>1. apiKey' = apiKey /\ registered \subseteq registered'
      BY <2>3 DEF EngineStep, Reject, Apply, Respond
    <3> QED BY <3>1
  <2> QED
    BY <2>1, <2>2, <2>3, Zenon
       DEF Next, CallerStep, Progress, Invoke, Send, SendOnClosed, TimedOut, ServerBusy,
           ConnectionLost, Cancel, Fail, Wake, Refused, BadBody, Answered, Close, vars
<1> QED BY <1>1, Invariant, PTL DEF KeyNeverLost, Spec

-----------------------------------------------------------------------------
(* Refinement: every step of the client, the engine and the network is a    *)
(* step of CallContract or changes nothing the contract speaks of.          *)

\* A step that changes none of what the contract speaks of.
LEMMA Stutter ==
  ASSUME applied' = applied,
         \A d \in Callers : /\ PhaseOf(pc'[d]) = PhaseOf(pc[d])
                           /\ call'[d].n = call[d].n
                           /\ ResultOf(call'[d]) = ResultOf(call[d])
  PROVE  UNCHANGED Contract!contractVars
BY DEF Contract!contractVars, phaseBar, roundBar, resultBar, effectsBar

\* A step of c that changes only its own phase and result.
LEMMA OneCaller ==
  ASSUME NEW c \in Callers, applied' = applied, call \in [Callers -> Calls],
         NEW k, NEW p, call' = [call EXCEPT ![c] = k], pc' = [pc EXCEPT ![c] = p],
         pc \in [Callers -> Places], k.n = call[c].n
  PROVE  /\ phaseBar' = [phaseBar EXCEPT ![c] = PhaseOf(p)]
         /\ resultBar' = [resultBar EXCEPT ![c] = ResultOf(k)]
         /\ UNCHANGED <<roundBar, effectsBar>>
BY DEF phaseBar, resultBar, roundBar, effectsBar

\* The initial states of the client are initial states of the contract.
LEMMA InitRefines == Init => Contract!Init
BY DEF Init, Contract!Init, phaseBar, roundBar, resultBar, effectsBar, PhaseOf,
       ResultOf, NoCall

\* Every step of the client is a step of the contract or a stutter.
LEMMA StepRefines ==
  IInv /\ [Next]_vars => [Contract!Next]_(Contract!contractVars)
<1> SUFFICES ASSUME IInv, [Next]_vars
             PROVE  Contract!Next \/ UNCHANGED Contract!contractVars
  OBVIOUS
<1> DEFINE Goal == Contract!Next \/ UNCHANGED Contract!contractVars
<1>0. /\ call \in [Callers -> Calls] /\ pc \in [Callers -> Places]
      /\ applied \subseteq EffectRecords /\ wire \subseteq Requests
      /\ \A c \in Callers : call[c] \in Calls /\ RetryOf(c) /\ AnswerOf(c)
  BY DEF IInv, TypeOK, RetryInv, AnswerInv
<1>1. ASSUME NEW c \in Callers, NEW o \in Ops, Invoke(c, o) PROVE Goal
  <2>1. /\ phaseBar[c] = "idle" /\ roundBar[c] < MaxCalls
        /\ phaseBar' = [phaseBar EXCEPT ![c] = "open"]
        /\ roundBar' = [roundBar EXCEPT ![c] = @ + 1]
        /\ resultBar' = [resultBar EXCEPT ![c] = [kind |-> "none"]]
        /\ UNCHANGED effectsBar
    BY <1>0, <1>1 DEF Invoke, phaseBar, roundBar, resultBar, effectsBar, PhaseOf,
                      ResultOf, NoCall, Calls
  <2>2. Contract!Begin(c)
    BY <2>1 DEF Contract!Begin
  <2> QED BY <2>2 DEF Contract!Next
<1>2. ASSUME NEW c \in Callers, Send(c) PROVE Goal
  <2>1. \A d \in Callers : PhaseOf(pc'[d]) = PhaseOf(pc[d])
    BY <1>0, <1>2 DEF Send, PhaseOf
  <2> QED BY <1>2, <2>1, Stutter DEF Send
<1>3. ASSUME NEW c \in Callers, NEW k, k.n = call[c].n,
             k.outcome \notin {"none", "ok"}, pc[c] \notin {"idle", "done"},
             call' = [call EXCEPT ![c] = k], pc' = [pc EXCEPT ![c] = "done"],
             applied' = applied
      PROVE  Goal
  <2>1. phaseBar[c] = "open"
    BY <1>3 DEF phaseBar, PhaseOf
  <2>2. /\ phaseBar' = [phaseBar EXCEPT ![c] = "idle"]
        /\ resultBar' = [resultBar EXCEPT ![c] = [kind |-> "error"]]
        /\ UNCHANGED <<roundBar, effectsBar>>
    BY <1>0, <1>3, OneCaller DEF PhaseOf, ResultOf
  <2>3. Contract!Raise(c)
    BY <2>1, <2>2 DEF Contract!Raise
  <2> QED BY <2>3 DEF Contract!Next, Contract!CallReturns
<1>4. ASSUME NEW c \in Callers, NEW k, k.n = call[c].n, k.outcome = "ok",
             EffectOfCall(c, k.answer) \in applied, pc[c] \notin {"idle", "done"},
             call' = [call EXCEPT ![c] = k], pc' = [pc EXCEPT ![c] = "done"],
             applied' = applied
      PROVE  Goal
  <2> DEFINE e == EffectOf(EffectOfCall(c, k.answer))
  <2>1. phaseBar[c] = "open" /\ roundBar[c] = call[c].n
    BY <1>4 DEF phaseBar, PhaseOf, roundBar
  <2>2. /\ phaseBar' = [phaseBar EXCEPT ![c] = "idle"]
        /\ resultBar' = [resultBar EXCEPT ![c] = [kind |-> "ok", answer |-> k.answer]]
        /\ UNCHANGED <<roundBar, effectsBar>>
    BY <1>0, <1>4, OneCaller DEF PhaseOf, ResultOf
  <2>3. e \in effectsBar
    BY <1>4 DEF effectsBar
  <2>4. Contract!ReturnAnswer(c, e)
    BY <2>1, <2>2 DEF Contract!ReturnAnswer, EffectOf, EffectOfCall
  <2> QED BY <2>3, <2>4 DEF Contract!Next, Contract!CallReturns
<1>5. ASSUME NEW c \in Callers, NEW o \in Outcomes \ {"none", "ok"}, Finish(c, o),
             pc[c] \notin {"idle", "done"}, applied' = applied
      PROVE  Goal
  <2> DEFINE k == [call[c] EXCEPT !.outcome = o]
  <2>1. k.n = call[c].n /\ k.outcome = o
    BY <1>0 DEF Calls
  <2>2. call' = [call EXCEPT ![c] = k] /\ pc' = [pc EXCEPT ![c] = "done"]
    BY <1>5 DEF Finish
  <2> HIDE DEF k
  <2> QED BY <1>3, <1>5, <2>1, <2>2
<1>6. ASSUME NEW c \in Callers, NEW f \in Transient, Fail(c, f), pc[c] = "wait" PROVE Goal
  <2>1. CASE call[c].attempt < Retries
    <3>1. \A d \in Callers : /\ PhaseOf(pc'[d]) = PhaseOf(pc[d])
                            /\ call'[d].n = call[d].n
                            /\ ResultOf(call'[d]) = ResultOf(call[d])
      BY <1>0, <1>6, <2>1 DEF Fail, PhaseOf, ResultOf, Calls
    <3> QED BY <1>6, <3>1, Stutter DEF Fail
  <2>2. CASE ~(call[c].attempt < Retries)
    <3> DEFINE k == [call[c] EXCEPT !.fates = Append(@, f), !.outcome = f]
    <3>1. /\ call' = [call EXCEPT ![c] = k] /\ pc' = [pc EXCEPT ![c] = "done"]
          /\ applied' = applied
      BY <1>0, <1>6, <2>2 DEF Fail, Calls
    <3>2. k.n = call[c].n /\ k.outcome = f
      BY <1>0 DEF Calls
    <3> HIDE DEF k
    <3> QED BY <1>3, <1>6, <3>1, <3>2 DEF Transient
  <2> QED BY <2>1, <2>2
<1>7. ASSUME NEW c \in Callers, Wake(c) PROVE Goal
  <2>1. \A d \in Callers : /\ PhaseOf(pc'[d]) = PhaseOf(pc[d])
                          /\ call'[d].n = call[d].n
                          /\ ResultOf(call'[d]) = ResultOf(call[d])
    BY <1>0, <1>7 DEF Wake, PhaseOf, ResultOf, Calls
  <2> QED BY <1>7, <2>1, Stutter DEF Wake
<1>8. ASSUME NEW c \in Callers, Answered(c) PROVE Goal
  <2>1. CASE WritesKey(c)
    <3>1. \A d \in Callers : /\ PhaseOf(pc'[d]) = PhaseOf(pc[d])
                            /\ call'[d].n = call[d].n
                            /\ ResultOf(call'[d]) = ResultOf(call[d])
      BY <1>0, <1>8, <2>1 DEF Answered, PhaseOf, ResultOf, Calls, RetryOf
    <3> QED BY <1>8, <3>1, Stutter DEF Answered
  <2>2. CASE ~WritesKey(c)
    <3> DEFINE k == [call[c] EXCEPT !.answer = reply[c].answer, !.outcome = "ok"]
    <3>1. k.n = call[c].n /\ k.outcome = "ok" /\ k.answer = reply[c].answer
      BY <1>0 DEF Calls
    <3>2. /\ call' = [call EXCEPT ![c] = k] /\ pc' = [pc EXCEPT ![c] = "done"]
          /\ applied' = applied
      BY <1>0, <1>8, <2>2 DEF Answered, Calls
    <3>3. EffectOfCall(c, reply[c].answer) \in applied /\ pc[c] = "wait"
      BY <1>0, <1>8 DEF Answered, AnswerOf
    <3> HIDE DEF k
    <3> QED BY <1>4, <3>1, <3>2, <3>3
  <2> QED BY <2>1, <2>2
<1>9. ASSUME NEW c \in Callers, Adopt(c) PROVE Goal
  <2> DEFINE k == [call[c] EXCEPT !.own = call[c].answer, !.outcome = "ok"]
  <2>1. k.n = call[c].n /\ k.outcome = "ok" /\ k.answer = call[c].answer
    BY <1>0 DEF Calls
  <2>2. /\ call' = [call EXCEPT ![c] = k] /\ pc' = [pc EXCEPT ![c] = "done"]
        /\ applied' = applied
    BY <1>0, <1>9 DEF Adopt, Calls
  <2>3. EffectOfCall(c, call[c].answer) \in applied /\ pc[c] = "adopt"
    BY <1>0, <1>9 DEF Adopt, AnswerOf
  <2> HIDE DEF k
  <2> QED BY <1>4, <2>1, <2>2, <2>3
<1>10. ASSUME UNCHANGED <<pc, call, applied>> PROVE Goal
  BY <1>10, Stutter
<1>11. ASSUME NEW m \in wire, NEW s, NEW a \in AllAnswers, Apply(m, s, a) PROVE Goal
  <2> DEFINE e == [caller |-> m.caller, n |-> m.n, key |-> m.key,
                   attempt |-> m.attempt, answer |-> a]
  <2>1. /\ m.caller \in Callers /\ m.n \in 1 .. MaxCalls /\ m.attempt \in 0 .. Retries
        /\ m.n <= call[m.caller].n
    BY <1>0 DEF Requests, IInv, SentInv, SentOf, Sent
  <2>2. /\ phaseBar' = phaseBar /\ roundBar' = roundBar /\ resultBar' = resultBar
        /\ effectsBar' = effectsBar \cup {EffectOf(e)}
    BY <1>11 DEF Apply, Respond, phaseBar, roundBar, resultBar, effectsBar
  <2>3. \A x \in effectsBar :
          <<x.caller, x.round, x.attempt>> # <<m.caller, m.n, m.attempt>>
    <3>0. m \in Requests /\ \A y \in applied : y \in EffectRecords
      BY <1>0
    <3>1. ASSUME NEW y \in applied PROVE y # m
      <4>1. "answer" \notin DOMAIN m
        BY <3>0 DEF Requests
      <4>2. "answer" \in DOMAIN y
        BY <3>0 DEF EffectRecords
      <4> QED BY <4>1, <4>2
    <3>2. \A y \in applied : ~SameAttempt(m, y)
      BY <1>0, <3>1 DEF IInv, Distinct, Sent
    <3>3. \A y \in applied :
            <<y.caller, y.n, y.attempt>> # <<m.caller, m.n, m.attempt>>
      BY <3>2 DEF SameAttempt
    <3> QED BY <3>3 DEF effectsBar, EffectOf
  <2>4. m.n \in 1 .. roundBar[m.caller]
    BY <1>0, <2>1, ClientAssumption DEF roundBar, Calls
  <2>5. Contract!Act(m.caller, m.n, m.attempt, a)
    BY <2>2, <2>3, <2>4 DEF Contract!Act, EffectOf
  <2> QED BY <2>1, <2>5, ClientAssumption DEF Contract!Next, Contract!EngineActs
<1>12. ASSUME NEW c \in Callers, Progress(c) PROVE Goal
  <2>1. ASSUME Refused(c) PROVE Goal
    BY <1>5, <2>1 DEF Refused, Refusals, RaisedFor, Outcomes, Transient
  <2> QED
    BY <1>2, <1>5, <1>6, <1>7, <1>8, <1>9, <1>12, <2>1
       DEF Progress, SendOnClosed, TimedOut, ServerBusy, BadBody, Outcomes, Transient
<1> QED
  BY <1>1, <1>5, <1>6, <1>10, <1>11, <1>12
     DEF Next, CallerStep, EngineStep, ConnectionLost, Cancel, Close, Reject, Respond,
         vars, Outcomes, Transient

\* The client implements the at-least-once contract, for every number of
\* callers, calls, keys and retries.
THEOREM ClientImplementsContract == Spec => ImplementsContract
BY InitRefines, StepRefines, Invariant, PTL DEF Spec, ImplementsContract, Contract!Spec
=============================================================================
