----------------------------- MODULE ClientCalls -----------------------------
(***************************************************************************)
(* QuesenClient and AsyncQuesenClient (quesen_sdk/client.py): the endpoint *)
(* methods, the retry loop _request they share, the api_key attribute that *)
(* create_sandbox_key writes and every call reads, close(), and an         *)
(* unreliable path to the engine.                                          *)
(*                                                                         *)
(* Callers are the threads (sync client) or tasks (async client) that      *)
(* share ONE client object.  A step of a caller is the code between two    *)
(* points at which another caller can be seen: the read of self.api_key,   *)
(* the send, the arrival of the response, the sleep, the write of          *)
(* self.api_key.                                                           *)
(***************************************************************************)
EXTENDS Naturals, Sequences

CONSTANTS
  Callers,      \* threads or tasks sharing the client
  Ops,          \* endpoint methods the callers use
  Keys,         \* API keys the engine can mint (bounds the mints)
  NoKey,        \* no key, or one the engine does not know
  Verdicts,     \* decisions of /validate, /tsc/validate, /simulate
  Retries,      \* self.retries
  MaxCalls,     \* bound: calls one caller makes
  Cancellable   \* TRUE for the async client: a task can be cancelled

\* One representative per group of endpoint methods: "probe" for health() and
\* version(), "decide" for the calls that return a decision, "report" for
\* report(), "mint" for create_sandbox_key(), "mintOnly" for
\* create_sandbox_key(set_on_client=False).
Methods == {"probe", "decide", "report", "mint", "mintOnly"}
Minting == {"mint", "mintOnly"}
Keyless == {"probe"} \cup Minting      \* the engine asks for no key here

Garbled == "garbled"       \* a 2xx body that json() or from_dict() rejects
Plain == "plain"           \* the body of a successful probe or report
AllAnswers == Verdicts \cup Keys \cup {NoKey, Garbled, Plain}

ASSUME ClientAssumption ==
  /\ Ops \subseteq Methods
  /\ Retries \in Nat
  /\ MaxCalls \in Nat
  /\ Cancellable \in BOOLEAN
  /\ NoKey \notin Keys

VARIABLES
  apiKey,       \* self.api_key
  closed,       \* the httpx client was closed
  pc,           \* pc[c]: where caller c is in its call
  call,         \* call[c]: locals of the latest call of c
  wire,         \* requests sent that the engine has not handled
  reply,        \* reply[c]: the response c has received and not yet read
  registered,   \* keys the engine accepts
  applied       \* requests whose handler took effect, with their answer

vars == <<apiKey, closed, pc, call, wire, reply, registered, applied>>

Transient == {"timeout", "transport", "server"}   \* what last_exc can hold
\* _RETRYABLE_STATUSES is "retryable"; "5xx" is every other server error,
\* "other" every status that _raise_for_status calls unexpected.
RaisedFor == [s \in {"401", "422", "429", "5xx", "other"} |->
                CASE s = "401" -> "auth"
                  [] s = "422" -> "validation"
                  [] s = "429" -> "ratelimit"
                  [] s = "5xx" -> "server"
                  [] s = "other" -> "unexpected"]
Refusals == DOMAIN RaisedFor
Statuses == Refusals \cup {"2xx", "retryable"}

Outcomes == Transient \cup {"none", "ok", "auth", "validation", "ratelimit",
              "unexpected", "malformed", "closed", "cancelled"}
NoReply == [status |-> "none", answer |-> Plain]
NoCall == [n |-> 0, op |-> "probe", key |-> NoKey, attempt |-> 0,
           fates |-> <<>>, outcome |-> "none", answer |-> Plain, own |-> NoKey]

Init ==
  /\ \E k \in Keys \cup {NoKey} : apiKey = k /\ registered = {k} \ {NoKey}
  /\ closed = FALSE
  /\ pc = [c \in Callers |-> "idle"]
  /\ call = [c \in Callers |-> NoCall]
  /\ wire = {}
  /\ reply = [c \in Callers |-> NoReply]
  /\ applied = {}

-----------------------------------------------------------------------------
(* The callers.  The request id and the headers, X-API-Key among them, are  *)
(* made once, before the first attempt.                                     *)

Invoke(c, o) ==
  /\ pc[c] \in {"idle", "done"}
  /\ call[c].n < MaxCalls
  /\ pc' = [pc EXCEPT ![c] = "send"]
  /\ call' = [call EXCEPT ![c] =
       [NoCall EXCEPT !.n = call[c].n + 1, !.op = o, !.key = apiKey,
                      !.own = call[c].own]]
  /\ UNCHANGED <<apiKey, closed, wire, reply, registered, applied>>

Finish(c, outcome) ==
  /\ pc' = [pc EXCEPT ![c] = "done"]
  /\ call' = [call EXCEPT ![c].outcome = outcome]
  /\ reply' = [reply EXCEPT ![c] = NoReply]

Request(c) == [caller |-> c, n |-> call[c].n, attempt |-> call[c].attempt,
               op |-> call[c].op, key |-> call[c].key]

Send(c) ==
  /\ pc[c] = "send"
  /\ ~closed
  /\ pc' = [pc EXCEPT ![c] = "wait"]
  /\ wire' = wire \cup {Request(c)}
  /\ UNCHANGED <<apiKey, closed, call, reply, registered, applied>>

\* httpx raises RuntimeError, which the loop does not catch.
SendOnClosed(c) ==
  /\ pc[c] = "send"
  /\ closed
  /\ Finish(c, "closed")
  /\ UNCHANGED <<apiKey, closed, wire, registered, applied>>

\* Mutants: the loop runs once more, or gives up one attempt early.
FailOneMore(c, fate) ==
  LET more == call[c].attempt <= Retries IN
  /\ pc' = [pc EXCEPT ![c] = IF more THEN "backoff" ELSE "done"]
  /\ call' = [call EXCEPT ![c].fates = Append(@, fate),
                           ![c].outcome = IF more THEN @ ELSE fate]
  /\ reply' = [reply EXCEPT ![c] = NoReply]
  /\ UNCHANGED <<apiKey, closed, wire, registered, applied>>

FailEarly(c, fate) ==
  LET more == call[c].attempt + 1 < Retries IN
  /\ pc' = [pc EXCEPT ![c] = IF more THEN "backoff" ELSE "done"]
  /\ call' = [call EXCEPT ![c].fates = Append(@, fate),
                           ![c].outcome = IF more THEN @ ELSE fate]
  /\ reply' = [reply EXCEPT ![c] = NoReply]
  /\ UNCHANGED <<apiKey, closed, wire, registered, applied>>

\* An attempt has failed with a retryable fate: sleep and try again, or raise
\* last_exc after the last attempt.
Fail(c, fate) ==
  LET more == call[c].attempt < Retries IN
  /\ pc' = [pc EXCEPT ![c] = IF more THEN "backoff" ELSE "done"]
  /\ call' = [call EXCEPT ![c].fates = Append(@, fate),
                           ![c].outcome = IF more THEN @ ELSE fate]
  /\ reply' = [reply EXCEPT ![c] = NoReply]
  /\ UNCHANGED <<apiKey, closed, wire, registered, applied>>

\* Mutant: httpx is given no timeout.
TimedOutNever(c) ==
  /\ pc[c] = "gone"
  /\ Fail(c, "timeout")

TimedOut(c) ==
  /\ pc[c] = "wait"
  /\ reply[c].status = "none"
  /\ Fail(c, "timeout")

ConnectionLost(c) ==
  /\ pc[c] = "wait"
  /\ reply[c].status = "none"
  /\ Fail(c, "transport")

ServerBusy(c) ==
  /\ pc[c] = "wait"
  /\ reply[c].status = "retryable"
  /\ Fail(c, "server")

\* Mutants: the headers are rebuilt for every attempt; the attempt counter is
\* not advanced.
WakeNewHeaders(c) ==
  /\ pc[c] = "backoff"
  /\ pc' = [pc EXCEPT ![c] = "send"]
  /\ call' = [call EXCEPT ![c].attempt = @ + 1, ![c].key = apiKey]
  /\ UNCHANGED <<apiKey, closed, wire, reply, registered, applied>>

WakeSameAttempt(c) ==
  /\ pc[c] = "backoff"
  /\ pc' = [pc EXCEPT ![c] = "send"]
  /\ UNCHANGED <<apiKey, closed, call, wire, reply, registered, applied>>

Wake(c) ==
  /\ pc[c] = "backoff"
  /\ pc' = [pc EXCEPT ![c] = "send"]
  /\ call' = [call EXCEPT ![c].attempt = @ + 1]
  /\ UNCHANGED <<apiKey, closed, wire, reply, registered, applied>>

Refused(c) ==
  /\ pc[c] = "wait"
  /\ reply[c].status \in Refusals
  /\ Finish(c, RaisedFor[reply[c].status])
  /\ UNCHANGED <<apiKey, closed, wire, registered, applied>>

\* Mutant: a body that cannot be read is swallowed and a blank one returned.
BadBodySwallowed(c) ==
  /\ pc[c] = "wait"
  /\ reply[c].status = "2xx"
  /\ reply[c].answer = Garbled
  /\ Finish(c, "ok")
  /\ UNCHANGED <<apiKey, closed, wire, registered, applied>>

BadBody(c) ==
  /\ pc[c] = "wait"
  /\ reply[c].status = "2xx"
  /\ reply[c].answer = Garbled
  /\ Finish(c, "malformed")
  /\ UNCHANGED <<apiKey, closed, wire, registered, applied>>

\* Mutant: `if set_on_client`, whatever the response holds.
WritesAnyKey(c) == call[c].op = "mint"

\* `if set_on_client and key`: does the method still have self.api_key to write?
WritesKey(c) == call[c].op = "mint" /\ reply[c].answer # NoKey

\* The response is read; a mint writes self.api_key in a later step.
Answered(c) ==
  /\ pc[c] = "wait"
  /\ reply[c].status = "2xx"
  /\ reply[c].answer # Garbled
  /\ pc' = [pc EXCEPT ![c] = IF WritesKey(c) THEN "adopt" ELSE "done"]
  /\ call' = [call EXCEPT ![c].answer = reply[c].answer,
                           ![c].outcome = IF WritesKey(c) THEN @ ELSE "ok"]
  /\ reply' = [reply EXCEPT ![c] = NoReply]
  /\ UNCHANGED <<apiKey, closed, wire, registered, applied>>

\* Mutant: the minted key is returned but not configured on the client.
AdoptNothing(c) ==
  /\ pc[c] = "adopt"
  /\ pc' = [pc EXCEPT ![c] = "done"]
  /\ call' = [call EXCEPT ![c].own = call[c].answer, ![c].outcome = "ok"]
  /\ UNCHANGED <<apiKey, closed, wire, reply, registered, applied>>

Adopt(c) ==
  /\ pc[c] = "adopt"
  /\ apiKey' = call[c].answer
  /\ pc' = [pc EXCEPT ![c] = "done"]
  /\ call' = [call EXCEPT ![c].own = call[c].answer, ![c].outcome = "ok"]
  /\ UNCHANGED <<closed, wire, reply, registered, applied>>

\* CancelledError surfaces at either await; the request stays on its way.
Cancel(c) ==
  /\ Cancellable
  /\ pc[c] \in {"wait", "backoff"}
  /\ Finish(c, "cancelled")
  /\ UNCHANGED <<apiKey, closed, wire, registered, applied>>

Close ==
  /\ ~closed
  /\ closed' = TRUE
  /\ UNCHANGED <<apiKey, pc, call, wire, reply, registered, applied>>

-----------------------------------------------------------------------------
(* The engine and the network, neither of which is in this repository.  A   *)
(* request may be handled late, after its attempt timed out, or never; its  *)
(* response reaches the caller only while that attempt waits for it.        *)

Awaited(m) == /\ pc[m.caller] = "wait"
              /\ call[m.caller].n = m.n
              /\ call[m.caller].attempt = m.attempt

Respond(m, s, a) ==
  /\ wire' = wire \ {m}
  /\ reply' = IF Awaited(m)
                THEN [reply EXCEPT ![m.caller] = [status |-> s, answer |-> a]]
                ELSE reply
  /\ UNCHANGED <<apiKey, closed, pc, call>>

Authorized(m) == m.op \in Keyless \/ m.key \in registered

\* Refused, or failed before the handler took effect.
Reject(m, s) ==
  /\ Authorized(m) => s # "401"
  /\ Respond(m, s, Plain)
  /\ UNCHANGED <<registered, applied>>

Answers(op) == CASE op \in Minting -> (Keys \ registered) \cup {NoKey, Garbled}
                 [] op = "decide" -> Verdicts \cup {Garbled}
                 [] OTHER -> {Plain, Garbled}

\* The handler took effect.  Any other status than 2xx: something failed after that.
Apply(m, s, a) ==
  /\ Authorized(m)
  /\ a \in Answers(m.op)
  /\ applied' = applied \cup {[caller |-> m.caller, n |-> m.n, key |-> m.key,
                               attempt |-> m.attempt, answer |-> a]}
  /\ registered' = registered \cup ({a} \cap Keys)
  /\ Respond(m, s, a)

-----------------------------------------------------------------------------
\* What a caller does by itself: the network always ends in a response, an
\* error or the httpx timeout, and the sleep between attempts is finite.
Progress(c) == \/ Send(c) \/ SendOnClosed(c) \/ TimedOut(c) \/ ServerBusy(c)
               \/ Wake(c) \/ Refused(c) \/ BadBody(c) \/ Answered(c) \/ Adopt(c)

CallerStep(c) == \/ \E o \in Ops : Invoke(c, o)
                 \/ Progress(c)
                 \/ ConnectionLost(c)
                 \/ Cancel(c)

EngineStep == \E m \in wire :
  \/ \E s \in Refusals \cup {"retryable"} : Reject(m, s)
  \/ \E s \in {"2xx", "retryable", "5xx"}, a \in AllAnswers : Apply(m, s, a)

Next == \/ \E c \in Callers : CallerStep(c)
        \/ Close
        \/ EngineStep

Spec == Init /\ [][Next]_vars
FairSpec == Spec /\ \A c \in Callers : WF_vars(Progress(c))

-----------------------------------------------------------------------------
Requests == [caller : Callers, n : 1 .. MaxCalls, attempt : 0 .. Retries,
             op : Methods, key : Keys \cup {NoKey}]
EffectRecords == [caller : Callers, n : 1 .. MaxCalls, attempt : 0 .. Retries,
                  key : Keys \cup {NoKey}, answer : AllAnswers]
Calls == [n : 0 .. MaxCalls, op : Methods, key : Keys \cup {NoKey},
          attempt : 0 .. Retries, fates : Seq(Transient), outcome : Outcomes,
          answer : AllAnswers, own : Keys \cup {NoKey}]

Places == {"idle", "send", "wait", "backoff", "adopt", "done"}
Replies == [status : Statuses \cup {"none"}, answer : AllAnswers]

\* Every variable stays in its type; in particular self.api_key is never a
\* value that is not a key, and the attempt number never passes self.retries.
TypeOK ==
  /\ apiKey \in Keys \cup {NoKey}
  /\ closed \in BOOLEAN
  /\ pc \in [Callers -> Places]
  /\ call \in [Callers -> Calls]
  /\ wire \subseteq Requests
  /\ reply \in [Callers -> Replies]
  /\ registered \subseteq Keys
  /\ applied \subseteq EffectRecords

\* A call raises QuesenTimeout or QuesenTransportError only when every one of
\* its retries + 1 attempts failed, and then raises the failure of the LAST
\* attempt; a call that used up its attempts never returns anything else.
RetryDiscipline == \A c \in Callers :
  LET fates == call[c].fates IN
  /\ Len(fates) <= Retries + 1
  /\ call[c].outcome \in {"timeout", "transport"} => Len(fates) = Retries + 1
  /\ Len(fates) = Retries + 1 =>
        pc[c] = "done" /\ call[c].outcome = fates[Retries + 1]

\* A call that returns normally returns what the engine answered to this very
\* call and to its last attempt, whatever late handling of earlier attempts,
\* earlier calls and other callers' calls goes on, and no attempt follows it.
AnswerIsOurs == \A c \in Callers : call[c].outcome = "ok" =>
  /\ [caller |-> c, n |-> call[c].n, key |-> call[c].key,
      attempt |-> call[c].attempt, answer |-> call[c].answer] \in applied
  /\ \A m \in wire \cup applied : m.caller = c /\ m.n = call[c].n
                                  => m.attempt <= call[c].attempt

\* Every attempt of one call carries the same key, even when another caller
\* writes self.api_key between the attempts: the engine can attribute all the
\* effects of a call to one account.
StableHeaders == \A m1, m2 \in wire \cup applied :
  m1.caller = m2.caller /\ m1.n = m2.n => m1.key = m2.key

\* A client whose api_key the engine accepts never trades it for one the
\* engine does not accept.
KeyNeverLost == [][(apiKey \in registered) => (apiKey' \in (registered'))]_vars

\* Once create_sandbox_key() has returned a key to a caller, that caller's
\* later calls never raise QuesenAuthError ("works -- no 401"), whatever the
\* other callers of the client do.
NoAuthErrorAfterMint == \A c \in Callers :
  call[c].own # NoKey => call[c].outcome # "auth"

\* Every call ends, whatever the engine and the network do: each attempt ends
\* in a response, an error or the timeout, and there are finitely many.
CallsReturn == \A c \in Callers : pc[c] = "send" ~> pc[c] = "done"

-----------------------------------------------------------------------------
(* What the client promises: an at-least-once call.                         *)

PhaseOf(p) == IF p \in {"idle", "done"} THEN "idle" ELSE "open"

ResultOf(k) == IF k.outcome = "none" THEN [kind |-> "none"]
               ELSE IF k.outcome = "ok" THEN [kind |-> "ok", answer |-> k.answer]
               ELSE [kind |-> "error"]

EffectOf(e) == [caller |-> e.caller, round |-> e.n, attempt |-> e.attempt,
                answer |-> e.answer]

phaseBar == [c \in Callers |-> PhaseOf(pc[c])]
roundBar == [c \in Callers |-> call[c].n]
resultBar == [c \in Callers |-> ResultOf(call[c])]
effectsBar == {EffectOf(e) : e \in applied}

Contract == INSTANCE CallContract WITH
  MaxAttempts <- Retries + 1, phase <- phaseBar, round <- roundBar,
  result <- resultBar, effects <- effectsBar

\* The client implements the at-least-once contract: at most retries + 1
\* effects per call, possibly after it returned, and no foreign answer.
ImplementsContract == Contract!Spec

-----------------------------------------------------------------------------
(* What the documentation says.                                             *)

\* errors.py: QuesenServerError is "HTTP 5xx after retries exhausted".
ServerErrorMeansExhausted == \A c \in Callers :
  call[c].outcome = "server" => Len(call[c].fates) = Retries + 1
=============================================================================
