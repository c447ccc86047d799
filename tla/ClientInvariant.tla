-------------------------- MODULE ClientInvariant ---------------------------
(***************************************************************************)
(* The inductive invariant of ClientCalls from which its safety properties *)
(* follow.  ClientCallsProofs proves it; TLC checks it first.              *)
(***************************************************************************)
EXTENDS ClientCalls

Sent == wire \cup applied        \* every attempt that has left the client
SameAttempt(m1, m2) == /\ m1.caller = m2.caller
                       /\ m1.n = m2.n
                       /\ m1.attempt = m2.attempt

\* What has been sent for the current call of a caller matches its locals, and
\* the attempt a caller is about to send has not been sent.
SentOf(m) ==
  LET k == call[m.caller] IN
  /\ m.n <= k.n
  /\ m.n = k.n =>
       /\ m.key = k.key
       /\ m.attempt <= k.attempt
       /\ m.attempt = k.attempt => pc[m.caller] # "send"
SentInv == \A m \in Sent : SentOf(m)

OpOf(m) == m.n = call[m.caller].n => m.op = call[m.caller].op
WireInv == \A m \in wire : OpOf(m)

\* The engine handles an attempt at most once.
Distinct == \A m1 \in wire, m2 \in Sent : SameAttempt(m1, m2) => m1 = m2

EffectOfCall(c, a) == [caller |-> c, n |-> call[c].n, key |-> call[c].key,
                       attempt |-> call[c].attempt, answer |-> a]

\* An answer on its way to the caller, or with it, was given to this attempt,
\* and a key in it is one the engine accepts.
AnswerOf(c) ==
  /\ reply[c].status # "none" => pc[c] = "wait"
  /\ reply[c].status = "2xx" =>
       /\ EffectOfCall(c, reply[c].answer) \in applied
       /\ call[c].op \in Minting =>
            reply[c].answer \in registered \cup {NoKey, Garbled}
  /\ pc[c] = "adopt" \/ call[c].outcome = "ok" =>
       EffectOfCall(c, call[c].answer) \in applied
  /\ pc[c] = "adopt" => call[c].answer \in registered
AnswerInv == \A c \in Callers : AnswerOf(c)

\* Keys the client holds are keys the engine accepts, and a caller whose mint
\* succeeded makes its later calls with such a key.
KeyOf(c) ==
  /\ call[c].key \in registered \cup {NoKey}
  /\ call[c].own # NoKey =>
       /\ apiKey \in registered
       /\ pc[c] \in {"send", "wait", "backoff"} => call[c].key \in registered
       /\ call[c].outcome # "auth"
  /\ reply[c].status = "401" => call[c].key = NoKey
KeyInv == /\ apiKey \in registered \cup {NoKey}
          /\ \A c \in Callers : KeyOf(c)

\* One failure is recorded per attempt that ended without a verdict.
RetryOf(c) ==
  LET k == call[c]  fates == call[c].fates IN
  /\ IF pc[c] = "idle" THEN fates = <<>> ELSE k.n > 0
  /\ pc[c] \in {"send", "wait", "adopt"} => Len(fates) = k.attempt
  /\ pc[c] = "backoff" => Len(fates) = k.attempt + 1 /\ k.attempt < Retries
  /\ pc[c] # "done" => k.outcome = "none"
  /\ Len(fates) <= Retries + 1
  /\ k.outcome \in {"timeout", "transport"} => Len(fates) = Retries + 1
  /\ Len(fates) = Retries + 1 => pc[c] = "done" /\ k.outcome = fates[Retries + 1]
RetryInv == \A c \in Callers : RetryOf(c)

\* The inductive invariant: types, what was sent, what was answered, keys,
\* and the bookkeeping of the retry loop.
IInv == /\ TypeOK /\ SentInv /\ WireInv /\ Distinct /\ AnswerInv
        /\ KeyInv /\ RetryInv /\ StableHeaders
=============================================================================
