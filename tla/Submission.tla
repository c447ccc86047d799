----------------------------- MODULE Submission -----------------------------
(***************************************************************************)
(* An integrator describes an action or writes a TSC v2 context by hand,   *)
(* revises it, replays it offline (quesen_sdk/replay.py) and submits it    *)
(* through validate_tsc (quesen_sdk/client.py).  What is replayed and what *)
(* is sent come from the same context on two paths; the receipt that comes *)
(* back is later compared with the replay by the snapshot hash.            *)
(*                                                                         *)
(* A context comes in one of three forms: a dict, or an object whose       *)
(* to_dict() makes one (TscContext); "shared", an object whose to_dict()   *)
(* hands out the dict it keeps itself; "mapping", a Mapping that is no     *)
(* dict, which the client copies into one and replay refuses.              *)
(***************************************************************************)
EXTENDS ContextBuilders

CONSTANTS
  Bases,          \* contexts written by hand
  Descriptions,   \* keyword arguments of the firewall and of the builders
  MaxEdits,       \* how often a context is revised
  MaxSends        \* how often it is submitted

ASSUME SubmissionAssumption ==
  /\ \A raw \in Bases : RawContext(raw)
  /\ \A d \in Descriptions : d # None /\ IsDescription(d)

VARIABLES
  draft,          \* the context the integrator holds
  kw,             \* the description it was built from, None if there is none
  form,           \* what kind of object that is
  named,          \* whether the integrator gave it a client_request_id
  replayed,       \* what replay returns for it
  edits,          \* how often it was revised
  sent            \* the requests made so far

vars == <<draft, kw, form, named, replayed, edits, sent>>

Forms == {"dict", "shared", "mapping"}

\* replay: of the context's to_dict(), or of the context itself.
Replay(f, raw) == IF f = "mapping" THEN Refused("malformed", 1) ELSE Evaluate(raw)

Init ==
  /\ \/ \E raw \in Bases : draft = raw /\ kw = None
     \/ \E d \in Descriptions : draft = Build(d) /\ kw = d
  /\ form \in Forms /\ (kw # None => form = "dict")
  /\ named = (RequestId \in DOMAIN draft)
  /\ replayed = Replay(form, draft)
  /\ edits = 0
  /\ sent = <<>>

-----------------------------------------------------------------------------
\* The integrator revises what is at p: with it goes what was inside.
Without(raw, p) == Restrict(raw, DOMAIN raw \ ({p} \cup Inside(p)))
With(raw, p, x) ==
  LET kept == IF p \in Objects /\ IsGood(x) THEN raw ELSE Without(raw, p) IN
  [q \in DOMAIN kept \cup {p} |-> IF q = p THEN x ELSE kept[q]]

Revise(raw, p) ==
  /\ kw = None /\ edits < MaxEdits
  /\ raw # draft /\ RawContext(raw)
  /\ draft' = raw
  /\ named' = IF p = RequestId THEN RequestId \in DOMAIN raw ELSE named
  /\ replayed' = Replay(form, raw)
  /\ edits' = edits + 1
  /\ UNCHANGED <<kw, form, sent>>

Set(p, x) == Revise(With(draft, p, x), p)
Drop(p) == p \in DOMAIN draft /\ Revise(Without(draft, p), p)

\* The id argument: none (the empty string counts as none), or any other string,
\* also one that is longer than normalize accepts.
Arguments == {None, Fault("oversized")} \cup {Good(v) : v \in Ids}

\* It goes as it is into a body that has no id.
Body(raw, arg) ==
  IF arg = None \/ RequestId \in DOMAIN raw THEN raw
  ELSE [q \in DOMAIN raw \cup {RequestId} |-> IF q = RequestId THEN arg ELSE raw[q]]

IdOf(raw) == IF RequestId \in DOMAIN raw THEN raw[RequestId] ELSE None

\* The id in the header: the argument, or the id of the body, or where that is
\* empty or null a fresh one.  (httpx sends no header that is not a string.)
Fresh == Good("uuid")
Header(arg, body) ==
  IF arg # None THEN arg
  ELSE IF IdOf(body) \in {None, Good(""), Fault("invalid_type")} THEN Fresh
  ELSE IdOf(body)

\* Mutant: the id is put into the integrator's own dict.
HeldShared(raw, body) == body

\* What the integrator holds after the call: validate_tsc fills in a dict of its
\* own (_tsc_body), unless to_dict() did not make one.
Held(raw, body) == IF form = "shared" THEN body ELSE raw

\* validate_tsc(context, client_request_id=arg).  Nothing is sent, and nothing
\* changes, when there is no dict to send; whatever else is wrong with it is sent.
Submit(arg) ==
  LET body == Body(draft, arg) IN
  /\ Len(sent) < MaxSends
  /\ draft[<<>>] # Fault("malformed")
  /\ sent' = Append(sent, [arg |-> arg, named |-> named, id |-> IdOf(body),
                           header |-> Header(arg, body), judged |-> Evaluate(body)])
  /\ draft' = Held(draft, body)
  /\ replayed' = Replay(form, draft')
  /\ UNCHANGED <<kw, form, named, edits>>

Next ==
  \/ \E p \in Pointers : Drop(p) \/ \E x \in Raw(p) : Set(p, x)
  \/ \E arg \in Arguments : Submit(arg)

Spec == Init /\ [][Next]_vars

-----------------------------------------------------------------------------
\* Only JSON values are ever replayed, and what normalize makes of one it
\* accepts is a context decide is defined on.
TypeOK ==
  /\ RawContext(draft)
  /\ replayed.kind = "judged" =>
       /\ Seen(Normal(draft)) \in Contexts
       /\ DOMAIN Normal(draft) \subseteq Pointers

\* The builders make contexts the evaluator judges, whatever is left out of the
\* description; only a destination_trust that is explicitly None is refused.
BuiltIsJudged ==
  kw # None => \/ replayed.kind = "judged"
               \/ Route(kw) = "data_egress" /\ kw.destination_trust = None

\* What becomes of a description, through the builder, the defaults and the early
\* returns.  Of the egress names, a secret or a credential for a destination nobody
\* vouches for is a BLOCK and personal data a REVIEW, and nothing else is stopped.
\* Of the payment names, scopes claimed on a word the engine does not vouch for are
\* a REVIEW, and a payment that claims none passes.  Under any other name,
\* http_request and code_exec included, a target and a data class are not looked
\* at, and without a policy nothing is a BLOCK.
DescriptionsAreRuled ==
  kw # None /\ replayed.kind = "judged" =>
    LET decision == replayed.judgement.verdict.decision
        holds(classes) == kw.data_class # None /\ kw.data_class \cap classes # {}
        untrusted == kw.destination_trust \in {"unverified", "unknown"}
        vouched == kw.provenance # None
                     /\ kw.provenance \in {"engine_derived", "trusted_metadata"}
    IN
    /\ kw.action \in EgressActions =>
         decision = IF untrusted /\ holds({"secret", "credential"}) THEN "BLOCK"
                    ELSE IF untrusted /\ holds({"pii", "financial", "regulated"})
                      THEN "REVIEW" ELSE "PASS"
    /\ kw.action \in PaymentActions =>
         decision = IF kw.granted_scopes # {} /\ ~vouched THEN "REVIEW" ELSE "PASS"
    /\ kw.action \notin EgressActions \cup PaymentActions /\ kw.policy_required = {} =>
         decision # "BLOCK"

\* Leaving out what a context says about trust -- who attests it, how far the
\* destination is trusted, where it came from -- never softens the decision.
TrustPointers == {<<"subject", "trust_tier">>, <<"target", "trust_tier">>,
  <<"provenance", "source">>, <<"provenance", "attestation">>,
  <<"provenance", "attestation", "method">>, <<"provenance", "attestation", "verified">>,
  <<"provenance", "evidence_refs">>, <<"data", "egress">>,
  <<"data", "egress", "to">>, <<"data", "egress", "destination_trust">>}

Softens(before, after) ==
  /\ before.kind = "judged" /\ after.kind = "judged"
  /\ Severity(after.judgement.verdict.decision) < Severity(before.judgement.verdict.decision)

OmissionNeverSoftens ==
  [][\A p \in TrustPointers : Drop(p) => ~Softens(replayed, replayed')]_vars

\* The snapshot hash pins the verdict: contexts with the same hash are judged
\* alike, in everything a receipt says.
HashDecides ==
  [][replayed.kind = "judged" /\ replayed'.kind = "judged" /\ replayed.hash = replayed'.hash
       => replayed.judgement = replayed'.judgement]_vars

\* What is sent is judged as what the integrator holds was replayed, with the same
\* hash or the same error, although the client may have put an id into it.  Two
\* things are not replayed as they are sent, and no others: a Mapping, which the
\* client sends as the dict it stands for, and an id argument that is longer than
\* an id may be, which the body is refused for if for nothing else.
SentReplays ==
  [][sent' # sent =>
       LET request == Last(sent') IN
       \/ request.judged = replayed
       \/ form = "mapping" /\ request.judged = Evaluate(draft)
       \/ /\ request.arg = Fault("oversized") /\ RequestId \notin DOMAIN draft
          /\ request.judged = Refused("oversized", Len(Order))]_vars

\* A call that names an id, with a context to which its integrator gave none,
\* sends this id in the header and in the body, whatever was submitted before.
CallsKeepTheirIds ==
  \A i \in DOMAIN sent :
    form # "shared" /\ ~sent[i].named /\ sent[i].arg # None =>
      sent[i].id = sent[i].arg /\ sent[i].header = sent[i].arg

\* "Never raises on malformed input."
NeverRaises == replayed.kind # "raises"
=============================================================================
