---------------------------- MODULE TscNormalize ----------------------------
(***************************************************************************)
(* From a raw TSC v2 context to its verdict (quesen_sdk/reference.py):     *)
(* normalize, the input snapshot hash and evaluate.                        *)
(*                                                                         *)
(* A context is a nested JSON object; here it is one function from the     *)
(* pointers that are present to what is found there.  A value normalize    *)
(* accepts stands for all its spellings (whitespace, case, Unicode form,   *)
(* order and duplicates of a list); a value it refuses is known by the     *)
(* error it is refused with.                                               *)
(***************************************************************************)
EXTENDS TscRules, SequencesExt

CONSTANTS
  Texts,          \* what a free text may be
  Ids             \* what client_request_id may be, apart from the empty string

ASSUME NormalizeAssumption ==
  "unknown" \in Trusts /\ "unknown" \in Classes /\ "" \notin Ids

-----------------------------------------------------------------------------
(* Where normalize looks, in its order.                                     *)

Block(b, fields) == <<b>> \o [i \in DOMAIN fields |-> Append(b, fields[i])]

Hashed ==
  Block(<<>>, <<"tsc_version">>)
  \o Block(<<"subject">>, <<"kind", "id", "framework", "trust_tier">>)
  \o Block(<<"action">>, <<"kind", "operation", "intent">>)
  \o Block(<<"provenance">>, <<"source", "as_of">>)
  \o Block(<<"provenance", "attestation">>, <<"method", "verified">>)
  \o <<<<"provenance", "evidence_refs">>>>
  \o Block(<<"policy">>, <<"id", "version">>)
  \o Block(<<"target">>, <<"kind", "identifier", "domain", "trust_tier">>)
  \o Block(<<"tool">>, <<"id", "capability_class", "requested_scopes", "granted_scopes">>)
  \o Block(<<"permissions">>, <<"requested", "granted", "policy_required">>)
  \o Block(<<"data">>, <<"classes">>)
  \o Block(<<"data", "egress">>, <<"to", "destination_trust">>)
  \o <<<<"signals">>>>
  \o Block(<<"signals", "prompt_injection">>, <<"suspected", "patterns", "sample_ref">>)
  \o Tail(Block(<<"signals">>, <<"domain_age_days", "engagement_ratio",
                                 "scam_keyword_count", "onchain">>))

\* The request id comes last, and is all that is not hashed.
RequestId == <<"client_request_id">>
Order == Append(Hashed, RequestId)

Pointers == Range(Order)
Inside(p) == {q \in Pointers : Len(q) > Len(p) /\ \A i \in DOMAIN p : q[i] = p[i]}

Required == {<<"subject">>, <<"action">>, <<"provenance">>}
Objects == {p \in Pointers : Inside(p) # {}}
Lists == {<<"tool", "requested_scopes">>, <<"tool", "granted_scopes">>,
          <<"permissions", "requested">>, <<"permissions", "granted">>,
          <<"permissions", "policy_required">>}
Labels == {<<"provenance", "evidence_refs">>,
           <<"signals", "prompt_injection", "patterns">>}
Flags == {<<"provenance", "attestation", "verified">>,
          <<"signals", "prompt_injection", "suspected">>}
Numbers == {<<"signals", "domain_age_days">>, <<"signals", "engagement_ratio">>,
            <<"signals", "scam_keyword_count">>}
Tiers == {<<"subject", "trust_tier">>, <<"target", "trust_tier">>,
          <<"data", "egress", "destination_trust">>}
\* Enumerations decide does not read: the default, and "other" for any other value.
OtherEnums == {<<"subject", "kind">>, <<"subject", "framework">>, <<"target", "kind">>,
               <<"provenance", "attestation", "method">>}
Enums == OtherEnums \cup Tiers \cup
  {<<"action", "kind">>, <<"provenance", "source">>, <<"tool", "capability_class">>}

\* Mutants: what is not said about trust is taken for trusted; a key that is not
\* there has no value.
DefaultTrusting(p) ==
  CASE p = <<"action", "kind">> -> "other"
    [] p = <<"provenance", "source">> -> "client_asserted"
    [] p = <<"provenance", "attestation", "method">> -> "none"
    [] p = <<"provenance", "attestation", "verified">> -> FALSE
    [] OTHER -> "trusted"
DefaultNull(p) ==
  CASE p = <<"action", "kind">> -> "other"
    [] p = <<"provenance", "source">> -> "client_asserted"
    [] p = <<"provenance", "attestation", "method">> -> "none"
    [] p = <<"provenance", "attestation", "verified">> -> FALSE
    [] OTHER -> "null"

\* What a key stands for when its object is there and the key is not.
Default(p) ==
  CASE p = <<"action", "kind">> -> "other"
    [] p = <<"provenance", "source">> -> "client_asserted"
    [] p = <<"provenance", "attestation", "method">> -> "none"
    [] p = <<"provenance", "attestation", "verified">> -> FALSE
    [] OTHER -> "unknown"

Defaulted == Tiers \cup
  {<<"action", "kind">>, <<"provenance", "source">>, <<"subject", "kind">>,
   <<"provenance", "attestation", "method">>, <<"provenance", "attestation", "verified">>}

-----------------------------------------------------------------------------
(* What may be found at a pointer.                                          *)

Good(v) == [val |-> v]
Fault(code) == [fault |-> code]
IsGood(x) == "val" \in DOMAIN x

\* The values normalize accepts.  Texts, the items of a list and the onchain object
\* reach the hash as they are, and what JSON or UTF-8 cannot write, such as a NaN
\* or a lone surrogate, is Unencodable.  (The request id is not hashed.)
Unencodable == "unencodable"
Accepted(p) ==
  CASE p \in Objects -> {"object"}
    [] p \in Lists -> SUBSET (Scopes \cup {Unencodable})
    [] p = <<"data", "classes">> -> SUBSET Classes
    [] p \in Labels -> SUBSET (Texts \cup {Unencodable})
    [] p \in Flags -> BOOLEAN
    [] p \in Numbers -> {0}
    [] p = <<"action", "kind">> -> Actions
    [] p = <<"provenance", "source">> -> Sources
    [] p = <<"tool", "capability_class">> -> Capabilities
    [] p \in Tiers -> Trusts
    [] p \in OtherEnums -> {Default(p), "other"}
    [] p = RequestId -> Ids \cup {""}
    [] p = <<"tsc_version">> -> {"2.0", Unencodable}
    [] OTHER -> Texts \cup {Unencodable}

\* The errors it refuses the others with.  float() of a huge integer is no
\* error of normalize's own.
Faults(p) ==
  CASE p = <<>> -> {"malformed", "unknown_field"}
    [] p \in Objects \ {<<>>} -> {"invalid_type", "unknown_field"}
    [] p \in Enums \cup {<<"data", "classes">>} -> {"invalid_type", "invalid_enum"}
    [] p \in Flags \cup {<<"signals", "onchain">>} -> {"invalid_type"}
    [] p = <<"signals", "engagement_ratio">> -> {"invalid_type", "out_of_range", "OverflowError"}
    [] p \in Numbers \ {<<"signals", "engagement_ratio">>} -> {"invalid_type", "out_of_range"}
    [] p = <<"tsc_version">> -> {"invalid_type", "oversized", "unsupported_version"}
    [] OTHER -> {"invalid_type", "oversized"}

Raw(p) == {Good(v) : v \in Accepted(p)} \cup {Fault(code) : code \in Faults(p)}

\* A JSON value: what is inside an object is inside an object that is there.
RawContext(raw) ==
  /\ <<>> \in DOMAIN raw /\ DOMAIN raw \subseteq Pointers
  /\ \A p \in DOMAIN raw :
       /\ raw[p] \in Raw(p)
       /\ p # <<>> => /\ Front(p) \in DOMAIN raw
                      /\ raw[Front(p)] \in {Good("object"), Fault("unknown_field")}

-----------------------------------------------------------------------------
(* normalize, input_snapshot_hash and evaluate.                             *)

Problem(raw, p) ==
  IF p \in DOMAIN raw
    THEN IF IsGood(raw[p]) THEN "ok" ELSE raw[p].fault
  ELSE IF p = <<"tsc_version">> THEN "unsupported_version"
  ELSE IF p \in Required THEN "missing_required" ELSE "ok"

\* Where normalize finds something to refuse; it stops at the first.
Problems(raw) == {i \in DOMAIN Order : Problem(raw, Order[i]) # "ok"}

\* What normalize returns when there is nothing to refuse.
Normal(raw) ==
  [p \in DOMAIN raw \cup {q \in Defaulted : Front(q) \in DOMAIN raw} |->
     IF p \in DOMAIN raw THEN raw[p].val ELSE Default(p)]

Get(n, p, default) == IF p \in DOMAIN n THEN n[p] ELSE default

\* What decide reads of a normalized context; the first two are always there.
Seen(n) ==
  [action |-> Get(n, <<"action", "kind">>, "other"),
   source |-> Get(n, <<"provenance", "source">>, "client_asserted"),
   verified |-> Get(n, <<"provenance", "attestation", "verified">>, FALSE),
   cap |-> Get(n, <<"tool", "capability_class">>, "none"),
   toolScopes |-> Get(n, <<"tool", "granted_scopes">>, {}),
   granted |-> Get(n, <<"permissions", "granted">>, {}),
   required |-> Get(n, <<"permissions", "policy_required">>, {}),
   classes |-> Get(n, <<"data", "classes">>, {}),
   dest |-> Get(n, <<"data", "egress", "destination_trust">>, "absent"),
   suspected |-> Get(n, <<"signals", "prompt_injection", "suspected">>, FALSE),
   blocks |-> {b \in OptionalBlocks : \E p \in DOMAIN n : Len(p) = 2 /\ p[1] = b}]

\* Mutants: the request id is hashed; the signals are not.
HashWithRequestId(n) == n
HashWithoutSignals(n) ==
  Restrict(n, {p \in DOMAIN n : p # RequestId /\ ~IsPrefix(<<"signals">>, p)})

\* input_snapshot_hash: free of collisions, so the hashed material stands for it.
Hash(n) == Restrict(n, DOMAIN n \ {RequestId})

FreeTexts == Pointers \ (Objects \cup Lists \cup Labels \cup Flags \cup Numbers \cup Enums
                         \cup {<<"data", "classes">>, RequestId})
Hashable(n) ==
  /\ \A p \in FreeTexts \cap DOMAIN n : n[p] # Unencodable
  /\ \A p \in (Lists \cup Labels) \cap DOMAIN n : Unencodable \notin n[p]

\* What a verdict says of the context besides its hash: the decision with its
\* reasons, and what is copied from the context.
Judgement(n) ==
  [verdict |-> Decide(Seen(n)),
   version |-> Get(n, <<"tsc_version">>, "2.0"),
   source |-> Get(n, <<"provenance", "source">>, "client_asserted"),
   policy |-> Restrict(n, DOMAIN n \cap Inside(<<"policy">>))]

Raises == [kind |-> "raises"]
Refused(code, i) == [kind |-> "error", code |-> code, at |-> i]

\* evaluate: a verdict, an error envelope, or an exception.
Evaluate(raw) ==
  IF Problems(raw) # {}
    THEN LET i == Min(Problems(raw)) IN
         IF Problem(raw, Order[i]) = "OverflowError" THEN Raises
         ELSE Refused(Problem(raw, Order[i]), i)
  ELSE IF ~Hashable(Normal(raw)) THEN Raises
  ELSE [kind |-> "judged", judgement |-> Judgement(Normal(raw)), hash |-> Hash(Normal(raw))]
=============================================================================
