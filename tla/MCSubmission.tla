---------------------------- MODULE MCSubmission ----------------------------
(* Contexts and descriptions for the runs of Submission.                    *)
EXTENDS Submission

Minimal == [p \in {<<>>, <<"tsc_version">>} \cup Required |->
              Good(IF p = <<"tsc_version">> THEN "2.0" ELSE "object")]

\* Everything is said: attested egress of a secret to a trusted destination.
Full == [p \in Pointers |->
  Good(CASE p \in Objects -> "object"
         [] p \in Lists -> Scopes
         [] p = <<"data", "classes">> -> {"secret"}
         [] p \in Labels -> {"text"}
         [] p \in Flags -> p[1] = "provenance"
         [] p \in Numbers -> 0
         [] p = <<"action", "kind">> -> "data_egress"
         [] p = <<"provenance", "source">> -> "client_asserted"
         [] p = <<"tool", "capability_class">> -> "financial"
         [] p \in Tiers -> "trusted"
         [] p \in OtherEnums -> "other"
         [] p = RequestId -> "id1"
         [] p = <<"tsc_version">> -> "2.0"
         [] OTHER -> "text")]

\* The same to a destination that is not.
Leaking == With(Full, <<"data", "egress", "destination_trust">>, Good("unverified"))

\* Every object is there and empty.
Hollow == [p \in Objects \cup {<<"tsc_version">>} |->
             Good(IF p = <<"tsc_version">> THEN "2.0" ELSE "object")]

\* A payment on a scope the caller claims, and one on a scope somebody vouches for.
Claimed == With(With(With(With(Minimal,
             <<"action", "kind">>, Good("payment")),
             <<"permissions">>, Good("object")),
             <<"permissions", "granted">>, Good(Scopes)),
             <<"permissions", "policy_required">>, Good(Scopes))
Vouched == With(With(With(Claimed,
             <<"provenance", "attestation">>, Good("object")),
             <<"provenance", "attestation", "method">>, Good("other")),
             <<"provenance", "attestation", "verified">>, Good(TRUE))

MCBases == {Minimal, Full, Leaking, Hollow, Claimed, Vouched}

\* Nothing is given but the action.
Plain(action) ==
  [action |-> action, target |-> None, data_class |-> None, capability_class |-> None,
   granted_scopes |-> {}, requested_scopes |-> {}, trust_tier |-> "unknown",
   destination_trust |-> "unverified", provenance |-> None, framework |-> None,
   id |-> None, policy_required |-> {}, injection_suspected |-> None,
   injection_patterns |-> {}]

MCDescriptions ==
  {[Plain("send_data") EXCEPT !.target = t, !.data_class = c, !.destination_trust = dt,
      !.provenance = s, !.framework = f, !.id = i] :
     t \in {None, "text"}, c \in {None} \cup SUBSET Classes, dt \in Trusts \cup {None},
     s \in Sources \cup {None}, f \in {None, "other"}, i \in {None, "id1"}}
  \cup
  {[Plain("pay") EXCEPT !.granted_scopes = g, !.trust_tier = t, !.provenance = s, !.id = i] :
     g \in SUBSET Scopes, t \in Trusts \cup {None}, s \in Sources \cup {None}, i \in {None, "id1"}}
  \cup
  {[Plain("code_exec") EXCEPT !.capability_class = c, !.granted_scopes = g,
      !.requested_scopes = r, !.trust_tier = t, !.provenance = s, !.policy_required = q,
      !.injection_suspected = j, !.injection_patterns = l] :
     c \in Capabilities \cup {None}, g \in SUBSET Scopes, r \in SUBSET Scopes,
     t \in {None, "trusted"}, s \in {None, "trusted_metadata"}, q \in SUBSET Scopes,
     j \in BOOLEAN \cup {None}, l \in SUBSET {"text"}}
=============================================================================
