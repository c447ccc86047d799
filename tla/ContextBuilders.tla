--------------------------- MODULE ContextBuilders ---------------------------
(***************************************************************************)
(* The TSC context builders: the scenario constructors of TscContext and   *)
(* its to_dict (quesen_sdk/tsc.py), and the friendly keyword arguments of  *)
(* the firewall that select among them (quesen_sdk/firewall.py, _build).   *)
(* What they produce is a raw context of TscNormalize.                     *)
(*                                                                         *)
(* A description holds the keyword arguments; one that was not given, or   *)
(* was given as None, is None.                                             *)
(***************************************************************************)
EXTENDS TscNormalize

CONSTANT None

EgressActions == {"send_data", "data_egress", "egress", "exfiltrate", "http_post", "upload"}
PaymentActions == {"payment", "pay", "transfer", "send_funds", "send_money"}

\* The words the builders put into a context are words of the contract, and None
\* is none.
ASSUME BuilderAssumption ==
  /\ {"data_egress", "payment", "tool_call"} \subseteq Actions
  /\ "adapter_derived" \in Sources /\ {"financial", "other"} \subseteq Capabilities
  /\ "unverified" \in Trusts /\ "text" \in Texts /\ Unencodable \notin Texts \cup Scopes
  /\ \A p \in Pointers : \A v \in Accepted(p) : v # None

\* What the keyword arguments may be, apart from the name of the action, which is
\* free: values the contract accepts where they go, in texts that can be encoded.
IsDescription(d) ==
  /\ d.target \in Texts \cup {None}
  /\ d.data_class \in {None} \cup SUBSET Classes
  /\ d.capability_class \in Capabilities \cup {None}
  /\ {d.granted_scopes, d.requested_scopes, d.policy_required} \subseteq SUBSET Scopes
  /\ {d.trust_tier, d.destination_trust} \subseteq Trusts \cup {None}
  /\ d.provenance \in Sources \cup {None}
  /\ d.framework \in {"unknown", "other", None}
  /\ d.id \in Ids \cup {None}
  /\ d.injection_suspected \in {None} \cup BOOLEAN
  /\ d.injection_patterns \in SUBSET Texts

\* v or default
Or(v, default) == IF v = None THEN default ELSE v

\* list(v) if v else None
ListOr(v) == IF v = {} THEN None ELSE v

\* One entry of a dict under construction; Entry leaves a None out (_clean).
Exactly(p, v) == {[at |-> p, value |-> v]}
Entry(p, v) == IF v = None THEN {} ELSE Exactly(p, v)

\* The dict of such entries: the objects around them come with them, and an
\* optional block that stayed empty is left out (to_dict).  A None that is kept
\* is a null.
Around(p) == {q \in Objects : IsPrefix(q, p)}
Dict(entries) ==
  LET value == [p \in {e.at : e \in entries} |-> (CHOOSE e \in entries : e.at = p).value] IN
  [p \in DOMAIN value \cup UNION {Around(e.at) : e \in entries} |->
     IF p \in Objects THEN Good("object")
     ELSE IF value[p] = None THEN Fault("invalid_type") ELSE Good(value[p])]

\* The sections every context has.
Sections(kind, source, d) ==
  UNION {Entry(<<"tsc_version">>, "2.0"), Entry(<<"subject", "kind">>, "other"),
         Entry(<<"subject", "framework">>, d.framework),
         Entry(<<"action", "kind">>, kind), Entry(<<"provenance", "source">>, source),
         Entry(RequestId, d.id)}

\* TscContext.data_egress as the firewall calls it.
DataEgress(d) ==
  UNION {Sections("data_egress", Or(d.provenance, "adapter_derived"), d),
         Entry(<<"target", "kind">>, "other"),
         Entry(<<"target", "identifier">>, Or(d.target, "text")),
         Exactly(<<"target", "trust_tier">>, d.destination_trust),
         Entry(<<"data", "classes">>, Or(ListOr(d.data_class), {"unknown"})),
         Entry(<<"data", "egress", "to">>, Or(d.target, "text")),
         Exactly(<<"data", "egress", "destination_trust">>, d.destination_trust)}

\* TscContext.payment
Payment(d) ==
  UNION {Sections("payment", Or(d.provenance, "client_asserted"), d),
         Entry(<<"subject", "trust_tier">>,
               IF d.trust_tier = "unknown" THEN "unverified" ELSE d.trust_tier),
         Entry(<<"tool", "capability_class">>, "financial"),
         Entry(<<"tool", "granted_scopes">>, ListOr(d.granted_scopes)),
         Entry(<<"permissions", "granted">>, ListOr(d.granted_scopes))}

\* TscContext.tool_call, of which the firewall uses all but policy_required and
\* the two injection arguments.
ToolCall(d) ==
  UNION {Sections("tool_call", Or(d.provenance, "adapter_derived"), d),
         Entry(<<"subject", "trust_tier">>, d.trust_tier),
         Entry(<<"tool", "capability_class">>, Or(d.capability_class, "other")),
         Entry(<<"tool", "granted_scopes">>, ListOr(d.granted_scopes)),
         Entry(<<"tool", "requested_scopes">>, ListOr(d.requested_scopes)),
         Entry(<<"permissions", "granted">>, ListOr(d.granted_scopes)),
         Entry(<<"permissions", "requested">>, ListOr(d.requested_scopes)),
         Entry(<<"permissions", "policy_required">>, ListOr(d.policy_required)),
         Entry(<<"signals", "prompt_injection", "suspected">>, d.injection_suspected),
         Entry(<<"signals", "prompt_injection", "patterns">>, ListOr(d.injection_patterns))}

\* Mutant: the friendly names are not known.
RouteCanonical(d) ==
  IF d.action \in {"data_egress", "payment"} THEN d.action ELSE "tool_call"

\* _build: the action selects the builder; a tool call is what is left, whatever
\* the action is called.
Route(d) ==
  IF d.action \in EgressActions THEN "data_egress"
  ELSE IF d.action \in PaymentActions THEN "payment" ELSE "tool_call"

Build(d) ==
  Dict(CASE Route(d) = "data_egress" -> DataEgress(d)
         [] Route(d) = "payment" -> Payment(d)
         [] Route(d) = "tool_call" -> ToolCall(d))
=============================================================================
