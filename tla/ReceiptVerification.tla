-------------------------- MODULE ReceiptVerification --------------------------
(***************************************************************************)
(* Decision receipts and their verification on the caller's side           *)
(* (quesen_sdk/receipt.py, and `quesen verify` in conformance.py): the     *)
(* engine issues receipts, some of them signed; a receipt is kept, passed  *)
(* on and possibly altered or mixed up with another one on the way; then   *)
(* somebody verifies what is left.                                         *)
(*                                                                         *)
(* Verification is a pure function of the receipt and of the options given *)
(* to it: three optional checks that are combined into one result.         *)
(***************************************************************************)
EXTENDS Naturals, FiniteSets

CONSTANTS
  Contexts,       \* TSC contexts that the reference evaluator accepts
  BadContexts,    \* contexts that it rejects
  RaisingContexts,\* contexts that make it raise, such as one with a lone surrogate
  Decisions,      \* decisions an engine can return
  ReasonLists,    \* lists of reason codes
  Hashes,         \* snapshot hashes
  Reference,      \* Reference[x]: what the reference evaluator gives for x
  Shas,           \* commits of the engine
  MaxIssued       \* bound: receipts the engine issues

Absent == "absent"            \* no such field, or an empty one
Malformed == "malformed"      \* reasons that are not a list of objects
NoContext == "no context"     \* recompute_request is None

ASSUME ReceiptAssumption ==
  /\ Reference \in [Contexts ->
       [decision : Decisions, reasons : ReasonLists, snap : Hashes]]
  /\ \A x, y \in Contexts : Reference[x].snap = Reference[y].snap => x = y
  /\ Contexts \cap (BadContexts \cup RaisingContexts) = {}
  /\ BadContexts \cap RaisingContexts = {}
  /\ NoContext \notin Contexts \cup BadContexts \cup RaisingContexts
  /\ Absent \notin Decisions \cup Hashes \cup ReasonLists \cup Shas
  /\ Malformed \notin ReasonLists
  /\ MaxIssued \in Nat

VARIABLES
  receipt,        \* the receipt as the verifier will read it
  issued,         \* what the engine issued, with the context it judged
  asked,          \* the options of the latest verification
  result          \* what verify_receipt returned

vars == <<receipt, issued, asked, result>>

\* _SIGNED_FIELDS: the part of a receipt that a signature covers.
Payloads == [decision : Decisions \cup {Absent}, snap : Hashes \cup {Absent},
             sha : Shas \cup {Absent},
             reasons : ReasonLists \cup {Absent, Malformed}]

Payload(r) == [decision |-> r.decision, snap |-> r.snap, sha |-> r.sha,
               reasons |-> r.reasons]

Signers == {"engine", "other"}
Unsigned == [by |-> "nobody"]
Garbled == [by |-> "garbled"]
Signature(s, p) == [by |-> s, over |-> p]

PublicKeys == Signers \cup {"none", "garbled"}       \* public_key_hex
Options == [key : PublicKeys, lib : BOOLEAN,
            ctx : Contexts \cup BadContexts \cup RaisingContexts \cup {NoContext}]

NoReceipt == [decision |-> Absent, snap |-> Absent, sha |-> Absent,
              reasons |-> Absent, sig |-> Unsigned]

-----------------------------------------------------------------------------
(* verify_receipt.                                                          *)

\* Mutant: the reasons are left out of the signed fields.
SignatureIgnoresReasons(r, key) ==
  /\ r.sig \notin {Unsigned, Garbled}
  /\ r.sig.by = key
  /\ r.sig.over = [Payload(r) EXCEPT !.reasons = r.sig.over.reasons]

\* An Ed25519 signature verifies under the key of its signer, over the bytes
\* that were signed; a key or a signature that cannot be read never does.
SignatureHolds(r, key) == r.sig = Signature(key, Payload(r))

Outcome(ok, signed, valid) == [ok |-> ok, signed |-> signed, valid |-> valid,
                               recomputed |-> "none"]

\* Mutant: the key is looked at before the signature.
IntegrityKeyFirst(r, o) ==
  IF r.decision = Absent \/ r.snap = Absent
    THEN Outcome(FALSE, r.sig # Unsigned, "none")
  ELSE IF o.key = "none" \/ ~o.lib THEN Outcome(TRUE, r.sig # Unsigned, "none")
  ELSE IF o.key \in Signers /\ SignatureHolds(r, o.key)
    THEN Outcome(TRUE, TRUE, "yes")
  ELSE Outcome(TRUE, r.sig # Unsigned, "no")

Integrity(r, o) ==
  IF r.decision = Absent \/ r.snap = Absent
    THEN Outcome(FALSE, r.sig # Unsigned, "none")
  ELSE IF r.sig = Unsigned THEN Outcome(TRUE, FALSE, "none")
  ELSE IF o.key = "none" \/ ~o.lib THEN Outcome(TRUE, TRUE, "none")
  ELSE IF o.key \in Signers /\ SignatureHolds(r, o.key)
    THEN Outcome(TRUE, TRUE, "yes")
  ELSE Outcome(TRUE, TRUE, "no")

\* Mutant: the snapshot hash is not compared.
ReproducedVerdict(r, ref) == /\ ref.decision = r.decision
                             /\ ref.reasons = r.reasons

\* Absent reasons are compared as an empty list, which the reference evaluator
\* never returns.
Reproduced(r, ref) == /\ ref.decision = r.decision
                      /\ ref.reasons = r.reasons
                      /\ ref.snap = r.snap

Raised == [ok |-> FALSE, signed |-> FALSE, valid |-> "none",
           recomputed |-> "raised"]

\* Mutant: a mismatch is reported in `recomputed` and `reason` only.
VerificationReports(r, o) ==
  IF o.ctx = NoContext THEN Integrity(r, o)
  ELSE IF o.ctx \in BadContexts
    THEN [Integrity(r, o) EXCEPT !.ok = FALSE, !.recomputed = "no"]
  ELSE IF o.ctx \in RaisingContexts \/ r.reasons = Malformed THEN Raised
  ELSE [Integrity(r, o) EXCEPT !.recomputed =
          IF Reproduced(r, Reference[o.ctx]) THEN "yes" ELSE "no"]

Verification(r, o) ==
  IF o.ctx = NoContext THEN Integrity(r, o)
  ELSE IF o.ctx \in BadContexts
    THEN [Integrity(r, o) EXCEPT !.ok = FALSE, !.recomputed = "no"]
  ELSE IF o.ctx \in RaisingContexts \/ r.reasons = Malformed THEN Raised
  ELSE IF Reproduced(r, Reference[o.ctx])
    THEN [Integrity(r, o) EXCEPT !.recomputed = "yes"]
  ELSE [Integrity(r, o) EXCEPT !.ok = FALSE, !.recomputed = "no"]

\* Mutant: a reproduced verdict makes up for a signature that was not checked.
AcceptsReproduced(v) ==
  v.ok /\ (v.signed => v.valid = "yes" \/ (v.valid = "none" /\ v.recomputed = "yes"))

\* ReceiptVerification.require() returns instead of raising.
Accepts(v) == v.ok /\ (v.signed => v.valid = "yes")

\* `quesen verify`: the file may not be readable as JSON; the command has an
\* option for the key, and none for a context.
ExitCode(r, o, readable) ==
  IF ~readable THEN 2
  ELSE IF Accepts(Verification(r, [o EXCEPT !.ctx = NoContext])) THEN 0 ELSE 1

-----------------------------------------------------------------------------
NoResult == [ok |-> FALSE, signed |-> FALSE, valid |-> "none",
             recomputed |-> "unasked"]
NoOptions == [key |-> "none", lib |-> FALSE, ctx |-> NoContext]

Init ==
  /\ receipt = NoReceipt
  /\ issued = {}
  /\ asked = NoOptions
  /\ result = NoResult

Unverified == asked' = NoOptions /\ result' = NoResult

\* The engine judges context x.  It may weigh risks in its own way, but the
\* snapshot hash is the reference evaluator's.
Issue(x, p, signed) ==
  /\ Cardinality(issued) < MaxIssued
  /\ p.snap = Reference[x].snap
  /\ p.decision # Absent /\ p.sha # Absent
  /\ p.reasons \in ReasonLists
  /\ issued' = issued \cup {[ctx |-> x, payload |-> p, signed |-> signed]}
  /\ receipt' = [decision |-> p.decision, snap |-> p.snap, sha |-> p.sha,
                 reasons |-> p.reasons,
                 sig |-> IF signed THEN Signature("engine", p) ELSE Unsigned]
  /\ Unverified

\* Signatures a receipt can get into contact with: the engine's on receipts it
\* signed, and another deployment's on the same receipts.
Signatures == {Unsigned, Garbled}
  \cup {Signature("engine", i.payload) : i \in {j \in issued : j.signed}}
  \cup {Signature("other", i.payload) : i \in issued}

\* The receipt with one field changed, lost or taken from another receipt.
Altered ==
  {[receipt EXCEPT !.decision = v] : v \in Decisions \cup {Absent}}
    \cup {[receipt EXCEPT !.snap = v] : v \in Hashes \cup {Absent}}
    \cup {[receipt EXCEPT !.sha = v] : v \in Shas \cup {Absent}}
    \cup {[receipt EXCEPT !.reasons = v] : v \in ReasonLists \cup {Absent, Malformed}}
    \cup {[receipt EXCEPT !.sig = v] : v \in Signatures}

Alter(r) ==
  /\ receipt' = r
  /\ Unverified
  /\ UNCHANGED issued

Verify(o) ==
  /\ asked' = o
  /\ result' = Verification(receipt, o)
  /\ UNCHANGED <<receipt, issued>>

Next ==
  \/ \E x \in Contexts, p \in Payloads, s \in BOOLEAN : Issue(x, p, s)
  \/ \E r \in Altered : Alter(r)
  \/ \E o \in Options : Verify(o)

Spec == Init /\ [][Next]_vars

-----------------------------------------------------------------------------
Receipts == [decision : Decisions \cup {Absent}, snap : Hashes \cup {Absent},
             sha : Shas \cup {Absent},
             reasons : ReasonLists \cup {Absent, Malformed},
             sig : {Unsigned, Garbled} \cup [by : Signers, over : Payloads]]

\* Variables stay in their types; a signature is never called valid on a
\* receipt that is called unsigned.
TypeOK ==
  /\ receipt \in Receipts
  /\ issued \subseteq [ctx : Contexts, payload : Payloads, signed : BOOLEAN]
  /\ asked \in Options
  /\ result \in [ok : BOOLEAN, signed : BOOLEAN, valid : {"none", "yes", "no"},
                 recomputed : {"none", "unasked", "raised", "yes", "no"}]
  /\ result.valid # "none" => result.signed

\* A receipt that carries a signature and passes require() is, in everything
\* the signature covers, one that the engine signed, unless the caller gave
\* another signer's key: however its fields were altered or mixed up.
AcceptedIsAuthentic ==
  Accepts(result) /\ receipt.sig # Unsigned /\ asked.key # "other" =>
    \E i \in issued : i.signed /\ i.payload = Payload(receipt)

\* A receipt that passes require() with a recompute_request carries the very
\* decision, reasons and hash that the reference evaluator gives for it; no
\* verdict of the other two checks can stand in for that.
AcceptedIsReproduced ==
  Accepts(result) /\ asked.ctx # NoContext =>
    /\ asked.ctx \in Contexts
    /\ receipt.decision = Reference[asked.ctx].decision
    /\ receipt.reasons = Reference[asked.ctx].reasons
    /\ receipt.snap = Reference[asked.ctx].snap

\* With both checks asked for, a signed receipt that passes proves that the
\* engine judged this very context, and as the reference evaluator does.
AcceptedIsDecided ==
  Accepts(result) /\ receipt.sig # Unsigned /\ asked.key # "other"
      /\ asked.ctx # NoContext =>
    \E i \in issued : /\ i.signed
                      /\ i.ctx = asked.ctx
                      /\ i.payload.decision = Reference[asked.ctx].decision
                      /\ i.payload.reasons = Reference[asked.ctx].reasons

\* Asking for more never makes an unacceptable receipt acceptable: what passes
\* with a recompute_request passes `quesen verify`, which makes none, and what
\* passes for the engine's key does not pass for another's.
MoreChecksAcceptLess == \A o \in Options : Accepts(Verification(receipt, o)) =>
  /\ ExitCode(receipt, o, TRUE) = 0
  /\ receipt.sig # Unsigned => \A k \in PublicKeys \ {o.key} :
       ~Accepts(Verification(receipt, [o EXCEPT !.key = k]))
=============================================================================
