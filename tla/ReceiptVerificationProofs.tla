---------------------- MODULE ReceiptVerificationProofs ----------------------
(***************************************************************************)
(* Theorems about receipt verification, for any number of contexts,        *)
(* decisions, issued receipts and alterations.                             *)
(***************************************************************************)
EXTENDS ReceiptVerification, TLAPS

\* Everything a signature of the engine covers was issued and signed by it.
SignedInv == \A p \in Payloads : receipt.sig = Signature("engine", p) =>
  \E i \in issued : i.signed /\ i.payload = p

\* The engine's snapshot hash is that of the context it judged.
HashInv == \A i \in issued : i.payload.snap = Reference[i.ctx].snap

\* A result belongs to the receipt and the options beside it.
ResultInv == result = NoResult \/ result = Verification(receipt, asked)

VInv == /\ receipt \in Receipts
        /\ issued \subseteq [ctx : Contexts, payload : Payloads, signed : BOOLEAN]
        /\ asked \in Options
        /\ SignedInv
        /\ HashInv
        /\ ResultInv

\* A receipt's signed part is a payload, whatever its signature is.
LEMMA PayloadType ==
  ASSUME NEW r \in Receipts
  PROVE  Payload(r) \in Payloads
BY DEF Receipts, Payloads, Payload

\* A signature that holds under a signer's key is not blank.
LEMMA HoldsMeansSigned ==
  ASSUME NEW r, NEW k \in Signers, SignatureHolds(r, k)
  PROVE  r.sig # Unsigned /\ r.sig # Garbled
<1>1. r.sig = [by |-> k, over |-> Payload(r)]
  BY DEF SignatureHolds, Signature
<1>2. r.sig.by = k
  BY <1>1
<1>3. k # "nobody" /\ k # "garbled"
  BY DEF Signers
<1> QED BY <1>2, <1>3 DEF Unsigned, Garbled

\* Two signers never make the same signature.
LEMMA OneSigner ==
  ASSUME NEW r, NEW k1 \in Signers, NEW k2 \in Signers,
         SignatureHolds(r, k1), SignatureHolds(r, k2)
  PROVE  k1 = k2
<1>1. r.sig.by = k1
  BY DEF SignatureHolds, Signature
<1>2. r.sig.by = k2
  BY DEF SignatureHolds, Signature
<1> QED BY <1>1, <1>2

-----------------------------------------------------------------------------
\* What passes require(): the structure is sound, a signature that is there
\* holds under the key given, and a recompute that was asked for matched.
LEMMA WhatPasses ==
  ASSUME NEW r \in Receipts, NEW o \in Options, Accepts(Verification(r, o))
  PROVE  /\ r.decision # Absent /\ r.snap # Absent
         /\ r.sig # Unsigned => o.lib /\ o.key \in Signers /\ SignatureHolds(r, o.key)
         /\ o.ctx # NoContext => /\ o.ctx \in Contexts
                                 /\ Reproduced(r, Reference[o.ctx])
<1> DEFINE v == Integrity(r, o)
<1>1. v \in [ok : BOOLEAN, signed : BOOLEAN, valid : {"none", "yes", "no"},
             recomputed : {"none"}]
  BY DEF Integrity, Outcome
<1>2. /\ v.ok => r.decision # Absent /\ r.snap # Absent
      /\ r.sig # Unsigned => v.signed
      /\ v.valid = "yes" => o.lib /\ o.key \in Signers /\ SignatureHolds(r, o.key)
  BY DEF Integrity, Outcome, Options
<1> HIDE DEF v
<1>3. CASE o.ctx = NoContext
  <2>1. Verification(r, o) = v
    BY <1>3 DEF Verification, v
  <2> QED BY <1>1, <1>2, <1>3, <2>1 DEF Accepts
<1>4. CASE o.ctx # NoContext
  <2>1. o.ctx \notin BadContexts
    <3> SUFFICES ASSUME o.ctx \in BadContexts PROVE FALSE
      OBVIOUS
    <3>1. Verification(r, o) = [v EXCEPT !.ok = FALSE, !.recomputed = "no"]
      BY <1>4 DEF Verification, v
    <3>2. ~Verification(r, o).ok
      BY <1>1, <3>1
    <3> QED BY <3>2 DEF Accepts
  <2>2. o.ctx \notin RaisingContexts /\ r.reasons # Malformed
    <3> SUFFICES ASSUME o.ctx \in RaisingContexts \/ r.reasons = Malformed PROVE FALSE
      OBVIOUS
    <3>1. Verification(r, o) = Raised
      BY <1>4, <2>1 DEF Verification
    <3> QED BY <3>1 DEF Accepts, Raised
  <2>3. Reproduced(r, Reference[o.ctx])
    <3> SUFFICES ASSUME ~Reproduced(r, Reference[o.ctx]) PROVE FALSE
      OBVIOUS
    <3>1. Verification(r, o) = [v EXCEPT !.ok = FALSE, !.recomputed = "no"]
      BY <1>4, <2>1, <2>2 DEF Verification, v
    <3>2. ~Verification(r, o).ok
      BY <1>1, <3>1
    <3> QED BY <3>2 DEF Accepts
  <2>4. Verification(r, o) = [v EXCEPT !.recomputed = "yes"]
    BY <1>4, <2>1, <2>2, <2>3 DEF Verification, v
  <2>5. /\ Verification(r, o).ok = v.ok /\ Verification(r, o).signed = v.signed
        /\ Verification(r, o).valid = v.valid
    BY <1>1, <2>4
  <2>6. o.ctx \in Contexts
    BY <1>4, <2>1, <2>2 DEF Options
  <2> QED BY <1>1, <1>2, <2>3, <2>5, <2>6 DEF Accepts
<1> QED BY <1>3, <1>4

\* And without a recompute, that is all it takes.
LEMMA IntegrityPasses ==
  ASSUME NEW r \in Receipts, NEW o \in Options, o.ctx = NoContext,
         r.decision # Absent, r.snap # Absent,
         r.sig # Unsigned => o.lib /\ o.key \in Signers /\ SignatureHolds(r, o.key)
  PROVE  Accepts(Verification(r, o))
<1>1. CASE r.sig = Unsigned
  <2>1. Verification(r, o) = Outcome(TRUE, FALSE, "none")
    BY <1>1 DEF Verification, Integrity
  <2> QED BY <2>1 DEF Accepts, Outcome
<1>2. CASE r.sig # Unsigned
  <2>1. o.key # "none"
    BY <1>2 DEF Signers
  <2>2. Verification(r, o) = Outcome(TRUE, TRUE, "yes")
    BY <1>2, <2>1 DEF Verification, Integrity
  <2> QED BY <2>2 DEF Accepts, Outcome
<1> QED BY <1>1, <1>2

\* A verification always ends in a well-formed result.
LEMMA VerificationType ==
  ASSUME NEW r \in Receipts, NEW o \in Options
  PROVE  /\ Verification(r, o) \in
              [ok : BOOLEAN, signed : BOOLEAN, valid : {"none", "yes", "no"},
               recomputed : {"none", "unasked", "raised", "yes", "no"}]
         /\ Verification(r, o).valid # "none" => Verification(r, o).signed
<1> DEFINE v == Integrity(r, o)
<1>1. /\ v \in [ok : BOOLEAN, signed : BOOLEAN, valid : {"none", "yes", "no"},
                recomputed : {"none"}]
      /\ v.valid # "none" => v.signed
  BY DEF Integrity, Outcome
<1>2. \/ Verification(r, o) = v
      \/ Verification(r, o) = Raised
      \/ Verification(r, o) = [v EXCEPT !.recomputed = "yes"]
      \/ Verification(r, o) = [v EXCEPT !.ok = FALSE, !.recomputed = "no"]
  BY DEF Verification
<1> HIDE DEF v
<1>3. CASE Verification(r, o) = v
  BY <1>1, <1>3
<1>4. CASE Verification(r, o) = Raised
  BY <1>4 DEF Raised
<1>5. CASE Verification(r, o) = [v EXCEPT !.recomputed = "yes"]
  <2> DEFINE w == [v EXCEPT !.recomputed = "yes"]
  <2>1. /\ w.ok = v.ok /\ w.signed = v.signed /\ w.valid = v.valid
        /\ w.recomputed = "yes"
    BY <1>1
  <2>2. w \in [ok : BOOLEAN, signed : BOOLEAN, valid : {"none", "yes", "no"},
               recomputed : {"yes"}]
    BY <1>1
  <2> HIDE DEF w
  <2>3. w \in [ok : BOOLEAN, signed : BOOLEAN, valid : {"none", "yes", "no"},
               recomputed : {"none", "unasked", "raised", "yes", "no"}]
    BY <2>2
  <2>4. Verification(r, o) = w
    BY <1>5 DEF w
  <2> QED BY <1>1, <2>1, <2>3, <2>4
<1>6. CASE Verification(r, o) = [v EXCEPT !.ok = FALSE, !.recomputed = "no"]
  <2> DEFINE w == [v EXCEPT !.ok = FALSE, !.recomputed = "no"]
  <2>1. /\ w.ok = FALSE /\ w.signed = v.signed /\ w.valid = v.valid
        /\ w.recomputed = "no"
    BY <1>1
  <2>2. w \in [ok : BOOLEAN, signed : BOOLEAN, valid : {"none", "yes", "no"},
               recomputed : {"no"}]
    BY <1>1
  <2> HIDE DEF w
  <2>3. w \in [ok : BOOLEAN, signed : BOOLEAN, valid : {"none", "yes", "no"},
               recomputed : {"none", "unasked", "raised", "yes", "no"}]
    BY <2>2
  <2>4. Verification(r, o) = w
    BY <1>6 DEF w
  <2> QED BY <1>1, <2>1, <2>3, <2>4
<1> QED BY <1>2, <1>3, <1>4, <1>5, <1>6

-----------------------------------------------------------------------------
\* Every alteration leaves something that can be read as a receipt, and brings
\* in no signature of the engine that it did not make.
LEMMA AlterStep ==
  ASSUME VInv, NEW r \in Altered, Alter(r)
  PROVE  receipt' \in Receipts /\ SignedInv'
<1>0. receipt' = r /\ issued' = issued
  BY DEF Alter
<1>1. CASE \E v \in Signatures : r = [receipt EXCEPT !.sig = v]
  <2>1. PICK v \in Signatures : r = [receipt EXCEPT !.sig = v]
    BY <1>1
  <2>2. r.sig = v
    BY <2>1 DEF VInv, Receipts
  <2>3. v \in {Unsigned, Garbled} \cup [by : Signers, over : Payloads]
    BY DEF Signatures, Signature, Signers, VInv
  <2>4. r \in Receipts
    BY <2>1, <2>3 DEF VInv, Receipts
  <2>5. ASSUME NEW p \in Payloads, v = Signature("engine", p)
        PROVE  \E i \in issued : i.signed /\ i.payload = p
    <3>1. v.by = "engine" /\ v.over = p
      BY <2>5 DEF Signature
    <3>2. v # Unsigned /\ v # Garbled
      BY <3>1 DEF Unsigned, Garbled
    <3>3. ASSUME NEW i \in issued, v = Signature("other", i.payload) PROVE FALSE
      BY <3>1, <3>3 DEF Signature
    <3>4. PICK i \in issued : i.signed /\ v = Signature("engine", i.payload)
      BY <3>2, <3>3 DEF Signatures
    <3>5. v.over = i.payload
      BY <3>4 DEF Signature
    <3> QED BY <3>1, <3>4, <3>5
  <2> QED BY <1>0, <2>2, <2>4, <2>5 DEF SignedInv
<1>2. CASE ~\E v \in Signatures : r = [receipt EXCEPT !.sig = v]
  <2>1. r \in Receipts /\ r.sig = receipt.sig
    BY <1>2 DEF Altered, VInv, Receipts
  <2> QED BY <1>0, <2>1 DEF SignedInv, VInv
<1> QED BY <1>1, <1>2

\* A receipt leaves the engine as it was judged, signed or not.
LEMMA IssueStep ==
  ASSUME VInv, NEW x \in Contexts, NEW p \in Payloads, NEW s \in BOOLEAN,
         Issue(x, p, s)
  PROVE  VInv'
<1>1. asked' = NoOptions /\ result' = NoResult
  BY DEF Issue, Unverified
<1>2. issued' = issued \cup {[ctx |-> x, payload |-> p, signed |-> s]}
  BY DEF Issue
<1>3. receipt'.sig = IF s THEN Signature("engine", p) ELSE Unsigned
  BY DEF Issue
<1>4. receipt' \in Receipts
  <2>1. Signature("engine", p) \in [by : Signers, over : Payloads]
    BY DEF Signature, Signers
  <2> QED BY <2>1 DEF Issue, Receipts, Payloads
<1>5. SignedInv'
  <2> SUFFICES ASSUME NEW q \in Payloads, receipt'.sig = Signature("engine", q)
               PROVE  \E i \in issued' : i.signed /\ i.payload = q
    BY DEF SignedInv
  <2>1. receipt'.sig.by = "engine" /\ receipt'.sig.over = q
    BY DEF Signature
  <2>2. s
    <3> SUFFICES ASSUME ~s PROVE FALSE
      OBVIOUS
    <3> QED BY <1>3, <2>1 DEF Unsigned
  <2>3. q = p
    BY <1>3, <2>1, <2>2 DEF Signature
  <2> DEFINE w == [ctx |-> x, payload |-> p, signed |-> s]
  <2>4. w \in issued'
    BY <1>2
  <2>5. w.signed = s /\ w.payload = p
    OBVIOUS
  <2> HIDE DEF w
  <2> QED BY <2>2, <2>3, <2>4, <2>5
<1>6. HashInv'
  BY <1>2 DEF Issue, VInv, HashInv
<1>7. asked' \in Options
  BY <1>1 DEF NoOptions, Options, PublicKeys
<1> QED BY <1>1, <1>2, <1>4, <1>5, <1>6, <1>7 DEF VInv, ResultInv

LEMMA InvStep ==
  ASSUME VInv, [Next]_vars
  PROVE  VInv'
<1>1. ASSUME NEW x \in Contexts, NEW p \in Payloads, NEW s \in BOOLEAN,
             Issue(x, p, s)
      PROVE  VInv'
  BY <1>1, IssueStep
<1>2. ASSUME NEW r \in Altered, Alter(r) PROVE VInv'
  <2>1. receipt' \in Receipts /\ SignedInv'
    BY <1>2, AlterStep
  <2>2. issued' = issued /\ asked' = NoOptions /\ result' = NoResult
    BY <1>2 DEF Alter, Unverified
  <2>3. asked' \in Options
    BY <2>2 DEF NoOptions, Options, PublicKeys
  <2> QED BY <2>1, <2>2, <2>3 DEF VInv, HashInv, ResultInv
<1>3. ASSUME NEW o \in Options, Verify(o) PROVE VInv'
  BY <1>3 DEF Verify, VInv, SignedInv, HashInv, ResultInv
<1>4. CASE UNCHANGED vars
  BY <1>4 DEF vars, VInv, SignedInv, HashInv, ResultInv
<1> QED BY <1>1, <1>2, <1>3, <1>4 DEF Next

LEMMA InitInv == Init => VInv
<1> SUFFICES ASSUME Init PROVE VInv
  OBVIOUS
<1>1. receipt \in Receipts /\ asked \in Options
  BY DEF Init, NoReceipt, Receipts, NoOptions, Options, PublicKeys
<1>2. receipt.sig.by = "nobody"
  BY DEF Init, NoReceipt, Unsigned
<1>3. SignedInv
  BY <1>2 DEF SignedInv, Signature
<1> QED BY <1>1, <1>3 DEF Init, VInv, HashInv, ResultInv

\* Signatures, hashes and results are what they claim, in every behaviour.
THEOREM Invariant == Spec => []VInv
BY InitInv, InvStep, PTL DEF Spec

\* Verification returns a well-formed result for everything it can read (TypeOK).
THEOREM TypeCorrect == Spec => []TypeOK
<1>1. ASSUME VInv
      PROVE  /\ result \in [ok : BOOLEAN, signed : BOOLEAN,
                            valid : {"none", "yes", "no"},
                            recomputed : {"none", "unasked", "raised", "yes", "no"}]
             /\ result.valid # "none" => result.signed
  <2>1. CASE result = NoResult
    BY <2>1 DEF NoResult
  <2>2. CASE result = Verification(receipt, asked)
    <3>1. receipt \in Receipts /\ asked \in Options
      BY <1>1 DEF VInv
    <3> QED BY <2>2, <3>1, VerificationType
  <2> QED BY <1>1, <2>1, <2>2 DEF VInv, ResultInv
<1>2. VInv => TypeOK
  BY <1>1 DEF VInv, TypeOK
<1> QED BY <1>2, Invariant, PTL

-----------------------------------------------------------------------------
\* A result that passes is that of a verification.
LEMMA PassedResult ==
  ASSUME VInv, Accepts(result)
  PROVE  Accepts(Verification(receipt, asked))
BY DEF VInv, ResultInv, NoResult, Accepts

\* A signed receipt that passes require() is, in what the signature covers, one
\* the engine signed (AcceptedIsAuthentic).
THEOREM Authentic == Spec => []AcceptedIsAuthentic
<1>1. ASSUME VInv, Accepts(result), receipt.sig # Unsigned, asked.key # "other"
      PROVE  \E i \in issued : i.signed /\ i.payload = Payload(receipt)
  <2>1. asked.key = "engine" /\ SignatureHolds(receipt, asked.key)
    BY <1>1, PassedResult, WhatPasses DEF VInv, Signers
  <2>2. Payload(receipt) \in Payloads
    BY <1>1, PayloadType DEF VInv
  <2> QED BY <1>1, <2>1, <2>2 DEF VInv, SignedInv, SignatureHolds
<1>2. VInv => AcceptedIsAuthentic
  BY <1>1 DEF AcceptedIsAuthentic
<1> QED BY <1>2, Invariant, PTL

\* A receipt that passes require() with a recompute carries what the reference
\* evaluator gives (AcceptedIsReproduced).
THEOREM Reproducible == Spec => []AcceptedIsReproduced
<1>1. VInv => AcceptedIsReproduced
  BY PassedResult, WhatPasses DEF VInv, AcceptedIsReproduced, Reproduced
<1> QED BY <1>1, Invariant, PTL

\* With both checks, what passes proves that the engine judged this very
\* context, as the reference evaluator does (AcceptedIsDecided).
THEOREM Decided == Spec => []AcceptedIsDecided
<1>1. ASSUME VInv, Accepts(result), receipt.sig # Unsigned, asked.key # "other",
             asked.ctx # NoContext
      PROVE  \E i \in issued : /\ i.signed
                               /\ i.ctx = asked.ctx
                               /\ i.payload.decision = Reference[asked.ctx].decision
                               /\ i.payload.reasons = Reference[asked.ctx].reasons
  <2>1. asked.key = "engine" /\ SignatureHolds(receipt, asked.key)
    BY <1>1, PassedResult, WhatPasses DEF VInv, Signers
  <2>2. asked.ctx \in Contexts /\ Reproduced(receipt, Reference[asked.ctx])
    BY <1>1, PassedResult, WhatPasses DEF VInv
  <2>3. PICK i \in issued : i.signed /\ i.payload = Payload(receipt)
    BY <1>1, <2>1, PayloadType DEF VInv, SignedInv, SignatureHolds
  <2>4. /\ i.payload.decision = receipt.decision
        /\ i.payload.reasons = receipt.reasons
        /\ i.payload.snap = receipt.snap
    BY <2>3 DEF Payload
  <2>5. Reference[i.ctx].snap = Reference[asked.ctx].snap
    BY <1>1, <2>2, <2>4 DEF VInv, HashInv, Reproduced
  <2>6. i.ctx = asked.ctx
    BY <1>1, <2>2, <2>5, ReceiptAssumption DEF VInv
  <2> QED BY <2>2, <2>3, <2>4, <2>6 DEF Reproduced
<1>2. VInv => AcceptedIsDecided
  BY <1>1 DEF AcceptedIsDecided
<1> QED BY <1>2, Invariant, PTL

\* Asking for more never makes a receipt acceptable (MoreChecksAcceptLess).
THEOREM Monotone == Spec => []MoreChecksAcceptLess
<1>1. ASSUME NEW r \in Receipts, NEW o \in Options, Accepts(Verification(r, o))
      PROVE  /\ Accepts(Verification(r, [o EXCEPT !.ctx = NoContext]))
             /\ r.sig # Unsigned => \A k \in PublicKeys \ {o.key} :
                  ~Accepts(Verification(r, [o EXCEPT !.key = k]))
  <2>1. /\ r.decision # Absent /\ r.snap # Absent
        /\ r.sig # Unsigned => o.lib /\ o.key \in Signers /\ SignatureHolds(r, o.key)
    BY <1>1, WhatPasses
  <2>2. Accepts(Verification(r, [o EXCEPT !.ctx = NoContext]))
    <3> DEFINE w == [o EXCEPT !.ctx = NoContext]
    <3>1. w \in Options /\ w.ctx = NoContext /\ w.lib = o.lib /\ w.key = o.key
      BY DEF Options
    <3> HIDE DEF w
    <3>2. Accepts(Verification(r, w))
      BY <2>1, <3>1, IntegrityPasses
    <3> QED BY <3>2 DEF w
  <2>3. ASSUME r.sig # Unsigned, NEW k \in PublicKeys \ {o.key},
               Accepts(Verification(r, [o EXCEPT !.key = k]))
        PROVE  FALSE
    <3> DEFINE w == [o EXCEPT !.key = k]
    <3>1. w \in Options /\ w.key = k
      BY DEF Options
    <3>2. Accepts(Verification(r, w))
      BY <2>3
    <3> HIDE DEF w
    <3>3. k \in Signers /\ SignatureHolds(r, k)
      BY <2>3, <3>1, <3>2, WhatPasses
    <3> QED BY <2>1, <2>3, <3>3, OneSigner
  <2> QED BY <2>2, <2>3
<1>2. VInv => MoreChecksAcceptLess
  BY <1>1 DEF VInv, MoreChecksAcceptLess, ExitCode
<1> QED BY <1>2, Invariant, PTL
=============================================================================
