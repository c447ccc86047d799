-------------------------- MODULE SubmissionProofs --------------------------
(***************************************************************************)
(* Theorems about what is replayed and what is submitted, for every set of *)
(* contexts and descriptions, however malformed, and any number of edits   *)
(* and requests.  The invariants are that the replay on record is that of  *)
(* the context at hand, that the client leaves no id of its own behind in  *)
(* a context it was lent, and that a context which was built is still what *)
(* the builder made of its description.                                    *)
(*                                                                         *)
(* First the contexts: which pointers there are and which are objects,     *)
(* what is accepted at each, what the builders put there and what decide   *)
(* sees of it.  Then the hash, the request id and the omissions.  Last the *)
(* steps of the specification and its theorems.                            *)
(***************************************************************************)
EXTENDS Submission, TscRulesProofs, SequenceTheorems, WellFoundedInduction

ReplayIsCurrent == replayed = Replay(form, draft)

Unmarked == form # "shared" /\ ~named => RequestId \notin DOMAIN draft

SentIsSequence == \E S : sent \in Seq(S)

SInv == ReplayIsCurrent /\ Unmarked /\ SentIsSequence /\ CallsKeepTheirIds

-----------------------------------------------------------------------------
(* What sequences hold.                                                     *)

\* What two sequences hold, one after the other.
LEMMA RangeConcat ==
  ASSUME NEW S, NEW s \in Seq(S), NEW t \in Seq(S)
  PROVE  s \o t \in Seq(S) /\ Range(s \o t) = Range(s) \cup Range(t)
<1>1. /\ s \o t \in Seq(S) /\ Len(s \o t) = Len(s) + Len(t)
      /\ \A i \in 1 .. (Len(s) + Len(t)) :
           (s \o t)[i] = IF i <= Len(s) THEN s[i] ELSE t[i - Len(s)]
  OBVIOUS
<1> DEFINE u == s \o t
<1>2. /\ DOMAIN u = 1 .. (Len(s) + Len(t)) /\ DOMAIN s = 1 .. Len(s) /\ DOMAIN t = 1 .. Len(t)
      /\ Len(s) \in Nat /\ Len(t) \in Nat
  BY <1>1
<1>3. \A i \in 1 .. (Len(s) + Len(t)) :
           u[i] = IF i <= Len(s) THEN s[i] ELSE t[i - Len(s)]
  BY <1>1
<1> HIDE DEF u
<1>4. ASSUME NEW x \in Range(u) PROVE x \in Range(s) \cup Range(t)
  <2>1. PICK i \in 1 .. (Len(s) + Len(t)) : x = u[i]
    BY <1>2 DEF Range
  <2>2. CASE i <= Len(s)
    BY <1>2, <1>3, <2>1, <2>2 DEF Range
  <2>3. CASE ~(i <= Len(s))
    <3>1. i - Len(s) \in 1 .. Len(t)
      BY <1>2, <2>3
    <3> QED BY <1>2, <1>3, <2>1, <2>3, <3>1 DEF Range
  <2> QED BY <2>2, <2>3
<1>5. ASSUME NEW x \in Range(s) PROVE x \in Range(u)
  <2>1. PICK i \in 1 .. Len(s) : x = s[i]
    BY <1>2 DEF Range
  <2>2. i \in 1 .. (Len(s) + Len(t)) /\ u[i] = s[i]
    BY <1>2, <1>3
  <2> QED BY <1>2, <2>1, <2>2 DEF Range
<1>6. ASSUME NEW x \in Range(t) PROVE x \in Range(u)
  <2>1. PICK i \in 1 .. Len(t) : x = t[i]
    BY <1>2 DEF Range
  <2> DEFINE j == i + Len(s)
  <2>2. j \in 1 .. (Len(s) + Len(t)) /\ ~(j <= Len(s)) /\ j - Len(s) = i
    BY <1>2
  <2> HIDE DEF j
  <2> QED BY <1>2, <1>3, <2>1, <2>2 DEF Range
<1> QED BY <1>1, <1>4, <1>5, <1>6 DEF u

\* What Append adds.
LEMMA Appended ==
  ASSUME NEW S, NEW s \in Seq(S), NEW x \in S
  PROVE  /\ Append(s, x) \in Seq(S) /\ Len(Append(s, x)) = Len(s) + 1
         /\ \A i \in 1 .. Len(s) : Append(s, x)[i] = s[i]
         /\ Append(s, x)[Len(s) + 1] = x
BY AppendProperties

\* A key and one more.
LEMMA OneMore ==
  ASSUME NEW a, NEW b
  PROVE  Append(<<a>>, b) = <<a, b>>
<1> DEFINE s == <<a>>
           t == <<a, b>>
           S == {a, b}
<1>1. s \in Seq(S) /\ Len(s) = 1 /\ s[1] = a /\ b \in S
  OBVIOUS
<1>2. t \in Seq(S) /\ Len(t) = 2 /\ t[1] = a /\ t[2] = b
  OBVIOUS
<1>3. s \in Seq(S) /\ b \in S
  BY <1>1
<1> HIDE DEF s, t, S
<1>4. /\ Append(s, b) \in Seq(S) /\ Len(Append(s, b)) = Len(s) + 1
      /\ \A i \in 1 .. Len(s) : Append(s, b)[i] = s[i]
      /\ Append(s, b)[Len(s) + 1] = b
  BY <1>3, Appended
<1>5. Len(Append(s, b)) = 2 /\ Append(s, b)[1] = a /\ Append(s, b)[2] = b
  BY <1>1, <1>4
<1>6. \A i \in 1 .. 2 : Append(s, b)[i] = t[i]
  BY <1>2, <1>5
<1>7. Append(s, b) = t
  BY <1>2, <1>4, <1>5, <1>6, SeqEqual
<1> QED BY <1>7 DEF s, t

\* Two keys and one more.
LEMMA TwoMore ==
  ASSUME NEW a, NEW b, NEW c
  PROVE  Append(<<a, b>>, c) = <<a, b, c>>
<1> DEFINE s == <<a, b>>
           t == <<a, b, c>>
           S == {a, b, c}
<1>1. s \in Seq(S) /\ Len(s) = 2 /\ s[1] = a /\ s[2] = b /\ c \in S
  OBVIOUS
<1>2. t \in Seq(S) /\ Len(t) = 3 /\ t[1] = a /\ t[2] = b /\ t[3] = c
  OBVIOUS
<1>3. s \in Seq(S) /\ c \in S
  BY <1>1
<1> HIDE DEF s, t, S
<1>4. /\ Append(s, c) \in Seq(S) /\ Len(Append(s, c)) = Len(s) + 1
      /\ \A i \in 1 .. Len(s) : Append(s, c)[i] = s[i]
      /\ Append(s, c)[Len(s) + 1] = c
  BY <1>3, Appended
<1>5. /\ Len(Append(s, c)) = 3
      /\ Append(s, c)[1] = a /\ Append(s, c)[2] = b /\ Append(s, c)[3] = c
  BY <1>1, <1>4
<1>6. \A i \in 1 .. 3 : Append(s, c)[i] = t[i]
  BY <1>2, <1>5
<1>7. Append(s, c) = t
  BY <1>2, <1>4, <1>5, <1>6, SeqEqual
<1> QED BY <1>7 DEF s, t

\* A block is its own pointer and those of its fields.
LEMMA BlockPointers ==
  ASSUME NEW S, NEW b \in Seq(S), NEW f \in Seq(S)
  PROVE  /\ Block(b, f) \in Seq(Seq(S))
         /\ Range(Block(b, f)) = {b} \cup {Append(b, x) : x \in Range(f)}
<1> DEFINE g == [i \in DOMAIN f |-> Append(b, f[i])]
<1>1. g \in Seq(Seq(S)) /\ DOMAIN g = DOMAIN f
  <2>1. DOMAIN f = 1 .. Len(f) /\ Len(f) \in Nat /\ \A i \in DOMAIN f : f[i] \in S
    OBVIOUS
  <2>2. \A i \in DOMAIN f : Append(b, f[i]) \in Seq(S)
    <3>1. \A x \in S : Append(b, x) \in Seq(S)
      BY AppendProperties
    <3> QED BY <2>1, <3>1
  <2>3. g \in [1 .. Len(f) -> Seq(S)] /\ DOMAIN g = DOMAIN f
    BY <2>1, <2>2
  <2> HIDE DEF g
  <2>4. g \in Seq(Seq(S))
    <3> DEFINE U == Seq(S)
               n == Len(f)
    <3>1. n \in Nat /\ g \in [1 .. n -> U]
      BY <2>1, <2>3
    <3> HIDE DEF U, n
    <3>2. g \in Seq(U)
      BY <3>1, SeqDef
    <3> QED BY <3>2 DEF U
  <2> QED BY <2>3, <2>4
<1>2. <<b>> \in Seq(Seq(S)) /\ Range(<<b>>) = {b}
  BY DEF Range
<1>3. Range(g) = {Append(b, x) : x \in Range(f)}
  <2>1. /\ Range(f) = {f[i] : i \in DOMAIN f} /\ Range(g) = {g[i] : i \in DOMAIN g}
        /\ DOMAIN g = DOMAIN f /\ \A i \in DOMAIN f : g[i] = Append(b, f[i])
    BY DEF Range
  <2> HIDE DEF g
  <2>2. Range(g) = {Append(b, f[i]) : i \in DOMAIN f}
    BY <2>1
  <2> QED BY <2>1, <2>2
<1>4. Block(b, f) = <<b>> \o g
  BY DEF Block
<1> HIDE DEF g
<1>5. <<b>> \o g \in Seq(Seq(S)) /\ Range(<<b>> \o g) = Range(<<b>>) \cup Range(g)
  <2> DEFINE h == <<b>>
             U == Seq(S)
  <2>1. h \in Seq(U) /\ g \in Seq(U)
    BY <1>1, <1>2
  <2> HIDE DEF h, U
  <2>2. h \o g \in Seq(U) /\ Range(h \o g) = Range(h) \cup Range(g)
    BY <2>1, RangeConcat
  <2> QED BY <2>2 DEF h, U
<1> QED BY <1>1, <1>2, <1>3, <1>4, <1>5

-----------------------------------------------------------------------------
(* The pointers of a context.                                               *)

\* The keys at the top of a context, and the pointers below them.
Tops == {"tsc_version", "subject", "action", "provenance", "policy", "target", "tool",
         "permissions", "data", "signals", "client_request_id"}
Pairs ==
  UNION {{<<"subject", x>> : x \in {"kind", "id", "framework", "trust_tier"}},
         {<<"action", x>> : x \in {"kind", "operation", "intent"}},
         {<<"provenance", x>> : x \in {"source", "as_of", "attestation", "evidence_refs"}},
         {<<"policy", x>> : x \in {"id", "version"}},
         {<<"target", x>> : x \in {"kind", "identifier", "domain", "trust_tier"}},
         {<<"tool", x>> : x \in {"id", "capability_class", "requested_scopes", "granted_scopes"}},
         {<<"permissions", x>> : x \in {"requested", "granted", "policy_required"}},
         {<<"data", x>> : x \in {"classes", "egress"}},
         {<<"signals", x>> : x \in {"prompt_injection", "domain_age_days", "engagement_ratio",
                                    "scam_keyword_count", "onchain"}}}
Triples ==
  UNION {{<<"provenance", "attestation", x>> : x \in {"method", "verified"}},
         {<<"data", "egress", x>> : x \in {"to", "destination_trust"}},
         {<<"signals", "prompt_injection", x>> : x \in {"suspected", "patterns", "sample_ref"}}}

\* s is a sequence, and X is what it holds.
Holds(s, X) == Range(s) = X /\ \E S : s \in Seq(S)

\* What two sequences hold, they hold together.
LEMMA ConcatHolds ==
  ASSUME NEW s, NEW t, NEW X, NEW Y, Holds(s, X), Holds(t, Y)
  PROVE  Holds(s \o t, X \cup Y)
<1>1. PICK S : s \in Seq(S)
  BY DEF Holds
<1>2. PICK T : t \in Seq(T)
  BY DEF Holds
<1>3. s \in Seq(S \cup T) /\ t \in Seq(S \cup T)
  <2>1. S \subseteq S \cup T /\ T \subseteq S \cup T
    OBVIOUS
  <2> QED BY <1>1, <1>2, <2>1, SeqMonotonic
<1> QED BY <1>3, RangeConcat DEF Holds

\* What a list of up to four fields holds.
LEMMA FieldsHold ==
  ASSUME NEW a, NEW b, NEW c, NEW d
  PROVE  /\ Holds(<<a>>, {a}) /\ Holds(<<a, b>>, {a, b})
         /\ Holds(<<a, b, c>>, {a, b, c}) /\ Holds(<<a, b, c, d>>, {a, b, c, d})
<1> DEFINE S == {a, b, c, d}
<1>1. a \in S /\ b \in S /\ c \in S /\ d \in S
  OBVIOUS
<1> HIDE DEF S
<1>2. /\ <<a>> \in Seq(S) /\ <<a, b>> \in Seq(S)
      /\ <<a, b, c>> \in Seq(S) /\ <<a, b, c, d>> \in Seq(S)
  BY <1>1
<1>3. Range(<<a>>) = {a} /\ Range(<<a, b>>) = {a, b}
  BY DEF Range
<1>4. Range(<<a, b, c>>) = {a, b, c}
  BY DEF Range
<1>5. Range(<<a, b, c, d>>) = {a, b, c, d}
  BY DEF Range
<1> QED BY <1>2, <1>3, <1>4, <1>5 DEF Holds

\* The pointers of the fields F of block b, or of block c in b.
Below(b, F) == {<<b, v>> : v \in F}
Within(b, c, F) == {<<b, c, v>> : v \in F}

\* What the pointers of a block are; a block may be two words deep.
LEMMA BlockHolds ==
  ASSUME NEW f, NEW F, Holds(f, F), NEW b, NEW c
  PROVE  /\ Holds(Block(<<>>, f), {<<>>} \cup {<<x>> : x \in F})
         /\ Holds(Block(<<b>>, f), {<<b>>} \cup Below(b, F))
         /\ Holds(Tail(Block(<<b>>, f)), Below(b, F))
         /\ Holds(Block(<<b, c>>, f), {<<b, c>>} \cup Within(b, c, F))
<1>1. PICK S : f \in Seq(S)
  BY DEF Holds
<1>2. Range(f) = F
  BY DEF Holds
<1>3. ASSUME NEW T, NEW p \in Seq(T)
      PROVE  Holds(Block(p, f), {p} \cup {Append(p, x) : x \in F})
  <2> DEFINE U == S \cup T
  <2>1. p \in Seq(U) /\ f \in Seq(U)
    <3>1. S \subseteq U /\ T \subseteq U
      OBVIOUS
    <3> QED BY <1>1, <1>3, <3>1, SeqMonotonic
  <2> HIDE DEF U
  <2>2. /\ Block(p, f) \in Seq(Seq(U))
        /\ Range(Block(p, f)) = {p} \cup {Append(p, x) : x \in Range(f)}
    BY <2>1, BlockPointers
  <2> QED BY <1>2, <2>2 DEF Holds
<1>4. Holds(Block(<<>>, f), {<<>>} \cup {<<x>> : x \in F})
  <2>1. \A x : Append(<<>>, x) = <<x>>
    OBVIOUS
  <2>2. {Append(<<>>, x) : x \in F} = {<<x>> : x \in F}
    BY <2>1
  <2>3. <<>> \in Seq({})
    OBVIOUS
  <2> QED BY <1>3, <2>2, <2>3
<1>5. Holds(Block(<<b>>, f), {<<b>>} \cup Below(b, F))
  <2>1. {Append(<<b>>, x) : x \in F} = Below(b, F)
    BY OneMore DEF Below
  <2>2. <<b>> \in Seq({b})
    OBVIOUS
  <2> QED BY <1>3, <2>1, <2>2
<1>6. Holds(Block(<<b, c>>, f), {<<b, c>>} \cup Within(b, c, F))
  <2>1. {Append(<<b, c>>, x) : x \in F} = Within(b, c, F)
    BY TwoMore DEF Within
  <2>2. <<b, c>> \in Seq({b, c})
    OBVIOUS
  <2> QED BY <1>3, <2>1, <2>2
<1>7. Holds(Tail(Block(<<b>>, f)), Below(b, F))
  <2> DEFINE g == [i \in DOMAIN f |-> Append(<<b>>, f[i])]
             p == <<b>>
             T == {p} \cup Range(g)
  <2>1. g \in Seq(T) /\ p \in T
    <3>1. DOMAIN f = 1 .. Len(f) /\ Len(f) \in Nat
      BY <1>1
    <3>2. g \in [1 .. Len(f) -> Range(g)]
      BY <3>1 DEF Range
    <3>3. g \in [1 .. Len(f) -> T]
      BY <3>2
    <3> HIDE DEF g
    <3>4. g \in Seq(T)
      BY <3>1, <3>3
    <3> QED BY <3>4
  <2>2. Range(g) = Below(b, F)
    <3>1. Range(g) = {Append(<<b>>, f[i]) : i \in DOMAIN f}
      BY DEF Range
    <3>2. \A i \in DOMAIN f : Append(<<b>>, f[i]) = <<b, f[i]>>
      BY OneMore
    <3> QED BY <1>2, <3>1, <3>2 DEF Range, Below
  <2>3. Block(<<b>>, f) = <<p>> \o g
    BY DEF Block
  <2> HIDE DEF g, p, T
  <2>4. Tail(<<p>> \o g) = g
    BY <2>1
  <2> QED BY <2>1, <2>2, <2>3, <2>4 DEF Holds
<1> QED BY <1>4, <1>5, <1>6, <1>7

\* The blocks there are.
LEMMA Rows ==
  ASSUME NEW b, NEW c, NEW w, NEW x, NEW y, NEW z
  PROVE  /\ Holds(Block(<<b>>, <<w>>), {<<b>>} \cup Below(b, {w}))
         /\ Holds(Block(<<b>>, <<w, x>>), {<<b>>} \cup Below(b, {w, x}))
         /\ Holds(Block(<<b>>, <<w, x, y>>), {<<b>>} \cup Below(b, {w, x, y}))
         /\ Holds(Block(<<b>>, <<w, x, y, z>>), {<<b>>} \cup Below(b, {w, x, y, z}))
         /\ Holds(Tail(Block(<<b>>, <<w, x, y, z>>)), Below(b, {w, x, y, z}))
         /\ Holds(Block(<<b, c>>, <<w, x>>), {<<b, c>>} \cup Within(b, c, {w, x}))
         /\ Holds(Block(<<b, c>>, <<w, x, y>>), {<<b, c>>} \cup Within(b, c, {w, x, y}))
BY FieldsHold, BlockHolds, Zenon

\* The pointers normalize looks at before the request id.
LEMMA HashedHolds ==
  Holds(Hashed, {<<>>} \cup {<<a>> : a \in Tops \ {"client_request_id"}} \cup Pairs \cup Triples)
<1> DEFINE B1 == Block(<<>>, <<"tsc_version">>)
           B2 == Block(<<"subject">>, <<"kind", "id", "framework", "trust_tier">>)
           B3 == Block(<<"action">>, <<"kind", "operation", "intent">>)
           B4 == Block(<<"provenance">>, <<"source", "as_of">>)
           B5 == Block(<<"provenance", "attestation">>, <<"method", "verified">>)
           B6 == <<<<"provenance", "evidence_refs">>>>
           B7 == Block(<<"policy">>, <<"id", "version">>)
           B8 == Block(<<"target">>, <<"kind", "identifier", "domain", "trust_tier">>)
           B9 == Block(<<"tool">>, <<"id", "capability_class", "requested_scopes",
                                     "granted_scopes">>)
           B10 == Block(<<"permissions">>, <<"requested", "granted", "policy_required">>)
           B11 == Block(<<"data">>, <<"classes">>)
           B12 == Block(<<"data", "egress">>, <<"to", "destination_trust">>)
           B13 == <<<<"signals">>>>
           B14 == Block(<<"signals", "prompt_injection">>,
                        <<"suspected", "patterns", "sample_ref">>)
           B15 == Tail(Block(<<"signals">>, <<"domain_age_days", "engagement_ratio",
                                              "scam_keyword_count", "onchain">>))
           X1 == {<<>>} \cup {<<x>> : x \in {"tsc_version"}}
           X2 == {<<"subject">>} \cup
                   Below("subject", {"kind", "id", "framework", "trust_tier"})
           X3 == {<<"action">>} \cup Below("action", {"kind", "operation", "intent"})
           X4 == {<<"provenance">>} \cup Below("provenance", {"source", "as_of"})
           X5 == {<<"provenance", "attestation">>} \cup
                   Within("provenance", "attestation", {"method", "verified"})
           X6 == {<<"provenance", "evidence_refs">>}
           X7 == {<<"policy">>} \cup Below("policy", {"id", "version"})
           X8 == {<<"target">>} \cup
                   Below("target", {"kind", "identifier", "domain", "trust_tier"})
           X9 == {<<"tool">>} \cup Below("tool", {"id", "capability_class",
                                      "requested_scopes", "granted_scopes"})
           X10 == {<<"permissions">>} \cup
                    Below("permissions", {"requested", "granted", "policy_required"})
           X11 == {<<"data">>} \cup Below("data", {"classes"})
           X12 == {<<"data", "egress">>} \cup
                    Within("data", "egress", {"to", "destination_trust"})
           X13 == {<<"signals">>}
           X14 == {<<"signals", "prompt_injection">>} \cup
                    Within("signals", "prompt_injection", {"suspected", "patterns", "sample_ref"})
           X15 == Below("signals", {"domain_age_days", "engagement_ratio",
                                             "scam_keyword_count", "onchain"})
<1>1. Hashed = B1 \o B2 \o B3 \o B4 \o B5 \o B6 \o B7 \o B8
                \o B9 \o B10 \o B11 \o B12 \o B13 \o B14 \o B15
  BY DEF Hashed
<1>2. Holds(B1, X1) /\ Holds(B6, X6) /\ Holds(B13, X13)
  BY FieldsHold, BlockHolds
<1>3. Holds(B2, X2) /\ Holds(B3, X3) /\ Holds(B4, X4) /\ Holds(B5, X5)
  BY Rows
<1>4. Holds(B7, X7) /\ Holds(B8, X8) /\ Holds(B9, X9) /\ Holds(B10, X10)
  BY Rows
<1>5. Holds(B11, X11) /\ Holds(B12, X12) /\ Holds(B14, X14) /\ Holds(B15, X15)
  BY Rows
<1> DEFINE X == X1 \cup X2 \cup X3 \cup X4 \cup X5 \cup X6 \cup X7 \cup X8
                  \cup X9 \cup X10 \cup X11 \cup X12 \cup X13 \cup X14 \cup X15
           Y == {<<>>} \cup {<<a>> : a \in Tops \ {"client_request_id"}}
                  \cup Pairs \cup Triples
<1>6. X = Y
  <2>1. X \subseteq Y
    BY DEF Tops, Pairs, Triples, Below, Within
  <2>2. {<<>>} \cup {<<a>> : a \in Tops \ {"client_request_id"}} \subseteq X
    BY DEF Tops
  <2>3. Pairs \subseteq X
    BY DEF Pairs, Below
  <2>4. Triples \subseteq X
    BY DEF Triples, Within
  <2> QED BY <2>1, <2>2, <2>3, <2>4
<1> HIDE DEF B1, B2, B3, B4, B5, B6, B7, B8, B9, B10, B11, B12, B13, B14, B15
<1> HIDE DEF X1, X2, X3, X4, X5, X6, X7, X8, X9, X10, X11, X12, X13, X14, X15
<1>7. Holds(B1 \o B2 \o B3 \o B4, X1 \cup X2 \cup X3 \cup X4)
  BY <1>2, <1>3, ConcatHolds
<1>8. Holds(B1 \o B2 \o B3 \o B4 \o B5 \o B6 \o B7 \o B8,
            X1 \cup X2 \cup X3 \cup X4 \cup X5 \cup X6 \cup X7 \cup X8)
  BY <1>2, <1>3, <1>4, <1>7, ConcatHolds
<1>9. Holds(B1 \o B2 \o B3 \o B4 \o B5 \o B6 \o B7 \o B8 \o B9 \o B10 \o B11 \o B12,
            X1 \cup X2 \cup X3 \cup X4 \cup X5 \cup X6 \cup X7 \cup X8
              \cup X9 \cup X10 \cup X11 \cup X12)
  BY <1>4, <1>5, <1>8, ConcatHolds
<1>10. Holds(Hashed, X)
  BY <1>1, <1>2, <1>5, <1>9, ConcatHolds
<1> QED BY <1>6, <1>10

\* The request id comes after them, and once.
LEMMA IdComesLast ==
  /\ Len(Hashed) \in Nat /\ Len(Order) = Len(Hashed) + 1
  /\ DOMAIN Order = 1 .. Len(Order) /\ Order[Len(Order)] = RequestId
  /\ \A i \in 1 .. Len(Hashed) : Order[i] \in Range(Hashed) /\ Order[i] # RequestId
  /\ \A p \in Range(Hashed) : \E i \in 1 .. Len(Hashed) : Order[i] = p
<1>1. PICK S : Hashed \in Seq(S)
  BY HashedHolds DEF Holds
<1> DEFINE T == S \cup {RequestId}
           last == RequestId
<1>2. Hashed \in Seq(T) /\ last \in T
  <2>1. S \subseteq T
    OBVIOUS
  <2> QED BY <1>1, <2>1, SeqMonotonic
<1>3. RequestId \notin Range(Hashed)
  <2>1. /\ RequestId # <<>> /\ \A a \in Tops \ {"client_request_id"} : RequestId # <<a>>
        /\ RequestId \notin Pairs /\ RequestId \notin Triples
    BY DEF RequestId, Pairs, Triples
  <2>2. Range(Hashed) = {<<>>} \cup {<<a>> : a \in Tops \ {"client_request_id"}}
                          \cup Pairs \cup Triples
    BY HashedHolds DEF Holds
  <2> QED BY <2>1, <2>2
<1>4. Order = Append(Hashed, last)
  BY DEF Order
<1> HIDE DEF T, last
<1>5. /\ Order \in Seq(T) /\ Len(Order) = Len(Hashed) + 1
      /\ \A i \in 1 .. Len(Hashed) : Order[i] = Hashed[i]
      /\ Order[Len(Hashed) + 1] = last
  BY <1>2, <1>4, Appended
<1>6. Len(Hashed) \in Nat /\ DOMAIN Hashed = 1 .. Len(Hashed) /\ DOMAIN Order = 1 .. Len(Order)
  BY <1>2, <1>5
<1>7. \A i \in 1 .. Len(Hashed) : Order[i] \in Range(Hashed)
  BY <1>5, <1>6 DEF Range
<1>8. \A p \in Range(Hashed) : \E i \in 1 .. Len(Hashed) : Order[i] = p
  BY <1>5, <1>6 DEF Range
<1> QED BY <1>3, <1>5, <1>6, <1>7, <1>8 DEF last

\* The pointers normalize looks at.
LEMMA PointersAre == Pointers = {<<>>} \cup {<<a>> : a \in Tops} \cup Pairs \cup Triples
<1>1. Range(Order) = {Order[i] : i \in 1 .. Len(Order)}
  BY IdComesLast DEF Range
<1>2. ASSUME NEW i \in 1 .. Len(Order)
      PROVE  Order[i] \in Range(Hashed) \cup {RequestId}
  <2>1. CASE i = Len(Order)
    BY <2>1, IdComesLast
  <2>2. CASE i # Len(Order)
    <3>1. i \in 1 .. Len(Hashed)
      BY <2>2, IdComesLast
    <3> QED BY <3>1, IdComesLast
  <2> QED BY <2>1, <2>2
<1>3. Len(Order) \in 1 .. Len(Order) /\ 1 .. Len(Hashed) \subseteq 1 .. Len(Order)
  BY IdComesLast
<1>4. Pointers = Range(Hashed) \cup {RequestId}
  BY <1>1, <1>2, <1>3, IdComesLast DEF Pointers
<1>5. Range(Hashed) = {<<>>} \cup {<<a>> : a \in Tops \ {"client_request_id"}}
                        \cup Pairs \cup Triples
  BY HashedHolds DEF Holds
<1>6. {<<a>> : a \in Tops} = {<<a>> : a \in Tops \ {"client_request_id"}} \cup {RequestId}
  <2>1. "client_request_id" \in Tops
    BY DEF Tops
  <2> QED BY <2>1 DEF RequestId
<1> QED BY <1>4, <1>5, <1>6

\* Which pointers are objects.
Blocks == Tops \ {"tsc_version", "client_request_id"}
Nested == {<<"provenance", "attestation">>, <<"data", "egress">>,
           <<"signals", "prompt_injection">>}

\* What a pointer of two keys looks like.
LEMMA PairShape ==
  ASSUME NEW q \in Pairs
  PROVE  Len(q) = 2 /\ q = <<q[1], q[2]>> /\ q[1] \in Blocks
BY DEF Pairs, Blocks, Tops

\* And of three.
LEMMA TripleShape ==
  ASSUME NEW q \in Triples
  PROVE  Len(q) = 3 /\ q = <<q[1], q[2], q[3]>> /\ <<q[1], q[2]>> \in Nested /\ q[1] \in Blocks
<1>1. CASE \E x : q = <<"provenance", "attestation", x>>
  BY <1>1 DEF Nested, Blocks, Tops
<1>2. CASE \E x : q = <<"data", "egress", x>>
  BY <1>2 DEF Nested, Blocks, Tops
<1>3. CASE \E x : q = <<"signals", "prompt_injection", x>>
  BY <1>3 DEF Nested, Blocks, Tops
<1> QED BY <1>1, <1>2, <1>3 DEF Triples

\* Every pointer has at most three keys.
LEMMA PointerCases ==
  ASSUME NEW p \in Pointers
  PROVE  \/ Len(p) = 0 /\ p = <<>>
         \/ Len(p) = 1 /\ p[1] \in Tops /\ p = <<p[1]>>
         \/ Len(p) = 2 /\ p \in Pairs
         \/ Len(p) = 3 /\ p \in Triples
<1>1. CASE p = <<>>
  BY <1>1
<1>2. CASE \E a \in Tops : p = <<a>>
  BY <1>2
<1>3. CASE p \in Pairs
  BY <1>3, PairShape
<1>4. CASE p \in Triples
  BY <1>4, TripleShape
<1> QED BY <1>1, <1>2, <1>3, <1>4, PointersAre

\* Only the pointers of three keys are longer than two.
LEMMA Depth ==
  ASSUME NEW p \in Pointers
  PROVE  ~(Len(p) > 3) /\ (p \in Triples \/ ~(Len(p) > 2))
<1>1. CASE p = <<>>
  BY <1>1
<1>2. CASE p = <<p[1]>>
  <2>1. Len(<<p[1]>>) = 1
    OBVIOUS
  <2>2. Len(p) = 1
    BY <1>2, <2>1
  <2> QED BY <2>2
<1>3. CASE p \in Pairs
  <2>1. Len(p) = 2
    BY <1>3, PairShape
  <2> QED BY <2>1
<1>4. CASE p \in Triples
  <2>1. Len(p) = 3
    BY <1>4, TripleShape
  <2> QED BY <1>4, <2>1
<1> QED BY <1>1, <1>2, <1>3, <1>4, PointerCases

\* The objects are the context, its blocks and three objects in them.
LEMMA ObjectsAre == Objects = {<<>>} \cup {<<a>> : a \in Blocks} \cup Nested
<1>1. <<>> \in Objects
  <2>1. <<"subject">> \in Pointers /\ <<>> \in Pointers
    BY PointersAre DEF Tops
  <2>2. Len(<<"subject">>) > Len(<<>>) /\ DOMAIN <<>> = {}
    OBVIOUS
  <2> QED BY <2>1, <2>2 DEF Objects, Inside
<1>2. ASSUME NEW a \in Blocks PROVE <<a>> \in Objects
  <2>1. <<a>> \in Pointers
    BY PointersAre DEF Blocks
  <2>2. \E x : <<a, x>> \in Pairs
    BY DEF Blocks, Tops, Pairs
  <2>3. PICK x : <<a, x>> \in Pointers
    BY <2>2, PointersAre
  <2>4. Len(<<a, x>>) > Len(<<a>>) /\ DOMAIN <<a>> = {1} /\ <<a, x>>[1] = <<a>>[1]
    OBVIOUS
  <2> QED BY <2>1, <2>3, <2>4 DEF Objects, Inside
<1>3. ASSUME NEW a, NEW b, <<a, b>> \in Nested PROVE <<a, b>> \in Objects
  <2>1. <<a, b>> \in Pairs /\ \E x : <<a, b, x>> \in Triples
    BY <1>3 DEF Nested, Pairs, Triples
  <2>2. <<a, b>> \in Pointers /\ \E x : <<a, b, x>> \in Pointers
    BY <2>1, PointersAre
  <2>3. PICK x : <<a, b, x>> \in Pointers
    BY <2>2
  <2>4. /\ Len(<<a, b, x>>) > Len(<<a, b>>) /\ DOMAIN <<a, b>> = {1, 2}
        /\ <<a, b, x>>[1] = <<a, b>>[1] /\ <<a, b, x>>[2] = <<a, b>>[2]
    OBVIOUS
  <2> QED BY <2>2, <2>3, <2>4 DEF Objects, Inside
<1>4. ASSUME NEW p \in Objects PROVE p \in {<<>>} \cup {<<a>> : a \in Blocks} \cup Nested
  <2>1. PICK q \in Pointers : Len(q) > Len(p) /\ \A i \in DOMAIN p : q[i] = p[i]
    BY DEF Objects, Inside
  <2>2. p \in Pointers
    BY DEF Objects
  <2>3. CASE p[1] \in Tops /\ p = <<p[1]>>
    <3>1. PICK a \in Tops : p = <<a>>
      BY <2>3
    <3>2. Len(q) > 1 /\ q[1] = a
      BY <2>1, <3>1
    <3>3. q \in Pairs \cup Triples
      BY <3>2, PointerCases
    <3>4. a \in Blocks
      BY <3>2, <3>3, PairShape, TripleShape
    <3> QED BY <3>1, <3>4
  <2>4. CASE p \in Pairs
    <3>1. Len(p) = 2 /\ p = <<p[1], p[2]>>
      BY <2>4, PairShape
    <3>2. DOMAIN p = {1, 2}
      BY <3>1
    <3>3. Len(q) > 2 /\ q[1] = p[1] /\ q[2] = p[2]
      BY <2>1, <3>1, <3>2
    <3>4. q \in Triples \/ ~(Len(q) > 2)
      BY <2>1, Depth
    <3>5. q \in Triples
      BY <3>3, <3>4
    <3> QED BY <3>1, <3>3, <3>5, TripleShape
  <2>5. CASE p \in Triples
    <3>1. Len(p) = 3
      BY <2>5, TripleShape
    <3>2. ~(Len(q) > 3)
      BY <2>1, Depth
    <3>3. Len(q) > 3
      BY <2>1, <3>1
    <3>4. FALSE
      BY <3>2, <3>3
    <3> QED BY <3>4
  <2> QED BY <2>2, <2>3, <2>4, <2>5, PointerCases
<1>5. ASSUME NEW p \in Nested PROVE p \in Objects
  BY <1>3 DEF Nested
<1> QED BY <1>1, <1>2, <1>4, <1>5

\* All but the last key.
LEMMA FrontType ==
  ASSUME NEW S, NEW s \in Seq(S), s # <<>>
  PROVE  /\ Front(s) \in Seq(S) /\ Len(Front(s)) = Len(s) - 1
         /\ \A i \in 1 .. (Len(s) - 1) : Front(s)[i] = s[i]
<1>1. Len(s) \in Nat \ {0} /\ \A i \in 1 .. Len(s) : s[i] \in S
  BY EmptySeq, ElementOfSeq
<1>2. \A i \in 1 .. (Len(s) - 1) : s[i] \in S
  BY <1>1
<1> DEFINE n == Len(s) - 1
<1>3. n \in Int /\ 1 \in Int /\ (\A i \in 1 .. n : s[i] \in S) /\ n \in Nat
  BY <1>1, <1>2
<1>4. /\ SubSeq(s, 1, n) \in Seq(S)
      /\ Len(SubSeq(s, 1, n)) = IF 1 <= n THEN n - 1 + 1 ELSE 0
      /\ \A i \in 1 .. (n - 1 + 1) : SubSeq(s, 1, n)[i] = s[1 + i - 1]
  <2> HIDE DEF n
  <2> QED BY <1>3, SubSeqProperties
<1>5. /\ SubSeq(s, 1, n) \in Seq(S)
      /\ Len(SubSeq(s, 1, n)) = n
      /\ \A i \in 1 .. n : SubSeq(s, 1, n)[i] = s[i]
  <2> HIDE DEF n
  <2> QED BY <1>3, <1>4
<1> QED BY <1>5 DEF Front

\* The object around a pointer.
LEMMA Fronts ==
  /\ \A a : Front(<<a>>) = <<>>
  /\ \A a, b : Front(<<a, b>>) = <<a>>
  /\ \A a, b, c : Front(<<a, b, c>>) = <<a, b>>
<1>1. ASSUME NEW a PROVE Front(<<a>>) = <<>>
  BY DEF Front
<1>2. ASSUME NEW a, NEW b PROVE Front(<<a, b>>) = <<a>>
  <2> DEFINE s == <<a, b>>
             t == <<a>>
             S == {a, b}
  <2>1. s \in Seq(S) /\ Len(s) = 2 /\ s[1] = a /\ s # <<>>
    OBVIOUS
  <2>2. t \in Seq(S) /\ Len(t) = 1 /\ t[1] = a
    OBVIOUS
  <2> HIDE DEF s, t, S
  <2>3. /\ Front(s) \in Seq(S) /\ Len(Front(s)) = Len(s) - 1
        /\ \A i \in 1 .. (Len(s) - 1) : Front(s)[i] = s[i]
    BY <2>1, FrontType
  <2>4. Front(s) = t
    BY <2>1, <2>2, <2>3, SeqEqual
  <2> QED BY <2>4 DEF s, t
<1>3. ASSUME NEW a, NEW b, NEW c PROVE Front(<<a, b, c>>) = <<a, b>>
  <2> DEFINE s == <<a, b, c>>
             t == <<a, b>>
             S == {a, b, c}
  <2>1. s \in Seq(S) /\ Len(s) = 3 /\ s[1] = a /\ s[2] = b /\ s # <<>>
    OBVIOUS
  <2>2. t \in Seq(S) /\ Len(t) = 2 /\ t[1] = a /\ t[2] = b
    OBVIOUS
  <2> HIDE DEF s, t, S
  <2>3. /\ Front(s) \in Seq(S) /\ Len(Front(s)) = Len(s) - 1
        /\ \A i \in 1 .. (Len(s) - 1) : Front(s)[i] = s[i]
    BY <2>1, FrontType
  <2>4. Front(s) = t
    BY <2>1, <2>2, <2>3, SeqEqual
  <2> QED BY <2>4 DEF s, t
<1> QED BY <1>1, <1>2, <1>3

\* Every pointer but the first is in an object.
LEMMA FrontIsObject ==
  ASSUME NEW p \in Pointers, p # <<>>
  PROVE  Front(p) \in Objects
<1>1. CASE p = <<p[1]>>
  BY <1>1, Fronts, ObjectsAre
<1>2. CASE p \in Pairs
  BY <1>2, PairShape, Fronts, ObjectsAre
<1>3. CASE p \in Triples
  <2>1. p = <<p[1], p[2], p[3]>> /\ <<p[1], p[2]>> \in Nested
    BY <1>3, TripleShape
  <2>2. Front(p) = <<p[1], p[2]>>
    BY <2>1, Fronts
  <2> QED BY <2>1, <2>2, ObjectsAre
<1> QED BY <1>1, <1>2, <1>3, PointerCases

\* What a prefix is, key by key.
LEMMA PrefixMeaning ==
  ASSUME NEW S, NEW s \in Seq(S), NEW t \in Seq(S)
  PROVE  IsPrefix(s, t) <=> Len(s) <= Len(t) /\ \A i \in 1 .. Len(s) : s[i] = t[i]
<1> DEFINE n == Len(s)
<1>1. Len(s) \in Nat /\ Len(t) \in Nat /\ n = Len(s)
  BY LenProperties
<1> HIDE DEF n
<1> SUFFICES ASSUME n <= Len(t)
             PROVE  SubSeq(s, 1, n) = SubSeq(t, 1, n) <=> \A i \in 1 .. n : s[i] = t[i]
  BY <1>1 DEF IsPrefix
<1>2. /\ n \in Int /\ n \in Nat
      /\ \A i \in 1 .. n : s[i] \in S /\ t[i] \in S
  BY <1>1, ElementOfSeq
<1>3. ASSUME NEW r \in {s, t}
      PROVE  /\ SubSeq(r, 1, n) \in Seq(S) /\ Len(SubSeq(r, 1, n)) = n
             /\ \A i \in 1 .. n : SubSeq(r, 1, n)[i] = r[i]
  <2>1. /\ SubSeq(r, 1, n) \in Seq(S)
        /\ Len(SubSeq(r, 1, n)) = IF 1 <= n THEN n - 1 + 1 ELSE 0
        /\ \A i \in 1 .. (n - 1 + 1) : SubSeq(r, 1, n)[i] = r[1 + i - 1]
    BY <1>2, SubSeqProperties
  <2> QED BY <1>2, <2>1
<1>4. SubSeq(s, 1, n) = SubSeq(t, 1, n) => \A i \in 1 .. n : s[i] = t[i]
  BY <1>3
<1>5. (\A i \in 1 .. n : s[i] = t[i]) => SubSeq(s, 1, n) = SubSeq(t, 1, n)
  BY <1>3, SeqEqual
<1> QED BY <1>4, <1>5

-----------------------------------------------------------------------------
(* The values normalize accepts at a pointer.                               *)

\* The pointers that are no objects.
Fields == Pointers \ Objects

\* Where nothing is found that cannot be encoded, or that is hashed,
Coded == UNION {Flags, Numbers, Enums, {<<"data", "classes">>, RequestId}}

\* and whatever else is no free text of any kind.
Typed == UNION {Coded, Lists, Labels, {<<"tsc_version">>}}

\* None of them is an object.
LEMMA TypedAreNotObjects == Typed \cap Objects = {}
BY ObjectsAre DEF Typed, Coded, Lists, Labels, Flags, Numbers, Enums, OtherEnums, Tiers,
   RequestId, Blocks, Tops, Nested

\* An object is accepted where one belongs.
LEMMA ObjectAccepted ==
  ASSUME NEW p \in Objects
  PROVE  Accepted(p) = {"object"}
<1>1. p \notin Typed
  BY TypedAreNotObjects
<1>2. /\ p \notin Lists /\ p \notin Labels /\ p \notin Flags /\ p \notin Numbers
      /\ p \notin Tiers /\ p \notin OtherEnums
      /\ p # <<"data", "classes">> /\ p # RequestId /\ p # <<"tsc_version">>
      /\ p # <<"action", "kind">> /\ p # <<"provenance", "source">>
      /\ p # <<"tool", "capability_class">>
  BY <1>1 DEF Typed, Coded, Enums
<1> QED BY <1>2 DEF Accepted

\* A list of scopes.
LEMMA ListsAccepted ==
  ASSUME NEW p \in Lists
  PROVE  p \in Fields /\ Accepted(p) = SUBSET (Scopes \cup {Unencodable})
<1>1. p \in Pairs /\ p \in Typed
  BY DEF Lists, Pairs, Typed
<1>2. p \in Pointers /\ p \notin Objects
  BY <1>1, PointersAre, TypedAreNotObjects
<1>3. /\ p \notin Labels /\ p \notin Flags /\ p \notin Numbers
      /\ p \notin Tiers /\ p \notin OtherEnums
      /\ p # <<"data", "classes">> /\ p # RequestId /\ p # <<"tsc_version">>
      /\ p # <<"action", "kind">> /\ p # <<"provenance", "source">>
      /\ p # <<"tool", "capability_class">>
  BY DEF Lists, Labels, Flags, Numbers, Tiers, OtherEnums, RequestId
<1> QED BY <1>2, <1>3 DEF Accepted, Fields

\* A trust tier.
LEMMA TiersAccepted ==
  ASSUME NEW p \in Tiers
  PROVE  p \in Fields /\ Accepted(p) = Trusts /\ "invalid_type" \in Faults(p)
<1>1. p \in Pairs \cup Triples /\ p \in Typed /\ p \in Enums /\ p # <<>>
  BY DEF Tiers, Pairs, Triples, Typed, Coded, Enums
<1>2. p \in Pointers /\ p \notin Objects
  BY <1>1, PointersAre, TypedAreNotObjects
<1>3. /\ p \notin Lists /\ p \notin Labels /\ p \notin Flags /\ p \notin Numbers
      /\ p \notin OtherEnums
      /\ p # <<"data", "classes">> /\ p # RequestId /\ p # <<"tsc_version">>
      /\ p # <<"action", "kind">> /\ p # <<"provenance", "source">>
      /\ p # <<"tool", "capability_class">>
      /\ p # <<"signals", "onchain">> /\ p # <<"signals", "engagement_ratio">>
  BY DEF Lists, Labels, Flags, Numbers, Tiers, OtherEnums, RequestId
<1>4. Accepted(p) = Trusts
  BY <1>2, <1>3 DEF Accepted
<1>5. Faults(p) = {"invalid_type", "invalid_enum"}
  BY <1>1, <1>2, <1>3 DEF Faults
<1> QED BY <1>2, <1>4, <1>5 DEF Fields

\* An enumeration decide does not read.
LEMMA OtherEnumsAccepted ==
  ASSUME NEW p \in OtherEnums
  PROVE  p \in Fields /\ Accepted(p) = {Default(p), "other"}
<1>1. p \in Pairs \cup Triples /\ p \in Typed
  BY DEF OtherEnums, Pairs, Triples, Typed, Coded, Enums
<1>2. p \in Pointers /\ p \notin Objects
  BY <1>1, PointersAre, TypedAreNotObjects
<1>3. /\ p \notin Lists /\ p \notin Labels /\ p \notin Flags /\ p \notin Numbers
      /\ p \notin Tiers
      /\ p # <<"data", "classes">> /\ p # RequestId /\ p # <<"tsc_version">>
      /\ p # <<"action", "kind">> /\ p # <<"provenance", "source">>
      /\ p # <<"tool", "capability_class">>
  BY DEF Lists, Labels, Flags, Numbers, Tiers, OtherEnums, RequestId
<1> QED BY <1>2, <1>3 DEF Accepted, Fields

\* A flag.
LEMMA FlagsAccepted ==
  ASSUME NEW p \in Flags
  PROVE  p \in Fields /\ Accepted(p) = BOOLEAN
<1>1. p \in Pairs \cup Triples /\ p \in Typed
  BY DEF Flags, Pairs, Triples, Typed, Coded
<1>2. p \in Pointers /\ p \notin Objects
  BY <1>1, PointersAre, TypedAreNotObjects
<1>3. /\ p \notin Lists /\ p \notin Labels /\ p \notin Numbers
      /\ p \notin Tiers /\ p \notin OtherEnums
      /\ p # <<"data", "classes">> /\ p # RequestId /\ p # <<"tsc_version">>
      /\ p # <<"action", "kind">> /\ p # <<"provenance", "source">>
      /\ p # <<"tool", "capability_class">>
  BY DEF Lists, Labels, Flags, Numbers, Tiers, OtherEnums, RequestId
<1> QED BY <1>2, <1>3 DEF Accepted, Fields

\* A list of free texts.
LEMMA LabelsAccepted ==
  ASSUME NEW p \in Labels
  PROVE  p \in Fields /\ Accepted(p) = SUBSET (Texts \cup {Unencodable})
<1>1. p \in Pairs \cup Triples /\ p \in Typed
  BY DEF Labels, Pairs, Triples, Typed
<1>2. p \in Pointers /\ p \notin Objects
  BY <1>1, PointersAre, TypedAreNotObjects
<1>3. /\ p \notin Lists /\ p \notin Flags /\ p \notin Numbers
      /\ p \notin Tiers /\ p \notin OtherEnums
      /\ p # <<"data", "classes">> /\ p # RequestId /\ p # <<"tsc_version">>
      /\ p # <<"action", "kind">> /\ p # <<"provenance", "source">>
      /\ p # <<"tool", "capability_class">>
  BY DEF Lists, Labels, Flags, Numbers, Tiers, OtherEnums, RequestId
<1> QED BY <1>2, <1>3 DEF Accepted, Fields

\* The pointers that are a kind of their own, and two free texts.
Single == {<<"tsc_version">>, RequestId, <<"data", "classes">>, <<"action", "kind">>,
           <<"provenance", "source">>, <<"tool", "capability_class">>}
Named == {<<"target", "identifier">>, <<"data", "egress", "to">>}

\* Each of these.
LEMMA OthersAccepted ==
  /\ Single \subseteq Fields /\ Named \subseteq Fields
  /\ Accepted(<<"tsc_version">>) = {"2.0", Unencodable} /\ Accepted(RequestId) = Ids \cup {""}
  /\ Accepted(<<"data", "classes">>) = SUBSET Classes
  /\ Accepted(<<"action", "kind">>) = Actions
  /\ Accepted(<<"provenance", "source">>) = Sources
  /\ Accepted(<<"tool", "capability_class">>) = Capabilities
  /\ \A p \in Named : Accepted(p) = Texts \cup {Unencodable}
<1>1. Single \subseteq Typed
  BY DEF Single, Typed, Coded, Enums
<1>2. Single \subseteq Pointers /\ Named \subseteq Pointers
  <2>1. {<<"tsc_version">>, RequestId} \subseteq Pointers
    BY PointersAre DEF RequestId, Tops
  <2>2. {<<"data", "classes">>, <<"action", "kind">>, <<"provenance", "source">>,
         <<"tool", "capability_class">>, <<"target", "identifier">>} \subseteq Pairs
    BY DEF Pairs
  <2>3. <<"data", "egress", "to">> \in Triples
    BY DEF Triples
  <2> QED BY <2>1, <2>2, <2>3, PointersAre DEF Single, Named
<1>3. \A p \in Single \cup Named :
        p \notin Lists /\ p \notin Labels /\ p \notin Flags /\ p \notin Numbers
          /\ p \notin Tiers /\ p \notin OtherEnums
  BY DEF Single, Named, Lists, Labels, Flags, Numbers, Tiers, OtherEnums, RequestId
<1>4. Single \cap Objects = {}
  BY <1>1, TypedAreNotObjects
<1>5. Named \cap Objects = {}
  BY ObjectsAre DEF Named, Blocks, Tops, Nested
<1>6. Named \cap Single = {}
  BY DEF Named, Single, RequestId
<1>7. \A p \in Named : Accepted(p) = Texts \cup {Unencodable}
  <2> SUFFICES ASSUME NEW p \in Named PROVE Accepted(p) = Texts \cup {Unencodable}
    OBVIOUS
  <2>1. p \notin Single /\ p \notin Objects
    BY <1>5, <1>6
  <2>2. /\ p # <<"data", "classes">> /\ p # RequestId /\ p # <<"tsc_version">>
        /\ p # <<"action", "kind">> /\ p # <<"provenance", "source">>
        /\ p # <<"tool", "capability_class">>
    BY <2>1 DEF Single
  <2> QED BY <1>3, <2>1, <2>2 DEF Accepted
<1>8. ASSUME NEW p \in Single
      PROVE  /\ p = <<"tsc_version">> => Accepted(p) = {"2.0", Unencodable}
             /\ p = RequestId => Accepted(p) = Ids \cup {""}
  <2>1. /\ p \notin Objects /\ p \notin Lists /\ p \notin Labels /\ p \notin Flags
        /\ p \notin Numbers /\ p \notin Tiers /\ p \notin OtherEnums
    BY <1>3, <1>4
  <2>2. CASE p = <<"tsc_version">>
    BY <2>1, <2>2 DEF Accepted, RequestId
  <2>3. CASE p = RequestId
    BY <2>1, <2>3 DEF Accepted, RequestId
  <2> QED BY <2>2, <2>3
<1>9. ASSUME NEW p \in Single
      PROVE  /\ p = <<"data", "classes">> => Accepted(p) = SUBSET Classes
             /\ p = <<"action", "kind">> => Accepted(p) = Actions
             /\ p = <<"provenance", "source">> => Accepted(p) = Sources
             /\ p = <<"tool", "capability_class">> => Accepted(p) = Capabilities
  <2>1. /\ p \notin Objects /\ p \notin Lists /\ p \notin Labels /\ p \notin Flags
        /\ p \notin Numbers /\ p \notin Tiers /\ p \notin OtherEnums
    BY <1>3, <1>4
  <2>2. CASE p = <<"data", "classes">>
    BY <2>1, <2>2 DEF Accepted, RequestId
  <2>3. CASE p = <<"action", "kind">>
    BY <2>1, <2>3 DEF Accepted, RequestId
  <2>4. CASE p = <<"provenance", "source">>
    BY <2>1, <2>4 DEF Accepted, RequestId
  <2>5. CASE p = <<"tool", "capability_class">>
    BY <2>1, <2>5 DEF Accepted, RequestId
  <2> QED BY <2>2, <2>3, <2>4, <2>5
<1> QED BY <1>2, <1>4, <1>5, <1>7, <1>8, <1>9 DEF Fields, Single

-----------------------------------------------------------------------------
(* The dicts of the builders.                                               *)

\* The keys of the pointers.
Keys == {p[i] : p \in Pointers, i \in 1 .. 3}

\* Pointers are sequences of keys.
LEMMA PointersAreSequences == Pointers \subseteq Seq(Keys)
<1> SUFFICES ASSUME NEW p \in Pointers PROVE p \in Seq(Keys)
  OBVIOUS
<1>1. p[1] \in Keys /\ p[2] \in Keys /\ p[3] \in Keys
  BY DEF Keys
<1> HIDE DEF Keys
<1>2. \A a, b, c \in Keys : /\ <<>> \in Seq(Keys) /\ <<a>> \in Seq(Keys)
                            /\ <<a, b>> \in Seq(Keys) /\ <<a, b, c>> \in Seq(Keys)
  OBVIOUS
<1>3. p = <<>> \/ p = <<p[1]>> \/ p = <<p[1], p[2]>> \/ p = <<p[1], p[2], p[3]>>
  BY PointerCases, PairShape, TripleShape
<1> QED BY <1>1, <1>2, <1>3

\* The object around a pointer is around whatever that pointer is around.
LEMMA Enclosing ==
  ASSUME NEW p \in Pointers, NEW q \in Pointers, p # <<>>, IsPrefix(p, q)
  PROVE  IsPrefix(Front(p), q) /\ IsPrefix(p, p) /\ Front(p) \in Pointers
<1>1. p \in Seq(Keys) /\ q \in Seq(Keys)
  BY PointersAreSequences
<1>2. Len(p) <= Len(q) /\ \A i \in 1 .. Len(p) : p[i] = q[i]
  BY <1>1, PrefixMeaning
<1>3. /\ Front(p) \in Seq(Keys) /\ Len(Front(p)) = Len(p) - 1
      /\ \A i \in 1 .. (Len(p) - 1) : Front(p)[i] = p[i]
  BY <1>1, FrontType
<1>4. Len(p) \in Nat /\ Len(q) \in Nat
  BY <1>1
<1>5. Len(Front(p)) <= Len(q) /\ \A i \in 1 .. Len(Front(p)) : Front(p)[i] = q[i]
  BY <1>2, <1>3, <1>4
<1>6. IsPrefix(Front(p), q)
  BY <1>1, <1>3, <1>5, PrefixMeaning
<1>7. IsPrefix(p, p)
  BY <1>1, <1>4, PrefixMeaning
<1>8. Front(p) \in Pointers
  BY FrontIsObject DEF Objects
<1> QED BY <1>6, <1>7, <1>8

\* The objects around a field.
LEMMA AroundMeaning ==
  ASSUME NEW p \in Pointers
  PROVE  /\ Around(p) \subseteq Objects /\ <<>> \in Around(p)
         /\ p # <<>> => Front(p) \in Around(p)
         /\ \A q \in Around(p) : q # <<>> => Front(q) \in Around(p)
<1>1. <<>> \in Objects
  BY ObjectsAre
<1>2. IsPrefix(<<>>, p)
  <2>1. p \in Seq(Keys) /\ <<>> \in Seq(Keys) /\ Len(<<>>) = 0
    BY PointersAreSequences
  <2>2. Len(p) \in Nat /\ Len(<<>>) <= Len(p) /\ 1 .. Len(<<>>) = {}
    BY <2>1
  <2>3. \A i \in 1 .. Len(<<>>) : <<>>[i] = p[i]
    BY <2>2
  <2> QED BY <2>1, <2>2, <2>3, PrefixMeaning
<1>3. ASSUME p # <<>> PROVE Front(p) \in Around(p)
  <2>1. IsPrefix(p, p)
    <3>1. p \in Seq(Keys)
      BY PointersAreSequences
    <3>2. Len(p) \in Nat
      BY <3>1
    <3> QED BY <3>1, <3>2, PrefixMeaning
  <2> QED BY <1>3, <2>1, Enclosing, FrontIsObject DEF Around
<1>4. ASSUME NEW q \in Around(p), q # <<>> PROVE Front(q) \in Around(p)
  <2>1. q \in Objects /\ IsPrefix(q, p) /\ q \in Pointers
    BY DEF Around, Objects
  <2> QED BY <1>4, <2>1, Enclosing, FrontIsObject DEF Around
<1> QED BY <1>1, <1>2, <1>3, <1>4 DEF Around

\* The entries of a dict are fields, and what they hold is accepted there, or is
\* the None a builder keeps.
Described(E) ==
  /\ E # {}
  /\ \A e \in E : /\ e.at \in Fields
                  /\ \/ e.value \in Accepted(e.at)
                     \/ e.value = None /\ "invalid_type" \in Faults(e.at)

\* What is in a dict: its entries and the objects around them.
LEMMA DictDomain ==
  ASSUME NEW E
  PROVE  \A p : p \in DOMAIN Dict(E) <=> \E e \in E : p = e.at \/ p \in Around(e.at)
BY DEF Dict

\* What a dict holds, and where.
LEMMA DictMeaning ==
  ASSUME NEW E, Described(E)
  PROVE  \A p \in DOMAIN Dict(E) :
           \/ p \in Objects /\ Dict(E)[p] = Good("object")
           \/ \E e \in E : /\ e.at = p /\ p \notin Objects
                           /\ e.value # None => Dict(E)[p] = Good(e.value)
                           /\ e.value = None => Dict(E)[p] = Fault("invalid_type")
<1> DEFINE value == [p \in {e.at : e \in E} |-> (CHOOSE e \in E : e.at = p).value]
<1>1. \A p \in DOMAIN Dict(E) :
        Dict(E)[p] = IF p \in Objects THEN Good("object")
                     ELSE IF value[p] = None THEN Fault("invalid_type") ELSE Good(value[p])
  BY DEF Dict
<1>2. ASSUME NEW p \in DOMAIN Dict(E), p \notin Objects
      PROVE  \E e \in E : e.at = p /\ value[p] = e.value
  <2>1. PICK f \in E : f.at = p
    BY <1>2, DictDomain DEF Around
  <2> DEFINE c == CHOOSE e \in E : e.at = p
  <2>2. c \in E /\ c.at = p
    BY <2>1
  <2>3. value[p] = c.value
    BY <2>1
  <2> HIDE DEF c, value
  <2> QED BY <2>2, <2>3
<1> HIDE DEF value
<1>3. ASSUME NEW p \in DOMAIN Dict(E)
      PROVE  \/ p \in Objects /\ Dict(E)[p] = Good("object")
             \/ \E e \in E : /\ e.at = p /\ p \notin Objects
                             /\ e.value # None => Dict(E)[p] = Good(e.value)
                             /\ e.value = None => Dict(E)[p] = Fault("invalid_type")
  <2>1. CASE p \in Objects
    BY <1>1, <2>1
  <2>2. CASE p \notin Objects
    <3>1. PICK e \in E : e.at = p /\ value[p] = e.value
      BY <1>2, <2>2
    <3> QED BY <1>1, <2>2, <3>1
  <2> QED BY <2>1, <2>2
<1> QED BY <1>3

\* A dict is a JSON value.
LEMMA DictIsRaw ==
  ASSUME NEW E, Described(E)
  PROVE  RawContext(Dict(E))
<1>1. \A e \in E : e.at \in Pointers
  BY DEF Described, Fields
<1>2. <<>> \in DOMAIN Dict(E) /\ DOMAIN Dict(E) \subseteq Pointers
  <2>1. PICK e \in E : TRUE
    BY DEF Described
  <2>2. <<>> \in Around(e.at)
    BY <1>1, AroundMeaning
  <2>3. <<>> \in DOMAIN Dict(E)
    BY <2>2, DictDomain
  <2>4. \A f \in E : Around(f.at) \subseteq Pointers
    BY <1>1 DEF Around, Objects
  <2> QED BY <1>1, <2>3, <2>4, DictDomain
<1>3. ASSUME NEW p \in DOMAIN Dict(E)
      PROVE  Dict(E)[p] \in Raw(p)
  <2>1. CASE p \in Objects /\ Dict(E)[p] = Good("object")
    <3>1. "object" \in Accepted(p)
      BY <2>1, ObjectAccepted
    <3> QED BY <2>1, <3>1 DEF Raw
  <2>2. CASE \E e \in E : /\ e.at = p /\ p \notin Objects
                          /\ e.value # None => Dict(E)[p] = Good(e.value)
                          /\ e.value = None => Dict(E)[p] = Fault("invalid_type")
    <3>1. PICK e \in E : /\ e.at = p
                         /\ e.value # None => Dict(E)[p] = Good(e.value)
                         /\ e.value = None => Dict(E)[p] = Fault("invalid_type")
      BY <2>2
    <3>2. \/ e.value \in Accepted(p) /\ e.value # None
          \/ e.value = None /\ "invalid_type" \in Faults(p)
      BY <1>1, <3>1, BuilderAssumption DEF Described
    <3> QED BY <3>1, <3>2 DEF Raw
  <2> QED BY <2>1, <2>2, DictMeaning
<1>4. ASSUME NEW p \in DOMAIN Dict(E), p # <<>>
      PROVE  Front(p) \in DOMAIN Dict(E) /\ Dict(E)[Front(p)] = Good("object")
  <2>1. PICK e \in E : p = e.at \/ p \in Around(e.at)
    BY DictDomain
  <2>2. Front(p) \in Around(e.at)
    BY <1>1, <1>4, <2>1, AroundMeaning
  <2>3. Front(p) \in Objects /\ Front(p) \in DOMAIN Dict(E)
    BY <2>2, DictDomain DEF Around
  <2>4. Dict(E)[Front(p)] = Good("object")
    BY <2>3, DictMeaning
  <2> QED BY <2>3, <2>4
<1> QED BY <1>2, <1>3, <1>4 DEF RawContext

-----------------------------------------------------------------------------
(* What the builders put into them.                                         *)

\* What the hash can write down at a field.
Written(p, v) ==
  \/ p \in Coded
  \/ p \in Lists \cup Labels /\ Unencodable \notin v
  \/ p \notin Lists \cup Labels /\ v # Unencodable

\* An entry normalize accepts, and the hash can write down.
Fitting(e) == e.at \in Fields /\ e.value \in Accepted(e.at) /\ Written(e.at, e.value)

\* An entry with a value that is accepted fits; one without leaves no trace.
LEMMA EntryFits ==
  ASSUME NEW p \in Fields, NEW v, v # None => v \in Accepted(p) /\ Written(p, v)
  PROVE  \A e \in Entry(p, v) : Fitting(e)
BY DEF Entry, Exactly, Fitting

\* The sections every context has fit.
LEMMA SectionsFit ==
  ASSUME NEW d, IsDescription(d), NEW kind \in Actions, NEW source \in Sources,
         NEW e \in Sections(kind, source, d)
  PROVE  Fitting(e)
<1>1. /\ {RequestId, <<"action", "kind">>, <<"provenance", "source">>} \subseteq Fields \cap Coded
      /\ Ids \subseteq Accepted(RequestId)
      /\ kind \in Accepted(<<"action", "kind">>) /\ source \in Accepted(<<"provenance", "source">>)
  BY OthersAccepted DEF Single, Coded, Enums
<1>2. /\ <<"tsc_version">> \in Fields /\ "2.0" \in Accepted(<<"tsc_version">>)
      /\ Written(<<"tsc_version">>, "2.0")
  BY OthersAccepted DEF Single, Written, Lists, Labels, Unencodable
<1>3. /\ {<<"subject", "kind">>, <<"subject", "framework">>} \subseteq Fields \cap Coded
      /\ "other" \in Accepted(<<"subject", "kind">>)
      /\ {"unknown", "other"} \subseteq Accepted(<<"subject", "framework">>)
  <2>1. {<<"subject", "kind">>, <<"subject", "framework">>} \subseteq OtherEnums \cap Coded
    BY DEF OtherEnums, Coded, Enums
  <2>2. Default(<<"subject", "framework">>) = "unknown"
    BY DEF Default
  <2> QED BY <2>1, <2>2, OtherEnumsAccepted
<1>4. d.framework # None => d.framework \in Accepted(<<"subject", "framework">>)
  BY <1>3 DEF IsDescription
<1>5. d.id # None => d.id \in Accepted(RequestId)
  BY <1>1 DEF IsDescription
<1>6. /\ \A f \in Entry(<<"tsc_version">>, "2.0") : Fitting(f)
      /\ \A f \in Entry(<<"subject", "kind">>, "other") : Fitting(f)
      /\ \A f \in Entry(<<"subject", "framework">>, d.framework) : Fitting(f)
      /\ \A f \in Entry(<<"action", "kind">>, kind) : Fitting(f)
      /\ \A f \in Entry(<<"provenance", "source">>, source) : Fitting(f)
      /\ \A f \in Entry(RequestId, d.id) : Fitting(f)
  <2>1. \A p \in Coded : \A v : Written(p, v)
    BY DEF Written
  <2> QED BY <1>2, <1>1, <1>3, <1>4, <1>5, <2>1, EntryFits
<1> QED BY <1>6 DEF Sections

\* What data_egress says fits, but for the tier it keeps when it is None.
LEMMA EgressFits ==
  ASSUME NEW d, IsDescription(d), NEW e \in DataEgress(d)
  PROVE  \/ Fitting(e)
         \/ e.at \in Tiers /\ e.value = None /\ d.destination_trust = None
<1>1. Or(d.provenance, "adapter_derived") \in Sources
  BY BuilderAssumption DEF IsDescription, Or
<1>2. \A f \in Sections("data_egress", Or(d.provenance, "adapter_derived"), d) : Fitting(f)
  BY <1>1, SectionsFit, BuilderAssumption
<1>3. \A f \in Entry(<<"target", "kind">>, "other") : Fitting(f)
  <2>1. <<"target", "kind">> \in OtherEnums \cap Coded
    BY DEF OtherEnums, Coded, Enums
  <2> QED BY <2>1, OtherEnumsAccepted, EntryFits DEF Written
<1>4. Or(d.target, "text") \in Texts
  BY BuilderAssumption DEF IsDescription, Or
<1>5. /\ \A f \in Entry(<<"target", "identifier">>, Or(d.target, "text")) : Fitting(f)
      /\ \A f \in Entry(<<"data", "egress", "to">>, Or(d.target, "text")) : Fitting(f)
  <2>1. {<<"target", "identifier">>, <<"data", "egress", "to">>} \subseteq Named
    BY DEF Named
  <2>2. \A p \in Named : p \in Fields /\ Or(d.target, "text") \in Accepted(p)
    BY <1>4, OthersAccepted
  <2>3. \A p \in Named : Written(p, Or(d.target, "text"))
    BY <1>4, BuilderAssumption DEF Written, Named, Lists, Labels
  <2> QED BY <2>1, <2>2, <2>3, EntryFits
<1>6. \A f \in Entry(<<"data", "classes">>, Or(ListOr(d.data_class), {"unknown"})) : Fitting(f)
  <2>1. Or(ListOr(d.data_class), {"unknown"}) \in SUBSET Classes
    BY NormalizeAssumption DEF IsDescription, Or, ListOr
  <2>2. <<"data", "classes">> \in Fields \cap Coded
    BY OthersAccepted DEF Single, Coded
  <2> QED BY <2>1, <2>2, OthersAccepted, EntryFits DEF Written
<1>7. ASSUME NEW p \in Tiers, NEW f \in Exactly(p, d.destination_trust)
      PROVE  \/ Fitting(f)
             \/ f.at \in Tiers /\ f.value = None /\ d.destination_trust = None
  <2>1. f.at = p /\ f.value = d.destination_trust
    BY <1>7 DEF Exactly
  <2>2. p \in Fields /\ Accepted(p) = Trusts /\ p \in Coded
    BY TiersAccepted DEF Coded, Enums
  <2>3. d.destination_trust \in Trusts \cup {None}
    BY DEF IsDescription
  <2> QED BY <2>1, <2>2, <2>3 DEF Fitting, Written
<1>8. {<<"target", "trust_tier">>, <<"data", "egress", "destination_trust">>} \subseteq Tiers
  BY DEF Tiers
<1> QED BY <1>2, <1>3, <1>5, <1>6, <1>7, <1>8 DEF DataEgress

\* The entries of a list argument.
LEMMA ListFits ==
  ASSUME NEW p \in Lists, NEW v \in SUBSET Scopes
  PROVE  \A e \in Entry(p, ListOr(v)) : Fitting(e)
<1>1. p \in Fields /\ v \in Accepted(p)
  BY ListsAccepted
<1>2. Written(p, v)
  BY BuilderAssumption DEF Written
<1>3. ListOr(v) = v \/ ListOr(v) = None
  BY DEF ListOr
<1> QED BY <1>1, <1>2, <1>3, EntryFits

\* The entry of a trust tier.
LEMMA TierFits ==
  ASSUME NEW p \in Tiers, NEW v \in Trusts \cup {None}
  PROVE  \A e \in Entry(p, v) : Fitting(e)
<1>1. p \in Fields /\ p \in Coded /\ Accepted(p) = Trusts
  BY TiersAccepted DEF Coded, Enums
<1> QED BY <1>1, EntryFits DEF Written

\* The entry of a capability class.
LEMMA CapabilityFits ==
  ASSUME NEW v \in Capabilities
  PROVE  \A e \in Entry(<<"tool", "capability_class">>, v) : Fitting(e)
<1>1. <<"tool", "capability_class">> \in Fields \cap Coded
  BY OthersAccepted DEF Single, Coded, Enums
<1> QED BY <1>1, OthersAccepted, EntryFits DEF Written

\* What payment says fits.
LEMMA PaymentFits ==
  ASSUME NEW d, IsDescription(d), NEW e \in Payment(d)
  PROVE  Fitting(e)
<1>1. Or(d.provenance, "client_asserted") \in Sources
  BY ReferenceAssumption DEF IsDescription, Or
<1>2. \A f \in Sections("payment", Or(d.provenance, "client_asserted"), d) : Fitting(f)
  BY <1>1, SectionsFit, BuilderAssumption
<1>3. (IF d.trust_tier = "unknown" THEN "unverified" ELSE d.trust_tier) \in Trusts \cup {None}
  BY BuilderAssumption DEF IsDescription
<1>4. \A f \in Entry(<<"subject", "trust_tier">>,
                     IF d.trust_tier = "unknown" THEN "unverified" ELSE d.trust_tier) : Fitting(f)
  <2>1. <<"subject", "trust_tier">> \in Tiers
    BY DEF Tiers
  <2> QED BY <1>3, <2>1, TierFits
<1>5. \A f \in Entry(<<"tool", "capability_class">>, "financial") : Fitting(f)
  BY BuilderAssumption, CapabilityFits
<1>6. /\ \A f \in Entry(<<"tool", "granted_scopes">>, ListOr(d.granted_scopes)) : Fitting(f)
      /\ \A f \in Entry(<<"permissions", "granted">>, ListOr(d.granted_scopes)) : Fitting(f)
  <2>1. {<<"tool", "granted_scopes">>, <<"permissions", "granted">>} \subseteq Lists
    BY DEF Lists
  <2>2. d.granted_scopes \in SUBSET Scopes
    BY DEF IsDescription
  <2> QED BY <2>1, <2>2, ListFits
<1> QED BY <1>2, <1>4, <1>5, <1>6 DEF Payment

\* What tool_call says fits.
LEMMA ToolCallFits ==
  ASSUME NEW d, IsDescription(d), NEW e \in ToolCall(d)
  PROVE  Fitting(e)
<1>1. Or(d.provenance, "adapter_derived") \in Sources
  BY BuilderAssumption DEF IsDescription, Or
<1>2. \A f \in Sections("tool_call", Or(d.provenance, "adapter_derived"), d) : Fitting(f)
  BY <1>1, SectionsFit, BuilderAssumption
<1>3. \A f \in Entry(<<"subject", "trust_tier">>, d.trust_tier) : Fitting(f)
  <2>1. <<"subject", "trust_tier">> \in Tiers /\ d.trust_tier \in Trusts \cup {None}
    BY DEF Tiers, IsDescription
  <2> QED BY <2>1, TierFits
<1>4. \A f \in Entry(<<"tool", "capability_class">>, Or(d.capability_class, "other")) : Fitting(f)
  <2>1. Or(d.capability_class, "other") \in Capabilities
    BY BuilderAssumption DEF IsDescription, Or
  <2> QED BY <2>1, CapabilityFits
<1>5. /\ d.granted_scopes \in SUBSET Scopes /\ d.requested_scopes \in SUBSET Scopes
      /\ d.policy_required \in SUBSET Scopes
  BY DEF IsDescription
<1>6. /\ \A f \in Entry(<<"tool", "granted_scopes">>, ListOr(d.granted_scopes)) : Fitting(f)
      /\ \A f \in Entry(<<"tool", "requested_scopes">>, ListOr(d.requested_scopes)) : Fitting(f)
      /\ \A f \in Entry(<<"permissions", "granted">>, ListOr(d.granted_scopes)) : Fitting(f)
      /\ \A f \in Entry(<<"permissions", "requested">>, ListOr(d.requested_scopes)) : Fitting(f)
      /\ \A f \in Entry(<<"permissions", "policy_required">>, ListOr(d.policy_required)) :
           Fitting(f)
  <2>1. {<<"tool", "granted_scopes">>, <<"permissions", "granted">>,
         <<"tool", "requested_scopes">>, <<"permissions", "requested">>,
         <<"permissions", "policy_required">>} \subseteq Lists
    BY DEF Lists
  <2> QED BY <1>5, <2>1, ListFits
<1>7. \A f \in Entry(<<"signals", "prompt_injection", "suspected">>, d.injection_suspected) :
        Fitting(f)
  <2>1. <<"signals", "prompt_injection", "suspected">> \in Flags \cap Coded
    BY DEF Flags, Coded
  <2>2. d.injection_suspected # None => d.injection_suspected \in BOOLEAN
    BY DEF IsDescription
  <2>3. Written(<<"signals", "prompt_injection", "suspected">>, d.injection_suspected)
    BY <2>1 DEF Written
  <2> QED BY <2>1, <2>2, <2>3, FlagsAccepted, EntryFits
<1>8. \A f \in Entry(<<"signals", "prompt_injection", "patterns">>,
                  ListOr(d.injection_patterns)) : Fitting(f)
  <2>1. <<"signals", "prompt_injection", "patterns">> \in Labels
    BY DEF Labels
  <2>2. ListOr(d.injection_patterns) # None => ListOr(d.injection_patterns) \in SUBSET Texts
    BY DEF IsDescription, ListOr
  <2>3. ListOr(d.injection_patterns) # None =>
          Written(<<"signals", "prompt_injection", "patterns">>, ListOr(d.injection_patterns))
    BY <2>1, <2>2, BuilderAssumption DEF Written
  <2> QED BY <2>1, <2>2, <2>3, LabelsAccepted, EntryFits
<1> QED BY <1>2, <1>3, <1>4, <1>6, <1>7, <1>8 DEF ToolCall

\* Defaults are filled in at pointers only, in objects that are there.
LEMMA DefaultedArePointers == Defaulted \subseteq Pointers /\ Defaulted \subseteq Coded
<1>1. Defaulted \subseteq Pairs \cup Triples
  BY DEF Defaulted, Tiers, Pairs, Triples
<1>2. Defaulted \subseteq Coded
  BY DEF Defaulted, Tiers, Coded, Flags, Enums, OtherEnums
<1> QED BY <1>1, <1>2, PointersAre

\* What is required is among the entries.
Complete(E) ==
  \A p \in {<<"tsc_version">>, <<"subject", "kind">>, <<"action", "kind">>,
            <<"provenance", "source">>} : \E e \in E : e.at = p

\* With these come the objects around them.
LEMMA CompleteIsThere ==
  ASSUME NEW E, Complete(E)
  PROVE  Required \cup {<<"tsc_version">>} \subseteq DOMAIN Dict(E)
<1>1. ASSUME NEW a, NEW b, <<a, b>> \in Pointers, \E e \in E : e.at = <<a, b>>
      PROVE  <<a>> \in DOMAIN Dict(E)
  <2>1. Front(<<a, b>>) = <<a>> /\ <<a, b>> # <<>>
    BY Fronts
  <2>2. <<a>> \in Around(<<a, b>>)
    BY <1>1, <2>1, AroundMeaning
  <2> QED BY <1>1, <2>2, DictDomain
<1>2. {<<"subject", "kind">>, <<"action", "kind">>, <<"provenance", "source">>} \subseteq Pointers
  <2>1. {<<"subject", "kind">>, <<"action", "kind">>, <<"provenance", "source">>} \subseteq Pairs
    BY DEF Pairs
  <2> QED BY <2>1, PointersAre
<1>3. <<"tsc_version">> \in DOMAIN Dict(E)
  BY DictDomain DEF Complete
<1> QED BY <1>1, <1>2, <1>3 DEF Complete, Required

\* Such a dict is judged.
LEMMA FittingIsJudged ==
  ASSUME NEW E, Complete(E), \A e \in E : Fitting(e)
  PROVE  Described(E) /\ Evaluate(Dict(E)).kind = "judged"
<1> DEFINE raw == Dict(E)
<1>1. Described(E)
  BY DEF Described, Complete, Fitting
<1>2. \A p \in DOMAIN raw :
        \/ p \in Objects /\ raw[p] = Good("object")
        \/ \E e \in E : /\ e.at = p /\ p \notin Objects /\ raw[p] = Good(e.value)
                        /\ Written(p, e.value)
  <2>1. \A e \in E : e.value # None /\ Written(e.at, e.value)
    <3>1. \A e \in E : e.at \in Pointers /\ e.value \in Accepted(e.at)
      BY DEF Fitting, Fields
    <3> QED BY <3>1, BuilderAssumption DEF Fitting
  <2> QED BY <1>1, <2>1, DictMeaning
<1>3. Required \cup {<<"tsc_version">>} \subseteq DOMAIN raw
  BY CompleteIsThere
<1> HIDE DEF raw
<1>4. \A p \in DOMAIN raw : IsGood(raw[p])
  BY <1>2 DEF IsGood, Good
<1>5. Problems(raw) = {}
  BY <1>3, <1>4 DEF Problems, Problem
<1>6. Hashable(Normal(raw))
  <2>1. ASSUME NEW p \in DOMAIN Normal(raw), p \notin Coded, p \notin Objects
        PROVE  Written(p, Normal(raw)[p])
    <3>1. p \notin Defaulted
      BY <2>1, DefaultedArePointers
    <3>2. p \in DOMAIN raw
      BY <3>1 DEF Normal
    <3>3. PICK e \in E : raw[p] = Good(e.value) /\ Written(p, e.value)
      BY <1>2, <2>1, <3>2
    <3>4. Normal(raw)[p] = e.value
      BY <3>2, <3>3 DEF Normal, Good
    <3> QED BY <3>3, <3>4
  <2>2. \A p \in FreeTexts : p \notin Coded /\ p \notin Objects /\ p \notin Lists \cup Labels
    BY DEF FreeTexts, Coded
  <2>3. \A p \in Lists \cup Labels : p \notin Coded /\ p \notin Objects
    <3>1. (Lists \cup Labels) \cap Coded = {}
      BY DEF Lists, Labels, Coded, Flags, Numbers, Enums, OtherEnums, Tiers, RequestId
    <3> QED BY <3>1, TypedAreNotObjects DEF Typed
  <2> QED BY <2>1, <2>2, <2>3 DEF Written, Hashable
<1>7. Evaluate(raw).kind = "judged"
  BY <1>5, <1>6 DEF Evaluate
<1> QED BY <1>1, <1>7 DEF raw

\* Every context the builders make holds the sections.
LEMMA SectionsComplete ==
  ASSUME NEW d, NEW kind \in Actions, NEW source \in Sources, NEW E,
         Sections(kind, source, d) \subseteq E
  PROVE  Complete(E)
<1>1. {<<"action", "kind">>, <<"provenance", "source">>, <<"tsc_version">>} \subseteq Fields
      /\ <<"subject", "kind">> \in Fields
  <2>1. <<"subject", "kind">> \in OtherEnums
    BY DEF OtherEnums
  <2> QED BY <2>1, OtherEnumsAccepted, OthersAccepted DEF Single
<1>2. kind # None /\ source # None /\ "2.0" # None /\ "other" # None
  <2>1. /\ kind \in Accepted(<<"action", "kind">>)
        /\ source \in Accepted(<<"provenance", "source">>)
        /\ "2.0" \in Accepted(<<"tsc_version">>)
    BY OthersAccepted
  <2>2. "other" \in Accepted(<<"subject", "kind">>)
    BY OtherEnumsAccepted DEF OtherEnums
  <2> QED BY <1>1, <2>1, <2>2, BuilderAssumption DEF Fields
<1>3. /\ [at |-> <<"tsc_version">>, value |-> "2.0"] \in E
      /\ [at |-> <<"subject", "kind">>, value |-> "other"] \in E
      /\ [at |-> <<"action", "kind">>, value |-> kind] \in E
      /\ [at |-> <<"provenance", "source">>, value |-> source] \in E
  <2>1. /\ Entry(<<"tsc_version">>, "2.0") \subseteq E
        /\ Entry(<<"subject", "kind">>, "other") \subseteq E
        /\ Entry(<<"action", "kind">>, kind) \subseteq E
        /\ Entry(<<"provenance", "source">>, source) \subseteq E
    BY DEF Sections
  <2> QED BY <1>2, <2>1 DEF Entry, Exactly
<1> QED BY <1>3 DEF Complete

\* The dict of entries the builder of a description makes.
Entries(d) == CASE Route(d) = "data_egress" -> DataEgress(d)
                [] Route(d) = "payment" -> Payment(d)
                [] Route(d) = "tool_call" -> ToolCall(d)

\* The action selects the builder.
LEMMA RouteCases ==
  ASSUME NEW d
  PROVE  /\ Build(d) = Dict(Entries(d))
         /\ \/ Route(d) = "data_egress" /\ Entries(d) = DataEgress(d)
            \/ Route(d) = "payment" /\ Entries(d) = Payment(d)
            \/ Route(d) = "tool_call" /\ Entries(d) = ToolCall(d)
BY DEF Build, Entries, Route

\* They all say what is required.
LEMMA EntriesComplete ==
  ASSUME NEW d, IsDescription(d)
  PROVE  Complete(Entries(d))
<1>1. /\ Or(d.provenance, "adapter_derived") \in Sources
      /\ Or(d.provenance, "client_asserted") \in Sources
  BY BuilderAssumption, ReferenceAssumption DEF IsDescription, Or
<1>2. /\ Sections("data_egress", Or(d.provenance, "adapter_derived"), d) \subseteq DataEgress(d)
      /\ Sections("payment", Or(d.provenance, "client_asserted"), d) \subseteq Payment(d)
      /\ Sections("tool_call", Or(d.provenance, "adapter_derived"), d) \subseteq ToolCall(d)
  BY DEF DataEgress, Payment, ToolCall
<1> QED BY <1>1, <1>2, SectionsComplete, RouteCases, BuilderAssumption

\* Every entry fits, but for a destination_trust that is explicitly None.
LEMMA EntriesFit ==
  ASSUME NEW d, IsDescription(d), NEW e \in Entries(d)
  PROVE  \/ Fitting(e)
         \/ /\ e.at \in Tiers /\ e.value = None
            /\ Route(d) = "data_egress" /\ d.destination_trust = None
BY RouteCases, EgressFits, PaymentFits, ToolCallFits

\* So what they make is a dict of entries,
LEMMA BuiltIsDescribed ==
  ASSUME NEW d, IsDescription(d)
  PROVE  Described(Entries(d))
<1>1. Entries(d) # {}
  BY EntriesComplete DEF Complete
<1>2. \A e \in Entries(d) :
        /\ e.at \in Fields
        /\ e.value \in Accepted(e.at) \/ (e.value = None /\ "invalid_type" \in Faults(e.at))
  BY EntriesFit, TiersAccepted DEF Fitting
<1> QED BY <1>1, <1>2 DEF Described

\* a JSON value,
LEMMA BuiltIsRaw ==
  ASSUME NEW d, IsDescription(d)
  PROVE  RawContext(Build(d))
BY BuiltIsDescribed, DictIsRaw, RouteCases

\* and judged.
LEMMA BuildersAreJudged ==
  ASSUME NEW d, IsDescription(d)
  PROVE  \/ Evaluate(Build(d)).kind = "judged"
         \/ Route(d) = "data_egress" /\ d.destination_trust = None
<1>1. SUFFICES ASSUME ~(Route(d) = "data_egress" /\ d.destination_trust = None)
               PROVE  Evaluate(Build(d)).kind = "judged"
  OBVIOUS
<1>2. \A e \in Entries(d) : Fitting(e)
  BY <1>1, EntriesFit
<1> QED BY <1>2, EntriesComplete, FittingIsJudged, RouteCases

-----------------------------------------------------------------------------
(* What decide sees of a context.                                           *)

\* What normalize does not refuse is what it accepts.
LEMMA FaultsAreErrors == \A p : "ok" \notin Faults(p)
BY DEF Faults

\* Nothing in a context that is judged is refused.
LEMMA JudgedIsGood ==
  ASSUME NEW raw, RawContext(raw), Evaluate(raw).kind = "judged", NEW p \in DOMAIN raw
  PROVE  \E v \in Accepted(p) : raw[p] = Good(v)
<1>1. p \in Pointers /\ raw[p] \in Raw(p)
  BY DEF RawContext
<1>2. PICK i \in DOMAIN Order : Order[i] = p
  BY <1>1 DEF Pointers, Range
<1>3. Problems(raw) = {}
  <2>1. Problems(raw) # {} => Evaluate(raw).kind # "judged"
    BY DEF Evaluate, Raises, Refused
  <2> QED BY <2>1
<1>4. Problem(raw, p) = "ok"
  BY <1>2, <1>3 DEF Problems
<1>5. ASSUME NEW code \in Faults(p), raw[p] = Fault(code)
      PROVE  FALSE
  <2>1. ~IsGood(raw[p]) /\ raw[p].fault = code
    BY <1>5 DEF IsGood, Fault
  <2> QED BY <1>4, <2>1, FaultsAreErrors DEF Problem
<1> QED BY <1>1, <1>5 DEF Raw

\* What is found in a context, or by default, makes its block show.
LEMMA BlockShows ==
  ASSUME NEW raw, RawContext(raw)
  PROVE  /\ \A b \in OptionalBlocks : \A x :
              <<b, x>> \in DOMAIN Normal(raw) => b \in Seen(Normal(raw)).blocks
         /\ \A b \in OptionalBlocks : \A x, y :
              <<b, x, y>> \in DOMAIN Normal(raw) => b \in Seen(Normal(raw)).blocks
<1>1. Seen(Normal(raw)).blocks =
        {b \in OptionalBlocks : \E p \in DOMAIN Normal(raw) : Len(p) = 2 /\ p[1] = b}
  BY DEF Seen
<1>2. ASSUME NEW b \in OptionalBlocks, NEW x, <<b, x>> \in DOMAIN Normal(raw)
      PROVE  b \in Seen(Normal(raw)).blocks
  <2>1. Len(<<b, x>>) = 2 /\ <<b, x>>[1] = b
    OBVIOUS
  <2> QED BY <1>1, <1>2, <2>1
<1>3. ASSUME NEW b \in OptionalBlocks, NEW x, NEW y, <<b, x, y>> \in DOMAIN Normal(raw)
      PROVE  b \in Seen(Normal(raw)).blocks
  <2>1. Front(<<b, x, y>>) = <<b, x>> /\ <<b, x, y>> # <<>>
    BY Fronts
  <2>2. <<b, x>> \in DOMAIN raw
    BY <1>3, <2>1 DEF Normal, RawContext
  <2>3. <<b, x>> \in DOMAIN Normal(raw)
    BY <2>2 DEF Normal
  <2> QED BY <1>2, <2>3
<1> QED BY <1>2, <1>3

\* And the hash can write it down.
LEMMA JudgedIsHashable ==
  ASSUME NEW raw, Evaluate(raw).kind = "judged"
  PROVE  Hashable(Normal(raw))
<1>1. Problems(raw) # {} \/ ~Hashable(Normal(raw)) => Evaluate(raw).kind # "judged"
  BY DEF Evaluate, Raises, Refused
<1> QED BY <1>1

\* What decide sees of a context that is judged is a context.
LEMMA JudgedIsContext ==
  ASSUME NEW raw, RawContext(raw), Evaluate(raw).kind = "judged"
  PROVE  Seen(Normal(raw)) \in Contexts /\ DOMAIN Normal(raw) \subseteq Pointers
<1> DEFINE N == Normal(raw)
           n == Seen(N)
<1>1. \A p, d : \/ p \in DOMAIN N /\ Get(N, p, d) \in Accepted(p)
                \/ p \in DOMAIN N /\ p \in Defaulted /\ Get(N, p, d) = Default(p)
                \/ p \notin DOMAIN N /\ Get(N, p, d) = d
  <2> SUFFICES ASSUME NEW p, NEW d
               PROVE  \/ p \in DOMAIN N /\ Get(N, p, d) \in Accepted(p)
                      \/ p \in DOMAIN N /\ p \in Defaulted /\ Get(N, p, d) = Default(p)
                      \/ p \notin DOMAIN N /\ Get(N, p, d) = d
    OBVIOUS
  <2>1. CASE p \in DOMAIN raw
    <3>1. PICK v \in Accepted(p) : raw[p] = Good(v)
      BY <2>1, JudgedIsGood
    <3>2. p \in DOMAIN N /\ N[p] = v
      BY <2>1, <3>1 DEF Normal, Good
    <3> HIDE DEF N
    <3>3. Get(N, p, d) = N[p]
      BY <3>2 DEF Get
    <3> QED BY <2>1, <3>1, <3>2, <3>3
  <2>2. CASE p \notin DOMAIN raw
    <3>1. p \in DOMAIN N => p \in Defaulted /\ N[p] = Default(p)
      BY <2>2 DEF Normal
    <3> HIDE DEF N
    <3>2. Get(N, p, d) = IF p \in DOMAIN N THEN N[p] ELSE d
      BY DEF Get
    <3> QED BY <3>1, <3>2
  <2> QED BY <2>1, <2>2
<1>2. /\ n.action = Get(N, <<"action", "kind">>, "other")
      /\ n.source = Get(N, <<"provenance", "source">>, "client_asserted")
      /\ n.verified = Get(N, <<"provenance", "attestation", "verified">>, FALSE)
      /\ n.cap = Get(N, <<"tool", "capability_class">>, "none")
      /\ n.toolScopes = Get(N, <<"tool", "granted_scopes">>, {})
      /\ n.granted = Get(N, <<"permissions", "granted">>, {})
      /\ n.required = Get(N, <<"permissions", "policy_required">>, {})
      /\ n.classes = Get(N, <<"data", "classes">>, {})
      /\ n.dest = Get(N, <<"data", "egress", "destination_trust">>, "absent")
      /\ n.suspected = Get(N, <<"signals", "prompt_injection", "suspected">>, FALSE)
      /\ n.blocks \subseteq OptionalBlocks
  BY DEF Seen
<1>3. n = [action |-> n.action, source |-> n.source, verified |-> n.verified,
              cap |-> n.cap, toolScopes |-> n.toolScopes, granted |-> n.granted,
              required |-> n.required, classes |-> n.classes, dest |-> n.dest,
              suspected |-> n.suspected, blocks |-> n.blocks]
  BY DEF Seen
<1>4. DOMAIN N \subseteq Pointers
  BY DefaultedArePointers DEF Normal, RawContext
<1>5. \A p \in Lists \cap DOMAIN N : Unencodable \notin N[p]
  <2>1. Hashable(N)
    BY JudgedIsHashable
  <2> HIDE DEF N
  <2> QED BY <2>1 DEF Hashable
<1> HIDE DEF N, n
<1>6. n.action \in Actions /\ n.source \in Sources
  <2>1. /\ Default(<<"action", "kind">>) = "other"
        /\ Default(<<"provenance", "source">>) = "client_asserted"
    BY DEF Default
  <2>2. /\ Accepted(<<"action", "kind">>) = Actions
        /\ Accepted(<<"provenance", "source">>) = Sources
    BY OthersAccepted
  <2> QED BY <1>1, <1>2, <2>1, <2>2, ReferenceAssumption
<1>7. n.verified \in BOOLEAN
  <2>1. Default(<<"provenance", "attestation", "verified">>) = FALSE
    BY DEF Default
  <2>2. Accepted(<<"provenance", "attestation", "verified">>) = BOOLEAN
    BY FlagsAccepted DEF Flags
  <2> QED BY <1>1, <1>2, <2>1, <2>2
<1>8. /\ n.suspected \in BOOLEAN
      /\ n.suspected => <<"signals", "prompt_injection", "suspected">> \in DOMAIN N
  <2>1. <<"signals", "prompt_injection", "suspected">> \notin Defaulted
    BY DEF Defaulted, Tiers
  <2>2. Accepted(<<"signals", "prompt_injection", "suspected">>) = BOOLEAN
    BY FlagsAccepted DEF Flags
  <2> QED BY <1>1, <1>2, <2>1, <2>2
<1>9. /\ n.cap \in Capabilities \cup {"none"}
      /\ n.cap # "none" => <<"tool", "capability_class">> \in DOMAIN N
  <2>1. <<"tool", "capability_class">> \notin Defaulted
    BY DEF Defaulted, Tiers
  <2>2. Accepted(<<"tool", "capability_class">>) = Capabilities
    BY OthersAccepted
  <2> QED BY <1>1, <1>2, <2>1, <2>2
<1>10. /\ n.toolScopes \subseteq Scopes
       /\ n.toolScopes # {} => <<"tool", "granted_scopes">> \in DOMAIN N
       /\ n.granted \subseteq Scopes
       /\ n.granted # {} => <<"permissions", "granted">> \in DOMAIN N
       /\ n.required \subseteq Scopes
       /\ n.required # {} => <<"permissions", "policy_required">> \in DOMAIN N
  <2>1. Lists \cap Defaulted = {}
    BY DEF Lists, Defaulted, Tiers
  <2>2. ASSUME NEW p \in Lists
        PROVE  Get(N, p, {}) \subseteq Scopes /\ (Get(N, p, {}) # {} => p \in DOMAIN N)
    <3>1. CASE p \in DOMAIN N
      <4>1. Get(N, p, {}) = N[p]
        BY <3>1 DEF Get
      <4>2. N[p] \subseteq Scopes \cup {Unencodable}
        BY <1>1, <2>1, <2>2, <3>1, <4>1, ListsAccepted
      <4> QED BY <1>5, <2>2, <3>1, <4>1, <4>2
    <3>2. CASE p \notin DOMAIN N
      BY <3>2 DEF Get
    <3> QED BY <3>1, <3>2
  <2>3. {<<"tool", "granted_scopes">>, <<"permissions", "granted">>,
         <<"permissions", "policy_required">>} \subseteq Lists
    BY DEF Lists
  <2> QED BY <1>2, <2>2, <2>3
<1>11. /\ n.classes \subseteq Classes
       /\ n.classes # {} => <<"data", "classes">> \in DOMAIN N
  <2>1. <<"data", "classes">> \notin Defaulted
    BY DEF Defaulted, Tiers
  <2>2. Accepted(<<"data", "classes">>) = SUBSET Classes
    BY OthersAccepted
  <2> QED BY <1>1, <1>2, <2>1, <2>2
<1>12. /\ n.dest \in Trusts \cup {"absent"}
       /\ n.dest # "absent" => <<"data", "egress", "destination_trust">> \in DOMAIN N
  <2>1. Default(<<"data", "egress", "destination_trust">>) = "unknown"
    BY DEF Default
  <2>2. Accepted(<<"data", "egress", "destination_trust">>) = Trusts
    BY TiersAccepted DEF Tiers
  <2>3. "unknown" \in Trusts
    BY NormalizeAssumption
  <2>4. n.dest = Get(N, <<"data", "egress", "destination_trust">>, "absent")
    BY <1>2
  <2> QED BY <1>1, <2>1, <2>2, <2>3, <2>4
<1>13. /\ n.cap # "none" \/ n.toolScopes # {} => "tool" \in n.blocks
       /\ n.granted # {} \/ n.required # {} => "permissions" \in n.blocks
       /\ n.classes # {} \/ n.dest # "absent" => "data" \in n.blocks
       /\ n.suspected => "signals" \in n.blocks
  <2>1. {"tool", "permissions", "data", "signals"} \subseteq OptionalBlocks
    BY DEF OptionalBlocks
  <2>2. \A b \in OptionalBlocks : \A x : <<b, x>> \in DOMAIN N => b \in n.blocks
    BY BlockShows DEF N, n
  <2>3. \A b \in OptionalBlocks : \A x, y : <<b, x, y>> \in DOMAIN N => b \in n.blocks
    BY BlockShows DEF N, n
  <2>4. n.cap # "none" \/ n.toolScopes # {} => "tool" \in n.blocks
    BY <1>9, <1>10, <2>1, <2>2
  <2>5. n.granted # {} \/ n.required # {} => "permissions" \in n.blocks
    BY <1>10, <2>1, <2>2
  <2>6. n.classes # {} \/ n.dest # "absent" => "data" \in n.blocks
    BY <1>11, <1>12, <2>1, <2>2, <2>3
  <2>7. n.suspected => "signals" \in n.blocks
    BY <1>8, <2>1, <2>3
  <2> QED BY <2>4, <2>5, <2>6, <2>7
<1>14. n \in [action : Actions, source : Sources, verified : BOOLEAN,
          cap : Capabilities \cup {"none"}, toolScopes : SUBSET Scopes,
          granted : SUBSET Scopes, required : SUBSET Scopes,
          classes : SUBSET Classes, dest : Trusts \cup {"absent"},
          suspected : BOOLEAN, blocks : SUBSET OptionalBlocks]
  BY <1>2, <1>3, <1>6, <1>7, <1>8, <1>9, <1>10, <1>11, <1>12
<1>15. n \in Contexts
  BY <1>13, <1>14 DEF Contexts
<1> QED BY <1>4, <1>15 DEF N, n

-----------------------------------------------------------------------------
(* What becomes of descriptions.                                            *)

\* What a dict is given at a field is read there.
LEMMA EntryIsRead ==
  ASSUME NEW E, Described(E), NEW p \in Fields, NEW v, v # None,
         [at |-> p, value |-> v] \in E, \A e \in E : e.at = p => e.value = v, NEW d
  PROVE  Get(Normal(Dict(E)), p, d) = v
<1>1. p \in DOMAIN Dict(E)
  <2>1. \E e \in E : e.at = p
    OBVIOUS
  <2> QED BY <2>1, DictDomain
<1>2. Dict(E)[p] = Good(v)
  BY <1>1, DictMeaning DEF Fields
<1>3. p \in DOMAIN Normal(Dict(E)) /\ Normal(Dict(E))[p] = v
  BY <1>1, <1>2 DEF Normal, Good
<1> QED BY <1>3 DEF Get

\* What a dict is not given at a field is the default, or what the reader takes.
LEMMA NoEntryIsDefault ==
  ASSUME NEW E, Described(E), NEW p \in Fields, \A e \in E : e.at # p, NEW d
  PROVE  /\ Get(Normal(Dict(E)), p, d) \in {Default(p), d}
         /\ p \notin Defaulted => Get(Normal(Dict(E)), p, d) = d
<1>1. p \notin DOMAIN Dict(E)
  BY DictMeaning DEF Fields
<1>2. p \in DOMAIN Normal(Dict(E)) => p \in Defaulted /\ Normal(Dict(E))[p] = Default(p)
  BY <1>1 DEF Normal
<1> QED BY <1>2 DEF Get

\* The lists and the flag that decide reads and that have no default.
Plainly == {<<"tool", "granted_scopes">>, <<"permissions", "granted">>,
            <<"permissions", "policy_required">>, <<"data", "classes">>,
            <<"signals", "prompt_injection", "suspected">>}

\* They are fields.
LEMMA PlainFields == Plainly \subseteq Fields /\ Plainly \cap Defaulted = {}
<1>1. {<<"tool", "granted_scopes">>, <<"permissions", "granted">>,
       <<"permissions", "policy_required">>} \subseteq Lists
  BY DEF Lists
<1>2. <<"signals", "prompt_injection", "suspected">> \in Flags
  BY DEF Flags
<1>3. <<"data", "classes">> \in Fields
  BY OthersAccepted DEF Single
<1>4. Plainly \cap Defaulted = {}
  BY DEF Plainly, Defaulted, Tiers
<1> QED BY <1>1, <1>2, <1>3, <1>4, ListsAccepted, FlagsAccepted DEF Plainly

\* A data_egress says these things once, and nothing of scopes, of a policy or of
\* an injection.
LEMMA EgressSays ==
  ASSUME NEW d, NEW e \in DataEgress(d)
  PROVE  /\ e.at = <<"action", "kind">> => e.value = "data_egress"
         /\ e.at = <<"data", "classes">> => e.value = Or(ListOr(d.data_class), {"unknown"})
         /\ e.at = <<"data", "egress", "destination_trust">> => e.value = d.destination_trust
         /\ e.at \notin Plainly \ {<<"data", "classes">>}
BY DEF DataEgress, Sections, Entry, Exactly, RequestId, Plainly

\* And a payment, which says nothing of an attestation, a policy, data or an
\* injection.
LEMMA PaymentSays ==
  ASSUME NEW d, NEW e \in Payment(d)
  PROVE  /\ e.at = <<"action", "kind">> => e.value = "payment"
         /\ e.at = <<"provenance", "source">> => e.value = Or(d.provenance, "client_asserted")
         /\ e.at = <<"permissions", "granted">> =>
              e.value = ListOr(d.granted_scopes) /\ e.value # None
         /\ e.at = <<"tool", "granted_scopes">> =>
              e.value = ListOr(d.granted_scopes) /\ e.value # None
         /\ e.at # <<"provenance", "attestation", "verified">>
         /\ e.at \notin Plainly \ {<<"tool", "granted_scopes">>, <<"permissions", "granted">>}
BY DEF Payment, Sections, Entry, Exactly, RequestId, Plainly

\* A tool call says nothing of data, nor of a policy unless it is given one.
LEMMA ToolCallSays ==
  ASSUME NEW d, NEW e \in ToolCall(d)
  PROVE  /\ e.at # <<"data", "classes">>
         /\ e.at = <<"permissions", "policy_required">> => d.policy_required # {}
BY DEF ToolCall, Sections, Entry, Exactly, RequestId, ListOr

\* None is no value of the contract.
LEMMA NotNone ==
  /\ None \notin Trusts /\ None \notin SUBSET Classes /\ None \notin SUBSET Scopes
  /\ None \notin Actions /\ None \notin Sources
<1>1. /\ <<"data", "egress", "destination_trust">> \in Tiers
      /\ <<"permissions", "granted">> \in Lists
  BY DEF Tiers, Lists
<1>2. /\ {<<"data", "egress", "destination_trust">>, <<"permissions", "granted">>} \subseteq Pointers
      /\ Single \subseteq Pointers
      /\ Accepted(<<"data", "egress", "destination_trust">>) = Trusts
      /\ SUBSET Scopes \subseteq Accepted(<<"permissions", "granted">>)
  BY <1>1, TiersAccepted, ListsAccepted, OthersAccepted DEF Fields
<1>3. {<<"data", "classes">>, <<"action", "kind">>, <<"provenance", "source">>} \subseteq Pointers
  BY <1>2 DEF Single
<1> QED BY <1>2, <1>3, OthersAccepted, BuilderAssumption

\* Only a description that gives a destination trust is judged, of the egress ones.
LEMMA JudgedEgressHasTrust ==
  ASSUME NEW d, IsDescription(d), Route(d) = "data_egress",
         Evaluate(Build(d)).kind = "judged"
  PROVE  d.destination_trust # None
<1> DEFINE E == DataEgress(d)
           p == <<"data", "egress", "destination_trust">>
<1>1. Build(d) = Dict(E) /\ Entries(d) = E
  BY RouteCases
<1>2. Described(E) /\ RawContext(Dict(E))
  BY <1>1, BuiltIsDescribed, DictIsRaw
<1>3. [at |-> p, value |-> d.destination_trust] \in E
  BY DEF DataEgress, Exactly
<1>4. p \in Fields
  BY TiersAccepted DEF Tiers
<1>5. \A e \in E : e.at = p => e.value = d.destination_trust
  BY EgressSays
<1>6. Evaluate(Dict(E)).kind = "judged"
  BY <1>1
<1> HIDE DEF E, p
<1>7. p \in DOMAIN Dict(E)
  <2>1. \E e \in E : e.at = p
    BY <1>3
  <2> QED BY <2>1, DictDomain
<1>8. \E v : Dict(E)[p] = Good(v)
  BY <1>2, <1>6, <1>7, JudgedIsGood
<1>9. d.destination_trust = None => Dict(E)[p] = Fault("invalid_type")
  BY <1>2, <1>4, <1>5, <1>7, DictMeaning DEF Fields
<1>10. \A v, c : Good(v) # Fault(c)
  <2>1. \A v, c : IsGood(Good(v)) /\ ~IsGood(Fault(c))
    BY DEF IsGood, Good, Fault
  <2> QED BY <2>1
<1> QED BY <1>8, <1>9, <1>10

\* What decide sees of a data_egress.
LEMMA EgressIsSeen ==
  ASSUME NEW d, IsDescription(d), Route(d) = "data_egress", d.destination_trust # None,
         NEW n, n = Seen(Normal(Build(d)))
  PROVE  /\ n.action = "data_egress" /\ n.dest = d.destination_trust
         /\ n.classes = Or(ListOr(d.data_class), {"unknown"})
         /\ n.granted = {} /\ n.toolScopes = {} /\ n.required = {} /\ n.suspected = FALSE
<1> DEFINE E == DataEgress(d)
           C == Or(ListOr(d.data_class), {"unknown"})
<1>1. Build(d) = Dict(E) /\ Described(E)
  <2>1. Build(d) = Dict(E) /\ Entries(d) = E
    BY RouteCases
  <2> QED BY <2>1, BuiltIsDescribed
<1>2. C \in SUBSET Classes /\ C # None /\ "data_egress" # None
  <2>1. C \in SUBSET Classes
    BY NormalizeAssumption DEF IsDescription, Or, ListOr
  <2> QED BY <2>1, NotNone, BuilderAssumption
<1>3. /\ [at |-> <<"action", "kind">>, value |-> "data_egress"] \in E
      /\ [at |-> <<"data", "classes">>, value |-> C] \in E
      /\ [at |-> <<"data", "egress", "destination_trust">>, value |-> d.destination_trust] \in E
  <2> HIDE DEF C
  <2>1. /\ Entry(<<"action", "kind">>, "data_egress") \subseteq E
        /\ Exactly(<<"data", "egress", "destination_trust">>, d.destination_trust) \subseteq E
    BY DEF DataEgress, Sections
  <2>2. Entry(<<"data", "classes">>, C) \subseteq E
    BY DEF DataEgress, C
  <2> QED BY <1>2, <2>1, <2>2 DEF Entry, Exactly
<1>4. {<<"action", "kind">>, <<"data", "classes">>, <<"data", "egress", "destination_trust">>}
        \subseteq Fields
  <2>1. <<"data", "egress", "destination_trust">> \in Tiers
    BY DEF Tiers
  <2> QED BY <2>1, TiersAccepted, OthersAccepted DEF Single
<1>5. \A e \in E : /\ e.at = <<"action", "kind">> => e.value = "data_egress"
                   /\ e.at = <<"data", "classes">> => e.value = C
                   /\ e.at = <<"data", "egress", "destination_trust">>
                        => e.value = d.destination_trust
                   /\ e.at \notin Plainly \ {<<"data", "classes">>}
  BY EgressSays
<1> HIDE DEF E, C
<1>6. /\ Get(Normal(Dict(E)), <<"action", "kind">>, "other") = "data_egress"
      /\ Get(Normal(Dict(E)), <<"data", "classes">>, {}) = C
      /\ Get(Normal(Dict(E)), <<"data", "egress", "destination_trust">>, "absent")
           = d.destination_trust
  BY <1>1, <1>2, <1>3, <1>4, <1>5, EntryIsRead
<1>7. \A p \in Plainly \ {<<"data", "classes">>} : \A v : Get(Normal(Dict(E)), p, v) = v
  BY <1>1, <1>5, PlainFields, NoEntryIsDefault
<1>8. /\ Get(Normal(Dict(E)), <<"tool", "granted_scopes">>, {}) = {}
      /\ Get(Normal(Dict(E)), <<"permissions", "granted">>, {}) = {}
      /\ Get(Normal(Dict(E)), <<"permissions", "policy_required">>, {}) = {}
      /\ Get(Normal(Dict(E)), <<"signals", "prompt_injection", "suspected">>, FALSE) = FALSE
  BY <1>7 DEF Plainly
<1> QED BY <1>1, <1>6, <1>8 DEF Seen, C

\* Data sent to a destination nobody vouches for, by its class.
LEMMA EgressIsRuled ==
  ASSUME NEW d, IsDescription(d), Route(d) = "data_egress", d.destination_trust # None
  PROVE  Decide(Seen(Normal(Build(d)))).decision =
           IF /\ d.destination_trust \in {"unverified", "unknown"}
              /\ d.data_class # None /\ d.data_class \cap {"secret", "credential"} # {}
             THEN "BLOCK"
           ELSE IF /\ d.destination_trust \in {"unverified", "unknown"}
                   /\ d.data_class # None
                   /\ d.data_class \cap {"pii", "financial", "regulated"} # {}
             THEN "REVIEW" ELSE "PASS"
<1>1. PICK n : n = Seen(Normal(Build(d)))
  OBVIOUS
<1>2. /\ n.action = "data_egress" /\ n.dest = d.destination_trust
      /\ n.classes = Or(ListOr(d.data_class), {"unknown"})
      /\ n.granted = {} /\ n.toolScopes = {} /\ n.required = {} /\ n.suspected = FALSE
  BY <1>1, EgressIsSeen
<1>3. \A S \in SUBSET {"secret", "credential", "pii", "financial", "regulated"} :
        n.classes \cap S # {} <=> d.data_class # None /\ d.data_class \cap S # {}
  <2>1. d.data_class \in {None} \cup SUBSET Classes
    BY DEF IsDescription
  <2>2. CASE d.data_class = None \/ d.data_class = {}
    <3>1. n.classes = {"unknown"}
      BY <1>2, <2>2 DEF Or, ListOr
    <3> QED BY <2>2, <3>1
  <2>3. CASE d.data_class # None /\ d.data_class # {}
    <3>1. n.classes = d.data_class
      BY <1>2, <2>3 DEF Or, ListOr
    <3> QED BY <2>3, <3>1
  <2> QED BY <2>2, <2>3
<1>4. /\ n.classes \cap {"credential", "secret"} # {}
           <=> d.data_class # None /\ d.data_class \cap {"secret", "credential"} # {}
      /\ n.classes \cap {"pii", "financial", "regulated"} # {}
           <=> d.data_class # None /\ d.data_class \cap {"pii", "financial", "regulated"} # {}
  <2>1. {"credential", "secret"} = {"secret", "credential"}
    OBVIOUS
  <2> QED BY <1>3, <2>1
<1>5. Untrusted(n) <=> d.destination_trust \in {"unverified", "unknown"}
  <2>1. d.destination_trust # "absent"
    BY ReferenceAssumption DEF IsDescription, TrustTiers
  <2> QED BY <1>2, <2>1 DEF Untrusted
<1>6. Egress(n) /\ Missing(n) = {} /\ Granted(n) = {} /\ ~Insufficient(n)
  BY <1>2 DEF Egress, Missing, Granted, Insufficient
<1>7. /\ Blocked(n) <=> SecretLeak(n)
      /\ Reviewed(n) <=> PrivateEgress(n)
  BY <1>2, <1>6 DEF Blocked, Reviewed, UnverifiedGrant
<1>8. /\ SecretLeak(n) <=> /\ d.destination_trust \in {"unverified", "unknown"}
                           /\ d.data_class # None
                           /\ d.data_class \cap {"secret", "credential"} # {}
      /\ PrivateEgress(n) <=> /\ d.destination_trust \in {"unverified", "unknown"}
                              /\ d.data_class # None
                              /\ d.data_class \cap {"pii", "financial", "regulated"} # {}
  BY <1>4, <1>5, <1>6 DEF SecretLeak, PrivateEgress
<1>9. Decide(n).decision = IF SecretLeak(n) THEN "BLOCK"
                           ELSE IF PrivateEgress(n) THEN "REVIEW" ELSE "PASS"
  BY <1>6, <1>7, DecisionByFacts
<1> QED BY <1>1, <1>8, <1>9

\* What decide sees of a payment.
LEMMA PaymentIsSeen ==
  ASSUME NEW d, IsDescription(d), Route(d) = "payment", NEW n, n = Seen(Normal(Build(d)))
  PROVE  /\ n.action = "payment" /\ n.source = Or(d.provenance, "client_asserted")
         /\ n.verified = FALSE
         /\ n.granted = d.granted_scopes /\ n.toolScopes = d.granted_scopes
         /\ n.required = {} /\ n.classes = {} /\ n.suspected = FALSE
<1> DEFINE E == Payment(d)
           s == Or(d.provenance, "client_asserted")
           g == ListOr(d.granted_scopes)
           Q == {<<"tool", "granted_scopes">>, <<"permissions", "granted">>}
<1>1. Build(d) = Dict(E) /\ Described(E)
  <2>1. Build(d) = Dict(E) /\ Entries(d) = E
    BY RouteCases
  <2> QED BY <2>1, BuiltIsDescribed
<1>2. /\ s # None /\ "payment" # None
      /\ g = IF d.granted_scopes = {} THEN None ELSE d.granted_scopes
      /\ d.granted_scopes # {} => g # None
  <2>1. s \in Sources
    BY ReferenceAssumption DEF IsDescription, Or
  <2>2. d.granted_scopes \in SUBSET Scopes
    BY DEF IsDescription
  <2> QED BY <2>1, <2>2, NotNone, BuilderAssumption DEF ListOr
<1>3. /\ [at |-> <<"action", "kind">>, value |-> "payment"] \in E
      /\ [at |-> <<"provenance", "source">>, value |-> s] \in E
      /\ g # None => \A p \in Q : [at |-> p, value |-> g] \in E
  <2>1. /\ Entry(<<"action", "kind">>, "payment") \subseteq E
        /\ Entry(<<"provenance", "source">>, s) \subseteq E
    BY DEF Payment, Sections
  <2>2. \A p \in Q : Entry(p, g) \subseteq E
    BY DEF Payment
  <2> HIDE DEF E, g, s
  <2>3. g # None => \A p \in Q : [at |-> p, value |-> g] \in Entry(p, g)
    BY DEF Entry, Exactly
  <2>4. [at |-> <<"provenance", "source">>, value |-> s] \in Entry(<<"provenance", "source">>, s)
    BY <1>2 DEF Entry, Exactly
  <2>5. [at |-> <<"action", "kind">>, value |-> "payment"]
          \in Entry(<<"action", "kind">>, "payment")
    BY <1>2 DEF Entry, Exactly
  <2> QED BY <2>1, <2>2, <2>3, <2>4, <2>5
<1>4. /\ {<<"action", "kind">>, <<"provenance", "source">>,
          <<"provenance", "attestation", "verified">>} \subseteq Fields
      /\ Q \subseteq Plainly
  <2>1. <<"provenance", "attestation", "verified">> \in Flags
    BY DEF Flags
  <2>2. Q \subseteq Plainly
    BY DEF Plainly
  <2> QED BY <2>1, <2>2, FlagsAccepted, OthersAccepted DEF Single
<1>5. \A e \in E : /\ e.at = <<"action", "kind">> => e.value = "payment"
                   /\ e.at = <<"provenance", "source">> => e.value = s
                   /\ e.at \in Q => e.value = g /\ e.value # None
                   /\ e.at # <<"provenance", "attestation", "verified">>
                   /\ e.at \notin Plainly \ Q
  BY PaymentSays
<1> HIDE DEF E, s, g, Q
<1>6. /\ Get(Normal(Dict(E)), <<"action", "kind">>, "other") = "payment"
      /\ Get(Normal(Dict(E)), <<"provenance", "source">>, "client_asserted") = s
  BY <1>1, <1>2, <1>3, <1>4, <1>5, EntryIsRead
<1>7. Get(Normal(Dict(E)), <<"provenance", "attestation", "verified">>, FALSE) = FALSE
  <2>1. Default(<<"provenance", "attestation", "verified">>) = FALSE
    BY DEF Default
  <2> QED BY <1>1, <1>4, <1>5, <2>1, NoEntryIsDefault
<1>8. ASSUME NEW p \in Q
      PROVE  Get(Normal(Dict(E)), p, {}) = d.granted_scopes
  <2>0. p \in Fields /\ p \notin Defaulted
    BY <1>4, PlainFields
  <2>1. CASE g = None
    <3>1. \A e \in E : e.at # p
      BY <1>5, <2>1
    <3>2. Get(Normal(Dict(E)), p, {}) = {}
      BY <1>1, <2>0, <3>1, NoEntryIsDefault
    <3> QED BY <1>2, <2>1, <3>2
  <2>2. CASE g # None
    <3>1. [at |-> p, value |-> g] \in E /\ \A e \in E : e.at = p => e.value = g
      BY <1>3, <1>5, <2>2
    <3>2. Get(Normal(Dict(E)), p, {}) = g
      BY <1>1, <2>0, <2>2, <3>1, EntryIsRead
    <3> QED BY <1>2, <2>2, <3>2
  <2> QED BY <2>1, <2>2
<1>9. \A p \in Plainly \ Q : \A v : Get(Normal(Dict(E)), p, v) = v
  BY <1>1, <1>5, PlainFields, NoEntryIsDefault
<1>10. /\ Get(Normal(Dict(E)), <<"tool", "granted_scopes">>, {}) = d.granted_scopes
       /\ Get(Normal(Dict(E)), <<"permissions", "granted">>, {}) = d.granted_scopes
  BY <1>8 DEF Q
<1>11. /\ Get(Normal(Dict(E)), <<"permissions", "policy_required">>, {}) = {}
       /\ Get(Normal(Dict(E)), <<"data", "classes">>, {}) = {}
       /\ Get(Normal(Dict(E)), <<"signals", "prompt_injection", "suspected">>, FALSE) = FALSE
  <2>1. {<<"permissions", "policy_required">>, <<"data", "classes">>,
         <<"signals", "prompt_injection", "suspected">>} \subseteq Plainly \ Q
    BY DEF Plainly, Q
  <2> QED BY <1>9, <2>1
<1> QED BY <1>1, <1>6, <1>7, <1>10, <1>11 DEF Seen, s

\* A payment, by whose word its scopes are.
LEMMA PaymentIsRuled ==
  ASSUME NEW d, IsDescription(d), Route(d) = "payment"
  PROVE  Decide(Seen(Normal(Build(d)))).decision =
           IF /\ d.granted_scopes # {}
              /\ ~(/\ d.provenance # None
                   /\ d.provenance \in {"engine_derived", "trusted_metadata"})
             THEN "REVIEW" ELSE "PASS"
<1>1. PICK n : n = Seen(Normal(Build(d)))
  OBVIOUS
<1>2. /\ n.action = "payment" /\ n.source = Or(d.provenance, "client_asserted")
      /\ n.verified = FALSE
      /\ n.granted = d.granted_scopes /\ n.toolScopes = d.granted_scopes
      /\ n.required = {} /\ n.classes = {} /\ n.suspected = FALSE
  BY <1>1, PaymentIsSeen
<1>3. Granted(n) = d.granted_scopes /\ Missing(n) = {} /\ Sensitive(n)
  BY <1>2 DEF Granted, Missing, Sensitive, SENSITIVE_ACTIONS
<1>4. Attested(n) <=> /\ d.provenance # None
                      /\ d.provenance \in {"engine_derived", "trusted_metadata"}
  BY <1>2 DEF Attested, Or
<1>5. ~SecretLeak(n) /\ ~PrivateEgress(n) /\ ~Insufficient(n)
  BY <1>2 DEF SecretLeak, PrivateEgress, Insufficient
<1>6. ~Blocked(n) /\ (Reviewed(n) <=> Granted(n) # {} /\ ~Attested(n))
  BY <1>2, <1>3, <1>5 DEF Blocked, Reviewed, UnverifiedGrant
<1>7. Decide(n).decision = IF Granted(n) # {} /\ ~Attested(n) THEN "REVIEW" ELSE "PASS"
  BY <1>5, <1>6, DecisionByFacts
<1> QED BY <1>1, <1>3, <1>4, <1>7

\* Any other action without a policy.
LEMMA ToolCallIsRuled ==
  ASSUME NEW d, IsDescription(d), Route(d) = "tool_call", d.policy_required = {}
  PROVE  Decide(Seen(Normal(Build(d)))).decision # "BLOCK"
<1> DEFINE E == ToolCall(d)
           n == Seen(Normal(Build(d)))
           Q == {<<"data", "classes">>, <<"permissions", "policy_required">>}
<1>1. Build(d) = Dict(E) /\ Described(E)
  <2>1. Build(d) = Dict(E) /\ Entries(d) = E
    BY RouteCases
  <2> QED BY <2>1, BuiltIsDescribed
<1>2. \A e \in E : e.at \notin Q
  BY ToolCallSays
<1> HIDE DEF E
<1>3. \A p \in Q : Get(Normal(Dict(E)), p, {}) = {}
  <2>1. Q \subseteq Plainly
    BY DEF Plainly
  <2> QED BY <1>1, <1>2, <2>1, PlainFields, NoEntryIsDefault
<1>4. n.classes = {} /\ n.required = {}
  BY <1>1, <1>3 DEF Seen
<1> HIDE DEF n
<1>5. ~SecretLeak(n) /\ Missing(n) = {}
  BY <1>4 DEF SecretLeak, Missing
<1>6. ~Blocked(n)
  BY <1>5 DEF Blocked
<1>7. Decide(n).decision \in {"REVIEW", "SKIP", "PASS"}
  BY <1>6, DecisionByFacts
<1> QED BY <1>7 DEF n

-----------------------------------------------------------------------------
(* The snapshot hash.                                                       *)

\* What is read at a pointer other than the request id is the same in two
\* contexts with the same hash.
LEMMA SameHashSameRead ==
  ASSUME NEW n, NEW m, Hash(n) = Hash(m), NEW p, p # RequestId, NEW d
  PROVE  (p \in DOMAIN n <=> p \in DOMAIN m) /\ Get(n, p, d) = Get(m, p, d)
<1>1. DOMAIN Hash(n) = DOMAIN n \ {RequestId} /\ DOMAIN Hash(m) = DOMAIN m \ {RequestId}
  BY DEF Hash, Restrict
<1>2. p \in DOMAIN n <=> p \in DOMAIN m
  BY <1>1
<1>3. CASE p \in DOMAIN n
  <2>1. Hash(n)[p] = n[p] /\ Hash(m)[p] = m[p]
    BY <1>2, <1>3 DEF Hash, Restrict
  <2> QED BY <1>2, <1>3, <2>1 DEF Get
<1>4. CASE p \notin DOMAIN n
  BY <1>2, <1>4 DEF Get
<1> QED BY <1>2, <1>3, <1>4

\* The pointers decide and the verdict read are not the request id.
LEMMA ReadsAreHashed ==
  /\ \A p : Len(p) = 2 => p # RequestId
  /\ \A p : Len(p) = 3 => p # RequestId
  /\ RequestId # <<"policy">>
BY DEF RequestId

\* The hash determines everything a verdict is made of.
LEMMA HashPins ==
  ASSUME NEW n, NEW m, Hash(n) = Hash(m)
  PROVE  Judgement(n) = Judgement(m)
<1>1. \A p, d : p # RequestId => Get(n, p, d) = Get(m, p, d)
  BY SameHashSameRead
<1>2. \A p : p # RequestId => (p \in DOMAIN n <=> p \in DOMAIN m)
  BY SameHashSameRead
<1>3. /\ Get(n, <<"action", "kind">>, "other") = Get(m, <<"action", "kind">>, "other")
      /\ Get(n, <<"provenance", "source">>, "client_asserted")
           = Get(m, <<"provenance", "source">>, "client_asserted")
      /\ Get(n, <<"tool", "capability_class">>, "none")
           = Get(m, <<"tool", "capability_class">>, "none")
      /\ Get(n, <<"tool", "granted_scopes">>, {}) = Get(m, <<"tool", "granted_scopes">>, {})
      /\ Get(n, <<"permissions", "granted">>, {}) = Get(m, <<"permissions", "granted">>, {})
      /\ Get(n, <<"permissions", "policy_required">>, {})
           = Get(m, <<"permissions", "policy_required">>, {})
      /\ Get(n, <<"data", "classes">>, {}) = Get(m, <<"data", "classes">>, {})
  BY <1>1 DEF RequestId
<1>4. /\ Get(n, <<"provenance", "attestation", "verified">>, FALSE)
           = Get(m, <<"provenance", "attestation", "verified">>, FALSE)
      /\ Get(n, <<"data", "egress", "destination_trust">>, "absent")
           = Get(m, <<"data", "egress", "destination_trust">>, "absent")
      /\ Get(n, <<"signals", "prompt_injection", "suspected">>, FALSE)
           = Get(m, <<"signals", "prompt_injection", "suspected">>, FALSE)
  BY <1>1 DEF RequestId
<1>5. {b \in OptionalBlocks : \E p \in DOMAIN n : Len(p) = 2 /\ p[1] = b}
        = {b \in OptionalBlocks : \E p \in DOMAIN m : Len(p) = 2 /\ p[1] = b}
  BY <1>2, ReadsAreHashed
<1>6. Seen(n) = Seen(m)
  BY <1>3, <1>4, <1>5 DEF Seen
<1>7. Get(n, <<"tsc_version">>, "2.0") = Get(m, <<"tsc_version">>, "2.0")
  BY <1>1 DEF RequestId
<1>8. Restrict(n, DOMAIN n \cap Inside(<<"policy">>))
        = Restrict(m, DOMAIN m \cap Inside(<<"policy">>))
  <2>1. \A p \in Inside(<<"policy">>) : p # RequestId
    BY DEF Inside, RequestId
  <2>2. DOMAIN n \cap Inside(<<"policy">>) = DOMAIN m \cap Inside(<<"policy">>)
    BY <1>2, <2>1
  <2>3. \A p \in DOMAIN n \cap Inside(<<"policy">>) : n[p] = m[p]
    BY <1>1, <2>1, <2>2 DEF Get
  <2> QED BY <2>2, <2>3 DEF Restrict
<1> QED BY <1>3, <1>6, <1>8, <1>7 DEF Judgement

-----------------------------------------------------------------------------
(* What validate_tsc adds to a context.                                     *)

\* The object around a key begins with the same block.
LEMMA FrontFirst ==
  /\ \A a, b : Front(<<a, b>>)[1] = a
  /\ \A a, b, c : Front(<<a, b, c>>)[1] = a
BY Fronts

\* No default is filled in under the request id.
LEMMA NothingUnderId == \A q \in Defaulted : q # RequestId /\ Front(q) # RequestId
<1>1. ASSUME NEW a, NEW b, a # "client_request_id"
      PROVE  <<a, b>> # RequestId /\ Front(<<a, b>>) # RequestId
  <2>1. Front(<<a, b>>)[1] = a
    BY FrontFirst
  <2> QED BY <1>1, <2>1 DEF RequestId
<1>2. ASSUME NEW a, NEW b, NEW c, a # "client_request_id"
      PROVE  <<a, b, c>> # RequestId /\ Front(<<a, b, c>>) # RequestId
  <2>1. Front(<<a, b, c>>)[1] = a
    BY FrontFirst
  <2> QED BY <1>2, <2>1 DEF RequestId
<1>3. ASSUME NEW q \in Defaulted
      PROVE  \/ \E a, b : q = <<a, b>> /\ a # "client_request_id"
             \/ \E a, b, c : q = <<a, b, c>> /\ a # "client_request_id"
  BY DEF Defaulted, Tiers
<1> QED BY <1>1, <1>2, <1>3

\* What an id argument may be.
LEMMA ArgumentCases ==
  ASSUME NEW arg \in Arguments, arg # None
  PROVE  \/ IsGood(arg) /\ arg # Fault("oversized") /\ \E v \in Ids : arg = Good(v)
         \/ arg = Fault("oversized") /\ ~IsGood(arg) /\ arg.fault = "oversized"
<1>1. \A v : IsGood(Good(v))
  BY DEF IsGood, Good
<1>2. ~IsGood(Fault("oversized")) /\ Fault("oversized").fault = "oversized"
  BY DEF IsGood, Fault
<1> QED BY <1>1, <1>2 DEF Arguments

\* A set of numbers that is not empty has a least one.
LEMMA Least ==
  ASSUME NEW S \in SUBSET Nat, S # {}
  PROVE  Min(S) \in S /\ \A y \in S : Min(S) <= y
<1> DEFINE R == {p \in Nat \X Nat : p[1] < p[2]}
<1>1. IsWellFoundedOn(R, Nat)
  BY NatLessThanWellFounded DEF OpToRel
<1>2. \A x, y \in Nat : <<y, x>> \in R <=> y < x
  OBVIOUS
<1> HIDE DEF R
<1>3. PICK x \in S : \A y \in S : ~(<<y, x>> \in R)
  BY <1>1, WFMin
<1>4. ASSUME NEW y \in S PROVE x <= y
  <2>1. x \in Nat /\ y \in Nat /\ ~(<<y, x>> \in R)
    BY <1>3
  <2>2. ~(y < x)
    BY <1>2, <2>1
  <2> QED BY <2>1, <2>2
<1>5. \E z \in S : \A y \in S : z <= y
  BY <1>4
<1> QED BY <1>5 DEF Min

\* The body has the problems of the context, and that of the id.
LEMMA BodyProblems ==
  ASSUME NEW raw, RequestId \notin DOMAIN raw, NEW arg, arg # None
  PROVE  /\ \A p : p # RequestId => Problem(Body(raw, arg), p) = Problem(raw, p)
         /\ Problem(raw, RequestId) = "ok"
         /\ Problem(Body(raw, arg), RequestId) = IF IsGood(arg) THEN "ok" ELSE arg.fault
<1> DEFINE body == Body(raw, arg)
<1>1. /\ DOMAIN body = DOMAIN raw \cup {RequestId}
      /\ body[RequestId] = arg
      /\ \A q \in DOMAIN raw : q # RequestId /\ body[q] = raw[q]
  BY DEF Body
<1> HIDE DEF body
<1>2. ASSUME NEW p, p # RequestId
      PROVE  Problem(body, p) = Problem(raw, p)
  BY <1>1, <1>2 DEF Problem
<1>3. Problem(body, RequestId) = IF IsGood(arg) THEN "ok" ELSE arg.fault
  BY <1>1 DEF Problem
<1>4. RequestId # <<"tsc_version">> /\ RequestId \notin Required
  BY DEF RequestId, Required
<1>5. Problem(raw, RequestId) = "ok"
  BY <1>4 DEF Problem
<1> QED BY <1>2, <1>3, <1>5 DEF body

\* An id that normalize accepts changes nothing.
LEMMA GoodIdReplays ==
  ASSUME NEW raw, RequestId \notin DOMAIN raw, NEW arg, arg # None, IsGood(arg)
  PROVE  Evaluate(Body(raw, arg)) = Evaluate(raw)
<1> DEFINE body == Body(raw, arg)
<1>1. /\ DOMAIN body = DOMAIN raw \cup {RequestId}
      /\ \A q \in DOMAIN raw : q # RequestId /\ body[q] = raw[q]
  BY DEF Body
<1>2. \A p : Problem(body, p) = Problem(raw, p)
  BY BodyProblems
<1> HIDE DEF body
<1>3. Problems(body) = Problems(raw)
  BY <1>2 DEF Problems
<1>4. \A q : q # RequestId => (q \in DOMAIN Normal(body) <=> q \in DOMAIN Normal(raw))
  BY <1>1, NothingUnderId DEF Normal
<1>5. RequestId \notin DOMAIN Normal(raw)
  BY NothingUnderId DEF Normal
<1>6. \A q \in DOMAIN Normal(raw) : Normal(body)[q] = Normal(raw)[q]
  BY <1>1, <1>4, <1>5 DEF Normal
<1>7. Hash(Normal(body)) = Hash(Normal(raw))
  <2>1. DOMAIN Normal(body) \ {RequestId} = DOMAIN Normal(raw) \ {RequestId}
    BY <1>4
  <2> QED BY <1>6, <2>1 DEF Hash, Restrict
<1>8. Judgement(Normal(body)) = Judgement(Normal(raw))
  BY <1>7, HashPins
<1>9. Hashable(Normal(body)) = Hashable(Normal(raw))
  <2>1. RequestId \notin FreeTexts /\ RequestId \notin Lists \cup Labels
    BY DEF FreeTexts, Lists, Labels, RequestId
  <2>2. /\ FreeTexts \cap DOMAIN Normal(body) = FreeTexts \cap DOMAIN Normal(raw)
        /\ (Lists \cup Labels) \cap DOMAIN Normal(body) = (Lists \cup Labels) \cap DOMAIN Normal(raw)
    BY <1>4, <2>1
  <2> QED BY <1>6, <2>2 DEF Hashable
<1> QED BY <1>2, <1>3, <1>7, <1>8, <1>9 DEF Evaluate, body

\* An id that is too long is refused, unless something else is refused before it.
LEMMA LongIdIsRefused ==
  ASSUME NEW raw, RequestId \notin DOMAIN raw, NEW arg, arg # None,
         ~IsGood(arg), arg.fault = "oversized"
  PROVE  \/ Evaluate(Body(raw, arg)) = Evaluate(raw)
         \/ Evaluate(Body(raw, arg)) = Refused("oversized", Len(Order))
<1> DEFINE body == Body(raw, arg)
           L == Len(Order)
<1>1. /\ \A p : p # RequestId => Problem(body, p) = Problem(raw, p)
      /\ Problem(raw, RequestId) = "ok" /\ Problem(body, RequestId) = "oversized"
  BY BodyProblems
<1> HIDE DEF body
<1>2. /\ L \in Nat /\ DOMAIN Order = 1 .. L /\ L \in 1 .. L /\ Order[L] = RequestId
      /\ \A i \in 1 .. L : i # L => i < L /\ Order[i] # RequestId
  BY IdComesLast
<1> HIDE DEF L
<1>3. Problems(body) = Problems(raw) \cup {L} /\ L \notin Problems(raw)
  BY <1>1, <1>2 DEF Problems
<1>4. \A i \in Problems(raw) :
        i \in Nat /\ i < L /\ Problem(body, Order[i]) = Problem(raw, Order[i])
  BY <1>1, <1>2, <1>3 DEF Problems
<1>5. CASE Problems(raw) = {}
  <2>1. Problems(body) = {L} /\ Min({L}) = L
    <3>1. {L} \in SUBSET Nat /\ {L} # {}
      BY <1>2
    <3> QED BY <1>3, <1>5, <3>1, Least
  <2>2. Problem(body, Order[L]) = "oversized"
    BY <1>1, <1>2
  <2>3. Evaluate(body) = Refused("oversized", L)
    BY <2>1, <2>2 DEF Evaluate
  <2> QED BY <2>3 DEF body, L
<1>6. CASE Problems(raw) # {}
  <2> DEFINE m == Min(Problems(raw))
             k == Min(Problems(body))
  <2>1. m \in Problems(raw) /\ \A y \in Problems(raw) : m <= y
    <3>1. Problems(raw) \in SUBSET Nat
      BY <1>4
    <3> QED BY <1>6, <3>1, Least
  <2>2. k \in Problems(body) /\ \A y \in Problems(body) : k <= y
    <3>1. Problems(body) \in SUBSET Nat /\ Problems(body) # {}
      BY <1>2, <1>3, <1>4
    <3> QED BY <3>1, Least
  <2> HIDE DEF m, k
  <2>3. k = m
    <3>1. k <= m /\ m < L /\ m \in Nat
      BY <1>3, <1>4, <2>1, <2>2
    <3>2. k \in Problems(raw)
      <4>1. k # L
        BY <1>2, <3>1
      <4> QED BY <1>3, <2>2, <4>1
    <3>3. m <= k /\ k \in Nat
      BY <1>4, <2>1, <3>2
    <3> QED BY <3>1, <3>3
  <2>4. Problem(body, Order[k]) = Problem(raw, Order[m])
    BY <1>4, <2>1, <2>3
  <2>5. Problems(body) # {}
    BY <1>3
  <2>6. Evaluate(body) = Evaluate(raw)
    BY <1>6, <2>3, <2>4, <2>5 DEF Evaluate, m, k
  <2> QED BY <2>6 DEF body
<1> QED BY <1>5, <1>6

\* The body validate_tsc sends is judged as the context it was given, unless it is
\* refused for the id that was put into it, and for nothing else.
LEMMA BodyReplays ==
  ASSUME NEW raw, NEW arg \in Arguments
  PROVE  \/ Evaluate(Body(raw, arg)) = Evaluate(raw)
         \/ /\ arg = Fault("oversized") /\ RequestId \notin DOMAIN raw
            /\ Evaluate(Body(raw, arg)) = Refused("oversized", Len(Order))
<1>1. CASE arg = None \/ RequestId \in DOMAIN raw
  BY <1>1 DEF Body
<1>2. CASE arg # None /\ RequestId \notin DOMAIN raw
  BY <1>2, ArgumentCases, GoodIdReplays, LongIdIsRefused
<1> QED BY <1>1, <1>2

-----------------------------------------------------------------------------
(* What an omission does to the facts decide looks at.                      *)

\* Nothing goes with a trust pointer but what is below it.
LEMMA OnlyTrustGoes ==
  ASSUME NEW p \in TrustPointers, NEW q \in {p} \cup Inside(p)
  PROVE  /\ Len(q) >= 2 /\ q[1] = p[1] /\ q[2] = p[2]
         /\ p[1] \in {"subject", "target", "provenance", "data"}
         /\ p[1] = "data" => p[2] = "egress"
<1>1. /\ p[1] \in {"subject", "target", "provenance", "data"}
      /\ p[1] = "data" => p[2] = "egress"
      /\ Len(p) >= 2 /\ 1 \in DOMAIN p /\ 2 \in DOMAIN p
  BY DEF TrustPointers
<1>2. CASE q = p
  BY <1>1, <1>2
<1>3. CASE q \in Inside(p)
  <2>1. Len(q) > Len(p) /\ \A i \in DOMAIN p : q[i] = p[i]
    BY <1>3 DEF Inside
  <2> HIDE <1>3
  <2> QED BY <1>1, <2>1
<1> QED BY <1>2, <1>3

\* What decide reads that is not about trust is read as before.
LEMMA FactsStay ==
  ASSUME NEW raw, NEW p \in TrustPointers, NEW q, NEW d,
         q \notin {p} \cup Inside(p),
         q \in Defaulted => Front(q) \notin {p} \cup Inside(p)
  PROVE  Get(Normal(Without(raw, p)), q, d) = Get(Normal(raw), q, d)
<1> DEFINE left == Without(raw, p)
<1>1. /\ DOMAIN left = DOMAIN raw \ ({p} \cup Inside(p))
      /\ \A r \in DOMAIN left : left[r] = raw[r]
  BY DEF Without, Restrict
<1> HIDE DEF left
<1>2. q \in DOMAIN left <=> q \in DOMAIN raw
  BY <1>1
<1>3. q \in DOMAIN Normal(left) <=> q \in DOMAIN Normal(raw)
  BY <1>1, <1>2 DEF Normal
<1>4. CASE q \in DOMAIN Normal(raw)
  <2>1. Normal(left)[q] = Normal(raw)[q]
    BY <1>1, <1>2, <1>3, <1>4 DEF Normal
  <2> QED BY <1>3, <1>4, <2>1 DEF Get, left
<1>5. CASE q \notin DOMAIN Normal(raw)
  BY <1>3, <1>5 DEF Get, left
<1> QED BY <1>4, <1>5

\* What a context says at a pointer is said no more, or still said.
LEMMA SaidOrDefault ==
  ASSUME NEW raw, NEW p, NEW q, NEW d
  PROVE  Get(Normal(Without(raw, p)), q, d) \in {Get(Normal(raw), q, d), Default(q), d}
<1> DEFINE left == Without(raw, p)
<1>1. /\ DOMAIN left \subseteq DOMAIN raw
      /\ \A r \in DOMAIN left : left[r] = raw[r]
  BY DEF Without, Restrict
<1> HIDE DEF left
<1>2. CASE q \in DOMAIN left
  <2>1. /\ q \in DOMAIN Normal(left) /\ q \in DOMAIN Normal(raw)
        /\ Normal(left)[q] = Normal(raw)[q]
    BY <1>1, <1>2 DEF Normal
  <2> QED BY <2>1 DEF Get, left
<1>3. CASE q \notin DOMAIN left
  <2>1. q \in DOMAIN Normal(left) => Normal(left)[q] = Default(q)
    BY <1>3 DEF Normal
  <2> QED BY <2>1 DEF Get, left
<1> QED BY <1>2, <1>3

\* Without a trust pointer a context is at least as risky.
LEMMA OmissionIsRisk ==
  ASSUME NEW raw, NEW p \in TrustPointers
  PROVE  AtLeastAsRisky(Seen(Normal(raw)), Seen(Normal(Without(raw, p))))
<1> DEFINE n == Seen(Normal(raw))
           m == Seen(Normal(Without(raw, p)))
<1>1. ASSUME NEW q, NEW d, q[1] \in {"tool", "permissions", "signals"}, q \notin Defaulted
      PROVE  Get(Normal(Without(raw, p)), q, d) = Get(Normal(raw), q, d)
  <2>1. q \notin {p} \cup Inside(p)
    BY <1>1, OnlyTrustGoes
  <2> QED BY <1>1, <2>1, FactsStay
<1>2. /\ m.cap = n.cap /\ m.toolScopes = n.toolScopes /\ m.granted = n.granted
      /\ m.required = n.required /\ m.suspected = n.suspected
  <2> DEFINE Stays(q) == \A d : Get(Normal(Without(raw, p)), q, d) = Get(Normal(raw), q, d)
  <2>1. ASSUME NEW a, NEW b, a \in {"tool", "permissions"}
        PROVE  Stays(<<a, b>>)
    <3>1. <<a, b>>[1] = a /\ <<a, b>> \notin Defaulted
      BY <2>1 DEF Defaulted, Tiers
    <3> QED BY <1>1, <2>1, <3>1
  <2>2. Stays(<<"signals", "prompt_injection", "suspected">>)
    <3>1. <<"signals", "prompt_injection", "suspected">> \notin Defaulted
      BY DEF Defaulted, Tiers
    <3> QED BY <1>1, <3>1
  <2>3. /\ Stays(<<"tool", "capability_class">>) /\ Stays(<<"tool", "granted_scopes">>)
        /\ Stays(<<"permissions", "granted">>) /\ Stays(<<"permissions", "policy_required">>)
    BY <2>1
  <2> QED BY <2>2, <2>3 DEF Seen
<1>3. m.classes = n.classes
  <2>1. <<"data", "classes">> \notin {p} \cup Inside(p)
    BY OnlyTrustGoes
  <2>2. <<"data", "classes">> \notin Defaulted
    BY DEF Defaulted, Tiers
  <2> QED BY <2>1, <2>2, FactsStay DEF Seen
<1>4. m.action = n.action
  <2>1. <<"action", "kind">> \notin {p} \cup Inside(p)
    BY OnlyTrustGoes
  <2>2. Front(<<"action", "kind">>)[1] = "action"
    BY FrontFirst
  <2>3. Front(<<"action", "kind">>) \notin {p} \cup Inside(p)
    BY <2>2, OnlyTrustGoes
  <2> QED BY <2>1, <2>2, <2>3, FactsStay DEF Seen
<1>5. m.source \in {n.source, "client_asserted"}
  <2>1. Default(<<"provenance", "source">>) = "client_asserted"
    BY DEF Default
  <2>2. /\ m.source = Get(Normal(Without(raw, p)), <<"provenance", "source">>, "client_asserted")
        /\ n.source = Get(Normal(raw), <<"provenance", "source">>, "client_asserted")
    BY DEF Seen
  <2> QED BY <2>1, <2>2, SaidOrDefault
<1>6. m.verified \in {n.verified, FALSE}
  <2> DEFINE q == <<"provenance", "attestation", "verified">>
             N(d) == Get(Normal(raw), q, d)
             M(d) == Get(Normal(Without(raw, p)), q, d)
  <2>1. Default(q) = FALSE
    BY DEF Default
  <2>2. m.verified = M(FALSE) /\ n.verified = N(FALSE)
    BY DEF Seen
  <2>3. \A d : M(d) \in {N(d), Default(q), d}
    BY SaidOrDefault
  <2> HIDE DEF M, N, n, m
  <2> QED BY <2>1, <2>2, <2>3
<1>7. m.dest \in {n.dest, "unknown", "absent"}
  <2>1. Default(<<"data", "egress", "destination_trust">>) = "unknown"
    BY DEF Default
  <2>2. /\ m.dest = Get(Normal(Without(raw, p)), <<"data", "egress", "destination_trust">>, "absent")
        /\ n.dest = Get(Normal(raw), <<"data", "egress", "destination_trust">>, "absent")
    BY DEF Seen
  <2> QED BY <2>1, <2>2, SaidOrDefault
<1> HIDE DEF n, m
<1>8. /\ Sensitive(m) = Sensitive(n) /\ Egress(m) = Egress(n) /\ Granted(m) = Granted(n)
  BY <1>2, <1>4 DEF Sensitive, Egress, Granted
<1>9. Attested(m) => Attested(n)
  BY <1>5, <1>6 DEF Attested
<1>10. Untrusted(n) => Untrusted(m)
  BY <1>7 DEF Untrusted
<1>11. AtLeastAsRisky(n, m)
  BY <1>2, <1>3, <1>8, <1>9, <1>10 DEF AtLeastAsRisky
<1> QED BY <1>11 DEF n, m

-----------------------------------------------------------------------------
(* The theorems of the specification.                                       *)

\* An edit that is not of the id itself brings none in.
LEMMA EditKeepsUnmarked ==
  ASSUME SInv, NEW raw, NEW p, Revise(raw, p),
         DOMAIN raw \subseteq DOMAIN draft \cup {p}
  PROVE  SInv'
<1>1. ReplayIsCurrent'
  BY DEF Revise, ReplayIsCurrent
<1>2. Unmarked'
  BY DEF Revise, SInv, Unmarked
<1>3. SentIsSequence' /\ CallsKeepTheirIds'
  BY DEF Revise, SInv, SentIsSequence, CallsKeepTheirIds
<1> QED BY <1>1, <1>2, <1>3 DEF SInv

\* The request of one call.
Request(arg) ==
  [arg |-> arg, named |-> named, id |-> IdOf(Body(draft, arg)),
   header |-> Header(arg, Body(draft, arg)), judged |-> Evaluate(Body(draft, arg))]

\* A call adds its request after the earlier ones.
LEMMA SubmitAppends ==
  ASSUME SentIsSequence, NEW arg, Submit(arg)
  PROVE  /\ SentIsSequence'
         /\ DOMAIN sent' = DOMAIN sent \cup {Len(sent')}
         /\ \A i \in DOMAIN sent : sent'[i] = sent[i]
         /\ Last(sent') = Request(arg) /\ sent'[Len(sent')] = Request(arg)
<1>1. sent' = Append(sent, Request(arg))
  BY DEF Submit, Request
<1>2. PICK S : sent \in Seq(S)
  BY DEF SentIsSequence
<1>3. PICK T : T = S \cup {Request(arg)}
  OBVIOUS
<1>4. sent \in Seq(T) /\ Request(arg) \in T
  BY <1>2, <1>3
<1>5. PICK r : r = Request(arg)
  OBVIOUS
<1>6. /\ sent' = Append(sent, r) /\ r \in T
  BY <1>1, <1>4, <1>5
<1>7. /\ sent' \in Seq(T) /\ Len(sent') = Len(sent) + 1 /\ sent'[Len(sent) + 1] = r
      /\ DOMAIN sent' = 1 .. Len(sent) + 1 /\ DOMAIN sent = 1 .. Len(sent)
      /\ \A i \in 1 .. Len(sent) : sent'[i] = sent[i]
  BY <1>4, <1>6
<1>8. Len(sent) \in Nat
  BY <1>4
<1> QED BY <1>5, <1>7, <1>8 DEF SentIsSequence, Last

\* The request of a call that names an id, with a context that carries none.
LEMMA RequestNamesId ==
  ASSUME NEW arg, arg # None, RequestId \notin DOMAIN draft
  PROVE  Request(arg).id = arg /\ Request(arg).header = arg
<1>1. Body(draft, arg) =
        [q \in DOMAIN draft \cup {RequestId} |-> IF q = RequestId THEN arg ELSE draft[q]]
  BY DEF Body
<1>2. IdOf(Body(draft, arg)) = arg
  BY <1>1 DEF IdOf
<1> QED BY <1>2 DEF Request, Header

\* A call keeps the invariant.
LEMMA SubmitKeeps ==
  ASSUME SInv, NEW arg, Submit(arg)
  PROVE  SInv'
<1>1. ReplayIsCurrent'
  BY DEF Submit, ReplayIsCurrent
<1>2. UNCHANGED <<form, named>> /\ (form # "shared" => draft' = draft)
  BY DEF Submit, Held
<1>3. Unmarked'
  BY <1>2 DEF SInv, Unmarked
<1>4. SentIsSequence'
  BY SubmitAppends DEF SInv
<1>5. CallsKeepTheirIds'
  <2>1. ASSUME NEW i \in DOMAIN sent', form' # "shared", ~sent'[i].named, sent'[i].arg # None
        PROVE  sent'[i].id = sent'[i].arg /\ sent'[i].header = sent'[i].arg
    <3>1. CASE i \in DOMAIN sent
      <4>1. sent'[i] = sent[i]
        BY <3>1, SubmitAppends DEF SInv
      <4> QED BY <1>2, <2>1, <3>1, <4>1 DEF SInv, CallsKeepTheirIds
    <3>2. CASE i \notin DOMAIN sent
      <4>1. sent'[i] = Request(arg)
        BY <2>1, <3>2, SubmitAppends DEF SInv
      <4>2. sent'[i].arg = arg /\ sent'[i].named = named
        BY <4>1 DEF Request
      <4>3. RequestId \notin DOMAIN draft
        BY <1>2, <2>1, <4>2 DEF SInv, Unmarked
      <4> QED BY <2>1, <4>1, <4>2, <4>3, RequestNamesId
    <3> QED BY <3>1, <3>2
  <2> QED BY <2>1 DEF CallsKeepTheirIds
<1> QED BY <1>1, <1>3, <1>4, <1>5 DEF SInv

LEMMA InvInit == Init => SInv
<1> SUFFICES ASSUME Init PROVE SInv
  OBVIOUS
<1>1. ReplayIsCurrent /\ Unmarked
  BY DEF Init, ReplayIsCurrent, Unmarked
<1>2. sent \in Seq({}) /\ DOMAIN sent = {}
  BY DEF Init
<1> QED BY <1>1, <1>2 DEF SInv, SentIsSequence, CallsKeepTheirIds

LEMMA InvStep == SInv /\ [Next]_vars => SInv'
<1> SUFFICES ASSUME SInv, [Next]_vars PROVE SInv'
  OBVIOUS
<1>1. ASSUME NEW p \in Pointers, Drop(p)
      PROVE  SInv'
  <2>1. DOMAIN Without(draft, p) \subseteq DOMAIN draft \cup {p}
    BY DEF Without, Restrict
  <2> QED BY <1>1, <2>1, EditKeepsUnmarked DEF Drop
<1>2. ASSUME NEW p \in Pointers, NEW x \in Raw(p), Set(p, x)
      PROVE  SInv'
  <2>1. DOMAIN With(draft, p, x) \subseteq DOMAIN draft \cup {p}
    BY DEF With, Without, Restrict
  <2> QED BY <1>2, <2>1, EditKeepsUnmarked DEF Set
<1>3. ASSUME NEW arg, Submit(arg)
      PROVE  SInv'
  BY <1>3, SubmitKeeps
<1>4. CASE UNCHANGED vars
  BY <1>4 DEF vars, SInv, ReplayIsCurrent, Unmarked, SentIsSequence, CallsKeepTheirIds
<1> QED BY <1>1, <1>2, <1>3, <1>4 DEF Next

\* The replay on record is that of the context at hand, and the client keeps
\* its own ids out of it.
THEOREM Invariant == Spec => []SInv
BY InvInit, InvStep, PTL DEF Spec

\* A call that names an id sends it, whatever was submitted before
\* (CallsKeepTheirIds).
THEOREM IdsAreKept == Spec => []CallsKeepTheirIds
<1>1. SInv => CallsKeepTheirIds
  BY DEF SInv
<1> QED BY <1>1, Invariant, PTL

\* A replay that is judged is that of the context.
LEMMA ReplayedIsEvaluated ==
  ASSUME NEW f, NEW raw, Replay(f, raw).kind = "judged"
  PROVE  Replay(f, raw) = Evaluate(raw)
BY DEF Replay, Refused

\* Contexts with the same snapshot hash are judged alike (HashDecides).
THEOREM HashIsDecisive == Spec => HashDecides
<1>1. ASSUME NEW raw, Evaluate(raw).kind = "judged"
      PROVE  /\ Evaluate(raw).hash = Hash(Normal(raw))
             /\ Evaluate(raw).judgement = Judgement(Normal(raw))
  BY <1>1 DEF Evaluate, Raises, Refused
<1>2. ASSUME NEW f, NEW raw, NEW other,
             Replay(f, raw).kind = "judged", Replay(f, other).kind = "judged",
             Replay(f, raw).hash = Replay(f, other).hash
      PROVE  Replay(f, raw).judgement = Replay(f, other).judgement
  <2>1. Replay(f, raw) = Evaluate(raw) /\ Replay(f, other) = Evaluate(other)
    BY <1>2, ReplayedIsEvaluated
  <2>2. Hash(Normal(raw)) = Hash(Normal(other))
    BY <1>1, <1>2, <2>1
  <2> QED BY <1>1, <1>2, <2>1, <2>2, HashPins
<1>3. [Next]_vars => form' = form
  BY DEF Next, Drop, Set, Revise, Submit, vars
<1>4. SInv /\ SInv' /\ [Next]_vars =>
        [replayed.kind = "judged" /\ replayed'.kind = "judged" /\ replayed.hash = replayed'.hash
           => replayed.judgement = replayed'.judgement]_vars
  BY <1>2, <1>3 DEF SInv, ReplayIsCurrent
<1> QED BY <1>4, Invariant, PTL DEF Spec, HashDecides

\* What is sent is judged as what was replayed, but for a Mapping and for an id
\* argument that is too long (SentReplays).
THEOREM SubmissionReplays == Spec => SentReplays
<1> DEFINE Same(request) ==
             \/ request.judged = replayed
             \/ form = "mapping" /\ request.judged = Evaluate(draft)
             \/ /\ request.arg = Fault("oversized") /\ RequestId \notin DOMAIN draft
                /\ request.judged = Refused("oversized", Len(Order))
<1>1. ASSUME SInv, NEW arg \in Arguments, Submit(arg)
      PROVE  Same(Last(sent'))
  <2>1. Last(sent') = Request(arg)
    BY <1>1, SubmitAppends DEF SInv
  <2>2. Last(sent').judged = Evaluate(Body(draft, arg)) /\ Last(sent').arg = arg
    BY <2>1 DEF Request
  <2>3. form # "mapping" => replayed = Evaluate(draft)
    BY <1>1 DEF SInv, ReplayIsCurrent, Replay
  <2> QED BY <2>2, <2>3, BodyReplays
<1>2. ASSUME NEW p, Drop(p) PROVE sent' = sent
  BY <1>2 DEF Drop, Revise
<1>3. ASSUME NEW p, NEW x, Set(p, x) PROVE sent' = sent
  BY <1>3 DEF Set, Revise
<1>4. SInv /\ [Next]_vars => [sent' # sent => Same(Last(sent'))]_vars
  <2> HIDE DEF Same
  <2> QED BY <1>1, <1>2, <1>3 DEF Next
<1> QED BY <1>4, Invariant, PTL DEF Spec, SentReplays

\* Leaving out what a context says about trust never softens the decision
\* (OmissionNeverSoftens), whatever else the context holds.
THEOREM OmissionIsSafe == Spec => OmissionNeverSoftens
<1>1. ASSUME NEW raw, Evaluate(raw).kind = "judged"
      PROVE  Evaluate(raw).judgement.verdict = Decide(Seen(Normal(raw)))
  BY <1>1 DEF Evaluate, Raises, Refused, Judgement
<1>2. ASSUME NEW raw, NEW p \in TrustPointers
      PROVE  ~Softens(Evaluate(raw), Evaluate(Without(raw, p)))
  <2> DEFINE before == Decide(Seen(Normal(raw))).decision
             after == Decide(Seen(Normal(Without(raw, p)))).decision
  <2>1. Severity(before) <= Severity(after)
    BY OmissionIsRisk, DecideMonotone
  <2>2. Severity(before) \in Int /\ Severity(after) \in Int
    BY SeverityType
  <2>3. ~(Severity(after) < Severity(before))
    BY <2>1, <2>2
  <2> QED BY <1>1, <2>3 DEF Softens
<1>3. ASSUME SInv, NEW p \in TrustPointers, Drop(p)
      PROVE  ~Softens(replayed, replayed')
  <2>1. replayed = Replay(form, draft) /\ replayed' = Replay(form, Without(draft, p))
    BY <1>3 DEF SInv, ReplayIsCurrent, Drop, Revise
  <2>2. ASSUME Softens(replayed, replayed') PROVE FALSE
    <3>1. replayed.kind = "judged" /\ replayed'.kind = "judged"
      BY <2>2 DEF Softens
    <3>2. replayed = Evaluate(draft) /\ replayed' = Evaluate(Without(draft, p))
      BY <2>1, <3>1, ReplayedIsEvaluated
    <3> QED BY <1>2, <2>2, <3>2
  <2> QED BY <2>2
<1>4. SInv => [\A p \in TrustPointers : Drop(p) => ~Softens(replayed, replayed')]_vars
  BY <1>3
<1> QED BY <1>4, Invariant, PTL DEF OmissionNeverSoftens

-----------------------------------------------------------------------------
(* Contexts and builders.                                                   *)

\* Only JSON values are at hand, and one that was built from a description is
\* what the builder made of it.
Origin ==
  /\ RawContext(draft)
  /\ kw # None => kw \in Descriptions /\ draft = Build(kw) /\ form = "dict"

\* That is so at first, and stays so.
LEMMA OriginInit == Init => Origin
<1> SUFFICES ASSUME Init PROVE Origin
  OBVIOUS
<1>1. CASE \E raw \in Bases : draft = raw /\ kw = None
  BY <1>1, SubmissionAssumption DEF Origin
<1>2. CASE \E d \in Descriptions : draft = Build(d) /\ kw = d
  BY <1>2, SubmissionAssumption, BuiltIsRaw DEF Init, Origin
<1> QED BY <1>1, <1>2 DEF Init

\* What a request id may be refused for,
LEMMA IdFaults == Faults(RequestId) = {"invalid_type", "oversized"}
<1>1. /\ RequestId # <<>> /\ RequestId # <<"data", "classes">> /\ RequestId \notin Enums
      /\ RequestId \notin Flags /\ RequestId # <<"signals", "onchain">>
      /\ RequestId \notin Numbers /\ RequestId # <<"signals", "engagement_ratio">>
      /\ RequestId # <<"tsc_version">>
  BY DEF RequestId, Enums, OtherEnums, Tiers, Flags, Numbers
<1>2. RequestId \notin Objects
  BY OthersAccepted DEF Single, Fields
<1> QED BY <1>1, <1>2 DEF Faults

\* and a context as a whole.
LEMMA ContextFaults == Faults(<<>>) = {"malformed", "unknown_field"}
<1>1. /\ <<>> # <<"data", "classes">> /\ <<>> \notin Enums
      /\ <<>> \notin Flags /\ <<>> # <<"signals", "onchain">>
      /\ <<>> \notin Numbers /\ <<>> # <<"signals", "engagement_ratio">>
      /\ <<>> # <<"tsc_version">>
  BY DEF Enums, OtherEnums, Tiers, Flags, Numbers
<1> QED BY <1>1 DEF Faults

\* The body of a request is a JSON value.
LEMMA BodyIsRaw ==
  ASSUME NEW raw, RawContext(raw), raw[<<>>] # Fault("malformed"), NEW arg \in Arguments
  PROVE  RawContext(Body(raw, arg))
<1> DEFINE body == Body(raw, arg)
<1>1. CASE arg = None \/ RequestId \in DOMAIN raw
  BY <1>1 DEF Body
<1>2. CASE ~(arg = None \/ RequestId \in DOMAIN raw)
  <2>1. /\ DOMAIN body = DOMAIN raw \cup {RequestId}
        /\ body[RequestId] = arg
        /\ \A q \in DOMAIN raw : body[q] = raw[q]
    BY <1>2 DEF Body
  <2> HIDE DEF body
  <2>2. RequestId \in Pointers /\ arg \in Raw(RequestId)
    <3>1. RequestId \in Pointers /\ Ids \subseteq Accepted(RequestId)
      BY OthersAccepted DEF Single, Fields
    <3>2. "oversized" \in Faults(RequestId)
      BY IdFaults
    <3> QED BY <1>2, <3>1, <3>2 DEF Raw, Arguments
  <2>3. Front(RequestId) = <<>>
    BY Fronts DEF RequestId
  <2>4. <<>> \in DOMAIN raw /\ raw[<<>>] \in {Good("object"), Fault("unknown_field")}
    <3>1. <<>> \in DOMAIN raw /\ raw[<<>>] \in Raw(<<>>)
      BY DEF RawContext
    <3>2. Accepted(<<>>) = {"object"}
      BY ObjectsAre, ObjectAccepted
    <3>3. Faults(<<>>) = {"malformed", "unknown_field"}
      BY ContextFaults
    <3> QED BY <3>1, <3>2, <3>3 DEF Raw
  <2>5. \A p \in DOMAIN raw :
          /\ p \in Pointers /\ raw[p] \in Raw(p)
          /\ p # <<>> => /\ Front(p) \in DOMAIN raw
                         /\ raw[Front(p)] \in {Good("object"), Fault("unknown_field")}
    BY DEF RawContext
  <2>6. RawContext(body)
    <3>1. <<>> \in DOMAIN body /\ DOMAIN body \subseteq Pointers
      BY <2>1, <2>2, <2>4, <2>5
    <3>2. ASSUME NEW p \in DOMAIN raw
          PROVE  /\ body[p] \in Raw(p)
                 /\ p # <<>> => /\ Front(p) \in DOMAIN body
                                /\ body[Front(p)] \in {Good("object"), Fault("unknown_field")}
      BY <2>1, <2>5
    <3>3. /\ body[RequestId] \in Raw(RequestId)
          /\ Front(RequestId) \in DOMAIN body
          /\ body[Front(RequestId)] \in {Good("object"), Fault("unknown_field")}
      BY <2>1, <2>2, <2>3, <2>4
    <3> QED BY <2>1, <3>1, <3>2, <3>3 DEF RawContext
  <2> QED BY <2>6 DEF body
<1> QED BY <1>1, <1>2

LEMMA OriginStep == Origin /\ [Next]_vars => Origin'
<1> SUFFICES ASSUME Origin, [Next]_vars PROVE Origin'
  OBVIOUS
<1>1. ASSUME NEW raw, NEW p, Revise(raw, p)
      PROVE  Origin'
  BY <1>1 DEF Revise, Origin
<1>2. ASSUME NEW arg \in Arguments, Submit(arg)
      PROVE  Origin'
  <2>1. /\ draft' = IF form = "shared" THEN Body(draft, arg) ELSE draft
        /\ UNCHANGED <<kw, form>> /\ draft[<<>>] # Fault("malformed")
    BY <1>2 DEF Submit, Held
  <2>2. RawContext(draft')
    BY <2>1, BodyIsRaw DEF Origin
  <2> QED BY <2>1, <2>2 DEF Origin
<1>3. CASE UNCHANGED vars
  BY <1>3 DEF vars, Origin
<1> QED BY <1>1, <1>2, <1>3 DEF Next, Drop, Set

\* Every context at hand is a JSON value, and a built one is as it was built.
THEOREM OriginIsKept == Spec => []Origin
BY OriginInit, OriginStep, PTL DEF Spec

\* What is replayed is a JSON value, and what normalize makes of one it accepts is
\* a context decide is defined on (TypeOK).
THEOREM TypeCorrect == Spec => []TypeOK
<1>1. SInv /\ Origin => TypeOK
  BY JudgedIsContext, ReplayedIsEvaluated DEF SInv, ReplayIsCurrent, Origin, TypeOK
<1> QED BY <1>1, Invariant, OriginIsKept, PTL

\* The builders make contexts the evaluator judges (BuiltIsJudged).
THEOREM BuiltContextsAreJudged == Spec => []BuiltIsJudged
<1>1. SInv /\ Origin => BuiltIsJudged
  BY BuildersAreJudged, SubmissionAssumption
     DEF SInv, ReplayIsCurrent, Replay, Origin, BuiltIsJudged
<1> QED BY <1>1, Invariant, OriginIsKept, PTL

\* What becomes of a description: which egress and which payments are stopped, and
\* that without a policy no other action is (DescriptionsAreRuled).
THEOREM DescriptionsRuled == Spec => []DescriptionsAreRuled
<1>1. SInv /\ Origin => DescriptionsAreRuled
  <2> SUFFICES ASSUME SInv, Origin, kw # None, replayed.kind = "judged"
               PROVE  DescriptionsAreRuled
    BY DEF DescriptionsAreRuled
  <2>1. IsDescription(kw) /\ draft = Build(kw) /\ replayed = Evaluate(draft)
    BY SubmissionAssumption DEF SInv, ReplayIsCurrent, Replay, Origin
  <2>2. replayed.judgement.verdict = Decide(Seen(Normal(Build(kw))))
    BY <2>1 DEF Evaluate, Raises, Refused, Judgement
  <2>3. /\ kw.action \in EgressActions => Route(kw) = "data_egress"
        /\ kw.action \in PaymentActions => Route(kw) = "payment"
        /\ kw.action \notin EgressActions \cup PaymentActions => Route(kw) = "tool_call"
    BY DEF Route, EgressActions, PaymentActions
  <2>4. kw.action \in EgressActions => kw.destination_trust # None
    BY <2>1, <2>3, JudgedEgressHasTrust
  <2>5. ASSUME kw.action \in EgressActions
        PROVE  replayed.judgement.verdict.decision =
                 IF /\ kw.destination_trust \in {"unverified", "unknown"}
                    /\ kw.data_class # None /\ kw.data_class \cap {"secret", "credential"} # {}
                   THEN "BLOCK"
                 ELSE IF /\ kw.destination_trust \in {"unverified", "unknown"}
                         /\ kw.data_class # None
                         /\ kw.data_class \cap {"pii", "financial", "regulated"} # {}
                   THEN "REVIEW" ELSE "PASS"
    BY <2>1, <2>2, <2>3, <2>4, <2>5, EgressIsRuled
  <2>6. ASSUME kw.action \in PaymentActions
        PROVE  replayed.judgement.verdict.decision =
                 IF /\ kw.granted_scopes # {}
                    /\ ~(/\ kw.provenance # None
                         /\ kw.provenance \in {"engine_derived", "trusted_metadata"})
                   THEN "REVIEW" ELSE "PASS"
    BY <2>1, <2>2, <2>3, <2>6, PaymentIsRuled
  <2>7. kw.action \notin EgressActions \cup PaymentActions /\ kw.policy_required = {}
          => replayed.judgement.verdict.decision # "BLOCK"
    BY <2>1, <2>2, <2>3, ToolCallIsRuled
  <2> QED BY <2>5, <2>6, <2>7 DEF DescriptionsAreRuled
<1> QED BY <1>1, Invariant, OriginIsKept, PTL
=============================================================================
