------------------------ MODULE MCAuthorizedExecution ------------------------
(* Grants, actions and amounts for the runs of AuthorizedExecution.          *)
EXTENDS AuthorizedExecution, SequencesExt

CONSTANTS DigitsUsed, MaxWhole, MaxFrac

\* Decimals: bounded runs of digits, and the integer -1.
Dec(whole, frac) == [whole |-> whole, frac |-> frac]
MCAmounts ==
  {Dec(w, f) : w \in BoundedSeq(DigitsUsed, MaxWhole) \ {<<>>},
               f \in BoundedSeq(DigitsUsed, MaxFrac)}
    \cup {Dec(<<Minus, 1>>, <<>>)}

NoGrant == [allowed_actions |-> None, allowed_targets |-> None,
            allowed_currencies |-> None, max_amount |-> None, max_qty |-> None]
Vendor == [NoGrant EXCEPT !.allowed_actions = {"pay"},
                          !.allowed_targets = {"v1", "v2"}]
Capped == [Vendor EXCEPT !.allowed_currencies = {"USDC"},
                         !.max_amount = Dec(<<1, 0>>, <<>>)]
MCGrants ==
  {NoGrant, Vendor, Capped,
   [Vendor EXCEPT !.allowed_targets = {}],
   [Capped EXCEPT !.max_amount = Dec(<<9>>, <<9>>)],
   [Capped EXCEPT !.max_amount = Malformed],
   [Capped EXCEPT !.allowed_targets = {"v1"}, !.max_qty = 1],
   [NoGrant EXCEPT !.max_qty = Malformed]}

Pay == [subject |-> "agent", action |-> "pay", target |-> "v1",
        parameters |-> [amount |-> Dec(<<9>>, <<9, 0>>), currency |-> "USDC",
                        qty |-> 1],
        note |-> "n1"]
MCActions ==
  {Pay, [Pay EXCEPT !.note = "n2"], [Pay EXCEPT !.target = "v3"],
   [Pay EXCEPT !.parameters.amount = Dec(<<1, 0>>, <<0, 1>>)],
   [Pay EXCEPT !.parameters.amount = Malformed, !.parameters.qty = 2],
   [Pay EXCEPT !.parameters.amount = Dec(<<Minus, 1>>, <<>>)],
   [Pay EXCEPT !.parameters = None]}

Symmetry == Permutations(Snaps)
=============================================================================
