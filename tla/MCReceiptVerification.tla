------------------------ MODULE MCReceiptVerification ------------------------
(* An instance of ReceiptVerification for TLC: two contexts that the reference *)
(* evaluator passes and blocks.                                                *)
EXTENDS ReceiptVerification, TLC

CONSTANTS x1, x2, h1, h2, why

MCReference ==
  x1 :> [decision |-> "PASS", reasons |-> why, snap |-> h1]
    @@ x2 :> [decision |-> "BLOCK", reasons |-> why, snap |-> h2]
=============================================================================
