--------------------------- MODULE ExecutionBinding ---------------------------
(***************************************************************************)
(* Execution binding (quesen_sdk/execution.py): the canonical hash of an   *)
(* action, and the check that evidence of an execution belongs to an       *)
(* action and to the receipt that authorized it.                           *)
(*                                                                         *)
(* A field that is absent or null is None.  SHA-256 is taken as free of    *)
(* collisions, so a hash stands for the bytes it was computed from.        *)
(***************************************************************************)
EXTENDS Integers, Sequences

CONSTANT None

\* Mutant: the target is missing from _ACTION_FIELDS.
HashWithoutTarget(a) == <<a.subject, a.action, a.parameters>>

\* The hash covers _ACTION_FIELDS and nothing else of an action.
ActionHash(a) == <<a.subject, a.action, a.target, a.parameters>>

\* Mutant: evidence that names no authorization counts as linked.
BindingUnlinked(receipt, action, ev) ==
  LET bound == ev.execution_binding = ActionHash(action)
      linked == receipt.snap # None /\ ev.snap = receipt.snap
  IN [ok |-> bound /\ (receipt.snap = None \/ ev.snap = None \/ linked),
      bound |-> bound, linked |-> linked]

\* verify_execution_binding: a receipt without a snapshot hash cannot be linked
\* to, and is then not asked for a link.
Binding(receipt, action, ev) ==
  LET bound == ev.execution_binding = ActionHash(action)
      linked == receipt.snap # None /\ ev.snap = receipt.snap
  IN [ok |-> bound /\ (receipt.snap = None \/ linked),
      bound |-> bound, linked |-> linked]
=============================================================================
