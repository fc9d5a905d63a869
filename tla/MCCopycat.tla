------------------------------ MODULE MCCopycat -------------------------------
(***************************************************************************)
(* Two contributors with a pull request each; one may submit what the other *)
(* submits, alone or inside something larger.                               *)
(***************************************************************************)
EXTENDS Copycat

Weigh == [p \in Parts |-> CASE p = "kernel" -> 60 [] p = "half" -> 40 [] OTHER -> 30]
By == [pr \in PRs |-> CASE pr = 1 -> "alice" [] pr = 2 -> "bob" [] OTHER -> "carol"]

Whole == [added |-> {"kernel"}, base |-> {}]
Both == [added |-> {"kernel", "half"}, base |-> {}]
Larger == [pr \in PRs |-> IF pr = 2 THEN {Whole, Both} ELSE {Whole}]

=============================================================================
