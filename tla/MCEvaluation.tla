----------------------------- MODULE MCEvaluation -----------------------------
(***************************************************************************)
(* Two pull requests on one box: every way a submission may fail, two       *)
(* overlapping rounds, an operator's calibration, and two faults.           *)
(***************************************************************************)
EXTENDS Evaluation, TLC

Kernel == [kind |-> "kernel", builds |-> TRUE, sound |-> TRUE, base |-> "good", cand |-> "good"]
Cell == [Kernel EXCEPT !.kind = "cell"]

Mixed == {Kernel, Cell, [Kernel EXCEPT !.builds = FALSE], [Kernel EXCEPT !.base = "far"],
          [Kernel EXCEPT !.cand = "late"], [Kernel EXCEPT !.cand = "flaky"],
          [Cell EXCEPT !.sound = FALSE], [Cell EXCEPT !.cand = "far"]}
Good == {Kernel}
Both == {Kernel, Cell}

Same == Permutations(Rounds) \cup Permutations(PRs)

=============================================================================
