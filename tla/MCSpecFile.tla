----------------------------- MODULE MCSpecFile -----------------------------
(* Two processes launch and two jobs run a model of one or two nodes.      *)
EXTENDS SpecFile, TLC

MCSizes == {1, 2}
MCDefaults == [k \in Keys |-> 1]
Symmetry == Permutations(Launchers) \cup Permutations(Jobs)
=============================================================================
