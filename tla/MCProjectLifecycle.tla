-------------------------- MODULE MCProjectLifecycle --------------------------
(* Two Projects, so that one may be cloned into the other.                  *)
EXTENDS ProjectLifecycle, TLC

Symmetry == Permutations(Projects) \cup Permutations(Components) \cup Permutations(Tasks)

===============================================================================
