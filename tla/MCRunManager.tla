---------------------------- MODULE MCRunManager ----------------------------
(* Small instances of RunManager. *)
EXTENDS RunManagerRefines, TLC

\* The safety runs look at no fairness.
SafetySpec == Init /\ [][Next]_vars

\* Requests are interchangeable: no definition names one.
RequestSymmetry == Permutations(Requests)

=============================================================================
