---------------------------- MODULE MCLoopEngine ----------------------------
(* Small instances of LoopEngine. *)
EXTENDS LoopEngine

=============================================================================
