---------------------------- MODULE MCStepEvents ----------------------------
(* Small instances of StepEvents. *)
EXTENDS StepEvents

\* One Engine, and pipelines of two that mix both kinds.
SmallPlans == {<<"base">>, <<"custom">>, <<"base", "custom">>, <<"custom", "base">>,
               <<"custom", "custom">>}

=============================================================================
