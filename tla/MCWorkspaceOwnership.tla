------------------------ MODULE MCWorkspaceOwnership ------------------------
(* Two TaskManagers of one service container, and another process.          *)
EXTENDS WorkspaceOwnership, TLC

CONSTANTS m1, m2, m3, o1, o2

TwoProcesses == (m1 :> o1) @@ (m2 :> o1) @@ (m3 :> o2)

=============================================================================
