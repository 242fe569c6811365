--------------------------- MODULE MCStreamBridge ---------------------------
(* Small instances of StreamBridge. *)
EXTENDS StreamBridge

=============================================================================
