--------------------------- MODULE MC_GateStatus ---------------------------
(* Two workers who report a gate, and one HTTP request beside the MQTT thread. *)
EXTENDS GateStatus

=============================================================================
