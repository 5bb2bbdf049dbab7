-------------------------- MODULE MCAirplaneDaemon --------------------------
(* AirplaneDaemon with a buffer of a few events.                            *)
EXTENDS AirplaneDaemon
=============================================================================
