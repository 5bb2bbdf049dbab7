--------------------------- MODULE MCSensorPolling ---------------------------
(* SensorPolling with words of 6 and 4 bits instead of 32 and 16, so that   *)
(* the readings 20 and 63 reach the widths that 2^16 and 2^32 - 1 reach.    *)
EXTENDS SensorPolling

LuxForced == {{}, {"lux"}}
NoForceWrites == {{}}
=============================================================================
