-------------------------- MODULE MC_ImmutableBoot --------------------------
(* Five boots: enough for two failures and the alarm, a success, the       *)
(* stale alarm after it and the failure of a settled system.               *)
EXTENDS ImmutableBoot
=============================================================================
