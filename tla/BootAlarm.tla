------------------------------ MODULE BootAlarm ------------------------------
(***************************************************************************)
(* What the boot health check of ArttulOS promises, without its files and  *)
(* its script: a memory n of unfinished boots, a flag ok that some boot    *)
(* finished, and an alarm that tells the user to boot into recovery.       *)
(* ImmutableBoot implements it (configs/immutable-patch.sh, 139-190).      *)
(***************************************************************************)
EXTENDS Naturals

VARIABLES n,      \* boots remembered as unfinished
          ok,     \* some boot was marked successful
          alarm   \* recovery was suggested in the present boot

avars == <<n, ok, alarm>>

Threshold == 3

AInit == n = 0 /\ ok = FALSE /\ alarm = FALSE

(* A boot is remembered before it is known to succeed. *)
Remember == n' = n + 1 /\ UNCHANGED <<ok, alarm>>

(* The alarm counts the present boot as one of the three. *)
Raise == n + 1 >= Threshold /\ alarm' = TRUE /\ UNCHANGED <<n, ok>>

(* The memory is emptied on purpose only when a success is on record. *)
Forget == ok /\ n' = 0 /\ UNCHANGED <<ok, alarm>>

Succeed == ok' = TRUE /\ UNCHANGED <<n, alarm>>

(* The power goes: the alarm is off, and a memory being rewritten is lost. *)
PowerLoss == n' \in {0, n} /\ alarm' = FALSE /\ UNCHANGED ok

ANext == Remember \/ Raise \/ Forget \/ Succeed \/ PowerLoss

ASpec == AInit /\ [][ANext]_avars
=============================================================================
