---------------------------- MODULE ImmutableBoot ----------------------------
(***************************************************************************)
(* The boot of an installed ArttulOS system, as the units and scripts that *)
(* configs/immutable-patch.sh writes make it happen:                       *)
(*                                                                         *)
(*   arttulos-overlay-setup  copies /etc and /var into their overlays once *)
(*   arttulos-usr-remount    remounts /usr read-only                       *)
(*   arttulos-boot-check     counts the boot, and suggests recovery        *)
(*   arttulos-boot-ok        marks the boot successful                     *)
(*                                                                         *)
(* The first three are ordered before local-fs.target and not against each *)
(* other, so their steps interleave; the fourth runs after it.  Power may  *)
(* be lost between any two steps.  One action is one command that touches  *)
(* the disk.  Assumed of the installation: the four units are enabled (the *)
(* patch leaves that to the image), the root file system is writable when  *)
(* they run, and a completed command survives a power loss.                *)
(***************************************************************************)
EXTENDS Integers

CONSTANT MaxBoots   \* bound: boots in one behaviour

ASSUME MaxBootsAssumption == MaxBoots \in Nat

Threshold == 3      \* [ "$COUNT" -ge 3 ]

VARIABLES
  (* on disk *)
  failFile,   \* .arttulos-boot-fail: absent, empty, or holding failCount
  failCount,
  okMark,     \* .arttulos-boot-ok exists
  etc, var,   \* what /etc-overlay and /var-overlay hold
  etcInit, varInit,   \* their .initialized markers exist
  (* of the running system *)
  power,
  setup, check, remount, bootOk,   \* the next command of each unit
  COUNT,      \* the shell variable of boot-check.sh
  usrReadOnly,
  localFs,    \* local-fs.target is reached
  (* seen by an observer *)
  boots,      \* boots so far
  streak,     \* boots in a row, before this one, that ended unfinished
  checkedFails,   \* of them, the latest in a row whose check left a count
  settled,    \* the check has emptied its memory after a successful boot
  offered     \* recovery was suggested in this boot

alarmFiles == <<failFile, failCount, okMark>>
overlays   == <<etc, var, etcInit, varInit>>
units      == <<setup, check, remount, bootOk>>
seen       == <<boots, streak, checkedFails, settled, offered>>
vars == <<failFile, failCount, okMark, etc, var, etcInit, varInit, power,
          setup, check, remount, bootOk, COUNT, usrReadOnly, localFs,
          boots, streak, checkedFails, settled, offered>>

OverlayContents == {"none", "cut", "partial", "base", "edited"}

TypeOK ==
  /\ failFile \in {"absent", "empty", "count"}
  /\ failCount \in Nat
  /\ okMark \in BOOLEAN
  /\ etc \in OverlayContents /\ var \in OverlayContents
  /\ etcInit \in BOOLEAN /\ varInit \in BOOLEAN
  /\ power \in {"off", "on"}
  /\ setup \in {"test", "cpEtc", "cpVar", "touchEtc", "touchVar", "done"}
  /\ check \in {"read", "offer", "truncate", "write", "clear", "done"}
  /\ remount \in {"mount", "done"}
  /\ bootOk \in {"touch", "done"}
  /\ COUNT \in Nat
  /\ usrReadOnly \in BOOLEAN /\ localFs \in BOOLEAN
  /\ boots \in Nat /\ streak \in Nat /\ checkedFails \in Nat
  /\ settled \in BOOLEAN /\ offered \in BOOLEAN

(* The image as installed: empty overlays, no marker, never booted. *)
Init ==
  /\ failFile = "absent" /\ failCount = 0 /\ okMark = FALSE
  /\ etc = "none" /\ var = "none" /\ etcInit = FALSE /\ varInit = FALSE
  /\ power = "off"
  /\ setup = "test" /\ check = "read" /\ remount = "mount" /\ bootOk = "touch"
  /\ COUNT = 0 /\ usrReadOnly = FALSE /\ localFs = FALSE
  /\ boots = 0 /\ streak = 0 /\ checkedFails = 0
  /\ settled = FALSE /\ offered = FALSE

-----------------------------------------------------------------------------
(* Power. *)

Up == power = "on" /\ bootOk = "done"   \* multi-user.target

PowerOn ==
  /\ power = "off" /\ boots < MaxBoots
  /\ power' = "on" /\ boots' = boots + 1
  /\ UNCHANGED <<alarmFiles, overlays, units, COUNT, usrReadOnly, localFs,
                 streak, checkedFails, settled, offered>>

(* What is on disk stays, everything else starts again.  A boot that was   *)
(* not yet up has failed.                                                  *)
Stop ==
  /\ power = "on"
  /\ power' = "off"
  /\ setup' = "test" /\ check' = "read" /\ remount' = "mount"
  /\ bootOk' = "touch"
  /\ COUNT' = 0 /\ usrReadOnly' = FALSE /\ localFs' = FALSE
  /\ offered' = FALSE
  /\ streak' = IF Up THEN 0 ELSE streak + 1
  /\ checkedFails' = IF Up \/ check = "write" THEN 0
                     ELSE IF check \in {"clear", "done"} THEN checkedFails + 1
                     ELSE checkedFails
  /\ UNCHANGED <<alarmFiles, etcInit, varInit, boots, settled>>

(* A crash, a hang ended by the user, or a shutdown. *)
PowerOff == Stop /\ UNCHANGED <<etc, var>>

(* The same, in the middle of one of the two copies. *)
CopyCut ==
  /\ setup \in {"cpEtc", "cpVar"}
  /\ Stop
  /\ etc' = IF setup = "cpEtc" THEN "cut" ELSE etc
  /\ var' = IF setup = "cpVar" THEN "cut" ELSE var

-----------------------------------------------------------------------------
(* arttulos-overlay-setup: setup-overlays.sh. *)

OverlayStep ==
  /\ power = "on" /\ ~localFs
  /\ UNCHANGED <<alarmFiles, power, check, remount, bootOk, COUNT,
                 usrReadOnly, localFs, seen>>

SetupTest ==
  /\ OverlayStep /\ setup = "test"
  /\ setup' = IF etcInit THEN "done" ELSE "cpEtc"
  /\ UNCHANGED overlays

(* cp -a ... || true: a copy that fails half way goes on like one that     *)
(* does not.                                                               *)
CopyEtcThen(next) ==
  /\ OverlayStep /\ setup = "cpEtc"
  /\ setup' = next
  /\ etc' \in {"partial", "base"}
  /\ UNCHANGED <<var, etcInit, varInit>>

CopyEtc_only == CopyEtcThen("touchEtc")
CopyEtc == CopyEtcThen("cpVar")

CopyVar ==
  /\ OverlayStep /\ setup = "cpVar"
  /\ setup' = "touchEtc"
  /\ var' \in {"partial", "base"}
  /\ UNCHANGED <<etc, etcInit, varInit>>

TouchEtc_wrongDir ==
  /\ OverlayStep /\ setup = "touchEtc"
  /\ setup' = "touchVar"
  /\ varInit' = TRUE
  /\ UNCHANGED <<etc, var, etcInit>>

TouchEtc ==
  /\ OverlayStep /\ setup = "touchEtc"
  /\ setup' = "touchVar"
  /\ etcInit' = TRUE
  /\ UNCHANGED <<etc, var, varInit>>

TouchVar ==
  /\ OverlayStep /\ setup = "touchVar"
  /\ setup' = "done"
  /\ varInit' = TRUE
  /\ UNCHANGED <<etc, var, etcInit>>

SetupOverlays == SetupTest \/ CopyEtc \/ CopyVar \/ TouchEtc \/ TouchVar

-----------------------------------------------------------------------------
(* arttulos-boot-check: boot-check.sh. *)

CheckStep ==
  /\ power = "on" /\ ~localFs
  /\ UNCHANGED <<okMark, overlays, power, setup, remount, bootOk,
                 usrReadOnly, localFs, boots, streak, checkedFails>>

(* $(cat file) of an empty file is empty, and $((COUNT + 1)) reads it as 0. *)
ReadAndCompare(step, limit) ==
  /\ CheckStep /\ check = "read"
  /\ COUNT' = IF failFile = "count" THEN failCount + step ELSE 1
  /\ check' = IF failFile # "absent" /\ COUNT' >= limit
              THEN "offer" ELSE "truncate"
  /\ UNCHANGED <<failFile, failCount, settled, offered>>

ReadFail_down  == ReadAndCompare(-1, Threshold)
ReadFail_early == ReadAndCompare(1, Threshold - 1)
ReadFail_late  == ReadAndCompare(1, Threshold + 1)
ReadFail == ReadAndCompare(1, Threshold)

OfferRecovery ==
  /\ CheckStep /\ check = "offer"
  /\ check' = "truncate"
  /\ offered' = TRUE
  /\ UNCHANGED <<failFile, failCount, COUNT, settled>>

(* echo "$COUNT" > file opens the file with O_TRUNC before it writes. *)
TruncateFail ==
  /\ CheckStep /\ check = "truncate"
  /\ check' = "write"
  /\ failFile' = "empty" /\ failCount' = 0
  /\ UNCHANGED <<COUNT, settled, offered>>

WriteFail ==
  /\ CheckStep /\ check = "write"
  /\ check' = "clear"
  /\ failFile' = "count" /\ failCount' = COUNT
  /\ UNCHANGED <<COUNT, settled, offered>>

ClearFail_always ==
  /\ CheckStep /\ check = "clear"
  /\ check' = "done"
  /\ failFile' = "absent" /\ failCount' = 0 /\ settled' = okMark
  /\ UNCHANGED <<COUNT, offered>>

ClearFail ==
  /\ CheckStep /\ check = "clear"
  /\ check' = "done"
  /\ IF okMark THEN failFile' = "absent" /\ failCount' = 0 /\ settled' = TRUE
               ELSE UNCHANGED <<failFile, failCount, settled>>
  /\ UNCHANGED <<COUNT, offered>>

BootCheck == ReadFail \/ OfferRecovery \/ TruncateFail \/ WriteFail \/ ClearFail

-----------------------------------------------------------------------------
(* arttulos-usr-remount, local-fs.target, arttulos-boot-ok. *)

(* The mount fails where /usr is not a mount point; nothing depends on it. *)
RemountUsr ==
  /\ power = "on" /\ ~localFs /\ remount = "mount"
  /\ remount' = "done"
  /\ usrReadOnly' \in BOOLEAN
  /\ UNCHANGED <<alarmFiles, overlays, power, setup, check, bootOk, COUNT,
                 localFs, seen>>

(* Before= and WantedBy=: the target waits for the three units to end. *)
ReachLocalFsIf(condition) ==
  /\ power = "on" /\ ~localFs /\ condition
  /\ setup = "done" /\ check = "done" /\ remount = "done"
  /\ localFs' = TRUE
  /\ UNCHANGED <<alarmFiles, overlays, power, units, COUNT, usrReadOnly, seen>>

ReachLocalFs_markers == ReachLocalFsIf(etcInit /\ varInit)
ReachLocalFs == ReachLocalFsIf(TRUE)

(* Nothing removes the mark again, neither here nor in boot-check.sh. *)
MarkBootOk ==
  /\ power = "on" /\ localFs /\ bootOk = "touch"
  /\ bootOk' = "done"
  /\ okMark' = TRUE
  /\ UNCHANGED <<failFile, failCount, overlays, power, setup, check, remount,
                 COUNT, usrReadOnly, localFs, seen>>

(* The user changes a file under /etc: the change lives in the overlay. *)
EditEtc ==
  /\ Up
  /\ etc' = "edited"
  /\ UNCHANGED <<alarmFiles, var, etcInit, varInit, power, units, COUNT,
                 usrReadOnly, localFs, seen>>

-----------------------------------------------------------------------------
Units == SetupOverlays \/ BootCheck \/ RemountUsr \/ ReachLocalFs \/ MarkBootOk

Next == PowerOn \/ PowerOff \/ CopyCut \/ Units \/ EditEtc

Spec == Init /\ [][Next]_vars

(* systemd goes on starting units while the machine is on. *)
FairSpec == Spec /\ WF_vars(Units)

-----------------------------------------------------------------------------
(* PROPERTIES *)

(* No false alarm (boot-check.sh): recovery is suggested only in a boot    *)
(* that follows two unfinished ones in a row.  The one exception is a boot *)
(* after the first success and before the check has used its mark: line    *)
(* 162 looks at the count before line 173 looks at the mark.               *)
AlarmMeansFailures ==
  [][~offered /\ offered' /\ (okMark => settled) => streak >= Threshold - 1]_vars

(* No missed alarm, as long as no boot has ever succeeded: when two boots  *)
(* in a row failed after they were counted, the check of the third one     *)
(* suggests recovery.  A power loss between the truncation and the write   *)
(* of the count starts the counting again (checkedFails).                  *)
AlarmNotMissed ==
  check = "done" /\ ~okMark /\ checkedFails >= Threshold - 1 => offered

(* boot-check.sh line 157, "If boot fails 3 times in a row, offer          *)
(* recovery", for failures that the check has seen to its end.  The code   *)
(* breaks it: the mark of the first success is never removed, and line 173 *)
(* then empties the count in every later boot.                             *)
RecoveryOffered ==
  check = "done" /\ checkedFails >= 3 => offered

(* setup-overlays.sh seals the overlays by a marker that is written last:  *)
(* an overlay that was not copied, or whose copy a power loss cut short,   *)
(* is never taken for an initialised one.                                  *)
MarkerSealsCopies ==
  etcInit \/ varInit => etc \notin {"none", "cut"} /\ var \notin {"none", "cut"}

(* The copy of the base /etc happens before the user can change anything,  *)
(* and no later boot, however often interrupted, copies the base over a    *)
(* change of the user.                                                     *)
EditsSurvive == [][etc = "edited" => etc' = "edited"]_vars

(* The three units before local-fs.target never wait for each other: a     *)
(* boot that is not interrupted comes up.                                  *)
BootFinishes == power = "on" ~> Up \/ power = "off"

(* The check is the boot alarm: the count in its file or, while the file   *)
(* is being rewritten, in the shell variable is the memory of BootAlarm.   *)
stored == IF failFile = "count" THEN failCount ELSE 0
remembered == IF check = "write" THEN COUNT - 1 ELSE stored

Alarm == INSTANCE BootAlarm
           WITH n <- remembered, ok <- okMark, alarm <- offered

(* Every step of the boot is a step of BootAlarm or leaves it alone: the   *)
(* memory grows by one, is emptied only with a success on record or by a   *)
(* power loss, and the alarm is raised only when the memory justifies it.  *)
ImplementsAlarm == Alarm!ASpec

=============================================================================
