------------------------- MODULE ImmutableBootProofs -------------------------
(***************************************************************************)
(* Proofs about ImmutableBoot, for every number of boots.  IInv is the     *)
(* inductive invariant that all of them rest on: one part for the order of *)
(* the units, one for the overlays, one for the count in the shell script  *)
(* and two that compare the count with the failures that really happened.  *)
(***************************************************************************)
EXTENDS ImmutableBoot, TLAPS

(* Units run only while the power is on, and in the order of their targets. *)
UnitsOrdered ==
  /\ power = "off" => /\ setup = "test" /\ check = "read"
                      /\ bootOk = "touch" /\ localFs = FALSE
                      /\ offered = FALSE
  /\ localFs => setup = "done" /\ check = "done"
  /\ bootOk = "done" => localFs /\ okMark

Copied(overlay) == overlay \notin {"none", "cut"}

(* Where the setup script stands tells which markers and copies exist. *)
OverlaysSealed ==
  /\ varInit => etcInit
  /\ etcInit => Copied(etc) /\ Copied(var)
  /\ etcInit => setup \in {"test", "touchVar", "done"}
  /\ setup \in {"touchVar", "done"} => etcInit
  /\ setup \in {"cpVar", "touchEtc"} => Copied(etc)
  /\ setup = "touchEtc" => Copied(var)
  /\ etc = "edited" => etcInit

(* The shell variable against the file it was read from. *)
CountRead ==
  /\ settled => okMark
  /\ check \in {"offer", "truncate"} => COUNT = stored + 1
  /\ check = "offer" => COUNT >= Threshold
  /\ check = "write" => COUNT >= 1 /\ failFile = "empty"
  /\ check = "clear" => failFile = "count"
  /\ settled /\ check = "done" => failFile = "absent"

(* Outside the boots between the first success and the use of its mark the *)
(* count never exceeds the boots that failed in a row.                     *)
CountNotTooHigh ==
  (okMark => settled) =>
    /\ check \in {"read", "offer", "truncate", "write"} => stored <= streak
    /\ check \in {"offer", "truncate", "write"} => COUNT <= streak + 1
    /\ check \in {"clear", "done"} => stored <= streak + 1

(* Before the first success no counted failure is forgotten. *)
CountNotTooLow ==
  ~okMark =>
    /\ check \in {"read", "offer", "truncate"} => stored >= checkedFails
    /\ check = "write" => COUNT >= checkedFails + 1
    /\ check \in {"clear", "done"} => stored >= checkedFails + 1
    /\ check \in {"truncate", "write", "clear", "done"}
         => (checkedFails >= Threshold - 1 => offered)

IInv == /\ TypeOK
        /\ UnitsOrdered
        /\ OverlaysSealed
        /\ CountRead
        /\ CountNotTooHigh
        /\ CountNotTooLow
-----------------------------------------------------------------------------
(* An image that was never booted satisfies the invariant. *)
LEMMA InitIInv == Init => IInv
<1> SUFFICES ASSUME Init PROVE IInv
  OBVIOUS
<1>1. TypeOK
  <2>1. failCount \in Nat /\ COUNT \in Nat /\ boots \in Nat /\ streak \in Nat
        /\ checkedFails \in Nat
    BY DEF Init
  <2> QED BY <2>1, Zenon DEF Init, TypeOK, OverlayContents
<1>2. UnitsOrdered /\ OverlaysSealed
  BY DEF Init, UnitsOrdered, OverlaysSealed
<1>3. CountRead /\ CountNotTooHigh /\ CountNotTooLow
  BY DEF Init, CountRead, CountNotTooHigh, CountNotTooLow, stored, Threshold
<1> QED BY <1>1, <1>2, <1>3 DEF IInv

(* Every unit command, power loss and edit keeps the types. *)
LEMMA StepTypeOK == TypeOK /\ [Next]_vars => TypeOK'
<1> SUFFICES ASSUME TypeOK, [Next]_vars PROVE TypeOK'
  OBVIOUS
<1> USE DEF TypeOK, OverlayContents, alarmFiles, overlays, units, seen
<1>1. CASE PowerOn
  BY <1>1 DEF PowerOn
<1>2. CASE PowerOff \/ CopyCut
  <2>1. streak' \in Nat /\ checkedFails' \in Nat
    BY <1>2 DEF PowerOff, CopyCut, Stop
  <2>2. COUNT' \in Nat
    BY <1>2 DEF PowerOff, CopyCut, Stop
  <2>3. etc' \in OverlayContents /\ var' \in OverlayContents
    BY <1>2 DEF PowerOff, CopyCut, Stop
  <2> HIDE DEF OverlayContents
  <2>4. CASE Stop
    BY <2>1, <2>2, <2>3, <2>4, Zenon DEF Stop
  <2> QED BY <1>2, <2>4 DEF PowerOff, CopyCut
<1>3. CASE SetupOverlays
  BY <1>3 DEF SetupOverlays, SetupTest, CopyEtc, CopyEtcThen, CopyVar,
              TouchEtc, TouchVar, OverlayStep
<1>4. CASE BootCheck
  <2>1. CASE ReadFail
    BY <2>1 DEF ReadFail, ReadAndCompare, CheckStep, Threshold
  <2>2. CASE OfferRecovery
    BY <2>2 DEF OfferRecovery, CheckStep
  <2>3. CASE TruncateFail
    BY <2>3 DEF TruncateFail, CheckStep
  <2>4. CASE WriteFail
    BY <2>4 DEF WriteFail, CheckStep
  <2>5. CASE ClearFail
    <3>1. failCount' \in Nat
      BY <2>5 DEF ClearFail
    <3>2. failFile' \in {"absent", "empty", "count"}
      BY <2>5 DEF ClearFail
    <3>3. settled' \in BOOLEAN /\ offered' \in BOOLEAN
      BY <2>5, Zenon DEF ClearFail
    <3>4. check' = "done" /\ COUNT' = COUNT
      BY <2>5 DEF ClearFail
    <3>5. CheckStep
      BY <2>5 DEF ClearFail
    <3> QED BY <3>1, <3>2, <3>3, <3>4, <3>5 DEF CheckStep
  <2> QED BY <1>4, <2>1, <2>2, <2>3, <2>4, <2>5 DEF BootCheck
<1>5. CASE RemountUsr
  BY <1>5 DEF RemountUsr
<1>6. CASE ReachLocalFs
  BY <1>6 DEF ReachLocalFs, ReachLocalFsIf
<1>7. CASE MarkBootOk
  BY <1>7 DEF MarkBootOk
<1>8. CASE EditEtc
  BY <1>8 DEF EditEtc
<1>9. CASE UNCHANGED vars
  BY <1>9 DEF vars
<1> QED BY <1>1, <1>2, <1>3, <1>4, <1>5, <1>6, <1>7, <1>8, <1>9
        DEF Next, Units

(* The order of the units and the state of the overlays. *)
LEMMA StepOverlays ==
  TypeOK /\ UnitsOrdered /\ OverlaysSealed /\ [Next]_vars
    => UnitsOrdered' /\ OverlaysSealed'
<1> SUFFICES ASSUME TypeOK, UnitsOrdered, OverlaysSealed, [Next]_vars
             PROVE  UnitsOrdered' /\ OverlaysSealed'
  OBVIOUS
<1> USE DEF TypeOK, OverlayContents, alarmFiles, overlays, units, seen,
            UnitsOrdered, OverlaysSealed, Copied
<1>1. CASE PowerOn
  BY <1>1 DEF PowerOn
<1>2. CASE PowerOff
  BY <1>2 DEF PowerOff, Stop
<1>3. CASE CopyCut
  BY <1>3 DEF CopyCut, Stop
<1>4. CASE SetupOverlays
  <2> USE DEF OverlayStep
  <2>1. CASE SetupTest
    BY <2>1 DEF SetupTest
  <2>2. CASE CopyEtc
    BY <2>2 DEF CopyEtc, CopyEtcThen
  <2>3. CASE CopyVar
    BY <2>3 DEF CopyVar
  <2>4. CASE TouchEtc
    BY <2>4 DEF TouchEtc
  <2>5. CASE TouchVar
    BY <2>5 DEF TouchVar
  <2> QED BY <1>4, <2>1, <2>2, <2>3, <2>4, <2>5 DEF SetupOverlays
<1>5. CASE BootCheck
  <2> USE DEF CheckStep
  <2>1. CASE ReadFail
    BY <2>1 DEF ReadFail, ReadAndCompare
  <2>2. CASE OfferRecovery
    BY <2>2 DEF OfferRecovery
  <2>3. CASE TruncateFail \/ WriteFail
    BY <2>3 DEF TruncateFail, WriteFail
  <2>4. CASE ClearFail
    BY <2>4 DEF ClearFail
  <2> QED BY <1>5, <2>1, <2>2, <2>3, <2>4 DEF BootCheck
<1>6. CASE RemountUsr
  BY <1>6 DEF RemountUsr
<1>7. CASE ReachLocalFs
  BY <1>7 DEF ReachLocalFs, ReachLocalFsIf
<1>8. CASE MarkBootOk
  BY <1>8 DEF MarkBootOk
<1>9. CASE EditEtc
  BY <1>9 DEF EditEtc, Up
<1>10. CASE UNCHANGED vars
  BY <1>10 DEF vars
<1> QED BY <1>1, <1>2, <1>3, <1>4, <1>5, <1>6, <1>7, <1>8, <1>9, <1>10
        DEF Next, Units

(* The count against the failures. *)
LEMMA StepCount == IInv /\ [Next]_vars => (CountRead /\ CountNotTooHigh /\ CountNotTooLow)'
<1> SUFFICES ASSUME IInv, [Next]_vars
             PROVE  CountRead' /\ CountNotTooHigh' /\ CountNotTooLow'
  OBVIOUS
<1> USE DEF IInv, TypeOK, alarmFiles, overlays, units, seen, stored, Threshold,
            CountRead, CountNotTooHigh, CountNotTooLow
<1>1. CASE PowerOn
  BY <1>1 DEF PowerOn, UnitsOrdered
<1>2. CASE PowerOff \/ CopyCut
  <2> SUFFICES ASSUME Stop PROVE CountRead' /\ CountNotTooHigh' /\ CountNotTooLow'
    BY <1>2 DEF PowerOff, CopyCut
  <2>1. CASE Up
    BY <2>1 DEF Stop, Up, UnitsOrdered
  <2>2. CASE ~Up
    BY <2>2 DEF Stop
  <2> QED BY <2>1, <2>2
<1>3. CASE SetupOverlays
  BY <1>3 DEF SetupOverlays, SetupTest, CopyEtc, CopyEtcThen, CopyVar,
              TouchEtc, TouchVar, OverlayStep
<1>4. CASE BootCheck
  <2> USE DEF CheckStep
  <2>1. CASE ReadFail
    BY <2>1 DEF ReadFail, ReadAndCompare
  <2>2. CASE OfferRecovery
    BY <2>2 DEF OfferRecovery
  <2>3. CASE TruncateFail
    BY <2>3 DEF TruncateFail
  <2>4. CASE WriteFail
    BY <2>4 DEF WriteFail
  <2>5. CASE ClearFail
    BY <2>5 DEF ClearFail
  <2> QED BY <1>4, <2>1, <2>2, <2>3, <2>4, <2>5 DEF BootCheck
<1>5. CASE RemountUsr
  BY <1>5 DEF RemountUsr
<1>6. CASE ReachLocalFs
  BY <1>6 DEF ReachLocalFs, ReachLocalFsIf
<1>7. CASE MarkBootOk
  BY <1>7 DEF MarkBootOk, UnitsOrdered
<1>8. CASE EditEtc
  BY <1>8 DEF EditEtc
<1>9. CASE UNCHANGED vars
  BY <1>9 DEF vars
<1> QED BY <1>1, <1>2, <1>3, <1>4, <1>5, <1>6, <1>7, <1>8, <1>9
        DEF Next, Units

(* IInv is inductive. *)
THEOREM BootInvariant == Spec => []IInv
<1>1. IInv /\ [Next]_vars => IInv'
  BY StepTypeOK, StepOverlays, StepCount DEF IInv
<1> QED BY InitIInv, <1>1, PTL DEF Spec

-----------------------------------------------------------------------------
(* Every reachable state of the boot is well typed, for any number of boots. *)
THEOREM BootTypeOK == Spec => []TypeOK
<1>1. IInv => TypeOK
  BY DEF IInv
<1> QED BY BootInvariant, <1>1, PTL

(* boot-check.sh before the first success: a third failure in a row that   *)
(* it could count is never passed over in silence.                         *)
THEOREM AlarmIsNotMissed == Spec => []AlarmNotMissed
<1>1. IInv => AlarmNotMissed
  BY DEF IInv, CountNotTooLow, AlarmNotMissed, TypeOK, Threshold
<1> QED BY BootInvariant, <1>1, PTL

(* setup-overlays.sh: a marker never seals an overlay that was not copied  *)
(* or whose copy was cut short by a power loss.                            *)
THEOREM MarkersSealCopies == Spec => []MarkerSealsCopies
<1>1. IInv => MarkerSealsCopies
  BY DEF IInv, OverlaysSealed, MarkerSealsCopies, Copied
<1> QED BY BootInvariant, <1>1, PTL

(* boot-check.sh raises no false alarm, except before the mark of the      *)
(* first success is used.                                                  *)
THEOREM AlarmsMeanFailures == Spec => AlarmMeansFailures
<1>1. IInv /\ [Next]_vars
        => [~offered /\ offered' /\ (okMark => settled)
              => streak >= Threshold - 1]_vars
  <2> SUFFICES ASSUME IInv, Next, ~offered, offered', okMark => settled
               PROVE  streak >= Threshold - 1
    BY DEF vars
  <2>1. OfferRecovery
    BY DEF Next, Units, PowerOn, PowerOff, CopyCut, Stop, SetupOverlays,
           SetupTest, CopyEtc, CopyEtcThen, CopyVar, TouchEtc, TouchVar,
           OverlayStep, BootCheck, ReadFail, ReadAndCompare, TruncateFail,
           WriteFail, ClearFail, RemountUsr, ReachLocalFs, ReachLocalFsIf,
           MarkBootOk, EditEtc, seen
  <2>2. COUNT >= Threshold /\ COUNT <= streak + 1
    BY <2>1 DEF OfferRecovery, IInv, CountRead, CountNotTooHigh
  <2> QED BY <2>2 DEF IInv, TypeOK, Threshold
<1> QED BY BootInvariant, <1>1, PTL DEF Spec, AlarmMeansFailures

(* No later run of setup-overlays.sh copies the base /etc over an edit. *)
THEOREM EditsAlwaysSurvive == Spec => EditsSurvive
<1>1. IInv /\ [Next]_vars => [etc = "edited" => etc' = "edited"]_vars
  <2> SUFFICES ASSUME IInv, Next, etc = "edited" PROVE etc' = "edited"
    BY DEF vars
  <2>1. setup \notin {"cpEtc", "cpVar"}
    BY DEF IInv, OverlaysSealed
  <2> QED
    BY <2>1 DEF Next, Units, PowerOn, PowerOff, CopyCut, SetupOverlays,
           SetupTest, CopyEtc, CopyEtcThen, CopyVar, TouchEtc, TouchVar,
           BootCheck, ReadFail, ReadAndCompare, OfferRecovery, TruncateFail,
           WriteFail, ClearFail, CheckStep, RemountUsr, ReachLocalFs,
           ReachLocalFsIf, MarkBootOk, EditEtc, overlays
<1> QED BY BootInvariant, <1>1, PTL DEF Spec, EditsSurvive

-----------------------------------------------------------------------------
(* boot-check.sh and its files implement the abstract alarm: every step of *)
(* the boot, in every interleaving of the units and under every power      *)
(* loss, is a step of BootAlarm or leaves its three variables alone.       *)
THEOREM BootImplementsAlarm == Spec => ImplementsAlarm
<1>1. Init => Alarm!AInit
  BY DEF Init, Alarm!AInit, remembered, stored
<1>2. IInv /\ [Next]_vars => [Alarm!ANext]_(Alarm!avars)
  <2> SUFFICES ASSUME IInv, [Next]_vars
               PROVE  Alarm!ANext \/ UNCHANGED <<remembered, okMark, offered>>
    BY DEF Alarm!avars
  <2> USE DEF IInv, TypeOK, CountRead, UnitsOrdered, remembered, stored,
              alarmFiles, overlays, units, seen
  <2>1. CASE PowerOn
    BY <2>1 DEF PowerOn
  <2>2. CASE PowerOff \/ CopyCut
    <3>1. Alarm!PowerLoss
      BY <2>2 DEF PowerOff, CopyCut, Stop, Alarm!PowerLoss
    <3> QED BY <3>1 DEF Alarm!ANext
  <2>3. CASE SetupOverlays
    BY <2>3 DEF SetupOverlays, SetupTest, CopyEtc, CopyEtcThen, CopyVar,
                TouchEtc, TouchVar, OverlayStep
  <2>4. CASE ReadFail
    BY <2>4 DEF ReadFail, ReadAndCompare, CheckStep
  <2>5. CASE OfferRecovery
    <3>1. Alarm!Raise
      BY <2>5 DEF OfferRecovery, CheckStep, Threshold, Alarm!Threshold,
                  Alarm!Raise
    <3> QED BY <3>1 DEF Alarm!ANext
  <2>6. CASE TruncateFail
    BY <2>6 DEF TruncateFail, CheckStep
  <2>7. CASE WriteFail
    <3>1. Alarm!Remember
      BY <2>7 DEF WriteFail, CheckStep, Alarm!Remember
    <3> QED BY <3>1 DEF Alarm!ANext
  <2>8. CASE ClearFail
    <3>1. CASE okMark
      <4>1. Alarm!Forget
        BY <2>8, <3>1 DEF ClearFail, CheckStep, Alarm!Forget
      <4> QED BY <4>1 DEF Alarm!ANext
    <3>2. CASE ~okMark
      BY <2>8, <3>2 DEF ClearFail, CheckStep
    <3> QED BY <3>1, <3>2
  <2>9. CASE RemountUsr \/ ReachLocalFs \/ EditEtc
    BY <2>9 DEF RemountUsr, ReachLocalFs, ReachLocalFsIf, EditEtc
  <2>10. CASE MarkBootOk
    <3>1. Alarm!Succeed
      BY <2>10 DEF MarkBootOk, Alarm!Succeed
    <3> QED BY <3>1 DEF Alarm!ANext
  <2>11. CASE UNCHANGED vars
    BY <2>11 DEF vars
  <2> QED BY <2>1, <2>2, <2>3, <2>4, <2>5, <2>6, <2>7, <2>8, <2>9, <2>10, <2>11
          DEF Next, Units, BootCheck
<1> QED BY BootInvariant, <1>1, <1>2, PTL DEF Spec, ImplementsAlarm, Alarm!ASpec

=============================================================================
