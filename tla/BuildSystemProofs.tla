-------------------------- MODULE BuildSystemProofs --------------------------
(***************************************************************************)
(* Proofs about BuildSystem, for any packages and any bounds.              *)
(***************************************************************************)
EXTENDS BuildSystem, TLAPS

LEMMA TypeInit == Init => TypeOK
  BY BuildAssumption DEF Init, TypeOK, TypeFiles, TypeRun, TypeImages, Nothing, Version, Places

LEMMA TypeFilesStep == TypeOK /\ [Next]_vars => TypeFiles'
  <1> SUFFICES ASSUME TypeOK, [Next]_vars PROVE TypeFiles'
    OBVIOUS
  <1> USE BuildAssumption DEF TypeOK, TypeFiles, Version, run
  <1>1. ASSUME Start PROVE TypeFiles'
    BY <1>1 DEF Start, files, container
  <1>2. ASSUME NEW p \in Packages, BuildPackage(p) PROVE TypeFiles'
    BY <1>2 DEF BuildPackage, files, container
  <1>3. ASSUME NEW p \in Packages, Copy(p) PROVE TypeFiles'
    BY <1>3 DEF Copy, files, container
  <1>4. ASSUME NEW p \in Packages, Select(p) PROVE TypeFiles'
    BY <1>4 DEF Select, files, container
  <1>5. ASSUME NEW p \in Packages, InstallArt(p) PROVE TypeFiles'
    BY <1>5 DEF InstallArt, files, container
  <1>6. ASSUME SkipIso PROVE TypeFiles'
    BY <1>6 DEF SkipIso, GoExport, files, container, Nothing
  <1>7. ASSUME CleanBuildDir PROVE TypeFiles'
    BY <1>7 DEF CleanBuildDir, files, container, Nothing
  <1>8. ASSUME LivecdCreator PROVE TypeFiles'
    BY <1>8 DEF LivecdCreator, GoExport, files, container, Nothing
  <1>9. ASSUME Finish PROVE TypeFiles'
    BY <1>9 DEF Finish, files, container
  <1>10. ASSUME Fail PROVE TypeFiles'
    BY <1>10 DEF Fail, files, container, Nothing
  <1>11. ASSUME NEW p \in Packages, Edit(p) PROVE TypeFiles'
    BY <1>11 DEF Edit, files, container
  <1>12. ASSUME NEW p \in Packages, SkipPackage(p) PROVE TypeFiles'
    BY <1>12 DEF SkipPackage, files, container
  <1>13. ASSUME UNCHANGED <<src, files, run, container>> PROVE TypeFiles'
    BY <1>13 DEF files, container, run
  <1> QED
    BY <1>1, <1>2, <1>3, <1>4, <1>5, <1>6, <1>7, <1>8, <1>9, <1>10, <1>11, <1>12, <1>13
    DEF Next, SystemStep, IsoStep, vars, files, container, images, AllBuilt, AllCopied,
        AllSelected, StartContainer, AllInstalled, ExportBuild, ExportMoved, AllExported, BuildIso,
        MoveIso, Interrupt

LEMMA TypeRunStep == TypeOK /\ [Next]_vars => TypeRun'
  <1> SUFFICES ASSUME TypeOK, [Next]_vars PROVE TypeRun'
    OBVIOUS
  <1> USE DEF TypeOK, TypeRun, Collected, InContainer
  <1>1. ASSUME Start PROVE TypeRun'
    BY <1>1 DEF Start
  <1>2. ASSUME NEW p \in Packages, BuildPackage(p) PROVE TypeRun'
    BY <1>2 DEF BuildPackage
  <1>3. ASSUME AllBuilt PROVE TypeRun'
    BY <1>3 DEF AllBuilt
  <1>4. ASSUME NEW p \in Packages, Copy(p) PROVE TypeRun'
    BY <1>4 DEF Copy
  <1>5. ASSUME AllCopied PROVE TypeRun'
    BY <1>5 DEF AllCopied
  <1>6. ASSUME NEW p \in Packages, Select(p) PROVE TypeRun'
    BY <1>6 DEF Select
  <1>7. ASSUME AllSelected PROVE TypeRun'
    BY <1>7 DEF AllSelected
  <1>8. ASSUME StartContainer PROVE TypeRun'
    BY <1>8 DEF StartContainer
  <1>9. ASSUME NEW p \in Packages, InstallArt(p) PROVE TypeRun'
    BY <1>9 DEF InstallArt
  <1>10. ASSUME SkipIso PROVE TypeRun'
    BY <1>10 DEF SkipIso, GoExport
  <1>11. ASSUME AllInstalled PROVE TypeRun'
    BY <1>11 DEF AllInstalled
  <1>12. ASSUME CleanBuildDir PROVE TypeRun'
    BY <1>12 DEF CleanBuildDir
  <1>13. ASSUME LivecdCreator PROVE TypeRun'
    BY <1>13 DEF LivecdCreator, GoExport
  <1>14. ASSUME ExportBuild PROVE TypeRun'
    BY <1>14 DEF ExportBuild
  <1>15. ASSUME ExportMoved PROVE TypeRun'
    BY <1>15 DEF ExportMoved
  <1>16. ASSUME AllExported PROVE TypeRun'
    BY <1>16 DEF AllExported
  <1>17. ASSUME Finish PROVE TypeRun'
    BY <1>17 DEF Finish
  <1>18. ASSUME Fail PROVE TypeRun'
    BY <1>18 DEF Fail
  <1>19. ASSUME NEW p \in Packages, SkipPackage(p) PROVE TypeRun'
    BY <1>19 DEF SkipPackage
  <1>20. ASSUME UNCHANGED <<pc, docker, todo>> PROVE TypeRun'
    BY <1>20
  <1> QED
    BY <1>1, <1>2, <1>3, <1>4, <1>5, <1>6, <1>7, <1>8, <1>9, <1>10, <1>11, <1>12, <1>13, <1>14,
       <1>15, <1>16, <1>17, <1>18, <1>19, <1>20
    DEF Next, SystemStep, IsoStep, vars, files, container, images, BuildIso, MoveIso, Interrupt,
        Edit

LEMMA TypeImagesStep == TypeOK /\ [Next]_vars => TypeImages'
  <1> SUFFICES ASSUME TypeOK, [Next]_vars PROVE TypeImages'
    OBVIOUS
  <1> USE BuildAssumption DEF TypeOK, TypeImages, Places
  <1>1. ASSUME ExportBuild PROVE TypeImages'
    BY <1>1 DEF ExportBuild, images
  <1>2. ASSUME ExportMoved PROVE TypeImages'
    BY <1>2 DEF ExportMoved, images
  <1>3. ASSUME BuildIso PROVE TypeImages'
    BY <1>3 DEF BuildIso, images
  <1>4. ASSUME MoveIso PROVE TypeImages'
    BY <1>4 DEF MoveIso, images
  <1>5. ASSUME Interrupt PROVE TypeImages'
    BY <1>5 DEF Interrupt, images
  <1>6. ASSUME UNCHANGED <<tool, images>> PROVE TypeImages'
    BY <1>6 DEF images
  <1> QED
    BY <1>1, <1>2, <1>3, <1>4, <1>5, <1>6
    DEF Next, SystemStep, IsoStep, vars, files, container, images, Start, BuildPackage, SkipPackage, AllBuilt,
        Copy, AllCopied, Select, AllSelected, StartContainer, InstallArt, SkipIso, GoExport,
        AllInstalled, CleanBuildDir, LivecdCreator, AllExported, Finish, Fail, Edit

LEMMA TypeStep == TypeOK /\ [Next]_vars => TypeOK'
  BY TypeFilesStep, TypeRunStep, TypeImagesStep DEF TypeOK

(* The state keeps its types for any packages and bounds. *)
THEOREM TypeCorrect == Spec => []TypeOK
  BY TypeInit, TypeStep, PTL DEF Spec

-----------------------------------------------------------------------------
(* Artifacts *)

LEMMA VersionsNat ==
  TypeFiles => \A p \in Packages : /\ begun[p] \in Nat /\ src[p] \in Nat
                                 /\ built[p] \in Nat /\ artpkgs[p] \in Nat
  <1> SUFFICES ASSUME TypeFiles, NEW p \in Packages
               PROVE  begun[p] \in Nat /\ src[p] \in Nat /\ built[p] \in Nat /\ artpkgs[p] \in Nat
    OBVIOUS
  <1>1. begun[p] \in Version /\ src[p] \in Version /\ built[p] \in Version /\ artpkgs[p] \in Version
    BY DEF TypeFiles
  <1> QED
    BY <1>1, BuildAssumption DEF Version

LEMMA ArtifactsStep ==
  TypeOK /\ LoopsDone /\ ArtifactsCurrent /\ [Next]_vars => LoopsDone' /\ ArtifactsCurrent'
  <1> SUFFICES ASSUME TypeOK, LoopsDone, ArtifactsCurrent, [Next]_vars
               PROVE  LoopsDone' /\ ArtifactsCurrent'
    OBVIOUS
  <1> USE DEF TypeOK, LoopsDone, ArtifactsCurrent,
          Collected, InContainer, files, run
  <1>a. \A p \in Packages : begun[p] \in Nat /\ src[p] \in Nat /\ built[p] \in Nat /\ artpkgs[p] \in Nat
    BY VersionsNat DEF TypeOK
  <1>1. ASSUME Start PROVE LoopsDone' /\ ArtifactsCurrent'
    <2>1. begun' = src /\ src' = src /\ built' = built /\ pc' = "build"
      BY <1>1 DEF Start
    <2>2. \A p \in Packages \ todo' : src[p] = 0
      BY <1>1 DEF Start
    <2> QED
      BY <1>a, <2>1, <2>2
  <1>2. ASSUME NEW p \in Packages, BuildPackage(p) PROVE LoopsDone' /\ ArtifactsCurrent'
    BY <1>2 DEF BuildPackage, TypeFiles
  <1>3. ASSUME AllBuilt PROVE LoopsDone' /\ ArtifactsCurrent'
    BY <1>3, <1>a DEF AllBuilt
  <1>4. ASSUME NEW p \in Packages, Copy(p) PROVE LoopsDone' /\ ArtifactsCurrent'
    BY <1>4 DEF Copy, TypeFiles
  <1>5. ASSUME AllCopied PROVE LoopsDone' /\ ArtifactsCurrent'
    BY <1>5 DEF AllCopied
  <1>6. ASSUME NEW p \in Packages, Select(p) PROVE LoopsDone' /\ ArtifactsCurrent'
    BY <1>6 DEF Select
  <1>7. ASSUME AllSelected PROVE LoopsDone' /\ ArtifactsCurrent'
    BY <1>7 DEF AllSelected
  <1>8. ASSUME StartContainer PROVE LoopsDone' /\ ArtifactsCurrent'
    BY <1>8 DEF StartContainer
  <1>9. ASSUME NEW p \in Packages, InstallArt(p) PROVE LoopsDone' /\ ArtifactsCurrent'
    BY <1>9 DEF InstallArt
  <1>10. ASSUME SkipIso PROVE LoopsDone' /\ ArtifactsCurrent'
    BY <1>10 DEF SkipIso, GoExport
  <1>11. ASSUME AllInstalled PROVE LoopsDone' /\ ArtifactsCurrent'
    BY <1>11 DEF AllInstalled
  <1>12. ASSUME CleanBuildDir PROVE LoopsDone' /\ ArtifactsCurrent'
    BY <1>12 DEF CleanBuildDir
  <1>13. ASSUME LivecdCreator PROVE LoopsDone' /\ ArtifactsCurrent'
    BY <1>13 DEF LivecdCreator, GoExport
  <1>14. ASSUME ExportBuild PROVE LoopsDone' /\ ArtifactsCurrent'
    BY <1>14 DEF ExportBuild
  <1>15. ASSUME ExportMoved PROVE LoopsDone' /\ ArtifactsCurrent'
    BY <1>15 DEF ExportMoved
  <1>16. ASSUME AllExported PROVE LoopsDone' /\ ArtifactsCurrent'
    BY <1>16 DEF AllExported
  <1>17. ASSUME Finish PROVE LoopsDone' /\ ArtifactsCurrent'
    BY <1>17 DEF Finish
  <1>18. ASSUME Fail PROVE LoopsDone' /\ ArtifactsCurrent'
    BY <1>18 DEF Fail
  <1>19. ASSUME NEW p \in Packages, Edit(p) PROVE LoopsDone' /\ ArtifactsCurrent'
    BY <1>19, <1>a DEF Edit, TypeFiles
  <1>20. ASSUME NEW p \in Packages, SkipPackage(p) PROVE LoopsDone' /\ ArtifactsCurrent'
    BY <1>20 DEF SkipPackage, TypeFiles
  <1>21. ASSUME UNCHANGED <<pc, todo, run, src, built, artpkgs>> PROVE LoopsDone' /\ ArtifactsCurrent'
    BY <1>21
  <1> QED
    BY <1>1, <1>2, <1>3, <1>4, <1>5, <1>6, <1>7, <1>8, <1>9, <1>10, <1>11, <1>12, <1>13, <1>14,
       <1>15, <1>16, <1>17, <1>18, <1>19, <1>20, <1>21
    DEF Next, SystemStep, IsoStep, vars, files, container, images, BuildIso, MoveIso, Interrupt

(* For any packages: no run reaches step 5 with an artifact older than its *)
(* package was when the run began, but for those it went past.             *)
THEOREM ArtifactsNeverStale == Spec => []ArtifactsCurrent
  <1>1. Init => LoopsDone /\ ArtifactsCurrent
    BY BuildAssumption DEF Init, LoopsDone, ArtifactsCurrent, Nothing, Collected, InContainer
  <1> QED
    BY <1>1, TypeInit, TypeStep, ArtifactsStep, PTL DEF Spec

-----------------------------------------------------------------------------
(* Images *)

LEMMA NewestStep ==
  TypeOK /\ MovesForward /\ NewestIsoKept /\ [Next]_vars => MovesForward' /\ NewestIsoKept'
  <1> SUFFICES ASSUME TypeOK, MovesForward, NewestIsoKept, [Next]_vars
               PROVE  MovesForward' /\ NewestIsoKept'
    OBVIOUS
  <1> USE BuildAssumption DEF TypeOK, TypeImages, Places, MovesForward, NewestIsoKept
  <1>1. ASSUME ExportBuild PROVE MovesForward' /\ NewestIsoKept'
    BY <1>1 DEF ExportBuild, images
  <1>2. ASSUME ExportMoved PROVE MovesForward' /\ NewestIsoKept'
    BY <1>2 DEF ExportMoved, images
  <1>3. ASSUME BuildIso PROVE MovesForward' /\ NewestIsoKept'
    BY <1>3 DEF BuildIso, images
  <1>4. ASSUME MoveIso PROVE MovesForward' /\ NewestIsoKept'
    BY <1>4 DEF MoveIso, images
  <1>5. ASSUME UNCHANGED images PROVE MovesForward' /\ NewestIsoKept'
    BY <1>5 DEF images
  <1> QED
    BY <1>1, <1>2, <1>3, <1>4, <1>5
    DEF Next, SystemStep, IsoStep, vars, files, container, images, Start, BuildPackage, SkipPackage, AllBuilt,
        Copy, AllCopied, Select, AllSelected, StartContainer, InstallArt, SkipIso, GoExport,
        AllInstalled, CleanBuildDir, LivecdCreator, AllExported, Finish, Fail, Interrupt, Edit

(* For any number of images: step 7 and the build tool never overwrite the *)
(* newest image, in whatever order they move.                              *)
THEOREM NewestNeverLost == Spec => []NewestIsoKept
  <1>1. Init => MovesForward /\ NewestIsoKept
    BY DEF Init, MovesForward, NewestIsoKept
  <1> QED
    BY <1>1, TypeInit, TypeStep, NewestStep, PTL DEF Spec
=============================================================================
