----------------------------- MODULE BuildSystem -----------------------------
(***************************************************************************)
(* The system build (arttulos-os/scripts): runs of build_system.sh, one    *)
(* after the other in one working tree, with build_iso.sh and              *)
(* install_art_packages.sh in the container of step 6, while developers    *)
(* edit packages and run arttulos-build.py, the build tool of the host, in *)
(* the same tree.                                                          *)
(*                                                                         *)
(* A package or an artifact is the number of the version it was made from, *)
(* 0 when it is not there.  Commands of the scripts that change none of    *)
(* this are one failure or success.  The rpm and nix packages of step 5    *)
(* are left out: nothing makes them, and the test of their stability is a  *)
(* script that does not exist, so that the .art package is always chosen.  *)
(***************************************************************************)
EXTENDS Naturals

CONSTANTS
  Packages,
  MaxVersion,  \* bound: versions of a package
  MaxIsos      \* bound: images made by the build tool

ASSUME BuildAssumption == MaxVersion \in Nat \ {0} /\ MaxIsos \in Nat

VARIABLES
  src,       \* of each package, the version in packages/
  built,     \* of each package, the .art file in built_packages/
  artpkgs,   \* of each package, the .art file in artpkgs/
  damaged,   \* the packages whose file in artpkgs/ was not written to its end
  pkgs,      \* of each package, the .pkg file in artpkgs/
  (* build_system.sh *)
  pc,
  docker,    \* what step 1 and step 6 find: no docker, no image, the image
  todo,      \* packages, or images, that the loop at pc has yet to take
  begun,     \* of each package, the version when the run began
  passed,    \* observer: packages the run went past, without a build.sh or
             \* with a copy that failed before it wrote
  (* build_iso.sh in the container *)
  rootfs,    \* of each package, the version in build/rootfs
  image,     \* the image it moved to ../, as the packages in it, or nothing
  (* arttulos-build.py *)
  tool,
  isos,      \* number of images it has made
  build,     \* image in scripts/build/, 0 when there is none
  moved,     \* image that it moved to arttulos-os/
  output     \* the images in output_iso/, by the place they were found in

files == <<built, artpkgs, damaged, pkgs>>
run == <<begun, passed>>
container == <<rootfs, image>>
images == <<isos, build, moved, output>>
vars == <<src, files, pc, docker, todo, run, container, tool, images>>

Version == 0..MaxVersion
Nothing == [p \in Packages |-> 0]
Places == {"build", "moved"}
InContainer == {"install", "clean", "livecd"}
Collected == {"select", "iso"} \cup InContainer

TypeFiles ==
  /\ src \in [Packages -> Version] /\ built \in [Packages -> Version]
  /\ artpkgs \in [Packages -> Version] /\ damaged \subseteq Packages
  /\ pkgs \in [Packages -> Version]
  /\ begun \in [Packages -> Version] /\ passed \subseteq Packages
  /\ rootfs \in [Packages -> Version] /\ image \subseteq [Packages -> Version]

TypeRun ==
  /\ pc \in {"idle", "build", "collect", "export", "tests"} \cup Collected
  /\ docker \in {"none", "no image", "image"}
  /\ pc = "export" => todo \subseteq Places
  /\ pc # "export" => todo \subseteq Packages

TypeImages ==
  /\ tool \in {"idle", "move"}
  /\ isos \in 0..MaxIsos /\ build \in 0..isos /\ moved \in 0..isos
  /\ output \in [Places -> 0..isos]

(* The types; and each loop goes over packages, or over images. *)
TypeOK == TypeFiles /\ TypeRun /\ TypeImages

Init ==
  /\ src \in [Packages -> 0..1]
  /\ built = Nothing /\ artpkgs = Nothing /\ damaged = {} /\ pkgs = Nothing
  /\ pc = "idle" /\ docker = "none" /\ todo = {} /\ begun = Nothing /\ passed = {}
  /\ rootfs = Nothing /\ image = {}
  /\ tool = "idle" /\ isos = 0 /\ build = 0 /\ moved = 0
  /\ output = [i \in Places |-> 0]

-----------------------------------------------------------------------------
(* Developers *)

Edit(p) ==
  /\ src[p] < MaxVersion
  /\ src' = [src EXCEPT ![p] = @ + 1]
  /\ UNCHANGED <<files, pc, docker, todo, run, container, tool, images>>

-----------------------------------------------------------------------------
(* build_system.sh *)

(* set -e, or an interrupt: nothing is undone.  A container is removed. *)
Fail ==
  /\ pc # "idle"
  /\ pc' = "idle" /\ todo' = {} /\ rootfs' = Nothing /\ image' = {}
  /\ UNCHANGED <<src, files, docker, run, tool, images>>

Start ==
  /\ pc = "idle"
  /\ docker' \in {"none", "no image", "image"}
  /\ todo' = {p \in Packages : src[p] # 0}
  /\ begun' = src /\ passed' = {}
  /\ pc' = "build"
  /\ UNCHANGED <<src, files, container, tool, images>>

(* Step 1.  A build that fails ends the run; docker without the image is   *)
(* such a failure.  A package without a build.sh is skipped.               *)
BuildPackage_ignored(p) ==
  /\ pc = "build" /\ p \in todo
  /\ built' \in {built, [built EXCEPT ![p] = src[p]]}
  /\ todo' = todo \ {p}
  /\ UNCHANGED <<src, artpkgs, damaged, pkgs, pc, docker, run, container, tool, images>>

BuildPackage(p) ==
  /\ pc = "build" /\ p \in todo /\ docker # "no image"
  /\ built' = [built EXCEPT ![p] = src[p]]
  /\ todo' = todo \ {p}
  /\ UNCHANGED <<src, artpkgs, damaged, pkgs, pc, docker, run, container, tool, images>>

SkipPackage(p) ==
  /\ pc = "build" /\ p \in todo /\ docker # "no image"
  /\ passed' = passed \cup {p}
  /\ todo' = todo \ {p}
  /\ UNCHANGED <<src, files, pc, docker, begun, container, tool, images>>

AllBuilt ==
  /\ pc = "build" /\ todo = {}
  /\ pc' = "collect"
  /\ todo' = {p \in Packages : built[p] # 0}
  /\ UNCHANGED <<src, files, docker, run, container, tool, images>>

(* Step 1.6.  find does not fail when a copy does, be it before cp has     *)
(* opened the old file or in the middle.                                   *)
Copy(p) ==
  /\ pc = "collect" /\ p \in todo
  /\ \/ /\ artpkgs' = [artpkgs EXCEPT ![p] = built[p]]
        /\ damaged' \in {damaged \ {p}, damaged \cup {p}}
        /\ UNCHANGED passed
     \/ passed' = passed \cup {p} /\ UNCHANGED <<artpkgs, damaged>>
  /\ todo' = todo \ {p}
  /\ UNCHANGED <<src, built, pkgs, pc, docker, begun, container, tool, images>>

AllCopied ==
  /\ pc = "collect" /\ todo = {}
  /\ pc' = "select"
  /\ todo' = {p \in Packages : built[p] # 0}
  /\ UNCHANGED <<src, files, docker, run, container, tool, images>>

(* Step 5. *)
Select(p) ==
  /\ pc = "select" /\ p \in todo
  /\ pkgs' = [pkgs EXCEPT ![p] = built[p]]
  /\ todo' = todo \ {p}
  /\ UNCHANGED <<src, built, artpkgs, damaged, pc, docker, run, container, tool, images>>

AllSelected ==
  /\ pc = "select" /\ todo = {}
  /\ pc' = "iso"
  /\ UNCHANGED <<src, files, docker, todo, run, container, tool, images>>

(* Step 6, and the start of build_iso.sh in a new container: it stops when *)
(* there is no .art file.                                                  *)
StartContainer ==
  /\ pc = "iso" /\ docker = "image" /\ artpkgs # Nothing
  /\ pc' = "install"
  /\ todo' = {p \in Packages : artpkgs[p] # 0}
  /\ UNCHANGED <<src, files, docker, run, container, tool, images>>

GoExport_unreset == pc' = "export" /\ todo' = {p \in Packages : artpkgs[p] # 0} /\ rootfs' = Nothing

GoExport == pc' = "export" /\ todo' = Places /\ rootfs' = Nothing

(* "ISO build failed; skipping.", and the same without docker or an image. *)
SkipIso ==
  /\ pc \in {"iso"} \cup InContainer
  /\ GoExport
  /\ UNCHANGED <<src, files, docker, run, image, tool, images>>

(* install_art_packages.sh; tar fails on a file that was cut short. *)
InstallArt(p) ==
  /\ pc = "install" /\ p \in todo \ damaged
  /\ rootfs' = [rootfs EXCEPT ![p] = artpkgs[p]]
  /\ todo' = todo \ {p}
  /\ UNCHANGED <<src, files, pc, docker, run, image, tool, images>>

AllInstalled ==
  /\ pc = "install" /\ todo = {}
  /\ pc' = "clean"
  /\ UNCHANGED <<src, files, docker, todo, run, container, tool, images>>

(* rm -rf build, with rootfs in it *)
CleanBuildDir ==
  /\ pc = "clean"
  /\ rootfs' = Nothing
  /\ pc' = "livecd"
  /\ UNCHANGED <<src, files, docker, todo, run, image, tool, images>>

(* livecd-creator, with what is in build/ at most; then the image is moved *)
(* to ../ in the container, and the container is removed.                  *)
LivecdCreator ==
  /\ pc = "livecd"
  /\ image' = {rootfs}
  /\ GoExport
  /\ UNCHANGED <<src, files, docker, run, tool, images>>

(* Step 7, for the images that find meets in the tree, in any order *)
ExportBuild ==
  /\ pc = "export" /\ "build" \in todo
  /\ todo' = todo \ {"build"}
  /\ IF build = 0 THEN UNCHANGED <<build, output>>
     ELSE build' = 0 /\ output' = [output EXCEPT !["build"] = build]
  /\ UNCHANGED <<src, files, pc, docker, run, container, tool, isos, moved>>

ExportMoved_renamed ==
  /\ pc = "export" /\ "moved" \in todo
  /\ todo' = todo \ {"moved"}
  /\ IF moved = 0 THEN UNCHANGED <<moved, output>>
     ELSE moved' = 0 /\ output' = [output EXCEPT !["build"] = moved]
  /\ UNCHANGED <<src, files, pc, docker, run, container, tool, isos, build>>

ExportMoved ==
  /\ pc = "export" /\ "moved" \in todo
  /\ todo' = todo \ {"moved"}
  /\ IF moved = 0 THEN UNCHANGED <<moved, output>>
     ELSE moved' = 0 /\ output' = [output EXCEPT !["moved"] = moved]
  /\ UNCHANGED <<src, files, pc, docker, run, container, tool, isos, build>>

AllExported ==
  /\ pc = "export" /\ todo = {}
  /\ pc' = "tests"
  /\ UNCHANGED <<src, files, docker, todo, run, container, tool, images>>

(* Steps 8 and 9: tests and auto_git.sh *)
Finish ==
  /\ pc = "tests"
  /\ pc' = "idle" /\ image' = {}
  /\ UNCHANGED <<src, files, docker, todo, run, rootfs, tool, images>>

-----------------------------------------------------------------------------
(* arttulos-build.py: its last two steps; one that fails changes nothing. *)

BuildIso ==
  /\ tool = "idle" /\ isos < MaxIsos
  /\ isos' = isos + 1 /\ build' = isos + 1
  /\ tool' = "move"
  /\ UNCHANGED <<src, files, pc, docker, todo, run, container, moved, output>>

MoveIso ==
  /\ tool = "move"
  /\ IF build = 0 THEN UNCHANGED <<build, moved>> ELSE build' = 0 /\ moved' = build
  /\ tool' = "idle"
  /\ UNCHANGED <<src, files, pc, docker, todo, run, container, isos, output>>

Interrupt ==
  /\ tool = "move"
  /\ tool' = "idle"
  /\ UNCHANGED <<src, files, pc, docker, todo, run, container, images>>

-----------------------------------------------------------------------------
IsoStep ==
  \/ StartContainer \/ SkipIso \/ AllInstalled \/ CleanBuildDir \/ LivecdCreator
  \/ \E p \in Packages : InstallArt(p)

SystemStep ==
  \/ Start \/ AllBuilt \/ AllCopied \/ AllSelected \/ IsoStep
  \/ ExportBuild \/ ExportMoved \/ AllExported \/ Finish \/ Fail
  \/ \E p \in Packages : BuildPackage(p) \/ SkipPackage(p) \/ Copy(p) \/ Select(p)

Next ==
  \/ SystemStep
  \/ BuildIso \/ MoveIso \/ Interrupt
  \/ \E p \in Packages : Edit(p)

Spec == Init /\ [][Next]_vars
-----------------------------------------------------------------------------
(* PROPERTIES *)

(* After step 1.6 the .art file of each package that was there when the    *)
(* run began is at least as new as the package was then, unless this very  *)
(* run skipped the package or failed to copy its file, whatever failed or  *)
(* was interrupted in earlier runs and whatever was edited since:          *)
(* built_packages/ and artpkgs/ are never emptied, and a build that fails  *)
(* must end the run (line 38).                                             *)
ArtifactsCurrent ==
  pc \in Collected => \A p \in Packages \ passed : begun[p] <= artpkgs[p]

(* The last image that the build tool has made is still in the tree,       *)
(* although step 7 moves images while the tool is at work (line 128).      *)
NewestIsoKept ==
  isos > 0 => isos \in {build, moved, output["build"], output["moved"]}

(* Why ArtifactsCurrent holds: what each loop has done, version by version *)
LoopsDone ==
  /\ \A p \in Packages : begun[p] <= src[p]
  /\ pc = "build" => \A p \in Packages \ (todo \cup passed) : begun[p] <= built[p]
  /\ pc = "collect" => \A p \in Packages \ passed : begun[p] <= built[p]
  /\ pc = "collect" => \A p \in Packages \ (todo \cup passed) : begun[p] <= artpkgs[p]

(* Why NewestIsoKept holds: an image never meets a newer one where it is   *)
(* moved to.                                                               *)
MovesForward ==
  /\ build # 0 => build = isos /\ moved < isos /\ output["moved"] < isos
  /\ moved # 0 => output["moved"] < moved
=============================================================================
