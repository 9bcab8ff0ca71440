# ArttulOS in TLA+

This directory specifies the parts of the ArttulOS repository that carry logic of
its own, checks them with TLC on small instances and proves their main properties
with TLAPS for every value of the constants. Paths are relative to `src/`.

Contents: [1 inventory](#1-the-system) · [2 modules](#2-modules-and-how-they-follow-the-code) ·
[3 runs](#3-what-the-runs-check) · [4 proofs](#4-what-is-proved) ·
[5 limits](#5-what-is-not-modelled) · [6 plan](#6-plan)

## 1 The system

ArttulOS is a Linux distribution made of scripts and small programs around
third-party software. By volume the repository is almost all vendored code (dnf5,
Nix, the XLibre X server in `dummy_arg/`, a release snapshot); the logic that is
its own is about 2800 lines of shell, Rust, Python and ScrapeC, the project's own
language. Of the vendored code two parts of the Nix store are specified too, its
path locks and its garbage collector: an immutable system whose packages come from
several package managers rests on them, and they are where the repository has
protocols between processes.

| component | state it keeps | operations | what is hard |
|---|---|---|---|
| Immutable boot, `configs/immutable-patch.sh` | two overlays with markers, a count of failed boots, a success mark, all on disk; unit states, in memory | four systemd units | units interleave; power loss between any two commands |
| Git automation, `auto_git.sh` | branches of each clone and of the remote, checked-out branch, merge in progress | one linear run under `set -e` | several clones race for `main`; a run may stop anywhere; branch names are time stamps |
| ScrapeC front end, `scrapec/src` | token list, syntax tree, type environment, output | lex, parse, infer, generate | look-ahead at the end of the tokens, integer overflow, order of the match arms |
| AI assistant containers, `ai_assistant/*.scrapec`, `pacnixum/cli.scrapec` | containers in the Docker daemon; the list of assistants of each session | launch, query with restart, shutdown | sessions share names and ports; containers die at any time; an assistant is started twice |
| PacNixum, `pacnixum/pacnixum.scrapec` | none (the back ends keep it) | install, remove, update, search, each with dnf, pacman or nix | the back end is chosen anew for each command: a package installed with one may be looked for in another |
| Plugin loader, `ai_assistant/plugin_loader.scrapec` | manifests read into a list | list, ask, run | the manifest is read long before the plugin runs |
| ISO and system build, `arttulos-os/scripts/*.sh`, `arttulos-build.py` | package, artifact and image directories, all kept from run to run | ten steps on the host, a script in a container, a second tool in the same tree | a run stops anywhere; some failures are skipped over; a directory is removed after it was filled; two tools move images |
| Nix store locks, `nix/src/libstore/unix/pathlocks.cc` | a lock file for each store path, flocks | `lockPaths`, `unlock`, deletion of lock files | lock files are deleted while others wait for them; processes die between any two system calls; several locks are held at once |
| Nix garbage collector, `nix/src/libstore/gc.cc`, `local-store.cc` | database of valid paths, store directory, permanent and temporary roots, the collector's sets | `addToStore`, `addTempRoot`, `addPermRoot`, `collectGarbage` with its server thread | paths are added and roots are taken while the collector walks and deletes |
| Installer and image configuration, build host preparation, login manager, app store, desktop, branding, ScrapeC stubs | none | | straight-line scripts and placeholders |

Interactions: `build_system.sh` runs the package builds, then `build_iso.sh`, and
last `auto_git.sh`, so several build machines mean several clones that run the git
automation at once. The boot units are installed into the image that the pipeline
makes. `pacnixum ai-assist` calls the same `interface.scrapec` as the two front
ends, and all of them talk to one Docker daemon. PacNixum's Nix back end
ends in `addToStore`, which takes a temporary root (`NixGC`), then the lock of the
path (`NixPathLocks`; a single action in `NixGC`), and registers the path.

What makes each component correct:

* *Boot.* A half-made overlay is never taken for a finished one, a change of the
  user is never overwritten, an interrupted boot is counted, recovery is suggested
  when the count justifies it and only then, and a boot that is not interrupted
  comes up.
* *Git.* No interleaving of runs, however cut short, loses a commit or takes one
  off the remote's `main`; a run that cleans up has delivered its work; the deletion
  of branches does what the documents say, and no run needs a person to go on.
* *Front end.* No source text makes it index out of bounds or loop; it yields the
  nodes the token sequence contains, in order.
* *Containers.* A shutdown stops what the session started and does not say so
  otherwise; the report of a launch agrees with what runs; no call goes round in
  circles.
* *Build.* After any sequence of failed, interrupted and completed runs the
  artifacts of this run are not older than its sources; what was built is collected;
  no tool overwrites the newest image; an image has the artifacts in it.
* *Locks.* Two processes never hold one path; a process deletes only a lock file it
  holds; processes do not wait in circles.
* *Collector.* References of valid paths are valid, valid paths are on disk, nothing
  that a root protects disappears, nothing is spared without a root, and no client
  waits for a wakeup that never comes.

`PROJECT.json` lists every component, the hazards at their lines and the map from
definitions to source lines.

## 2 Modules and how they follow the code

| module | models |
|---|---|
| `ImmutableBoot` | the units and scripts written by `configs/immutable-patch.sh` |
| `BootAlarm` | what `boot-check.sh` promises, without files; `ImmutableBoot` implements it |
| `AutoGit` | runs of `auto_git.sh` in several clones of one remote |
| `ScrapeFront` | `lexer.rs`, `parser.rs`, `types.rs`, `codegen.rs` and the pipeline of `main.rs` |
| `AiContainers` | `interface.scrapec`, `docker_compat.scrapec`, both front ends and `ai-assist`, over several sessions |
| `BuildSystem` | `build_system.sh`, `build_iso.sh`, `install_art_packages.sh`, `arttulos-build.py` |
| `NixPathLocks` | `openLockFile`, `deleteLockFile`, `lockFile`, `lockPaths`, `unlock` |
| `PathLock` | what the locks promise, without lock files; `NixPathLocks` implements it |
| `NixGC` | `collectGarbage` and its server, against `addToStore`, `addTempRoot`, `addPermRoot` |
| `RootedStore` | what the store promises while it is collected, without the protocol of roots; `NixGC` implements it |
| `<M>Proofs` | theorems about `<M>` |
| `MC_<M>` | constants, symmetry and constraints for TLC |

In every module a definition with an underscore suffix (`PushMain_force`) is a
faulty variant of the definition it is named after (`find_free_port` alone is the
name of a function of the source). It is not part of the
specification; substituted for the original it must break the property that is
listed with it under `mutants` in `PROJECT.json`.

### ImmutableBoot

One action is one command that touches the disk. `setup-overlays.sh` is
`SetupTest`, `CopyEtc`, `CopyVar`, `TouchEtc`, `TouchVar`; `boot-check.sh` is
`ReadFail`, `OfferRecovery`, `TruncateFail`, `WriteFail`, `ClearFail`. The
redirection `echo "$COUNT" > file` is two actions, since the shell truncates the
file before `echo` writes to it. `RemountUsr`, `ReachLocalFs` and `MarkBootOk` are
the other units and the target between them. `PowerOff` may follow any step, and
`CopyCut` is a power loss in the middle of a `cp`. Everything on disk survives it
and everything else starts again.

An overlay holds `none`, `cut` (copy interrupted), `partial` (`cp` failed, which
`|| true` ignores), `base` or `edited`. The variables `streak`, `checkedFails`,
`settled` and `offered` record history for the properties; no guard reads them.

Assumed: the units are enabled, which the patch leaves to the image; the root file
system is writable when they run; a completed command is durable. A unit that ends
with an error status does not hold the target back (`WantedBy`, not `Requires`).

### AutoGit

A branch is the set of commits reachable from its tip, the empty set if it does
not exist. Then "fast forward" and "is merged" are inclusions. One action is one
git command; a command that fails ends the run (`set -e`) and leaves the clone as it is.
`Abort` ends a run anywhere. Around the script, `Edit` is a change in the working
tree, `Tick` is a second, and `GiveUpMerge` and `ConcludeMerge` are what a person
does about a conflict, since the script never deals with one.

The keys are two hashes each compared with itself (lines 31-49), so `KeysMatch` is
translated as the comparison the code makes, and lines 67-75 are unreachable. Git
itself is external: a push is accepted only as a fast forward, `branch -d` refuses
an unmerged branch, and `pull` of diverged branches fails unless it is configured
to reconcile (the clones in `Reconciling`).

### ScrapeFront

The lexer takes one step per character looked at, with the two inner loops of the
number and identifier arms as modes; the parser one step per loop iteration; type
inference and code generation one per node. An index past the end of the tokens
is a panic with cause `index`. An overflow of `num * 10 + d` is, nondeterministically, a panic (debug build) or
the wrapped value (release build). `main.rs` as written does not compile (it calls
`infer_type` with one argument, and names a module by a keyword); the model passes
the environment that `infer_type` asks for. Characters that the lexer treats alike
are represented by a few of each class. The module ends with a reference, `Reference`
and its parts: which nodes a token sequence contains, by positions and without a loop.

### AiContainers

A session is one process of a front end, and one action is one docker command. The
sequence of checks that depend only on the network or the image (daemon, ping,
local image, pull) is one action with an arbitrary outcome, `Prepare`.
`ensure_ai_container` then runs the container up to three times under one name:
`RunFirst` (lines 77-81), `RunSecond` (line 99), `RunThird` (another port).
`ReturnWith` is its return to either caller, `ensure_ai_containers` or the restart in
`query_ai`. `Kill` is the end of a session's process and `Die` the end of a
container, each at any time.

Docker is external: `run` needs a free name and host port and may fail for other
reasons, refuses `--cpus` next to `--cpu-quota`, `--rm` removes what has ended, and
`stop` of a running container may fail. `shutdown_ai` returns that, and the loops that
call it (lines 214 and 281-283) drop it; the observer's variable `unstopped` has the
names whose stop failed in the present shutdown.

### BuildSystem

A package is the number of its version, and an artifact the number of the version
it was made from. The loops of steps 1, 1.6 and 5 and of `install_art_packages.sh`
take one package per action (`BuildPackage`, or `SkipPackage` when it has no
`build.sh`, then `Copy`, `Select`, `InstallArt`), with `todo` for what is left of the
loop. `Fail` is `set -e` or an interrupt, at any
point; `SkipIso` is the message "ISO build failed; skipping." of step 6.
`StartContainer`, `AllInstalled`, `CleanBuildDir` and `LivecdCreator` are
`build_iso.sh` in its container. `ExportBuild` and `ExportMoved` are step 7, which
moves every image it finds in the tree. `Edit` changes a package at any time, and
`BuildIso`, `MoveIso` and `Interrupt` are `arttulos-build.py`, which a developer may
run meanwhile. Runs follow one another, and everything on disk outlives them.

`find -exec cp` does not fail when a copy does: `Copy` may leave the old artifact, if
`cp` fails before it has opened the file, or one that is `damaged`, on which `tar` fails
later. The observer's variable `passed` has the packages that the present run skipped
or failed to copy. The script that step 5 asks for a package's
stability does not exist, so that the `.art` package is always the one selected. An
image of the container is moved to `../` inside a container started with `--rm`;
nothing brings it out. `livecd-creator` is external: an image holds at most what is
in `build/`.

### NixPathLocks

One action is one system call. A path has up to `MaxFiles` lock files at a time, of
which at most one has the name (`link`); files without a name live on while a
process has them open, and a file that is not in use can be made anew.
`lockPaths` is `LockPaths`, `OpenLockFile`, `LockFile` or `LockBusy`, and
`CheckStale`, the `fstat` after which it keeps the lock or starts again. `unlock` is
`Unlink`, `WriteToken` and `Close` for each path, in the sorted order. `Interrupt` is
an exception of `checkInterrupt` in `lockPaths`, and `Die` the end of a process at any
point.

The write of the token may fail, by an interrupt or on a full disk (`TokenFails`,
line 34). In the destructor the exception is swallowed: the locks that are left stay
open, in `leaked`, until the process ends (`LeaveOpen`). Where the caller has called
`unlock` itself (`build/derivation-building-goal.cc`, lines 308, 607 and 872) the
destructor goes through `fds` a second time, `closed` being the files the first one has
closed: it unlinks the names again, whoever has them by now. The observer's variable
`torn` has the paths whose lock file was unlinked by a process that died or failed
before it wrote the token; no guard reads it.

`PathLock` has for each path the set of its holders and `torn`, and four actions: a
lock is acquired (`Acquire`), given back (`GiveBack`), lost with all others of the process
by its death or a failed `unlock` (`Lose`), and a path may become torn (`Tear`). The holders of a path are mapped to
the processes with `Holds`, those that have the file in `fds` and have not begun to
delete it. Acquisition is the successful `fstat` (`CheckStale`), not the flock; the
lock is given back at `Unlink`, or at `Close` when the file is kept.

Assumed: a signal that interrupts a waiting `flock` is one that `checkInterrupt`
turns into an exception. Otherwise `lockFile` returns false (line 57), `lockPaths`
ignores that (line 100) and goes on without the lock.

### NixGC

A client is a process that adds paths (`addToStore`) and links those it uses
(`addPermRoot`). `CreateTempRootsFile`, `LockTempRootsFile`, `RootShared`,
`Connect` and `Write` are `addTempRoot`; `Check`, `LockPath`, `DeletePath`,
`RestorePath` or `RestoreFails`, and `RegisterValidPath` the rest of `addToStore`.
What a client does under the shared lock is one action, because no collector runs
then. `Exit` is the end of a client anywhere.

A call with the flag `repair` (for the paths of the bound `Repaired`) goes on although
the path is valid, and deletes it before it restores it. When the restore fails or the
process dies in between, the path is valid and not in the store: the manual warns of it
(`nix/doc/manual/source/command-ref/nix-store/repair-path.md:17`), and the observer's
variable `broken` has these paths.

The collector is `Lock`, `StartServer`, `FindRoots`, then for each client
`ReadTempRoots`, or `UnlinkTempRoots` and `WriteDeleted` for a file whose owner has not
locked it, then for each entry a walk over the referrers (`ReadEntry`, `Visit*`,
`Visited`) and the deletions (`SkipDead`, `PathInUse`, `Invalidate`,
`DeleteFromStore`). The collection is over after the last entry (`Finished`) or by an
exception anywhere (`Abort`); `StopServer` then waits for the threads, and `Unlock` gives
back the big lock. `Kill` is its death anywhere. When it ends between
`UnlinkTempRoots` and `WriteDeleted` the file is left empty and without a name, and
its owner takes it for a good one (`tfile` becomes `lost`).

A thread of the server adds a client's root (`Receive`) and answers at once or goes to
sleep on the condition variable, when the path is the pending one. `Notify` is
`notify_all`, a part of the end of each walk and of the collection; `SpuriousWakeUp` is a
wait that ends by itself, and `WakeUp` is the thread's next look at `pending`, after
which it answers or sleeps again.

`late` is an observer's variable: the paths whose root came when the collector had
already decided to delete them, or that no collector will see. The code really lets
this happen, in four ways, each an assignment to `late`:

* `Acknowledge`: each visit overwrites `pending` (line 757), so the answer to a client
  waits only for the path visited last. The root of a path visited before it is
  acknowledged although the path is still to be deleted; the comment at line 593 says
  that the answer waits until the deletion is finished.
* `Write`: the root is written to the file after the answer, without a lock (line 157).
  If this collector has ended and the next one has read the file before, the next one
  neither reads the root nor is sent it; the comment at line 639 counts on one or the
  other.
* `Unseen`: a collector that ends between lines 198 and 199 leaves an owner that waits
  at line 67 an empty file without a name, which passes the check of line 74. Its roots
  are not "seen by a future run of the garbage collector" (line 154).
* `MakeSymlink`: `addPermRoot` makes the link when the collector has read the permanent
  roots, and the process has ended when it reads the temporary ones; the comment at
  line 629 says that the permanent roots cannot increase then.

`RootsHold` is what all of them break, and `nix_roots` finds the last one, the shortest.
The invariants `ValidOnDisk` and `RootsKept` are claimed until the first such moment.

`RootedStore` has the valid paths, the paths somebody counts on (`kept`: those clients
were told are valid, and those of permanent roots) and `late`. In it a path is
registered with its references, promised, renounced or collected, and collected only
when nobody counts on it and nothing valid refers to it.

Left out: `keep-outputs` and `keep-derivations`, the actions that delete nothing or
given paths, `.links`, runtime roots, `autoGC`, entries that are no store paths, the
cache of path infos, and several threads in one process. A build hook, which does not
lock a path that its parent has locked (`locksHeld`), is one client with its parent.
Assumed: the number of a process is not used again while a collector has the temporary
roots file of that number open, and `readdir` returns what was in the store when the
scan began. A restore and a deletion of a directory are one step each.

## 3 What the runs check

Each of these ends within three minutes on two workers.

| run | instance | states | shows |
|---|---|---|---|
| `boot` | 5 boots | 41 500 | the properties of the boot, the refinement of `BootAlarm`, and that a boot finishes |
| `boot_recovery` | 6 boots | violation | three failures in a row are *not* reported after a success |
| `git` | 2 clones, 1 reconciling, 2 seconds, 4 runs | 3.2 million | the properties of the git automation |
| `git_delete` | 2 clones, 2 runs | violation | a run deletes a remote branch that holds another clone's unmerged commit |
| `git_manual` | 2 clones, none reconciling, 3 runs | violation | a run that lost the race for `main` does not get past its next pull |
| `scrape` | all texts of up to 4 of 11 words | 291 000 | the properties of the front end and its agreement with a reference |
| `ai` | 2 sessions, 3 assistants | 332 000 | the properties of the sessions; no deadlock |
| `ai_launch` | 1 session, 3 assistants | violation | a launch is reported as failed while its container runs |
| `build` | 2 packages, 2 versions, 3 images | 3.9 million | artifacts are current, the newest image is kept |
| `nix_locks` | 2 processes, 2 paths, 2 files, 2 leaked | 697 000 | exclusion, deletion of lock files, order of waiting, the refinement of `PathLock`; no deadlock |
| `nix_gc` | 2 clients, 2 paths, one refers to the other and may be linked and repaired | 3.1 million | the properties of the collector, the refinement of `RootedStore`; no deadlock |
| `nix_roots` | 1 client, 2 paths | violation | the path of a root is collected |

**boot.** `AlarmMeansFailures`: no suggestion without two unfinished boots before.
The one exception is stated in the property, the boots after the first success and
before its mark is used, because line 162 compares the count before line 173 looks
at the mark. `AlarmNotMissed`: before the first success, two counted failures make
the next check suggest recovery; `checkedFails` starts again at a power loss between
truncation and write, which really loses the count. `MarkerSealsCopies` and
`EditsSurvive` are about interrupted copies. `ImplementsAlarm` is the refinement,
with the memory of the alarm mapped to the file or, while that is being rewritten,
to the shell variable. *Bound:* an alarm needs three boots; five let a series be
interrupted, start again and reach the alarm. Behaviours stop at the bound, so
deadlock is not checked. *Fairness:* `WF_vars(Units)`. systemd starts the next unit
while the machine is on; power loss is always possible and `BootFinishes` allows it.

**git.** `NoCommitLost`, `RunDelivers`, `MainOnlyGrows`, and `DivergenceIsPermanent`:
a clone that lost the race for `main` and does not reconcile stays diverged for
good, and each later run of the script stops at its pull. The documents say the
opposite, that no manual intervention is required; `git_manual` shows the
contradiction, and `DivergenceIsPermanent` that only a person ends it. *Bound:* with
two seconds, two runs share a branch name or not; with four runs each clone can lose
a race, try again and interfere with itself. Nothing forces a run to go on, and no
liveness is claimed.

**scrape.** `NoIndexPanic`, `Terminates`, and `OutputMeetsReference`, which compares
the syntax tree, the output and the environment with definitions over the token
sequence that have no loop: the tree lists the nodes at the positions where a
declaration or a match begins, in their order (`Lists`), and the output lists those of
them that are no match. `MovesOn` says why `Terminates` holds: each step reaches a
later stage or lowers the measure `ToGo`. *Bound:* the word list has keywords, words
that only begin like one, numbers on both sides of the largest integer (4 bits wide, so that overflow is
near), blanks and an unknown character; `let x = 7` needs four of the words. The
program ends, so deadlock is not checked. *Fairness:* `WF_vars(Next)`, because it is
a sequential program.

**ai.** `ShutdownStopsOwn`: a shutdown that has gone through its list leaves only
containers that docker failed to stop, whoever restarted or took over what meanwhile.
`TwoAtMost`: one port is fixed and the "free" port is a constant. `LaunchNeedsLoss`:
an assistant is reported as running only if the container of its own first run has
ended meanwhile, for with a healthy container the second run under the same name fails.
That is the reason for the violation in `ai_launch`, which is about what the documents
say of a launch. `CallMovesOn`: each command of a call lowers `CommandsLeft`, and
nothing that others do raises it. The state space is finite without a bound. No
fairness is assumed and no liveness claimed: many steps wait for the user's input or
for a `docker exec` without a timeout.

**build.** `ArtifactsCurrent`: after step 1.6 the artifact of each package is at
least as new as the package was when the run began, unless this run skipped the
package or failed to copy its artifact (`passed`). The directories are never
emptied, so that this rests on each failed build ending its run; old artifacts of
runs cut short lie in them. `NewestIsoKept`: the last image of `arttulos-build.py` is
still in the tree, wherever it and step 7 have moved images meanwhile. *Bound:* with
two versions an artifact can be older than its source, with two packages a loop can
stop half-way, and three images can be in `build/`, in `arttulos-os/` and exported at
a time. Runs are not bounded. The system may rest, but never has to stop, and
deadlock is checked. Nothing forces a run to go on, and no liveness is claimed.

**nix_locks.** `ExclusiveUnlessTorn`: mutual exclusion, although
lock files are deleted while others have them open; the exception is in the property
because a process that dies or fails between `unlink` and the token really breaks it,
for that path. `DeletesOwnFile`: unless the path was torn, a lock file loses its name
only through a process that holds it and will write the token. `ImplementsPathLock`:
seen from outside, a lock is taken when it is free and lost by a step, an exception or
the death of its holder. `WaitsForward`: a process that is waited for and waits itself
does so at a later path, which excludes circles, a process that waits for itself
included; flocks that a failed `unlock` has left behind are excepted. That a call ends
is not claimed: a caller that keeps deleting its lock file can keep another one in its
retry loop, and the locks of a failed `unlock` end with their process only. *Bound:* two
paths are what a circle of waiting needs. Two files of each let a process wait for a
file without a name while another one has the new file, and two leaked files of a path
are one for each process. Calls and deaths are not bounded.

**nix_gc.** `StoreClosed`: registering a path while its
references are collected fails in one or the other place. `ValidOnDisk`: no client
restores and registers a path between its invalidation and its deletion, nor while
another client deletes and restores it. `RootsKept`: what a client was told is valid,
and what a root links, stays. `KeptForAReason`: the collector spares only what a root
reaches. `SleepsInWalk`: a thread of the server is asleep only during a walk, whose end
wakes it; it fails without the `notify_all` of line 699, and also if a walk ends and
leaves its path pending. `CollectionMovesOn`: each step of a collection comes nearer to
its end, whatever referrers clients register under the walk. `ImplementsStore` is the
refinement of `RootedStore`. *Bound:* a reference makes the collector visit two paths in
one walk; two clients can refer to and take roots of the same path, and lose the race
to one another. The path that refers to the other one may be linked and repaired, but
there is no link while a repair is at work (`CONSTRAINT Apart`). Collections, calls and
exits are not bounded. A behaviour is followed until the first late root (`CONSTRAINT
InTime`); beyond it the properties that mention `late` hold by definition, and the
proofs show the other ones without either constraint. No fairness is assumed.

**Violations.** Each contradicts a sentence of the repository, quoted under
`findings`: `configs/immutable-patch.sh:157` (`boot_recovery`), `GIT_WORKFLOW.md:12`
(`git_delete`), `UPDATED_WORKFLOW.md:38` with `GIT_WORKFLOW.md:16` (`git_manual`),
`ai_assistant/DOCKER_COMPAT.md:12` (`ai_launch`), and the comment at
`nix/src/libstore/gc.cc:629` with the manual's page on roots (`nix_roots`).

**Observations without a run.** They follow from one place of the code, whatever the
order of events, and the models contain them:

* `arttulos-os/scripts/build_iso.sh` extracts the `.art` packages into `build/rootfs`
  (lines 19-22) and removes `build/` (line 28) before the image is made, so that no image
  has a package in it (`CleanBuildDir`); `ISO_BUILD.md:5` says "Installs all `.art` package
  artifacts into the root filesystem."
* Step 1.6 of `build_system.sh` (line 51) goes on when a copy fails (`Copy`), and line 52
  says that the packages were copied; `BUILD_PROCESS.md:8` says that the step "collects the
  resulting `.art` artifact".
* The shutdown of a menu drops the result of `shutdown_ai`
  (`ai_assistant/interface.scrapec:281-283`, `StopThen`), and line 284 says "All
  assistants stopped." also when docker has failed to stop one.
* `auto_git.sh:31-49` compares each hash of the keys with itself, so that the gate
  before the push is always open.
* The arms for keywords in `scrapec/src/lexer.rs` (line 33) take words that begin with
  f or l away from the identifiers.
* A restart in `ai_assistant/interface.scrapec:216` always uses the default image; the
  second and third run of a container leave out the volumes.
* When the image build fails, step 7 of `build_system.sh` exports whatever older image
  is in the tree; the `.pkg` files of step 5 are read by nobody; the artifacts of a
  package that was removed from `packages/` stay.

## 4 What is proved

Each proof is an inductive invariant, shown to hold initially and to be preserved
action by action, from which the properties are derived. The parts of the invariant
are definitions of the proof module (`IInv`, `LoopInv`) or, for `BuildSystem`,
`NixPathLocks` and `NixGC`, of the module itself (`LoopsDone` and `MovesForward`,
`LockInv` and `OrderInv`, `GCInv`).

| module | theorems | assumptions |
|---|---|---|
| `ImmutableBootProofs` | type correctness, `AlarmNotMissed`, `AlarmMeansFailures`, `MarkerSealsCopies`, `EditsSurvive`, `ImplementsAlarm` | `MaxBootsAssumption`: the bound is a natural number |
| `AutoGitProofs` | type correctness, `NoCommitLost`, `RunDelivers`, `MainOnlyGrows`, `DivergenceIsPermanent` | `AutoGitAssumption`: at least one second, two subsets of the clones |
| `ScrapeFrontProofs` | type correctness, `NoIndexPanic`, `OutputMeetsReference`, `MovesOn` | `ScrapeAssumption`: texts are sequences of characters, `IntMax` is natural |
| `AiContainersProofs` | type correctness, `ShutdownStopsOwn`, `TwoAtMost`, `LaunchNeedsLoss`, `CallMovesOn` | `AiAssumption`: tables are functions, a menu input is a nonempty list |
| `BuildSystemProofs` | type correctness, `ArtifactsCurrent`, `NewestIsoKept` | `BuildAssumption`: the bounds are natural numbers, at least one version |
| `NixPathLocksProofs` | type correctness, `ExclusiveUnlessTorn`, `DeletesOwnFile`, `WaitsForward`, `ImplementsPathLock` | `PathLocksAssumption`: the bounds are natural numbers, `None` is no process |
| `NixGCProofs` | type correctness, `StoreClosed`, `ValidOnDisk`, `RootsKept`, `KeptForAReason`, `SleepsInWalk`, `CollectionMovesOn`, `ImplementsStore` | `GCAssumption`: `Refs` maps paths to sets of paths, `None` is no path, the bounds are sets of paths |

The theorems about Nix hold for any number of processes, paths and clients and for
any graph of references, cycles included, where the runs have two of each.

Why the invariants are what they are:

* *Boot.* The properties speak of the alarm and of the failures, and only the count
  links them. `CountRead` ties the shell variable to the file at each command.
  `CountNotTooHigh` and `CountNotTooLow` bound the count by the failures from both
  sides, each under the condition under which it is true: the first fails between
  the first success and the use of its mark, the second after the first success.
  `OverlaysSealed` says which copies and markers exist at each command, and
  `UnitsOrdered` that nothing runs without power or before its target.
* *Git.* Type correctness includes that a clone with an unfinished merge has stopped
  (`MergeStopped`). `InRun` says where a run keeps its commits at each command. `Known` is what
  `DivergenceIsPermanent` needs: a clone learns of commits of others only through
  the remote's `main`, so nobody but the clone itself can bring its missing commits
  there, and a clone whose pull fails never pushes `main` again. `OwnDisjoint` says
  that a commit has one author.
* *Front end.* `EndsInEof`: the token sequence that reaches the parser ends in
  `Eof`, so a token of any other kind has a successor. `LoopInv` is for
  `OutputMeetsReference`. It says that each loop has done so far what the reference
  asks of the part it has read: the tree lists the declarations before the parser's
  position, the environment and the output are those of the nodes before the present
  one. `Rank` counts the positions up to a place, and `ListsAppend` is the step of all
  three loops: what lists a set of positions lists it with one later position when
  that one's item is appended. The parser never stands inside a declaration, which is
  why the positions it skips count for nothing. `MovesOn` follows from the same
  invariant; in the lexer the characters left count three times as much as the place in
  the inner loop, because a loop may begin and end without consuming one, but not both
  at the same place.
* *Containers.* `NamesApart` and `PortsApart` are what Docker guarantees. `FirstRun`
  says that a session between its runs still has its first container or has
  observed its loss. `Stopping` says that during a shutdown each name of the list is either still
  to be worked off, or has no container of this session, or is in `unstopped`; it holds because a session
  that is shutting down starts nothing.
* *Build.* `LoopsDone` says for each loop what the packages it has taken, but for those
  in `passed`, are at least as new as; sources only get newer. `MovesForward` says that an image never meets a
  newer one at the place it is moved to: the one in `build/` is always the newest.
* *Locks.* `FlockHeld` ties the locks of a process to flocks, which the kernel keeps
  exclusive. That is not enough, since two processes may have flocks on two files of
  one path. `HolderNamed` says that the file of a lock is the one with the name, so
  that two locks of a path are on one file. To keep that when a process finds the
  file it has opened empty, `OpenedKnown` is needed: an opened file without its name
  has the token, or is in the hands of the process that is about to write it. All of
  it is under `n \notin torn`, for a torn deletion breaks exactly `OpenedKnown`; that the
  destructor's second deletion of a closed file's name does no harm to a path that is not
  torn holds because it tears that path.
  `OrderInv` adds what `WaitsForward` needs, and holds for torn paths too: `FlockOpen`,
  that a process has no flock but on the files of its locks, the one it is about to
  look at and those it has leaked, and `LockedInOrder`, that its locks are on paths before those it has still
  to lock. The refinement of `PathLock` maps five actions to steps (`Unlink`, `Close`,
  the successful check, `TokenFails`, `Die`) and all others to stuttering; that a lock is taken only
  when it is free is `ExclusiveUnlessTorn` of the state after the step.
* *Collector.* `FilesLocked`: a client past `addTempRoot` has its root in a file that it
  has locked, with a name or without. `RootsSeen`: a collector that has read the file has
  the root, and a file without a name has none before a root is late. `LocksApart`: two
  clients do not restore one path, which is what `ValidOnDisk` needs where one of them
  deletes it.
  `NothingDoomed`: what the collector will delete is nobody's root. `ValidOnDisk`
  and `RootsKept` depend on one another through these, which is why they are parts
  of one invariant, `SafeNow`, under `late = {}`. `KeptForAReason` has its own,
  `WalkUpwards`: what a walk visits reaches its start, also over cached referrers. `SleepsInWalk` is inductive with
  `PhasesKept` (`pending` is set in a walk only): a thread goes to sleep at a pending path,
  and each step that leaves a walk notifies. The
  refinement of `RootedStore` uses `NothingDoomed` in one place, `Invalidate`: the path
  is doomed, and what clients were told of is among their roots. `addPermRoot` changes
  nothing there, for it is called for a path the client counts on already.
* *Measures.* `MovesOn`, `CallMovesOn` and `CollectionMovesOn` are action properties: they
  show that a loop cannot run for ever, for every input, number of sessions and graph
  of references, and leave to the runs that it does not stand still.

Only model-checked: liveness (`BootFinishes`, `Terminates`), which is out of the prover's reach; the measures and `WaitsForward` are the
parts of it that are proved. The violations are single behaviours.

## 5 What is not modelled

* The recovery and update scripts and the container defaults of
  `configs/immutable-patch.sh`: they print, or nothing calls them.
* The volumes of the containers. The second and third run leave them out, so an
  assistant that is reported as running has no storage; see the plan.
* The stubs of the compiler, the stand-alone assistant back end (a fixed table), the
  login manager, the app store, desktop and branding: no state or only placeholders.
* The installer scripts and the build host preparation: straight-line calls of tools
  that keep the state themselves.
* PacNixum: each command picks the first package manager that is installed and runs
  one command of it. It keeps no state; the one question it raises, whether two
  commands see the same package manager, depends on the host alone.
* The plugin loader: a menu over manifests read once. It starts processes and keeps
  nothing; no document says what holds when a plugin is replaced in between.
* `build_iso.sh` in the root directory, an older copy of the modelled script with the
  same order of steps that works outside the tree, and `package_to_art.sh`, which makes
  one archive.
* Of the Nix store: what section 2 lists as left out. Threads of one process share the
  descriptor `_fdGCLock`, so that the end of one `addTempRoot` gives back the shared
  lock of another thread; the model has one thread per process.
* The rest of the vendored code (dnf5, the X server in `dummy_arg/`, the other parts of
  Nix, a release snapshot), which is almost all of the repository: parts that the
  project ships and does not change.

## 6 Plan

Done: the boot with its abstract alarm, the git automation, the compiler front end,
the assistant containers, the system build, and the locks and the collector of the
Nix store with the abstract lock and the abstract store, each with its proofs. They come first because they are the parts with
concurrency, failure or unbounded input.

Next, in this order:

1. Several threads per client in `NixGC`, with the shared descriptor `_fdGCLock` and the
   file of temporary roots that they have in common.
2. The lock file of the X server, `dummy_arg/os/serverlock.c`, next to the Nix locks.
3. A composition of `BuildSystem` with `AutoGit`: what step 9 commits after an image
   build that was skipped.
4. Volumes in `AiContainers`, against "Data is mounted to /data" of
   `ai_assistant/USAGE.md`.
5. An abstract specification of the remote repository that `AutoGit` implements.
