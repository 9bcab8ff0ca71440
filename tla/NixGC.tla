-------------------------------- MODULE NixGC --------------------------------
(***************************************************************************)
(* The garbage collector of the Nix store (libstore/gc.cc) against         *)
(* processes that add paths to the store and take roots meanwhile          *)
(* (local-store.cc).  The collector holds the big lock; a process that     *)
(* cannot take it in shared mode sends its temporary root to the           *)
(* collector's socket, waits for the acknowledgement and only then writes  *)
(* the root into its file under temproots.                                 *)
(*                                                                         *)
(* Left out: keep-outputs and keep-derivations (off), the actions that     *)
(* delete nothing or only given paths, .links, entries that are no store   *)
(* paths, and the cache of path infos in a process.  readdir returns what  *)
(* was in the store when the scan began.  What a client does under the     *)
(* shared lock is one action: the collector cannot run then.  A build hook *)
(* and the process whose lock it works under (locksHeld) are one client.   *)
(* The number of a process is not in use again while a collector has the   *)
(* temporary roots file of that number open.                               *)
(***************************************************************************)
EXTENDS FiniteSets

CONSTANTS
  Clients,
  Paths,   \* store paths
  Refs,    \* the references of each path
  None,    \* no path
  (* bounds *)
  Linked,   \* the paths that permanent roots are made for
  Repaired  \* the paths that are also added with the flag repair

ASSUME GCAssumption ==
  /\ None \notin Paths /\ Refs \in [Paths -> SUBSET Paths]
  /\ Linked \subseteq Paths /\ Repaired \subseteq Paths

VARIABLES
  (* the store *)
  valid,    \* paths in the database
  disk,     \* paths in the store directory
  perm,     \* targets of permanent roots
  (* of each client *)
  pc,
  path,     \* the path it works on
  linking,  \* in addPermRoot, and not in addToStore
  tfile,    \* its temporary roots file
  temp,     \* the roots in this file
  uses,     \* paths it was told are valid
  (* the collector *)
  gpc,
  unread,   \* clients whose temporary roots file is still to be read
  roots,    \* permanent roots found
  gtemp,    \* shared.tempRoots
  pending,  \* shared.pending
  entries,  \* entries of the store directory still to be looked at
  start, visited, todo,        \* of deleteReferrersClosure
  alive, dead,
  referrersCache,  \* of each path, the set of its referrers, or nothing
  (* seen by an observer *)
  late,     \* roots that came too late for a collector, or that none will see
  broken    \* valid paths with a repair that has begun and has not restored them

store == <<valid, disk, perm>>
closure == <<start, visited, todo>>
found == <<alive, dead, referrersCache>>
gc == <<gpc, unread, roots, gtemp, pending, entries, closure, found>>
call == <<path, linking, tfile, temp, uses>>
client == <<pc, call>>
observed == <<late, broken>>
vars == <<store, client, gc, observed>>

Rooting == {"file", "lockfile", "shared", "sent", "waiting", "woken", "acked"}
Locking == {"restore", "unpack", "register"}
Rooted == {"check", "lock", "repair"} \cup Locking
Walking == {"visit", "delete", "remove"}
Deciding == {"scan"} \cup Walking
RootsRead == {"temps"} \cup Deciding    \* the permanent roots have been read
Serving == {"roots", "ending"} \cup RootsRead

TypeStore ==
  /\ valid \subseteq Paths /\ disk \subseteq Paths /\ perm \subseteq Paths
  /\ late \subseteq Paths /\ broken \subseteq valid

TypeClients ==
  /\ pc \in [Clients -> {"idle"} \cup Rooting \cup Rooted]
  /\ path \in [Clients -> Paths \cup {None}]
  /\ linking \in [Clients -> BOOLEAN]
  /\ tfile \in [Clients -> {"none", "open", "seized", "deleted", "nameless", "locked", "lost"}]
  /\ temp \in [Clients -> SUBSET Paths]
  /\ uses \in [Clients -> SUBSET Paths]
  /\ \A c \in Clients : pc[c] # "idle" => path[c] # None

TypeCollector ==
  /\ gpc \in {"off", "locked", "stop"} \cup Serving
  /\ unread \subseteq Clients
  /\ roots \subseteq Paths /\ gtemp \subseteq Paths
  /\ pending \in Paths \cup {None}
  /\ entries \subseteq Paths
  /\ start \in Paths \cup {None} /\ (gpc = "visit" => start # None)
  /\ visited \subseteq Paths /\ todo \subseteq visited /\ (gpc = "delete" => todo = {})
  /\ alive \subseteq Paths /\ dead \subseteq Paths
  /\ referrersCache \in [Paths -> SUBSET (SUBSET Paths)]

(* The types; and what is queued was visited, and a client at work has a   *)
(* path.                                                                   *)
TypeOK == TypeStore /\ TypeClients /\ TypeCollector

Closed(S) == \A q \in S : Refs[q] \subseteq S

(* A store in which references are closed, and no process. *)
Init ==
  /\ valid \in {S \in SUBSET Paths : Closed(S)}
  /\ disk = valid
  /\ perm = {}
  /\ pc = [c \in Clients |-> "idle"]
  /\ path = [c \in Clients |-> None]
  /\ linking = [c \in Clients |-> FALSE]
  /\ tfile = [c \in Clients |-> "none"]
  /\ temp = [c \in Clients |-> {}]
  /\ uses = [c \in Clients |-> {}]
  /\ gpc = "off" /\ unread = {} /\ roots = {} /\ gtemp = {} /\ pending = None /\ entries = {}
  /\ start = None /\ visited = {} /\ todo = {} /\ alive = {} /\ dead = {}
  /\ referrersCache = [p \in Paths |-> {}]
  /\ late = {} /\ broken = {}

Goto(c, label) == pc' = [pc EXCEPT ![c] = label]

(* The paths that the collector will delete, or invalidated and is about   *)
(* to delete, unless it still finds a root in its queue.                   *)
Doomed == IF gpc = "remove" THEN (visited \ dead) \cup todo ELSE visited \ (todo \cup dead)

-----------------------------------------------------------------------------
(* A client: addToStore, or addPermRoot for a path that it uses *)

Begin(c, p) ==
  /\ pc[c] = "idle"
  /\ path' = [path EXCEPT ![c] = p]
  /\ \E b \in BOOLEAN : (b => p \in uses[c] \cap Linked) /\ linking' = [linking EXCEPT ![c] = b]
  /\ Goto(c, IF tfile[c] = "none" THEN "file" ELSE "shared")
  /\ UNCHANGED <<store, tfile, temp, uses, gc, observed>>

(* addTempRoot.  The first call creates the file, and then locks it; if    *)
(* the file is not empty by then, a collector got in the way, and the file *)
(* is created again.  A file that a collector has unlinked without writing *)
(* into it is empty.                                                       *)
CreateTempRootsFile(c) ==
  /\ pc[c] = "file"
  /\ tfile' = [tfile EXCEPT ![c] = "open"]
  /\ Goto(c, "lockfile")
  /\ UNCHANGED <<store, path, linking, temp, uses, gc, observed>>

LockTempRootsFile_unchecked(c) ==
  /\ pc[c] = "lockfile" /\ tfile[c] # "seized"
  /\ tfile' = [tfile EXCEPT ![c] = IF @ = "open" THEN "locked"
                                   ELSE IF @ = "nameless" THEN "lost" ELSE @]
  /\ Goto(c, "shared")
  /\ UNCHANGED <<store, path, linking, temp, uses, gc, observed>>

LockTempRootsFile(c) ==
  /\ pc[c] = "lockfile" /\ tfile[c] # "seized"
  /\ IF tfile[c] = "deleted"
     THEN tfile' = [tfile EXCEPT ![c] = "none"] /\ Goto(c, "file")
     ELSE /\ tfile' = [tfile EXCEPT ![c] = IF @ = "open" THEN "locked" ELSE "lost"]
          /\ Goto(c, "shared")
  /\ UNCHANGED <<store, path, linking, temp, uses, gc, observed>>

(* No collector opens a file that has lost its name. *)
Unseen(c) == {p \in {path[c]} : tfile[c] = "lost"}

(* The shared lock is free, and the root is written under it. *)
RootShared(c) ==
  /\ pc[c] = "shared" /\ gpc = "off"
  /\ temp' = [temp EXCEPT ![c] = @ \cup {path[c]}]
  /\ late' = late \cup Unseen(c)
  /\ Goto(c, "check")
  /\ UNCHANGED <<store, path, linking, tfile, uses, gc, broken>>

(* It is not.  Without a socket the client starts again, otherwise it      *)
(* sends the root.                                                         *)
Connect(c) ==
  /\ pc[c] = "shared" /\ gpc \in Serving
  /\ Goto(c, "sent")
  /\ UNCHANGED <<store, path, linking, tfile, temp, uses, gc, observed>>

(* The answer.  A path that was visited before the pending one may be      *)
(* deleted all the same.                                                   *)
Acknowledge(c) ==
  /\ Goto(c, "acked")
  /\ late' = late \cup {p \in Doomed : p = path[c]}

(* The collector's thread for this client adds the root, and answers when  *)
(* the path is not the pending one; otherwise it goes to sleep.  It holds  *)
(* the lock of shared from its look at pending until it sleeps.            *)
Receive(c) ==
  /\ pc[c] = "sent" /\ gpc \in Serving
  /\ gtemp' = gtemp \cup {path[c]}
  /\ IF pending = path[c] THEN Goto(c, "waiting") /\ UNCHANGED late ELSE Acknowledge(c)
  /\ UNCHANGED <<store, call, gpc, unread, roots, pending, entries, closure, found, broken>>

(* notify_all *)
Notify == pc' = [c \in Clients |-> IF pc[c] = "waiting" THEN "woken" ELSE pc[c]]

(* A wait on a condition variable may also end by itself; a thread that    *)
(* finds its path still pending sleeps again.                              *)
SpuriousWakeUp(c) ==
  /\ pc[c] = "waiting" /\ pending # path[c]
  /\ Goto(c, "woken")
  /\ UNCHANGED <<store, call, gc, observed>>

(* The thread looks at pending again.  When the server is shutting down,   *)
(* its answer may find the connection closed.                              *)
WakeUp(c) ==
  /\ pc[c] = "woken"
  /\ \/ pending = path[c] /\ Goto(c, "waiting") /\ UNCHANGED late
     \/ pending # path[c] /\ Acknowledge(c)
     \/ pending # path[c] /\ gpc = "ending" /\ Goto(c, "shared") /\ UNCHANGED late
  /\ UNCHANGED <<store, call, gc, broken>>

(* The answer is read and the root is written, without a lock.  Another    *)
(* collector may have read the file before.                                *)
Write(c) ==
  /\ pc[c] = "acked"
  /\ temp' = [temp EXCEPT ![c] = @ \cup {path[c]}]
  /\ late' = late \cup Unseen(c)
                  \cup {p \in {path[c]} : /\ gpc \in RootsRead /\ c \notin unread
                                          /\ p \in Doomed \/ p \notin gtemp}
  /\ Goto(c, "check")
  /\ UNCHANGED <<store, path, linking, tfile, uses, gc, broken>>

(* The path is there, for as long as the root is. *)
Return(c) ==
  /\ uses' = [uses EXCEPT ![c] = @ \cup {path[c]}]
  /\ path' = [path EXCEPT ![c] = None]
  /\ linking' = [linking EXCEPT ![c] = FALSE]
  /\ Goto(c, "idle")

(* addPermRoot makes the link.  When no collector had the root in          *)
(* addTempRoot, one may have read the permanent roots since.               *)
MakeSymlink(c) ==
  /\ pc[c] = "check" /\ linking[c]
  /\ perm' = perm \cup {path[c]}
  /\ late' = late \cup {p \in {path[c]} : gpc \in RootsRead /\ p \notin gtemp}
  /\ Return(c)
  /\ UNCHANGED <<valid, disk, tfile, temp, gc, broken>>

(* isValidPath, before the lock on the path is taken and after; a call     *)
(* with repair goes on although the path is valid.                         *)
Check(c) ==
  /\ pc[c] = "check" /\ ~linking[c]
  /\ \/ path[c] \in valid /\ Return(c)
     \/ path[c] \notin valid /\ Goto(c, "lock") /\ UNCHANGED <<path, linking, uses>>
     \/ path[c] \in Repaired /\ Goto(c, "repair") /\ UNCHANGED <<path, linking, uses>>
  /\ UNCHANGED <<store, tfile, temp, gc, observed>>

LockPath_shared(c) ==
  /\ pc[c] \in {"lock", "repair"}
  /\ IF pc[c] = "lock" /\ path[c] \in valid
     THEN Return(c)
     ELSE Goto(c, "restore") /\ UNCHANGED <<path, linking, uses>>
  /\ UNCHANGED <<store, tfile, temp, gc, observed>>

LockPath(c) ==
  /\ pc[c] \in {"lock", "repair"}
  /\ \A d \in Clients : ~(pc[d] \in Locking /\ path[d] = path[c])
  /\ IF pc[c] = "lock" /\ path[c] \in valid
     THEN Return(c)
     ELSE Goto(c, "restore") /\ UNCHANGED <<path, linking, uses>>
  /\ UNCHANGED <<store, tfile, temp, gc, observed>>

(* What is there goes first, also a path that is valid. *)
DeletePath(c) ==
  /\ pc[c] = "restore"
  /\ disk' = disk \ {path[c]}
  /\ broken' = broken \cup ({path[c]} \cap valid)
  /\ Goto(c, "unpack")
  /\ UNCHANGED <<valid, perm, call, gc, late>>

RestorePath(c) ==
  /\ pc[c] = "unpack"
  /\ disk' = disk \cup {path[c]}
  /\ broken' = broken \ {path[c]}
  /\ Goto(c, "register")
  /\ UNCHANGED <<valid, perm, call, gc, late>>

(* The call ends by an exception. *)
Throw(c) ==
  /\ path' = [path EXCEPT ![c] = None]
  /\ Goto(c, "idle")
  /\ UNCHANGED <<linking, uses>>

(* Nothing is unpacked, or what is does not have the hash or the size that *)
(* the caller gave, and stays there.                                       *)
RestoreFails(c) ==
  /\ pc[c] = "unpack"
  /\ disk' \in {disk, disk \cup {path[c]}}
  /\ Throw(c)
  /\ UNCHANGED <<valid, perm, tfile, temp, gc, observed>>

RegisterValidPath_unchecked(c) ==
  /\ pc[c] = "register"
  /\ valid' = valid \cup {path[c]} /\ Return(c)
  /\ UNCHANGED <<disk, perm, tfile, temp, gc, observed>>

(* It throws when a reference is not valid. *)
RegisterValidPath(c) ==
  /\ pc[c] = "register"
  /\ IF Refs[path[c]] \subseteq valid \cup {path[c]}
     THEN valid' = valid \cup {path[c]} /\ Return(c)
     ELSE Throw(c) /\ UNCHANGED valid
  /\ UNCHANGED <<disk, perm, tfile, temp, gc, observed>>

(* The process ends, in a call or not; its file has no lock any more. *)
Exit(c) ==
  /\ tfile[c] # "none"
  /\ pc' = [pc EXCEPT ![c] = "idle"]
  /\ path' = [path EXCEPT ![c] = None]
  /\ linking' = [linking EXCEPT ![c] = FALSE]
  /\ tfile' = [tfile EXCEPT ![c] = "none"]
  /\ temp' = [temp EXCEPT ![c] = {}]
  /\ uses' = [uses EXCEPT ![c] = {}]
  /\ UNCHANGED <<store, gc, observed>>

(* A user removes a permanent root. *)
RemoveRoot(p) ==
  /\ p \in perm
  /\ perm' = perm \ {p}
  /\ UNCHANGED <<valid, disk, client, gc, observed>>

-----------------------------------------------------------------------------
(* collectGarbage *)

Lock ==
  /\ gpc = "off"
  /\ gpc' = "locked"
  /\ UNCHANGED <<store, client, unread, roots, gtemp, pending, entries, closure, found, observed>>

StartServer ==
  /\ gpc = "locked"
  /\ gpc' = "roots"
  /\ UNCHANGED <<store, client, unread, roots, gtemp, pending, entries, closure, found, observed>>

FindRoots ==
  /\ gpc = "roots"
  /\ roots' = perm \cap valid
  /\ unread' = Clients
  /\ gpc' = "temps"
  /\ UNCHANGED <<store, client, gtemp, pending, entries, closure, found, observed>>

(* findTempRoots.  A file that cannot be locked has an owner, and is read; *)
(* other files that have a name ...                                        *)
NoneSeized == \A d \in Clients : tfile[d] # "seized"

ReadTempRoots(c) ==
  /\ gpc = "temps" /\ c \in unread /\ NoneSeized
  /\ tfile[c] # "open"
  /\ unread' = unread \ {c}
  /\ gtemp' = IF tfile[c] = "locked" THEN gtemp \cup temp[c] ELSE gtemp
  /\ UNCHANGED <<store, client, gpc, roots, pending, entries, closure, found, observed>>

(* ... are locked and unlinked, and then a letter is written into them, as *)
(* a sign for an owner that has not locked the file yet.                   *)
UnlinkTempRoots(c) ==
  /\ gpc = "temps" /\ c \in unread /\ NoneSeized
  /\ tfile[c] = "open"
  /\ tfile' = [tfile EXCEPT ![c] = "seized"]
  /\ UNCHANGED <<store, pc, path, linking, temp, uses, gc, observed>>

WriteDeleted(c) ==
  /\ gpc = "temps" /\ tfile[c] = "seized"
  /\ tfile' = [tfile EXCEPT ![c] = "deleted"]
  /\ unread' = unread \ {c}
  /\ UNCHANGED <<store, pc, path, linking, temp, uses, gpc, roots, gtemp, pending, entries, closure,
                 found, observed>>

OpenStore ==
  /\ gpc = "temps" /\ unread = {}
  /\ entries' = disk
  /\ gpc' = "scan"
  /\ UNCHANGED <<store, client, unread, roots, gtemp, pending, closure, found, observed>>

(* deleteReferrersClosure, for the next entry *)
ReadEntry(p) ==
  /\ gpc = "scan" /\ p \in entries
  /\ entries' = entries \ {p}
  /\ start' = p /\ visited' = {p} /\ todo' = {p}
  /\ gpc' = "visit"
  /\ UNCHANGED <<store, client, unread, roots, gtemp, pending, found, observed>>

(* releasePending, also when an exception ends the walk *)
ReleasePending ==
  /\ pending' = None
  /\ start' = None /\ visited' = {} /\ todo' = {}
  /\ Notify

EndClosure_silent ==
  /\ pending' = None
  /\ start' = None /\ visited' = {} /\ todo' = {}
  /\ UNCHANGED pc
  /\ gpc' = "scan"

EndClosure == ReleasePending /\ gpc' = "scan"

(* computeFSClosure: what p reaches over references is in every set that   *)
(* has p and is closed.                                                    *)
FSClosure(p) == {q \in Paths : \A S \in SUBSET Paths : p \in S /\ Closed(S) => q \in S}

VisitAlive(p) ==
  /\ gpc = "visit" /\ p \in todo /\ p \in alive
  /\ alive' = alive \cup {start}
  /\ EndClosure
  /\ UNCHANGED <<store, call, unread, roots, gtemp, entries, dead, referrersCache, observed>>

VisitDead(p) ==
  /\ gpc = "visit" /\ p \in todo /\ p \notin alive /\ p \in dead
  /\ todo' = todo \ {p}
  /\ UNCHANGED <<store, client, gpc, unread, roots, gtemp, pending, entries, start, visited,
                 found, observed>>

VisitRoot_flipped(p) ==
  /\ gpc = "visit" /\ p \in todo /\ p \notin alive \cup dead
  /\ p \in roots \cup gtemp
  /\ alive' = alive \cup {p, start} \cup {q \in valid : p \in FSClosure(q)}
  /\ EndClosure
  /\ UNCHANGED <<store, call, unread, roots, gtemp, entries, dead, referrersCache, observed>>

VisitRoot(p) ==
  /\ gpc = "visit" /\ p \in todo /\ p \notin alive \cup dead
  /\ p \in roots \cup gtemp
  /\ alive' = alive \cup {p, start} \cup (IF p \in valid THEN FSClosure(p) ELSE {})
  /\ EndClosure
  /\ UNCHANGED <<store, call, unread, roots, gtemp, entries, dead, referrersCache, observed>>

Referrers(p) == {q \in valid : p \in Refs[q]}

(* The referrers that the collector sees. *)
Found(p) == IF p \notin valid THEN {}
            ELSE IF referrersCache[p] = {} THEN Referrers(p) ELSE UNION referrersCache[p]

VisitNext(p, known) ==
  /\ gpc = "visit" /\ p \in todo /\ p \notin alive \cup dead
  /\ p \notin known
  /\ pending' = p
  /\ visited' = visited \cup Found(p)
  /\ todo' = (todo \ {p}) \cup (Found(p) \ visited)
  /\ referrersCache' = [referrersCache EXCEPT ![p] = IF p \in valid THEN {Found(p)} ELSE @]
  /\ UNCHANGED <<store, client, gpc, unread, roots, gtemp, entries, start, alive, dead, observed>>

Visit_permanent(p) == VisitNext(p, roots)
Visit_unmarked(p) ==
  /\ gpc = "visit" /\ p \in todo /\ p \notin alive \cup dead \cup roots \cup gtemp
  /\ pending' = p
  /\ todo' = (todo \ {p}) \cup (Found(p) \ visited)
  /\ referrersCache' = [referrersCache EXCEPT ![p] = IF p \in valid THEN {Found(p)} ELSE @]
  /\ UNCHANGED <<store, client, gpc, unread, roots, gtemp, entries, start, visited, alive, dead,
                 observed>>
Visit(p) == VisitNext(p, roots \cup gtemp)

Visited ==
  /\ gpc = "visit" /\ todo = {}
  /\ gpc' = "delete"
  /\ UNCHANGED <<store, client, unread, roots, gtemp, pending, entries, closure, found, observed>>

(* topoSortPaths: a path comes after those that refer to it.  visited is   *)
(* from here on what is left of the sorted list.                           *)
NextOf(p) == p \in visited /\ \A q \in visited \ {p} : p \notin Refs[q]

SkipDead(p) ==
  /\ gpc = "delete" /\ NextOf(p) /\ p \in dead
  /\ visited' = visited \ {p}
  /\ UNCHANGED <<store, client, gpc, unread, roots, gtemp, pending, entries, start, todo, found,
                 observed>>

(* invalidatePathChecked, and then the file *)
PathInUse(p) ==
  /\ gpc = "delete" /\ NextOf(p) /\ p \notin dead
  /\ p \in valid /\ Referrers(p) \ {p} # {}
  /\ dead' = dead \cup {p}
  /\ visited' = visited \ {p}
  /\ UNCHANGED <<store, client, gpc, unread, roots, gtemp, pending, entries, start, todo, alive,
                 referrersCache, observed>>

Invalidate(p) ==
  /\ gpc = "delete" /\ NextOf(p) /\ p \notin dead
  /\ p \in valid => Referrers(p) \ {p} = {}
  /\ dead' = dead \cup {p}
  /\ valid' = valid \ {p}
  /\ broken' = broken \ {p}
  /\ todo' = {p}
  /\ gpc' = "remove"
  /\ UNCHANGED <<disk, perm, client, unread, roots, gtemp, pending, entries, start, visited,
                 alive, referrersCache, late>>

DeleteFromStore ==
  /\ gpc = "remove"
  /\ disk' = disk \ todo
  /\ referrersCache' = [p \in Paths |-> IF p \in todo THEN {} ELSE referrersCache[p]]
  /\ visited' = visited \ todo
  /\ todo' = {}
  /\ gpc' = "delete"
  /\ UNCHANGED <<valid, perm, client, unread, roots, gtemp, pending, entries, start, alive, dead,
                 observed>>

Deleted ==
  /\ gpc = "delete" /\ visited = {}
  /\ EndClosure
  /\ UNCHANGED <<store, call, unread, roots, gtemp, entries, found, observed>>

(* The last entry was looked at, or an exception ends the collection: when *)
(* enough was freed, on an interrupt, or by an error.  What it has found   *)
(* is forgotten; a file that findTempRoots has unlinked stays empty.       *)
LetGo == tfile' = [c \in Clients |-> IF tfile[c] = "seized" THEN "nameless" ELSE tfile[c]]

Forget ==
  /\ unread' = {} /\ roots' = {} /\ entries' = {} /\ alive' = {} /\ dead' = {}
  /\ referrersCache' = [p \in Paths |-> {}]
  /\ LetGo
  /\ UNCHANGED <<store, path, linking, temp, uses, observed>>

Finished ==
  /\ gpc = "scan" /\ entries = {}
  /\ gpc' = "ending"
  /\ Notify
  /\ Forget
  /\ UNCHANGED <<gtemp, pending, closure>>

Abort ==
  /\ gpc \in Serving \ {"ending"}
  /\ gpc' = "ending"
  /\ ReleasePending
  /\ Forget
  /\ UNCHANGED gtemp

(* Clients that wait for an answer find the connection closed and start    *)
(* again.                                                                  *)
Reset ==
  /\ Forget
  /\ gtemp' = {} /\ pending' = None /\ start' = None /\ visited' = {} /\ todo' = {}
  /\ pc' = [c \in Clients |-> IF pc[c] \in {"sent", "waiting", "woken"} THEN "shared" ELSE pc[c]]

(* stopServer: the threads end before the collector goes on. *)
StopServer ==
  /\ gpc = "ending"
  /\ \A c \in Clients : pc[c] \notin {"waiting", "woken"}
  /\ gpc' = "stop"
  /\ Reset

(* The collector dies, or fails before it has started the server. *)
Kill == gpc # "off" /\ gpc' = "off" /\ Reset

Unlock ==
  /\ gpc = "stop"
  /\ gpc' = "off"
  /\ UNCHANGED <<store, client, unread, roots, gtemp, pending, entries, closure, found, observed>>

-----------------------------------------------------------------------------
ClientStep(c) ==
  \/ CreateTempRootsFile(c) \/ LockTempRootsFile(c) \/ RootShared(c) \/ Connect(c) \/ Write(c)
  \/ MakeSymlink(c) \/ Check(c) \/ LockPath(c) \/ DeletePath(c) \/ RestorePath(c)
  \/ RestoreFails(c) \/ RegisterValidPath(c)

ServerStep(c) == Receive(c) \/ WakeUp(c)

CollectorStep ==
  \/ StartServer \/ FindRoots \/ OpenStore \/ Visited \/ DeleteFromStore \/ Deleted
  \/ Finished \/ StopServer \/ Unlock
  \/ \E c \in Clients : ReadTempRoots(c) \/ UnlinkTempRoots(c) \/ WriteDeleted(c)
  \/ \E p \in Paths : \/ ReadEntry(p) \/ VisitAlive(p) \/ VisitDead(p) \/ VisitRoot(p) \/ Visit(p)
                      \/ SkipDead(p) \/ PathInUse(p) \/ Invalidate(p)

Next ==
  \/ \E c \in Clients : \/ \E p \in Paths : Begin(c, p)
                        \/ ClientStep(c) \/ ServerStep(c) \/ SpuriousWakeUp(c) \/ Exit(c)
  \/ \E p \in Paths : RemoveRoot(p)
  \/ Lock \/ CollectorStep \/ Abort \/ Kill

Spec == Init /\ [][Next]_vars
-----------------------------------------------------------------------------
(* PROPERTIES *)

(* The references of a valid path are valid, although clients register     *)
(* paths while the collector deletes what they refer to: invalidatePath    *)
(* Checked looks at the referrers again, and registerValidPaths throws.    *)
StoreClosed == Closed(valid)

(* Until a root comes too late, what the database calls valid is in the    *)
(* store, but for a path whose repair was not finished (the manual warns   *)
(* of it): no client restores and registers a path that the collector has  *)
(* invalidated and is still to delete (lines 593-604 and 790-797), or that *)
(* another client deletes to restore it (local-store.cc, lines 1018-1023). *)
ValidOnDisk == late # {} \/ valid \ broken \subseteq disk

(* Until then no path disappears that a client was told is valid and that  *)
(* has its temporary root, or that a permanent root points to.             *)
RootsKept == late # {} \/ (perm \subseteq valid /\ \A c \in Clients : uses[c] \subseteq valid)

(* The collector spares a path only if some root reaches it, although it   *)
(* marks the start of a walk alive without computing why (lines 714-739).  *)
KeptForAReason == \A p \in alive : \E r \in roots \cup gtemp : p \in FSClosure(r)

(* A thread of the server is asleep only during a walk, whose end will     *)
(* reset pending and wake it (lines 696-700): no wakeup is lost, and the   *)
(* collector never waits in stopServer for a thread that sleeps.           *)
SleepsInWalk == \A c \in Clients : pc[c] = "waiting" => gpc \in Walking

(* A collection comes to an end, although clients register referrers while *)
(* it walks over them and references may form circles: until it stops,     *)
(* each of its steps lowers a measure.  There are fewer entries left, or   *)
(* this one is done; a walk marks paths (lines 709-789) or queues none and *)
(* has fewer in its queue; then paths become dead, and the list is worked  *)
(* off (lines 790-804).                                                    *)
Less(S, T) == S \subseteq T /\ S # T

WalksOn == Less(visited, visited') \/ (visited' = visited /\ Less(todo', todo))

DeletesOn == \/ Less(dead, dead')
             \/ /\ dead' = dead
                /\ \/ gpc = "remove" /\ gpc' = "delete"
                   \/ gpc' = gpc /\ Less(visited', visited)

EntryMovesOn == \/ gpc # "scan" /\ gpc' = "scan"
                \/ gpc = "visit" /\ gpc' = "delete"
                \/ gpc = "visit" /\ gpc' = "visit" /\ WalksOn
                \/ {gpc, gpc'} \subseteq {"delete", "remove"} /\ DeletesOn

CollectionMovesOn ==
  [][\/ gpc \notin Deciding \/ gpc' \in {"ending", "off"}
     \/ UNCHANGED <<gpc, entries, visited, todo, dead>>
     \/ Less(entries', entries)
     \/ entries' = entries /\ EntryMovesOn]_vars

(* With the protocol of roots hidden, every step of the collector and of   *)
(* its clients is a step of the store in RootedStore or leaves it alone: a *)
(* path is collected only when nobody was told of it and nothing refers to *)
(* it, until a root comes too late.                                        *)
Store == INSTANCE RootedStore WITH kept <- perm \cup UNION {uses[c] : c \in Clients}

ImplementsStore == Store!SSpec

(* What the manual says of permanent roots, store-api.hh:683 of temporary  *)
(* ones, and the comments at gc.cc:629 and 639 take for granted: the       *)
(* collector does not remove the path of a root.  Each of the four ways to *)
(* a late root breaks it.                                                  *)
RootsHold == perm \subseteq valid /\ \A c \in Clients : uses[c] \subseteq valid

(* Why RootsKept and ValidOnDisk hold.  A client past addTempRoot has its  *)
(* root in a file that is locked; a collector that has read the file has   *)
(* the root; and what it is going to delete is nobody's root.              *)
HasFile(c) == tfile[c] \in {"locked", "lost"}

FilesLocked ==
  \A c \in Clients :
     /\ pc[c] \in {"file", "lockfile"} => temp[c] = {} /\ ~HasFile(c)
     /\ pc[c] # "lockfile" => HasFile(c) \/ tfile[c] = "none"
     /\ pc[c] = "idle" => HasFile(c) \/ temp[c] = {}
     /\ pc[c] \notin {"idle", "file", "lockfile"} => HasFile(c)
     /\ pc[c] \in Rooted => path[c] \in temp[c]
     /\ uses[c] \subseteq temp[c]
     /\ linking[c] => pc[c] \in Rooting \cup {"check"} /\ path[c] \in uses[c]

LocksApart ==
  \A c, d \in Clients : pc[c] \in Locking /\ pc[d] \in Locking /\ path[c] = path[d] => c = d

PhasesKept ==
  /\ gpc \in Deciding => unread = {}
  /\ gpc \notin Walking => visited = {} /\ pending = None
  /\ gpc \notin Deciding => alive = {}

RootsSeen ==
  /\ gpc \in RootsRead =>
       /\ perm \subseteq roots \cup gtemp
       /\ \A c \in Clients \ unread : temp[c] \subseteq gtemp
  /\ \A c \in Clients : tfile[c] = "lost" => temp[c] = {}

NothingDoomed ==
  /\ perm \cap Doomed = {}
  /\ \A c \in Clients : temp[c] \cap Doomed = {} /\ (pc[c] = "register" => path[c] \in disk)
  /\ gpc = "remove" => todo \cap valid = {}

SafeNow == RootsSeen /\ NothingDoomed /\ ValidOnDisk /\ RootsKept

GCInv == /\ TypeOK /\ FilesLocked /\ LocksApart /\ PhasesKept /\ SleepsInWalk
         /\ late = {} => SafeNow

(* Why KeptForAReason holds: the start of a walk is reached from all that  *)
(* the walk visits, also over referrers that were queried earlier.         *)
WalkUpwards ==
  /\ gpc = "visit" => \A q \in visited : start \in FSClosure(q)
  /\ \A p \in Paths : \A S \in referrersCache[p] : \A q \in S : p \in Refs[q]
=============================================================================
