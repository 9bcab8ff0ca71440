----------------------------- MODULE NixPathLocks -----------------------------
(***************************************************************************)
(* The lock files of the Nix store (libstore/unix/pathlocks.cc).  A        *)
(* process locks a set of store paths in their sorted order; for each one  *)
(* it opens <path>.lock, takes an exclusive flock on the open file and     *)
(* looks whether the file was deleted meanwhile: who deletes a lock file   *)
(* first unlinks it and then writes a token into it.  One action is one    *)
(* system call.  A process may die between any two of them; the kernel     *)
(* then releases its flocks, and the lock files stay.  The write of the    *)
(* token may throw; the exception leaves the loop of unlock, and the       *)
(* descriptors that were still to be closed stay open, with their flocks,  *)
(* until the process ends.                                                 *)
(*                                                                         *)
(* Assumed: a signal that interrupts a waiting flock is one that           *)
(* checkInterrupt turns into an exception; the number of a descriptor that *)
(* unlock has closed is not in use again when a second unlock writes to it.*)
(***************************************************************************)
EXTENDS Integers, FiniteSets

CONSTANTS
  Procs,
  None,        \* no process
  NPaths,      \* store paths are 1 .. NPaths, in the order of std::set
  MaxFiles,    \* bound: lock files of one path that exist at a time
  MaxLeaked    \* bound: of those, files left open by a failed unlock

ASSUME PathLocksAssumption ==
  /\ None \notin Procs
  /\ NPaths \in Nat /\ MaxFiles \in Nat /\ MaxLeaked \in Nat

Paths == 1 .. NPaths
Files == 1 .. MaxFiles   \* the lock files of a path; 0 is no file

VARIABLES
  (* the file system *)
  link,      \* the file that the name <path>.lock refers to
  token,     \* of each path, the files that are not empty
  owner,     \* the process that holds the flock on a file
  (* of each process and its PathLocks *)
  pc,
  todo,      \* paths that are still to be locked
  wait,      \* the parameter wait
  fd,        \* the file it has open and not yet in fds
  fds,       \* the files of the paths it has locked
  deletePaths,
  closed,    \* paths whose file this unlock has closed, and has still in fds
  leaked,    \* of each path, files that stay open after a failed unlock
  (* seen by an observer *)
  torn       \* paths whose lock file was unlinked by a process that did not
             \* get to write the token, because it died or the write failed

fsVars == <<link, token, owner>>
lostVars == <<closed, leaked, torn>>
vars == <<fsVars, pc, todo, wait, fd, fds, deletePaths, lostVars>>

Labels == {"idle", "open", "lock", "check", "held", "unlock", "token", "close"}

(* The types, and when a process has files open. *)
TypeOK ==
  /\ link \in [Paths -> Files \cup {0}]
  /\ token \in [Paths -> SUBSET Files]
  /\ owner \in [Paths -> [Files -> Procs \cup {None}]]
  /\ pc \in [Procs -> Labels]
  /\ todo \in [Procs -> SUBSET Paths]
  /\ wait \in [Procs -> BOOLEAN]
  /\ fd \in [Procs -> Files \cup {0}]
  /\ fds \in [Procs -> [Paths -> Files \cup {0}]]
  /\ deletePaths \in [Procs -> BOOLEAN]
  /\ closed \in [Procs -> SUBSET Paths]
  /\ leaked \in [Paths -> SUBSET Files]
  /\ torn \subseteq Paths
  /\ \A p \in Procs : /\ pc[p] \in {"lock", "check"} => fd[p] # 0 /\ todo[p] # {}
                      /\ pc[p] = "open" => todo[p] # {}
                      /\ pc[p] \notin {"open", "lock", "check"} => fd[p] = 0 /\ todo[p] = {}
                      /\ pc[p] = "idle" => \A n \in Paths : fds[p][n] = 0
                      /\ pc[p] \notin {"unlock", "token", "close"} => closed[p] = {}

Init ==
  /\ link = [n \in Paths |-> 0]
  /\ token = [n \in Paths |-> {}]
  /\ owner = [n \in Paths |-> [f \in Files |-> None]]
  /\ pc = [p \in Procs |-> "idle"]
  /\ todo = [p \in Procs |-> {}]
  /\ wait = [p \in Procs |-> TRUE]
  /\ fd = [p \in Procs |-> 0]
  /\ fds = [p \in Procs |-> [n \in Paths |-> 0]]
  /\ deletePaths = [p \in Procs |-> FALSE]
  /\ closed = [p \in Procs |-> {}]
  /\ leaked = [n \in Paths |-> {}]
  /\ torn = {}

Goto(p, label) == pc' = [pc EXCEPT ![p] = label]

First(S, n) == n \in S /\ \A m \in S : n <= m

(* The path of this turn of the loop of lockPaths. *)
Current_any(p, n) == n \in todo[p]
Current(p, n) == First(todo[p], n)

(* The path of this turn of the loop of unlock. *)
Locked(p) == {n \in Paths : fds[p][n] # 0}
Leaving(p, n) == First(Locked(p), n)

(* The files of a path that have a name or are open in one of the          *)
(* processes P.  A file that is not in use is gone.                        *)
InUse(P, n) == {f \in Files : \/ link[n] = f \/ f \in leaked[n]
                              \/ \E q \in P : \/ fds[q][n] = f
                                              \/ fd[q] = f /\ Current(q, n)}

(* When p closes its file of path n its flock ends, and the file goes when *)
(* nothing else refers to it.                                              *)
Release(p, n) ==
  /\ owner' = [owner EXCEPT ![n] = [f \in Files |->
                 IF @[f] = p /\ f \notin leaked[n] THEN None ELSE @[f]]]
  /\ token' = [token EXCEPT ![n] = @ \cap InUse(Procs \ {p}, n)]

-----------------------------------------------------------------------------
(* lockPaths, on a PathLocks that has no locks *)

LockPaths(p) ==
  /\ pc[p] = "idle"
  /\ \E S \in (SUBSET Paths) \ {{}} : todo' = [todo EXCEPT ![p] = S]
  /\ \E w \in BOOLEAN : wait' = [wait EXCEPT ![p] = w]
  /\ Goto(p, "open")
  /\ UNCHANGED <<fsVars, fd, fds, deletePaths, lostVars>>

(* openLockFile(lockPath, true); the file of an earlier attempt is closed. *)
OpenLockFile(p) ==
  /\ pc[p] = "open"
  /\ \E n \in Paths :
       /\ Current(p, n)
       /\ Release(p, n)
       /\ IF link[n] # 0
          THEN fd' = [fd EXCEPT ![p] = link[n]] /\ UNCHANGED link
          ELSE \E f \in Files :
                 /\ First(Files \ InUse(Procs, n), f)
                 /\ link' = [link EXCEPT ![n] = f]
                 /\ fd' = [fd EXCEPT ![p] = f]
  /\ Goto(p, "lock")
  /\ UNCHANGED <<todo, wait, fds, deletePaths, lostVars>>

(* flock, at once or after waiting. *)
LockFile(p) ==
  /\ pc[p] = "lock"
  /\ \E n \in Paths : /\ Current(p, n) /\ owner[n][fd[p]] = None
                      /\ owner' = [owner EXCEPT ![n][fd[p]] = p]
  /\ Goto(p, "check")
  /\ UNCHANGED <<link, token, todo, wait, fd, fds, deletePaths, lostVars>>

(* The call ends without the locks, and releases those it has. *)
GiveUp(p, n) ==
  /\ Current(p, n)
  /\ Release(p, n)
  /\ fd' = [fd EXCEPT ![p] = 0]
  /\ todo' = [todo EXCEPT ![p] = {}]
  /\ Goto(p, "unlock")
  /\ UNCHANGED <<link, wait, fds, deletePaths, lostVars>>

(* Without wait a lock that another process has ends the call. *)
LockBusy(p) ==
  /\ pc[p] = "lock" /\ ~wait[p]
  /\ \E n \in Paths : owner[n][fd[p]] # None /\ GiveUp(p, n)

(* checkInterrupt throws, and the destructor releases the locks. *)
Interrupt(p) == pc[p] \in {"open", "lock"} /\ \E n \in Paths : GiveUp(p, n)

(* fstat: a file that is not empty was deleted; the loop starts again. *)
CheckThen(p, n, stale) ==
  /\ pc[p] = "check" /\ Current(p, n)
  /\ IF stale
     THEN Goto(p, "open") /\ UNCHANGED <<todo, fd, fds>>
     ELSE /\ fds' = [fds EXCEPT ![p][n] = fd[p]]
          /\ fd' = [fd EXCEPT ![p] = 0]
          /\ todo' = [todo EXCEPT ![p] = @ \ {n}]
          /\ Goto(p, IF todo[p] = {n} THEN "held" ELSE "open")
  /\ UNCHANGED <<fsVars, wait, deletePaths, lostVars>>

CheckStale_not(p) == \E n \in Paths : CheckThen(p, n, FALSE)
CheckStale(p) == \E n \in Paths : CheckThen(p, n, fd[p] \in token[n])

-----------------------------------------------------------------------------
(* unlock *)

(* The caller is done: with setDeletion(true), or by an exception. *)
Finish(p) ==
  /\ pc[p] = "held"
  /\ \E d \in BOOLEAN : deletePaths' = [deletePaths EXCEPT ![p] = d]
  /\ Goto(p, "unlock")
  /\ UNCHANGED <<fsVars, todo, wait, fd, fds, lostVars>>

(* deleteLockFile: the name goes first ... *)
Unlink(p) ==
  /\ pc[p] = "unlock" /\ deletePaths[p]
  /\ \E n \in Paths : Leaving(p, n) /\ link' = [link EXCEPT ![n] = 0]
  /\ Goto(p, "token")
  /\ UNCHANGED <<token, owner, todo, wait, fd, fds, deletePaths, lostVars>>

(* ... and then the token is written. *)
WriteToken_not(p) ==
  /\ pc[p] = "token"
  /\ Goto(p, "close")
  /\ UNCHANGED <<fsVars, todo, wait, fd, fds, deletePaths, lostVars>>

WriteToken(p) ==
  /\ pc[p] = "token"
  /\ \E n \in Paths :
       Leaving(p, n) /\ token' = [token EXCEPT ![n] = @ \cup {fds[p][n]}]
  /\ Goto(p, "close")
  /\ UNCHANGED <<link, owner, todo, wait, fd, fds, deletePaths, lostVars>>

Close(p) ==
  /\ pc[p] = "close" \/ (pc[p] = "unlock" /\ ~deletePaths[p])
  /\ \E n \in Paths :
       /\ Leaving(p, n)
       /\ Release(p, n)
       /\ fds' = [fds EXCEPT ![p][n] = 0]
       /\ closed' = [closed EXCEPT ![p] = @ \cup {n}]
  /\ Goto(p, "unlock")
  /\ UNCHANGED <<link, todo, wait, fd, deletePaths, leaked, torn>>

(* The process goes on to a PathLocks of its next task. *)
Fresh(p) ==
  /\ wait' = [wait EXCEPT ![p] = TRUE]
  /\ deletePaths' = [deletePaths EXCEPT ![p] = FALSE]
  /\ closed' = [closed EXCEPT ![p] = {}]
  /\ Goto(p, "idle")

Unlocked_early(p) ==
  /\ pc[p] = "unlock"
  /\ Fresh(p)
  /\ UNCHANGED <<fsVars, todo, fd, fds, leaked, torn>>

Unlocked(p) ==
  /\ pc[p] = "unlock" /\ Locked(p) = {}
  /\ Fresh(p)
  /\ UNCHANGED <<fsVars, todo, fd, fds, leaked, torn>>

(* writeFull throws: on an interrupt, or when the disk is full.  In the    *)
(* destructor the exception is swallowed, and what is left of fds stays    *)
(* open.                                                                   *)
LeaveOpen(p, T) ==
  /\ leaked' = [n \in Paths |-> leaked[n] \cup ({fds[p][n]} \ {0})]
  /\ \A n \in Paths : Cardinality(leaked'[n]) <= MaxLeaked
  /\ fds' = [fds EXCEPT ![p] = [n \in Paths |-> 0]]
  /\ torn' = torn \cup T
  /\ Fresh(p)

(* Where a caller has called unlock itself, the exception goes up and the  *)
(* destructor goes through the whole of fds again: at a file not yet       *)
(* closed it deletes the name once more, whoever may have it by now, and   *)
(* tries to write; of a closed one it deletes the name too, and the write  *)
(* to its descriptor fails.                                                *)
TokenFails(p) ==
  /\ pc[p] = "token"
  /\ \E n \in Paths :
       /\ Leaving(p, n)
       /\ \/ LeaveOpen(p, {n}) /\ UNCHANGED link
          \/ /\ closed[p] = {}
             /\ link' = [link EXCEPT ![n] = 0] /\ torn' = torn \cup {n}
             /\ UNCHANGED <<pc, wait, fds, deletePaths, closed, leaked>>
          \/ \E m \in Paths : /\ First(closed[p], m)
                              /\ link' = [link EXCEPT ![m] = 0]
                              /\ LeaveOpen(p, {n, m})
  /\ UNCHANGED <<token, owner, todo, fd>>

-----------------------------------------------------------------------------
(* The kernel closes the files of a process that dies; a new one starts. *)
Die(p) ==
  /\ pc[p] # "idle" \/ \E n \in Paths : \E f \in leaked[n] : owner[n][f] = p
  /\ owner' = [n \in Paths |-> [f \in Files |-> IF owner[n][f] = p THEN None ELSE owner[n][f]]]
  /\ token' = [n \in Paths |-> token[n] \cap InUse(Procs \ {p}, n)]
  /\ leaked' = [n \in Paths |-> {f \in leaked[n] : owner[n][f] # p}]
  /\ torn' = torn \cup {n \in Paths : pc[p] = "token" /\ Leaving(p, n)}
  /\ fd' = [fd EXCEPT ![p] = 0]
  /\ fds' = [fds EXCEPT ![p] = [n \in Paths |-> 0]]
  /\ todo' = [todo EXCEPT ![p] = {}]
  /\ Fresh(p)
  /\ UNCHANGED link

Step(p) == \/ OpenLockFile(p) \/ LockFile(p) \/ LockBusy(p) \/ CheckStale(p)
           \/ Finish(p) \/ Unlink(p) \/ WriteToken(p) \/ Close(p) \/ Unlocked(p)

Act(p) == LockPaths(p) \/ Step(p) \/ Interrupt(p) \/ TokenFails(p) \/ Die(p)

Next == \E p \in Procs : Act(p)

Spec == Init /\ [][Next]_vars
-----------------------------------------------------------------------------
(* PROPERTIES *)

(* p has the lock of n, and has not begun to delete its file. *)
Holds(p, n) == /\ fds[p][n] # 0
               /\ ~(pc[p] \in {"token", "close"} /\ Leaving(p, n))

(* Two processes never hold the lock of one path at a time, although lock  *)
(* files are deleted while others wait for them, unless a process did not  *)
(* get past the first of the two steps of deleteLockFile for this very     *)
(* path (lines 33-34), by its death or by an exception: then a waiting     *)
(* process locks a file that has no name any more.                         *)
ExclusiveUnlessTorn ==
  \A p, q \in Procs, n \in Paths :
     p # q /\ Holds(p, n) /\ Holds(q, n) => n \in torn

(* With the lock files hidden, every step is a step of the lock in         *)
(* PathLock or leaves it alone: the lock of a path is taken only when it   *)
(* is free, and lost only by its holder's own step, exception or death.    *)
Lock == INSTANCE PathLock WITH holders <- [n \in Paths |-> {p \in Procs : Holds(p, n)}]

ImplementsPathLock == Lock!LSpec

(* What is deleted is the deleter's own lock file: as long as no deletion  *)
(* of this path was torn, a name disappears only while its file is locked  *)
(* by a process that goes on to write the token.                           *)
DeletesOwnFile ==
  [][\A n \in Paths : link[n] # 0 /\ link'[n] = 0 /\ n \notin torn' =>
       \E p \in Procs : owner[n][link[n]] = p /\ fds[p][n] = link[n] /\ pc'[p] = "token"]_vars

(* Why ExclusiveUnlessTorn holds.  Who has a lock has the flock, and so    *)
(* has who looks at the size of the file; the file of a lock is the one    *)
(* its path names, unless the holder is deleting it; and a file that was   *)
(* opened and is not the named one any more has the token, or is in the    *)
(* hands of the process that is about to write it.                         *)
Deleting(p, n) == pc[p] \in {"token", "close"} /\ Leaving(p, n)

FlockHeld ==
  \A p \in Procs, n \in Paths :
     /\ fds[p][n] # 0 => owner[n][fds[p][n]] = p /\ n \notin todo[p]
     /\ pc[p] = "check" /\ Current(p, n) => owner[n][fd[p]] = p
     /\ pc[p] = "close" /\ Leaving(p, n) => fds[p][n] \in token[n]
     /\ n \in closed[p] => fds[p][n] = 0

HolderNamed ==
  \A p \in Procs, n \in Paths :
     n \notin torn /\ fds[p][n] # 0 => link[n] = fds[p][n] \/ Deleting(p, n)

OpenedKnown ==
  \A p \in Procs, n \in Paths :
     n \notin torn /\ fd[p] # 0 /\ Current(p, n) =>
        \/ fd[p] = link[n]
        \/ fd[p] \in token[n]
        \/ \E q \in Procs : pc[q] = "token" /\ Leaving(q, n) /\ fds[q][n] = fd[p]

LockInv == TypeOK /\ FlockHeld /\ HolderNamed /\ OpenedKnown

(* The sorted order keeps processes from waiting for each other in a       *)
(* circle: if p waits for the flock on a file of path n that q has, and q  *)
(* waits itself, then at a path after n (lines 82 and 100).  A process     *)
(* never waits for itself either, although it opens the lock file again    *)
(* after it has locked one that was deleted.  A flock that a failed unlock *)
(* left behind is different: its process may wait for it itself.           *)
WaitsAt(p, n) == pc[p] = "lock" /\ Current(p, n) /\ owner[n][fd[p]] # None

WaitsForward ==
  \A p, q \in Procs, n, m \in Paths :
     /\ WaitsAt(p, n) /\ owner[n][fd[p]] = q /\ fd[p] \notin leaked[n]
     /\ WaitsAt(q, m)
     => n < m

(* Why: who has a flock has the file of a path it has locked, or the one   *)
(* it is about to look at, or has left it open; and what it has locked     *)
(* comes before what it has still to lock.                                 *)
FlockOpen ==
  \A p \in Procs, n \in Paths, f \in Files :
     owner[n][f] = p =>
        \/ fds[p][n] = f \/ f \in leaked[n]
        \/ pc[p] \in {"check", "open"} /\ fd[p] = f /\ Current(p, n)

LockedInOrder ==
  \A p \in Procs, n, m \in Paths : fds[p][n] # 0 /\ m \in todo[p] => n < m

OrderInv == LockInv /\ FlockOpen /\ LockedInOrder
=============================================================================
