------------------------------- MODULE PathLock -------------------------------
(***************************************************************************)
(* What the locks on store paths promise, without the lock files: who has  *)
(* the lock of a path, and which paths the promise does not cover, because *)
(* a process died, or met an error, while it was deleting their lock file. *)
(* NixPathLocks implements it (libstore/unix/pathlocks.cc).                *)
(***************************************************************************)
CONSTANTS Procs, Paths

VARIABLES holders,   \* of each path, the processes that have its lock
          torn       \* paths whose lock may have several holders

lvars == <<holders, torn>>

LInit == holders = [n \in Paths |-> {}] /\ torn = {}

(* A lock is taken for oneself, one path at a time, when it is free. *)
Acquire(p, n) ==
  /\ holders[n] = {} \/ (n \in torn /\ p \notin holders[n])
  /\ holders' = [holders EXCEPT ![n] = @ \cup {p}]
  /\ UNCHANGED torn

(* It is given back by who has it, one path at a time, ... *)
GiveBack(p, n) ==
  /\ p \in holders[n]
  /\ holders' = [holders EXCEPT ![n] = @ \ {p}]
  /\ UNCHANGED torn

(* ... or all at once when the process dies or an error ends its unlock.   *)
(* This tears at most two paths, and never one whose lock it still has.    *)
Lose(p) ==
  /\ holders' = [n \in Paths |-> holders[n] \ {p}]
  /\ \/ UNCHANGED torn
     \/ \E n, m \in Paths : /\ p \notin holders[n] \cup holders[m]
                            /\ torn' = torn \cup {n, m}

(* An error while a lock file is deleted, after which p tries again. *)
Tear(p, n) ==
  /\ p \notin holders[n]
  /\ torn' = torn \cup {n}
  /\ UNCHANGED holders

LNext == \E p \in Procs : \/ \E n \in Paths : \/ Acquire(p, n) \/ GiveBack(p, n)
                                             \/ Tear(p, n)
                          \/ Lose(p)

LSpec == LInit /\ [][LNext]_lvars
=============================================================================
