--------------------------- MODULE MC_NixPathLocks ---------------------------
(* Two processes that lock and release two store paths, without a bound on *)
(* the number of calls: a process that has deleted a lock file creates the *)
(* next one while the other still waits for the deleted one.               *)
EXTENDS NixPathLocks, TLC

(* Nothing tells the processes apart: sound for what is not liveness. *)
Alike == Permutations(Procs)
=============================================================================
