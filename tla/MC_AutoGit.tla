----------------------------- MODULE MC_AutoGit -----------------------------
(* Two clones, one of them with a git configuration that reconciles, two   *)
(* seconds, so that runs share a branch name or not, and four runs of the  *)
(* script: each clone can lose a race, and try again afterwards.           *)
EXTENDS AutoGit, TLC

CONSTANTS alice, bob
=============================================================================
