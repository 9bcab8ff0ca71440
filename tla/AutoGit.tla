------------------------------- MODULE AutoGit -------------------------------
(***************************************************************************)
(* Developers, or build machines, that run auto_git.sh in clones of one    *)
(* remote repository.  A branch is the set of the commits reachable from   *)
(* its tip; a branch that does not exist is the empty set.  One action is  *)
(* one git command of the script (two where nothing can come between); the *)
(* script runs under "set -e", so a command that fails ends the run and    *)
(* leaves the clone as it is.  What git does is modelled as the script     *)
(* relies on it: a push is accepted only as a fast forward.                *)
(***************************************************************************)
EXTENDS Naturals, FiniteSets

CONSTANTS
  Devs,          \* clones
  HasKeys,       \* those with the SSH key pair in ~/.ssh
  Reconciling,   \* those whose git config tells pull to merge
  MaxClock,      \* bound: seconds that pass
  MaxRuns        \* bound: runs of the script

ASSUME AutoGitAssumption ==
  /\ HasKeys \subseteq Devs /\ Reconciling \subseteq Devs
  /\ MaxClock \in Nat \ {0} /\ MaxRuns \in Nat

main == 0
Branches == 0 .. MaxClock   \* 0 is main, t the feature branch of second t

VARIABLES
  clock,    \* date +%Y%m%d%H%M%S
  runs,     \* runs started so far
  made,     \* commits 1 .. made exist, next to the root commit 0
  remote,   \* the branches of origin
  local,    \* the branches of each clone
  head,     \* the branch that is checked out
  dirty,    \* the clone has changes that are not committed
  merging,  \* MERGE_HEAD: what a merge stopped at a conflict was to bring in
  pc,       \* the next command of the run
  name,     \* FEATURE_BRANCH, main when there is no run
  mine,     \* observer: commits of the changes this run has committed
  own       \* observer: commits each clone has made

vars == <<clock, runs, made, remote, local, head, dirty, merging, pc, name, mine,
          own>>

Labels == {"idle", "commit", "pushBranch", "checkoutMain", "pull", "merge",
           "pushMain", "deleteLocal", "deleteRemote"}

TypeVars ==
  /\ clock \in 1 .. MaxClock
  /\ runs \in Nat /\ made \in Nat
  /\ remote \in [Branches -> SUBSET (0 .. made)]
  /\ local \in [Devs -> [Branches -> SUBSET (0 .. made)]]
  /\ head \in [Devs -> Branches]
  /\ dirty \in [Devs -> BOOLEAN]
  /\ merging \in [Devs -> SUBSET (0 .. made)]
  /\ pc \in [Devs -> Labels]
  /\ name \in [Devs -> Branches]
  /\ mine \in [Devs -> SUBSET (0 .. made)]
  /\ own \in [Devs -> SUBSET (0 .. made)]

MergeStopped == \A d \in Devs : pc[d] # "idle" => merging[d] = {}

(* The types; and no run is at work in a clone whose merge has stopped at  *)
(* a conflict.                                                             *)
TypeOK == TypeVars /\ MergeStopped

(* Fresh clones of a repository with one commit on main. *)
Init ==
  /\ clock = 1 /\ runs = 0 /\ made = 0
  /\ remote = [b \in Branches |-> IF b = main THEN {0} ELSE {}]
  /\ local = [d \in Devs |-> [b \in Branches |-> IF b = main THEN {0} ELSE {}]]
  /\ head = [d \in Devs |-> main]
  /\ dirty = [d \in Devs |-> FALSE]
  /\ merging = [d \in Devs |-> {}]
  /\ pc = [d \in Devs |-> "idle"]
  /\ name = [d \in Devs |-> main]
  /\ mine = [d \in Devs |-> {}]
  /\ own = [d \in Devs |-> {}]

Goto(d, label) == /\ pc' = [pc EXCEPT ![d] = label]
                  /\ UNCHANGED <<name, mine>>

(* The run is over, and its variables with it. *)
Exit(d) == /\ pc' = [pc EXCEPT ![d] = "idle"]
           /\ name' = [name EXCEPT ![d] = main]
           /\ mine' = [mine EXCEPT ![d] = {}]

(* A new commit of d: the next number. *)
NewCommit(d) == made' = made + 1 /\ own' = [own EXCEPT ![d] = @ \cup {made + 1}]

SetMain(d, commits) == local' = [local EXCEPT ![d][main] = commits]

-----------------------------------------------------------------------------
(* Around the script. *)

Tick ==
  /\ clock < MaxClock
  /\ clock' = clock + 1
  /\ UNCHANGED <<runs, made, own, remote, local, head, dirty, merging, pc, name, mine>>

(* A change in the working tree, between two runs. *)
Edit(d) ==
  /\ pc[d] = "idle" /\ ~dirty[d] /\ merging[d] = {}
  /\ dirty' = [dirty EXCEPT ![d] = TRUE]
  /\ UNCHANGED <<clock, runs, made, own, remote, local, head, merging, pc, name, mine>>

(* The network or the user ends the run at any command. *)
Abort(d) ==
  /\ pc[d] # "idle"
  /\ Exit(d)
  /\ UNCHANGED <<clock, runs, made, own, remote, local, head, dirty, merging>>

(* Somebody ends a conflicting merge by hand, with --abort or by resolving *)
(* it and committing: nothing in the script does.                          *)
GiveUpMerge(d) ==
  /\ merging[d] # {}
  /\ merging' = [merging EXCEPT ![d] = {}]
  /\ UNCHANGED <<clock, runs, made, own, remote, local, head, dirty, pc, name, mine>>

ConcludeMerge(d) ==
  /\ merging[d] # {}
  /\ merging' = [merging EXCEPT ![d] = {}]
  /\ NewCommit(d)
  /\ SetMain(d, local[d][main] \cup merging[d] \cup {made + 1})
  /\ UNCHANGED <<clock, runs, remote, head, dirty, pc, name, mine>>

-----------------------------------------------------------------------------
(* The script. *)

(* Lines 8-19: the branch starts at whatever is checked out.  A clone in   *)
(* the middle of a merge cannot check out, and the run ends at once.       *)
CreateBranch(d) ==
  /\ pc[d] = "idle" /\ merging[d] = {} /\ runs < MaxRuns
  /\ runs' = runs + 1
  /\ name' = [name EXCEPT ![d] = clock]
  /\ head' = [head EXCEPT ![d] = clock]
  /\ local' = [local EXCEPT ![d][clock] =
                 IF local[d][clock] = {} THEN local[d][head[d]] ELSE @]
  /\ pc' = [pc EXCEPT ![d] = "commit"]
  /\ UNCHANGED <<clock, made, own, remote, dirty, merging, mine>>

(* Lines 21-29: all changes become one commit, if there are any. *)
CommitChanges(d) ==
  /\ pc[d] = "commit" /\ dirty[d]
  /\ NewCommit(d)
  /\ local' = [local EXCEPT ![d][name[d]] = @ \cup {made + 1}]
  /\ mine' = [mine EXCEPT ![d] = {made + 1}]
  /\ dirty' = [dirty EXCEPT ![d] = FALSE]
  /\ pc' = [pc EXCEPT ![d] = "pushBranch"]
  /\ UNCHANGED <<clock, runs, remote, head, merging, name>>

NoChanges(d) ==
  /\ pc[d] = "commit" /\ ~dirty[d]
  /\ Goto(d, "pushBranch")
  /\ UNCHANGED <<clock, runs, made, own, remote, local, head, dirty, merging>>

(* Lines 31-49: the reference hashes are assigned from the hashes they are *)
(* compared with; a missing key file hashes to the empty string, twice.    *)
(* Lines 67-75, the branch without a push, are therefore never reached.    *)
KeyHash(d) == IF d \in HasKeys THEN "sha256" ELSE ""
RefHash(d) == KeyHash(d)
KeysMatch(d) == KeyHash(d) = RefHash(d)

FastForward(old, new) == old \subseteq new

PushTo(d, branch, step, next, allowed) ==
  /\ pc[d] = step
  /\ IF allowed
     THEN remote' = [remote EXCEPT ![branch] = local[d][branch]] /\ Goto(d, next)
     ELSE Exit(d) /\ UNCHANGED remote
  /\ UNCHANGED <<clock, runs, made, own, local, head, dirty, merging>>

(* Line 52. *)
PushBranch(d) ==
  /\ KeysMatch(d)
  /\ PushTo(d, name[d], "pushBranch", "checkoutMain",
            FastForward(remote[name[d]], local[d][name[d]]))

(* Line 55. *)
CheckoutMain(d) ==
  /\ pc[d] = "checkoutMain"
  /\ head' = [head EXCEPT ![d] = main]
  /\ Goto(d, "pull")
  /\ UNCHANGED <<clock, runs, made, own, remote, local, dirty, merging>>

Diverged(d) == /\ ~(remote[main] \subseteq local[d][main])
               /\ ~(local[d][main] \subseteq remote[main])

(* Line 56, git pull: fast forward if possible. *)
Pull_reset(d) ==
  /\ pc[d] = "pull"
  /\ SetMain(d, remote[main]) /\ Goto(d, "merge")
  /\ UNCHANGED <<clock, runs, made, own, remote, head, dirty, merging>>

Pull(d) ==
  /\ pc[d] = "pull" /\ ~Diverged(d)
  /\ SetMain(d, local[d][main] \cup remote[main])
  /\ Goto(d, "merge")
  /\ UNCHANGED <<clock, runs, made, own, remote, head, dirty, merging>>

(* git pull on diverged branches ends the run, unless the configuration    *)
(* says how to reconcile them; then it merges, or stops at a conflict.     *)
PullDiverged(d) ==
  /\ pc[d] = "pull" /\ Diverged(d)
  /\ \/ d \notin Reconciling /\ Exit(d)
        /\ UNCHANGED <<made, own, local, merging>>
     \/ d \in Reconciling
        /\ NewCommit(d)
        /\ SetMain(d, local[d][main] \cup remote[main] \cup {made + 1})
        /\ Goto(d, "merge") /\ UNCHANGED merging
     \/ d \in Reconciling /\ merging' = [merging EXCEPT ![d] = remote[main]]
        /\ Exit(d) /\ UNCHANGED <<made, own, local>>
  /\ UNCHANGED <<clock, runs, remote, head, dirty>>

(* Line 57, git merge --no-ff: nothing to do, a merge commit, or a conflict. *)
MergeThen(d, Stop) ==
  /\ pc[d] = "merge"
  /\ LET feature == local[d][name[d]] IN
     \/ feature \subseteq local[d][main] /\ Goto(d, "pushMain")
        /\ UNCHANGED <<made, own, local, merging>>
     \/ ~(feature \subseteq local[d][main])
        /\ NewCommit(d)
        /\ SetMain(d, local[d][main] \cup feature \cup {made + 1})
        /\ Goto(d, "pushMain") /\ UNCHANGED merging
     \/ ~(feature \subseteq local[d][main]) /\ ~(local[d][main] \subseteq feature)
        /\ merging' = [merging EXCEPT ![d] = feature]
        /\ Stop /\ UNCHANGED <<made, own, local>>
  /\ UNCHANGED <<clock, runs, remote, head, dirty>>

Merge_skip(d) ==
  /\ pc[d] = "merge"
  /\ Goto(d, "pushMain")
  /\ UNCHANGED <<clock, runs, made, own, remote, local, head, dirty, merging>>

Merge_orTrue(d) == MergeThen(d, Goto(d, "pushMain"))
Merge(d) == MergeThen(d, Exit(d))

(* Line 60. *)
PushMain_force(d) == PushTo(d, main, "pushMain", "deleteLocal", TRUE)
PushMain(d) == PushTo(d, main, "pushMain", "deleteLocal",
                      FastForward(remote[main], local[d][main]))

(* Lines 63-64: branch -d refuses a branch that is not merged into HEAD. *)
DeleteLocal(d) ==
  /\ pc[d] = "deleteLocal"
  /\ IF local[d][name[d]] \subseteq local[d][head[d]]
     THEN local' = [local EXCEPT ![d][name[d]] = {}] /\ Goto(d, "deleteRemote")
     ELSE Exit(d) /\ UNCHANGED local
  /\ UNCHANGED <<clock, runs, made, own, remote, head, dirty, merging>>

(* Line 65: the remote branch goes, whatever it points to by now. *)
DeleteRemote(d) ==
  /\ pc[d] = "deleteRemote"
  /\ remote' = [remote EXCEPT ![name[d]] = {}]
  /\ Exit(d)
  /\ UNCHANGED <<clock, runs, made, own, local, head, dirty, merging>>

-----------------------------------------------------------------------------
Run(d) == \/ CreateBranch(d) \/ CommitChanges(d) \/ NoChanges(d)
          \/ PushBranch(d) \/ CheckoutMain(d) \/ Pull(d) \/ PullDiverged(d)
          \/ Merge(d) \/ PushMain(d) \/ DeleteLocal(d) \/ DeleteRemote(d)

Next == Tick \/ \E d \in Devs : 
                   \/ Edit(d) \/ Abort(d) \/ GiveUpMerge(d) \/ ConcludeMerge(d)
                   \/ Run(d)

Spec == Init /\ [][Next]_vars

-----------------------------------------------------------------------------
(* PROPERTIES *)

(* Nothing the script does ever takes a commit off the remote's main, in   *)
(* any interleaving of its runs (line 60 pushes without force).            *)
MainOnlyGrows == [][remote[main] \subseteq remote'[main]]_vars

(* A commit is never lost: whatever runs are cut short, the remote's main  *)
(* or some branch of a clone reaches it (line 64 deletes a branch only     *)
(* when main has it, line 65 comes only after line 60).                    *)
NoCommitLost ==
  \A c \in 0 .. made :
     c \in remote[main] \/ \E d \in Devs, b \in Branches : c \in local[d][b]

(* A run that gets as far as the cleanup (lines 63-66) has delivered: what *)
(* it committed, and all of its main, is in the remote's main.             *)
RunDelivers ==
  \A d \in Devs : pc[d] \in {"deleteLocal", "deleteRemote"} =>
                     mine[d] \cup local[d][main] \subseteq remote[main]

StaysDiverged == \A d \in Devs \ Reconciling : Diverged(d) => Diverged(d)'

(* A run that loses the race for main (line 60 refused) cannot recover by  *)
(* being run again: without a reconciling git configuration its main and   *)
(* the remote's stay diverged for good, and line 56 ends every later run.  *)
(* It is how PullNeedsNobody fails, and why nothing but a person repairs   *)
(* it.                                                                     *)
DivergenceIsPermanent == [][StaysDiverged]_vars

(* UPDATED_WORKFLOW.md:38: "No manual intervention required", and          *)
(* GIT_WORKFLOW.md:16: "the system proceeds automatically".  A run that    *)
(* has come to the pull gets past it without a person.                     *)
PullNeedsNobody ==
  \A d \in Devs : pc[d] = "pull" => ~Diverged(d) \/ d \in Reconciling

(* GIT_WORKFLOW.md: "After merging, obsolete branches are deleted": a      *)
(* branch of the remote goes only when the remote's main has its commits.  *)
(* Two runs of one second share a branch name and break it.                *)
DeletedAfterMerging ==
  [][\A b \in Branches : remote'[b] = {} => remote[b] \subseteq remote'[main]]_vars

=============================================================================
