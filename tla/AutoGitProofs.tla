---------------------------- MODULE AutoGitProofs ----------------------------
(***************************************************************************)
(* Proofs about AutoGit, for any set of clones, any number of runs and     *)
(* seconds.  The invariant has two halves: where a run keeps what it has   *)
(* committed (InRun, RunDelivers, NoCommitLost), and who can know of a     *)
(* commit (Known): a clone sees commits of others only through the main of *)
(* the remote.                                                             *)
(***************************************************************************)
EXTENDS AutoGit, TLAPS

AfterCheckout == {"pull", "merge", "pushMain", "deleteLocal", "deleteRemote"}

(* A run works on a feature branch, which has its commits until main has. *)
InRun ==
  \A d \in Devs :
    /\ pc[d] # "idle" => name[d] # main /\ merging[d] = {}
    /\ pc[d] = "idle" => mine[d] = {}
    /\ pc[d] \in AfterCheckout => head[d] = main
    /\ pc[d] \in {"commit", "pushBranch", "checkoutMain", "pull", "merge"}
         => mine[d] \subseteq local[d][name[d]]
    /\ pc[d] = "pushMain" => mine[d] \subseteq local[d][main]

(* Numbers of commits are given once, to one clone. *)
OwnDisjoint ==
  \A d, e \in Devs : d # e => own[d] \cap own[e] = {}

(* What a clone has that it did not make is in the remote's main; what of  *)
(* its own is in the remote's main is in its main too; and what its main   *)
(* does not have it made itself.                                           *)
Known ==
  \A d \in Devs :
    /\ \A b \in Branches : local[d][b] \subseteq own[d] \cup remote[main]
    /\ merging[d] \subseteq own[d] \cup remote[main]
    /\ own[d] \cap remote[main] \subseteq local[d][main]
    /\ \A b \in Branches : local[d][b] \subseteq own[d] \cup local[d][main]
    /\ d \notin Reconciling => merging[d] \subseteq own[d] \cup local[d][main]

IInv == TypeOK /\ InRun /\ RunDelivers /\ NoCommitLost /\ OwnDisjoint /\ Known
-----------------------------------------------------------------------------
(* main, and the feature branch of each second, are different branches. *)
LEMMA BranchesFact == main \in Branches /\ \A t \in 1 .. MaxClock : t \in Branches /\ t # main
BY AutoGitAssumption DEF main, Branches

(* Fresh clones satisfy the invariant. *)
LEMMA InitIInv == Init => IInv
<1> SUFFICES ASSUME Init PROVE IInv
  OBVIOUS
<1>1. TypeOK
  BY BranchesFact, AutoGitAssumption DEF Init, TypeOK, TypeVars, MergeStopped, Labels, main
<1>2. InRun /\ RunDelivers /\ OwnDisjoint
  BY BranchesFact DEF Init, InRun, RunDelivers, OwnDisjoint, AfterCheckout
<1>3. NoCommitLost
  BY BranchesFact DEF Init, NoCommitLost
<1>4. Known
  BY BranchesFact DEF Init, Known
<1> QED BY <1>1, <1>2, <1>3, <1>4 DEF IInv

(* One branch of one clone is replaced. *)
LEMMA SetBranchType ==
  ASSUME NEW S, NEW f \in [Devs -> [Branches -> S]],
         NEW d \in Devs, NEW b \in Branches, NEW v \in S
  PROVE  [f EXCEPT ![d][b] = v] \in [Devs -> [Branches -> S]]
<1>1. [f[d] EXCEPT ![b] = v] \in [Branches -> S]
  OBVIOUS
<1> QED BY <1>1

(* What is typed against the commits made so far stays so after one more. *)
LEMMA Widen ==
  ASSUME TypeOK, NEW d \in Devs, NewCommit(d)
  PROVE  /\ made' = made + 1 /\ made' \in Nat
         /\ made + 1 \in 0 .. made' /\ made + 1 \notin 0 .. made
         /\ remote \in [Branches -> SUBSET (0 .. made')]
         /\ local \in [Devs -> [Branches -> SUBSET (0 .. made')]]
         /\ merging \in [Devs -> SUBSET (0 .. made')]
         /\ mine \in [Devs -> SUBSET (0 .. made')]
         /\ own' \in [Devs -> SUBSET (0 .. made')]
<1>1. made' = made + 1 /\ made \in Nat
  BY DEF TypeOK, TypeVars, NewCommit
<1>2. 0 .. made \subseteq 0 .. made' /\ made + 1 \in 0 .. made' /\ made + 1 \notin 0 .. made
  BY <1>1
<1>3. SUBSET (0 .. made) \subseteq SUBSET (0 .. made')
  BY <1>2
<1> HIDE <1>2
<1>4. own \in [Devs -> SUBSET (0 .. made')]
  BY <1>3 DEF TypeOK, TypeVars
<1>5. own[d] \cup {made + 1} \in SUBSET (0 .. made')
  BY <1>2, <1>4
<1>6. own' \in [Devs -> SUBSET (0 .. made')]
  BY <1>4, <1>5 DEF NewCommit
<1>7. local \in [Devs -> [Branches -> SUBSET (0 .. made')]]
  BY <1>3 DEF TypeOK, TypeVars
<1>8. /\ remote \in [Branches -> SUBSET (0 .. made')]
      /\ merging \in [Devs -> SUBSET (0 .. made')]
      /\ mine \in [Devs -> SUBSET (0 .. made')]
  BY <1>3 DEF TypeOK, TypeVars
<1> QED BY <1>1, <1>2, <1>6, <1>7, <1>8

(* The end of a command keeps the types of the variables of the run. *)
LEMMA EndType ==
  ASSUME TypeOK, NEW d \in Devs, NEW label \in Labels,
         Exit(d) \/ Goto(d, label)
  PROVE  /\ pc' \in [Devs -> Labels] /\ name' \in [Devs -> Branches]
         /\ mine' \in [Devs -> SUBSET (0 .. made)]
<1>1. "idle" \in Labels
  BY DEF Labels
<1>2. CASE Exit(d)
  BY <1>1, <1>2, BranchesFact DEF TypeOK, TypeVars, Exit
<1>3. CASE Goto(d, label)
  BY <1>3 DEF TypeOK, TypeVars, Goto
<1> QED BY <1>2, <1>3

(* Every git command keeps the types. *)
LEMMA StepTypeVars == TypeOK /\ [Next]_vars => TypeVars'
<1> SUFFICES ASSUME TypeOK, [Next]_vars PROVE TypeVars'
  OBVIOUS
<1> USE BranchesFact DEF TypeOK, TypeVars
<1>1. CASE Tick
  BY <1>1, AutoGitAssumption DEF Tick
<1>2. CASE UNCHANGED vars
  BY <1>2 DEF vars
<1>3. ASSUME NEW d \in Devs,
             Edit(d) \/ Abort(d) \/ GiveUpMerge(d) \/ ConcludeMerge(d) \/ Run(d)
      PROVE  TypeVars'
  <2> USE <1>3 DEF Goto, Exit, Labels
  <2>1. CASE Edit(d)
    BY <2>1 DEF Edit
  <2>2. CASE Abort(d)
    BY <2>2 DEF Abort
  <2>3. CASE GiveUpMerge(d)
    BY <2>3 DEF GiveUpMerge
  <2>4. CASE ConcludeMerge(d)
    <3>1. NewCommit(d) /\ SetMain(d, local[d][main] \cup merging[d] \cup {made + 1})
      BY <2>4 DEF ConcludeMerge
    <3>2. local[d][main] \cup merging[d] \cup {made + 1} \in SUBSET (0 .. made')
      BY <3>1, Widen
    <3>3. local' \in [Devs -> [Branches -> SUBSET (0 .. made')]]
      BY <3>1, <3>2, Widen, SetBranchType DEF SetMain
    <3> QED BY <2>4, <3>1, <3>3, Widen DEF ConcludeMerge
  <2>5. CASE CreateBranch(d)
    BY <2>5 DEF CreateBranch
  <2>6. CASE CommitChanges(d)
    <3>1. NewCommit(d)
      BY <2>6 DEF CommitChanges
    <3>2. /\ local[d][name[d]] \cup {made + 1} \in SUBSET (0 .. made')
          /\ {made + 1} \in SUBSET (0 .. made')
      BY <3>1, Widen
    <3>3. local' \in [Devs -> [Branches -> SUBSET (0 .. made')]]
      <4>1. local' = [local EXCEPT ![d][name[d]] = local[d][name[d]] \cup {made + 1}]
        BY <2>6 DEF CommitChanges
      <4> QED BY <4>1, <3>1, <3>2, Widen, SetBranchType
    <3> QED BY <2>6, <3>1, <3>2, <3>3, Widen DEF CommitChanges
  <2>7. CASE NoChanges(d)
    BY <2>7 DEF NoChanges
  <2>8. CASE PushBranch(d)
    <3>1. remote' \in [Branches -> SUBSET (0 .. made)]
      BY <2>8 DEF PushBranch, PushTo
    <3>2. /\ pc' \in [Devs -> Labels]
          /\ name' \in [Devs -> Branches]
          /\ mine' \in [Devs -> SUBSET (0 .. made)]
      BY <2>8 DEF PushBranch, PushTo
    <3> QED BY <2>8, <3>1, <3>2 DEF PushBranch, PushTo
  <2>9. CASE CheckoutMain(d)
    BY <2>9 DEF CheckoutMain
  <2>10. CASE Pull(d)
    BY <2>10 DEF Pull, SetMain
  <2>11. CASE PullDiverged(d)
    <3>1. ASSUME NewCommit(d), Goto(d, "merge"), UNCHANGED merging,
                 SetMain(d, local[d][main] \cup remote[main] \cup {made + 1})
          PROVE  TypeVars'
      <4>1. local[d][main] \cup remote[main] \cup {made + 1} \in SUBSET (0 .. made')
        BY <3>1, Widen
      <4>2. local' \in [Devs -> [Branches -> SUBSET (0 .. made')]]
        BY <3>1, <4>1, Widen, SetBranchType DEF SetMain
      <4> QED BY <2>11, <3>1, <4>2, Widen DEF PullDiverged
    <3>2. ASSUME UNCHANGED <<made, own, local>>
          PROVE  TypeVars'
      <4>1. /\ pc' \in [Devs -> Labels] /\ name' \in [Devs -> Branches]
            /\ mine' \in [Devs -> SUBSET (0 .. made)]
        <5> HIDE DEF Goto, Exit, TypeOK, TypeVars
        <5>1. Exit(d) \/ Goto(d, "merge")
          BY <2>11 DEF PullDiverged
        <5>2. "merge" \in Labels
          BY DEF Labels
        <5> QED BY <5>1, <5>2, EndType
      <4>2. remote[main] \in SUBSET (0 .. made)
        OBVIOUS
      <4>3. merging' = merging \/ merging' = [merging EXCEPT ![d] = remote[main]]
        BY <2>11, <3>2 DEF PullDiverged
      <4>4. merging' \in [Devs -> SUBSET (0 .. made)]
        BY <4>2, <4>3
      <4> QED BY <2>11, <3>2, <4>1, <4>4 DEF PullDiverged
    <3> QED BY <2>11, <3>1, <3>2 DEF PullDiverged
  <2>12. CASE Merge(d)
    <3>1. ASSUME NewCommit(d), Goto(d, "pushMain"), UNCHANGED merging,
                 SetMain(d, local[d][main] \cup local[d][name[d]] \cup {made + 1})
          PROVE  TypeVars'
      <4>1. local[d][main] \cup local[d][name[d]] \cup {made + 1} \in SUBSET (0 .. made')
        BY <3>1, Widen
      <4>2. local' \in [Devs -> [Branches -> SUBSET (0 .. made')]]
        BY <3>1, <4>1, Widen, SetBranchType DEF SetMain
      <4> QED BY <2>12, <3>1, <4>2, Widen DEF Merge, MergeThen
    <3>2. ASSUME UNCHANGED <<made, own, local>>
          PROVE  TypeVars'
      <4>1. /\ pc' \in [Devs -> Labels] /\ name' \in [Devs -> Branches]
            /\ mine' \in [Devs -> SUBSET (0 .. made)]
        <5> HIDE DEF Goto, Exit, TypeOK, TypeVars
        <5>1. Exit(d) \/ Goto(d, "pushMain")
          BY <2>12 DEF Merge, MergeThen
        <5>2. "pushMain" \in Labels
          BY DEF Labels
        <5> QED BY <5>1, <5>2, EndType
      <4>2. local[d][name[d]] \in SUBSET (0 .. made)
        OBVIOUS
      <4>3. merging' = merging \/ merging' = [merging EXCEPT ![d] = local[d][name[d]]]
        BY <2>12, <3>2 DEF Merge, MergeThen
      <4>4. merging' \in [Devs -> SUBSET (0 .. made)]
        BY <4>2, <4>3
      <4> QED BY <2>12, <3>2, <4>1, <4>4 DEF Merge, MergeThen
    <3> QED BY <2>12, <3>1, <3>2 DEF Merge, MergeThen
  <2>13. CASE PushMain(d)
    <3>0. remote' = remote \/ remote' = [remote EXCEPT ![main] = local[d][main]]
      BY <2>13 DEF PushMain, PushTo
    <3>1. remote' \in [Branches -> SUBSET (0 .. made)]
      BY <3>0
    <3>2. /\ pc' \in [Devs -> Labels]
          /\ name' \in [Devs -> Branches]
          /\ mine' \in [Devs -> SUBSET (0 .. made)]
      BY <2>13 DEF PushMain, PushTo
    <3> QED BY <2>13, <3>1, <3>2 DEF PushMain, PushTo
  <2>14. CASE DeleteLocal(d)
    <3>1. CASE UNCHANGED local
      BY <2>14, <3>1 DEF DeleteLocal
    <3>2. CASE local' = [local EXCEPT ![d][name[d]] = {}]
      <4>1. local' \in [Devs -> [Branches -> SUBSET (0 .. made)]]
        BY <3>2, SetBranchType
      <4> QED BY <2>14, <4>1 DEF DeleteLocal
    <3> QED BY <2>14, <3>1, <3>2 DEF DeleteLocal
  <2>15. CASE DeleteRemote(d)
    BY <2>15 DEF DeleteRemote
  <2> QED BY <2>1, <2>2, <2>3, <2>4, <2>5, <2>6, <2>7, <2>8, <2>9, <2>10,
             <2>11, <2>12, <2>13, <2>14, <2>15 DEF Run
<1> QED BY <1>1, <1>2, <1>3 DEF Next

(* A replaced branch, read back. *)
LEMMA SetBranchValue ==
  ASSUME NEW S, NEW f \in [Devs -> [Branches -> S]],
         NEW d \in Devs, NEW b \in Branches, NEW v,
         NEW g, g = [f EXCEPT ![d][b] = v]
  PROVE  /\ g[d][b] = v
         /\ \A c \in Branches : c # b => g[d][c] = f[d][c]
         /\ \A e \in Devs : e # d => g[e] = f[e]
OBVIOUS

(* Only a push changes main on the remote, and only by a fast forward. *)
LEMMA MainGrows ==
  TypeOK /\ InRun /\ [Next]_vars => remote[main] \subseteq remote'[main]
<1> SUFFICES ASSUME TypeOK, InRun, [Next]_vars PROVE remote[main] \subseteq remote'[main]
  OBVIOUS
<1> USE BranchesFact DEF TypeOK, TypeVars, InRun
<1>1. CASE Tick \/ UNCHANGED vars
  BY <1>1 DEF Tick, vars
<1>2. ASSUME NEW d \in Devs,
             Edit(d) \/ Abort(d) \/ GiveUpMerge(d) \/ ConcludeMerge(d) \/ Run(d)
      PROVE  remote[main] \subseteq remote'[main]
  <2>1. CASE PushBranch(d)
    <3>1. remote' = remote \/ remote' = [remote EXCEPT ![name[d]] = local[d][name[d]]]
      BY <2>1 DEF PushBranch, PushTo
    <3>2. name[d] # main
      BY <2>1 DEF PushBranch, PushTo
    <3> QED BY <3>1, <3>2
  <2>2. CASE PushMain(d)
    BY <2>2 DEF PushMain, PushTo, FastForward
  <2>3. CASE DeleteRemote(d)
    BY <2>3 DEF DeleteRemote
  <2>4. CASE UNCHANGED remote
    BY <2>4
  <2> QED BY <1>2, <2>1, <2>2, <2>3, <2>4
          DEF Run, Edit, Abort, GiveUpMerge, ConcludeMerge, CreateBranch,
              CommitChanges, NoChanges, CheckoutMain, Pull,
              PullDiverged, Merge, MergeThen, DeleteLocal
<1> QED BY <1>1, <1>2 DEF Next

(* The order of the commands of a run. *)
LEMMA StepInRun == TypeOK /\ InRun /\ [Next]_vars => InRun'
<1> SUFFICES ASSUME TypeOK, InRun, [Next]_vars PROVE InRun'
  OBVIOUS
<1> USE BranchesFact DEF TypeOK, TypeVars, InRun, AfterCheckout
<1>1. CASE Tick \/ UNCHANGED vars
  BY <1>1 DEF Tick, vars
<1>2. ASSUME NEW d \in Devs,
             Edit(d) \/ Abort(d) \/ GiveUpMerge(d) \/ ConcludeMerge(d) \/ Run(d)
      PROVE  InRun'
  <2>1. CASE Edit(d)
    BY <2>1 DEF Edit
  <2>2. CASE Abort(d)
    BY <2>2 DEF Abort, Exit
  <2>3. CASE GiveUpMerge(d)
    BY <2>3 DEF GiveUpMerge
  <2>4. CASE ConcludeMerge(d)
    BY <2>4, SetBranchValue DEF ConcludeMerge, SetMain
  <2>5. CASE CreateBranch(d)
    BY <2>5, SetBranchValue DEF CreateBranch
  <2>6. CASE CommitChanges(d)
    BY <2>6, SetBranchValue DEF CommitChanges
  <2>7. CASE NoChanges(d)
    BY <2>7 DEF NoChanges, Goto
  <2>8. CASE PushBranch(d)
    BY <2>8 DEF PushBranch, PushTo, Goto, Exit
  <2>9. CASE CheckoutMain(d)
    BY <2>9 DEF CheckoutMain, Goto
  <2>10. CASE Pull(d)
    BY <2>10, SetBranchValue DEF Pull, SetMain, Goto
  <2>11. CASE PullDiverged(d)
    <3>1. CASE /\ Goto(d, "merge") /\ UNCHANGED merging
               /\ SetMain(d, local[d][main] \cup remote[main] \cup {made + 1})
      BY <2>11, <3>1, SetBranchValue DEF PullDiverged, SetMain, Goto
    <3>2. CASE Exit(d) /\ UNCHANGED local
      <4>1. \A e \in Devs : e # d => merging'[e] = merging[e]
        BY <2>11, <3>2 DEF PullDiverged
      <4> QED BY <2>11, <3>2, <4>1 DEF PullDiverged, Exit
    <3> QED BY <2>11, <3>1, <3>2 DEF PullDiverged
  <2>12. CASE Merge(d)
    BY <2>12, SetBranchValue DEF Merge, MergeThen, SetMain, Goto, Exit
  <2>13. CASE PushMain(d)
    BY <2>13 DEF PushMain, PushTo, Goto, Exit
  <2>14. CASE DeleteLocal(d)
    BY <2>14, SetBranchValue DEF DeleteLocal, Goto, Exit
  <2>15. CASE DeleteRemote(d)
    BY <2>15 DEF DeleteRemote, Exit
  <2> QED BY <1>2, <2>1, <2>2, <2>3, <2>4, <2>5, <2>6, <2>7, <2>8, <2>9, <2>10,
             <2>11, <2>12, <2>13, <2>14, <2>15 DEF Run
<1> QED BY <1>1, <1>2 DEF Next

(* The types are kept, and a run ends where its merge stops. *)
LEMMA StepTypeOK == TypeOK /\ InRun /\ [Next]_vars => TypeOK'
<1>1. InRun' => MergeStopped'
  BY DEF InRun, MergeStopped
<1> QED BY <1>1, StepTypeVars, StepInRun DEF TypeOK

(* A run that reaches the cleanup has delivered. *)
LEMMA StepDelivers == TypeOK /\ InRun /\ RunDelivers /\ [Next]_vars => RunDelivers'
<1> SUFFICES ASSUME TypeOK, InRun, RunDelivers, [Next]_vars PROVE RunDelivers'
  OBVIOUS
<1>0. remote[main] \subseteq remote'[main]
  BY MainGrows
<1> USE <1>0, BranchesFact DEF TypeOK, TypeVars, RunDelivers
<1>1. CASE Tick \/ UNCHANGED vars
  BY <1>1 DEF Tick, vars
<1>2. ASSUME NEW d \in Devs,
             Edit(d) \/ Abort(d) \/ GiveUpMerge(d) \/ ConcludeMerge(d) \/ Run(d)
      PROVE  RunDelivers'
  <2>1. CASE Edit(d) \/ GiveUpMerge(d)
    BY <2>1 DEF Edit, GiveUpMerge
  <2>2. CASE Abort(d)
    BY <2>2 DEF Abort, Exit
  <2>3. CASE ConcludeMerge(d)
    <3>1. pc[d] = "idle" /\ UNCHANGED <<pc, mine>>
      BY <2>3 DEF ConcludeMerge, InRun
    <3>2. \A e \in Devs : e # d => local'[e] = local[e]
      BY <2>3, SetBranchValue DEF ConcludeMerge, SetMain
    <3> QED BY <3>1, <3>2
  <2>4. CASE CreateBranch(d)
    BY <2>4, SetBranchValue DEF CreateBranch
  <2>5. CASE CommitChanges(d)
    BY <2>5, SetBranchValue DEF CommitChanges
  <2>6. CASE NoChanges(d) \/ CheckoutMain(d)
    BY <2>6 DEF NoChanges, CheckoutMain, Goto
  <2>7. CASE PushBranch(d)
    BY <2>7 DEF PushBranch, PushTo, Goto, Exit
  <2>8. CASE Pull(d)
    BY <2>8, SetBranchValue DEF Pull, SetMain, Goto
  <2>9. CASE PullDiverged(d)
    <3>1. CASE /\ Goto(d, "merge")
               /\ SetMain(d, local[d][main] \cup remote[main] \cup {made + 1})
      BY <2>9, <3>1, SetBranchValue DEF PullDiverged, SetMain, Goto
    <3>2. CASE Exit(d) /\ UNCHANGED local
      BY <2>9, <3>2 DEF PullDiverged, Exit
    <3> QED BY <2>9, <3>1, <3>2 DEF PullDiverged
  <2>10. CASE Merge(d)
    <3>1. CASE /\ Goto(d, "pushMain")
               /\ SetMain(d, local[d][main] \cup local[d][name[d]] \cup {made + 1})
      BY <2>10, <3>1, SetBranchValue DEF Merge, MergeThen, SetMain, Goto
    <3>2. CASE (Exit(d) \/ Goto(d, "pushMain")) /\ UNCHANGED local
      BY <2>10, <3>2 DEF Merge, MergeThen, Exit, Goto
    <3> QED BY <2>10, <3>1, <3>2 DEF Merge, MergeThen
  <2>11. CASE PushMain(d)
    <3>1. mine[d] \subseteq local[d][main] /\ UNCHANGED local
      BY <2>11 DEF PushMain, PushTo, InRun
    <3>2. CASE Exit(d)
      BY <3>1, <3>2 DEF Exit
    <3>3. CASE /\ Goto(d, "deleteLocal")
               /\ remote' = [remote EXCEPT ![main] = local[d][main]]
      BY <3>1, <3>3 DEF Goto
    <3> QED BY <2>11, <3>2, <3>3 DEF PushMain, PushTo
  <2>12. CASE DeleteLocal(d)
    <3>1. name[d] # main /\ UNCHANGED remote
      BY <2>12 DEF DeleteLocal, InRun
    <3>2. CASE Exit(d) /\ UNCHANGED local
      BY <3>1, <3>2 DEF Exit
    <3>3. CASE Goto(d, "deleteRemote") /\ local' = [local EXCEPT ![d][name[d]] = {}]
      <4>1. local'[d][main] = local[d][main]
            /\ \A e \in Devs : e # d => local'[e] = local[e]
        BY <3>1, <3>3, SetBranchValue
      <4> QED BY <2>12, <3>1, <3>3, <4>1 DEF DeleteLocal, Goto
    <3> QED BY <2>12, <3>2, <3>3 DEF DeleteLocal
  <2>13. CASE DeleteRemote(d)
    BY <2>13 DEF DeleteRemote, Exit
  <2> QED BY <1>2, <2>1, <2>2, <2>3, <2>4, <2>5, <2>6, <2>7, <2>8, <2>9, <2>10,
             <2>11, <2>12, <2>13 DEF Run
<1> QED BY <1>1, <1>2 DEF Next

(* What the step of one clone can do to its branches: they keep their      *)
(* commits, except for a merged branch that is deleted; a new commit is    *)
(* put on one of them; and nothing else changes.                           *)
LEMMA LocalStep ==
  ASSUME TypeOK, InRun, NEW d \in Devs,
         Edit(d) \/ Abort(d) \/ GiveUpMerge(d) \/ ConcludeMerge(d) \/ Run(d)
  PROVE  /\ \A e \in Devs : e # d => local'[e] = local[e]
         /\ local[d][main] \subseteq local'[d][main]
         /\ \A b \in Branches : local[d][b] \subseteq local'[d][b] \cup local[d][main]
         /\ \/ made' = made /\ own' = own
            \/ NewCommit(d) /\ \E b \in Branches : made + 1 \in local'[d][b]
<1> USE BranchesFact DEF TypeOK, TypeVars
<1>1. CASE UNCHANGED <<local, made, own>>
  BY <1>1
<1>2. CASE ConcludeMerge(d)
  BY <1>2, SetBranchValue DEF ConcludeMerge, SetMain
<1>3. CASE CreateBranch(d)
  <2>1. clock \in Branches /\ clock # main
    OBVIOUS
  <2>2. local' = [local EXCEPT ![d][clock] =
                    IF local[d][clock] = {} THEN local[d][head[d]]
                    ELSE local[d][clock]]
    BY <1>3 DEF CreateBranch
  <2>3. UNCHANGED <<made, own>>
    BY <1>3 DEF CreateBranch
  <2> QED BY <2>1, <2>2, <2>3, SetBranchValue
<1>4. CASE CommitChanges(d)
  <2>1. local' = [local EXCEPT ![d][name[d]] = local[d][name[d]] \cup {made + 1}]
    BY <1>4 DEF CommitChanges
  <2> QED BY <1>4, <2>1, SetBranchValue DEF CommitChanges, InRun
<1>5. CASE Pull(d)
  BY <1>5, SetBranchValue DEF Pull, SetMain
<1>6. CASE PullDiverged(d)
  BY <1>1, <1>6, SetBranchValue DEF PullDiverged, SetMain
<1>7. CASE Merge(d)
  BY <1>1, <1>7, SetBranchValue DEF Merge, MergeThen, SetMain
<1>8. CASE DeleteLocal(d)
  <2>1. head[d] = main /\ name[d] # main
    BY <1>8 DEF DeleteLocal, InRun, AfterCheckout
  <2> QED BY <1>1, <1>8, <2>1, SetBranchValue DEF DeleteLocal
<1> QED BY <1>1, <1>2, <1>3, <1>4, <1>5, <1>6, <1>7, <1>8
        DEF Run, Edit, Abort, GiveUpMerge, NoChanges, PushBranch, PushMain,
            PushTo, CheckoutMain, DeleteRemote

(* No commit is lost. *)
LEMMA StepKept == TypeOK /\ InRun /\ NoCommitLost /\ [Next]_vars => NoCommitLost'
<1> SUFFICES ASSUME TypeOK, InRun, NoCommitLost, [Next]_vars PROVE NoCommitLost'
  OBVIOUS
<1>0. remote[main] \subseteq remote'[main]
  BY MainGrows
<1>1. CASE Tick \/ UNCHANGED vars
  BY <1>1 DEF Tick, vars, NoCommitLost
<1>2. ASSUME NEW d \in Devs,
             Edit(d) \/ Abort(d) \/ GiveUpMerge(d) \/ ConcludeMerge(d) \/ Run(d)
      PROVE  NoCommitLost'
  <2> SUFFICES ASSUME NEW c \in 0 .. made'
               PROVE  c \in remote'[main]
                      \/ \E e \in Devs, b \in Branches : c \in local'[e][b]
    BY DEF NoCommitLost
  <2>1. CASE c \in 0 .. made
    <3>1. CASE c \in remote[main]
      BY <1>0, <3>1
    <3>2. CASE \E e \in Devs, b \in Branches : c \in local[e][b]
      <4>1. PICK e \in Devs, b \in Branches : c \in local[e][b]
        BY <3>2
      <4>2. CASE e # d
        BY <1>2, <4>1, <4>2, LocalStep
      <4>3. CASE e = d
        BY <1>2, <4>1, <4>3, LocalStep, BranchesFact
      <4> QED BY <4>2, <4>3
    <3> QED BY <2>1, <3>1, <3>2 DEF NoCommitLost
  <2>2. CASE c \notin 0 .. made
    <3>1. NewCommit(d) /\ \E b \in Branches : made + 1 \in local'[d][b]
      BY <1>2, <2>2, LocalStep
    <3>2. c = made + 1
      BY <2>2, <3>1 DEF NewCommit, TypeOK, TypeVars
    <3> QED BY <3>1, <3>2
  <2> QED BY <2>1, <2>2
<1> QED BY <1>1, <1>2 DEF Next

(* Numbers of commits are given once. *)
LEMMA StepOwn == TypeOK /\ InRun /\ OwnDisjoint /\ [Next]_vars => OwnDisjoint'
<1> SUFFICES ASSUME TypeOK, InRun, OwnDisjoint, [Next]_vars PROVE OwnDisjoint'
  OBVIOUS
<1>1. CASE Tick \/ UNCHANGED vars
  BY <1>1 DEF Tick, vars, OwnDisjoint
<1>2. ASSUME NEW d \in Devs,
             Edit(d) \/ Abort(d) \/ GiveUpMerge(d) \/ ConcludeMerge(d) \/ Run(d)
      PROVE  OwnDisjoint'
  <2>1. CASE own' = own
    BY <2>1 DEF OwnDisjoint
  <2>2. CASE NewCommit(d)
    <3>1. \A e \in Devs : made + 1 \notin own[e]
      BY <2>2, Widen DEF TypeOK, TypeVars
    <3>2. \A e \in Devs : own'[e] = IF e = d THEN own[e] \cup {made + 1} ELSE own[e]
      BY <2>2 DEF NewCommit, TypeOK, TypeVars
    <3> QED BY <3>1, <3>2 DEF OwnDisjoint
  <2> QED BY <1>2, <2>1, <2>2, LocalStep
<1> QED BY <1>1, <1>2 DEF Next

(* Where the commits of a clone come from. *)
LEMMA StepKnown == IInv /\ [Next]_vars => Known'
<1> SUFFICES ASSUME IInv, [Next]_vars PROVE Known'
  OBVIOUS
<1>0. remote[main] \subseteq remote'[main]
  BY MainGrows DEF IInv
<1> USE BranchesFact
<1>1. CASE Tick \/ UNCHANGED vars
  BY <1>1 DEF Tick, vars, Known, IInv
<1>2. ASSUME NEW d \in Devs,
             Edit(d) \/ Abort(d) \/ GiveUpMerge(d) \/ ConcludeMerge(d) \/ Run(d)
      PROVE  Known'
  (* Another clone keeps its branches and its commits; only the remote may *)
  (* change for it, and by commits of d.                                   *)
  <2>1. ASSUME NEW e \in Devs, e # d
        PROVE  local'[e] = local[e] /\ own'[e] = own[e]
    <3>1. local'[e] = local[e]
      BY <1>2, <2>1, LocalStep DEF IInv
    <3>2. own' = own \/ NewCommit(d)
      BY <1>2, LocalStep DEF IInv
    <3> QED BY <2>1, <3>1, <3>2 DEF NewCommit, IInv, TypeOK, TypeVars
  <2>2. own[d] \subseteq own'[d]
    <3>1. own' = own \/ NewCommit(d)
      BY <1>2, LocalStep DEF IInv
    <3> QED BY <3>1 DEF NewCommit, IInv, TypeOK, TypeVars
  (* What is new in the remote's main comes from the main of d. *)
  <2>3. remote'[main] \subseteq remote[main] \cup local[d][main]
    <3> USE DEF IInv, TypeOK, TypeVars
    <3>1. CASE PushBranch(d)
      BY <3>1 DEF PushBranch, PushTo, InRun
    <3>2. CASE PushMain(d)
      BY <3>2 DEF PushMain, PushTo
    <3>3. CASE DeleteRemote(d)
      BY <3>3 DEF DeleteRemote, InRun
    <3>4. CASE UNCHANGED remote
      BY <3>4
    <3> QED BY <1>2, <3>1, <3>2, <3>3, <3>4
            DEF Run, Edit, Abort, GiveUpMerge, ConcludeMerge, CreateBranch,
                CommitChanges, NoChanges, CheckoutMain, Pull,
                PullDiverged, Merge, MergeThen, DeleteLocal
  <2>4. \A e \in Devs : own'[e] \cap remote'[main] \subseteq local'[e][main]
    <3> SUFFICES ASSUME NEW e \in Devs, NEW c \in own'[e] \cap remote'[main]
                 PROVE  c \in local'[e][main]
      OBVIOUS
    <3>1. local[d][main] \subseteq local'[d][main]
      BY <1>2, LocalStep DEF IInv
    <3>2. CASE e = d
      <4>1. CASE c \in local[d][main]
        BY <3>1, <3>2, <4>1
      <4>2. CASE c \in remote[main]
        <5>1. c \in 0 .. made
          BY <4>2 DEF IInv, TypeOK, TypeVars
        <5>2. c \in own[d]
          <6>1. CASE own' = own
            BY <3>2, <6>1
          <6>2. CASE NewCommit(d)
            BY <3>2, <5>1, <6>2, Widen DEF NewCommit, IInv, TypeOK, TypeVars
          <6> QED BY <1>2, <6>1, <6>2, LocalStep DEF IInv
        <5> QED BY <3>1, <3>2, <4>2, <5>2 DEF IInv, Known
      <4> QED BY <2>3, <4>1, <4>2
    <3>3. CASE e # d
      <4>1. c \in own[e]
        BY <2>1, <3>3
      <4>2. c \notin own[d]
        BY <3>3, <4>1 DEF IInv, OwnDisjoint
      <4>3. c \in remote[main]
        BY <2>3, <4>2 DEF IInv, Known
      <4> QED BY <2>1, <3>3, <4>1, <4>3 DEF IInv, Known
    <3> QED BY <3>2, <3>3
  <2>5. \A e \in Devs : e # d => merging'[e] = merging[e]
    BY <1>2 DEF Run, Edit, Abort, GiveUpMerge, ConcludeMerge, CreateBranch,
                CommitChanges, NoChanges, PushBranch, PushMain,
                PushTo, CheckoutMain, Pull, PullDiverged, Merge, MergeThen, DeleteLocal,
                DeleteRemote, IInv, TypeOK, TypeVars
  (* The branches of d: what they get is its own or from the remote's main, *)
  (* and what does not come from its main goes there too.                   *)
  <2>6. /\ \A b \in Branches : local'[d][b] \subseteq own'[d] \cup remote'[main]
        /\ \A b \in Branches : local'[d][b] \subseteq own'[d] \cup local'[d][main]
    <3> USE <1>0, <2>2 DEF IInv, TypeOK, TypeVars
    <3>1. CASE UNCHANGED local
      BY <3>1 DEF Known
    <3>2. ASSUME NEW C, SetMain(d, C), local[d][main] \subseteq C,
                 C \subseteq own'[d] \cup remote'[main]
          PROVE  /\ \A b \in Branches : local'[d][b] \subseteq own'[d] \cup remote'[main]
                 /\ \A b \in Branches : local'[d][b] \subseteq own'[d] \cup local'[d][main]
      BY <3>2, SetBranchValue DEF SetMain, Known
    <3>3. ASSUME NewCommit(d) PROVE made + 1 \in own'[d]
      BY <3>3 DEF NewCommit
    <3>4. CASE ConcludeMerge(d)
      BY <3>2, <3>3, <3>4 DEF ConcludeMerge, Known
    <3>5. CASE CreateBranch(d)
      <4>1. clock \in Branches /\ clock # main
        OBVIOUS
      <4>2. local' = [local EXCEPT ![d][clock] =
                        IF local[d][clock] = {} THEN local[d][head[d]]
                        ELSE local[d][clock]]
        BY <3>5 DEF CreateBranch
      <4>3. /\ local'[d][clock] \in {local[d][head[d]], local[d][clock]}
            /\ \A b \in Branches : b # clock => local'[d][b] = local[d][b]
        BY <4>1, <4>2, SetBranchValue
      <4>4. head[d] \in Branches
        OBVIOUS
      <4>5. \A b \in Branches : \E c \in Branches : local'[d][b] = local[d][c]
        BY <4>1, <4>3, <4>4
      <4>6. local'[d][main] = local[d][main]
        BY <4>1, <4>3
      <4> HIDE DEF TypeOK, TypeVars
      <4> QED BY <4>5, <4>6 DEF Known
    <3>6. CASE CommitChanges(d)
      <4>1. local' = [local EXCEPT ![d][name[d]] = local[d][name[d]] \cup {made + 1}]
            /\ name[d] # main /\ NewCommit(d)
        BY <3>6 DEF CommitChanges, InRun
      <4> QED BY <3>3, <4>1, SetBranchValue DEF Known
    <3>7. CASE Pull(d)
      BY <3>2, <3>7 DEF Pull, Known
    <3>8. CASE PullDiverged(d)
      BY <3>1, <3>2, <3>3, <3>8 DEF PullDiverged, Known
    <3>9. CASE Merge(d)
      BY <3>1, <3>2, <3>3, <3>9 DEF Merge, MergeThen, Known
    <3>10. CASE DeleteLocal(d)
      <4>1. name[d] # main
        BY <3>10 DEF DeleteLocal, InRun
      <4>2. CASE local' = [local EXCEPT ![d][name[d]] = {}]
        <5>1. /\ local'[d][name[d]] = {}
              /\ \A b \in Branches : b # name[d] => local'[d][b] = local[d][b]
          BY <4>2, SetBranchValue
        <5>2. local'[d][main] = local[d][main]
          BY <4>1, <5>1
        <5> HIDE DEF TypeOK, TypeVars
        <5> QED BY <5>1, <5>2 DEF Known
      <4> QED BY <3>1, <3>10, <4>2 DEF DeleteLocal
    <3>11. CASE \/ Edit(d) \/ Abort(d) \/ GiveUpMerge(d) \/ NoChanges(d)
                \/ PushBranch(d) \/ PushMain(d) \/ CheckoutMain(d) \/ DeleteRemote(d)
      <4> HIDE DEF IInv, TypeOK, TypeVars
      <4>1. UNCHANGED local
        BY <3>11 DEF Edit, Abort, GiveUpMerge, NoChanges, PushBranch, PushMain,
                     PushTo, CheckoutMain, DeleteRemote
      <4> QED BY <3>1, <4>1
    <3> HIDE DEF IInv, TypeOK, TypeVars
    <3> QED BY <1>2, <3>4, <3>5, <3>6, <3>7, <3>8, <3>9, <3>10, <3>11 DEF Run
  <2>7. /\ merging'[d] \subseteq own'[d] \cup remote'[main]
        /\ d \notin Reconciling => merging'[d] \subseteq own'[d] \cup local'[d][main]
    <3>0. local[d][main] \subseteq local'[d][main]
      BY <1>2, LocalStep DEF IInv
    <3> USE <1>0, <2>2, <3>0 DEF IInv, TypeOK, TypeVars
    <3>1. CASE merging'[d] \in {{}, merging[d], local[d][name[d]]}
      BY <3>1 DEF Known
    <3>2. CASE d \in Reconciling /\ merging'[d] = remote[main]
      BY <3>2
    <3>3. CASE UNCHANGED merging
      BY <3>1, <3>3
    <3>4. CASE GiveUpMerge(d) \/ ConcludeMerge(d)
      BY <3>1, <3>4 DEF GiveUpMerge, ConcludeMerge
    <3>5. CASE PullDiverged(d)
      BY <3>2, <3>3, <3>5 DEF PullDiverged
    <3>6. CASE Merge(d)
      <4>1. merging' = merging \/ merging' = [merging EXCEPT ![d] = local[d][name[d]]]
        BY <3>6 DEF Merge, MergeThen
      <4> QED BY <3>1, <3>3, <4>1
    <3> HIDE DEF IInv, TypeOK, TypeVars
    <3>7. CASE \/ Edit(d) \/ Abort(d) \/ CreateBranch(d) \/ CommitChanges(d)
               \/ NoChanges(d) \/ PushBranch(d) \/ PushMain(d) \/ CheckoutMain(d)
               \/ Pull(d) \/ DeleteLocal(d) \/ DeleteRemote(d)
      BY <3>3, <3>7 DEF Edit, Abort, CreateBranch, CommitChanges,
                        NoChanges, PushBranch, PushMain, PushTo, CheckoutMain,
                        Pull, DeleteLocal, DeleteRemote
    <3> QED BY <1>2, <3>4, <3>5, <3>6, <3>7 DEF Run
  <2>8. ASSUME NEW e \in Devs
        PROVE  /\ \A b \in Branches : local'[e][b] \subseteq own'[e] \cup remote'[main]
               /\ merging'[e] \subseteq own'[e] \cup remote'[main]
               /\ \A b \in Branches : local'[e][b] \subseteq own'[e] \cup local'[e][main]
               /\ e \notin Reconciling => merging'[e] \subseteq own'[e] \cup local'[e][main]
    <3>1. CASE e = d
      BY <2>6, <2>7, <3>1
    <3>2. CASE e # d
      BY <1>0, <2>1, <2>5, <3>2 DEF IInv, Known
    <3> QED BY <3>1, <3>2
  <2> QED BY <2>4, <2>8 DEF Known
<1> QED BY <1>1, <1>2 DEF Next

(* IInv is inductive. *)
THEOREM GitInvariant == Spec => []IInv
<1>1. IInv /\ [Next]_vars => IInv'
  BY StepTypeOK, StepInRun, StepDelivers, StepKept, StepOwn, StepKnown DEF IInv
<1> QED BY InitIInv, <1>1, PTL DEF Spec

-----------------------------------------------------------------------------
(* The clones, the remote and the runs of auto_git.sh are well typed. *)
THEOREM GitTypeOK == Spec => []TypeOK
<1>1. IInv => TypeOK
  BY DEF IInv
<1> QED BY GitInvariant, <1>1, PTL

(* auto_git.sh never loses a commit, however many clones run it and        *)
(* wherever a run is cut short.                                            *)
THEOREM GitLosesNoCommit == Spec => []NoCommitLost
<1>1. IInv => NoCommitLost
  BY DEF IInv
<1> QED BY GitInvariant, <1>1, PTL

(* Lines 63-66 are reached only when line 60 has delivered the run's work. *)
THEOREM GitDelivers == Spec => []RunDelivers
<1>1. IInv => RunDelivers
  BY DEF IInv
<1> QED BY GitInvariant, <1>1, PTL

(* The remote's main only grows. *)
THEOREM GitMainGrows == Spec => MainOnlyGrows
<1>1. IInv /\ [Next]_vars => [remote[main] \subseteq remote'[main]]_vars
  BY MainGrows DEF IInv
<1> QED BY GitInvariant, <1>1, PTL DEF Spec, MainOnlyGrows

(* A lost race for main cannot be repaired by running the script again: a  *)
(* commit that only the remote's main has never comes to the clone, and    *)
(* one that only the clone has never comes to the remote's main.           *)
THEOREM GitDivergenceIsPermanent == Spec => DivergenceIsPermanent
<1>1. ASSUME IInv, Next, NEW x \in Devs \ Reconciling, Diverged(x)
      PROVE  Diverged(x)'
  <2>0. IInv' /\ remote[main] \subseteq remote'[main]
    BY <1>1, StepTypeOK, StepInRun, StepDelivers, StepKept, StepOwn, StepKnown,
       MainGrows DEF IInv
  <2> USE BranchesFact
  <2>1. PICK r \in remote[main] : r \notin local[x][main]
    BY <1>1 DEF Diverged
  <2>2. PICK l \in local[x][main] : l \notin remote[main]
    BY <1>1 DEF Diverged
  <2>3. r \notin own[x] /\ \A b \in Branches : r \notin local[x][b]
    BY <1>1, <2>1 DEF IInv, Known
  <2>4. l \in own[x] /\ \A e \in Devs, b \in Branches : e # x => l \notin local[e][b]
    BY <1>1, <2>2 DEF IInv, Known, OwnDisjoint
  <2>5. r \notin merging[x]
    BY <1>1, <2>1, <2>3 DEF IInv, Known
  <2>6. CASE Tick
    BY <1>1, <2>6 DEF Tick, Diverged
  <2>7. ASSUME NEW d \in Devs,
               Edit(d) \/ Abort(d) \/ GiveUpMerge(d) \/ ConcludeMerge(d) \/ Run(d)
        PROVE  r \notin local'[x][main] /\ l \in local'[x][main] /\ l \notin remote'[main]
    <3>1. l \in local'[x][main]
      BY <1>1, <2>2, <2>7, LocalStep DEF IInv
    <3>2. r \notin local'[x][main]
      <4>1. CASE d # x
        BY <1>1, <2>1, <2>7, <4>1, LocalStep DEF IInv
      <4>2. CASE d = x
        <5>1. r # made + 1
          BY <1>1, <2>1 DEF IInv, TypeOK, TypeVars
        <5>2. r \notin own'[x]
          <6>1. own' = own \/ NewCommit(x)
            BY <1>1, <2>7, <4>2, LocalStep DEF IInv
          <6> QED BY <1>1, <2>3, <5>1, <6>1 DEF NewCommit, IInv, TypeOK, TypeVars
        <5> USE DEF IInv, TypeOK, TypeVars
        <5>3. CASE ConcludeMerge(x)
          BY <1>1, <2>1, <2>5, <5>1, <5>3, SetBranchValue DEF ConcludeMerge, SetMain
        <5>4. CASE CreateBranch(x)
          <6>1. local' = [local EXCEPT ![x][clock] =
                            IF local[x][clock] = {} THEN local[x][head[x]]
                            ELSE local[x][clock]]
            BY <5>4 DEF CreateBranch
          <6> QED BY <1>1, <2>1, <6>1, SetBranchValue
        <5>5. CASE CommitChanges(x)
          BY <1>1, <2>1, <5>1, <5>5, SetBranchValue DEF CommitChanges
        <5>6. CASE Pull(x)
          BY <1>1, <5>6 DEF Pull
        <5>7. CASE PullDiverged(x)
          BY <1>1, <2>1, <5>7 DEF PullDiverged
        <5>8. CASE Merge(x)
          <6>1. CASE SetMain(x, local[x][main] \cup local[x][name[x]] \cup {made + 1})
            BY <1>1, <2>1, <2>3, <5>1, <6>1, SetBranchValue DEF SetMain
          <6>2. CASE UNCHANGED local
            BY <2>1, <6>2
          <6> QED BY <5>8, <6>1, <6>2 DEF Merge, MergeThen
        <5>9. CASE DeleteLocal(x)
          <6>1. CASE local' = [local EXCEPT ![x][name[x]] = {}]
            BY <1>1, <2>1, <6>1, SetBranchValue
          <6>2. CASE UNCHANGED local
            BY <2>1, <6>2
          <6> QED BY <5>9, <6>1, <6>2 DEF DeleteLocal
        <5> HIDE DEF IInv, TypeOK, TypeVars
        <5>10. CASE \/ Edit(x) \/ Abort(x) \/ GiveUpMerge(x) \/ NoChanges(x)
                    \/ PushBranch(x) \/ PushMain(x) \/ CheckoutMain(x) \/ DeleteRemote(x)
          BY <2>1, <5>10 DEF Edit, Abort, GiveUpMerge, NoChanges, PushBranch,
                             PushMain, PushTo, CheckoutMain, DeleteRemote
        <5> QED BY <2>7, <4>2, <5>3, <5>4, <5>5, <5>6, <5>7, <5>8, <5>9, <5>10 DEF Run
      <4> QED BY <4>1, <4>2
    <3>3. l \notin remote'[main]
      <4> USE DEF IInv, TypeOK, TypeVars
      <4>1. CASE PushBranch(d)
        BY <1>1, <2>2, <4>1 DEF PushBranch, PushTo, InRun
      <4>2. CASE PushMain(d)
        <5>1. CASE d = x
          BY <1>1, <2>2, <4>2, <5>1 DEF PushMain, PushTo, FastForward, Diverged
        <5>2. CASE d # x
          BY <1>1, <2>2, <2>4, <4>2, <5>2 DEF PushMain, PushTo
        <5> QED BY <5>1, <5>2
      <4>3. CASE DeleteRemote(d)
        BY <1>1, <2>2, <4>3 DEF DeleteRemote, InRun
      <4>4. CASE UNCHANGED remote
        BY <2>2, <4>4
      <4> HIDE DEF IInv, TypeOK, TypeVars
      <4> QED BY <2>7, <4>1, <4>2, <4>3, <4>4
              DEF Run, Edit, Abort, GiveUpMerge, ConcludeMerge, CreateBranch,
                  CommitChanges, NoChanges, CheckoutMain, Pull,
                  PullDiverged, Merge, MergeThen, DeleteLocal
    <3> QED BY <3>1, <3>2, <3>3
  <2> QED BY <1>1, <2>0, <2>6, <2>7 DEF Next, Diverged
<1>2. IInv /\ [Next]_vars => [StaysDiverged]_vars
  BY <1>1 DEF StaysDiverged
<1> QED BY GitInvariant, <1>2, PTL DEF Spec, DivergenceIsPermanent
=============================================================================
