-------------------------- MODULE NixPathLocksProofs --------------------------
(***************************************************************************)
(* Proofs about NixPathLocks, for any number of processes and paths.       *)
(***************************************************************************)
EXTENDS NixPathLocks, TLAPS

USE PathLocksAssumption DEF Paths, Files

(* A set of paths has at most one first element. *)
LEMMA FirstUnique ==
  ASSUME NEW S \in SUBSET Paths, NEW m, NEW n, First(S, m), First(S, n)
  PROVE m = n
  <1>1. m \in Int /\ n \in Int
    BY DEF First
  <1> QED
    BY <1>1 DEF First

(* Only the acting process moves. *)
LEMMA GotoStep ==
  ASSUME TypeOK, NEW p \in Procs, NEW l \in Labels, Goto(p, l)
  PROVE /\ pc' \in [Procs -> Labels]
        /\ pc'[p] = l
        /\ \A q \in Procs \ {p} : pc'[q] = pc[q]
  BY DEF TypeOK, Goto

(* What closing a file leaves: flocks of other processes, and the tokens   *)
(* of files that other processes use.                                      *)
LEMMA ReleaseStep ==
  ASSUME TypeOK, NEW p \in Procs, NEW n \in Paths, Release(p, n)
  PROVE /\ owner' \in [Paths -> [Files -> Procs \cup {None}]]
        /\ token' \in [Paths -> SUBSET Files]
        /\ \A m \in Paths \ {n} : owner'[m] = owner[m] /\ token'[m] = token[m]
        /\ \A f \in Files : owner[n][f] # p => owner'[n][f] = owner[n][f]
        /\ token'[n] \subseteq token[n]
        /\ \A f \in token[n], q \in Procs \ {p} :
             fds[q][n] = f \/ (fd[q] = f /\ Current(q, n)) => f \in token'[n]
  BY DEF TypeOK, Release, InUse

(* What an exception in deleteLockFile changes: the process goes on with   *)
(* nothing locked, or tries again; what it had locked it has still or has  *)
(* left open; and a name goes only of a path that is torn from now on.     *)
LEMMA TokenFailsStep ==
  ASSUME TypeOK, NEW p \in Procs, TokenFails(p)
  PROVE /\ pc[p] = "token" /\ UNCHANGED <<token, owner, todo, fd>>
        /\ \/ Fresh(p) /\ fds' = [fds EXCEPT ![p] = [n \in Paths |-> 0]]
           \/ UNCHANGED <<pc, wait, fds, deletePaths, closed>>
        /\ link' \in [Paths -> Files \cup {0}] /\ leaked' \in [Paths -> SUBSET Files]
        /\ torn \subseteq torn' /\ torn' \subseteq Paths
        /\ \A n \in Paths : Leaving(p, n) => n \in torn'
        /\ \A n \in Paths : link'[n] = link[n] \/ n \in torn'
        /\ \A n \in Paths : leaked[n] \subseteq leaked'[n]
        /\ \A n \in Paths : \/ fds[p][n] = 0 \/ fds'[p][n] = fds[p][n]
                            \/ fds[p][n] \in leaked'[n]
  <1>1. PICK n \in Paths :
          /\ Leaving(p, n)
          /\ \/ LeaveOpen(p, {n}) /\ UNCHANGED link
             \/ /\ closed[p] = {}
                /\ link' = [link EXCEPT ![n] = 0] /\ torn' = torn \cup {n}
                /\ UNCHANGED <<pc, wait, fds, deletePaths, closed, leaked>>
             \/ \E m \in Paths : /\ First(closed[p], m)
                                 /\ link' = [link EXCEPT ![m] = 0]
                                 /\ LeaveOpen(p, {n, m})
    BY DEF TokenFails
  <1>2. \A k \in Paths : Leaving(p, k) => k = n
    BY <1>1, FirstUnique DEF Leaving, Locked
  <1>3. pc[p] = "token" /\ UNCHANGED <<token, owner, todo, fd>>
    BY DEF TokenFails
  <1>o. ASSUME NEW T \in SUBSET Paths, n \in T, LeaveOpen(p, T)
        PROVE /\ Fresh(p) /\ fds' = [fds EXCEPT ![p] = [k \in Paths |-> 0]]
              /\ leaked' \in [Paths -> SUBSET Files]
              /\ torn' = torn \cup T
              /\ \A k \in Paths : leaked[k] \subseteq leaked'[k]
              /\ \A k \in Paths : fds[p][k] = 0 \/ fds[p][k] \in leaked'[k]
    BY <1>o DEF LeaveOpen, TypeOK
  <1>4. CASE LeaveOpen(p, {n}) /\ UNCHANGED link
    <2>1. {n} \in SUBSET Paths /\ n \in {n}
      OBVIOUS
    <2>2. /\ Fresh(p) /\ fds' = [fds EXCEPT ![p] = [k \in Paths |-> 0]]
          /\ leaked' \in [Paths -> SUBSET Files]
          /\ torn' = torn \cup {n}
          /\ \A k \in Paths : leaked[k] \subseteq leaked'[k]
          /\ \A k \in Paths : fds[p][k] = 0 \/ fds[p][k] \in leaked'[k]
      BY <2>1, <1>4, <1>o
    <2>3. link' \in [Paths -> Files \cup {0}] /\ torn \subseteq torn' /\ torn' \subseteq Paths
          /\ (\A k \in Paths : Leaving(p, k) => k \in torn')
          /\ \A k \in Paths : link'[k] = link[k]
      BY <2>2, <1>2, <1>4 DEF TypeOK
    <2> QED
      BY <2>2, <2>3, <1>3
  <1>5. CASE /\ link' = [link EXCEPT ![n] = 0] /\ torn' = torn \cup {n}
             /\ UNCHANGED <<pc, wait, fds, deletePaths, closed, leaked>>
    BY <1>2, <1>3, <1>5 DEF TypeOK
  <1>6. ASSUME NEW m \in Paths, link' = [link EXCEPT ![m] = 0], LeaveOpen(p, {n, m})
        PROVE /\ Fresh(p) /\ fds' = [fds EXCEPT ![p] = [k \in Paths |-> 0]]
              /\ link' \in [Paths -> Files \cup {0}] /\ leaked' \in [Paths -> SUBSET Files]
              /\ torn \subseteq torn' /\ torn' \subseteq Paths
              /\ \A k \in Paths : Leaving(p, k) => k \in torn'
              /\ \A k \in Paths : link'[k] = link[k] \/ k \in torn'
              /\ \A k \in Paths : leaked[k] \subseteq leaked'[k]
              /\ \A k \in Paths : fds[p][k] = 0 \/ fds[p][k] \in leaked'[k]
    <2>1. {n, m} \in SUBSET Paths /\ n \in {n, m}
      OBVIOUS
    <2>2. /\ Fresh(p) /\ fds' = [fds EXCEPT ![p] = [k \in Paths |-> 0]]
          /\ leaked' \in [Paths -> SUBSET Files]
          /\ torn' = torn \cup {n, m}
          /\ \A k \in Paths : leaked[k] \subseteq leaked'[k]
          /\ \A k \in Paths : fds[p][k] = 0 \/ fds[p][k] \in leaked'[k]
      BY <2>1, <1>6, <1>o
    <2>3. link' \in [Paths -> Files \cup {0}] /\ torn \subseteq torn' /\ torn' \subseteq Paths
          /\ (\A k \in Paths : Leaving(p, k) => k \in torn')
          /\ \A k \in Paths : link'[k] = link[k] \/ k \in torn'
      BY <2>2, <1>2, <1>6 DEF TypeOK
    <2> QED
      BY <2>2, <2>3
  <1> QED
    BY <1>1, <1>3, <1>4, <1>5, <1>6

LEMMA TypeInit == Init => TypeOK
  BY DEF Init, TypeOK, Labels

LEMMA TypeStep == TypeOK /\ [Next]_vars => TypeOK'
  <1> SUFFICES ASSUME TypeOK, [Next]_vars PROVE TypeOK'
    OBVIOUS
  <1> USE DEF fsVars, lostVars
  <1>1. CASE UNCHANGED vars
    BY <1>1 DEF TypeOK, vars
  <1>2. ASSUME NEW p \in Procs, LockPaths(p) PROVE TypeOK'
    <2>1. pc' \in [Procs -> Labels] /\ pc'[p] = "open" /\ \A q \in Procs \ {p} : pc'[q] = pc[q]
      BY <1>2, GotoStep DEF LockPaths, Labels
    <2>2. PICK S \in (SUBSET Paths) \ {{}} : todo' = [todo EXCEPT ![p] = S]
      BY <1>2 DEF LockPaths
    <2>3. todo' \in [Procs -> SUBSET Paths] /\ todo'[p] # {}
          /\ \A q \in Procs \ {p} : todo'[q] = todo[q]
      BY <2>2 DEF TypeOK
    <2>4. wait' \in [Procs -> BOOLEAN]
      BY <1>2 DEF LockPaths, TypeOK
    <2> QED
      BY <1>2, <2>1, <2>3, <2>4 DEF LockPaths, TypeOK
  <1>3. ASSUME NEW p \in Procs, OpenLockFile(p) PROVE TypeOK'
    <2>1. pc' \in [Procs -> Labels] /\ pc'[p] = "lock" /\ \A q \in Procs \ {p} : pc'[q] = pc[q]
      BY <1>3, GotoStep DEF OpenLockFile, Labels
    <2>2. PICK n \in Paths : Current(p, n) /\ Release(p, n)
                             /\ IF link[n] # 0
                                THEN fd' = [fd EXCEPT ![p] = link[n]] /\ UNCHANGED link
                                ELSE \E f \in Files : link' = [link EXCEPT ![n] = f]
                                                      /\ fd' = [fd EXCEPT ![p] = f]
      BY <1>3 DEF OpenLockFile
    <2>3. owner' \in [Paths -> [Files -> Procs \cup {None}]] /\ token' \in [Paths -> SUBSET Files]
      BY <2>2, ReleaseStep
    <2>4. PICK f \in Files : fd' = [fd EXCEPT ![p] = f]
                             /\ (UNCHANGED link \/ link' = [link EXCEPT ![n] = f])
      BY <2>2 DEF TypeOK
    <2>5. f # 0
      OBVIOUS
    <2> QED
      BY <1>3, <2>1, <2>2, <2>3, <2>4, <2>5 DEF OpenLockFile, TypeOK, Current, First
  <1>4. ASSUME NEW p \in Procs, LockFile(p) PROVE TypeOK'
    <2>1. pc' \in [Procs -> Labels] /\ pc'[p] = "check" /\ \A q \in Procs \ {p} : pc'[q] = pc[q]
      BY <1>4, GotoStep DEF LockFile, Labels
    <2>2. owner' \in [Paths -> [Files -> Procs \cup {None}]]
      BY <1>4 DEF LockFile, TypeOK
    <2> QED
      BY <1>4, <2>1, <2>2 DEF LockFile, TypeOK
  <1>5. ASSUME NEW p \in Procs, NEW n \in Paths, GiveUp(p, n) PROVE TypeOK'
    <2>1. pc' \in [Procs -> Labels] /\ pc'[p] = "unlock" /\ \A q \in Procs \ {p} : pc'[q] = pc[q]
      BY <1>5, GotoStep DEF GiveUp, Labels
    <2>3. owner' \in [Paths -> [Files -> Procs \cup {None}]] /\ token' \in [Paths -> SUBSET Files]
      BY <1>5, ReleaseStep DEF GiveUp
    <2> QED
      BY <1>5, <2>1, <2>3 DEF GiveUp, TypeOK
  <1>6. ASSUME NEW p \in Procs, NEW n \in Paths, CheckThen(p, n, fd[p] \in token[n]) PROVE TypeOK'
    <2>1. CASE fd[p] \in token[n]
      <3>1. pc' \in [Procs -> Labels] /\ pc'[p] = "open" /\ \A q \in Procs \ {p} : pc'[q] = pc[q]
        BY <1>6, <2>1, GotoStep DEF CheckThen, Labels
      <3> QED
        BY <1>6, <2>1, <3>1 DEF CheckThen, TypeOK
    <2>2. CASE fd[p] \notin token[n]
      <3> DEFINE l == IF todo[p] = {n} THEN "held" ELSE "open"
      <3>1. pc' \in [Procs -> Labels] /\ pc'[p] = l /\ \A q \in Procs \ {p} : pc'[q] = pc[q]
        <4>1. l \in Labels /\ Goto(p, l)
          BY <1>6, <2>2 DEF CheckThen, Labels
        <4> QED
          BY <4>1, GotoStep
      <3>2. n \in todo[p] /\ todo'[p] = todo[p] \ {n} /\ \A q \in Procs \ {p} : todo'[q] = todo[q]
        BY <1>6, <2>2 DEF CheckThen, TypeOK, Current, First
      <3>3. IF todo[p] = {n} THEN todo'[p] = {} ELSE todo'[p] # {}
        BY <3>2
      <3>4. /\ todo' = [todo EXCEPT ![p] = @ \ {n}] /\ fd' = [fd EXCEPT ![p] = 0]
            /\ fds' = [fds EXCEPT ![p][n] = fd[p]]
            /\ UNCHANGED <<link, token, owner, wait, deletePaths, closed, leaked, torn>>
            /\ pc[p] = "check"
        BY <1>6, <2>2 DEF CheckThen
      <3>5. todo' \in [Procs -> SUBSET Paths] /\ fd' \in [Procs -> Files \cup {0}]
            /\ fd'[p] = 0 /\ \A q \in Procs \ {p} : fd'[q] = fd[q]
        BY <3>4 DEF TypeOK
      <3>6. fds' \in [Procs -> [Paths -> Files \cup {0}]]
            /\ \A q \in Procs \ {p} : fds'[q] = fds[q]
        BY <3>4 DEF TypeOK
      <3>7. l # "idle" /\ (l = "open" => todo'[p] # {}) /\ (l # "open" => todo'[p] = {})
            /\ l \notin {"lock", "check"}
        BY <3>3
      <3>8. /\ link' \in [Paths -> Files \cup {0}] /\ token' \in [Paths -> SUBSET Files]
            /\ owner' \in [Paths -> [Files -> Procs \cup {None}]]
            /\ wait' \in [Procs -> BOOLEAN] /\ deletePaths' \in [Procs -> BOOLEAN]
            /\ torn' \subseteq Paths /\ leaked' \in [Paths -> SUBSET Files]
            /\ closed' \in [Procs -> SUBSET Paths] /\ closed'[p] = {}
            /\ \A q \in Procs : closed'[q] = closed[q]
        BY <3>4 DEF TypeOK
      <3> HIDE DEF l
      <3>9. ASSUME NEW q \in Procs
            PROVE (/\ pc[q] \in {"lock", "check"} => fd[q] # 0 /\ todo[q] # {}
                   /\ pc[q] = "open" => todo[q] # {}
                   /\ pc[q] \notin {"open", "lock", "check"} => fd[q] = 0 /\ todo[q] = {}
                   /\ pc[q] = "idle" => \A m \in Paths : fds[q][m] = 0
                   /\ pc[q] \notin {"unlock", "token", "close"} => closed[q] = {})'
        <4>1. CASE q = p
          BY <4>1, <3>1, <3>7, <3>5, <3>8
        <4>2. CASE q # p
          BY <4>2, <3>1, <3>2, <3>5, <3>6, <3>8 DEF TypeOK
        <4> QED
          BY <4>1, <4>2
      <3> QED
        BY <3>1, <3>5, <3>6, <3>8, <3>9 DEF TypeOK
    <2> QED
      BY <2>1, <2>2
  <1>7. ASSUME NEW p \in Procs, Finish(p) PROVE TypeOK'
    <2>1. pc' \in [Procs -> Labels] /\ pc'[p] = "unlock" /\ \A q \in Procs \ {p} : pc'[q] = pc[q]
      BY <1>7, GotoStep DEF Finish, Labels
    <2> QED
      BY <1>7, <2>1 DEF Finish, TypeOK
  <1>8. ASSUME NEW p \in Procs, Unlink(p) PROVE TypeOK'
    <2>1. pc' \in [Procs -> Labels] /\ pc'[p] = "token" /\ \A q \in Procs \ {p} : pc'[q] = pc[q]
      BY <1>8, GotoStep DEF Unlink, Labels
    <2> QED
      BY <1>8, <2>1 DEF Unlink, TypeOK
  <1>9. ASSUME NEW p \in Procs, WriteToken(p) PROVE TypeOK'
    <2>1. pc' \in [Procs -> Labels] /\ pc'[p] = "close" /\ \A q \in Procs \ {p} : pc'[q] = pc[q]
      BY <1>9, GotoStep DEF WriteToken, Labels
    <2>2. token' \in [Paths -> SUBSET Files]
      BY <1>9 DEF WriteToken, TypeOK, Leaving, First, Locked
    <2> QED
      BY <1>9, <2>1, <2>2 DEF WriteToken, TypeOK
  <1>10. ASSUME NEW p \in Procs, Close(p) PROVE TypeOK'
    <2>1. pc' \in [Procs -> Labels] /\ pc'[p] = "unlock" /\ \A q \in Procs \ {p} : pc'[q] = pc[q]
      BY <1>10, GotoStep DEF Close, Labels
    <2>2. PICK n \in Paths : Release(p, n) /\ fds' = [fds EXCEPT ![p][n] = 0]
      BY <1>10 DEF Close
    <2>3. owner' \in [Paths -> [Files -> Procs \cup {None}]] /\ token' \in [Paths -> SUBSET Files]
      BY <2>2, ReleaseStep
    <2>4. fds' \in [Procs -> [Paths -> Files \cup {0}]] /\ \A q \in Procs \ {p} : fds'[q] = fds[q]
      BY <2>2 DEF TypeOK
    <2>5. closed' \in [Procs -> SUBSET Paths] /\ \A q \in Procs \ {p} : closed'[q] = closed[q]
      BY <1>10 DEF Close, TypeOK
    <2> QED
      BY <1>10, <2>1, <2>3, <2>4, <2>5 DEF Close, TypeOK
  <1>11. ASSUME NEW p \in Procs, Unlocked(p) PROVE TypeOK'
    <2>1. pc' \in [Procs -> Labels] /\ pc'[p] = "idle" /\ \A q \in Procs \ {p} : pc'[q] = pc[q]
      BY <1>11, GotoStep DEF Unlocked, Fresh, Labels
    <2> QED
      BY <1>11, <2>1 DEF Unlocked, Fresh, TypeOK, Locked
  <1>12. ASSUME NEW p \in Procs, Die(p) PROVE TypeOK'
    <2>1. pc' \in [Procs -> Labels] /\ pc'[p] = "idle" /\ \A q \in Procs \ {p} : pc'[q] = pc[q]
      BY <1>12, GotoStep DEF Die, Fresh, Labels
    <2>2. owner' \in [Paths -> [Files -> Procs \cup {None}]]
      <3>1. owner' = [n \in Paths |-> [f \in Files |-> IF owner[n][f] = p THEN None ELSE owner[n][f]]]
        BY <1>12 DEF Die
      <3> QED
        BY <3>1 DEF TypeOK
    <2>3. token' \in [Paths -> SUBSET Files]
      <3>1. token' = [n \in Paths |-> token[n] \cap InUse(Procs \ {p}, n)]
        BY <1>12 DEF Die
      <3> QED
        BY <3>1 DEF TypeOK
    <2>4. leaked' \in [Paths -> SUBSET Files]
      <3>1. leaked' = [n \in Paths |-> {f \in leaked[n] : owner[n][f] # p}]
        BY <1>12 DEF Die
      <3> QED
        BY <3>1 DEF TypeOK
    <2>5. torn' \subseteq Paths
      BY <1>12 DEF Die, TypeOK
    <2> QED
      BY <1>12, <2>1, <2>2, <2>3, <2>4, <2>5 DEF Die, Fresh, TypeOK
  <1>13. ASSUME NEW p \in Procs, TokenFails(p) PROVE TypeOK'
    <2>1. /\ link' \in [Paths -> Files \cup {0}] /\ leaked' \in [Paths -> SUBSET Files]
          /\ torn' \subseteq Paths
      BY <1>13, TokenFailsStep
    <2>2. CASE UNCHANGED <<pc, wait, fds, deletePaths, closed>>
      BY <1>13, <2>1, <2>2, TokenFailsStep DEF TypeOK
    <2>3. CASE Fresh(p) /\ fds' = [fds EXCEPT ![p] = [n \in Paths |-> 0]]
      <3>1. pc' \in [Procs -> Labels] /\ pc'[p] = "idle" /\ \A q \in Procs \ {p} : pc'[q] = pc[q]
        BY <2>3, GotoStep DEF Fresh, Labels
      <3>2. pc[p] = "token" /\ UNCHANGED <<token, owner, todo, fd>>
        BY <1>13, TokenFailsStep
      <3> QED
        BY <2>1, <2>3, <3>1, <3>2 DEF Fresh, TypeOK
    <2> QED
      BY <1>13, <2>2, <2>3, TokenFailsStep
  <1> QED
    BY <1>1, <1>2, <1>3, <1>4, <1>5, <1>6, <1>7, <1>8, <1>9, <1>10, <1>11, <1>12, <1>13
    DEF Next, Act, Step, LockBusy, Interrupt, CheckStale

(* Every reachable state has the types of TypeOK, and processes have files *)
(* open only where the code of lockPaths and unlock says so.               *)
THEOREM TypeCorrect == Spec => []TypeOK
  BY TypeInit, TypeStep, PTL DEF Spec
-----------------------------------------------------------------------------
(* What a step of p leaves alone: the other processes, the flocks they     *)
(* have and the tokens of the files they have open.                        *)

LEMMA Frame ==
  ASSUME TypeOK, NEW p \in Procs, Act(p), NEW q \in Procs \ {p}
  PROVE /\ pc'[q] = pc[q] /\ fd'[q] = fd[q] /\ fds'[q] = fds[q] /\ todo'[q] = todo[q]
        /\ closed'[q] = closed[q]
  <1> DEFINE Same == /\ pc'[q] = pc[q] /\ fd'[q] = fd[q] /\ fds'[q] = fds[q] /\ todo'[q] = todo[q]
                     /\ closed'[q] = closed[q]
  <1> USE DEF TypeOK, Goto, lostVars
  <1>1. ASSUME LockPaths(p) PROVE Same
    BY <1>1 DEF LockPaths
  <1>2. ASSUME OpenLockFile(p) PROVE Same
    BY <1>2 DEF OpenLockFile
  <1>3. ASSUME LockFile(p) PROVE Same
    BY <1>3 DEF LockFile
  <1>4. ASSUME NEW n \in Paths, GiveUp(p, n) PROVE Same
    BY <1>4 DEF GiveUp
  <1>5. ASSUME NEW n \in Paths, CheckThen(p, n, fd[p] \in token[n]) PROVE Same
    BY <1>5 DEF CheckThen
  <1>6. ASSUME Finish(p) PROVE Same
    BY <1>6 DEF Finish
  <1>7. ASSUME Unlink(p) PROVE Same
    BY <1>7 DEF Unlink
  <1>8. ASSUME WriteToken(p) PROVE Same
    BY <1>8 DEF WriteToken
  <1>9. ASSUME Close(p) PROVE Same
    BY <1>9 DEF Close
  <1>10. ASSUME Unlocked(p) PROVE Same
    BY <1>10 DEF Unlocked, Fresh
  <1>11. ASSUME Die(p) PROVE Same
    BY <1>11 DEF Die, Fresh
  <1>12. ASSUME TokenFails(p) PROVE Same
    <2>1. UNCHANGED <<todo, fd>>
      BY <1>12, TokenFailsStep
    <2>2. \/ Fresh(p) /\ fds' = [fds EXCEPT ![p] = [n \in Paths |-> 0]]
          \/ UNCHANGED <<pc, wait, fds, deletePaths, closed>>
      BY <1>12, TokenFailsStep
    <2>3. CASE Fresh(p) /\ fds' = [fds EXCEPT ![p] = [n \in Paths |-> 0]]
      BY <2>1, <2>3 DEF Fresh
    <2>4. CASE UNCHANGED <<pc, wait, fds, deletePaths, closed>>
      BY <2>1, <2>4
    <2> QED
      BY <2>2, <2>3, <2>4
  <1> QED
    BY <1>1, <1>2, <1>3, <1>4, <1>5, <1>6, <1>7, <1>8, <1>9, <1>10, <1>11, <1>12
    DEF Act, Step, LockBusy, Interrupt, CheckStale

LEMMA FrameFirst ==
  ASSUME TypeOK, NEW p \in Procs, Act(p), NEW q \in Procs \ {p}, NEW n \in Paths
  PROVE (Current(q, n)' <=> Current(q, n)) /\ (Leaving(q, n)' <=> Leaving(q, n))
  <1>1. pc'[q] = pc[q] /\ fd'[q] = fd[q] /\ fds'[q] = fds[q] /\ todo'[q] = todo[q]
    BY Frame
  <1> QED
    BY <1>1 DEF Current, Leaving, First, Locked

LEMMA FrameFiles ==
  ASSUME TypeOK, NEW p \in Procs, Act(p), NEW q \in Procs \ {p}, NEW n \in Paths, NEW f \in Files
  PROVE /\ owner[n][f] = q => owner'[n][f] = q
        /\ f \in token[n] /\ (fds[q][n] = f \/ (fd[q] = f /\ Current(q, n))) => f \in token'[n]
        /\ owner[n][f] = q /\ f \in leaked[n] => f \in leaked'[n]
        /\ torn \subseteq torn'
  <1> DEFINE Kept == /\ owner[n][f] = q => owner'[n][f] = q
                     /\ f \in token[n] /\ (fds[q][n] = f \/ (fd[q] = f /\ Current(q, n))) => f \in token'[n]
                     /\ owner[n][f] = q /\ f \in leaked[n] => f \in leaked'[n]
                     /\ torn \subseteq torn'
  <1> USE DEF fsVars, lostVars
  <1>r. ASSUME NEW m \in Paths, Release(p, m), UNCHANGED <<leaked, torn>> PROVE Kept
    <2>1. CASE m = n
      BY <1>r, <2>1, ReleaseStep
    <2>2. CASE m # n
      BY <1>r, <2>2, ReleaseStep
    <2> QED
      BY <2>1, <2>2
  <1>1. ASSUME LockPaths(p) PROVE Kept
    BY <1>1 DEF LockPaths
  <1>2. ASSUME OpenLockFile(p) PROVE Kept
    BY <1>2, <1>r DEF OpenLockFile
  <1>3. ASSUME LockFile(p) PROVE Kept
    BY <1>3 DEF LockFile, TypeOK
  <1>4. ASSUME NEW m \in Paths, GiveUp(p, m) PROVE Kept
    BY <1>4, <1>r DEF GiveUp
  <1>5. ASSUME NEW m \in Paths, CheckThen(p, m, fd[p] \in token[m]) PROVE Kept
    BY <1>5 DEF CheckThen
  <1>6. ASSUME Finish(p) PROVE Kept
    BY <1>6 DEF Finish
  <1>7. ASSUME Unlink(p) PROVE Kept
    BY <1>7 DEF Unlink
  <1>8. ASSUME WriteToken(p) PROVE Kept
    BY <1>8 DEF WriteToken, TypeOK
  <1>9. ASSUME Close(p) PROVE Kept
    BY <1>9, <1>r DEF Close
  <1>10. ASSUME Unlocked(p) PROVE Kept
    BY <1>10 DEF Unlocked
  <1>11. ASSUME Die(p) PROVE Kept
    BY <1>11 DEF Die, InUse, TypeOK
  <1>12. ASSUME TokenFails(p) PROVE Kept
    BY <1>12, TokenFailsStep
  <1> QED
    BY <1>1, <1>2, <1>3, <1>4, <1>5, <1>6, <1>7, <1>8, <1>9, <1>10, <1>11, <1>12
    DEF Act, Step, LockBusy, Interrupt, CheckStale

(* The name of a path that is not torn changes only when a file is created *)
(* under a name that is free, or in Unlink.                                *)
LEMMA LinkStep ==
  ASSUME TypeOK, NEW p \in Procs, Act(p), NEW n \in Paths, n \notin torn',
         link[n] # 0, link'[n] # link[n]
  PROVE Unlink(p) /\ Leaving(p, n) /\ link'[n] = 0
  <1> USE DEF fsVars, lostVars
  <1>2. ASSUME OpenLockFile(p) PROVE FALSE
    BY <1>2 DEF OpenLockFile, TypeOK
  <1>7. CASE Unlink(p)
    BY <1>7 DEF Unlink, TypeOK
  <1>8. ASSUME TokenFails(p) PROVE FALSE
    BY <1>8, TokenFailsStep
  <1> QED
    BY <1>2, <1>7, <1>8
    DEF Act, Step, LockBusy, Interrupt, CheckStale, LockPaths, LockFile, GiveUp, CheckThen,
        Finish, WriteToken, Close, Unlocked, Die
-----------------------------------------------------------------------------
(* The inductive invariant.  What it says of a process r and a path m can  *)
(* be disturbed by another process only through the name of the lock file, *)
(* and by r itself only in the actions listed.                             *)

LEMMA InvInit == Init => LockInv
  <1> SUFFICES ASSUME Init PROVE LockInv
    OBVIOUS
  <1>1. TypeOK
    BY TypeInit
  <1>2. \A p \in Procs, n \in Paths : fds[p][n] = 0 /\ fd[p] = 0 /\ pc[p] = "idle" /\ ~Leaving(p, n)
    BY DEF Init, Leaving, First, Locked
  <1> QED
    BY <1>1, <1>2 DEF LockInv, FlockHeld, HolderNamed, OpenedKnown

(* Two processes that have the flock of one file are one process. *)
LEMMA OneOwner ==
  ASSUME FlockHeld, NEW p \in Procs, NEW q \in Procs, NEW n \in Paths,
         fds[p][n] # 0, fds[p][n] = fds[q][n]
  PROVE p = q
  BY DEF FlockHeld

LEMMA FlockStep ==
  ASSUME LockInv, NEW p \in Procs, Act(p)
  PROVE FlockHeld'
  <1> SUFFICES ASSUME NEW r \in Procs, NEW m \in Paths
               PROVE (/\ fds[r][m] # 0 => owner[m][fds[r][m]] = r /\ m \notin todo[r]
                      /\ pc[r] = "check" /\ Current(r, m) => owner[m][fd[r]] = r
                      /\ pc[r] = "close" /\ Leaving(r, m) => fds[r][m] \in token[m]
                      /\ m \in closed[r] => fds[r][m] = 0)'
    BY DEF FlockHeld
  <1> DEFINE F == /\ fds[r][m] # 0 => owner[m][fds[r][m]] = r /\ m \notin todo[r]
                  /\ pc[r] = "check" /\ Current(r, m) => owner[m][fd[r]] = r
                  /\ pc[r] = "close" /\ Leaving(r, m) => fds[r][m] \in token[m]
                  /\ m \in closed[r] => fds[r][m] = 0
  <1>t. TypeOK
    BY DEF LockInv
  <1>f. F
    BY DEF LockInv, FlockHeld
  <1>1. CASE r # p
    <2>1. /\ pc'[r] = pc[r] /\ fd'[r] = fd[r] /\ fds'[r] = fds[r] /\ todo'[r] = todo[r]
          /\ closed'[r] = closed[r]
      BY <1>1, <1>t, Frame
    <2>2. (Current(r, m)' <=> Current(r, m)) /\ (Leaving(r, m)' <=> Leaving(r, m))
      BY <1>1, <1>t, FrameFirst
    <2>3. fds[r][m] \in Files \cup {0} /\ fd[r] \in Files \cup {0} /\ (pc[r] = "check" => fd[r] # 0)
      BY <1>t DEF TypeOK
    <2>4. \A f \in Files : owner[m][f] = r => owner'[m][f] = r
      BY <1>1, <1>t, FrameFiles
    <2>5. \A f \in Files : f \in token[m] /\ fds[r][m] = f => f \in token'[m]
      BY <1>1, <1>t, FrameFiles
    <2>6. Leaving(r, m) => fds[r][m] # 0
      BY DEF Leaving, First, Locked
    <2> QED
      BY <1>f, <2>1, <2>2, <2>3, <2>4, <2>5, <2>6
  <1>2. CASE r = p
    <2> USE DEF fsVars, lostVars
    <2>p. p \in Procs /\ fds[p][m] \in Files \cup {0} /\ fd[p] \in Files \cup {0}
      BY <1>t DEF TypeOK
    (* Closing the file of another path does not release this one. *)
    <2>r. ASSUME NEW n \in Paths, n # m, Release(p, n) PROVE owner'[m] = owner[m]
      BY <2>r, <1>t, ReleaseStep
    <2>1. ASSUME LockPaths(p) PROVE F'
      <3>1. pc[p] = "idle" /\ fds' = fds /\ pc'[p] = "open" /\ closed' = closed
        BY <2>1, <1>t DEF LockPaths, Goto, TypeOK
      <3>2. fds[p][m] = 0
        BY <3>1, <1>t DEF TypeOK
      <3> QED
        BY <3>1, <3>2, <1>2
    <2>2. ASSUME OpenLockFile(p) PROVE F'
      <3>1. pc'[p] = "lock" /\ fds' = fds /\ todo' = todo /\ closed' = closed
        BY <2>2, <1>t DEF OpenLockFile, Goto, TypeOK
      <3>2. PICK n \in Paths : Current(p, n) /\ Release(p, n)
        BY <2>2 DEF OpenLockFile
      <3>3. n # m \/ fds[p][m] = 0
        BY <3>2, <1>f, <1>2 DEF Current, First
      <3> QED
        BY <3>1, <3>2, <3>3, <1>f, <1>2, <2>r
    <2>3. ASSUME LockFile(p) PROVE F'
      <3>1. pc'[p] = "check" /\ fds' = fds /\ todo' = todo /\ fd' = fd /\ pc[p] = "lock"
            /\ closed' = closed
        BY <2>3, <1>t DEF LockFile, Goto, TypeOK
      <3>2. PICK n \in Paths : Current(p, n) /\ owner' = [owner EXCEPT ![n][fd[p]] = p]
        BY <2>3 DEF LockFile
      <3>3. fds[p][m] # 0 => owner'[m][fds[p][m]] = p
        BY <3>2, <1>f, <1>t, <1>2, <2>p DEF TypeOK
      <3>4. Current(p, m)' => m = n
        BY <3>1, <3>2, <1>t, FirstUnique DEF Current, TypeOK
      <3>5. owner'[n][fd[p]] = p
        BY <3>1, <3>2, <1>t DEF TypeOK
      <3> QED
        BY <3>1, <3>3, <3>4, <3>5, <1>f, <1>2
    <2>4. ASSUME NEW n \in Paths, GiveUp(p, n) PROVE F'
      <3>1. pc'[p] = "unlock" /\ fds' = fds /\ todo'[p] = {} /\ closed' = closed
        BY <2>4, <1>t DEF GiveUp, Goto, TypeOK
      <3>2. n # m \/ fds[p][m] = 0
        BY <2>4, <1>f, <1>2 DEF GiveUp, Current, First
      <3> QED
        BY <2>4, <3>1, <3>2, <1>f, <1>2, <2>r DEF GiveUp
    <2>5. ASSUME NEW n \in Paths, CheckThen(p, n, fd[p] \in token[n]) PROVE F'
      <3>1. /\ pc'[p] \notin {"check", "close"} /\ pc[p] = "check" /\ owner' = owner /\ Current(p, n)
            /\ closed'[p] = {}
        BY <2>5, <1>t DEF CheckThen, Goto, TypeOK
      <3>2. CASE fd[p] \in token[n]
        BY <2>5, <3>1, <3>2, <1>f, <1>2 DEF CheckThen
      <3>3. CASE fd[p] \notin token[n]
        <4>1. fds' = [fds EXCEPT ![p][n] = fd[p]] /\ todo' = [todo EXCEPT ![p] = @ \ {n}]
          BY <2>5, <3>3 DEF CheckThen
        <4>2. CASE m = n
          BY <4>1, <4>2, <3>1, <1>f, <1>t, <1>2 DEF TypeOK
        <4>3. CASE m # n
          BY <4>1, <4>3, <3>1, <1>f, <1>t, <1>2 DEF TypeOK
        <4> QED
          BY <4>2, <4>3
      <3> QED
        BY <3>2, <3>3
    <2>6. ASSUME Finish(p) PROVE F'
      BY <2>6, <1>f, <1>t, <1>2 DEF Finish, Goto, TypeOK
    <2>7. ASSUME Unlink(p) PROVE F'
      BY <2>7, <1>f, <1>t, <1>2 DEF Unlink, Goto, TypeOK
    <2>8. ASSUME WriteToken(p) PROVE F'
      <3>1. /\ pc'[p] = "close" /\ fds' = fds /\ todo' = todo /\ owner' = owner
            /\ closed' = closed
        BY <2>8, <1>t DEF WriteToken, Goto, TypeOK
      <3>2. PICK n \in Paths : Leaving(p, n) /\ token' = [token EXCEPT ![n] = @ \cup {fds[p][n]}]
        BY <2>8 DEF WriteToken
      <3>3. Leaving(p, m)' => m = n
        <4>1. Leaving(p, m)' => Leaving(p, m)
          BY <3>1 DEF Leaving, First, Locked
        <4>2. Locked(p) \in SUBSET Paths
          BY DEF Locked
        <4> QED
          BY <4>1, <4>2, <3>2, FirstUnique DEF Leaving
      <3> QED
        BY <3>1, <3>2, <3>3, <1>f, <1>2, <1>t DEF TypeOK
    <2>9. ASSUME Close(p) PROVE F'
      <3>1. pc'[p] = "unlock" /\ todo' = todo
        BY <2>9, <1>t DEF Close, Goto, TypeOK
      <3>2. PICK n \in Paths : /\ Release(p, n) /\ fds' = [fds EXCEPT ![p][n] = 0]
                               /\ closed' = [closed EXCEPT ![p] = @ \cup {n}]
        BY <2>9 DEF Close
      <3>3. CASE m = n
        BY <3>1, <3>2, <3>3, <1>2, <1>t DEF TypeOK
      <3>4. CASE m # n
        BY <3>1, <3>2, <3>4, <1>2, <1>f, <1>t, <2>r DEF TypeOK
      <3> QED
        BY <3>3, <3>4
    <2>10. ASSUME Unlocked(p) PROVE F'
      BY <2>10, <1>f, <1>t, <1>2 DEF Unlocked, Fresh, Goto, TypeOK
    <2>11. ASSUME Die(p) PROVE F'
      BY <2>11, <1>t, <1>2 DEF Die, Fresh, Goto, TypeOK
    <2>12. ASSUME TokenFails(p) PROVE F'
      <3>1. pc[p] = "token" /\ UNCHANGED <<token, owner, todo, fd>>
        BY <2>12, <1>t, TokenFailsStep
      <3>2. CASE UNCHANGED <<pc, fds, closed>>
        BY <3>1, <3>2, <1>f, <1>2
      <3>3. CASE Fresh(p) /\ fds' = [fds EXCEPT ![p] = [n \in Paths |-> 0]]
        BY <3>3, <1>t, <1>2 DEF Fresh, Goto, TypeOK
      <3> QED
        BY <2>12, <3>2, <3>3, <1>t, TokenFailsStep
    <2> QED
      BY <2>1, <2>2, <2>3, <2>4, <2>5, <2>6, <2>7, <2>8, <2>9, <2>10, <2>11, <2>12, <1>2
      DEF Act, Step, LockBusy, Interrupt, CheckStale
  <1> QED
    BY <1>1, <1>2

LEMMA HolderStep ==
  ASSUME LockInv, NEW p \in Procs, Act(p)
  PROVE HolderNamed'
  <1> SUFFICES ASSUME NEW r \in Procs, NEW m \in Paths, m \notin torn', fds'[r][m] # 0
               PROVE link'[m] = fds'[r][m] \/ Deleting(r, m)'
    BY DEF HolderNamed
  <1>t. TypeOK /\ FlockHeld /\ HolderNamed /\ OpenedKnown
    BY DEF LockInv
  <1>n. m \notin torn
    BY <1>t, TokenFailsStep
       DEF Act, Step, LockBusy, Interrupt, CheckStale, LockPaths, OpenLockFile, LockFile, GiveUp,
           CheckThen, Finish, Unlink, WriteToken, Close, Unlocked, Die, lostVars
  <1>h. fds[r][m] # 0 => link[m] = fds[r][m] \/ Deleting(r, m)
    BY <1>t, <1>n DEF HolderNamed
  <1>1. CASE r # p
    <2>1. pc'[r] = pc[r] /\ fds'[r] = fds[r] /\ (Leaving(r, m)' <=> Leaving(r, m))
      BY <1>1, <1>t, Frame, FrameFirst
    <2>2. CASE Deleting(r, m)
      BY <2>1, <2>2 DEF Deleting
    <2>3. CASE link[m] = fds[r][m] /\ link'[m] # link[m]
      <3>1. Unlink(p) /\ Leaving(p, m)
        BY <2>1, <2>3, <1>t, LinkStep
      <3>2. pc[p] = "unlock" /\ fds[p][m] # 0
        BY <3>1 DEF Unlink, Leaving, First, Locked
      <3>3. fds[p][m] = link[m]
        BY <3>2, <1>t, <1>n DEF HolderNamed, Deleting
      <3> QED
        BY <3>2, <3>3, <2>3, <1>1, <1>t, OneOwner
    <2> QED
      BY <1>h, <2>1, <2>2, <2>3
  <1>2. CASE r = p
    <2> USE DEF fsVars, lostVars
    <2>1. ASSUME LockPaths(p) PROVE FALSE
      BY <2>1, <1>t, <1>2 DEF LockPaths, TypeOK
    <2>2. CASE OpenLockFile(p)
      <3>1. PICK n \in Paths : /\ Current(p, n)
                               /\ \/ link[n] # 0 /\ UNCHANGED link
                                  \/ \E f \in Files : link' = [link EXCEPT ![n] = f]
        BY <2>2 DEF OpenLockFile
      <3>2. fds' = fds /\ pc[p] = "open"
        BY <2>2 DEF OpenLockFile
      <3>3. n # m
        BY <3>1, <3>2, <1>2, <1>t DEF FlockHeld, Current, First
      <3> QED
        BY <3>1, <3>2, <3>3, <1>h, <1>2, <1>t DEF Deleting, TypeOK
    <2>3. CASE LockFile(p)
      BY <2>3, <1>h, <1>2 DEF LockFile, Deleting
    <2>4. ASSUME NEW n \in Paths, GiveUp(p, n), pc[p] \in {"open", "lock"} PROVE link'[m] = fds'[p][m]
      BY <2>4, <1>h, <1>2 DEF GiveUp, Deleting
    <2>5. ASSUME NEW n \in Paths, CheckThen(p, n, fd[p] \in token[n]) PROVE link'[m] = fds'[p][m]
      <3>1. pc[p] = "check" /\ Current(p, n) /\ link' = link
        BY <2>5 DEF CheckThen
      <3>2. CASE fds' = fds
        BY <3>1, <3>2, <1>h, <1>2 DEF Deleting
      <3>3. CASE fds' # fds
        <4>1. fd[p] \notin token[n] /\ fds' = [fds EXCEPT ![p][n] = fd[p]]
          BY <2>5, <3>3 DEF CheckThen
        <4>2. CASE m # n
          BY <4>1, <4>2, <3>1, <1>h, <1>2, <1>t DEF Deleting, TypeOK
        <4>3. CASE m = n
          <5>1. fd[p] # 0 /\ owner[n][fd[p]] = p
            BY <3>1, <1>t DEF TypeOK, FlockHeld
          <5>2. ASSUME NEW q \in Procs, pc[q] = "token", fds[q][n] = fd[p] PROVE FALSE
            BY <5>1, <5>2, <3>1, <1>t DEF FlockHeld
          <5>3. fd[p] = link[n]
            BY <5>1, <5>2, <4>1, <4>3, <3>1, <1>n, <1>t DEF OpenedKnown
          <5> QED
            BY <5>3, <4>1, <4>3, <3>1, <1>t DEF TypeOK
        <4> QED
          BY <4>2, <4>3
      <3> QED
        BY <3>2, <3>3
    <2>6. CASE Finish(p)
      BY <2>6, <1>h, <1>2 DEF Finish, Deleting
    <2>7. CASE Unlink(p)
      <3>1. fds' = fds /\ pc[p] = "unlock" /\ pc'[p] = "token"
        BY <2>7, <1>t DEF Unlink, Goto, TypeOK
      <3>2. PICK n \in Paths : Leaving(p, n) /\ link' = [link EXCEPT ![n] = 0]
        BY <2>7 DEF Unlink
      <3>3. CASE m = n
        BY <3>1, <3>2, <3>3, <1>2 DEF Deleting, Leaving, First, Locked
      <3>4. CASE m # n
        BY <3>1, <3>2, <3>4, <1>h, <1>2, <1>t DEF Deleting, TypeOK
      <3> QED
        BY <3>3, <3>4
    <2>8. CASE WriteToken(p)
      <3>1. fds' = fds /\ pc'[p] = "close" /\ link' = link
        BY <2>8, <1>t DEF WriteToken, Goto, TypeOK
      <3> QED
        BY <3>1, <1>h, <1>2 DEF Deleting, Leaving, First, Locked
    <2>9. CASE Close(p)
      <3>1. link' = link
        BY <2>9 DEF Close
      <3>2. PICK n \in Paths : Leaving(p, n) /\ fds' = [fds EXCEPT ![p][n] = 0]
        BY <2>9 DEF Close
      <3>3. m # n /\ fds'[p][m] = fds[p][m]
        BY <3>2, <1>2, <1>t DEF TypeOK
      <3>4. ~Deleting(p, m)
        BY <3>2, <3>3, FirstUnique DEF Deleting, Leaving, Locked
      <3> QED
        BY <3>1, <3>3, <3>4, <1>h, <1>2
    <2>10. CASE Unlocked(p)
      BY <2>10, <1>h, <1>2 DEF Unlocked, Deleting
    <2>11. ASSUME Die(p) PROVE FALSE
      BY <2>11, <1>t, <1>2 DEF Die, TypeOK
    <2>12. CASE TokenFails(p)
      <3>1. pc[p] = "token" /\ link'[m] = link[m] /\ ~Leaving(p, m)
        BY <2>12, <1>t, TokenFailsStep
      <3>2. fds' = fds
        <4>1. CASE fds' = [fds EXCEPT ![p] = [n \in Paths |-> 0]]
          BY <4>1, <1>2, <1>t DEF TypeOK
        <4> QED
          BY <2>12, <4>1, <1>t, TokenFailsStep
      <3> QED
        BY <3>1, <3>2, <1>h, <1>2 DEF Deleting
    <2> QED
      BY <2>1, <2>2, <2>3, <2>4, <2>5, <2>6, <2>7, <2>8, <2>9, <2>10, <2>11, <2>12, <1>2
      DEF Act, Step, LockBusy, Interrupt, CheckStale
  <1> QED
    BY <1>1, <1>2

LEMMA OpenedStep ==
  ASSUME LockInv, NEW p \in Procs, Act(p)
  PROVE OpenedKnown'
  <1> SUFFICES ASSUME NEW r \in Procs, NEW m \in Paths, m \notin torn', fd'[r] # 0, Current(r, m)'
               PROVE (\/ fd[r] = link[m]
                      \/ fd[r] \in token[m]
                      \/ \E q \in Procs : pc[q] = "token" /\ Leaving(q, m) /\ fds[q][m] = fd[r])'
    BY DEF OpenedKnown
  <1>t. TypeOK /\ FlockHeld /\ HolderNamed /\ OpenedKnown
    BY DEF LockInv
  <1>n. m \notin torn
    BY <1>t, TokenFailsStep
       DEF Act, Step, LockBusy, Interrupt, CheckStale, LockPaths, OpenLockFile, LockFile, GiveUp,
           CheckThen, Finish, Unlink, WriteToken, Close, Unlocked, Die, lostVars
  (* A process that was about to write the token did so, or still is. *)
  <1>d. ASSUME NEW q \in Procs, pc[q] = "token", Leaving(q, m)
        PROVE \/ pc'[q] = "token" /\ Leaving(q, m)' /\ fds'[q][m] = fds[q][m]
              \/ fds[q][m] \in token'[m]
    <2>1. CASE q # p
      BY <1>d, <2>1, <1>t, Frame, FrameFirst
    <2>2. CASE q = p
      <3>1. WriteToken(p) \/ Die(p) \/ TokenFails(p)
        BY <1>d, <2>2 DEF Act, Step, LockBusy, Interrupt, CheckStale, LockPaths, OpenLockFile,
           LockFile, GiveUp, CheckThen, Finish, Unlink, WriteToken, Close, Unlocked
      <3>2. ~Die(p) /\ ~TokenFails(p)
        BY <1>d, <2>2, <1>t, TokenFailsStep DEF Die
      <3>3. PICK n \in Paths : Leaving(p, n) /\ token' = [token EXCEPT ![n] = @ \cup {fds[p][n]}]
        BY <3>1, <3>2 DEF WriteToken
      <3>4. n = m
        BY <1>d, <2>2, <3>3, FirstUnique DEF Leaving, Locked
      <3> QED
        BY <3>3, <3>4, <2>2, <1>t DEF TypeOK
    <2> QED
      BY <2>1, <2>2
  <1>1. CASE r # p
    <2>1. fd'[r] = fd[r] /\ (Current(r, m)' <=> Current(r, m))
      BY <1>1, <1>t, Frame, FrameFirst
    <2>2. fd[r] \in Files
      BY <2>1, <1>t DEF TypeOK
    <2>3. \/ fd[r] = link[m]
          \/ fd[r] \in token[m]
          \/ \E q \in Procs : pc[q] = "token" /\ Leaving(q, m) /\ fds[q][m] = fd[r]
      BY <2>1, <1>n, <1>t DEF OpenedKnown
    <2>4. CASE fd[r] \in token[m]
      BY <2>1, <2>2, <2>4, <1>1, <1>t, FrameFiles
    <2>5. CASE \E q \in Procs : pc[q] = "token" /\ Leaving(q, m) /\ fds[q][m] = fd[r]
      BY <2>1, <2>5, <1>d
    <2>6. CASE fd[r] = link[m] /\ link'[m] # link[m]
      <3>1. Unlink(p) /\ Leaving(p, m)
        BY <2>1, <2>2, <2>6, <1>t, LinkStep
      <3>2. pc[p] = "unlock" /\ fds[p][m] # 0 /\ fds' = fds /\ pc'[p] = "token"
        BY <3>1, <1>t DEF Unlink, Goto, TypeOK, Leaving, First, Locked
      <3>3. fds[p][m] = link[m]
        BY <3>2, <1>t, <1>n DEF HolderNamed, Deleting
      <3>4. Leaving(p, m)'
        BY <3>1, <3>2 DEF Leaving, First, Locked
      <3> QED
        BY <3>2, <3>3, <3>4, <2>1, <2>6
    <2> QED
      BY <2>1, <2>3, <2>4, <2>5, <2>6
  <1>2. CASE r = p
    <2> USE DEF fsVars, lostVars
    <2>1. CASE OpenLockFile(p)
      <3>1. PICK n \in Paths : /\ Current(p, n)
                               /\ \/ UNCHANGED link /\ fd' = [fd EXCEPT ![p] = link[n]]
                                  \/ \E f \in Files : /\ link' = [link EXCEPT ![n] = f]
                                                      /\ fd' = [fd EXCEPT ![p] = f]
        BY <2>1 DEF OpenLockFile
      <3>2. m = n
        BY <2>1, <3>1, <1>2, <1>t, FirstUnique DEF OpenLockFile, Current, TypeOK
      <3> QED
        BY <3>1, <3>2, <1>2, <1>t DEF TypeOK
    <2>2. CASE ~OpenLockFile(p)
      (* Otherwise p keeps its file, its path and the file system. *)
      <3>1. UNCHANGED <<fd, todo, link, token>>
        <4>1. TypeOK'
          BY <1>t, TypeStep DEF Next
        <4>2. pc'[p] \in {"open", "lock", "check"}
          BY <4>1, <1>2 DEF TypeOK
        <4>3. ~LockPaths(p)
          BY <1>2, <1>t DEF LockPaths, TypeOK
        <4>4. ASSUME NEW n \in Paths, CheckThen(p, n, fd[p] \in token[n]) PROVE UNCHANGED <<fd, todo, link, token>>
          BY <4>4, <1>2, <1>t DEF CheckThen, TypeOK
        <4>5. pc' = [pc EXCEPT ![p] = "unlock"] => FALSE
          BY <4>2, <1>t DEF TypeOK
        <4>6. pc' = [pc EXCEPT ![p] = "idle"] => FALSE
          BY <4>2, <1>t DEF TypeOK
        <4>7. pc' = [pc EXCEPT ![p] = "token"] => FALSE
          BY <4>2, <1>t DEF TypeOK
        <4>8. pc' = [pc EXCEPT ![p] = "close"] => FALSE
          BY <4>2, <1>t DEF TypeOK
        <4>9. ~TokenFails(p)
          BY <1>2, <1>t, TokenFailsStep DEF TypeOK
        <4> QED
          BY <2>2, <4>3, <4>4, <4>5, <4>6, <4>7, <4>8, <4>9
          DEF Act, Step, LockBusy, Interrupt, CheckStale, GiveUp, LockFile, Finish, Unlink,
              WriteToken, Close, Unlocked, Fresh, Die, Goto
      <3>2. fd[p] # 0 /\ Current(p, m)
        BY <3>1, <1>2 DEF Current, First
      <3>3. \/ fd[p] = link[m]
            \/ fd[p] \in token[m]
            \/ \E q \in Procs : pc[q] = "token" /\ Leaving(q, m) /\ fds[q][m] = fd[p]
        BY <3>2, <1>n, <1>t DEF OpenedKnown
      <3> QED
        BY <3>1, <3>3, <1>2, <1>d
    <2> QED
      BY <2>1, <2>2
  <1> QED
    BY <1>1, <1>2

LEMMA InvStep == LockInv /\ [Next]_vars => LockInv'
  <1> SUFFICES ASSUME LockInv, [Next]_vars PROVE LockInv'
    OBVIOUS
  <1>1. CASE UNCHANGED vars
    BY <1>1 DEF vars, fsVars, lostVars, LockInv, TypeOK, FlockHeld, HolderNamed, OpenedKnown, Deleting,
                Leaving, Current, First, Locked
  <1>2. ASSUME NEW p \in Procs, Act(p) PROVE LockInv'
    BY <1>2, TypeStep, FlockStep, HolderStep, OpenedStep DEF LockInv, Next
  <1> QED
    BY <1>1, <1>2 DEF Next

LEMMA InvExclusive == LockInv => ExclusiveUnlessTorn
  BY OneOwner DEF LockInv, ExclusiveUnlessTorn, HolderNamed, Holds, Deleting

(* For any number of processes and paths the lock of a path has at most    *)
(* one holder, unless a process died inside deleteLockFile for this path,  *)
(* or an exception ended it there.                                         *)
THEOREM MutualExclusion == Spec => []ExclusiveUnlessTorn
  BY InvInit, InvStep, InvExclusive, PTL DEF Spec

(* unlock removes the name of the file whose flock it has, never that of a *)
(* file another process created meanwhile.                                 *)
THEOREM DeletionIsOwn == Spec => DeletesOwnFile
  <1>1. ASSUME LockInv, [Next]_vars
        PROVE [\A n \in Paths : link[n] # 0 /\ link'[n] = 0 /\ n \notin torn' =>
                 \E p \in Procs : owner[n][link[n]] = p /\ fds[p][n] = link[n] /\ pc'[p] = "token"]_vars
    <2> SUFFICES ASSUME NEW p \in Procs, Act(p), NEW n \in Paths,
                        link[n] # 0, link'[n] = 0, n \notin torn'
                 PROVE owner[n][link[n]] = p /\ fds[p][n] = link[n] /\ pc'[p] = "token"
      BY <1>1 DEF Next
    <2>1. Unlink(p) /\ Leaving(p, n)
      BY <1>1, LinkStep DEF LockInv
    <2>2. pc[p] = "unlock" /\ fds[p][n] # 0 /\ pc'[p] = "token"
      BY <1>1, <2>1 DEF LockInv, TypeOK, Unlink, Goto, Leaving, First, Locked
    <2>3. fds[p][n] = link[n]
      <3>1. n \notin torn
        BY <2>1 DEF Unlink, lostVars
      <3> QED
        BY <1>1, <2>2, <3>1 DEF LockInv, HolderNamed, Deleting
    <2> QED
      BY <1>1, <2>2, <2>3 DEF LockInv, FlockHeld
  <1> QED
    BY <1>1, InvInit, InvStep, PTL DEF Spec, DeletesOwnFile
-----------------------------------------------------------------------------
(* Waiting.  A step gives a flock to nobody but the process that takes it. *)
LEMMA OwnerStep ==
  ASSUME TypeOK, NEW p \in Procs, Act(p), NEW n \in Paths, NEW f \in Files, NEW q \in Procs,
         owner'[n][f] = q
  PROVE owner[n][f] = q \/ (LockFile(p) /\ q = p /\ f = fd[p] /\ Current(p, n))
  <1> DEFINE Old == owner[n][f] = q
  <1> USE DEF fsVars, lostVars
  <1>r. ASSUME NEW m \in Paths, Release(p, m) PROVE Old
    BY <1>r DEF Release, TypeOK
  <1>1. ASSUME LockFile(p) PROVE Old \/ (q = p /\ f = fd[p] /\ Current(p, n))
    <2>1. PICK m \in Paths : Current(p, m) /\ owner' = [owner EXCEPT ![m][fd[p]] = p]
      BY <1>1 DEF LockFile
    <2>2. CASE m = n /\ f = fd[p]
      BY <2>1, <2>2, <1>1 DEF LockFile, TypeOK
    <2>3. CASE ~(m = n /\ f = fd[p])
      BY <2>1, <2>3, <1>1 DEF LockFile, TypeOK
    <2> QED
      BY <2>2, <2>3
  <1>2. ASSUME OpenLockFile(p) PROVE Old
    BY <1>2, <1>r DEF OpenLockFile
  <1>3. ASSUME NEW m \in Paths, GiveUp(p, m) PROVE Old
    BY <1>3, <1>r DEF GiveUp
  <1>4. ASSUME Close(p) PROVE Old
    BY <1>4, <1>r DEF Close
  <1>5. ASSUME Die(p) PROVE Old
    BY <1>5 DEF Die, TypeOK
  <1>6. ASSUME UNCHANGED owner PROVE Old
    BY <1>6
  <1> QED
    BY <1>1, <1>2, <1>3, <1>4, <1>5, <1>6
    DEF Act, Step, LockBusy, Interrupt, CheckStale, LockPaths, CheckThen, Finish, Unlink,
        WriteToken, Unlocked, TokenFails

(* After a process has closed its file of a path it has no flock there but *)
(* one it has left open.                                                   *)
LEMMA ReleaseOwn ==
  ASSUME TypeOK, NEW p \in Procs, NEW n \in Paths, Release(p, n), NEW f \in Files
  PROVE owner'[n][f] # p \/ f \in leaked[n]
  BY DEF Release, TypeOK

LEMMA FlockOpenStep ==
  ASSUME OrderInv, NEW p \in Procs, Act(p)
  PROVE FlockOpen'
  <1> SUFFICES ASSUME NEW r \in Procs, NEW m \in Paths, NEW f \in Files, owner'[m][f] = r
               PROVE (\/ fds[r][m] = f \/ f \in leaked[m]
                      \/ pc[r] \in {"check", "open"} /\ fd[r] = f /\ Current(r, m))'
    BY DEF FlockOpen
  <1> DEFINE O == \/ fds[r][m] = f \/ f \in leaked[m]
                  \/ pc[r] \in {"check", "open"} /\ fd[r] = f /\ Current(r, m)
  <1>t. TypeOK /\ FlockHeld /\ FlockOpen
    BY DEF OrderInv, LockInv
  <1>o. CASE owner[m][f] # r
    <2>1. LockFile(p) /\ r = p /\ f = fd[p] /\ Current(p, m)
      BY <1>o, <1>t, OwnerStep
    <2>2. pc'[p] = "check" /\ fd' = fd /\ todo' = todo
      BY <2>1, <1>t DEF LockFile, Goto, TypeOK
    <2> QED
      BY <2>1, <2>2 DEF Current, First
  <1>1. CASE owner[m][f] = r /\ r # p
    <2>1. O
      BY <1>1, <1>t DEF FlockOpen
    <2> QED
      BY <1>1, <2>1, <1>t, Frame, FrameFirst, FrameFiles
  <1>2. CASE owner[m][f] = r /\ r = p
    <2> USE DEF fsVars, lostVars
    <2>k. CASE f \in leaked[m]
      <3>1. ~Die(p)
        BY <1>2, <1>t DEF Die, TypeOK
      <3>2. f \in leaked'[m]
        BY <2>k, <3>1, <1>t, TokenFailsStep
           DEF Act, Step, LockBusy, Interrupt, CheckStale, LockPaths, OpenLockFile, LockFile, GiveUp,
               CheckThen, Finish, Unlink, WriteToken, Close, Unlocked
      <3> QED
        BY <3>2
    <2> SUFFICES ASSUME f \notin leaked[m] PROVE O'
      BY <2>k
    <2>o. O
      BY <1>2, <1>t DEF FlockOpen
    <2>1. ASSUME LockPaths(p) PROVE O'
      <3>1. fds' = fds /\ fds[p][m] = 0 /\ pc[p] = "idle"
        BY <2>1, <1>t DEF LockPaths, TypeOK
      <3> QED
        BY <3>1, <2>o, <1>2
    <2>r. ASSUME NEW n \in Paths, Release(p, n), Current(p, n), fds' = fds PROVE O'
      <3>1. n # m
        BY <2>r, <1>2, <1>t, ReleaseOwn
      <3>2. ~Current(p, m)
        BY <2>r, <3>1, <1>t, FirstUnique DEF Current, TypeOK
      <3> QED
        BY <2>r, <3>2, <2>o, <1>2
    <2>2. ASSUME OpenLockFile(p) PROVE O'
      BY <2>2, <2>r DEF OpenLockFile
    <2>3. ASSUME LockFile(p) PROVE O'
      BY <2>3, <2>o, <1>2 DEF LockFile
    <2>4. ASSUME NEW n \in Paths, GiveUp(p, n) PROVE O'
      BY <2>4, <2>r DEF GiveUp
    <2>5. ASSUME NEW n \in Paths, CheckThen(p, n, fd[p] \in token[n]) PROVE O'
      <3>1. CASE fd[p] \in token[n]
        <4>1. pc'[p] = "open" /\ UNCHANGED <<todo, fd, fds>>
          BY <2>5, <3>1, <1>t DEF CheckThen, Goto, TypeOK
        <4> QED
          BY <4>1, <2>o, <1>2 DEF Current, First
      <3>2. CASE fd[p] \notin token[n]
        <4>1. fds' = [fds EXCEPT ![p][n] = fd[p]] /\ Current(p, n)
          BY <2>5, <3>2 DEF CheckThen
        <4>2. Current(p, m) => m = n
          BY <4>1, <1>t, FirstUnique DEF Current, TypeOK
        <4>3. fds[p][n] = 0
          BY <4>1, <1>t DEF FlockHeld, Current, First
        <4>4. CASE m = n
          BY <4>1, <4>3, <4>4, <2>o, <1>2, <1>t DEF TypeOK
        <4>5. CASE m # n
          BY <4>1, <4>2, <4>5, <2>o, <1>2, <1>t DEF TypeOK
        <4> QED
          BY <4>4, <4>5
      <3> QED
        BY <3>1, <3>2
    <2>6. ASSUME Close(p) PROVE O'
      <3>1. PICK n \in Paths : Release(p, n) /\ fds' = [fds EXCEPT ![p][n] = 0]
        BY <2>6 DEF Close
      <3>2. n # m
        BY <3>1, <1>2, <1>t, ReleaseOwn
      <3>3. fds[p][m] = f
        BY <2>6, <2>o, <1>2 DEF Close
      <3> QED
        BY <3>1, <3>2, <3>3, <1>2, <1>t DEF TypeOK
    <2>7. ASSUME Die(p) PROVE FALSE
      BY <2>7, <1>2, <1>t DEF Die, TypeOK
    <2>8. ASSUME Finish(p) \/ Unlink(p) \/ WriteToken(p) \/ Unlocked(p) PROVE O'
      BY <2>8, <2>o, <1>2 DEF Finish, Unlink, WriteToken, Unlocked
    <2>9. ASSUME TokenFails(p) PROVE O'
      <3>1. /\ pc[p] = "token" /\ owner' = owner /\ leaked[m] \subseteq leaked'[m]
            /\ fds[p][m] = 0 \/ fds'[p][m] = fds[p][m] \/ fds[p][m] \in leaked'[m]
        BY <2>9, <1>t, TokenFailsStep
      <3>2. fds[p][m] = f \/ f \in leaked[m]
        BY <3>1, <2>o, <1>2
      <3> QED
        BY <3>1, <3>2, <1>2
    <2> QED
      BY <2>1, <2>2, <2>3, <2>4, <2>5, <2>6, <2>7, <2>8, <2>9
      DEF Act, Step, LockBusy, Interrupt, CheckStale
  <1> QED
    BY <1>o, <1>1, <1>2

LEMMA InOrderStep ==
  ASSUME OrderInv, NEW p \in Procs, Act(p)
  PROVE LockedInOrder'
  <1> SUFFICES ASSUME NEW r \in Procs, NEW k \in Paths, NEW m \in Paths,
                      fds'[r][k] # 0, m \in todo'[r]
               PROVE k < m
    BY DEF LockedInOrder
  <1>t. TypeOK /\ FlockHeld
    BY DEF OrderInv, LockInv
  <1>o. fds[r][k] # 0 /\ m \in todo[r] => k < m
    BY DEF OrderInv, LockedInOrder
  <1>1. CASE r # p
    BY <1>1, <1>o, <1>t, Frame
  <1>2. CASE r = p
    <2> USE DEF fsVars, lostVars
    <2>1. ASSUME LockPaths(p) PROVE FALSE
      BY <2>1, <1>2, <1>t DEF LockPaths, TypeOK
    <2>2. ASSUME NEW n \in Paths, CheckThen(p, n, fd[p] \in token[n]) PROVE k < m
      <3>1. CASE fd[p] \in token[n]
        BY <2>2, <3>1, <1>o, <1>2 DEF CheckThen
      <3>2. CASE fd[p] \notin token[n]
        <4>1. /\ fds' = [fds EXCEPT ![p][n] = fd[p]] /\ Current(p, n)
              /\ todo' = [todo EXCEPT ![p] = @ \ {n}]
          BY <2>2, <3>2 DEF CheckThen
        <4>2. m \in todo[p] /\ m # n /\ n <= m
          BY <4>1, <1>2, <1>t DEF TypeOK, Current, First
        <4>3. CASE k = n
          BY <4>2, <4>3
        <4>4. CASE k # n
          BY <4>1, <4>2, <4>4, <1>o, <1>2, <1>t DEF TypeOK
        <4> QED
          BY <4>3, <4>4
      <3> QED
        BY <3>1, <3>2
    <2>3. ASSUME NEW n \in Paths, GiveUp(p, n) PROVE FALSE
      BY <2>3, <1>2, <1>t DEF GiveUp, TypeOK
    <2>4. ASSUME Close(p) PROVE k < m
      <3>1. PICK n \in Paths : fds' = [fds EXCEPT ![p][n] = 0] /\ todo' = todo
        BY <2>4 DEF Close
      <3> QED
        BY <3>1, <1>o, <1>2, <1>t DEF TypeOK
    <2>5. ASSUME Die(p) PROVE FALSE
      BY <2>5, <1>2, <1>t DEF Die, TypeOK
    <2>6. ASSUME UNCHANGED <<fds, todo>> PROVE k < m
      BY <2>6, <1>o
    <2>7. ASSUME TokenFails(p) PROVE k < m
      BY <2>7, <1>o, <1>2, <1>t, TokenFailsStep DEF TypeOK
    <2> QED
      BY <2>1, <2>2, <2>3, <2>4, <2>5, <2>6, <2>7
      DEF Act, Step, LockBusy, Interrupt, CheckStale, OpenLockFile, LockFile, Finish, Unlink,
          WriteToken, Unlocked
  <1> QED
    BY <1>1, <1>2

LEMMA OrderInit == Init => OrderInv
  <1> SUFFICES ASSUME Init PROVE OrderInv
    OBVIOUS
  <1>1. FlockOpen /\ LockedInOrder
    BY DEF Init, FlockOpen, LockedInOrder
  <1> QED
    BY <1>1, InvInit DEF OrderInv

LEMMA OrderStep == OrderInv /\ [Next]_vars => OrderInv'
  <1> SUFFICES ASSUME OrderInv, [Next]_vars PROVE OrderInv'
    OBVIOUS
  <1>1. LockInv'
    BY InvStep DEF OrderInv
  <1>2. CASE UNCHANGED vars
    BY <1>1, <1>2 DEF vars, fsVars, lostVars, OrderInv, FlockOpen, LockedInOrder, Current, First
  <1>3. ASSUME NEW p \in Procs, Act(p) PROVE OrderInv'
    BY <1>1, <1>3, FlockOpenStep, InOrderStep DEF OrderInv
  <1> QED
    BY <1>2, <1>3 DEF Next

LEMMA OrderForward == OrderInv => WaitsForward
  <1> SUFFICES ASSUME OrderInv, NEW p \in Procs, NEW q \in Procs, NEW n \in Paths, NEW m \in Paths,
                      WaitsAt(p, n), owner[n][fd[p]] = q, fd[p] \notin leaked[n],
                      WaitsAt(q, m)
               PROVE n < m
    BY DEF WaitsForward
  <1>1. fd[p] \in Files
    BY DEF OrderInv, LockInv, TypeOK, WaitsAt
  <1>2. fds[q][n] = fd[p]
    BY <1>1 DEF OrderInv, FlockOpen, WaitsAt
  <1> QED
    BY <1>1, <1>2 DEF OrderInv, LockedInOrder, WaitsAt, Current, First

(* Every chain of waiting processes goes to later and later paths, for any *)
(* number of processes, as long as no flock left open by a failed unlock   *)
(* is in it: it is never a circle, and its last process waits for one that *)
(* does not wait.                                                          *)
THEOREM WaitingGoesForward == Spec => []WaitsForward
  BY OrderInit, OrderStep, OrderForward, PTL DEF Spec
-----------------------------------------------------------------------------
(* The refinement.  holders is the substitution for the variable of        *)
(* PathLock.                                                               *)
holders == [n \in Paths |-> {p \in Procs : Holds(p, n)}]

(* The holders after a step that may change only what p holds. *)
LEMMA HoldersStep ==
  ASSUME TypeOK, NEW p \in Procs, Act(p), NEW n \in Paths
  PROVE /\ \A q \in Procs \ {p} : Holds(q, n)' <=> Holds(q, n)
        /\ (Holds(p, n)' <=> Holds(p, n)) => holders'[n] = holders[n]
        /\ Holds(p, n)' => holders'[n] = holders[n] \cup {p}
        /\ ~Holds(p, n)' => holders'[n] = holders[n] \ {p}
  <1>1. ASSUME NEW q \in Procs \ {p} PROVE Holds(q, n)' <=> Holds(q, n)
    <2>1. pc'[q] = pc[q] /\ fds'[q] = fds[q] /\ (Leaving(q, n)' <=> Leaving(q, n))
      BY Frame, FrameFirst
    <2> QED
      BY <2>1 DEF Holds
  <1>2. /\ holders[n] = {q \in Procs : Holds(q, n)}
        /\ holders'[n] = {q \in Procs : Holds(q, n)'}
    BY DEF holders
  <1> QED
    BY <1>1, <1>2

(* What p holds changes in five actions only. *)
LEMMA HoldsSame ==
  ASSUME LockInv, NEW p \in Procs, NEW n \in Paths, Act(p),
         ~Die(p), ~TokenFails(p), ~Unlink(p), ~Close(p),
         \A m \in Paths : ~(CheckThen(p, m, fd[p] \in token[m]) /\ fd[p] \notin token[m])
  PROVE (Holds(p, n)' <=> Holds(p, n)) /\ torn' = torn
  <1>t. TypeOK
    BY DEF LockInv
  <1> USE DEF fsVars, lostVars
  <1>1. fds' = fds /\ torn' = torn
    BY DEF Act, Step, LockBusy, Interrupt, CheckStale, LockPaths, OpenLockFile, LockFile, GiveUp,
           CheckThen, Finish, WriteToken, Unlocked
  <1>2. Leaving(p, n)' <=> Leaving(p, n)
    BY <1>1 DEF Leaving, First, Locked
  <1>3. pc'[p] \in {"token", "close"} <=> pc[p] \in {"token", "close"}
    BY <1>t DEF Act, Step, LockBusy, Interrupt, CheckStale, LockPaths, OpenLockFile, LockFile, GiveUp,
           CheckThen, Finish, WriteToken, Unlocked, Fresh, Goto, TypeOK
  <1> QED
    BY <1>1, <1>2, <1>3 DEF Holds

LEMMA RefineStep ==
  ASSUME LockInv, NEW p \in Procs, Act(p)
  PROVE Lock!LNext \/ UNCHANGED Lock!lvars
  <1>t. TypeOK /\ FlockHeld /\ LockInv'
    BY InvStep DEF LockInv, Next
  <1>h. holders = [n \in Paths |-> holders[n]] /\ holders' = [n \in Paths |-> holders'[n]]
    BY DEF holders
  <1> USE DEF fsVars, lostVars
  <1>1. CASE Die(p)
    <2>1. ASSUME NEW n \in Paths PROVE holders'[n] = holders[n] \ {p}
      <3>1. ~Holds(p, n)'
        BY <1>1, <1>t DEF Die, TypeOK, Holds
      <3> QED
        BY <3>1, <1>t, HoldersStep
    <2>2. holders' = [n \in Paths |-> holders[n] \ {p}]
      BY <2>1, <1>h
    <2>3. torn' = torn \/ \E n, m \in Paths : /\ p \notin holders[n] \cup holders[m]
                                             /\ torn' = torn \cup {n, m}
      <3>1. CASE \E n \in Paths : pc[p] = "token" /\ Leaving(p, n)
        <4>1. PICK n \in Paths : pc[p] = "token" /\ Leaving(p, n)
          BY <3>1
        <4>2. \A m \in Paths : Leaving(p, m) => m = n
          BY <4>1, FirstUnique DEF Leaving, Locked
        <4>3. torn' = torn \cup {n, n}
          BY <1>1, <4>1, <4>2 DEF Die
        <4>4. p \notin holders[n]
          BY <4>1 DEF holders, Holds
        <4> QED
          BY <4>3, <4>4
      <3>2. CASE ~\E n \in Paths : pc[p] = "token" /\ Leaving(p, n)
        BY <1>1, <3>2 DEF Die
      <3> QED
        BY <3>1, <3>2
    <2>4. Lock!Lose(p)
      BY <2>2, <2>3 DEF Lock!Lose, holders
    <2> QED
      BY <2>4 DEF Lock!LNext
  (* An exception in deleteLockFile: all locks go, or none. *)
  <1>6. CASE TokenFails(p)
    <2>1. PICK n \in Paths :
            /\ Leaving(p, n)
            /\ \/ LeaveOpen(p, {n}) /\ UNCHANGED link
               \/ torn' = torn \cup {n} /\ UNCHANGED <<pc, fds>>
               \/ \E m \in Paths : First(closed[p], m) /\ LeaveOpen(p, {n, m})
      BY <1>6 DEF TokenFails
    <2>2. pc[p] = "token" /\ p \notin holders[n]
      BY <1>6, <2>1 DEF TokenFails, holders, Holds
    <2>3. ASSUME NEW m \in Paths, p \notin holders[m], LeaveOpen(p, {n, m}) PROVE Lock!LNext
      <3>1. \A k \in Paths : ~Holds(p, k)'
        BY <2>3, <1>t DEF LeaveOpen, TypeOK, Holds
      <3>2. \A k \in Paths : holders'[k] = holders[k] \ {p}
        BY <3>1, <1>t, HoldersStep
      <3>3. holders' = [k \in Paths |-> holders[k] \ {p}]
        BY <3>2, <1>h
      <3>4. torn' = torn \cup {n, m}
        BY <2>3 DEF LeaveOpen
      <3>5. Lock!Lose(p)
        BY <3>3, <3>4, <2>2, <2>3 DEF Lock!Lose, holders
      <3> QED
        BY <3>5 DEF Lock!LNext
    <2>4. CASE LeaveOpen(p, {n})
      <3>1. {n} = {n, n}
        OBVIOUS
      <3> QED
        BY <2>2, <2>3, <2>4, <3>1
    <2>5. CASE torn' = torn \cup {n} /\ UNCHANGED <<pc, fds>>
      <3>1. \A k \in Paths : Holds(p, k)' <=> Holds(p, k)
        BY <2>5 DEF Holds, Leaving, First, Locked
      <3>2. holders' = holders
        BY <3>1, <1>t, <1>h, HoldersStep
      <3>3. Lock!Tear(p, n)
        BY <2>2, <2>5, <3>2 DEF Lock!Tear, holders
      <3> QED
        BY <3>3 DEF Lock!LNext
    <2>6. ASSUME NEW m \in Paths, First(closed[p], m), LeaveOpen(p, {n, m}) PROVE Lock!LNext
      <3>1. fds[p][m] = 0
        BY <2>6, <1>t DEF First, FlockHeld
      <3>2. p \notin holders[m]
        BY <3>1 DEF holders, Holds
      <3> QED
        BY <2>3, <2>6, <3>2
    <2> QED
      BY <2>1, <2>4, <2>5, <2>6
  (* Unlink and Close: at most one lock goes, and nothing else changes. *)
  <1>g. ASSUME NEW n \in Paths, ~Holds(p, n)', torn' = torn,
               \A m \in Paths \ {n} : Holds(p, m)' <=> Holds(p, m)
        PROVE Lock!LNext \/ UNCHANGED Lock!lvars
    <2>1. \A m \in Paths \ {n} : holders'[m] = holders[m]
      BY <1>g, <1>t, HoldersStep
    <2>2. holders'[n] = holders[n] \ {p}
      BY <1>g, <1>t, HoldersStep
    <2>3. holders' = [holders EXCEPT ![n] = @ \ {p}]
      BY <2>1, <2>2, <1>h
    <2>4. CASE p \in holders[n]
      <3>1. Lock!GiveBack(p, n)
        BY <2>3, <2>4, <1>g DEF Lock!GiveBack, holders
      <3> QED
        BY <3>1 DEF Lock!LNext
    <2>5. CASE p \notin holders[n]
      <3>1. holders' = holders
        BY <2>1, <2>2, <2>5, <1>h
      <3> QED
        BY <3>1, <1>g DEF Lock!lvars, holders
    <2> QED
      BY <2>4, <2>5
  <1>2. CASE Unlink(p)
    <2>1. PICK n \in Paths : Leaving(p, n)
      BY <1>2 DEF Unlink
    <2>2. fds' = fds /\ torn' = torn /\ pc[p] = "unlock" /\ pc'[p] = "token"
      BY <1>2, <1>t DEF Unlink, Goto, TypeOK
    <2>3. \A m \in Paths : Leaving(p, m)' <=> Leaving(p, m)
      BY <2>2 DEF Leaving, First, Locked
    <2>4. \A m \in Paths : Leaving(p, m) => m = n
      BY <2>1, FirstUnique DEF Leaving, Locked
    <2>5. ~Holds(p, n)' /\ \A m \in Paths \ {n} : Holds(p, m)' <=> Holds(p, m)
      BY <2>1, <2>2, <2>3, <2>4 DEF Holds
    <2> QED
      BY <2>2, <2>5, <1>g
  <1>3. CASE Close(p)
    <2>1. PICK n \in Paths : Leaving(p, n) /\ fds' = [fds EXCEPT ![p][n] = 0]
      BY <1>3 DEF Close
    <2>2. torn' = torn /\ pc'[p] = "unlock"
      BY <1>3, <1>t DEF Close, Goto, TypeOK
    <2>3. \A m \in Paths : Leaving(p, m) => m = n
      BY <2>1, FirstUnique DEF Leaving, Locked
    <2>4. fds'[p][n] = 0 /\ \A m \in Paths \ {n} : fds'[p][m] = fds[p][m]
      BY <2>1, <1>t DEF TypeOK
    <2>5. ~Holds(p, n)' /\ \A m \in Paths \ {n} : Holds(p, m)' <=> Holds(p, m)
      BY <2>2, <2>3, <2>4 DEF Holds
    <2> QED
      BY <2>2, <2>5, <1>g
  (* The check of the size: the lock is taken. *)
  <1>4. ASSUME NEW n \in Paths, CheckThen(p, n, fd[p] \in token[n]), fd[p] \notin token[n]
        PROVE Lock!LNext
    <2>1. /\ fds' = [fds EXCEPT ![p][n] = fd[p]] /\ Current(p, n) /\ torn' = torn
          /\ pc[p] = "check" /\ pc'[p] \in {"held", "open"}
      BY <1>4, <1>t DEF CheckThen, Goto, TypeOK
    <2>2. fds[p][n] = 0 /\ fd[p] # 0
      BY <2>1, <1>t DEF FlockHeld, TypeOK, Current, First
    <2>3. fds'[p][n] = fd[p] /\ \A m \in Paths \ {n} : fds'[p][m] = fds[p][m]
      BY <2>1, <1>t DEF TypeOK
    <2>4. Holds(p, n)' /\ ~Holds(p, n) /\ \A m \in Paths \ {n} : Holds(p, m)' <=> Holds(p, m)
      BY <2>1, <2>2, <2>3 DEF Holds
    <2>5. \A m \in Paths \ {n} : holders'[m] = holders[m]
      BY <2>4, <1>t, HoldersStep
    <2>6. holders'[n] = holders[n] \cup {p}
      BY <2>4, <1>t, HoldersStep
    <2>7. holders' = [holders EXCEPT ![n] = @ \cup {p}]
      BY <2>5, <2>6, <1>h
    <2>8. p \notin holders[n]
      BY <2>4 DEF holders
    <2>9. holders[n] = {} \/ n \in torn
      <3>1. ExclusiveUnlessTorn'
        BY <1>t, InvExclusive, PTL
      <3>2. ASSUME NEW q \in holders[n] PROVE n \in torn
        <4>1. q \in Procs /\ q # p /\ Holds(q, n)
          BY <3>2, <2>8 DEF holders
        <4>2. Holds(q, n)'
          BY <4>1, <1>t, HoldersStep
        <4> QED
          BY <4>1, <4>2, <3>1, <2>1, <2>4 DEF ExclusiveUnlessTorn
      <3> QED
        BY <3>2
    <2>10. Lock!Acquire(p, n)
      BY <2>1, <2>7, <2>8, <2>9 DEF Lock!Acquire, holders
    <2> QED
      BY <2>10 DEF Lock!LNext
  <1>5. CASE /\ ~Die(p) /\ ~TokenFails(p) /\ ~Unlink(p) /\ ~Close(p)
             /\ \A m \in Paths : ~(CheckThen(p, m, fd[p] \in token[m]) /\ fd[p] \notin token[m])
    <2>1. \A n \in Paths : (Holds(p, n)' <=> Holds(p, n))
      BY <1>5, HoldsSame
    <2>2. \A n \in Paths : holders'[n] = holders[n]
      BY <2>1, <1>t, HoldersStep
    <2>3. holders' = holders
      BY <2>2, <1>h
    <2>4. torn' = torn
      BY <1>5 DEF Act, Step, LockBusy, Interrupt, CheckStale, LockPaths, OpenLockFile, LockFile,
             GiveUp, CheckThen, Finish, WriteToken, Unlocked
    <2> QED
      BY <2>3, <2>4 DEF Lock!lvars, holders
  <1> QED
    BY <1>1, <1>2, <1>3, <1>4, <1>5, <1>6

(* The lock files implement the lock of PathLock: whatever processes that  *)
(* delete lock files do to those that wait for them, seen from outside a   *)
(* lock is taken when it is free, and given back.                          *)
THEOREM LocksImplementPathLock == Spec => ImplementsPathLock
  <1>1. Init => Lock!LInit
    <2> SUFFICES ASSUME Init PROVE Lock!LInit
      OBVIOUS
    <2>1. \A n \in Paths : {p \in Procs : Holds(p, n)} = {}
      BY DEF Init, Holds
    <2> QED
      BY <2>1 DEF Init, Lock!LInit
  <1>2. LockInv /\ [Next]_vars => [Lock!LNext]_(Lock!lvars)
    <2> SUFFICES ASSUME LockInv, [Next]_vars PROVE Lock!LNext \/ UNCHANGED Lock!lvars
      OBVIOUS
    <2>1. CASE UNCHANGED vars
      <3>1. \A n \in Paths, p \in Procs : Holds(p, n)' <=> Holds(p, n)
        BY <2>1 DEF vars, Holds, Leaving, First, Locked
      <3> QED
        BY <2>1, <3>1 DEF vars, lostVars, Lock!lvars
    <2>2. CASE Next
      BY <2>2, RefineStep DEF Next
    <2> QED
      BY <2>1, <2>2
  <1> QED
    BY <1>1, <1>2, InvInit, InvStep, PTL DEF Spec, ImplementsPathLock, Lock!LSpec
=============================================================================
