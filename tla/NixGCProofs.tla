------------------------------ MODULE NixGCProofs ------------------------------
(***************************************************************************)
(* Proofs about NixGC, for any clients, paths and references.  In each     *)
(* induction step the actions that touch what it is about have a step of   *)
(* their own.                                                              *)
(***************************************************************************)
EXTENDS NixGC, TLAPS

USE GCAssumption DEF store, call, client, gc, closure, found, observed

LEMMA TypeInit == Init => TypeOK
  BY DEF Init, TypeOK, TypeStore, TypeClients, TypeCollector, Rooting, Rooted, Serving

LEMMA ReturnStep ==
  ASSUME TypeClients, NEW c \in Clients, pc[c] # "idle", Return(c), UNCHANGED <<tfile, temp>>
  PROVE TypeClients'
  BY DEF Return, Goto, TypeClients

LEMMA TypeStoreStep == TypeOK /\ [Next]_vars => TypeStore'
  <1> SUFFICES ASSUME TypeOK, [Next]_vars PROVE TypeStore'
    OBVIOUS
  <1>1. ASSUME NEW c \in Clients, Receive(c) PROVE TypeStore'
    BY <1>1 DEF Receive, Acknowledge, TypeOK, TypeStore, TypeCollector, Doomed
  <1>2. ASSUME NEW c \in Clients, WakeUp(c) PROVE TypeStore'
    BY <1>2 DEF WakeUp, Acknowledge, TypeOK, TypeStore, TypeCollector, Doomed
  <1>3. ASSUME NEW c \in Clients, Write(c) PROVE TypeStore'
    BY <1>3 DEF Write, Unseen, Goto, TypeOK, TypeStore, TypeClients
  <1>4. ASSUME NEW c \in Clients, MakeSymlink(c) PROVE TypeStore'
    BY <1>4 DEF MakeSymlink, Return, Goto, TypeOK, TypeStore, TypeClients
  <1>5. ASSUME NEW c \in Clients, RestorePath(c) PROVE TypeStore'
    BY <1>5 DEF RestorePath, Goto, TypeOK, TypeStore, TypeClients
  <1>6. ASSUME NEW c \in Clients, RegisterValidPath(c) PROVE TypeStore'
    BY <1>6 DEF RegisterValidPath, Return, Throw, Goto, TypeOK, TypeStore, TypeClients
  <1>7. ASSUME NEW p \in Paths, RemoveRoot(p) PROVE TypeStore'
    BY <1>7 DEF RemoveRoot, TypeOK, TypeStore, TypeClients
  <1>8. ASSUME NEW p \in Paths, Invalidate(p) PROVE TypeStore'
    BY <1>8 DEF Invalidate, TypeOK, TypeStore, TypeClients
  <1>9. ASSUME DeleteFromStore PROVE TypeStore'
    BY <1>9 DEF DeleteFromStore, TypeOK, TypeStore, TypeClients
  <1>10. ASSUME UNCHANGED <<store, observed>> PROVE TypeStore'
    BY <1>10 DEF TypeOK, TypeStore, TypeClients
  <1>11. ASSUME NEW c \in Clients, RootShared(c) PROVE TypeStore'
    BY <1>11 DEF RootShared, Unseen, Goto, TypeOK, TypeStore, TypeClients
  <1>12. ASSUME NEW c \in Clients, DeletePath(c) PROVE TypeStore'
    BY <1>12 DEF DeletePath, Goto, TypeOK, TypeStore, TypeClients
  <1>13. ASSUME NEW c \in Clients, RestoreFails(c) PROVE TypeStore'
    BY <1>13 DEF RestoreFails, Throw, Goto, TypeOK, TypeStore, TypeClients
  <1> QED
    BY <1>1, <1>2, <1>3, <1>4, <1>5, <1>6, <1>7, <1>8, <1>9, <1>10, <1>11, <1>12, <1>13
    DEF Next, ClientStep, ServerStep, CollectorStep, vars, Begin, CreateTempRootsFile,
        LockTempRootsFile, Connect, SpuriousWakeUp, Check, Return, LockPath, Exit, Lock,
        StartServer, FindRoots, ReadTempRoots, UnlinkTempRoots, WriteDeleted, OpenStore,
        ReadEntry, VisitAlive, EndClosure, ReleasePending, VisitDead, VisitRoot, Visit, VisitNext,
        Visited, SkipDead, PathInUse, Deleted, Finished, Forget, Abort, StopServer, Reset, Kill,
        Unlock

LEMMA TypeClientsStep == TypeOK /\ [Next]_vars => TypeClients'
  <1> SUFFICES ASSUME TypeOK, [Next]_vars PROVE TypeClients'
    OBVIOUS
  <1> USE DEF Rooting, Rooted, Locking
  <1>1. ASSUME NEW c \in Clients, NEW p \in Paths, Begin(c, p) PROVE TypeClients'
    BY <1>1 DEF Begin, Goto, TypeOK, TypeClients
  <1>2. ASSUME NEW c \in Clients, CreateTempRootsFile(c) PROVE TypeClients'
    BY <1>2 DEF CreateTempRootsFile, Goto, TypeOK, TypeClients
  <1>3. ASSUME NEW c \in Clients, LockTempRootsFile(c) PROVE TypeClients'
    BY <1>3 DEF LockTempRootsFile, Goto, TypeOK, TypeClients
  <1>4. ASSUME NEW c \in Clients, RootShared(c) PROVE TypeClients'
    BY <1>4 DEF RootShared, Goto, TypeOK, TypeClients
  <1>5. ASSUME NEW c \in Clients, Connect(c) PROVE TypeClients'
    BY <1>5 DEF Connect, Goto, TypeOK, TypeClients
  <1>6. ASSUME NEW c \in Clients, Receive(c) PROVE TypeClients'
    BY <1>6 DEF Receive, Acknowledge, Goto, TypeOK, TypeClients
  <1>7. ASSUME NEW c \in Clients, WakeUp(c) PROVE TypeClients'
    BY <1>7 DEF WakeUp, Acknowledge, Goto, TypeOK, TypeClients
  <1>8. ASSUME NEW c \in Clients, Write(c) PROVE TypeClients'
    BY <1>8 DEF Write, Goto, TypeOK, TypeClients
  <1>9. ASSUME NEW c \in Clients, MakeSymlink(c) PROVE TypeClients'
    BY <1>9, ReturnStep DEF MakeSymlink, TypeOK
  <1>10. ASSUME NEW c \in Clients, Check(c) PROVE TypeClients'
    <2>1. CASE Return(c)
      BY <1>10, <2>1, ReturnStep DEF Check, TypeOK
    <2>2. CASE (Goto(c, "lock") \/ Goto(c, "repair")) /\ UNCHANGED <<path, linking, uses>>
      BY <1>10, <2>2 DEF Check, Goto, TypeOK, TypeClients
    <2> QED
      BY <1>10, <2>1, <2>2 DEF Check
  <1>11. ASSUME NEW c \in Clients, LockPath(c) PROVE TypeClients'
    <2>1. CASE Return(c)
      BY <1>11, <2>1, ReturnStep DEF LockPath, TypeOK
    <2>2. CASE Goto(c, "restore") /\ UNCHANGED <<path, linking, uses>>
      BY <1>11, <2>2 DEF LockPath, Goto, TypeOK, TypeClients
    <2> QED
      BY <1>11, <2>1, <2>2 DEF LockPath
  <1>12. ASSUME NEW c \in Clients, RestorePath(c) PROVE TypeClients'
    BY <1>12 DEF RestorePath, Goto, TypeOK, TypeClients
  <1>13. ASSUME NEW c \in Clients, RegisterValidPath(c) PROVE TypeClients'
    <2>1. CASE Refs[path[c]] \subseteq valid \cup {path[c]}
      BY <1>13, <2>1, ReturnStep DEF RegisterValidPath, TypeOK
    <2>2. CASE ~(Refs[path[c]] \subseteq valid \cup {path[c]})
      BY <1>13, <2>2 DEF RegisterValidPath, Throw, Goto, TypeOK, TypeClients
    <2> QED
      BY <2>1, <2>2
  <1>14. ASSUME NEW c \in Clients, Exit(c) PROVE TypeClients'
    BY <1>14 DEF Exit, TypeOK, TypeClients
  <1>15. ASSUME NEW c \in Clients, ReadTempRoots(c) PROVE TypeClients'
    BY <1>15 DEF ReadTempRoots, TypeOK, TypeClients
  <1>16. ASSUME StopServer PROVE TypeClients'
    BY <1>16 DEF StopServer, Reset, Forget, LetGo, TypeOK, TypeClients
  <1>17. ASSUME Abort PROVE TypeClients'
    BY <1>17 DEF Abort, ReleasePending, Notify, Forget, LetGo, TypeOK, TypeClients
  <1>18. ASSUME UNCHANGED client PROVE TypeClients'
    BY <1>18 DEF TypeOK, TypeClients
  <1>19. ASSUME NEW c \in Clients, DeletePath(c) PROVE TypeClients'
    BY <1>19 DEF DeletePath, Goto, TypeOK, TypeClients
  <1>20. ASSUME NEW c \in Clients, RestoreFails(c) PROVE TypeClients'
    BY <1>20 DEF RestoreFails, Throw, Goto, TypeOK, TypeClients
  <1>21. ASSUME NEW c \in Clients, SpuriousWakeUp(c) PROVE TypeClients'
    BY <1>21 DEF SpuriousWakeUp, Goto, TypeOK, TypeClients
  <1>22. ASSUME NEW c \in Clients, UnlinkTempRoots(c) PROVE TypeClients'
    BY <1>22 DEF UnlinkTempRoots, TypeOK, TypeClients
  <1>23. ASSUME NEW c \in Clients, WriteDeleted(c) PROVE TypeClients'
    BY <1>23 DEF WriteDeleted, TypeOK, TypeClients
  <1>24. ASSUME Finished PROVE TypeClients'
    BY <1>24 DEF Finished, Notify, Forget, LetGo, TypeOK, TypeClients
  <1>25. ASSUME Kill PROVE TypeClients'
    BY <1>25 DEF Kill, Reset, Forget, LetGo, TypeOK, TypeClients
  <1>26. ASSUME NEW p \in Paths, VisitAlive(p) PROVE TypeClients'
    BY <1>26 DEF VisitAlive, EndClosure, ReleasePending, Notify, TypeOK, TypeClients
  <1>27. ASSUME NEW p \in Paths, VisitRoot(p) PROVE TypeClients'
    BY <1>27 DEF VisitRoot, EndClosure, ReleasePending, Notify, TypeOK, TypeClients
  <1>28. ASSUME Deleted PROVE TypeClients'
    BY <1>28 DEF Deleted, EndClosure, ReleasePending, Notify, TypeOK, TypeClients
  <1> QED
    BY <1>1, <1>2, <1>3, <1>4, <1>5, <1>6, <1>7, <1>8, <1>9, <1>10, <1>11, <1>12, <1>13, <1>14,
       <1>15, <1>16, <1>17, <1>18, <1>19, <1>20, <1>21, <1>22, <1>23, <1>24, <1>25, <1>26, <1>27,
       <1>28
    DEF Next, ClientStep, ServerStep, CollectorStep, vars, RemoveRoot, Lock, StartServer,
        FindRoots, OpenStore, ReadEntry, VisitDead, Visit, VisitNext, Visited, SkipDead,
        PathInUse, Invalidate, DeleteFromStore, Unlock

LEMMA TypeCollectorStep == TypeOK /\ [Next]_vars => TypeCollector'
  <1> SUFFICES ASSUME TypeOK, [Next]_vars PROVE TypeCollector'
    OBVIOUS
  <1> USE DEF Deciding, Walking, Serving, RootsRead
  <1>1. ASSUME NEW c \in Clients, Receive(c) PROVE TypeCollector'
    BY <1>1 DEF Receive, TypeOK, TypeCollector, TypeClients
  <1>2. ASSUME NEW c \in Clients, ReadTempRoots(c) PROVE TypeCollector'
    BY <1>2 DEF ReadTempRoots, TypeOK, TypeCollector, TypeClients
  <1>3. ASSUME NEW p \in Paths, ReadEntry(p) PROVE TypeCollector'
    BY <1>3 DEF ReadEntry, TypeOK, TypeCollector
  <1>4. ASSUME NEW p \in Paths, VisitAlive(p) PROVE TypeCollector'
    BY <1>4 DEF VisitAlive, EndClosure, ReleasePending, Notify, TypeOK, TypeCollector
  <1>5. ASSUME NEW p \in Paths, VisitDead(p) PROVE TypeCollector'
    BY <1>5 DEF VisitDead, TypeOK, TypeCollector
  <1>6. ASSUME NEW p \in Paths, VisitRoot(p) PROVE TypeCollector'
    BY <1>6 DEF VisitRoot, EndClosure, ReleasePending, Notify, TypeOK, TypeCollector, FSClosure
  <1>7. ASSUME NEW p \in Paths, Visit(p) PROVE TypeCollector'
    BY <1>7 DEF Visit, VisitNext, TypeOK, TypeCollector, TypeStore, Found, Referrers
  <1>8. ASSUME NEW p \in Paths, SkipDead(p) PROVE TypeCollector'
    BY <1>8 DEF SkipDead, TypeOK, TypeCollector, NextOf
  <1>9. ASSUME NEW p \in Paths, PathInUse(p) PROVE TypeCollector'
    BY <1>9 DEF PathInUse, TypeOK, TypeCollector, NextOf
  <1>10. ASSUME NEW p \in Paths, Invalidate(p) PROVE TypeCollector'
    BY <1>10 DEF Invalidate, TypeOK, TypeCollector, NextOf
  <1>11. ASSUME Lock PROVE TypeCollector'
    BY <1>11 DEF Lock, TypeOK, TypeCollector
  <1>12. ASSUME StartServer PROVE TypeCollector'
    BY <1>12 DEF StartServer, TypeOK, TypeCollector
  <1>13. ASSUME FindRoots PROVE TypeCollector'
    BY <1>13 DEF FindRoots, TypeOK, TypeCollector, TypeStore
  <1>14. ASSUME OpenStore PROVE TypeCollector'
    BY <1>14 DEF OpenStore, TypeOK, TypeCollector, TypeStore
  <1>15. ASSUME Visited PROVE TypeCollector'
    BY <1>15 DEF Visited, TypeOK, TypeCollector
  <1>16. ASSUME DeleteFromStore PROVE TypeCollector'
    BY <1>16 DEF DeleteFromStore, TypeOK, TypeCollector
  <1>17. ASSUME Deleted PROVE TypeCollector'
    BY <1>17 DEF Deleted, EndClosure, ReleasePending, Notify, TypeOK, TypeCollector
  <1>18. ASSUME StopServer PROVE TypeCollector'
    BY <1>18 DEF StopServer, Reset, Forget, LetGo, TypeOK, TypeCollector
  <1>19. ASSUME Abort PROVE TypeCollector'
    BY <1>19 DEF Abort, ReleasePending, Notify, Forget, LetGo, TypeOK, TypeCollector
  <1>20. ASSUME Unlock PROVE TypeCollector'
    BY <1>20 DEF Unlock, TypeOK, TypeCollector
  <1>21. ASSUME UNCHANGED gc PROVE TypeCollector'
    BY <1>21 DEF TypeOK, TypeCollector
  <1>22. ASSUME NEW c \in Clients, WriteDeleted(c) PROVE TypeCollector'
    BY <1>22 DEF WriteDeleted, TypeOK, TypeCollector
  <1>23. ASSUME Finished PROVE TypeCollector'
    BY <1>23 DEF Finished, Notify, Forget, LetGo, TypeOK, TypeCollector
  <1>24. ASSUME Kill PROVE TypeCollector'
    BY <1>24 DEF Kill, Reset, Forget, LetGo, TypeOK, TypeCollector
  <1> QED
    BY <1>1, <1>2, <1>3, <1>4, <1>5, <1>6, <1>7, <1>8, <1>9, <1>10, <1>11, <1>12, <1>13, <1>14,
       <1>15, <1>16, <1>17, <1>18, <1>19, <1>20, <1>21, <1>22, <1>23, <1>24
    DEF Next, ClientStep, ServerStep, CollectorStep, vars, Begin, CreateTempRootsFile,
        LockTempRootsFile, RootShared, Connect, SpuriousWakeUp, WakeUp, Acknowledge, Write,
        MakeSymlink, Return, Check, LockPath, DeletePath, RestorePath, RestoreFails, Throw,
        RegisterValidPath, Exit, RemoveRoot, UnlinkTempRoots

LEMMA TypeStep == TypeOK /\ [Next]_vars => TypeOK'
  BY TypeStoreStep, TypeClientsStep, TypeCollectorStep DEF TypeOK

(* The types; whatever is queued was visited. *)
THEOREM TypeCorrect == Spec => []TypeOK
  BY TypeInit, TypeStep, PTL DEF Spec

-----------------------------------------------------------------------------
(* References *)

LEMMA ClosedStep == TypeOK /\ StoreClosed /\ [Next]_vars => StoreClosed'
  <1> SUFFICES ASSUME TypeOK, StoreClosed, [Next]_vars PROVE StoreClosed'
    OBVIOUS
  <1>1. ASSUME NEW c \in Clients, RegisterValidPath(c) PROVE StoreClosed'
    BY <1>1 DEF RegisterValidPath, Return, Throw, Goto, TypeOK, TypeStore, StoreClosed, Closed
  <1>2. ASSUME NEW p \in Paths, Invalidate(p) PROVE StoreClosed'
    BY <1>2 DEF Invalidate, Referrers, TypeOK, TypeStore, StoreClosed, Closed
  <1>3. ASSUME UNCHANGED valid PROVE StoreClosed'
    BY <1>3 DEF TypeOK, TypeStore, StoreClosed, Closed
  <1> QED
    BY <1>1, <1>2, <1>3
    DEF Next, ClientStep, ServerStep, CollectorStep, vars, Begin, CreateTempRootsFile,
        LockTempRootsFile, RootShared, Connect, Receive, Acknowledge, SpuriousWakeUp, WakeUp,
        Write, MakeSymlink, Return, Check, LockPath, DeletePath, RestorePath, RestoreFails, Throw,
        Exit, RemoveRoot, Lock, StartServer, FindRoots, ReadTempRoots, UnlinkTempRoots,
        WriteDeleted, OpenStore, ReadEntry, VisitAlive, EndClosure, ReleasePending, VisitDead,
        VisitRoot, Visit, VisitNext, Visited, SkipDead, PathInUse, DeleteFromStore, Deleted,
        Finished, Forget, Abort, StopServer, Reset, Kill, Unlock

(* For any reference graph: references of valid paths stay valid, whatever *)
(* clients and collectors do at the same time.                             *)
THEOREM ReferencesValid == Spec => []StoreClosed
  <1>1. Init => StoreClosed
    BY DEF Init, StoreClosed
  <1> QED
    BY <1>1, TypeInit, TypeStep, ClosedStep, PTL DEF Spec

-----------------------------------------------------------------------------
(* Phases and files *)

LEMMA PhasesStep == TypeOK /\ PhasesKept /\ [Next]_vars => PhasesKept'
  <1> SUFFICES ASSUME TypeOK, PhasesKept, [Next]_vars PROVE PhasesKept'
    OBVIOUS
  <1> USE DEF Deciding, Walking, Serving, RootsRead
  <1>1. ASSUME NEW c \in Clients, ReadTempRoots(c) PROVE PhasesKept'
    BY <1>1 DEF ReadTempRoots, TypeOK, TypeCollector, PhasesKept
  <1>2. ASSUME NEW p \in Paths, ReadEntry(p) PROVE PhasesKept'
    BY <1>2 DEF ReadEntry, TypeOK, TypeCollector, PhasesKept
  <1>3. ASSUME NEW p \in Paths, VisitAlive(p) PROVE PhasesKept'
    BY <1>3 DEF VisitAlive, EndClosure, ReleasePending, Notify, TypeOK, TypeCollector, PhasesKept
  <1>4. ASSUME NEW p \in Paths, VisitDead(p) PROVE PhasesKept'
    BY <1>4 DEF VisitDead, TypeOK, TypeCollector, PhasesKept
  <1>5. ASSUME NEW p \in Paths, VisitRoot(p) PROVE PhasesKept'
    BY <1>5 DEF VisitRoot, EndClosure, ReleasePending, Notify, TypeOK, TypeCollector, PhasesKept
  <1>6. ASSUME NEW p \in Paths, Visit(p) PROVE PhasesKept'
    BY <1>6 DEF Visit, VisitNext, TypeOK, TypeCollector, PhasesKept
  <1>7. ASSUME NEW p \in Paths, SkipDead(p) PROVE PhasesKept'
    BY <1>7 DEF SkipDead, TypeOK, TypeCollector, PhasesKept
  <1>8. ASSUME NEW p \in Paths, PathInUse(p) PROVE PhasesKept'
    BY <1>8 DEF PathInUse, TypeOK, TypeCollector, PhasesKept
  <1>9. ASSUME NEW p \in Paths, Invalidate(p) PROVE PhasesKept'
    BY <1>9 DEF Invalidate, TypeOK, TypeCollector, PhasesKept
  <1>10. ASSUME Lock PROVE PhasesKept'
    BY <1>10 DEF Lock, TypeOK, TypeCollector, PhasesKept
  <1>11. ASSUME StartServer PROVE PhasesKept'
    BY <1>11 DEF StartServer, TypeOK, TypeCollector, PhasesKept
  <1>12. ASSUME FindRoots PROVE PhasesKept'
    BY <1>12 DEF FindRoots, TypeOK, TypeCollector, PhasesKept
  <1>13. ASSUME OpenStore PROVE PhasesKept'
    BY <1>13 DEF OpenStore, TypeOK, TypeCollector, PhasesKept
  <1>14. ASSUME Visited PROVE PhasesKept'
    BY <1>14 DEF Visited, TypeOK, TypeCollector, PhasesKept
  <1>15. ASSUME DeleteFromStore PROVE PhasesKept'
    BY <1>15 DEF DeleteFromStore, TypeOK, TypeCollector, PhasesKept
  <1>16. ASSUME Deleted PROVE PhasesKept'
    BY <1>16 DEF Deleted, EndClosure, ReleasePending, Notify, TypeOK, TypeCollector, PhasesKept
  <1>17. ASSUME StopServer PROVE PhasesKept'
    BY <1>17 DEF StopServer, Reset, Forget, LetGo, TypeOK, TypeCollector, PhasesKept
  <1>18. ASSUME Abort PROVE PhasesKept'
    BY <1>18 DEF Abort, ReleasePending, Notify, Forget, LetGo, TypeOK, TypeCollector, PhasesKept
  <1>19. ASSUME Unlock PROVE PhasesKept'
    BY <1>19 DEF Unlock, TypeOK, TypeCollector, PhasesKept
  <1>20. ASSUME UNCHANGED <<gpc, unread, visited, pending, alive>> PROVE PhasesKept'
    BY <1>20 DEF TypeOK, TypeCollector, PhasesKept
  <1>21. ASSUME NEW c \in Clients, WriteDeleted(c) PROVE PhasesKept'
    BY <1>21 DEF WriteDeleted, TypeOK, TypeCollector, PhasesKept
  <1>22. ASSUME Finished PROVE PhasesKept'
    BY <1>22 DEF Finished, Notify, Forget, LetGo, TypeOK, TypeCollector, PhasesKept
  <1>23. ASSUME Kill PROVE PhasesKept'
    BY <1>23 DEF Kill, Reset, Forget, LetGo, TypeOK, TypeCollector, PhasesKept
  <1> QED
    BY <1>1, <1>2, <1>3, <1>4, <1>5, <1>6, <1>7, <1>8, <1>9, <1>10, <1>11, <1>12, <1>13, <1>14,
       <1>15, <1>16, <1>17, <1>18, <1>19, <1>20, <1>21, <1>22, <1>23
    DEF Next, ClientStep, ServerStep, CollectorStep, vars, Begin, CreateTempRootsFile,
        LockTempRootsFile, RootShared, Connect, Receive, Acknowledge, SpuriousWakeUp, WakeUp,
        Write, MakeSymlink, Return, Check, LockPath, DeletePath, RestorePath, RestoreFails, Throw,
        RegisterValidPath, Exit, RemoveRoot, UnlinkTempRoots

LEMMA FilesStep == TypeOK /\ FilesLocked /\ [Next]_vars => FilesLocked'
  <1> SUFFICES ASSUME TypeOK, FilesLocked, [Next]_vars PROVE FilesLocked'
    OBVIOUS
  <1> USE DEF Rooted, Locking, Rooting, HasFile
  <1>1. ASSUME NEW c \in Clients, NEW p \in Paths, Begin(c, p) PROVE FilesLocked'
    BY <1>1 DEF Begin, Goto, TypeOK, TypeClients, FilesLocked
  <1>2. ASSUME NEW c \in Clients, CreateTempRootsFile(c) PROVE FilesLocked'
    BY <1>2 DEF CreateTempRootsFile, Goto, TypeOK, TypeClients, FilesLocked
  <1>3. ASSUME NEW c \in Clients, LockTempRootsFile(c) PROVE FilesLocked'
    BY <1>3 DEF LockTempRootsFile, Goto, TypeOK, TypeClients, FilesLocked
  <1>4. ASSUME NEW c \in Clients, RootShared(c) PROVE FilesLocked'
    BY <1>4 DEF RootShared, Goto, TypeOK, TypeClients, FilesLocked
  <1>5. ASSUME NEW c \in Clients, Connect(c) PROVE FilesLocked'
    BY <1>5 DEF Connect, Goto, TypeOK, TypeClients, FilesLocked
  <1>6. ASSUME NEW c \in Clients, Receive(c) PROVE FilesLocked'
    BY <1>6 DEF Receive, Acknowledge, Goto, TypeOK, TypeClients, FilesLocked
  <1>7. ASSUME NEW c \in Clients, WakeUp(c) PROVE FilesLocked'
    BY <1>7 DEF WakeUp, Acknowledge, Goto, TypeOK, TypeClients, FilesLocked
  <1>8. ASSUME NEW c \in Clients, Write(c) PROVE FilesLocked'
    BY <1>8 DEF Write, Goto, TypeOK, TypeClients, FilesLocked
  <1>9. ASSUME NEW c \in Clients, MakeSymlink(c) PROVE FilesLocked'
    BY <1>9 DEF MakeSymlink, Return, Goto, TypeOK, TypeClients, FilesLocked
  <1>10. ASSUME NEW c \in Clients, Check(c) PROVE FilesLocked'
    BY <1>10 DEF Check, Return, Goto, TypeOK, TypeClients, FilesLocked
  <1>11. ASSUME NEW c \in Clients, LockPath(c) PROVE FilesLocked'
    BY <1>11 DEF LockPath, Return, Goto, TypeOK, TypeClients, FilesLocked
  <1>12. ASSUME NEW c \in Clients, RestorePath(c) PROVE FilesLocked'
    BY <1>12 DEF RestorePath, Goto, TypeOK, TypeClients, FilesLocked
  <1>13. ASSUME NEW c \in Clients, RegisterValidPath(c) PROVE FilesLocked'
    BY <1>13 DEF RegisterValidPath, Return, Throw, Goto, TypeOK, TypeClients, FilesLocked
  <1>14. ASSUME NEW c \in Clients, Exit(c) PROVE FilesLocked'
    BY <1>14 DEF Exit, TypeOK, TypeClients, FilesLocked
  <1>15. ASSUME NEW c \in Clients, ReadTempRoots(c) PROVE FilesLocked'
    BY <1>15 DEF ReadTempRoots, TypeOK, TypeClients, FilesLocked
  <1>16. ASSUME StopServer PROVE FilesLocked'
    BY <1>16 DEF StopServer, Reset, Forget, LetGo, TypeOK, TypeClients, FilesLocked
  <1>17. ASSUME Abort PROVE FilesLocked'
    BY <1>17 DEF Abort, ReleasePending, Notify, Forget, LetGo, TypeOK, TypeClients, FilesLocked
  <1>18. ASSUME UNCHANGED client PROVE FilesLocked'
    BY <1>18 DEF TypeOK, TypeClients, FilesLocked
  <1>19. ASSUME NEW c \in Clients, DeletePath(c) PROVE FilesLocked'
    BY <1>19 DEF DeletePath, Goto, TypeOK, TypeClients, FilesLocked
  <1>20. ASSUME NEW c \in Clients, RestoreFails(c) PROVE FilesLocked'
    BY <1>20 DEF RestoreFails, Throw, Goto, TypeOK, TypeClients, FilesLocked
  <1>21. ASSUME NEW c \in Clients, SpuriousWakeUp(c) PROVE FilesLocked'
    BY <1>21 DEF SpuriousWakeUp, Goto, TypeOK, TypeClients, FilesLocked
  <1>22. ASSUME NEW c \in Clients, UnlinkTempRoots(c) PROVE FilesLocked'
    BY <1>22 DEF UnlinkTempRoots, TypeOK, TypeClients, FilesLocked
  <1>23. ASSUME NEW c \in Clients, WriteDeleted(c) PROVE FilesLocked'
    BY <1>23 DEF WriteDeleted, TypeOK, TypeClients, FilesLocked
  <1>24. ASSUME Finished PROVE FilesLocked'
    BY <1>24 DEF Finished, Notify, Forget, LetGo, TypeOK, TypeClients, FilesLocked
  <1>25. ASSUME Kill PROVE FilesLocked'
    BY <1>25 DEF Kill, Reset, Forget, LetGo, TypeOK, TypeClients, FilesLocked
  <1>26. ASSUME NEW p \in Paths, VisitAlive(p) PROVE FilesLocked'
    BY <1>26 DEF VisitAlive, EndClosure, ReleasePending, Notify, TypeOK, TypeClients, FilesLocked
  <1>27. ASSUME NEW p \in Paths, VisitRoot(p) PROVE FilesLocked'
    BY <1>27 DEF VisitRoot, EndClosure, ReleasePending, Notify, TypeOK, TypeClients, FilesLocked
  <1>28. ASSUME Deleted PROVE FilesLocked'
    BY <1>28 DEF Deleted, EndClosure, ReleasePending, Notify, TypeOK, TypeClients, FilesLocked
  <1> QED
    BY <1>1, <1>2, <1>3, <1>4, <1>5, <1>6, <1>7, <1>8, <1>9, <1>10, <1>11, <1>12, <1>13, <1>14,
       <1>15, <1>16, <1>17, <1>18, <1>19, <1>20, <1>21, <1>22, <1>23, <1>24, <1>25, <1>26, <1>27,
       <1>28
    DEF Next, ClientStep, ServerStep, CollectorStep, vars, RemoveRoot, Lock, StartServer,
        FindRoots, OpenStore, ReadEntry, VisitDead, Visit, VisitNext, Visited, SkipDead,
        PathInUse, Invalidate, DeleteFromStore, Unlock

-----------------------------------------------------------------------------
(* Locks and waits.  A client step of one of these forms leaves both       *)
(* invariants alone.                                                       *)

LEMMA GotoKeeps ==
  ASSUME TypeOK, LocksApart, SleepsInWalk, NEW c \in Clients, NEW l, Goto(c, l), UNCHANGED gpc,
         l # "waiting",
         l \in Locking => pc[c] \in Locking /\ path' = path,
         \A d \in Clients \ {c} : path'[d] = path[d]
  PROVE LocksApart' /\ SleepsInWalk'
  BY DEF Goto, TypeOK, TypeClients, LocksApart, SleepsInWalk

LEMMA WaitStep ==
  TypeOK /\ PhasesKept /\ LocksApart /\ SleepsInWalk /\ [Next]_vars => LocksApart' /\ SleepsInWalk'
  <1> SUFFICES ASSUME TypeOK, PhasesKept, LocksApart, SleepsInWalk, [Next]_vars
               PROVE  LocksApart' /\ SleepsInWalk'
    OBVIOUS
  <1> USE DEF Locking
  <1>g. ASSUME NEW c \in Clients, NEW l, Goto(c, l), UNCHANGED <<gpc, path>>, l # "waiting",
               l \in Locking => pc[c] \in Locking
        PROVE LocksApart' /\ SleepsInWalk'
    BY <1>g, GotoKeeps
  <1>r. ASSUME NEW c \in Clients, Goto(c, "idle"), path' = [path EXCEPT ![c] = None], UNCHANGED gpc
        PROVE LocksApart' /\ SleepsInWalk'
    BY <1>r, GotoKeeps DEF TypeOK, TypeClients
  <1>1. ASSUME NEW c \in Clients, NEW p \in Paths, Begin(c, p) PROVE LocksApart' /\ SleepsInWalk'
    <2>1. PICK l \in {"file", "shared"} : Goto(c, l)
      BY <1>1 DEF Begin
    <2> QED
      BY <1>1, <2>1, GotoKeeps DEF Begin, TypeOK, TypeClients
  <1>2. ASSUME NEW c \in Clients, CreateTempRootsFile(c) PROVE LocksApart' /\ SleepsInWalk'
    BY <1>2, <1>g DEF CreateTempRootsFile
  <1>3. ASSUME NEW c \in Clients, LockTempRootsFile(c) PROVE LocksApart' /\ SleepsInWalk'
    BY <1>3, <1>g DEF LockTempRootsFile
  <1>4. ASSUME NEW c \in Clients, RootShared(c) \/ Connect(c) \/ Write(c) \/ SpuriousWakeUp(c)
        PROVE LocksApart' /\ SleepsInWalk'
    BY <1>4, <1>g DEF RootShared, Connect, Write, SpuriousWakeUp
  <1>5. ASSUME NEW c \in Clients, Goto(c, "waiting"), pending = path[c], UNCHANGED <<gpc, path>>, pc[c] # "idle"
        PROVE LocksApart' /\ SleepsInWalk'
    <2>1. pending # None
      BY <1>5 DEF TypeOK, TypeClients
    <2>2. gpc \in Walking
      BY <2>1 DEF PhasesKept
    <2> QED
      BY <1>5, <2>2 DEF Goto, TypeOK, TypeClients, LocksApart, SleepsInWalk
  <1>6. ASSUME NEW c \in Clients, Receive(c) PROVE LocksApart' /\ SleepsInWalk'
    BY <1>6, <1>5, <1>g DEF Receive, Acknowledge
  <1>7. ASSUME NEW c \in Clients, WakeUp(c) PROVE LocksApart' /\ SleepsInWalk'
    BY <1>7, <1>5, <1>g DEF WakeUp, Acknowledge
  <1>8. ASSUME NEW c \in Clients, MakeSymlink(c) \/ RegisterValidPath(c) \/ RestoreFails(c)
        PROVE LocksApart' /\ SleepsInWalk'
    BY <1>8, <1>r DEF MakeSymlink, RegisterValidPath, RestoreFails, Return, Throw
  <1>9. ASSUME NEW c \in Clients, Check(c) PROVE LocksApart' /\ SleepsInWalk'
    BY <1>9, <1>g, <1>r DEF Check, Return
  <1>10. ASSUME NEW c \in Clients, LockPath(c) PROVE LocksApart' /\ SleepsInWalk'
    <2>1. CASE Return(c)
      BY <1>10, <2>1, <1>r DEF LockPath, Return
    <2>2. CASE Goto(c, "restore") /\ UNCHANGED path
      BY <1>10, <2>2 DEF LockPath, Goto, TypeOK, TypeClients, LocksApart, SleepsInWalk
    <2> QED
      BY <1>10, <2>1, <2>2 DEF LockPath
  <1>11. ASSUME NEW c \in Clients, DeletePath(c) \/ RestorePath(c) PROVE LocksApart' /\ SleepsInWalk'
    BY <1>11, <1>g DEF DeletePath, RestorePath
  <1>12. ASSUME NEW c \in Clients, Exit(c) PROVE LocksApart' /\ SleepsInWalk'
    BY <1>12, <1>r DEF Exit, Goto
  (* notify_all, and the end of the collector *)
  <1>n. ASSUME Notify, UNCHANGED path PROVE LocksApart' /\ SleepsInWalk'
    BY <1>n DEF Notify, TypeOK, TypeClients, LocksApart, SleepsInWalk
  <1>13. ASSUME NEW p \in Paths, VisitAlive(p) \/ VisitRoot(p) PROVE LocksApart' /\ SleepsInWalk'
    BY <1>13, <1>n DEF VisitAlive, VisitRoot, EndClosure, ReleasePending
  <1>14. ASSUME Deleted \/ Finished \/ Abort PROVE LocksApart' /\ SleepsInWalk'
    BY <1>14, <1>n DEF Deleted, Finished, Abort, EndClosure, ReleasePending, Forget
  <1>15. ASSUME StopServer \/ Kill PROVE LocksApart' /\ SleepsInWalk'
    BY <1>15 DEF StopServer, Kill, Reset, Forget, TypeOK, TypeClients, LocksApart, SleepsInWalk
  <1>16. ASSUME UNCHANGED <<pc, path>>, gpc \in Walking => gpc' \in Walking
         PROVE LocksApart' /\ SleepsInWalk'
    BY <1>16 DEF LocksApart, SleepsInWalk
  <1>17. ASSUME NEW p \in Paths, \/ RemoveRoot(p) \/ ReadEntry(p) \/ VisitDead(p) \/ Visit(p)
                                \/ SkipDead(p) \/ PathInUse(p) \/ Invalidate(p)
         PROVE LocksApart' /\ SleepsInWalk'
    BY <1>17, <1>16 DEF RemoveRoot, ReadEntry, VisitDead, Visit, VisitNext, SkipDead, PathInUse,
       Invalidate, Walking
  <1>18. ASSUME \/ Lock \/ StartServer \/ FindRoots \/ OpenStore \/ Visited \/ DeleteFromStore \/ Unlock
                \/ \E c \in Clients : ReadTempRoots(c) \/ UnlinkTempRoots(c) \/ WriteDeleted(c)
         PROVE LocksApart' /\ SleepsInWalk'
    BY <1>18, <1>16 DEF Lock, StartServer, FindRoots, OpenStore, Visited, DeleteFromStore, Unlock,
       ReadTempRoots, UnlinkTempRoots, WriteDeleted, Walking
  <1>19. CASE UNCHANGED vars
    BY <1>19, <1>16 DEF vars
  <1> QED
    BY <1>1, <1>2, <1>3, <1>4, <1>6, <1>7, <1>8, <1>9, <1>10, <1>11, <1>12, <1>13, <1>14, <1>15,
       <1>17, <1>18, <1>19
    DEF Next, ClientStep, ServerStep, CollectorStep

-----------------------------------------------------------------------------
(* Roots *)

LEMMA LateGrows == TypeOK /\ [Next]_vars /\ late' = {} => late = {}
  <1> SUFFICES ASSUME TypeOK, [Next]_vars, late' = {} PROVE late = {}
    OBVIOUS
  <1>1. ASSUME NEW c \in Clients, Receive(c) PROVE late = {}
    BY <1>1 DEF Receive, Acknowledge, Goto
  <1>2. ASSUME NEW c \in Clients, WakeUp(c) PROVE late = {}
    BY <1>2 DEF WakeUp, Acknowledge, Goto
  <1>3. ASSUME NEW c \in Clients, Write(c) PROVE late = {}
    BY <1>3 DEF Write, Goto
  <1>4. ASSUME NEW c \in Clients, MakeSymlink(c) PROVE late = {}
    BY <1>4 DEF MakeSymlink, Return, Goto
  <1>5. ASSUME UNCHANGED late PROVE late = {}
    BY <1>5
  <1>6. ASSUME NEW c \in Clients, RootShared(c) PROVE late = {}
    BY <1>6 DEF RootShared, Goto
  <1> QED
    BY <1>1, <1>2, <1>3, <1>4, <1>5, <1>6
    DEF Next, ClientStep, ServerStep, CollectorStep, vars, Begin, CreateTempRootsFile,
        LockTempRootsFile, Connect, SpuriousWakeUp, Check, Return, LockPath, DeletePath,
        RestorePath, RestoreFails, Throw, RegisterValidPath, Exit, RemoveRoot, Lock, StartServer,
        FindRoots, ReadTempRoots, UnlinkTempRoots, WriteDeleted, OpenStore, ReadEntry, VisitAlive,
        EndClosure, ReleasePending, VisitDead, VisitRoot, Visit, VisitNext, Visited, SkipDead,
        PathInUse, Invalidate, DeleteFromStore, Deleted, Finished, Forget, Abort, StopServer,
        Reset, Kill, Unlock

LEMMA RootsSeenStep == GCInv /\ [Next]_vars /\ late' = {} => RootsSeen'
  <1> SUFFICES ASSUME GCInv, [Next]_vars, late' = {} PROVE RootsSeen'
    OBVIOUS
  <1>a. TypeOK /\ FilesLocked /\ PhasesKept /\ SafeNow /\ late = {}
    BY LateGrows DEF GCInv
  <1> USE DEF Deciding, Walking, RootsRead, Serving, TypeOK, RootsSeen
  <1>1. ASSUME NEW c \in Clients, RootShared(c) PROVE RootsSeen'
    BY <1>1, <1>a DEF RootShared, Unseen, Goto, SafeNow, TypeClients
  <1>2. ASSUME NEW c \in Clients, Receive(c) PROVE RootsSeen'
    BY <1>2, <1>a DEF Receive, Acknowledge, Goto, SafeNow
  <1>3. ASSUME NEW c \in Clients, Write(c) PROVE RootsSeen'
    BY <1>3, <1>a DEF Write, Unseen, Goto, SafeNow, TypeClients
  <1>4. ASSUME NEW c \in Clients, MakeSymlink(c) PROVE RootsSeen'
    BY <1>4, <1>a DEF MakeSymlink, Return, Goto, SafeNow, TypeClients, FilesLocked, Rooted
  <1>5. ASSUME NEW c \in Clients, Exit(c) PROVE RootsSeen'
    BY <1>5, <1>a DEF Exit, SafeNow, TypeClients
  <1>6. ASSUME NEW c \in Clients, ReadTempRoots(c) PROVE RootsSeen'
    BY <1>6, <1>a DEF ReadTempRoots, SafeNow, TypeClients, FilesLocked, HasFile
  <1>7. ASSUME NEW p \in Paths, RemoveRoot(p) PROVE RootsSeen'
    BY <1>7, <1>a DEF RemoveRoot, SafeNow
  <1>8. ASSUME NEW p \in Paths, ReadEntry(p) PROVE RootsSeen'
    BY <1>8, <1>a DEF ReadEntry, SafeNow
  <1>9. ASSUME NEW p \in Paths, VisitAlive(p) PROVE RootsSeen'
    BY <1>9, <1>a DEF VisitAlive, EndClosure, ReleasePending, Notify, SafeNow
  <1>10. ASSUME NEW p \in Paths, VisitRoot(p) PROVE RootsSeen'
    BY <1>10, <1>a DEF VisitRoot, EndClosure, ReleasePending, Notify, SafeNow
  <1>11. ASSUME NEW p \in Paths, Invalidate(p) PROVE RootsSeen'
    BY <1>11, <1>a DEF Invalidate, SafeNow
  <1>12. ASSUME Lock PROVE RootsSeen'
    BY <1>12, <1>a DEF Lock, SafeNow
  <1>13. ASSUME StartServer PROVE RootsSeen'
    BY <1>13, <1>a DEF StartServer, SafeNow
  <1>14. ASSUME FindRoots PROVE RootsSeen'
    BY <1>14, <1>a DEF FindRoots, SafeNow, RootsKept
  <1>15. ASSUME OpenStore PROVE RootsSeen'
    BY <1>15, <1>a DEF OpenStore, SafeNow
  <1>16. ASSUME Visited PROVE RootsSeen'
    BY <1>16, <1>a DEF Visited, SafeNow
  <1>17. ASSUME DeleteFromStore PROVE RootsSeen'
    BY <1>17, <1>a DEF DeleteFromStore, SafeNow
  <1>18. ASSUME Deleted PROVE RootsSeen'
    BY <1>18, <1>a DEF Deleted, EndClosure, ReleasePending, Notify, SafeNow
  <1>19. ASSUME StopServer PROVE RootsSeen'
    BY <1>19, <1>a DEF StopServer, Reset, Forget, LetGo, SafeNow
  <1>20. ASSUME Abort PROVE RootsSeen'
    BY <1>20, <1>a DEF Abort, ReleasePending, Notify, Forget, LetGo, SafeNow
  <1>21. ASSUME Unlock PROVE RootsSeen'
    BY <1>21, <1>a DEF Unlock, SafeNow
  <1>22. ASSUME UNCHANGED <<gpc, perm, tfile, temp, unread, roots, gtemp>> PROVE RootsSeen'
    BY <1>22, <1>a DEF SafeNow
  <1>23. ASSUME NEW c \in Clients, CreateTempRootsFile(c) PROVE RootsSeen'
    BY <1>23, <1>a DEF CreateTempRootsFile, SafeNow, TypeClients, FilesLocked, HasFile
  <1>24. ASSUME NEW c \in Clients, LockTempRootsFile(c) PROVE RootsSeen'
    BY <1>24, <1>a DEF LockTempRootsFile, Goto, SafeNow, TypeClients, FilesLocked, HasFile
  <1>25. ASSUME NEW c \in Clients, UnlinkTempRoots(c) PROVE RootsSeen'
    BY <1>25, <1>a DEF UnlinkTempRoots, SafeNow, TypeClients, FilesLocked, HasFile
  <1>26. ASSUME NEW c \in Clients, WriteDeleted(c) PROVE RootsSeen'
    BY <1>26, <1>a DEF WriteDeleted, SafeNow, TypeClients, FilesLocked, HasFile
  <1>27. ASSUME Finished PROVE RootsSeen'
    BY <1>27, <1>a DEF Finished, Notify, Forget, LetGo, SafeNow, TypeClients, FilesLocked, HasFile
  <1>28. ASSUME Kill PROVE RootsSeen'
    BY <1>28, <1>a DEF Kill, Reset, Forget, LetGo, SafeNow, TypeClients, FilesLocked, HasFile
  <1> QED
    BY <1>1, <1>2, <1>3, <1>4, <1>5, <1>6, <1>7, <1>8, <1>9, <1>10, <1>11, <1>12, <1>13, <1>14,
       <1>15, <1>16, <1>17, <1>18, <1>19, <1>20, <1>21, <1>22, <1>23, <1>24, <1>25, <1>26, <1>27,
       <1>28
    DEF Next, ClientStep, ServerStep, CollectorStep, vars, Begin, Connect, SpuriousWakeUp, WakeUp,
        Acknowledge, Check, Return, LockPath, DeletePath, RestorePath, RestoreFails, Throw,
        RegisterValidPath, VisitDead, Visit, VisitNext, SkipDead, PathInUse

LEMMA NothingDoomedStep == GCInv /\ [Next]_vars /\ late' = {} => NothingDoomed'
  <1> SUFFICES ASSUME GCInv, [Next]_vars, late' = {} PROVE NothingDoomed'
    OBVIOUS
  <1>a. TypeOK /\ FilesLocked /\ LocksApart /\ PhasesKept /\ SafeNow /\ late = {}
    BY LateGrows DEF GCInv
  <1> USE DEF TypeOK, NothingDoomed, Doomed
  <1>1. ASSUME NEW c \in Clients, NEW p \in Paths, Begin(c, p) PROVE NothingDoomed'
    BY <1>1, <1>a DEF Begin, Goto, TypeClients, SafeNow
  <1>2. ASSUME NEW c \in Clients, CreateTempRootsFile(c) PROVE NothingDoomed'
    BY <1>2, <1>a DEF CreateTempRootsFile, Goto, TypeClients, SafeNow
  <1>3. ASSUME NEW c \in Clients, LockTempRootsFile(c) PROVE NothingDoomed'
    BY <1>3, <1>a DEF LockTempRootsFile, Goto, TypeClients, SafeNow
  <1>4. ASSUME NEW c \in Clients, RootShared(c) PROVE NothingDoomed'
    BY <1>4, <1>a DEF RootShared, Goto, TypeClients, SafeNow, PhasesKept, Walking
  <1>5. ASSUME NEW c \in Clients, Connect(c) PROVE NothingDoomed'
    BY <1>5, <1>a DEF Connect, Goto, TypeClients, SafeNow
  <1>6. ASSUME NEW c \in Clients, Receive(c) PROVE NothingDoomed'
    BY <1>6, <1>a DEF Receive, Acknowledge, Goto, TypeClients, SafeNow
  <1>7. ASSUME NEW c \in Clients, WakeUp(c) PROVE NothingDoomed'
    BY <1>7, <1>a DEF WakeUp, Acknowledge, Goto, TypeClients, SafeNow
  <1>8. ASSUME NEW c \in Clients, Write(c) PROVE NothingDoomed'
    BY <1>8, <1>a DEF Write, Goto, TypeClients, SafeNow, PhasesKept, Deciding, Walking,
       RootsRead
  <1>9. ASSUME NEW c \in Clients, MakeSymlink(c) PROVE NothingDoomed'
    BY <1>9, <1>a DEF MakeSymlink, Return, Goto, TypeClients, SafeNow, FilesLocked, Rooted
  <1>10. ASSUME NEW c \in Clients, Check(c) PROVE NothingDoomed'
    BY <1>10, <1>a DEF Check, Return, Goto, TypeClients, SafeNow
  <1>11. ASSUME NEW c \in Clients, LockPath(c) PROVE NothingDoomed'
    BY <1>11, <1>a DEF LockPath, Return, Goto, TypeClients, SafeNow
  <1>12. ASSUME NEW c \in Clients, RestorePath(c) PROVE NothingDoomed'
    BY <1>12, <1>a DEF RestorePath, Goto, TypeClients, SafeNow
  <1>13. ASSUME NEW c \in Clients, RegisterValidPath(c) PROVE NothingDoomed'
    BY <1>13, <1>a DEF RegisterValidPath, Return, Throw, Goto, TypeClients, SafeNow, FilesLocked, Rooted,
       Locking
  <1>14. ASSUME NEW c \in Clients, Exit(c) PROVE NothingDoomed'
    BY <1>14, <1>a DEF Exit, TypeClients, SafeNow, FilesLocked
  <1>15. ASSUME NEW c \in Clients, ReadTempRoots(c) PROVE NothingDoomed'
    BY <1>15, <1>a DEF ReadTempRoots, TypeClients, SafeNow
  <1>16. ASSUME NEW p \in Paths, RemoveRoot(p) PROVE NothingDoomed'
    BY <1>16, <1>a DEF RemoveRoot, TypeClients, SafeNow
  <1>17. ASSUME NEW p \in Paths, ReadEntry(p) PROVE NothingDoomed'
    BY <1>17, <1>a DEF ReadEntry, TypeClients, SafeNow
  <1>18. ASSUME NEW p \in Paths, VisitAlive(p) PROVE NothingDoomed'
    BY <1>18, <1>a DEF VisitAlive, EndClosure, ReleasePending, Notify, TypeClients, SafeNow
  <1>19. ASSUME NEW p \in Paths, VisitDead(p) PROVE NothingDoomed'
    BY <1>19, <1>a DEF VisitDead, TypeClients, SafeNow, TypeCollector
  <1>20. ASSUME NEW p \in Paths, VisitRoot(p) PROVE NothingDoomed'
    BY <1>20, <1>a DEF VisitRoot, EndClosure, ReleasePending, Notify, TypeClients, SafeNow
  <1>21. ASSUME NEW p \in Paths, Visit(p) PROVE NothingDoomed'
    <2>1. Doomed' \subseteq Doomed \cup {p}
      BY <1>21 DEF Visit, VisitNext
    <2>2. p \notin roots \cup gtemp /\ unread = {} /\ perm \subseteq roots \cup gtemp
      BY <1>21, <1>a DEF Visit, VisitNext, SafeNow, RootsSeen, PhasesKept, Deciding,
         Walking, RootsRead
    <2>3. \A c \in Clients : p \notin temp[c]
      BY <1>21, <1>a, <2>2 DEF Visit, VisitNext, SafeNow, RootsSeen, Deciding, Walking, RootsRead
    <2>4. p \notin perm
      BY <2>2
    <2> QED
      BY <1>21, <1>a, <2>1, <2>3, <2>4 DEF Visit, VisitNext, SafeNow
  <1>22. ASSUME NEW p \in Paths, SkipDead(p) PROVE NothingDoomed'
    BY <1>22, <1>a DEF SkipDead, TypeClients, SafeNow, TypeCollector
  <1>23. ASSUME NEW p \in Paths, PathInUse(p) PROVE NothingDoomed'
    BY <1>23, <1>a DEF PathInUse, TypeClients, SafeNow, TypeCollector
  <1>24. ASSUME NEW p \in Paths, Invalidate(p) PROVE NothingDoomed'
    BY <1>24, <1>a DEF Invalidate, NextOf, TypeCollector, SafeNow
  <1>25. ASSUME Lock PROVE NothingDoomed'
    BY <1>25, <1>a DEF Lock, TypeClients, SafeNow
  <1>26. ASSUME StartServer PROVE NothingDoomed'
    BY <1>26, <1>a DEF StartServer, TypeClients, SafeNow
  <1>27. ASSUME FindRoots PROVE NothingDoomed'
    BY <1>27, <1>a DEF FindRoots, TypeClients, SafeNow, PhasesKept
  <1>28. ASSUME OpenStore PROVE NothingDoomed'
    BY <1>28, <1>a DEF OpenStore, TypeClients, SafeNow, PhasesKept
  <1>29. ASSUME Visited PROVE NothingDoomed'
    BY <1>29, <1>a DEF Visited, TypeClients, SafeNow
  <1>30. ASSUME DeleteFromStore PROVE NothingDoomed'
    BY <1>30, <1>a DEF DeleteFromStore, TypeClients, SafeNow, FilesLocked, Rooted, Locking
  <1>31. ASSUME Deleted PROVE NothingDoomed'
    BY <1>31, <1>a DEF Deleted, EndClosure, ReleasePending, Notify, TypeClients, SafeNow
  <1>32. ASSUME StopServer PROVE NothingDoomed'
    BY <1>32, <1>a DEF StopServer, Reset, Forget, LetGo, TypeClients, SafeNow
  <1>33. ASSUME Abort PROVE NothingDoomed'
    BY <1>33, <1>a DEF Abort, ReleasePending, Notify, Forget, LetGo, TypeClients, SafeNow
  <1>34. ASSUME Unlock PROVE NothingDoomed'
    BY <1>34, <1>a DEF Unlock, TypeClients, SafeNow
  <1>35. ASSUME UNCHANGED <<gpc, perm, temp, pc, path, disk, valid, visited, todo, dead>> PROVE NothingDoomed'
    BY <1>35, <1>a DEF TypeClients, SafeNow
  <1>36. ASSUME NEW c \in Clients, DeletePath(c) PROVE NothingDoomed'
    BY <1>36, <1>a DEF DeletePath, Goto, TypeClients, SafeNow, LocksApart, Locking
  <1>37. ASSUME NEW c \in Clients, RestoreFails(c) PROVE NothingDoomed'
    BY <1>37, <1>a DEF RestoreFails, Throw, Goto, TypeClients, SafeNow
  <1>38. ASSUME NEW c \in Clients, SpuriousWakeUp(c) PROVE NothingDoomed'
    BY <1>38, <1>a DEF SpuriousWakeUp, Goto, TypeClients, SafeNow
  <1>39. ASSUME NEW c \in Clients, UnlinkTempRoots(c) PROVE NothingDoomed'
    BY <1>39, <1>a DEF UnlinkTempRoots, TypeClients, SafeNow
  <1>40. ASSUME NEW c \in Clients, WriteDeleted(c) PROVE NothingDoomed'
    BY <1>40, <1>a DEF WriteDeleted, TypeClients, SafeNow
  <1>41. ASSUME Finished PROVE NothingDoomed'
    BY <1>41, <1>a DEF Finished, Notify, Forget, LetGo, TypeClients, SafeNow, PhasesKept, Walking
  <1>42. ASSUME Kill PROVE NothingDoomed'
    BY <1>42, <1>a DEF Kill, Reset, Forget, LetGo, TypeClients, SafeNow
  <1> QED
    BY <1>1, <1>2, <1>3, <1>4, <1>5, <1>6, <1>7, <1>8, <1>9, <1>10, <1>11, <1>12, <1>13, <1>14,
       <1>15, <1>16, <1>17, <1>18, <1>19, <1>20, <1>21, <1>22, <1>23, <1>24, <1>25, <1>26, <1>27,
       <1>28, <1>29, <1>30, <1>31, <1>32, <1>33, <1>34, <1>35, <1>36, <1>37, <1>38, <1>39, <1>40,
       <1>41, <1>42
    DEF Next, ClientStep, ServerStep, CollectorStep, vars

LEMMA OnDiskStep == GCInv /\ [Next]_vars /\ late' = {} => ValidOnDisk'
  <1> SUFFICES ASSUME GCInv, [Next]_vars, late' = {} PROVE ValidOnDisk'
    OBVIOUS
  <1>a. TypeOK /\ SafeNow /\ late = {}
    BY LateGrows DEF GCInv
  <1> USE DEF SafeNow, ValidOnDisk
  <1>1. ASSUME NEW c \in Clients, RestorePath(c) PROVE ValidOnDisk'
    BY <1>1, <1>a DEF RestorePath, Goto, NothingDoomed
  <1>2. ASSUME NEW c \in Clients, RegisterValidPath(c) PROVE ValidOnDisk'
    BY <1>2, <1>a DEF RegisterValidPath, Return, Throw, Goto, NothingDoomed
  <1>3. ASSUME NEW p \in Paths, Invalidate(p) PROVE ValidOnDisk'
    BY <1>3, <1>a DEF Invalidate, NothingDoomed
  <1>4. ASSUME DeleteFromStore PROVE ValidOnDisk'
    BY <1>4, <1>a DEF DeleteFromStore, NothingDoomed
  <1>5. ASSUME UNCHANGED <<valid, disk, broken>> PROVE ValidOnDisk'
    BY <1>5, <1>a DEF NothingDoomed
  <1>6. ASSUME NEW c \in Clients, DeletePath(c) PROVE ValidOnDisk'
    BY <1>6, <1>a DEF DeletePath, Goto, NothingDoomed
  <1>7. ASSUME NEW c \in Clients, RestoreFails(c) PROVE ValidOnDisk'
    BY <1>7, <1>a DEF RestoreFails, Throw, Goto, NothingDoomed
  <1> QED
    BY <1>1, <1>2, <1>3, <1>4, <1>5, <1>6, <1>7
    DEF Next, ClientStep, ServerStep, CollectorStep, vars, Begin, CreateTempRootsFile,
        LockTempRootsFile, RootShared, Connect, Receive, Acknowledge, SpuriousWakeUp, WakeUp,
        Write, MakeSymlink, Return, Check, LockPath, Exit, RemoveRoot, Lock, StartServer,
        FindRoots, ReadTempRoots, UnlinkTempRoots, WriteDeleted, OpenStore, ReadEntry, VisitAlive,
        EndClosure, ReleasePending, VisitDead, VisitRoot, Visit, VisitNext, Visited, SkipDead,
        PathInUse, Deleted, Finished, Forget, Abort, StopServer, Reset, Kill, Unlock

LEMMA KeptStep == GCInv /\ [Next]_vars /\ late' = {} => RootsKept'
  <1> SUFFICES ASSUME GCInv, [Next]_vars, late' = {} PROVE RootsKept'
    OBVIOUS
  <1>a. TypeOK /\ FilesLocked /\ SafeNow /\ late = {}
    BY LateGrows DEF GCInv
  <1> USE DEF TypeOK, TypeClients, SafeNow, RootsKept
  <1>1. ASSUME NEW c \in Clients, MakeSymlink(c) PROVE RootsKept'
    BY <1>1, <1>a DEF MakeSymlink, Return, Goto, FilesLocked, NothingDoomed, Doomed, TypeCollector
  <1>2. ASSUME NEW c \in Clients, Check(c) PROVE RootsKept'
    BY <1>2, <1>a DEF Check, Return, Goto, FilesLocked, NothingDoomed, Doomed, TypeCollector
  <1>3. ASSUME NEW c \in Clients, LockPath(c) PROVE RootsKept'
    BY <1>3, <1>a DEF LockPath, Return, Goto, FilesLocked, NothingDoomed, Doomed, TypeCollector
  <1>4. ASSUME NEW c \in Clients, RegisterValidPath(c) PROVE RootsKept'
    BY <1>4, <1>a DEF RegisterValidPath, Return, Throw, Goto, FilesLocked, NothingDoomed, Doomed,
       TypeCollector
  <1>5. ASSUME NEW c \in Clients, Exit(c) PROVE RootsKept'
    BY <1>5, <1>a DEF Exit, FilesLocked, NothingDoomed, Doomed, TypeCollector
  <1>6. ASSUME NEW p \in Paths, RemoveRoot(p) PROVE RootsKept'
    BY <1>6, <1>a DEF RemoveRoot, FilesLocked, NothingDoomed, Doomed, TypeCollector
  <1>7. ASSUME NEW p \in Paths, Invalidate(p) PROVE RootsKept'
    BY <1>7, <1>a DEF Invalidate, NextOf, FilesLocked, NothingDoomed, Doomed, TypeCollector
  <1>8. ASSUME UNCHANGED <<valid, perm, uses>> PROVE RootsKept'
    BY <1>8, <1>a DEF FilesLocked, NothingDoomed, Doomed, TypeCollector
  <1> QED
    BY <1>1, <1>2, <1>3, <1>4, <1>5, <1>6, <1>7, <1>8
    DEF Next, ClientStep, ServerStep, CollectorStep, vars, Begin, CreateTempRootsFile,
        LockTempRootsFile, RootShared, Connect, Receive, Acknowledge, SpuriousWakeUp, WakeUp,
        Write, DeletePath, RestorePath, RestoreFails, Throw, Lock, StartServer, FindRoots,
        ReadTempRoots, UnlinkTempRoots, WriteDeleted, OpenStore, ReadEntry, VisitAlive,
        EndClosure, ReleasePending, VisitDead, VisitRoot, Visit, VisitNext, Visited, SkipDead,
        PathInUse, DeleteFromStore, Deleted, Finished, Forget, Abort, StopServer, Reset, Kill,
        Unlock

LEMMA GCInit == Init => GCInv
  BY TypeInit DEF Init, GCInv, TypeOK, TypeStore, FilesLocked, HasFile, LocksApart, PhasesKept,
     SleepsInWalk, SafeNow, RootsSeen, NothingDoomed, Doomed, ValidOnDisk, RootsKept, Deciding,
     Walking, RootsRead, Rooted, Locking, Rooting

LEMMA GCStep == GCInv /\ [Next]_vars => GCInv'
  BY TypeStep, FilesStep, PhasesStep, WaitStep, RootsSeenStep, NothingDoomedStep, OnDiskStep,
     KeptStep
     DEF GCInv, SafeNow

(* For any clients, paths and reference graph: as long as no root came too *)
(* late, no deletion of files, by the collector or by a client that        *)
(* repairs, meets a path that another client restores and registers; a     *)
(* valid path is missing only when its own repair was not finished.        *)
THEOREM DatabaseMatchesDisk == Spec => []ValidOnDisk
  <1>1. GCInv => ValidOnDisk
    BY DEF GCInv, SafeNow, ValidOnDisk
  <1> QED
    BY <1>1, GCInit, GCStep, PTL DEF Spec

(* As long as no root came too late, every path that a client or a root    *)
(* relies on stays valid.                                                  *)
THEOREM RootsRespected == Spec => []RootsKept
  <1>1. GCInv => RootsKept
    BY DEF GCInv, SafeNow, RootsKept
  <1> QED
    BY <1>1, GCInit, GCStep, PTL DEF Spec

(* No wakeup is lost: whatever clients and collectors do, a thread of the  *)
(* server sleeps only during a walk that will wake it at its end.          *)
THEOREM WakeupsKept == Spec => []SleepsInWalk
  <1>1. GCInv => SleepsInWalk
    BY DEF GCInv
  <1> QED
    BY <1>1, GCInit, GCStep, PTL DEF Spec

-----------------------------------------------------------------------------
(* Why a path is spared *)

LEMMA ClosureSelf == ASSUME NEW p \in Paths PROVE p \in FSClosure(p)
  BY DEF FSClosure

LEMMA ClosureUp == ASSUME NEW p \in Paths, NEW q \in Paths, NEW s \in FSClosure(p), p \in Refs[q]
                   PROVE s \in FSClosure(q)
  <1> SUFFICES ASSUME NEW S \in SUBSET Paths, q \in S, Closed(S) PROVE s \in S
    BY DEF FSClosure
  <1>1. p \in S
    BY DEF Closed
  <1> QED
    BY <1>1 DEF FSClosure

LEMMA ClosureTransitive == ASSUME NEW p \in Paths, NEW q \in FSClosure(p), NEW s \in FSClosure(q)
                           PROVE s \in FSClosure(p)
  BY DEF FSClosure

LEMMA WalkStep == TypeOK /\ WalkUpwards /\ [Next]_vars => WalkUpwards'
  <1> SUFFICES ASSUME TypeOK, WalkUpwards, [Next]_vars PROVE WalkUpwards'
    OBVIOUS
  <1> USE DEF TypeOK, TypeStore, TypeCollector, WalkUpwards
  <1>1. ASSUME NEW p \in Paths, ReadEntry(p) PROVE WalkUpwards'
    BY <1>1, ClosureSelf DEF ReadEntry
  <1>2. ASSUME NEW p \in Paths, VisitAlive(p) PROVE WalkUpwards'
    BY <1>2 DEF VisitAlive, EndClosure, ReleasePending, Notify
  <1>3. ASSUME NEW p \in Paths, VisitDead(p) PROVE WalkUpwards'
    BY <1>3 DEF VisitDead
  <1>4. ASSUME NEW p \in Paths, VisitRoot(p) PROVE WalkUpwards'
    BY <1>4 DEF VisitRoot, EndClosure, ReleasePending, Notify
  <1>5. ASSUME NEW p \in Paths, Visit(p) PROVE WalkUpwards'
    <2>1. \A q \in Found(p) : q \in Paths /\ p \in Refs[q]
      BY DEF Found, Referrers
    <2>2. start \in FSClosure(p)
      BY <1>5 DEF Visit, VisitNext
    <2>3. \A q \in Found(p) : start \in FSClosure(q)
      BY <2>1, <2>2, ClosureUp
    <2>4. \A q \in visited' : start' \in FSClosure(q)
      BY <1>5, <2>3 DEF Visit, VisitNext
    <2>5. \A r \in Paths : \A S \in referrersCache'[r] : \A q \in S : r \in Refs[q]
      BY <1>5, <2>1 DEF Visit, VisitNext
    <2> QED
      BY <2>4, <2>5
  <1>6. ASSUME NEW p \in Paths, SkipDead(p) PROVE WalkUpwards'
    BY <1>6 DEF SkipDead
  <1>7. ASSUME NEW p \in Paths, PathInUse(p) PROVE WalkUpwards'
    BY <1>7 DEF PathInUse
  <1>8. ASSUME NEW p \in Paths, Invalidate(p) PROVE WalkUpwards'
    BY <1>8 DEF Invalidate
  <1>9. ASSUME Lock PROVE WalkUpwards'
    BY <1>9 DEF Lock
  <1>10. ASSUME StartServer PROVE WalkUpwards'
    BY <1>10 DEF StartServer
  <1>11. ASSUME FindRoots PROVE WalkUpwards'
    BY <1>11 DEF FindRoots
  <1>12. ASSUME OpenStore PROVE WalkUpwards'
    BY <1>12 DEF OpenStore
  <1>13. ASSUME Visited PROVE WalkUpwards'
    BY <1>13 DEF Visited
  <1>14. ASSUME DeleteFromStore PROVE WalkUpwards'
    BY <1>14 DEF DeleteFromStore
  <1>15. ASSUME Deleted PROVE WalkUpwards'
    BY <1>15 DEF Deleted, EndClosure, ReleasePending, Notify
  <1>16. ASSUME StopServer PROVE WalkUpwards'
    BY <1>16 DEF StopServer, Reset, Forget, LetGo
  <1>17. ASSUME Abort PROVE WalkUpwards'
    BY <1>17 DEF Abort, ReleasePending, Notify, Forget, LetGo
  <1>18. ASSUME Unlock PROVE WalkUpwards'
    BY <1>18 DEF Unlock
  <1>19. ASSUME UNCHANGED <<gpc, visited, start, referrersCache>> PROVE WalkUpwards'
    BY <1>19
  <1>20. ASSUME Finished PROVE WalkUpwards'
    BY <1>20 DEF Finished, Notify, Forget, LetGo
  <1>21. ASSUME Kill PROVE WalkUpwards'
    BY <1>21 DEF Kill, Reset, Forget, LetGo
  <1> QED
    BY <1>1, <1>2, <1>3, <1>4, <1>5, <1>6, <1>7, <1>8, <1>9, <1>10, <1>11, <1>12, <1>13, <1>14,
       <1>15, <1>16, <1>17, <1>18, <1>19, <1>20, <1>21
    DEF Next, ClientStep, ServerStep, CollectorStep, vars, Begin, CreateTempRootsFile,
        LockTempRootsFile, RootShared, Connect, Receive, Acknowledge, SpuriousWakeUp, WakeUp,
        Write, MakeSymlink, Return, Check, LockPath, DeletePath, RestorePath, RestoreFails, Throw,
        RegisterValidPath, Exit, RemoveRoot, ReadTempRoots, UnlinkTempRoots, WriteDeleted

LEMMA ReasonStep ==
  TypeOK /\ PhasesKept /\ WalkUpwards /\ KeptForAReason /\ [Next]_vars => KeptForAReason'
  <1> SUFFICES ASSUME TypeOK, PhasesKept, WalkUpwards, KeptForAReason, [Next]_vars
               PROVE  KeptForAReason'
    OBVIOUS
  <1> USE DEF KeptForAReason
  <1>1. ASSUME NEW c \in Clients, Receive(c) PROVE KeptForAReason'
    BY <1>1 DEF Receive, Acknowledge, Goto
  <1>2. ASSUME NEW c \in Clients, ReadTempRoots(c) PROVE KeptForAReason'
    BY <1>2 DEF ReadTempRoots
  <1>3. ASSUME NEW p \in Paths, VisitAlive(p) PROVE KeptForAReason'
    <2>1. p \in Paths /\ start \in FSClosure(p)
      BY <1>3 DEF VisitAlive, WalkUpwards, TypeOK, TypeCollector
    <2>2. PICK r \in roots \cup gtemp : p \in FSClosure(r)
      BY <1>3 DEF VisitAlive
    <2>3. start \in FSClosure(r)
      BY <2>1, <2>2, ClosureTransitive DEF TypeOK, TypeCollector
    <2> QED
      BY <1>3, <2>3 DEF VisitAlive
  <1>4. ASSUME NEW p \in Paths, VisitRoot(p) PROVE KeptForAReason'
    <2>1. start \in FSClosure(p) /\ p \in FSClosure(p)
      BY <1>4, ClosureSelf DEF VisitRoot, WalkUpwards, TypeOK, TypeCollector
    <2> QED
      BY <1>4, <2>1 DEF VisitRoot
  <1>5. ASSUME FindRoots PROVE KeptForAReason'
    BY <1>5 DEF FindRoots, PhasesKept, Deciding, Walking
  <1>6. ASSUME StopServer PROVE KeptForAReason'
    BY <1>6 DEF StopServer, Reset, Forget, LetGo
  <1>7. ASSUME Abort PROVE KeptForAReason'
    BY <1>7 DEF Abort, ReleasePending, Notify, Forget, LetGo
  <1>8. ASSUME UNCHANGED <<alive, roots, gtemp>> PROVE KeptForAReason'
    BY <1>8
  <1>9. ASSUME Finished PROVE KeptForAReason'
    BY <1>9 DEF Finished, Notify, Forget, LetGo
  <1>10. ASSUME Kill PROVE KeptForAReason'
    BY <1>10 DEF Kill, Reset, Forget, LetGo
  <1> QED
    BY <1>1, <1>2, <1>3, <1>4, <1>5, <1>6, <1>7, <1>8, <1>9, <1>10
    DEF Next, ClientStep, ServerStep, CollectorStep, vars, Begin, CreateTempRootsFile,
        LockTempRootsFile, RootShared, Connect, SpuriousWakeUp, WakeUp, Acknowledge, Write,
        MakeSymlink, Return, Check, LockPath, DeletePath, RestorePath, RestoreFails, Throw,
        RegisterValidPath, Exit, RemoveRoot, Lock, StartServer, UnlinkTempRoots, WriteDeleted,
        OpenStore, ReadEntry, VisitDead, Visit, VisitNext, Visited, SkipDead, PathInUse,
        Invalidate, DeleteFromStore, Deleted, EndClosure, ReleasePending, Unlock

(* For any reference graph: what the collector marks alive is reached from *)
(* a root, also when it marks the start of a walk without computing the    *)
(* closure, and when referrers come from the cache.                        *)
THEOREM SparedForAReason == Spec => []KeptForAReason
  <1>1. Init => WalkUpwards /\ KeptForAReason
    BY DEF Init, WalkUpwards, KeptForAReason
  <1>2. GCInv => TypeOK /\ PhasesKept
    BY DEF GCInv
  <1> QED
    BY <1>1, <1>2, GCInit, GCStep, WalkStep, ReasonStep, PTL DEF Spec
-----------------------------------------------------------------------------
(* The refinement.  kept is the substitution for the variable of           *)
(* RootedStore.                                                            *)
kept == perm \cup UNION {uses[c] : c \in Clients}

LEMMA ReturnKept ==
  ASSUME TypeOK, NEW c \in Clients, Return(c), UNCHANGED perm
  PROVE kept' = kept \cup {path[c]}
  <1>1. uses' = [uses EXCEPT ![c] = @ \cup {path[c]}]
    BY DEF Return
  <1>2. uses'[c] = uses[c] \cup {path[c]} /\ \A d \in Clients \ {c} : uses'[d] = uses[d]
    BY <1>1 DEF TypeOK, TypeClients
  <1>3. ASSUME NEW p PROVE (\E d \in Clients : p \in uses'[d]) <=> (p = path[c] \/ \E d \in Clients : p \in uses[d])
    BY <1>2
  <1> QED
    BY <1>3 DEF kept

(* What a client was told of, and what has a permanent root, is not what   *)
(* the collector is about to invalidate.                                   *)
LEMMA KeptNotTaken ==
  ASSUME GCInv, NEW p \in Paths, Invalidate(p), late = {}
  PROVE p \notin kept
  <1>1. p \in visited /\ p \notin dead /\ gpc = "delete"
    BY DEF Invalidate, NextOf
  <1>2. p \in Doomed
    BY <1>1 DEF Doomed, GCInv, TypeOK, TypeCollector
  <1>3. NothingDoomed /\ \A c \in Clients : uses[c] \subseteq temp[c]
    BY DEF GCInv, SafeNow, FilesLocked
  <1> QED
    BY <1>2, <1>3 DEF kept, NothingDoomed

LEMMA RefineStep == GCInv /\ [Next]_vars => Store!SNext \/ UNCHANGED Store!svars
  <1> SUFFICES ASSUME GCInv, [Next]_vars PROVE Store!SNext \/ UNCHANGED Store!svars
    OBVIOUS
  <1>t. TypeOK /\ FilesLocked
    BY DEF GCInv
  <1>s. ASSUME kept' = kept, UNCHANGED valid, late \subseteq late'
        PROVE Store!SNext \/ UNCHANGED Store!svars
    <2>1. Store!ComeLate
      BY <1>s DEF Store!ComeLate, kept
    <2> QED
      BY <2>1 DEF Store!SNext
  <1>k. UNCHANGED <<perm, uses>> => kept' = kept
    BY DEF kept
  <1>1. ASSUME NEW c \in Clients, Receive(c) \/ WakeUp(c) \/ Write(c) \/ RootShared(c)
        PROVE Store!SNext \/ UNCHANGED Store!svars
    <2>1. UNCHANGED <<perm, uses, valid>> /\ late \subseteq late'
      BY <1>1 DEF Receive, WakeUp, Write, RootShared, Acknowledge
    <2> QED
      BY <2>1, <1>k, <1>s
  (* addPermRoot is called for a path that the client counts on. *)
  <1>2. ASSUME NEW c \in Clients, MakeSymlink(c) PROVE Store!SNext \/ UNCHANGED Store!svars
    <2>1. perm' = perm \cup {path[c]} /\ UNCHANGED valid /\ late \subseteq late'
          /\ uses' = [uses EXCEPT ![c] = @ \cup {path[c]}]
      BY <1>2 DEF MakeSymlink, Return
    <2>2. path[c] \in uses[c]
      BY <1>2, <1>t DEF MakeSymlink, FilesLocked
    <2>3. uses' = uses
      <3>1. uses[c] \cup {path[c]} = uses[c]
        BY <2>2
      <3> QED
        BY <2>1, <3>1, <1>t DEF TypeOK, TypeClients
    <2>4. kept' = kept
      BY <2>1, <2>2, <2>3 DEF kept
    <2> QED
      BY <2>1, <2>4, <1>s
  <1>p. ASSUME NEW c \in Clients, Return(c), UNCHANGED <<valid, perm, late>>, path[c] \in valid
        PROVE Store!SNext
    <2>1. kept' = kept \cup {path[c]}
      BY <1>p, <1>t, ReturnKept
    <2>2. PICK p \in Paths : p = path[c]
      BY <1>p, <1>t DEF TypeOK, TypeStore
    <2>3. Store!Promise(p)
      BY <2>1, <2>2, <1>p DEF Store!Promise, kept
    <2> QED
      BY <2>3 DEF Store!SNext
  <1>3. ASSUME NEW c \in Clients, Check(c) PROVE Store!SNext \/ UNCHANGED Store!svars
    <2>1. CASE path[c] \in valid /\ Return(c)
      BY <1>3, <2>1, <1>p DEF Check
    <2>2. CASE UNCHANGED uses
      BY <1>3, <2>2, <1>k, <1>s DEF Check
    <2> QED
      BY <1>3, <2>1, <2>2 DEF Check
  <1>4. ASSUME NEW c \in Clients, LockPath(c) PROVE Store!SNext \/ UNCHANGED Store!svars
    <2>1. CASE path[c] \in valid /\ Return(c)
      BY <1>4, <2>1, <1>p DEF LockPath
    <2>2. CASE UNCHANGED uses
      BY <1>4, <2>2, <1>k, <1>s DEF LockPath
    <2> QED
      BY <1>4, <2>1, <2>2 DEF LockPath
  <1>5. ASSUME NEW c \in Clients, RegisterValidPath(c) PROVE Store!SNext \/ UNCHANGED Store!svars
    <2>1. CASE Refs[path[c]] \subseteq valid \cup {path[c]}
      <3>1. valid' = valid \cup {path[c]} /\ Return(c) /\ UNCHANGED <<perm, late>>
        BY <1>5, <2>1 DEF RegisterValidPath
      <3>2. kept' = kept \cup {path[c]}
        BY <3>1, <1>t, ReturnKept
      <3>3. PICK p \in Paths : p = path[c]
        BY <1>5, <1>t DEF RegisterValidPath, TypeOK, TypeClients
      <3>4. Store!Register(p)
        BY <2>1, <3>1, <3>2, <3>3 DEF Store!Register, kept
      <3> QED
        BY <3>4 DEF Store!SNext
    <2>2. CASE ~(Refs[path[c]] \subseteq valid \cup {path[c]})
      BY <1>5, <2>2, <1>k, <1>s DEF RegisterValidPath, Throw
    <2> QED
      BY <2>1, <2>2
  <1>r. ASSUME kept' \subseteq kept, UNCHANGED <<valid, late>> PROVE Store!SNext
    <2>1. Store!Renounce
      BY <1>r DEF Store!Renounce, kept
    <2> QED
      BY <2>1 DEF Store!SNext
  <1>6. ASSUME NEW c \in Clients, Exit(c) PROVE Store!SNext
    <2>1. uses' = [uses EXCEPT ![c] = {}] /\ UNCHANGED <<valid, perm, late>>
      BY <1>6 DEF Exit
    <2>2. \A d \in Clients : uses'[d] \subseteq uses[d]
      BY <2>1, <1>t DEF TypeOK, TypeClients
    <2>3. kept' \subseteq kept
      BY <2>1, <2>2 DEF kept
    <2> QED
      BY <2>1, <2>3, <1>r
  <1>7. ASSUME NEW p \in Paths, RemoveRoot(p) PROVE Store!SNext
    <2>1. perm' \subseteq perm /\ UNCHANGED <<valid, uses, late>>
      BY <1>7 DEF RemoveRoot
    <2>2. kept' \subseteq kept
      BY <2>1 DEF kept
    <2> QED
      BY <2>1, <2>2, <1>r
  <1>8. ASSUME NEW p \in Paths, Invalidate(p) PROVE Store!SNext \/ UNCHANGED Store!svars
    <2>1. valid' = valid \ {p} /\ UNCHANGED <<perm, uses, late>>
      BY <1>8 DEF Invalidate
    <2>2. CASE p \in valid
      <3>1. \A q \in valid \ {p} : p \notin Refs[q]
        BY <1>8, <2>2 DEF Invalidate, Referrers
      <3>2. p \notin kept \/ late # {}
        BY <1>8, KeptNotTaken
      <3>3. Store!Collect(p)
        BY <2>1, <3>1, <3>2, <1>k DEF Store!Collect, kept
      <3> QED
        BY <3>3 DEF Store!SNext
    <2>3. CASE p \notin valid
      BY <2>1, <2>3, <1>k, <1>s
    <2> QED
      BY <2>2, <2>3
  <1>9. ASSUME UNCHANGED <<perm, uses, valid, late>> PROVE Store!SNext \/ UNCHANGED Store!svars
    BY <1>9, <1>k, <1>s
  <1> QED
    BY <1>1, <1>2, <1>3, <1>4, <1>5, <1>6, <1>7, <1>8, <1>9
    DEF Next, ClientStep, ServerStep, CollectorStep, vars, Begin, CreateTempRootsFile,
        LockTempRootsFile, Connect, SpuriousWakeUp, DeletePath, RestorePath, RestoreFails, Throw,
        ReadTempRoots, UnlinkTempRoots, WriteDeleted, DeleteFromStore, ReadEntry, VisitAlive,
        EndClosure, VisitDead, VisitRoot, Visit, VisitNext, SkipDead, PathInUse, Lock, StartServer,
        FindRoots, OpenStore, Visited, Deleted, Finished, Abort, StopServer, Kill, Reset, Forget,
        Unlock

(* The collector and its clients implement the store of RootedStore: as    *)
(* long as no root is late, what is collected is what no client was told   *)
(* of, no permanent root points to and nothing refers to.                  *)
THEOREM CollectorImplementsStore == Spec => ImplementsStore
  <1>1. Init => Store!SInit
    <2> SUFFICES ASSUME Init PROVE Store!SInit
      OBVIOUS
    <2>1. perm \cup UNION {uses[c] : c \in Clients} = {}
      BY DEF Init
    <2> QED
      BY <2>1 DEF Init, Closed, Store!SInit
  <1>2. GCInv /\ [Next]_vars => [Store!SNext]_(Store!svars)
    BY RefineStep
  <1> QED
    BY <1>1, <1>2, GCInit, GCStep, PTL DEF Spec, ImplementsStore, Store!SSpec
-----------------------------------------------------------------------------
(* A collection ends: what CollectionMovesOn says of one step. *)
MovesOn == \/ gpc \notin Deciding \/ gpc' \in {"ending", "off"}
           \/ UNCHANGED <<gpc, entries, visited, todo, dead>>
           \/ Less(entries', entries)
           \/ entries' = entries /\ EntryMovesOn

LEMMA VisitMoves == ASSUME NEW p \in Paths, Visit(p) PROVE MovesOn
  <1>1. /\ p \in todo /\ gpc = "visit" /\ gpc' = gpc /\ entries' = entries
        /\ visited' = visited \cup Found(p)
        /\ todo' = (todo \ {p}) \cup (Found(p) \ visited)
    BY DEF Visit, VisitNext
  <1>2. CASE Found(p) \subseteq visited
    <2>1. visited' = visited /\ todo' = todo \ {p}
      BY <1>1, <1>2
    <2> QED
      BY <1>1, <2>1 DEF MovesOn, EntryMovesOn, WalksOn, Less
  <1>3. CASE ~(Found(p) \subseteq visited)
    BY <1>1, <1>3 DEF MovesOn, EntryMovesOn, WalksOn, Less
  <1> QED
    BY <1>2, <1>3

(* For any paths and references, and whatever clients do meanwhile, each   *)
(* step of a collection brings it nearer to its end; with finitely many    *)
(* paths it takes finitely many steps.                                     *)
THEOREM CollectorMovesOn == Spec => CollectionMovesOn
  <1>1. ASSUME [Next]_vars
        PROVE [\/ gpc \notin Deciding \/ gpc' \in {"ending", "off"}
               \/ UNCHANGED <<gpc, entries, visited, todo, dead>>
               \/ Less(entries', entries)
               \/ entries' = entries /\ EntryMovesOn]_vars
    <2> SUFFICES ASSUME Next PROVE MovesOn
      BY <1>1 DEF MovesOn
    <2>1. ASSUME NEW p \in Paths, Visit(p) PROVE MovesOn
      BY <2>1, VisitMoves
    <2>2. ASSUME NEW p \in Paths, ReadEntry(p) PROVE MovesOn
      BY <2>2 DEF ReadEntry, MovesOn, Less
    <2>3. ASSUME NEW p \in Paths, VisitAlive(p) \/ VisitRoot(p) PROVE MovesOn
      BY <2>3 DEF VisitAlive, VisitRoot, EndClosure, MovesOn, EntryMovesOn
    <2>4. ASSUME NEW p \in Paths, VisitDead(p) PROVE MovesOn
      BY <2>4 DEF VisitDead, MovesOn, EntryMovesOn, WalksOn, Less
    <2>5. ASSUME NEW p \in Paths, SkipDead(p) PROVE MovesOn
      BY <2>5 DEF SkipDead, NextOf, MovesOn, EntryMovesOn, DeletesOn, Less
    <2>6. ASSUME NEW p \in Paths, PathInUse(p) \/ Invalidate(p) PROVE MovesOn
      <3>1. /\ gpc = "delete" /\ gpc' \in {"delete", "remove"} /\ entries' = entries
            /\ p \notin dead /\ dead' = dead \cup {p}
        BY <2>6 DEF PathInUse, Invalidate
      <3>2. Less(dead, dead')
        BY <3>1 DEF Less
      <3> QED
        BY <3>1, <3>2 DEF MovesOn, EntryMovesOn, DeletesOn
    <2>7. ASSUME DeleteFromStore PROVE MovesOn
      BY <2>7 DEF DeleteFromStore, MovesOn, EntryMovesOn, DeletesOn
    <2>8. ASSUME Visited \/ Deleted PROVE MovesOn
      BY <2>8 DEF Visited, Deleted, EndClosure, MovesOn, EntryMovesOn
    <2>9. ASSUME Finished \/ Abort \/ Kill PROVE MovesOn
      BY <2>9 DEF Finished, Abort, Kill, MovesOn
    <2>10. ASSUME \/ Lock \/ StartServer \/ FindRoots \/ OpenStore \/ StopServer \/ Unlock
                  \/ \E c \in Clients : ReadTempRoots(c) \/ UnlinkTempRoots(c) \/ WriteDeleted(c)
           PROVE MovesOn
      BY <2>10 DEF Lock, StartServer, FindRoots, OpenStore, StopServer, Unlock, ReadTempRoots,
         UnlinkTempRoots, WriteDeleted, MovesOn, Deciding, Walking
    <2>11. ASSUME UNCHANGED <<gpc, entries, visited, todo, dead>> PROVE MovesOn
      BY <2>11 DEF MovesOn
    <2> QED
      BY <2>1, <2>2, <2>3, <2>4, <2>5, <2>6, <2>7, <2>8, <2>9, <2>10, <2>11
      DEF Next, ClientStep, ServerStep, CollectorStep, Begin, CreateTempRootsFile,
          LockTempRootsFile, RootShared, Connect, Receive, SpuriousWakeUp, WakeUp, Write,
          MakeSymlink, Check, LockPath, DeletePath, RestorePath, RestoreFails, RegisterValidPath,
          Exit, RemoveRoot
  <1> QED
    BY <1>1, PTL DEF Spec, CollectionMovesOn
=============================================================================
