------------------------- MODULE BackendRegistryProofs -------------------------
(***************************************************************************)
(* What holds of BackendRegistry for any number of starters, pruners and   *)
(* backends.  The argument: a lock that no clean-up takes away from a live *)
(* starter names every starter inside the critical section, so there is at *)
(* most one; that starter has seen, under the lock, that the record is     *)
(* dead, so the only backend it can run beside is an abandoned one.        *)
(***************************************************************************)
EXTENDS BackendRegistry, TLAPS

\* Between the check of the record and the hand-over of the child.
Starting == {"probe", "poll", "publish", "terminate", "unlinkSocket"}
Holding == {"poll", "publish", "terminate", "unlinkSocket"}

\* The deadline leaves room for the attempt that is about to start.
AttemptsInv == \A s \in Starters : pc[s] = "start" => attempts[s] < MaxAttempts

\* The lock names every starter inside the critical section.
LockInv == ~misfire => \A s \in Starters : InCritical(s) => lock = s

\* Only a serving backend has clients.
ConnInv == \A s \in Starters : conn[s] # None => backend[conn[s]] = "serving"

\* Only a starter between spawn and publish has a child, and it has one.
ChildInv ==
    /\ \A s \in Starters : pc[s] \in Holding => child[s] # None
    /\ \A s \in Starters : Alive(s) /\ child[s] # None => pc[s] \in Holding
    /\ \A s \in Starters : child[s] # None =>
          backend[child[s]] # "unspawned" /\ child[s] # record
    /\ \A s, t \in Starters : child[s] # None /\ child[s] = child[t] => s = t
    /\ record # None => backend[record] # "unspawned"
    /\ \A s \in Starters : pc[s] = "unlinkSocket" => backend[child[s]] = "exited"

\* A starter past the check under the lock faces no live record.
RecordInv ==
    ~misfire => \A s \in Starters : pc[s] \in Starting => ~LiveRecord

IInv ==
    /\ TypeOK
    /\ AttemptsInv
    /\ LockInv
    /\ EveryExitReleases
    /\ ConnInv
    /\ ChildInv
    /\ RecordInv
    /\ NoLeakedBackend

-----------------------------------------------------------------------------
\* A step keeps the types.
LEMMA TypeStep ==
    ASSUME TypeOK, AttemptsInv, [Next]_vars
    PROVE  TypeOK'
<1> USE RegistryAssumption DEF TypeOK, AttemptsInv, StarterPC, PrunerPC, Goals, files
<1>1. ASSUME NEW s \in Starters, Start(s) PROVE TypeOK'
  BY <1>1 DEF Start, Goto
<1>2. ASSUME NEW s \in Starters, Check(s) PROVE TypeOK'
  BY <1>2 DEF Check, LiveRecord, Goto
<1>3. ASSUME NEW s \in Starters, Remove(s) PROVE TypeOK'
  BY <1>3 DEF Remove, RemoveTree, LiveLock, LiveRecord, Goto
<1>4. ASSUME NEW s \in Starters, Ensure(s) PROVE TypeOK'
  BY <1>4 DEF Ensure, Goto
<1>5. ASSUME NEW s \in Starters, LinkLock(s) PROVE TypeOK'
  BY <1>5 DEF LinkLock, Goto
<1>6. ASSUME NEW s \in Starters, InspectLock(s) PROVE TypeOK'
  BY <1>6 DEF InspectLock, Goto
<1>7. ASSUME NEW s \in Starters, Reclaim(s) PROVE TypeOK'
  BY <1>7 DEF Reclaim, UnlinkForeignLock, LiveLock, Goto
<1>8. ASSUME NEW s \in Starters, LockFails(s) PROVE TypeOK'
  BY <1>8 DEF LockFails, Goto
<1>9. ASSUME NEW s \in Starters, Recheck(s) PROVE TypeOK'
  BY <1>9 DEF Recheck, LiveRecord, LeaveFor, Goto
<1>10. ASSUME NEW s \in Starters, RemoveLocked(s) PROVE TypeOK'
  BY <1>10 DEF RemoveLocked, RemoveTree, LiveLock, LiveRecord, Goto
<1>11. ASSUME NEW s \in Starters, Spawn(s) PROVE TypeOK'
  BY <1>11 DEF Spawn, LeaveFor, Goto
<1>12. ASSUME NEW s \in Starters, Poll(s) PROVE TypeOK'
  BY <1>12 DEF Poll, Goto
<1>13. ASSUME NEW s \in Starters, Publish(s) PROVE TypeOK'
  BY <1>13 DEF Publish, LeaveFor, DropConnection, ShutDown, Goto
<1>14. ASSUME NEW s \in Starters, Terminate(s) PROVE TypeOK'
  BY <1>14 DEF Terminate, Goto
<1>15. ASSUME NEW s \in Starters, UnlinkSocket(s) PROVE TypeOK'
  BY <1>15 DEF UnlinkSocket, Goto
<1>16. ASSUME NEW s \in Starters, Release(s) PROVE TypeOK'
  BY <1>16 DEF Release, Goto
<1>17. ASSUME NEW s \in Starters, UnlinkLock(s) PROVE TypeOK'
  BY <1>17 DEF UnlinkLock, LiveLock, Goto
<1>18. ASSUME NEW s \in Starters, Attach(s) PROVE TypeOK'
  BY <1>18 DEF Attach, Goto
<1>19. ASSUME NEW s \in Starters, Retry(s) PROVE TypeOK'
  BY <1>19 DEF Retry, Goto
<1>20. ASSUME NEW s \in Starters, Disconnect(s) PROVE TypeOK'
  BY <1>20 DEF Disconnect, DropConnection, ShutDown, Goto
<1>21. ASSUME NEW s \in Starters, Crash(s) PROVE TypeOK'
  BY <1>21 DEF Crash, DropConnection, ShutDown, Goto
<1>22. ASSUME NEW b \in Backends, Boot(b) PROVE TypeOK'
  BY <1>22 DEF Boot
<1>23. ASSUME NEW b \in Backends, IdleShutDown(b) PROVE TypeOK'
  BY <1>23 DEF IdleShutDown, ShutDown
<1>24. ASSUME NEW b \in Backends, Exit(b) PROVE TypeOK'
  BY <1>24 DEF Exit
<1>25. ASSUME NEW b \in Backends, BackendCrash(b) PROVE TypeOK'
  BY <1>25 DEF BackendCrash
<1>26. ASSUME NEW p \in Pruners, PruneRead(p) PROVE TypeOK'
  BY <1>26 DEF PruneRead, LiveRecord, Goto
<1>27. ASSUME NEW p \in Pruners, PruneRemove(p) PROVE TypeOK'
  BY <1>27 DEF PruneRemove, RemoveTree, LiveLock, LiveRecord, Goto
<1>28. ASSUME NEW p \in Pruners, PruneInspect(p) PROVE TypeOK'
  BY <1>28 DEF PruneInspect, LiveLock, Goto
<1>29. ASSUME NEW p \in Pruners, PruneUnlink(p) PROVE TypeOK'
  BY <1>29 DEF PruneUnlink, UnlinkForeignLock, LiveLock, Goto
<1>30. ASSUME NEW p \in Pruners, PruneRmdir(p) PROVE TypeOK'
  BY <1>30 DEF PruneRmdir, Goto
<1>31. CASE StopDaemons
  BY <1>31 DEF StopDaemons, ShutDown
<1>32. CASE UNCHANGED vars
  BY <1>32 DEF vars
<1>33. QED
  BY <1>1, <1>2, <1>3, <1>4, <1>5, <1>6, <1>7, <1>8, <1>9, <1>10, <1>11, <1>12, <1>13, <1>14, <1>15, <1>16, <1>17, <1>18, <1>19, <1>20, <1>21, <1>22, <1>23, <1>24, <1>25, <1>26, <1>27, <1>28, <1>29, <1>30, <1>31, <1>32 DEF Next, AcquireStep, BackendStep, PruneStep

\* A step keeps room for the attempt that is about to start.
LEMMA AttemptsStep ==
    ASSUME TypeOK, AttemptsInv, [Next]_vars
    PROVE  AttemptsInv'
<1> USE RegistryAssumption DEF TypeOK, AttemptsInv, Goals, files
<1>1. ASSUME NEW s \in Starters, Start(s) PROVE AttemptsInv'
  BY <1>1 DEF Start, Goto
<1>2. ASSUME NEW s \in Starters, Check(s) PROVE AttemptsInv'
  BY <1>2 DEF Check, LiveRecord, Goto
<1>3. ASSUME NEW s \in Starters, Remove(s) PROVE AttemptsInv'
  BY <1>3 DEF Remove, RemoveTree, LiveLock, LiveRecord, Goto
<1>4. ASSUME NEW s \in Starters, Ensure(s) PROVE AttemptsInv'
  BY <1>4 DEF Ensure, Goto
<1>5. ASSUME NEW s \in Starters, LinkLock(s) PROVE AttemptsInv'
  BY <1>5 DEF LinkLock, Goto
<1>6. ASSUME NEW s \in Starters, InspectLock(s) PROVE AttemptsInv'
  BY <1>6 DEF InspectLock, Goto
<1>7. ASSUME NEW s \in Starters, Reclaim(s) PROVE AttemptsInv'
  BY <1>7 DEF Reclaim, UnlinkForeignLock, LiveLock, Goto
<1>8. ASSUME NEW s \in Starters, LockFails(s) PROVE AttemptsInv'
  BY <1>8 DEF LockFails, Goto
<1>9. ASSUME NEW s \in Starters, Recheck(s) PROVE AttemptsInv'
  BY <1>9 DEF Recheck, LiveRecord, LeaveFor, Goto
<1>10. ASSUME NEW s \in Starters, RemoveLocked(s) PROVE AttemptsInv'
  BY <1>10 DEF RemoveLocked, RemoveTree, LiveLock, LiveRecord, Goto
<1>11. ASSUME NEW s \in Starters, Spawn(s) PROVE AttemptsInv'
  BY <1>11 DEF Spawn, LeaveFor, Goto
<1>12. ASSUME NEW s \in Starters, Poll(s) PROVE AttemptsInv'
  BY <1>12 DEF Poll, Goto
<1>13. ASSUME NEW s \in Starters, Publish(s) PROVE AttemptsInv'
  BY <1>13 DEF Publish, LeaveFor, DropConnection, ShutDown, Goto
<1>14. ASSUME NEW s \in Starters, Terminate(s) PROVE AttemptsInv'
  BY <1>14 DEF Terminate, Goto
<1>15. ASSUME NEW s \in Starters, UnlinkSocket(s) PROVE AttemptsInv'
  BY <1>15 DEF UnlinkSocket, Goto
<1>16. ASSUME NEW s \in Starters, Release(s) PROVE AttemptsInv'
  BY <1>16 DEF Release, Goto
<1>17. ASSUME NEW s \in Starters, UnlinkLock(s) PROVE AttemptsInv'
  BY <1>17 DEF UnlinkLock, LiveLock, Goto
<1>18. ASSUME NEW s \in Starters, Attach(s) PROVE AttemptsInv'
  BY <1>18 DEF Attach, Goto
<1>19. ASSUME NEW s \in Starters, Retry(s) PROVE AttemptsInv'
  BY <1>19 DEF Retry, Goto
<1>20. ASSUME NEW s \in Starters, Disconnect(s) PROVE AttemptsInv'
  BY <1>20 DEF Disconnect, DropConnection, ShutDown, Goto
<1>21. ASSUME NEW s \in Starters, Crash(s) PROVE AttemptsInv'
  BY <1>21 DEF Crash, DropConnection, ShutDown, Goto
<1>22. ASSUME NEW b \in Backends, Boot(b) PROVE AttemptsInv'
  BY <1>22 DEF Boot
<1>23. ASSUME NEW b \in Backends, IdleShutDown(b) PROVE AttemptsInv'
  BY <1>23 DEF IdleShutDown, ShutDown
<1>24. ASSUME NEW b \in Backends, Exit(b) PROVE AttemptsInv'
  BY <1>24 DEF Exit
<1>25. ASSUME NEW b \in Backends, BackendCrash(b) PROVE AttemptsInv'
  BY <1>25 DEF BackendCrash
<1>26. ASSUME NEW p \in Pruners, PruneRead(p) PROVE AttemptsInv'
  BY <1>26 DEF PruneRead, LiveRecord, Goto
<1>27. ASSUME NEW p \in Pruners, PruneRemove(p) PROVE AttemptsInv'
  BY <1>27 DEF PruneRemove, RemoveTree, LiveLock, LiveRecord, Goto
<1>28. ASSUME NEW p \in Pruners, PruneInspect(p) PROVE AttemptsInv'
  BY <1>28 DEF PruneInspect, LiveLock, Goto
<1>29. ASSUME NEW p \in Pruners, PruneUnlink(p) PROVE AttemptsInv'
  BY <1>29 DEF PruneUnlink, UnlinkForeignLock, LiveLock, Goto
<1>30. ASSUME NEW p \in Pruners, PruneRmdir(p) PROVE AttemptsInv'
  BY <1>30 DEF PruneRmdir, Goto
<1>31. CASE StopDaemons
  BY <1>31 DEF StopDaemons, ShutDown
<1>32. CASE UNCHANGED vars
  BY <1>32 DEF vars
<1>33. QED
  BY <1>1, <1>2, <1>3, <1>4, <1>5, <1>6, <1>7, <1>8, <1>9, <1>10, <1>11, <1>12, <1>13, <1>14, <1>15, <1>16, <1>17, <1>18, <1>19, <1>20, <1>21, <1>22, <1>23, <1>24, <1>25, <1>26, <1>27, <1>28, <1>29, <1>30, <1>31, <1>32 DEF Next, AcquireStep, BackendStep, PruneStep

\* A step leaves the lock with the starter inside the critical section,
\* unless it is a misfire.
LEMMA LockStep ==
    ASSUME TypeOK, LockInv, [Next]_vars
    PROVE  LockInv'
<1> USE RegistryAssumption DEF TypeOK, LockInv, InCritical, Critical, Alive, Goals, files
<1>1. ASSUME NEW s \in Starters, Start(s) PROVE LockInv'
  BY <1>1 DEF Start, Goto
<1>2. ASSUME NEW s \in Starters, Check(s) PROVE LockInv'
  BY <1>2 DEF Check, LiveRecord, Goto
<1>3. ASSUME NEW s \in Starters, Remove(s) PROVE LockInv'
  BY <1>3 DEF Remove, RemoveTree, LiveLock, LiveRecord, Goto
<1>4. ASSUME NEW s \in Starters, Ensure(s) PROVE LockInv'
  BY <1>4 DEF Ensure, Goto
<1>5. ASSUME NEW s \in Starters, LinkLock(s) PROVE LockInv'
  BY <1>5 DEF LinkLock, Goto
<1>6. ASSUME NEW s \in Starters, InspectLock(s) PROVE LockInv'
  BY <1>6 DEF InspectLock, Goto
<1>7. ASSUME NEW s \in Starters, Reclaim(s) PROVE LockInv'
  BY <1>7 DEF Reclaim, UnlinkForeignLock, LiveLock, Goto
<1>8. ASSUME NEW s \in Starters, LockFails(s) PROVE LockInv'
  BY <1>8 DEF LockFails, Goto
<1>9. ASSUME NEW s \in Starters, Recheck(s) PROVE LockInv'
  BY <1>9 DEF Recheck, LiveRecord, LeaveFor, Goto
<1>10. ASSUME NEW s \in Starters, RemoveLocked(s) PROVE LockInv'
  BY <1>10 DEF RemoveLocked, RemoveTree, LiveLock, LiveRecord, Goto
<1>11. ASSUME NEW s \in Starters, Spawn(s) PROVE LockInv'
  BY <1>11 DEF Spawn, LeaveFor, Goto
<1>12. ASSUME NEW s \in Starters, Poll(s) PROVE LockInv'
  BY <1>12 DEF Poll, Goto
<1>13. ASSUME NEW s \in Starters, Publish(s) PROVE LockInv'
  BY <1>13 DEF Publish, LeaveFor, DropConnection, ShutDown, Goto
<1>14. ASSUME NEW s \in Starters, Terminate(s) PROVE LockInv'
  BY <1>14 DEF Terminate, Goto
<1>15. ASSUME NEW s \in Starters, UnlinkSocket(s) PROVE LockInv'
  BY <1>15 DEF UnlinkSocket, Goto
<1>16. ASSUME NEW s \in Starters, Release(s) PROVE LockInv'
  BY <1>16 DEF Release, Goto
<1>17. ASSUME NEW s \in Starters, UnlinkLock(s) PROVE LockInv'
  BY <1>17 DEF UnlinkLock, LiveLock, Goto
<1>18. ASSUME NEW s \in Starters, Attach(s) PROVE LockInv'
  BY <1>18 DEF Attach, Goto
<1>19. ASSUME NEW s \in Starters, Retry(s) PROVE LockInv'
  BY <1>19 DEF Retry, Goto
<1>20. ASSUME NEW s \in Starters, Disconnect(s) PROVE LockInv'
  BY <1>20 DEF Disconnect, DropConnection, ShutDown, Goto
<1>21. ASSUME NEW s \in Starters, Crash(s) PROVE LockInv'
  BY <1>21 DEF Crash, DropConnection, ShutDown, Goto
<1>22. ASSUME NEW b \in Backends, Boot(b) PROVE LockInv'
  BY <1>22 DEF Boot
<1>23. ASSUME NEW b \in Backends, IdleShutDown(b) PROVE LockInv'
  BY <1>23 DEF IdleShutDown, ShutDown
<1>24. ASSUME NEW b \in Backends, Exit(b) PROVE LockInv'
  BY <1>24 DEF Exit
<1>25. ASSUME NEW b \in Backends, BackendCrash(b) PROVE LockInv'
  BY <1>25 DEF BackendCrash
<1>26. ASSUME NEW p \in Pruners, PruneRead(p) PROVE LockInv'
  BY <1>26 DEF PruneRead, LiveRecord, Goto
<1>27. ASSUME NEW p \in Pruners, PruneRemove(p) PROVE LockInv'
  BY <1>27 DEF PruneRemove, RemoveTree, LiveLock, LiveRecord, Goto
<1>28. ASSUME NEW p \in Pruners, PruneInspect(p) PROVE LockInv'
  BY <1>28 DEF PruneInspect, LiveLock, Goto
<1>29. ASSUME NEW p \in Pruners, PruneUnlink(p) PROVE LockInv'
  BY <1>29 DEF PruneUnlink, UnlinkForeignLock, LiveLock, Goto
<1>30. ASSUME NEW p \in Pruners, PruneRmdir(p) PROVE LockInv'
  BY <1>30 DEF PruneRmdir, Goto
<1>31. CASE StopDaemons
  BY <1>31 DEF StopDaemons, ShutDown
<1>32. CASE UNCHANGED vars
  BY <1>32 DEF vars
<1>33. QED
  BY <1>1, <1>2, <1>3, <1>4, <1>5, <1>6, <1>7, <1>8, <1>9, <1>10, <1>11, <1>12, <1>13, <1>14, <1>15, <1>16, <1>17, <1>18, <1>19, <1>20, <1>21, <1>22, <1>23, <1>24, <1>25, <1>26, <1>27, <1>28, <1>29, <1>30, <1>31, <1>32 DEF Next, AcquireStep, BackendStep, PruneStep

\* A starter that leaves the critical section leaves no lock of its own.
LEMMA ReleaseStep ==
    ASSUME TypeOK, EveryExitReleases, [Next]_vars
    PROVE  EveryExitReleases'
<1> USE RegistryAssumption DEF TypeOK, EveryExitReleases, InCritical, Critical, Alive, Goals, files
<1>1. ASSUME NEW s \in Starters, Start(s) PROVE EveryExitReleases'
  BY <1>1 DEF Start, Goto
<1>2. ASSUME NEW s \in Starters, Check(s) PROVE EveryExitReleases'
  BY <1>2 DEF Check, LiveRecord, Goto
<1>3. ASSUME NEW s \in Starters, Remove(s) PROVE EveryExitReleases'
  BY <1>3 DEF Remove, RemoveTree, LiveLock, LiveRecord, Goto
<1>4. ASSUME NEW s \in Starters, Ensure(s) PROVE EveryExitReleases'
  BY <1>4 DEF Ensure, Goto
<1>5. ASSUME NEW s \in Starters, LinkLock(s) PROVE EveryExitReleases'
  BY <1>5 DEF LinkLock, Goto
<1>6. ASSUME NEW s \in Starters, InspectLock(s) PROVE EveryExitReleases'
  BY <1>6 DEF InspectLock, Goto
<1>7. ASSUME NEW s \in Starters, Reclaim(s) PROVE EveryExitReleases'
  BY <1>7 DEF Reclaim, UnlinkForeignLock, LiveLock, Goto
<1>8. ASSUME NEW s \in Starters, LockFails(s) PROVE EveryExitReleases'
  BY <1>8 DEF LockFails, Goto
<1>9. ASSUME NEW s \in Starters, Recheck(s) PROVE EveryExitReleases'
  BY <1>9 DEF Recheck, LiveRecord, LeaveFor, Goto
<1>10. ASSUME NEW s \in Starters, RemoveLocked(s) PROVE EveryExitReleases'
  BY <1>10 DEF RemoveLocked, RemoveTree, LiveLock, LiveRecord, Goto
<1>11. ASSUME NEW s \in Starters, Spawn(s) PROVE EveryExitReleases'
  BY <1>11 DEF Spawn, LeaveFor, Goto
<1>12. ASSUME NEW s \in Starters, Poll(s) PROVE EveryExitReleases'
  BY <1>12 DEF Poll, Goto
<1>13. ASSUME NEW s \in Starters, Publish(s) PROVE EveryExitReleases'
  BY <1>13 DEF Publish, LeaveFor, DropConnection, ShutDown, Goto
<1>14. ASSUME NEW s \in Starters, Terminate(s) PROVE EveryExitReleases'
  BY <1>14 DEF Terminate, Goto
<1>15. ASSUME NEW s \in Starters, UnlinkSocket(s) PROVE EveryExitReleases'
  BY <1>15 DEF UnlinkSocket, Goto
<1>16. ASSUME NEW s \in Starters, Release(s) PROVE EveryExitReleases'
  BY <1>16 DEF Release, Goto
<1>17. ASSUME NEW s \in Starters, UnlinkLock(s) PROVE EveryExitReleases'
  BY <1>17 DEF UnlinkLock, LiveLock, Goto
<1>18. ASSUME NEW s \in Starters, Attach(s) PROVE EveryExitReleases'
  BY <1>18 DEF Attach, Goto
<1>19. ASSUME NEW s \in Starters, Retry(s) PROVE EveryExitReleases'
  BY <1>19 DEF Retry, Goto
<1>20. ASSUME NEW s \in Starters, Disconnect(s) PROVE EveryExitReleases'
  BY <1>20 DEF Disconnect, DropConnection, ShutDown, Goto
<1>21. ASSUME NEW s \in Starters, Crash(s) PROVE EveryExitReleases'
  BY <1>21 DEF Crash, DropConnection, ShutDown, Goto
<1>22. ASSUME NEW b \in Backends, Boot(b) PROVE EveryExitReleases'
  BY <1>22 DEF Boot
<1>23. ASSUME NEW b \in Backends, IdleShutDown(b) PROVE EveryExitReleases'
  BY <1>23 DEF IdleShutDown, ShutDown
<1>24. ASSUME NEW b \in Backends, Exit(b) PROVE EveryExitReleases'
  BY <1>24 DEF Exit
<1>25. ASSUME NEW b \in Backends, BackendCrash(b) PROVE EveryExitReleases'
  BY <1>25 DEF BackendCrash
<1>26. ASSUME NEW p \in Pruners, PruneRead(p) PROVE EveryExitReleases'
  BY <1>26 DEF PruneRead, LiveRecord, Goto
<1>27. ASSUME NEW p \in Pruners, PruneRemove(p) PROVE EveryExitReleases'
  BY <1>27 DEF PruneRemove, RemoveTree, LiveLock, LiveRecord, Goto
<1>28. ASSUME NEW p \in Pruners, PruneInspect(p) PROVE EveryExitReleases'
  BY <1>28 DEF PruneInspect, LiveLock, Goto
<1>29. ASSUME NEW p \in Pruners, PruneUnlink(p) PROVE EveryExitReleases'
  BY <1>29 DEF PruneUnlink, UnlinkForeignLock, LiveLock, Goto
<1>30. ASSUME NEW p \in Pruners, PruneRmdir(p) PROVE EveryExitReleases'
  BY <1>30 DEF PruneRmdir, Goto
<1>31. CASE StopDaemons
  BY <1>31 DEF StopDaemons, ShutDown
<1>32. CASE UNCHANGED vars
  BY <1>32 DEF vars
<1>33. QED
  BY <1>1, <1>2, <1>3, <1>4, <1>5, <1>6, <1>7, <1>8, <1>9, <1>10, <1>11, <1>12, <1>13, <1>14, <1>15, <1>16, <1>17, <1>18, <1>19, <1>20, <1>21, <1>22, <1>23, <1>24, <1>25, <1>26, <1>27, <1>28, <1>29, <1>30, <1>31, <1>32 DEF Next, AcquireStep, BackendStep, PruneStep

\* Only a serving backend has clients.
LEMMA ConnStep ==
    ASSUME TypeOK, ConnInv, [Next]_vars
    PROVE  ConnInv'
<1> USE RegistryAssumption DEF TypeOK, ConnInv, ClientsOf, files
<1>1. ASSUME NEW s \in Starters, Start(s) PROVE ConnInv'
  BY <1>1 DEF Start, Goto
<1>2. ASSUME NEW s \in Starters, Check(s) PROVE ConnInv'
  BY <1>2 DEF Check, LiveRecord, Goto
<1>3. ASSUME NEW s \in Starters, Remove(s) PROVE ConnInv'
  BY <1>3 DEF Remove, RemoveTree, LiveLock, LiveRecord, Goto
<1>4. ASSUME NEW s \in Starters, Ensure(s) PROVE ConnInv'
  BY <1>4 DEF Ensure, Goto
<1>5. ASSUME NEW s \in Starters, LinkLock(s) PROVE ConnInv'
  BY <1>5 DEF LinkLock, Goto
<1>6. ASSUME NEW s \in Starters, InspectLock(s) PROVE ConnInv'
  BY <1>6 DEF InspectLock, Goto
<1>7. ASSUME NEW s \in Starters, Reclaim(s) PROVE ConnInv'
  BY <1>7 DEF Reclaim, UnlinkForeignLock, LiveLock, Goto
<1>8. ASSUME NEW s \in Starters, LockFails(s) PROVE ConnInv'
  BY <1>8 DEF LockFails, Goto
<1>9. ASSUME NEW s \in Starters, Recheck(s) PROVE ConnInv'
  BY <1>9 DEF Recheck, LiveRecord, LeaveFor, Goto
<1>10. ASSUME NEW s \in Starters, RemoveLocked(s) PROVE ConnInv'
  BY <1>10 DEF RemoveLocked, RemoveTree, LiveLock, LiveRecord, Goto
<1>11. ASSUME NEW s \in Starters, Spawn(s) PROVE ConnInv'
  BY <1>11 DEF Spawn, LeaveFor, Goto
<1>12. ASSUME NEW s \in Starters, Poll(s) PROVE ConnInv'
  BY <1>12 DEF Poll, Goto
<1>13. ASSUME NEW s \in Starters, Publish(s) PROVE ConnInv'
  BY <1>13 DEF Publish, LeaveFor, DropConnection, ShutDown, Goto
<1>14. ASSUME NEW s \in Starters, Terminate(s) PROVE ConnInv'
  BY <1>14 DEF Terminate, Goto
<1>15. ASSUME NEW s \in Starters, UnlinkSocket(s) PROVE ConnInv'
  BY <1>15 DEF UnlinkSocket, Goto
<1>16. ASSUME NEW s \in Starters, Release(s) PROVE ConnInv'
  BY <1>16 DEF Release, Goto
<1>17. ASSUME NEW s \in Starters, UnlinkLock(s) PROVE ConnInv'
  BY <1>17 DEF UnlinkLock, LiveLock, Goto
<1>18. ASSUME NEW s \in Starters, Attach(s) PROVE ConnInv'
  BY <1>18 DEF Attach, Goto
<1>19. ASSUME NEW s \in Starters, Retry(s) PROVE ConnInv'
  BY <1>19 DEF Retry, Goto
<1>20. ASSUME NEW s \in Starters, Disconnect(s) PROVE ConnInv'
  BY <1>20 DEF Disconnect, DropConnection, ShutDown, Goto
<1>21. ASSUME NEW s \in Starters, Crash(s) PROVE ConnInv'
  BY <1>21 DEF Crash, DropConnection, ShutDown, Goto
<1>22. ASSUME NEW b \in Backends, Boot(b) PROVE ConnInv'
  BY <1>22 DEF Boot
<1>23. ASSUME NEW b \in Backends, IdleShutDown(b) PROVE ConnInv'
  BY <1>23 DEF IdleShutDown, ShutDown
<1>24. ASSUME NEW b \in Backends, Exit(b) PROVE ConnInv'
  BY <1>24 DEF Exit
<1>25. ASSUME NEW b \in Backends, BackendCrash(b) PROVE ConnInv'
  BY <1>25 DEF BackendCrash
<1>26. ASSUME NEW p \in Pruners, PruneRead(p) PROVE ConnInv'
  BY <1>26 DEF PruneRead, LiveRecord, Goto
<1>27. ASSUME NEW p \in Pruners, PruneRemove(p) PROVE ConnInv'
  BY <1>27 DEF PruneRemove, RemoveTree, LiveLock, LiveRecord, Goto
<1>28. ASSUME NEW p \in Pruners, PruneInspect(p) PROVE ConnInv'
  BY <1>28 DEF PruneInspect, LiveLock, Goto
<1>29. ASSUME NEW p \in Pruners, PruneUnlink(p) PROVE ConnInv'
  BY <1>29 DEF PruneUnlink, UnlinkForeignLock, LiveLock, Goto
<1>30. ASSUME NEW p \in Pruners, PruneRmdir(p) PROVE ConnInv'
  BY <1>30 DEF PruneRmdir, Goto
<1>31. CASE StopDaemons
  BY <1>31 DEF StopDaemons, ShutDown
<1>32. CASE UNCHANGED vars
  BY <1>32 DEF vars
<1>33. QED
  BY <1>1, <1>2, <1>3, <1>4, <1>5, <1>6, <1>7, <1>8, <1>9, <1>10, <1>11, <1>12, <1>13, <1>14, <1>15, <1>16, <1>17, <1>18, <1>19, <1>20, <1>21, <1>22, <1>23, <1>24, <1>25, <1>26, <1>27, <1>28, <1>29, <1>30, <1>31, <1>32 DEF Next, AcquireStep, BackendStep, PruneStep

\* The end of a connection starts or ends no process.
LEMMA DropEffect ==
    ASSUME TypeOK, ConnInv, NEW s \in Starters, DropConnection(s)
    PROVE  \A b \in Backends :
              /\ Running(b)' <=> Running(b)
              /\ backend'[b] = "unspawned" <=> backend[b] = "unspawned"
              /\ backend'[b] = "exited" <=> backend[b] = "exited"
  BY RegistryAssumption DEF TypeOK, ConnInv, DropConnection, ShutDown, Running

\* A step keeps children with the starters that spawned them.
LEMMA ChildStep ==
    ASSUME TypeOK, ConnInv, ChildInv, [Next]_vars
    PROVE  ChildInv'
<1> USE RegistryAssumption DEF TypeOK, ChildInv, Holding, Alive, Goals, files
<1>1. ASSUME NEW s \in Starters, Start(s) PROVE ChildInv'
  BY <1>1 DEF Start, Goto
<1>2. ASSUME NEW s \in Starters, Check(s) PROVE ChildInv'
  BY <1>2 DEF Check, LiveRecord, Goto
<1>3. ASSUME NEW s \in Starters, Remove(s) PROVE ChildInv'
  BY <1>3 DEF Remove, RemoveTree, LiveLock, LiveRecord, Goto
<1>4. ASSUME NEW s \in Starters, Ensure(s) PROVE ChildInv'
  BY <1>4 DEF Ensure, Goto
<1>5. ASSUME NEW s \in Starters, LinkLock(s) PROVE ChildInv'
  BY <1>5 DEF LinkLock, Goto
<1>6. ASSUME NEW s \in Starters, InspectLock(s) PROVE ChildInv'
  BY <1>6 DEF InspectLock, Goto
<1>7. ASSUME NEW s \in Starters, Reclaim(s) PROVE ChildInv'
  BY <1>7 DEF Reclaim, UnlinkForeignLock, LiveLock, Goto
<1>8. ASSUME NEW s \in Starters, LockFails(s) PROVE ChildInv'
  BY <1>8 DEF LockFails, Goto
<1>9. ASSUME NEW s \in Starters, Recheck(s) PROVE ChildInv'
  BY <1>9 DEF Recheck, LiveRecord, LeaveFor, Goto
<1>10. ASSUME NEW s \in Starters, RemoveLocked(s) PROVE ChildInv'
  BY <1>10 DEF RemoveLocked, RemoveTree, LiveLock, LiveRecord, Goto
<1>11. ASSUME NEW s \in Starters, Spawn(s) PROVE ChildInv'
  BY <1>11 DEF Spawn, LeaveFor, Goto
<1>12. ASSUME NEW s \in Starters, Poll(s) PROVE ChildInv'
  BY <1>12 DEF Poll, Goto
<1>13. ASSUME NEW s \in Starters, Publish(s) PROVE ChildInv'
  BY <1>13, DropEffect DEF Publish, LeaveFor, Goto
<1>14. ASSUME NEW s \in Starters, Terminate(s) PROVE ChildInv'
  BY <1>14 DEF Terminate, Goto
<1>15. ASSUME NEW s \in Starters, UnlinkSocket(s) PROVE ChildInv'
  BY <1>15 DEF UnlinkSocket, Goto
<1>16. ASSUME NEW s \in Starters, Release(s) PROVE ChildInv'
  BY <1>16 DEF Release, Goto
<1>17. ASSUME NEW s \in Starters, UnlinkLock(s) PROVE ChildInv'
  BY <1>17 DEF UnlinkLock, LiveLock, Goto
<1>18. ASSUME NEW s \in Starters, Attach(s) PROVE ChildInv'
  BY <1>18 DEF Attach, Goto
<1>19. ASSUME NEW s \in Starters, Retry(s) PROVE ChildInv'
  BY <1>19 DEF Retry, Goto
<1>20. ASSUME NEW s \in Starters, Disconnect(s) PROVE ChildInv'
  BY <1>20, DropEffect DEF Disconnect, Goto
<1>21. ASSUME NEW s \in Starters, Crash(s) PROVE ChildInv'
  BY <1>21, DropEffect DEF Crash, Goto
<1>22. ASSUME NEW b \in Backends, Boot(b) PROVE ChildInv'
  BY <1>22 DEF Boot
<1>23. ASSUME NEW b \in Backends, IdleShutDown(b) PROVE ChildInv'
  BY <1>23 DEF IdleShutDown, ShutDown
<1>24. ASSUME NEW b \in Backends, Exit(b) PROVE ChildInv'
  BY <1>24 DEF Exit
<1>25. ASSUME NEW b \in Backends, BackendCrash(b) PROVE ChildInv'
  BY <1>25 DEF BackendCrash
<1>26. ASSUME NEW p \in Pruners, PruneRead(p) PROVE ChildInv'
  BY <1>26 DEF PruneRead, LiveRecord, Goto
<1>27. ASSUME NEW p \in Pruners, PruneRemove(p) PROVE ChildInv'
  BY <1>27 DEF PruneRemove, RemoveTree, LiveLock, LiveRecord, Goto
<1>28. ASSUME NEW p \in Pruners, PruneInspect(p) PROVE ChildInv'
  BY <1>28 DEF PruneInspect, LiveLock, Goto
<1>29. ASSUME NEW p \in Pruners, PruneUnlink(p) PROVE ChildInv'
  BY <1>29 DEF PruneUnlink, UnlinkForeignLock, LiveLock, Goto
<1>30. ASSUME NEW p \in Pruners, PruneRmdir(p) PROVE ChildInv'
  BY <1>30 DEF PruneRmdir, Goto
<1>31. CASE StopDaemons
  BY <1>31 DEF StopDaemons, ShutDown
<1>32. CASE UNCHANGED vars
  BY <1>32 DEF vars
<1>33. QED
  BY <1>1, <1>2, <1>3, <1>4, <1>5, <1>6, <1>7, <1>8, <1>9, <1>10, <1>11, <1>12, <1>13, <1>14, <1>15, <1>16, <1>17, <1>18, <1>19, <1>20, <1>21, <1>22, <1>23, <1>24, <1>25, <1>26, <1>27, <1>28, <1>29, <1>30, <1>31, <1>32 DEF Next, AcquireStep, BackendStep, PruneStep

\* A step keeps the record dead while a starter is about to replace it.
LEMMA RecordStep ==
    ASSUME TypeOK, ConnInv, LockInv, ChildInv, RecordInv, [Next]_vars
    PROVE  RecordInv'
<1> USE RegistryAssumption DEF TypeOK, RecordInv, Starting, LiveRecord, Running, Goals, files
<1>1. ASSUME NEW s \in Starters, Start(s) PROVE RecordInv'
  BY <1>1 DEF Start, Goto
<1>2. ASSUME NEW s \in Starters, Check(s) PROVE RecordInv'
  BY <1>2 DEF Check, Goto
<1>3. ASSUME NEW s \in Starters, Remove(s) PROVE RecordInv'
  BY <1>3 DEF Remove, RemoveTree, LiveLock, Goto
<1>4. ASSUME NEW s \in Starters, Ensure(s) PROVE RecordInv'
  BY <1>4 DEF Ensure, Goto
<1>5. ASSUME NEW s \in Starters, LinkLock(s) PROVE RecordInv'
  BY <1>5 DEF LinkLock, Goto
<1>6. ASSUME NEW s \in Starters, InspectLock(s) PROVE RecordInv'
  BY <1>6 DEF InspectLock, Goto
<1>7. ASSUME NEW s \in Starters, Reclaim(s) PROVE RecordInv'
  BY <1>7 DEF Reclaim, UnlinkForeignLock, LiveLock, Goto
<1>8. ASSUME NEW s \in Starters, LockFails(s) PROVE RecordInv'
  BY <1>8 DEF LockFails, Goto
<1>9. ASSUME NEW s \in Starters, Recheck(s) PROVE RecordInv'
  BY <1>9 DEF Recheck, LeaveFor, Goto
<1>10. ASSUME NEW s \in Starters, RemoveLocked(s) PROVE RecordInv'
  BY <1>10 DEF RemoveLocked, RemoveTree, LiveLock, Goto
<1>11. ASSUME NEW s \in Starters, Spawn(s) PROVE RecordInv'
  BY <1>11 DEF Spawn, LeaveFor, Goto, ChildInv
<1>12. ASSUME NEW s \in Starters, Poll(s) PROVE RecordInv'
  BY <1>12 DEF Poll, Goto
<1>13. ASSUME NEW s \in Starters, Publish(s) PROVE RecordInv'
  BY <1>13, DropEffect DEF Publish, LeaveFor, Goto, LockInv, InCritical, Critical
<1>14. ASSUME NEW s \in Starters, Terminate(s) PROVE RecordInv'
  BY <1>14 DEF Terminate, Goto
<1>15. ASSUME NEW s \in Starters, UnlinkSocket(s) PROVE RecordInv'
  BY <1>15 DEF UnlinkSocket, Goto
<1>16. ASSUME NEW s \in Starters, Release(s) PROVE RecordInv'
  BY <1>16 DEF Release, Goto
<1>17. ASSUME NEW s \in Starters, UnlinkLock(s) PROVE RecordInv'
  BY <1>17 DEF UnlinkLock, LiveLock, Goto
<1>18. ASSUME NEW s \in Starters, Attach(s) PROVE RecordInv'
  BY <1>18 DEF Attach, Goto
<1>19. ASSUME NEW s \in Starters, Retry(s) PROVE RecordInv'
  BY <1>19 DEF Retry, Goto
<1>20. ASSUME NEW s \in Starters, Disconnect(s) PROVE RecordInv'
  BY <1>20, DropEffect DEF Disconnect, Goto
<1>21. ASSUME NEW s \in Starters, Crash(s) PROVE RecordInv'
  BY <1>21, DropEffect DEF Crash, Goto
<1>22. ASSUME NEW b \in Backends, Boot(b) PROVE RecordInv'
  BY <1>22 DEF Boot
<1>23. ASSUME NEW b \in Backends, IdleShutDown(b) PROVE RecordInv'
  BY <1>23 DEF IdleShutDown, ShutDown
<1>24. ASSUME NEW b \in Backends, Exit(b) PROVE RecordInv'
  BY <1>24 DEF Exit
<1>25. ASSUME NEW b \in Backends, BackendCrash(b) PROVE RecordInv'
  BY <1>25 DEF BackendCrash
<1>26. ASSUME NEW p \in Pruners, PruneRead(p) PROVE RecordInv'
  BY <1>26 DEF PruneRead, Goto
<1>27. ASSUME NEW p \in Pruners, PruneRemove(p) PROVE RecordInv'
  BY <1>27 DEF PruneRemove, RemoveTree, LiveLock, Goto
<1>28. ASSUME NEW p \in Pruners, PruneInspect(p) PROVE RecordInv'
  BY <1>28 DEF PruneInspect, LiveLock, Goto
<1>29. ASSUME NEW p \in Pruners, PruneUnlink(p) PROVE RecordInv'
  BY <1>29 DEF PruneUnlink, UnlinkForeignLock, LiveLock, Goto
<1>30. ASSUME NEW p \in Pruners, PruneRmdir(p) PROVE RecordInv'
  BY <1>30 DEF PruneRmdir, Goto
<1>31. CASE StopDaemons
  BY <1>31 DEF StopDaemons, ShutDown
<1>32. CASE UNCHANGED vars
  BY <1>32 DEF vars
<1>33. QED
  BY <1>1, <1>2, <1>3, <1>4, <1>5, <1>6, <1>7, <1>8, <1>9, <1>10, <1>11, <1>12, <1>13, <1>14, <1>15, <1>16, <1>17, <1>18, <1>19, <1>20, <1>21, <1>22, <1>23, <1>24, <1>25, <1>26, <1>27, <1>28, <1>29, <1>30, <1>31, <1>32 DEF Next, AcquireStep, BackendStep, PruneStep

\* A step leaks no backend.
LEMMA LeakStep ==
    ASSUME TypeOK, ConnInv, ChildInv, RecordInv, NoLeakedBackend, [Next]_vars
    PROVE  NoLeakedBackend'
<1> USE RegistryAssumption DEF TypeOK, NoLeakedBackend, Running, files
<1>1. ASSUME NEW s \in Starters, Start(s) PROVE NoLeakedBackend'
  BY <1>1 DEF Start, Goto
<1>2. ASSUME NEW s \in Starters, Check(s) PROVE NoLeakedBackend'
  BY <1>2 DEF Check, LiveRecord, Goto
<1>3. ASSUME NEW s \in Starters, Remove(s) PROVE NoLeakedBackend'
  BY <1>3 DEF Remove, RemoveTree, LiveLock, LiveRecord, Goto
<1>4. ASSUME NEW s \in Starters, Ensure(s) PROVE NoLeakedBackend'
  BY <1>4 DEF Ensure, Goto
<1>5. ASSUME NEW s \in Starters, LinkLock(s) PROVE NoLeakedBackend'
  BY <1>5 DEF LinkLock, Goto
<1>6. ASSUME NEW s \in Starters, InspectLock(s) PROVE NoLeakedBackend'
  BY <1>6 DEF InspectLock, Goto
<1>7. ASSUME NEW s \in Starters, Reclaim(s) PROVE NoLeakedBackend'
  BY <1>7 DEF Reclaim, UnlinkForeignLock, LiveLock, Goto
<1>8. ASSUME NEW s \in Starters, LockFails(s) PROVE NoLeakedBackend'
  BY <1>8 DEF LockFails, Goto
<1>9. ASSUME NEW s \in Starters, Recheck(s) PROVE NoLeakedBackend'
  BY <1>9 DEF Recheck, LiveRecord, LeaveFor, Goto
<1>10. ASSUME NEW s \in Starters, RemoveLocked(s) PROVE NoLeakedBackend'
  BY <1>10 DEF RemoveLocked, RemoveTree, LiveLock, LiveRecord, Goto
<1>11. ASSUME NEW s \in Starters, Spawn(s) PROVE NoLeakedBackend'
  BY <1>11 DEF Spawn, LeaveFor, Goto, ChildInv, Holding, Alive
<1>12. ASSUME NEW s \in Starters, Poll(s) PROVE NoLeakedBackend'
  BY <1>12 DEF Poll, Goto
<1>13. ASSUME NEW s \in Starters, Publish(s) PROVE NoLeakedBackend'
  BY <1>13, DropEffect DEF Publish, LeaveFor, Goto, ChildInv, Holding, Alive, RecordInv, Starting, LiveRecord
<1>14. ASSUME NEW s \in Starters, Terminate(s) PROVE NoLeakedBackend'
  BY <1>14 DEF Terminate, Goto
<1>15. ASSUME NEW s \in Starters, UnlinkSocket(s) PROVE NoLeakedBackend'
  BY <1>15 DEF UnlinkSocket, Goto, ChildInv, Holding, Alive
<1>16. ASSUME NEW s \in Starters, Release(s) PROVE NoLeakedBackend'
  BY <1>16 DEF Release, Goto
<1>17. ASSUME NEW s \in Starters, UnlinkLock(s) PROVE NoLeakedBackend'
  BY <1>17 DEF UnlinkLock, LiveLock, Goto
<1>18. ASSUME NEW s \in Starters, Attach(s) PROVE NoLeakedBackend'
  BY <1>18 DEF Attach, Goto
<1>19. ASSUME NEW s \in Starters, Retry(s) PROVE NoLeakedBackend'
  BY <1>19 DEF Retry, Goto
<1>20. ASSUME NEW s \in Starters, Disconnect(s) PROVE NoLeakedBackend'
  BY <1>20, DropEffect DEF Disconnect, Goto
<1>21. ASSUME NEW s \in Starters, Crash(s) PROVE NoLeakedBackend'
  BY <1>21, DropEffect DEF Crash, Goto
<1>22. ASSUME NEW b \in Backends, Boot(b) PROVE NoLeakedBackend'
  BY <1>22 DEF Boot
<1>23. ASSUME NEW b \in Backends, IdleShutDown(b) PROVE NoLeakedBackend'
  BY <1>23 DEF IdleShutDown, ShutDown
<1>24. ASSUME NEW b \in Backends, Exit(b) PROVE NoLeakedBackend'
  BY <1>24 DEF Exit
<1>25. ASSUME NEW b \in Backends, BackendCrash(b) PROVE NoLeakedBackend'
  BY <1>25 DEF BackendCrash
<1>26. ASSUME NEW p \in Pruners, PruneRead(p) PROVE NoLeakedBackend'
  BY <1>26 DEF PruneRead, LiveRecord, Goto
<1>27. ASSUME NEW p \in Pruners, PruneRemove(p) PROVE NoLeakedBackend'
  BY <1>27 DEF PruneRemove, RemoveTree, LiveLock, LiveRecord, Goto
<1>28. ASSUME NEW p \in Pruners, PruneInspect(p) PROVE NoLeakedBackend'
  BY <1>28 DEF PruneInspect, LiveLock, Goto
<1>29. ASSUME NEW p \in Pruners, PruneUnlink(p) PROVE NoLeakedBackend'
  BY <1>29 DEF PruneUnlink, UnlinkForeignLock, LiveLock, Goto
<1>30. ASSUME NEW p \in Pruners, PruneRmdir(p) PROVE NoLeakedBackend'
  BY <1>30 DEF PruneRmdir, Goto
<1>31. CASE StopDaemons
  BY <1>31 DEF StopDaemons, ShutDown
<1>32. CASE UNCHANGED vars
  BY <1>32 DEF vars
<1>33. QED
  BY <1>1, <1>2, <1>3, <1>4, <1>5, <1>6, <1>7, <1>8, <1>9, <1>10, <1>11, <1>12, <1>13, <1>14, <1>15, <1>16, <1>17, <1>18, <1>19, <1>20, <1>21, <1>22, <1>23, <1>24, <1>25, <1>26, <1>27, <1>28, <1>29, <1>30, <1>31, <1>32 DEF Next, AcquireStep, BackendStep, PruneStep
-----------------------------------------------------------------------------
\* The conjunction of the lemmas above is inductive.
THEOREM Invariance == Spec => []IInv
<1>1. Init => IInv
  <2> SUFFICES ASSUME Init PROVE IInv
    OBVIOUS
  <2> USE RegistryAssumption DEF Init
  <2>1. TypeOK
    <3>1. pc \in [Starters \union Pruners -> StarterPC \union PrunerPC]
      BY DEF StarterPC, PrunerPC
    <3>2. goal \in [Starters -> Goals] /\ attempts \in [Starters -> 0 .. MaxAttempts]
      BY DEF Goals
    <3>3. QED
      BY <3>1, <3>2 DEF TypeOK
  <2>2. \A s \in Starters : pc[s] = "start"
    OBVIOUS
  <2>3. AttemptsInv
    BY DEF AttemptsInv
  <2>4. LockInv /\ EveryExitReleases
    BY <2>2 DEF LockInv, InCritical, Critical, EveryExitReleases
  <2>5. ConnInv /\ ChildInv
    BY <2>2 DEF ConnInv, ChildInv, Holding
  <2>6. RecordInv /\ NoLeakedBackend
    BY <2>2 DEF RecordInv, Starting, NoLeakedBackend, Running
  <2>7. QED
    BY <2>1, <2>3, <2>4, <2>5, <2>6 DEF IInv
<1>2. IInv /\ [Next]_vars => IInv'
  BY TypeStep, AttemptsStep, LockStep, ReleaseStep, ConnStep, ChildStep, RecordStep, LeakStep
  DEF IInv
<1>3. QED
  BY <1>1, <1>2, PTL DEF Spec

\* The variables keep their types.
THEOREM TypeCorrect == Spec => []TypeOK
<1>1. IInv => TypeOK
  BY DEF IInv
<1>2. QED
  BY <1>1, Invariance, PTL

\* startup.lock excludes until a clean-up deletes a live lock or a live record.
THEOREM MutualExclusion == Spec => []ExclusiveUntilMisfire
<1>1. IInv => ExclusiveUntilMisfire
  BY DEF IInv, LockInv, ExclusiveUntilMisfire
<1>2. QED
  BY <1>1, Invariance, PTL

\* However acquireDaemonAttempt is left, its lock is gone.
THEOREM LockReleased == Spec => []EveryExitReleases
<1>1. IInv => EveryExitReleases
  BY DEF IInv
<1>2. QED
  BY <1>1, Invariance, PTL

\* No running backend is lost from both the record and its starter.
THEOREM NoLeak == Spec => []NoLeakedBackend
<1>1. IInv => NoLeakedBackend
  BY DEF IInv
<1>2. QED
  BY <1>1, Invariance, PTL

\* At most one backend runs beside abandoned ones: two would be two children,
\* of two starters inside the critical section.
LEMMA OneRunning == IInv => SingleBackendUntilMisfire
<1> SUFFICES ASSUME IInv, ~misfire,
                    NEW a \in Backends, NEW b \in Backends,
                    Running(a), Running(b), ~Abandoned(a), ~Abandoned(b)
             PROVE  a = b
  BY DEF SingleBackendUntilMisfire
<1> DEFINE Parent(x, s) == s \in Starters /\ child[s] = x /\ pc[s] \in Holding
<1>1. ASSUME NEW x \in {a, b} PROVE record = x \/ \E s \in Starters : Parent(x, s)
  BY RegistryAssumption DEF IInv, NoLeakedBackend, ChildInv, Abandoned
<1>2. ASSUME NEW x \in {a, b}, NEW s \in Starters, Parent(x, s) PROVE record \notin {a, b}
  BY <1>2, RegistryAssumption DEF IInv, RecordInv, LiveRecord, Starting, Holding
<1>3. ASSUME NEW s \in Starters, NEW t \in Starters, Parent(a, s), Parent(b, t) PROVE s = t
  BY <1>3 DEF IInv, LockInv, InCritical, Critical, Holding
<1>4. QED
  BY <1>1, <1>2, <1>3

\* Beside abandoned ones, at most one backend of the instance is running.
THEOREM SingleBackend == Spec => []SingleBackendUntilMisfire
  BY Invariance, OneRunning, PTL

\* Nobody overwrites or removes the record of a running backend.
THEOREM RecordKept == Spec => LiveRecordKept
<1>1. IInv /\ [Next]_vars => [LiveRecord /\ ~misfire' => record' = record]_vars
  <2> SUFFICES ASSUME IInv, Next, LiveRecord, ~misfire'
               PROVE  record' = record
    BY DEF vars
  <2>1. ASSUME NEW s \in Starters, Publish(s) PROVE record' = record
    BY <2>1 DEF Publish, IInv, RecordInv, Starting
  <2>2. ASSUME RemoveTree PROVE FALSE
    BY <2>2 DEF RemoveTree
  <2>3. QED
    BY <2>1, <2>2
    DEF Next, AcquireStep, BackendStep, PruneStep, files,
        Start, Check, Remove, Ensure, LinkLock, InspectLock, Reclaim, LockFails, Recheck,
        RemoveLocked, Spawn, Poll, Terminate, UnlinkSocket, Release, UnlinkLock, Attach,
        Retry, Disconnect, Crash, Boot, IdleShutDown, Exit, BackendCrash, PruneRead,
        PruneRemove, PruneInspect, PruneUnlink, PruneRmdir, StopDaemons
<1>2. QED
  BY <1>1, Invariance, PTL DEF Spec, LiveRecordKept
-----------------------------------------------------------------------------
\* Unless a clean-up has misfired or a starter has left a backend behind, the
\* socket path is that of the backend that serves: while it is the child of its
\* starter, before it is published, as much as afterwards.
Undisturbed == ~misfire /\ \A b \in Backends : ~Abandoned(b)
Serving(b) == backend[b] = "serving"
SocketInv == Undisturbed => \A b \in Backends : Serving(b) => socket = b

\* No step undoes a misfire, and nobody looks after the child of a killed starter.
LEMMA DisturbedStays ==
    ASSUME IInv, Next, Undisturbed'
    PROVE  Undisturbed
<1> USE RegistryAssumption DEF IInv, TypeOK, Undisturbed, Abandoned, Alive
<1>1. ~misfire
  BY DEF Next, AcquireStep, BackendStep, PruneStep, files, RemoveTree, UnlinkForeignLock,
         Start, Check, Remove, Ensure, LinkLock, InspectLock, Reclaim, LockFails, Recheck,
         RemoveLocked, Spawn, Poll, Publish, Terminate, UnlinkSocket, Release, UnlinkLock, Attach,
         Retry, Disconnect, Crash, Boot, IdleShutDown, Exit, BackendCrash, PruneRead,
         PruneRemove, PruneInspect, PruneUnlink, PruneRmdir, StopDaemons
<1>2. ASSUME NEW s \in Starters, pc[s] = "crashed" PROVE pc'[s] = "crashed" /\ child'[s] = child[s]
  BY <1>2
  DEF Next, AcquireStep, BackendStep, PruneStep, Goto, LeaveFor,
      Start, Check, Remove, Ensure, LinkLock, InspectLock, Reclaim, LockFails, Recheck,
      RemoveLocked, Spawn, Poll, Publish, Terminate, UnlinkSocket, Release, UnlinkLock, Attach,
      Retry, Disconnect, Crash, Boot, IdleShutDown, Exit, BackendCrash, PruneRead,
      PruneRemove, PruneInspect, PruneUnlink, PruneRmdir, StopDaemons
<1>3. QED
  BY <1>1, <1>2

\* A backend that serves is in the record, which is then live, or it is the child
\* of a live starter, which holds the lock.
LEMMA ServingIsHeld ==
    ASSUME IInv, Undisturbed, NEW b \in Backends, Serving(b)
    PROVE  LiveRecord \/ LiveLock
<1> USE RegistryAssumption DEF Serving, Undisturbed
<1>1. record = b \/ \E s \in Starters : child[s] = b
  BY DEF IInv, NoLeakedBackend, Running
<1>2. CASE record = b
  BY <1>2 DEF LiveRecord, Running
<1>3. ASSUME NEW s \in Starters, child[s] = b PROVE LiveLock
  <2>1. Alive(s) /\ pc[s] \in Holding
    BY <1>3 DEF Abandoned, IInv, ChildInv
  <2>2. lock = s
    BY <2>1 DEF IInv, LockInv, InCritical, Critical, Holding
  <2>3. QED
    BY <2>1, <2>2 DEF LiveLock
<1>4. QED
  BY <1>1, <1>2, <1>3

\* A step does not take the socket path from a backend that serves.
LEMMA SocketStep ==
    ASSUME IInv, SocketInv, [Next]_vars
    PROVE  SocketInv'
<1>1. CASE UNCHANGED vars
  BY <1>1 DEF vars, SocketInv, Undisturbed, Serving, Abandoned, Alive
<1>2. SUFFICES ASSUME Next, Undisturbed', NEW b \in Backends, Serving(b)'
               PROVE  socket' = b
  BY <1>1 DEF SocketInv
<1>3. Undisturbed /\ TypeOK /\ ConnInv
  BY <1>2, DisturbedStays DEF IInv
<1>4. Serving(b) => socket = b
  BY <1>3 DEF SocketInv
<1>5. ASSUME NEW a \in Backends, Running(a), Serving(b) PROVE a = b
  BY <1>3, <1>5, OneRunning DEF Undisturbed, SingleBackendUntilMisfire, Running, Serving
<1>6. ASSUME RemoveTree, Serving(b) PROVE FALSE
  BY <1>2, <1>3, <1>6, ServingIsHeld DEF RemoveTree, Undisturbed
<1>7. ASSUME NEW s \in Starters, DropConnection(s) PROVE socket' = b
  <2>1. CASE conn[s] # None /\ ClientsOf(conn[s]) = {s}
    <3>1. conn[s] \in Backends /\ Serving(conn[s])
      BY <1>3, <2>1 DEF TypeOK, ConnInv, Serving
    <3>2. backend' = [backend EXCEPT ![conn[s]] = "closing"]
      BY <1>7, <2>1 DEF DropConnection, ShutDown
    <3>3. conn[s] # b /\ Serving(b)
      BY <1>2, <1>3, <3>1, <3>2 DEF TypeOK, Serving
    <3>4. QED
      BY <1>5, <3>1, <3>3 DEF Running, Serving
  <2>2. CASE ~(conn[s] # None /\ ClientsOf(conn[s]) = {s})
    BY <1>2, <1>4, <1>7, <2>2 DEF DropConnection, Serving
  <2>3. QED
    BY <2>1, <2>2
<1> USE RegistryAssumption DEF TypeOK, Serving, files
<1>8. ASSUME NEW s \in Starters, Start(s) PROVE socket' = b
  BY <1>2, <1>3, <1>4, <1>8 DEF Start
<1>9. ASSUME NEW s \in Starters, Check(s) PROVE socket' = b
  BY <1>2, <1>3, <1>4, <1>9 DEF Check
<1>10. ASSUME NEW s \in Starters, Remove(s) PROVE socket' = b
  BY <1>2, <1>6, <1>10 DEF Remove
<1>11. ASSUME NEW s \in Starters, Ensure(s) PROVE socket' = b
  BY <1>2, <1>3, <1>4, <1>11 DEF Ensure
<1>12. ASSUME NEW s \in Starters, LinkLock(s) PROVE socket' = b
  BY <1>2, <1>3, <1>4, <1>12 DEF LinkLock
<1>13. ASSUME NEW s \in Starters, InspectLock(s) PROVE socket' = b
  BY <1>2, <1>3, <1>4, <1>13 DEF InspectLock
<1>14. ASSUME NEW s \in Starters, Reclaim(s) PROVE socket' = b
  BY <1>2, <1>3, <1>4, <1>14 DEF Reclaim, UnlinkForeignLock
<1>15. ASSUME NEW s \in Starters, LockFails(s) PROVE socket' = b
  BY <1>2, <1>3, <1>4, <1>15 DEF LockFails
<1>16. ASSUME NEW s \in Starters, Recheck(s) PROVE socket' = b
  BY <1>2, <1>3, <1>4, <1>16 DEF Recheck
<1>17. ASSUME NEW s \in Starters, RemoveLocked(s) PROVE socket' = b
  BY <1>2, <1>6, <1>17 DEF RemoveLocked
<1>18. ASSUME NEW s \in Starters, Spawn(s) PROVE socket' = b
  BY <1>2, <1>3, <1>4, <1>18 DEF Spawn
<1>19. ASSUME NEW s \in Starters, Poll(s) PROVE socket' = b
  BY <1>2, <1>3, <1>4, <1>19 DEF Poll
<1>20. ASSUME NEW s \in Starters, Publish(s) PROVE socket' = b
  BY <1>2, <1>3, <1>4, <1>7, <1>20 DEF Publish
<1>21. ASSUME NEW s \in Starters, Terminate(s) PROVE socket' = b
  BY <1>2, <1>3, <1>4, <1>21 DEF Terminate
<1>22. ASSUME NEW s \in Starters, UnlinkSocket(s) PROVE socket' = b
  <2>1. Serving(b) /\ child[s] # b
    BY <1>2, <1>3, <1>22 DEF UnlinkSocket, IInv, ChildInv
  <2>2. record # b
    BY <1>3, <1>22, <2>1 DEF UnlinkSocket, IInv, RecordInv, Starting, LiveRecord, Running, Undisturbed
  <2>3. PICK t \in Starters : child[t] = b
    BY <1>3, <2>1, <2>2 DEF IInv, NoLeakedBackend, Running, Undisturbed
  <2>4. pc[t] \in Holding
    BY <1>3, <2>3 DEF IInv, ChildInv, Undisturbed, Abandoned
  <2>5. s = t
    BY <1>3, <1>22, <2>4 DEF UnlinkSocket, IInv, LockInv, InCritical, Critical, Holding, Undisturbed
  <2>6. QED
    BY <2>1, <2>3, <2>5
<1>23. ASSUME NEW s \in Starters, Release(s) PROVE socket' = b
  BY <1>2, <1>3, <1>4, <1>23 DEF Release
<1>24. ASSUME NEW s \in Starters, UnlinkLock(s) PROVE socket' = b
  BY <1>2, <1>3, <1>4, <1>24 DEF UnlinkLock
<1>25. ASSUME NEW s \in Starters, Attach(s) PROVE socket' = b
  BY <1>2, <1>3, <1>4, <1>25 DEF Attach
<1>26. ASSUME NEW s \in Starters, Retry(s) PROVE socket' = b
  BY <1>2, <1>3, <1>4, <1>26 DEF Retry
<1>27. ASSUME NEW s \in Starters, Disconnect(s) PROVE socket' = b
  BY <1>7, <1>27 DEF Disconnect
<1>28. ASSUME NEW s \in Starters, Crash(s) PROVE socket' = b
  BY <1>7, <1>28 DEF Crash
<1>29. ASSUME NEW a \in Backends, Boot(a) PROVE socket' = b
  BY <1>2, <1>3, <1>5, <1>29 DEF Boot, Running
<1>30. ASSUME NEW a \in Backends, IdleShutDown(a) PROVE socket' = b
  BY <1>2, <1>3, <1>5, <1>30 DEF IdleShutDown, ShutDown, Running
<1>31. ASSUME NEW a \in Backends, Exit(a) PROVE socket' = b
  BY <1>2, <1>3, <1>4, <1>31 DEF Exit
<1>32. ASSUME NEW a \in Backends, BackendCrash(a) PROVE socket' = b
  BY <1>2, <1>3, <1>4, <1>32 DEF BackendCrash
<1>33. ASSUME NEW p \in Pruners, PruneRead(p) PROVE socket' = b
  BY <1>2, <1>3, <1>4, <1>33 DEF PruneRead
<1>34. ASSUME NEW p \in Pruners, PruneRemove(p) PROVE socket' = b
  BY <1>2, <1>6, <1>34 DEF PruneRemove
<1>35. ASSUME NEW p \in Pruners, PruneInspect(p) PROVE socket' = b
  BY <1>2, <1>3, <1>4, <1>35 DEF PruneInspect
<1>36. ASSUME NEW p \in Pruners, PruneUnlink(p) PROVE socket' = b
  BY <1>2, <1>3, <1>4, <1>36 DEF PruneUnlink, UnlinkForeignLock
<1>37. ASSUME NEW p \in Pruners, PruneRmdir(p) PROVE socket' = b
  BY <1>2, <1>3, <1>4, <1>37 DEF PruneRmdir
<1>38. CASE StopDaemons
  BY <1>2, <1>3, <1>5, <1>38 DEF StopDaemons, ShutDown, Running
<1>39. QED
  BY <1>2, <1>8, <1>9, <1>10, <1>11, <1>12, <1>13, <1>14, <1>15, <1>16, <1>17, <1>18, <1>19, <1>20, <1>21, <1>22, <1>23, <1>24, <1>25, <1>26, <1>27, <1>28, <1>29, <1>30, <1>31, <1>32, <1>33, <1>34, <1>35, <1>36, <1>37, <1>38 DEF Next, AcquireStep, BackendStep, PruneStep

\* A published backend that serves can be reached under the socket path.
THEOREM Reachable == Spec => []PublishedIsReachable
<1>1. Init => SocketInv
  BY DEF Init, SocketInv, Serving
<1>2. IInv /\ SocketInv /\ [Next]_vars => SocketInv'
  BY SocketStep
<1>3. IInv /\ SocketInv => PublishedIsReachable
  BY RegistryAssumption DEF IInv, TypeOK, SocketInv, Undisturbed, Serving, PublishedIsReachable
<1>4. QED
  BY <1>1, <1>2, <1>3, Invariance, PTL DEF Spec
================================================================================
