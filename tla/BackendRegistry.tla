--------------------------- MODULE BackendRegistry ---------------------------
(***************************************************************************)
(* One instance directory of the private backend registry                  *)
(* (packages/client/src/daemon.ts): the starters that race to find, lock,  *)
(* start and publish the native backend of one device, the `daemon prune`  *)
(* runs that clean up behind them, and the lifetime of the backends        *)
(* themselves (native SimViewCore Server.swift).  Everything the processes *)
(* share is in the file system: the directory, startup.lock, record.json   *)
(* and core.sock.  Each process is suspended at every `await`, so each     *)
(* system call on the directory is a step of its own.                      *)
(*                                                                         *)
(* Time is abstracted: an age or a deadline may be reached at any moment.  *)
(* A removal of the whole directory is one step.                           *)
(***************************************************************************)
EXTENDS Naturals, FiniteSets

CONSTANTS
    Starters,       \* processes inside acquireDaemon
    Pruners,        \* processes inside pruneDaemons
    Backends,       \* native processes that may be spawned
    MayCrash,       \* the starters that may be killed
    MaxAttempts,    \* attempts that fit into STARTUP_TIMEOUT_MS
    None            \* no lock, no record, no socket, no backend

ASSUME RegistryAssumption ==
    /\ None \notin Starters \union Backends
    /\ Starters \intersect Pruners = {}
    /\ MayCrash \subseteq Starters
    /\ MaxAttempts \in Nat \ {0}

VARIABLES
    dir,        \* the instance directory exists
    lock,       \* startup.lock: the starter whose claim it holds
    record,     \* record.json: the backend it describes
    socket,     \* core.sock: the backend that bound it
    backend,    \* life cycle of each native process
    conn,       \* the backend each starter holds an authenticated connection to
    pc,         \* where each starter and pruner is suspended
    seen,       \* the live backend a starter read from the record
    child,      \* the process a starter spawned and has not yet handed over
    goal,       \* what a starter does once it has released the lock
    attempts,   \* attempts each starter has made
    misfire     \* history: a clean-up deleted a live starter's lock or a live backend's record

vars == <<dir, lock, record, socket, backend, conn, pc, seen, child, goal, attempts, misfire>>
files == <<dir, lock, record, socket, misfire>>

StarterPC == {"start", "check", "remove", "ensure", "lock", "reclaim", "recheck",
              "removeLocked", "probe", "poll", "publish", "terminate", "unlinkSocket",
              "release", "unlinkLock", "attach", "retry",
              "attached", "failed", "closed", "crashed"}
PrunerPC == {"idle", "inspect", "remove", "unlinkLock", "rmdir"}
Goals == {"attached", "failed", "attach", "retry"}

\* A starter holds the lock, as far as it knows, from link() to its release.
Critical == {"recheck", "removeLocked", "probe", "poll", "publish", "terminate",
             "unlinkSocket", "release", "unlinkLock"}
Settled == {"attached", "failed", "closed", "crashed"}

Alive(s) == pc[s] # "crashed"                        \* the process of a starter
Running(b) == backend[b] \in {"booting", "serving", "closing"}   \* isAlive(record.pid)
ClientsOf(b) == {s \in Starters : conn[s] = b}

Init ==
    /\ dir = FALSE
    /\ lock = None
    /\ record = None
    /\ socket = None
    /\ backend = [b \in Backends |-> "unspawned"]
    /\ conn = [s \in Starters |-> None]
    /\ pc = [p \in Starters \union Pruners |-> IF p \in Starters THEN "start" ELSE "idle"]
    /\ seen = [s \in Starters |-> None]
    /\ child = [s \in Starters |-> None]
    /\ goal = [s \in Starters |-> "retry"]
    /\ attempts = [s \in Starters |-> 0]
    /\ misfire = FALSE

Goto(p, label) == pc' = [pc EXCEPT ![p] = label]

\* Leave the critical section: releaseLock() in the finally block, then `next`.
LeaveFor(s, next) ==
    /\ Goto(s, "release")
    /\ goal' = [goal EXCEPT ![s] = next]

-----------------------------------------------------------------------------
(* The backend: Server.swift, started with --idle-timeout 0.               *)

\* bind(): create the directory, unlink whatever is at the socket path, listen.
Boot(b) ==
    /\ backend[b] = "booting"
    /\ backend' = [backend EXCEPT ![b] = "serving"]
    /\ dir' = TRUE
    /\ socket' = b
    /\ UNCHANGED <<lock, record, conn, pc, seen, child, goal, attempts, misfire>>

\* shutdown(): the socket path is unlinked whoever bound it, every connection closed.
ShutDown(b) ==
    /\ backend' = [backend EXCEPT ![b] = "closing"]
    /\ socket' = None

\* The lifecycle timer: no authenticated client within the startup allowance.
IdleShutDown(b) ==
    /\ backend[b] = "serving"
    /\ ClientsOf(b) = {}
    /\ ShutDown(b)
    /\ UNCHANGED <<dir, lock, record, conn, pc, seen, child, goal, attempts, misfire>>

\* exit() once the accessibility worker has stopped, or the five-second limit.
Exit(b) ==
    /\ backend[b] = "closing"
    /\ backend' = [backend EXCEPT ![b] = "exited"]
    /\ UNCHANGED <<files, conn, pc, seen, child, goal, attempts>>

\* The process dies without running shutdown(): its socket stays behind.
BackendCrash(b) ==
    /\ backend[b] \in {"booting", "serving"}
    /\ backend' = [backend EXCEPT ![b] = "exited"]
    /\ conn' = [s \in Starters |-> IF conn[s] = b THEN None ELSE conn[s]]
    /\ UNCHANGED <<files, pc, seen, child, goal, attempts>>

\* `simview daemon stop`: attach with the record's token, then server.shutdown.
StopDaemons ==
    \E b \in Backends :
        /\ record = b
        /\ socket = b
        /\ backend[b] = "serving"
        /\ ShutDown(b)
        /\ conn' = [s \in Starters |-> IF conn[s] = b THEN None ELSE conn[s]]
        /\ UNCHANGED <<dir, lock, record, pc, seen, child, goal, attempts, misfire>>

\* A connection of starter s ends; with a zero idle timeout the last
\* authenticated disconnect shuts the backend down.
DropConnection(s) ==
    /\ conn' = [conn EXCEPT ![s] = None]
    /\ IF conn[s] # None /\ ClientsOf(conn[s]) = {s}
       THEN ShutDown(conn[s])
       ELSE UNCHANGED <<backend, socket>>

-----------------------------------------------------------------------------
(* Removals that act on what was read earlier.                             *)

LiveLock == lock # None /\ Alive(lock)
LiveRecord == record # None /\ Running(record)

\* rm(instanceDirectory, { recursive: true, force: true })
RemoveTree ==
    /\ dir' = FALSE
    /\ lock' = None
    /\ record' = None
    /\ socket' = None
    /\ misfire' = (misfire \/ LiveLock \/ LiveRecord)

\* unlink(lockPath).catch(() => {}) by a process that is not the lock's owner
UnlinkForeignLock ==
    /\ lock' = None
    /\ misfire' = (misfire \/ LiveLock)

-----------------------------------------------------------------------------
(* acquireDaemonAttempt                                                    *)

\* Private directories and the utimes() mark.
Start(s) ==
    /\ pc[s] = "start"
    /\ attempts' = [attempts EXCEPT ![s] = @ + 1]
    /\ dir' = TRUE
    /\ Goto(s, "check")
    /\ UNCHANGED <<lock, record, socket, backend, conn, seen, child, goal, misfire>>

\* validatedRecord before the lock.  The record's pid is probed in the same
\* turn that parses it; a backend found dead stays dead.
Check(s) ==
    /\ pc[s] = "check"
    /\ seen' = [seen EXCEPT ![s] = IF LiveRecord THEN record ELSE None]
    /\ Goto(s, IF record = None THEN "ensure" ELSE IF LiveRecord THEN "attach" ELSE "remove")
    /\ UNCHANGED <<files, backend, conn, child, goal, attempts>>

\* removeDeadInstance before the lock
Remove(s) ==
    /\ pc[s] = "remove"
    /\ RemoveTree
    /\ Goto(s, "ensure")
    /\ UNCHANGED <<backend, conn, seen, child, goal, attempts>>

Ensure(s) ==
    /\ pc[s] = "ensure"
    /\ dir' = TRUE
    /\ Goto(s, "lock")
    /\ UNCHANGED <<lock, record, socket, backend, conn, seen, child, goal, attempts, misfire>>

\* MUTANT of LinkLock: the lock file is opened for writing instead of linked.
LinkLockOverwrites(s) ==
    /\ pc[s] = "lock"
    /\ dir
    /\ lock' = s
    /\ Goto(s, "recheck")
    /\ UNCHANGED <<dir, record, socket, misfire, backend, conn, seen, child, goal, attempts>>

\* link(temporary, lockPath): creates the lock or fails with EEXIST.
LinkLock(s) ==
    /\ pc[s] = "lock"
    /\ dir
    /\ lock = None
    /\ lock' = s
    /\ Goto(s, "recheck")
    /\ UNCHANGED <<dir, record, socket, misfire, backend, conn, seen, child, goal, attempts>>

\* EEXIST and the lock is old: its contents name a starter that is gone, and a
\* second read returns the same contents.
InspectLock(s) ==
    /\ pc[s] = "lock"
    /\ lock # None
    /\ ~Alive(lock)
    /\ Goto(s, "reclaim")
    /\ UNCHANGED <<files, backend, conn, seen, child, goal, attempts>>

\* ... and only then is the path unlinked.
Reclaim(s) ==
    /\ pc[s] = "reclaim"
    /\ UnlinkForeignLock
    /\ Goto(s, "lock")
    /\ UNCHANGED <<dir, record, socket, backend, conn, seen, child, goal, attempts>>

\* The directory vanished (ENOENT, retried), or the wait for the lock timed out.
LockFails(s) ==
    /\ pc[s] = "lock"
    /\ \/ ~dir /\ Goto(s, "retry")
       \/ lock # None /\ Goto(s, "failed")
    /\ UNCHANGED <<files, backend, conn, seen, child, goal, attempts>>

\* MUTANT of Recheck: the record is not read again under the lock.
RecheckSkipped(s) ==
    /\ pc[s] = "recheck"
    /\ Goto(s, "probe")
    /\ UNCHANGED <<files, backend, conn, seen, child, goal, attempts>>

\* validatedRecord under the lock.  A live record is attached to, and the
\* finally block releases the lock without waiting for that attach.
Recheck(s) ==
    /\ pc[s] = "recheck"
    /\ seen' = [seen EXCEPT ![s] = IF LiveRecord THEN record ELSE None]
    /\ IF LiveRecord
       THEN LeaveFor(s, "attach")
       ELSE /\ Goto(s, IF record = None THEN "probe" ELSE "removeLocked")
            /\ UNCHANGED goal
    /\ UNCHANGED <<files, backend, conn, child, attempts>>

\* removeDeadInstance under the lock: the lock itself is in that directory.
RemoveLocked(s) ==
    /\ pc[s] = "removeLocked"
    /\ RemoveTree
    /\ Goto(s, "probe")
    /\ UNCHANGED <<backend, conn, seen, child, goal, attempts>>

\* A socket nobody vouches for is an error, and so is a spawn that fails;
\* otherwise the backend is spawned, detached.
Spawn(s) ==
    /\ pc[s] = "probe"
    /\ \/ /\ LeaveFor(s, "failed")
          /\ UNCHANGED <<backend, child>>
       \/ /\ socket = None
          /\ \E b \in Backends :
                /\ backend[b] = "unspawned"
                /\ backend' = [backend EXCEPT ![b] = "booting"]
                /\ child' = [child EXCEPT ![s] = b]
          /\ Goto(s, "poll")
          /\ UNCHANGED goal
    /\ UNCHANGED <<files, conn, seen, attempts>>

\* The polling loop: attach with the child's token and verify its health, or
\* give up when the child has exited or the deadline has passed.
Poll(s) ==
    /\ pc[s] = "poll"
    /\ \/ /\ socket = child[s]
          /\ backend[child[s]] = "serving"
          /\ conn' = [conn EXCEPT ![s] = child[s]]
          /\ Goto(s, "publish")
          /\ UNCHANGED goal
       \/ /\ Goto(s, "terminate")
          /\ goal' = [goal EXCEPT ![s] = "failed"]
          /\ UNCHANGED conn
    /\ UNCHANGED <<files, backend, seen, child, attempts>>

\* publishRecord: write a temporary, rename it over record.json.
Publish(s) ==
    /\ pc[s] = "publish"
    /\ \/ /\ dir
          /\ record' = child[s]
          /\ child' = [child EXCEPT ![s] = None]
          /\ LeaveFor(s, "attached")
          /\ UNCHANGED <<backend, socket, conn>>
       \/ /\ ~dir                                      \* ENOENT
          /\ DropConnection(s)
          /\ Goto(s, "terminate")
          /\ goal' = [goal EXCEPT ![s] = "retry"]
          /\ UNCHANGED <<record, child>>
    /\ UNCHANGED <<dir, lock, misfire, seen, attempts>>

\* MUTANT of Terminate: the wait ends after two seconds and SIGKILL is not sent.
TerminateGivesUp(s) ==
    /\ pc[s] = "terminate"
    /\ Goto(s, "unlinkSocket")
    /\ UNCHANGED <<files, backend, conn, seen, child, goal, attempts>>

\* terminateStartedChild: SIGTERM or SIGKILL, and wait for the exit ...
Terminate(s) ==
    /\ pc[s] = "terminate"
    /\ backend' = [backend EXCEPT ![child[s]] = "exited"]
    /\ conn' = [t \in Starters |-> IF conn[t] = child[s] THEN None ELSE conn[t]]
    /\ Goto(s, "unlinkSocket")
    /\ UNCHANGED <<files, seen, child, goal, attempts>>

\* ... then unlink(socketPath), whoever bound it by now.
UnlinkSocket(s) ==
    /\ pc[s] = "unlinkSocket"
    /\ socket' = None
    /\ child' = [child EXCEPT ![s] = None]
    /\ Goto(s, "release")
    /\ UNCHANGED <<dir, lock, record, misfire, backend, conn, seen, goal, attempts>>

\* MUTANT of Release: a failed attempt returns without its finally block.
ReleaseOnlyOnSuccess(s) ==
    /\ pc[s] = "release"
    /\ Goto(s, IF lock = s /\ goal[s] = "attached" THEN "unlinkLock" ELSE goal[s])
    /\ UNCHANGED <<files, backend, conn, seen, child, goal, attempts>>

\* releaseLock: read the lock ...
Release(s) ==
    /\ pc[s] = "release"
    /\ Goto(s, IF lock = s THEN "unlinkLock" ELSE goal[s])
    /\ UNCHANGED <<files, backend, conn, seen, child, goal, attempts>>

\* ... and unlink the path if the contents were this starter's claim.
UnlinkLock(s) ==
    /\ pc[s] = "unlinkLock"
    /\ lock' = None
    /\ misfire' = (misfire \/ (LiveLock /\ lock # s))
    /\ Goto(s, goal[s])
    /\ UNCHANGED <<dir, record, socket, backend, conn, seen, child, goal, attempts>>

\* attachAndVerify against a record that was live when it was read.
Attach(s) ==
    /\ pc[s] = "attach"
    /\ IF socket = seen[s] /\ backend[seen[s]] = "serving"
       THEN /\ conn' = [conn EXCEPT ![s] = seen[s]]
            /\ Goto(s, "attached")
       ELSE /\ Goto(s, "retry")
            /\ UNCHANGED conn
    /\ UNCHANGED <<files, backend, seen, child, goal, attempts>>

\* MUTANT of Retry: off by one, an attempt starts after the deadline.
RetryPastDeadline(s) ==
    /\ pc[s] = "retry"
    /\ Goto(s, IF attempts[s] <= MaxAttempts THEN "start" ELSE "failed")
    /\ goal' = [goal EXCEPT ![s] = "retry"]
    /\ UNCHANGED <<files, backend, conn, seen, child, attempts>>

\* MUTANT of Retry: every lost race restarts the deadline.
RetryForever(s) ==
    /\ pc[s] = "retry"
    /\ Goto(s, "start")
    /\ goal' = [goal EXCEPT ![s] = "retry"]
    /\ attempts' = [attempts EXCEPT ![s] = 0]
    /\ UNCHANGED <<files, backend, conn, seen, child>>

\* acquireDaemon: a lost race is retried until the deadline.
Retry(s) ==
    /\ pc[s] = "retry"
    /\ Goto(s, IF attempts[s] < MaxAttempts THEN "start" ELSE "failed")
    /\ goal' = [goal EXCEPT ![s] = "retry"]
    /\ UNCHANGED <<files, backend, conn, seen, child, attempts>>

\* The caller closes the client it was given.
Disconnect(s) ==
    /\ pc[s] = "attached"
    /\ DropConnection(s)
    /\ Goto(s, "closed")
    /\ UNCHANGED <<dir, lock, record, misfire, seen, child, goal, attempts>>

\* The starter's process is killed; a detached child survives it.
Crash(s) ==
    /\ s \in MayCrash
    /\ pc[s] \notin {"start", "closed", "failed", "crashed"}
    /\ DropConnection(s)
    /\ Goto(s, "crashed")
    /\ UNCHANGED <<dir, lock, record, misfire, seen, child, goal, attempts>>

-----------------------------------------------------------------------------
(* pruneDaemons                                                            *)

PruneRead(p) ==
    /\ pc[p] = "idle"
    /\ dir
    /\ ~LiveRecord
    /\ Goto(p, IF record = None THEN "inspect" ELSE "remove")
    /\ UNCHANGED <<files, backend, conn, seen, child, goal, attempts>>

PruneRemove(p) ==
    /\ pc[p] = "remove"
    /\ RemoveTree
    /\ Goto(p, "idle")
    /\ UNCHANGED <<backend, conn, seen, child, goal, attempts>>

\* removeAbandonedInstance: an old directory without a socket whose lock, if
\* any, names a starter that is gone.
PruneInspect(p) ==
    /\ pc[p] = "inspect"
    /\ Goto(p, IF ~dir \/ socket # None \/ LiveLock THEN "idle"
               ELSE IF lock = None THEN "rmdir" ELSE "unlinkLock")
    /\ UNCHANGED <<files, backend, conn, seen, child, goal, attempts>>

PruneUnlink(p) ==
    /\ pc[p] = "unlinkLock"
    /\ UnlinkForeignLock
    /\ Goto(p, "rmdir")
    /\ UNCHANGED <<dir, record, socket, backend, conn, seen, child, goal, attempts>>

\* rmdir refuses a directory that is not empty.
PruneRmdir(p) ==
    /\ pc[p] = "rmdir"
    /\ dir' = (dir /\ (lock # None \/ record # None \/ socket # None))
    /\ Goto(p, "idle")
    /\ UNCHANGED <<lock, record, socket, misfire, backend, conn, seen, child, goal, attempts>>

-----------------------------------------------------------------------------
AcquireStep(s) ==
    \/ Start(s) \/ Check(s) \/ Remove(s) \/ Ensure(s)
    \/ LinkLock(s) \/ InspectLock(s) \/ Reclaim(s) \/ LockFails(s)
    \/ Recheck(s) \/ RemoveLocked(s) \/ Spawn(s) \/ Poll(s) \/ Publish(s)
    \/ Terminate(s) \/ UnlinkSocket(s) \/ Release(s) \/ UnlinkLock(s)
    \/ Attach(s) \/ Retry(s)

BackendStep(b) == Boot(b) \/ IdleShutDown(b) \/ Exit(b) \/ BackendCrash(b)

PruneStep(p) ==
    PruneRead(p) \/ PruneRemove(p) \/ PruneInspect(p) \/ PruneUnlink(p) \/ PruneRmdir(p)

Next ==
    \/ \E s \in Starters : AcquireStep(s) \/ Disconnect(s) \/ Crash(s)
    \/ \E b \in Backends : BackendStep(b)
    \/ \E p \in Pruners : PruneStep(p)
    \/ StopDaemons

Spec == Init /\ [][Next]_vars

\* A starter keeps running, each wait of acquireDaemon is bounded by a deadline,
\* and a backend runs its lifecycle timer and its forced exit.
FairSpec ==
    /\ Spec
    /\ \A s \in Starters : WF_vars(AcquireStep(s))
    /\ \A b \in Backends : WF_vars(IdleShutDown(b)) /\ WF_vars(Exit(b)) /\ WF_vars(Boot(b))

-----------------------------------------------------------------------------
\* Every variable holds a value of its kind: file contents name processes,
\* program counters name suspension points of daemon.ts.
TypeOK ==
    /\ dir \in BOOLEAN
    /\ lock \in Starters \union {None}
    /\ record \in Backends \union {None}
    /\ socket \in Backends \union {None}
    /\ backend \in [Backends -> {"unspawned", "booting", "serving", "closing", "exited"}]
    /\ conn \in [Starters -> Backends \union {None}]
    /\ pc \in [Starters \union Pruners -> StarterPC \union PrunerPC]
    /\ seen \in [Starters -> Backends \union {None}]
    /\ child \in [Starters -> Backends \union {None}]
    /\ goal \in [Starters -> Goals]
    /\ attempts \in [Starters -> 0 .. MaxAttempts]
    /\ misfire \in BOOLEAN

InCritical(s) == pc[s] \in Critical

\* A starter killed between spawn and publish left a backend nobody can find.
Abandoned(b) == \E s \in Starters : child[s] = b /\ ~Alive(s)

\* As long as no clean-up has deleted a live starter's lock or a live backend's
\* record, startup.lock admits one starter at a time to the section between
\* link() and releaseLock() of acquireDaemonAttempt.
ExclusiveUntilMisfire ==
    ~misfire => \A s, t \in Starters : InCritical(s) /\ InCritical(t) => s = t

\* Under the same condition, and unless a starter was killed before it published
\* its child, the registry runs at most one backend of an instance.
SingleBackendUntilMisfire ==
    ~misfire => \A a, b \in Backends :
        Running(a) /\ Running(b) /\ ~Abandoned(a) /\ ~Abandoned(b) => a = b

\* A running backend is described by the record or is still the child of the
\* starter that spawned it: a failed start kills and forgets its child.
NoLeakedBackend ==
    ~misfire => \A b \in Backends :
        Running(b) => record = b \/ \E s \in Starters : child[s] = b

\* A published backend that accepts clients owns the socket path: neither the
\* unlink of a failed start nor another backend's bind or shutdown took it.
PublishedIsReachable ==
    ~misfire /\ (\A b \in Backends : ~Abandoned(b)) =>
        (record # None /\ backend[record] = "serving" => socket = record)

\* Every way out of acquireDaemonAttempt, returned or thrown, releases the lock.
EveryExitReleases ==
    \A s \in Starters : Alive(s) /\ ~InCritical(s) => lock # s

\* No starter overwrites the record of a backend that is still running.
LiveRecordKept ==
    [][LiveRecord /\ ~misfire' => record' = record]_vars

\* Every acquireDaemon call returns a client or throws.
AcquireSettles == <>(\A s \in Starters : pc[s] \in Settled)

\* docs/architecture.md: atomic startup locks ensure that concurrent tasks
\* cannot create duplicate compatible backends.
NoDuplicateBackends ==
    \A a, b \in Backends : Running(a) /\ Running(b) => a = b
=============================================================================
