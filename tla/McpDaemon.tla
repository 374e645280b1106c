------------------------------ MODULE McpDaemon ------------------------------
(***************************************************************************)
(* One identity of the shared MCP daemon: the adapters that start or       *)
(* attach to it (packages/mcp/src/adapter.ts, acquireMcpDaemon in          *)
(* packages/client/src/mcp-daemon.ts) and the daemon processes themselves  *)
(* (packages/mcp/src/daemon.ts).  They share the startup lock, the record  *)
(* and the socket path; a connection carries one MCP session, owned by the *)
(* adapter's parent process.                                               *)
(*                                                                         *)
(* In a daemon the start-up code, the shutdown code and the handler of     *)
(* each connection interleave at their awaits.  Time is abstracted: a      *)
(* deadline may pass at any moment.                                        *)
(***************************************************************************)
EXTENDS Naturals, FiniteSets

CONSTANTS
    Launchers,      \* adapter processes
    Daemons,        \* daemon processes that may be spawned
    Connections,    \* socket connections that may exist at a time
    MaxSockets,     \* sockets a daemon accepts (128 in the code)
    MayCrash,       \* the launchers that may be killed
    None

\* What is assumed of the constants; the TLC module asserts it.
McpAssumption ==
    /\ None \notin Launchers \union Daemons \union Connections
    /\ MayCrash \subseteq Launchers
    /\ MaxSockets \in Nat \ {0}

VARIABLES
    lock, record, socket,       \* the three paths of mcpDaemonPaths(identity)
    misfire,                    \* history: a live launcher's lock was unlinked by another
    pc, seen, child, cur,       \* launcher: where it is, record read, spawned child, connection
    finished, owner,            \* launcher: finish() has run; its owner process lives
    main, drain, served,        \* daemon: start-up code, shutdown code, flag
    conn                        \* connection: its state, socket and daemon

files == <<lock, record, socket, misfire>>
launcher == <<pc, seen, child, cur, finished, owner>>
daemon == <<main, drain, served>>
daemonVars == <<files, launcher, daemon, conn>>

LauncherPC == {"start", "lock", "reclaim", "scan", "clear", "clearSocket", "clearRecord",
               "spawn", "connect", "wait", "pause", "reap", "reapWait", "release",
               "unlinkLock", "attached", "done", "crashed"}
MainPC == {"unborn", "boot", "publish", "bind", "up", "failed", "exited"}
DrainPC == {"no", "close", "socket", "record"}
ConnState == {"none", "handshake", "owners", "serving", "closing"}

Alive(l) == pc[l] # "crashed"
DaemonAlive(d) == main[d] \notin {"unborn", "exited"}
Draining(d) == drain[d] # "no"
ConnsOf(d) == {c \in Connections : conn[c].daemon = d /\ conn[c].state # "none"}
InState(d, st) == {c \in ConnsOf(d) : conn[c].state = st}

NoConn == [state |-> "none", open |-> FALSE, daemon |-> None]

DaemonInit ==
    /\ lock = None /\ record = None /\ socket = None /\ misfire = FALSE
    /\ pc = [l \in Launchers |-> "start"]
    /\ seen = [l \in Launchers |-> None]
    /\ child = [l \in Launchers |-> None]
    /\ cur = [l \in Launchers |-> None]
    /\ finished = [l \in Launchers |-> FALSE]
    /\ owner = [l \in Launchers |-> TRUE]
    /\ main = [d \in Daemons |-> "unborn"]
    /\ drain = [d \in Daemons |-> "no"]
    /\ served = [d \in Daemons |-> FALSE]
    /\ conn = [c \in Connections |-> NoConn]

Goto(l, label) == pc' = [pc EXCEPT ![l] = label]

\* runAdapter's finally block: an adapter that is done has run finish().
SettleAdapter(l, label) ==
    /\ Goto(l, label)
    /\ finished' = [finished EXCEPT ![l] = @ \/ label = "done"]

\* Either end destroys the socket of connection c.
Destroyed(c) == IF c = None THEN conn ELSE [conn EXCEPT ![c].open = FALSE]

-----------------------------------------------------------------------------
(* The launcher: startupLock                                               *)

\* finish(): stdin ended, a signal arrived, or the watched owner is gone.
\* The abort signal and the destroyed socket take effect at the next step.
Finish(l) ==
    /\ pc[l] \notin {"done", "crashed"}
    /\ ~finished[l]
    /\ finished' = [finished EXCEPT ![l] = TRUE]
    /\ conn' = Destroyed(cur[l])
    /\ UNCHANGED <<files, pc, seen, child, cur, owner, daemon>>

\* The parent process that owns the adapter exits.
OwnerExit(l) ==
    /\ owner[l] /\ pc[l] \notin {"start", "done", "crashed"}
    /\ owner' = [owner EXCEPT ![l] = FALSE]
    /\ UNCHANGED <<files, pc, seen, child, cur, finished, daemon, conn>>

Start(l) ==
    /\ pc[l] = "start"
    /\ SettleAdapter(l, IF finished[l] THEN "done" ELSE "lock")
    /\ UNCHANGED <<files, seen, child, cur, owner, daemon, conn>>

\* link(temporary, path)
LinkLock(l) ==
    /\ pc[l] = "lock"
    /\ lock = None
    /\ lock' = l
    /\ Goto(l, "scan")
    /\ UNCHANGED <<record, socket, misfire, seen, child, cur, finished, owner, daemon, conn>>

\* The lock's owner is not in the process table and the lock reads the same again ...
InspectLock(l) ==
    /\ pc[l] = "lock"
    /\ lock # None /\ ~Alive(lock)
    /\ Goto(l, "reclaim")
    /\ UNCHANGED <<files, seen, child, cur, finished, owner, daemon, conn>>

\* ... so the path is unlinked, whatever it holds by now.
Reclaim(l) ==
    /\ pc[l] = "reclaim"
    /\ lock' = None
    /\ misfire' = (misfire \/ (lock # None /\ Alive(lock)))
    /\ Goto(l, "lock")
    /\ UNCHANGED <<record, socket, seen, child, cur, finished, owner, daemon, conn>>

\* The wait is cancelled by finish() or times out.
LockFails(l) ==
    /\ pc[l] = "lock"
    /\ finished[l] \/ lock # None
    /\ SettleAdapter(l, "done")
    /\ UNCHANGED <<files, seen, child, cur, owner, daemon, conn>>

-----------------------------------------------------------------------------
(* The launcher: the loop of acquireMcpDaemon, under the lock              *)

\* MUTANT of Scan: the liveness of the recorded daemon is not probed.
ScanUnprobed(l) ==
    /\ pc[l] = "scan"
    /\ seen' = [seen EXCEPT ![l] = record]
    /\ Goto(l, IF record = None THEN "spawn" ELSE "clear")
    /\ UNCHANGED <<files, child, cur, finished, owner, daemon, conn>>

\* readMcpRecord and mcpRecordAlive; a daemon found dead stays dead.
Scan(l) ==
    /\ pc[l] = "scan"
    /\ seen' = [seen EXCEPT ![l] = record]
    /\ Goto(l, IF record = None THEN "spawn"
               ELSE IF DaemonAlive(record) THEN "connect" ELSE "clear")
    /\ UNCHANGED <<files, child, cur, finished, owner, daemon, conn>>

\* removeMcpRecord of the dead daemon: compare, unlink the socket, unlink the record.
Clear(l) ==
    /\ \/ /\ pc[l] = "clear"
          /\ Goto(l, IF record = seen[l] THEN "clearSocket" ELSE "spawn")
          /\ UNCHANGED <<record, socket>>
       \/ /\ pc[l] = "clearSocket"
          /\ socket' = None
          /\ Goto(l, "clearRecord")
          /\ UNCHANGED record
       \/ /\ pc[l] = "clearRecord"
          /\ record' = None
          /\ Goto(l, "spawn")
          /\ UNCHANGED socket
    /\ UNCHANGED <<lock, misfire, seen, child, cur, finished, owner, daemon, conn>>

\* At most one child per acquisition.
Spawn(l) ==
    /\ pc[l] = "spawn"
    /\ seen' = [seen EXCEPT ![l] = None]
    /\ \/ /\ child[l] = None
          /\ \E d \in Daemons :
                /\ main[d] = "unborn"
                /\ main' = [main EXCEPT ![d] = "boot"]
                /\ child' = [child EXCEPT ![l] = d]
          /\ Goto(l, "pause")
       \/ /\ child[l] # None
          /\ Goto(l, "pause")
          /\ UNCHANGED <<main, child>>
       \/ /\ child[l] = None                      \* Bun.spawn throws
          /\ Goto(l, "release")
          /\ UNCHANGED <<main, child>>
    /\ UNCHANGED <<files, cur, finished, owner, drain, served, conn>>

\* connectMcpDaemon: connect to the socket path and send the hello.
ConnectMcpDaemon(l) ==
    /\ pc[l] = "connect"
    /\ seen' = [seen EXCEPT ![l] = None]
    /\ \/ /\ socket = seen[l] /\ main[seen[l]] = "up" /\ ~Draining(seen[l])
          /\ ~finished[l]
          /\ \E c \in Connections :
                /\ conn[c].state = "none" /\ \A k \in Launchers : cur[k] # c
                /\ cur' = [cur EXCEPT ![l] = c]
                /\ conn' = [conn EXCEPT ![c] =
                     [state |-> "handshake", daemon |-> seen[l],
                      open |-> Cardinality(ConnsOf(seen[l])) < MaxSockets]]
          /\ Goto(l, "wait")
       \/ /\ Goto(l, "pause")                     \* refused, or the signal has aborted
          /\ UNCHANGED <<cur, conn>>
    /\ UNCHANGED <<files, child, finished, owner, daemon>>

\* The status line of the handshake arrives ...
Attach(l) ==
    /\ pc[l] = "wait"
    /\ conn[cur[l]].state \in {"serving", "closing"}
    /\ ~finished[l]
    /\ Goto(l, "release")
    /\ UNCHANGED <<files, seen, child, cur, finished, owner, daemon, conn>>

\* ... or the socket closes, the signal aborts or two seconds pass.
HandshakeFails(l) ==
    /\ pc[l] = "wait"
    /\ conn' = Destroyed(cur[l])
    /\ cur' = [cur EXCEPT ![l] = None]
    /\ Goto(l, "pause")
    /\ UNCHANGED <<files, seen, child, finished, owner, daemon>>

\* Sleep and try again.
Again(l) ==
    /\ pc[l] = "pause"
    /\ ~finished[l]
    /\ child[l] # None => DaemonAlive(child[l])
    /\ Goto(l, "scan")
    /\ UNCHANGED <<files, seen, child, cur, finished, owner, daemon, conn>>

\* MUTANT of GiveUp: the loop has no deadline of its own.
GiveUpWithoutDeadline(l) ==
    /\ pc[l] = "pause"
    /\ child[l] # None /\ ~DaemonAlive(child[l])
    /\ Goto(l, "release")
    /\ UNCHANGED <<files, seen, child, cur, finished, owner, daemon, conn>>

\* The child exited, the deadline passed or the launcher was cancelled.
GiveUp(l) ==
    /\ pc[l] = "pause"
    /\ Goto(l, IF child[l] # None /\ DaemonAlive(child[l]) THEN "reap" ELSE "release")
    /\ UNCHANGED <<files, seen, child, cur, finished, owner, daemon, conn>>

-----------------------------------------------------------------------------
(* The daemon: daemon.ts                                                   *)

\* MUTANT of Closing: the entry is dropped and its pending close not kept.
ClosingForgotten(c) == [conn[c] EXCEPT !.state = "closed", !.open = FALSE]

\* close() of a connection's entry: once, and the last one ends the daemon.
Closing(c) == [conn[c] EXCEPT !.state = "closing", !.open = FALSE]

\* shutdown(): every socket is destroyed and every entry closed in one turn.
DrainedConns(d) ==
    [c \in Connections |->
        IF c \in InState(d, "serving") THEN Closing(c)
        ELSE IF c \in ConnsOf(d) THEN [conn[c] EXCEPT !.open = FALSE]
        ELSE conn[c]]

ShutDown(d) ==
    /\ drain[d] = "no"
    /\ drain' = [drain EXCEPT ![d] = "close"]
    /\ conn' = DrainedConns(d)

\* The record's identity is known and the handlers are installed.
Booted(d) ==
    /\ main[d] = "boot"
    /\ main' = [main EXCEPT ![d] = "publish"]
    /\ UNCHANGED <<files, launcher, drain, served, conn>>

\* publishMcpRecord: link() does not replace a record; on EEXIST the start-up
\* code throws, and the process stays until the startup timeout.
Publish(d) ==
    /\ main[d] = "publish"
    /\ main' = [main EXCEPT ![d] = IF record = None THEN "bind" ELSE "failed"]
    /\ record' = IF record = None THEN d ELSE record
    /\ UNCHANGED <<lock, socket, misfire, launcher, drain, served, conn>>

\* server.listen(paths.socket), whether or not shutdown() has run meanwhile.
Bind(d) ==
    /\ main[d] = "bind"
    /\ \/ /\ socket = None
          /\ socket' = d
          /\ main' = [main EXCEPT ![d] = "up"]
          /\ UNCHANGED <<drain, conn>>
       \/ /\ socket # None                                        \* EADDRINUSE
          /\ main' = [main EXCEPT ![d] = "failed"]
          /\ IF Draining(d) THEN UNCHANGED <<drain, conn>> ELSE ShutDown(d)
          /\ UNCHANGED socket
    /\ UNCHANGED <<lock, record, misfire, launcher, served>>

StartupTimeout(d) ==
    /\ main[d] \notin {"unborn", "boot", "exited"}
    /\ ~served[d]
    /\ ShutDown(d)
    /\ UNCHANGED <<files, launcher, main, served>>

\* The hello has been read: draining is checked after that await ...
Hello(c) ==
    LET d == conn[c].daemon IN
    /\ conn[c].state = "handshake"
    /\ conn' = [conn EXCEPT ![c] = IF ~@.open \/ Draining(d)
                                   THEN NoConn ELSE [@ EXCEPT !.state = "owners"]]
    /\ UNCHANGED <<files, launcher, daemon>>

OwnersOf(c) == {l \in Launchers : cur[l] = c}

\* MUTANT of Serve: draining is not checked again after the process snapshot.
ServeUnchecked(c) ==
    LET d == conn[c].daemon IN
    /\ conn[c].state = "owners"
    /\ conn' = [conn EXCEPT ![c].state = "serving"]
    /\ served' = [served EXCEPT ![d] = TRUE]
    /\ UNCHANGED <<files, launcher, main, drain>>

\* ... and again, with the owners and the socket, after the process snapshot.
Serve(c) ==
    LET d == conn[c].daemon IN
    /\ conn[c].state = "owners"
    /\ IF conn[c].open /\ ~Draining(d) /\ \A l \in OwnersOf(c) : owner[l]
       THEN /\ conn' = [conn EXCEPT ![c].state = "serving"]
            /\ served' = [served EXCEPT ![d] = TRUE]
       ELSE /\ conn' = [conn EXCEPT ![c] = NoConn]
            /\ UNCHANGED served
    /\ UNCHANGED <<files, launcher, main, drain>>

\* MUTANT of CloseEntry: the last connection does not shut the daemon down.
CloseEntryOnly(c) ==
    /\ conn[c].state = "serving"
    /\ conn' = [conn EXCEPT ![c] = Closing(c)]
    /\ UNCHANGED <<files, launcher, daemon>>

\* The socket closed, the owner exited or the protocol closed: the session is
\* closed once; the last entry to go shuts the daemon down in the same turn.
CloseEntry(c) ==
    LET d == conn[c].daemon IN
    /\ conn[c].state = "serving"
    /\ IF InState(d, "serving") = {c}
       THEN ShutDown(d)
       ELSE /\ conn' = [conn EXCEPT ![c] = Closing(c)]
            /\ UNCHANGED drain
    /\ UNCHANGED <<files, launcher, main, served>>

\* session.close() and the transport's close have settled.
SessionClosed(c) ==
    /\ conn[c].state = "closing"
    /\ conn' = [conn EXCEPT ![c] = NoConn]
    /\ UNCHANGED <<files, launcher, daemon>>

\* The process is gone, and with it its connections.
Exit(d) ==
    /\ main' = [main EXCEPT ![d] = "exited"]
    /\ drain' = [drain EXCEPT ![d] = "no"]
    /\ served' = [served EXCEPT ![d] = FALSE]
    /\ conn' = [c \in Connections |-> IF conn[c].daemon = d THEN NoConn ELSE conn[c]]

\* MUTANT of DrainClosed: the pending closes are not awaited.
DrainAtOnce(d) ==
    /\ drain[d] = "close"
    /\ IF record = d
       THEN drain' = [drain EXCEPT ![d] = "socket"] /\ UNCHANGED <<main, served, conn>>
       ELSE Exit(d)
    /\ UNCHANGED <<files, launcher>>

\* The rest of shutdown(): every close has settled and the record is read ...
DrainClosed(d) ==
    /\ drain[d] = "close"
    /\ InState(d, "serving") \union InState(d, "closing") = {}
    /\ IF record = d
       THEN drain' = [drain EXCEPT ![d] = "socket"] /\ UNCHANGED <<main, served, conn>>
       ELSE Exit(d)
    /\ UNCHANGED <<files, launcher>>

\* ... if it is this daemon's, the socket is unlinked ...
DrainSocket(d) ==
    /\ drain[d] = "socket"
    /\ socket' = None
    /\ drain' = [drain EXCEPT ![d] = "record"]
    /\ UNCHANGED <<lock, record, misfire, launcher, main, served, conn>>

\* ... then the record, and the process exits.
DrainRecord(d) ==
    /\ drain[d] = "record"
    /\ record' = None
    /\ Exit(d)
    /\ UNCHANGED <<lock, socket, misfire, launcher>>

\* The process is gone at once: SIGKILL, a crash, or exit(1) after the deadline.
Die(d) ==
    /\ DaemonAlive(d)
    /\ Exit(d)

DaemonCrash(d) ==
    /\ Die(d)
    /\ UNCHANGED <<files, launcher>>

ShutdownDeadline(d) ==
    /\ Draining(d)
    /\ Die(d)
    /\ UNCHANGED <<files, launcher>>

-----------------------------------------------------------------------------
(* The launcher: the finally block of acquireMcpDaemon and runAdapter      *)

\* child.kill(): a daemon that has installed its handlers shuts down.
Reap(l) ==
    /\ pc[l] = "reap"
    /\ LET d == child[l] IN
       CASE main[d] = "boot" -> Die(d)
         [] main[d] \notin {"boot", "exited"} /\ ~Draining(d) ->
              ShutDown(d) /\ UNCHANGED <<main, served>>
         [] OTHER -> UNCHANGED <<daemon, conn>>
    /\ Goto(l, "reapWait")
    /\ UNCHANGED <<files, seen, child, cur, finished, owner>>

\* The child exits within two seconds or is killed.
Reaped(l) ==
    /\ pc[l] = "reapWait"
    /\ IF DaemonAlive(child[l]) THEN Die(child[l]) ELSE UNCHANGED <<daemon, conn>>
    /\ Goto(l, "release")
    /\ UNCHANGED <<files, seen, child, cur, finished, owner>>

\* After the lock: a connection is piped unless finish() has run meanwhile.
Outcome(l) == IF cur[l] # None /\ ~finished[l] THEN "attached" ELSE "done"

Release(l) ==
    /\ pc[l] = "release"
    /\ SettleAdapter(l, IF lock = l THEN "unlinkLock" ELSE Outcome(l))
    /\ child' = [child EXCEPT ![l] = None]
    /\ UNCHANGED <<files, seen, cur, owner, daemon, conn>>

UnlinkLock(l) ==
    /\ pc[l] = "unlinkLock"
    /\ lock' = None
    /\ misfire' = (misfire \/ (lock # None /\ lock # l /\ Alive(lock)))
    /\ SettleAdapter(l, Outcome(l))
    /\ UNCHANGED <<record, socket, seen, child, cur, owner, daemon, conn>>

\* The piped socket is closed by either side, or finish() has destroyed it.
Detach(l) ==
    /\ pc[l] = "attached"
    /\ finished[l] \/ ~conn[cur[l]].open
    /\ SettleAdapter(l, "done")
    /\ UNCHANGED <<files, seen, child, cur, owner, daemon, conn>>

\* A settled launcher's socket is destroyed with it.
Drop(l) ==
    /\ pc[l] \in {"done", "crashed"}
    /\ cur[l] # None
    /\ conn' = Destroyed(cur[l])
    /\ cur' = [cur EXCEPT ![l] = None]
    /\ UNCHANGED <<files, pc, seen, child, finished, owner, daemon>>

Crash(l) ==
    /\ l \in MayCrash
    /\ pc[l] \notin {"start", "done", "crashed"}
    /\ Goto(l, "crashed")
    /\ UNCHANGED <<files, seen, child, cur, finished, owner, daemon, conn>>

-----------------------------------------------------------------------------
\* One step of startupLock, acquireMcpDaemon or runAdapter.
LaunchStep(l) ==
    \/ Start(l) \/ LinkLock(l) \/ InspectLock(l) \/ Reclaim(l) \/ LockFails(l)
    \/ Scan(l) \/ Clear(l) \/ Spawn(l) \/ ConnectMcpDaemon(l) \/ Attach(l) \/ HandshakeFails(l)
    \/ Again(l) \/ GiveUp(l) \/ Reap(l) \/ Reaped(l) \/ Release(l) \/ UnlinkLock(l)
    \/ Detach(l) \/ Drop(l)

DaemonStep(d) == Booted(d) \/ Publish(d) \/ Bind(d)
                 \/ DrainClosed(d) \/ DrainSocket(d) \/ DrainRecord(d)

\* An entry closes because its socket closed or its owner is gone.
MustClose(c) ==
    /\ ~conn[c].open \/ \E l \in OwnersOf(c) : ~owner[l]
    /\ CloseEntry(c)

ConnStep(c) == Hello(c) \/ Serve(c) \/ MustClose(c)

DaemonNext ==
    \/ \E l \in Launchers : LaunchStep(l) \/ Finish(l) \/ OwnerExit(l) \/ Crash(l)
    \/ \E d \in Daemons : DaemonStep(d) \/ StartupTimeout(d) \/ DaemonCrash(d)
                          \/ ShutdownDeadline(d)
    \/ \E c \in Connections : Hello(c) \/ Serve(c) \/ CloseEntry(c) \/ SessionClosed(c)

DaemonSpec == DaemonInit /\ [][DaemonNext]_daemonVars

\* Processes run, the deadlines of the launcher's loop, of the start-up and of the
\* shutdown pass, and closed sockets and exited owners are noticed.  A session's
\* own close is not assumed to end.
DaemonFairSpec ==
    /\ DaemonSpec
    /\ \A l \in Launchers : WF_daemonVars(LaunchStep(l)) /\ SF_daemonVars(GiveUp(l))
    /\ \A d \in Daemons :
          WF_daemonVars(DaemonStep(d)) /\ WF_daemonVars(StartupTimeout(d)) /\ WF_daemonVars(ShutdownDeadline(d))
    /\ \A c \in Connections : WF_daemonVars(ConnStep(c))

-----------------------------------------------------------------------------
DaemonTypeOK ==
    /\ lock \in Launchers \union {None}
    /\ record \in Daemons \union {None}
    /\ socket \in Daemons \union {None}
    /\ misfire \in BOOLEAN
    /\ pc \in [Launchers -> LauncherPC]
    /\ seen \in [Launchers -> Daemons \union {None}]
    /\ child \in [Launchers -> Daemons \union {None}]
    /\ cur \in [Launchers -> Connections \union {None}]
    /\ finished \in [Launchers -> BOOLEAN]
    /\ owner \in [Launchers -> BOOLEAN]
    /\ main \in [Daemons -> MainPC]
    /\ drain \in [Daemons -> DrainPC]
    /\ served \in [Daemons -> BOOLEAN]
    /\ conn \in [Connections ->
          [state : ConnState, open : BOOLEAN, daemon : Daemons \union {None}]]

\* A draining daemon serves nobody: a handshake that was suspended when
\* shutdown() ran does not become a session after it.
NoSessionWhileDraining ==
    \A d \in Daemons : Draining(d) => InState(d, "serving") = {}

\* The record names the daemon until every session has closed, and the daemon
\* does not begin to remove it before: a launcher that finds no record does not
\* start a second daemon beside a session that is still letting go of a device.
RecordOutlivesSessions ==
    /\ \A d \in Daemons :
        InState(d, "serving") \union InState(d, "closing") # {} /\ ~misfire =>
            record = d /\ drain[d] \in {"no", "close"}
    /\ NoSessionWhileDraining

\* As long as no live launcher lost its lock to a stale reclaim, one daemon at a
\* time accepts sessions.
OneServingDaemon ==
    ~misfire => \A d, e \in Daemons :
        /\ main[d] = "up" /\ drain[d] = "no"
        /\ main[e] = "up" /\ drain[e] = "no"
        => d = e

\* Every adapter ends or is piped to a daemon.
AdapterSettles == <>(\A l \in Launchers : pc[l] \in {"attached", "done", "crashed"})

\* No daemon outlives the adapters.
DaemonFollowsAdapters ==
    (\A l \in Launchers : pc[l] \in {"done", "crashed"})
        ~> \A d \in Daemons : ~DaemonAlive(d)
=============================================================================
