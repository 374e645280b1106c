------------------------------ MODULE McpProofs -----------------------------
(***************************************************************************)
(* What holds of the shared MCP daemon and of the Metro inspector it runs, *)
(* for any number of adapters, daemons, connections, inspections, devices  *)
(* and targets.                                                            *)
(***************************************************************************)
EXTENDS McpDaemon, MetroInspector, SequenceTheorems, TLAPS

----------------------------------------------------------------------------
(***************************************************************************)
(* McpDaemon.  A lock that no reclaim takes away from a live launcher      *)
(* names every launcher in the loop of acquireMcpDaemon, so at most one    *)
(* removes a record; it has seen, under the lock, that the daemon of that  *)
(* record has exited, and an exited daemon does not come back.  The record *)
(* of a daemon that lives is therefore removed by that daemon alone, which *)
(* does so after its sessions have closed and opens none while it drains.  *)
(***************************************************************************)

\* Under the startup lock, from link() to its unlink().
Locked == {"scan", "clear", "clearSocket", "clearRecord", "spawn", "connect", "wait",
           "pause", "reap", "reapWait", "release", "unlinkLock"}
Clearing == {"clear", "clearSocket", "clearRecord"}

\* The lock names every launcher that is under it.
LockInv == ~misfire => \A l \in Launchers : pc[l] \in Locked => lock = l

\* What is recorded or was spawned has been born; what is cleared is dead.
BornInv ==
    /\ record # None => main[record] # "unborn"
    /\ \A l \in Launchers : child[l] # None => main[child[l]] # "unborn"
    /\ \A l \in Launchers : pc[l] \in {"reap", "reapWait"} => child[l] # None
    /\ \A l \in Launchers : pc[l] = "connect" => seen[l] # None
    /\ \A l \in Launchers : pc[l] \in Clearing => seen[l] # None /\ main[seen[l]] = "exited"

\* A connection is one to a daemon that has bound its socket.
ConnInv ==
    \A c \in Connections : conn[c].state # "none" =>
        conn[c].daemon \in Daemons /\ main[conn[c].daemon] = "up"

\* A daemon that drains lives and opens no session, and it removes its files
\* after the last one has closed.
DrainInv ==
    /\ \A d \in Daemons : drain[d] # "no" => DaemonAlive(d)
    /\ \A c \in Connections : conn[c].state = "serving" => drain[conn[c].daemon] = "no"
    /\ \A c \in Connections : conn[c].state = "closing" => drain[conn[c].daemon] \in {"no", "close"}

\* The record is that of the daemon that binds, serves or removes it, and of the
\* dead daemon whose files are being cleared.
RecordInv ==
    ~misfire =>
        /\ \A d \in Daemons : main[d] \in {"bind", "up"} => record = d
        /\ \A d \in Daemons : drain[d] \in {"socket", "record"} => record = d
        /\ \A l \in Launchers : pc[l] \in Clearing => record = seen[l]

DaemonInv ==
    /\ DaemonTypeOK
    /\ LockInv
    /\ BornInv
    /\ ConnInv
    /\ DrainInv
    /\ RecordInv

-----------------------------------------------------------------------------
(* What the operators on connections do.                                   *)

ConnRecords == [state : ConnState, open : BOOLEAN, daemon : Daemons \union {None}]

\* Destroying a socket moves no connection.
LEMMA DestroyedFacts ==
    ASSUME McpAssumption, DaemonTypeOK, NEW c \in Connections \union {None}
    PROVE  /\ Destroyed(c) \in [Connections -> ConnRecords]
           /\ \A k \in Connections :
                 Destroyed(c)[k].state = conn[k].state /\ Destroyed(c)[k].daemon = conn[k].daemon
<1>1. conn \in [Connections -> ConnRecords]
  BY DEF DaemonTypeOK, ConnRecords
<1>2. CASE c = None
  BY <1>1, <1>2 DEF Destroyed
<1>3. CASE c \in Connections /\ c # None
  <2>1. \A r \in ConnRecords : [r EXCEPT !.open = FALSE] \in ConnRecords
    BY DEF ConnRecords
  <2>2. \A r \in ConnRecords :
            [r EXCEPT !.open = FALSE].state = r.state /\ [r EXCEPT !.open = FALSE].daemon = r.daemon
    BY DEF ConnRecords
  <2>3. Destroyed(c) = [conn EXCEPT ![c] = [conn[c] EXCEPT !.open = FALSE]]
    BY <1>1, <1>3 DEF Destroyed
  <2> QED
    BY <1>1, <1>3, <2>1, <2>2, <2>3
<1> QED
  BY <1>2, <1>3

\* shutdown() takes the sessions of its daemon from serving to closing.
LEMMA DrainedFacts ==
    ASSUME McpAssumption, DaemonTypeOK, NEW d \in Daemons
    PROVE  /\ DrainedConns(d) \in [Connections -> ConnRecords]
           /\ \A k \in Connections :
                 /\ DrainedConns(d)[k].daemon = conn[k].daemon
                 /\ DrainedConns(d)[k].state = "none" <=> conn[k].state = "none"
                 /\ DrainedConns(d)[k].state = "serving" =>
                       conn[k].state = "serving" /\ conn[k].daemon # d
                 /\ DrainedConns(d)[k].state = "closing" =>
                       conn[k].state = "closing" \/ conn[k].daemon = d
<1>1. conn \in [Connections -> ConnRecords]
  BY DEF DaemonTypeOK, ConnRecords
<1>2. ASSUME NEW k \in Connections
      PROVE  /\ DrainedConns(d)[k] \in ConnRecords
             /\ DrainedConns(d)[k].daemon = conn[k].daemon
             /\ DrainedConns(d)[k].state = "none" <=> conn[k].state = "none"
             /\ DrainedConns(d)[k].state = "serving" =>
                   conn[k].state = "serving" /\ conn[k].daemon # d
             /\ DrainedConns(d)[k].state = "closing" =>
                   conn[k].state = "closing" \/ conn[k].daemon = d
  <2>1. conn[k] \in ConnRecords
    BY <1>1
  <2>2. CASE conn[k].daemon = d /\ conn[k].state = "serving"
    BY <2>1, <2>2 DEF DrainedConns, Closing, InState, ConnsOf, ConnRecords, ConnState
  <2>3. CASE conn[k].daemon = d /\ conn[k].state \notin {"none", "serving"}
    BY <2>1, <2>3 DEF DrainedConns, InState, ConnsOf, ConnRecords, ConnState
  <2>4. CASE conn[k].daemon # d \/ conn[k].state = "none"
    BY <2>1, <2>4 DEF DrainedConns, InState, ConnsOf
  <2> QED
    BY <2>2, <2>3, <2>4
<1>3. DrainedConns(d) = [k \in Connections |-> DrainedConns(d)[k]]
  BY DEF DrainedConns
<1> QED
  BY <1>2, <1>3

\* A session that begins to close keeps its daemon.
LEMMA ClosingFacts ==
    ASSUME McpAssumption, DaemonTypeOK, NEW c \in Connections
    PROVE  Closing(c) \in ConnRecords /\ Closing(c).daemon = conn[c].daemon
                                      /\ Closing(c).state = "closing"
<1>1. conn[c] \in ConnRecords
  BY DEF DaemonTypeOK, ConnRecords
<1> QED
  BY <1>1 DEF Closing, ConnRecords, ConnState

\* A process that is gone takes its connections along and drains no longer.
LEMMA ExitFacts ==
    ASSUME McpAssumption, DaemonTypeOK, NEW d \in Daemons, Exit(d)
    PROVE  /\ main' \in [Daemons -> MainPC] /\ main'[d] = "exited"
           /\ drain' \in [Daemons -> DrainPC] /\ drain'[d] = "no"
           /\ served' \in [Daemons -> BOOLEAN]
           /\ conn' \in [Connections -> ConnRecords]
           /\ \A e \in Daemons \ {d} : main'[e] = main[e] /\ drain'[e] = drain[e]
           /\ \A k \in Connections : conn'[k].state # "none" =>
                 conn'[k] = conn[k] /\ conn[k].daemon # d
<1>1. NoConn \in ConnRecords /\ NoConn.state = "none"
  BY DEF NoConn, ConnRecords, ConnState
<1>2. conn \in [Connections -> ConnRecords]
  BY DEF DaemonTypeOK, ConnRecords
<1>3. conn' \in [Connections -> ConnRecords]
  BY <1>1, <1>2 DEF Exit
<1>4. \A k \in Connections : conn'[k].state # "none" => conn'[k] = conn[k] /\ conn[k].daemon # d
  BY <1>1, <1>2 DEF Exit
<1> QED
  BY <1>3, <1>4 DEF Exit, DaemonTypeOK, MainPC, DrainPC

\* A launcher that reaps its child ends it, makes it shut down, or finds it at it.
LEMMA ReapCases ==
    ASSUME McpAssumption, DaemonTypeOK, BornInv, NEW l \in Launchers, Reap(l) \/ Reaped(l)
    PROVE  /\ child[l] \in Daemons /\ pc[l] \in {"reap", "reapWait"}
           /\ pc' \in [Launchers -> LauncherPC]
           /\ \A k \in Launchers \ {l} : pc'[k] = pc[k]
           /\ pc'[l] \in {"reapWait", "release"}
           /\ UNCHANGED <<files, seen, child, cur, finished, owner>>
           /\ \/ DaemonAlive(child[l]) /\ Exit(child[l])
              \/ /\ main[child[l]] \notin {"unborn", "boot", "exited"}
                 /\ ShutDown(child[l]) /\ UNCHANGED <<main, served>>
              \/ UNCHANGED <<daemon, conn>>
<1>1. child[l] \in Daemons /\ main[child[l]] # "unborn" /\ pc[l] \in {"reap", "reapWait"}
  BY DEF Reap, Reaped, BornInv, DaemonTypeOK
<1>2. ASSUME NEW label \in {"reapWait", "release"}, Goto(l, label)
      PROVE  /\ pc' \in [Launchers -> LauncherPC]
             /\ \A k \in Launchers \ {l} : pc'[k] = pc[k]
             /\ pc'[l] \in {"reapWait", "release"}
  BY <1>2 DEF Goto, DaemonTypeOK, LauncherPC
<1>3. CASE Reap(l)
  BY <1>1, <1>2, <1>3 DEF Reap, Die, Draining, ShutDown, DaemonAlive
<1>4. CASE Reaped(l)
  BY <1>1, <1>2, <1>4 DEF Reaped, Die, DaemonAlive
<1> QED
  BY <1>1, <1>3, <1>4

-----------------------------------------------------------------------------
(* What each step keeps.                                                   *)
\* A step keeps the types.
LEMMA TypeStep ==
    ASSUME McpAssumption, DaemonTypeOK, BornInv, ConnInv, [DaemonNext]_daemonVars
    PROVE  DaemonTypeOK'
<1> USE DEF McpAssumption, DaemonTypeOK, BornInv, ConnInv, files, launcher, daemon,
        LauncherPC, MainPC, DrainPC, ConnState, NoConn
<1>1. ASSUME NEW l \in Launchers, Start(l) PROVE DaemonTypeOK'
  BY <1>1 DEF Start, SettleAdapter, Goto
<1>2. ASSUME NEW l \in Launchers, LinkLock(l) PROVE DaemonTypeOK'
  BY <1>2 DEF LinkLock, Goto
<1>3. ASSUME NEW l \in Launchers, InspectLock(l) PROVE DaemonTypeOK'
  BY <1>3 DEF InspectLock, Goto, Alive
<1>4. ASSUME NEW l \in Launchers, Reclaim(l) PROVE DaemonTypeOK'
  BY <1>4 DEF Reclaim, Goto, Alive
<1>5. ASSUME NEW l \in Launchers, LockFails(l) PROVE DaemonTypeOK'
  BY <1>5 DEF LockFails, SettleAdapter, Goto
<1>6. ASSUME NEW l \in Launchers, Scan(l) PROVE DaemonTypeOK'
  BY <1>6 DEF Scan, Goto, DaemonAlive
<1>7. ASSUME NEW l \in Launchers, Clear(l) PROVE DaemonTypeOK'
  BY <1>7 DEF Clear, Goto
<1>8. ASSUME NEW l \in Launchers, Spawn(l) PROVE DaemonTypeOK'
  BY <1>8 DEF Spawn, Goto
<1>9. ASSUME NEW l \in Launchers, ConnectMcpDaemon(l) PROVE DaemonTypeOK'
  <2>1. pc' \in [Launchers -> LauncherPC] /\ seen' \in [Launchers -> Daemons \union {None}]
    BY <1>9 DEF ConnectMcpDaemon, Goto
  <2>2. /\ cur' \in [Launchers -> Connections \union {None}]
        /\ conn' \in [Connections -> ConnRecords]
    <3>1. CASE UNCHANGED <<cur, conn>>
      BY <3>1 DEF ConnRecords
    <3>2. ASSUME NEW c \in Connections, NEW b \in BOOLEAN, cur' = [cur EXCEPT ![l] = c],
                 conn' = [conn EXCEPT ![c] = [state |-> "handshake", daemon |-> seen[l], open |-> b]]
          PROVE  /\ cur' \in [Launchers -> Connections \union {None}]
                 /\ conn' \in [Connections -> ConnRecords]
      BY <3>2 DEF ConnRecords
    <3>3. \A x, y : (x < y) \in BOOLEAN
      OBVIOUS
    <3>4. \/ UNCHANGED <<cur, conn>>
          \/ \E c \in Connections, b \in BOOLEAN :
                /\ cur' = [cur EXCEPT ![l] = c]
                /\ conn' = [conn EXCEPT ![c] = [state |-> "handshake", daemon |-> seen[l], open |-> b]]
      <4>1. CASE UNCHANGED <<cur, conn>>
        BY <4>1
      <4>2. ASSUME NEW c \in Connections, cur' = [cur EXCEPT ![l] = c],
                   conn' = [conn EXCEPT ![c] = [state |-> "handshake", daemon |-> seen[l],
                                                open |-> Cardinality(ConnsOf(seen[l])) < MaxSockets]]
            PROVE  \E b \in BOOLEAN :
                     conn' = [conn EXCEPT ![c] = [state |-> "handshake", daemon |-> seen[l], open |-> b]]
        BY <3>3, <4>2
      <4> QED
        BY <1>9, <4>1, <4>2 DEF ConnectMcpDaemon
    <3> QED
      BY <3>1, <3>2, <3>4
  <2> QED
    BY <1>9, <2>1, <2>2 DEF ConnectMcpDaemon, ConnRecords
<1>10. ASSUME NEW l \in Launchers, Attach(l) PROVE DaemonTypeOK'
  BY <1>10 DEF Attach, Goto
<1>11. ASSUME NEW l \in Launchers, HandshakeFails(l) PROVE DaemonTypeOK'
  <2>1. cur[l] \in Connections \union {None}
    BY DEF DaemonTypeOK
  <2> QED
    BY <1>11, <2>1, DestroyedFacts DEF HandshakeFails, Goto, ConnRecords
<1>12. ASSUME NEW l \in Launchers, Again(l) PROVE DaemonTypeOK'
  BY <1>12 DEF Again, Goto
<1>13. ASSUME NEW l \in Launchers, GiveUp(l) PROVE DaemonTypeOK'
  BY <1>13 DEF GiveUp, Goto, DaemonAlive
<1>14. ASSUME NEW l \in Launchers, Reap(l) \/ Reaped(l) PROVE DaemonTypeOK'
  <2> DEFINE d == child[l]
  <2>1. /\ d \in Daemons /\ pc[l] \in {"reap", "reapWait"}
        /\ pc' \in [Launchers -> LauncherPC]
        /\ \A k \in Launchers \ {l} : pc'[k] = pc[k]
        /\ pc'[l] \in {"reapWait", "release"}
        /\ UNCHANGED <<files, seen, child, cur, finished, owner>>
    BY <1>14, ReapCases
  <2> HIDE DEF d
  <2>2. CASE DaemonAlive(d) /\ Exit(d)
    BY <2>1, <2>2, ExitFacts DEF ConnRecords, DaemonAlive
  <2>3. CASE /\ main[d] \notin {"unborn", "boot", "exited"}
             /\ ShutDown(d) /\ UNCHANGED <<main, served>>
    BY <2>1, <2>3, DrainedFacts DEF ConnRecords, DrainPC, ShutDown
  <2>4. CASE UNCHANGED <<daemon, conn>>
    BY <2>1, <2>4
  <2> QED
    BY <1>14, <2>2, <2>3, <2>4, ReapCases DEF d
<1>15. ASSUME NEW l \in Launchers, Release(l) PROVE DaemonTypeOK'
  BY <1>15 DEF Release, SettleAdapter, Goto, Outcome
<1>16. ASSUME NEW l \in Launchers, UnlinkLock(l) PROVE DaemonTypeOK'
  BY <1>16 DEF UnlinkLock, SettleAdapter, Goto, Outcome, Alive
<1>17. ASSUME NEW l \in Launchers, Detach(l) PROVE DaemonTypeOK'
  BY <1>17 DEF Detach, SettleAdapter, Goto
<1>18. ASSUME NEW l \in Launchers, Drop(l) PROVE DaemonTypeOK'
  <2>1. cur[l] \in Connections \union {None}
    BY DEF DaemonTypeOK
  <2> QED
    BY <1>18, <2>1, DestroyedFacts DEF Drop, Goto, ConnRecords
<1>19. ASSUME NEW l \in Launchers, Finish(l) PROVE DaemonTypeOK'
  <2>1. cur[l] \in Connections \union {None}
    BY DEF DaemonTypeOK
  <2> QED
    BY <1>19, <2>1, DestroyedFacts DEF Finish, Goto, ConnRecords
<1>20. ASSUME NEW l \in Launchers, OwnerExit(l) PROVE DaemonTypeOK'
  BY <1>20 DEF OwnerExit
<1>21. ASSUME NEW l \in Launchers, Crash(l) PROVE DaemonTypeOK'
  BY <1>21 DEF Crash, Goto
<1>22. ASSUME NEW d \in Daemons, Booted(d) PROVE DaemonTypeOK'
  BY <1>22 DEF Booted
<1>23. ASSUME NEW d \in Daemons, Publish(d) PROVE DaemonTypeOK'
  BY <1>23 DEF Publish
<1>24. ASSUME NEW d \in Daemons, Bind(d) PROVE DaemonTypeOK'
  <2>1. CASE socket = None /\ socket' = d /\ main' = [main EXCEPT ![d] = "up"] /\ UNCHANGED <<drain, conn>>
    BY <1>24, <2>1 DEF Bind
  <2>2. CASE /\ socket' = socket /\ main' = [main EXCEPT ![d] = "failed"]
             /\ UNCHANGED <<drain, conn>>
    BY <1>24, <2>2 DEF Bind
  <2>3. CASE /\ socket' = socket /\ main' = [main EXCEPT ![d] = "failed"]
             /\ ShutDown(d)
    BY <1>24, <2>3, DrainedFacts DEF Bind, ShutDown, ConnRecords, DrainPC
  <2> QED
    BY <1>24, <2>1, <2>2, <2>3 DEF Bind
<1>25. ASSUME NEW d \in Daemons, DrainClosed(d) PROVE DaemonTypeOK'
  <2>1. CASE record = d /\ drain' = [drain EXCEPT ![d] = "socket"] /\ UNCHANGED <<main, served, conn>>
    BY <1>25, <2>1 DEF DrainClosed, InState, ConnsOf
  <2>2. CASE Exit(d)
    BY <1>25, <2>2, ExitFacts DEF DrainClosed, ConnRecords
  <2> QED
    BY <1>25, <2>1, <2>2 DEF DrainClosed
<1>26. ASSUME NEW d \in Daemons, DrainSocket(d) PROVE DaemonTypeOK'
  BY <1>26 DEF DrainSocket
<1>27. ASSUME NEW d \in Daemons, DrainRecord(d) PROVE DaemonTypeOK'
  BY <1>27, ExitFacts DEF DrainRecord, Die, DaemonAlive, ConnRecords
<1>28. ASSUME NEW d \in Daemons, StartupTimeout(d) PROVE DaemonTypeOK'
  BY <1>28, DrainedFacts DEF StartupTimeout, ShutDown, ConnRecords, DrainPC
<1>29. ASSUME NEW d \in Daemons, DaemonCrash(d) PROVE DaemonTypeOK'
  BY <1>29, ExitFacts DEF DaemonCrash, Die, DaemonAlive, ConnRecords
<1>30. ASSUME NEW d \in Daemons, ShutdownDeadline(d) PROVE DaemonTypeOK'
  BY <1>30, ExitFacts DEF ShutdownDeadline, Die, DaemonAlive, ConnRecords
<1>31. ASSUME NEW c \in Connections, Hello(c) PROVE DaemonTypeOK'
  BY <1>31 DEF Hello, Draining
<1>32. ASSUME NEW c \in Connections, Serve(c) PROVE DaemonTypeOK'
  <2>1. conn[c].daemon \in Daemons
    BY <1>32 DEF Serve
  <2>2. served' \in [Daemons -> BOOLEAN]
    BY <1>32, <2>1 DEF Serve
  <2>3. conn' = [conn EXCEPT ![c] = [conn[c] EXCEPT !.state = "serving"]] \/ conn' = [conn EXCEPT ![c] = NoConn]
    BY <1>32 DEF Serve
  <2>4. [conn[c] EXCEPT !.state = "serving"] \in ConnRecords /\ NoConn \in ConnRecords
    BY DEF ConnRecords
  <2>5. conn \in [Connections -> ConnRecords]
    BY DEF ConnRecords
  <2>6. conn' \in [Connections -> ConnRecords]
    <3>1. ASSUME NEW r \in ConnRecords PROVE [conn EXCEPT ![c] = r] \in [Connections -> ConnRecords]
      BY <2>5
    <3> DEFINE serving == [conn[c] EXCEPT !.state = "serving"]
    <3>2. serving \in ConnRecords /\ NoConn \in ConnRecords
      BY <2>4
    <3>3. conn' = [conn EXCEPT ![c] = serving] \/ conn' = [conn EXCEPT ![c] = NoConn]
      BY <2>3
    <3> HIDE DEF serving
    <3>4. [conn EXCEPT ![c] = serving] \in [Connections -> ConnRecords]
      BY <3>1, <3>2
    <3>5. [conn EXCEPT ![c] = NoConn] \in [Connections -> ConnRecords]
      BY <3>1, <3>2
    <3> QED
      BY <3>3, <3>4, <3>5, Zenon
  <2> QED
    BY <1>32, <2>2, <2>6 DEF Serve, ConnRecords
<1>33. ASSUME NEW c \in Connections, CloseEntry(c) PROVE DaemonTypeOK'
  <2> DEFINE d == conn[c].daemon
  <2>1. d \in Daemons /\ main[d] = "up"
    BY <1>33 DEF CloseEntry, ConnInv
  <2>2. UNCHANGED <<files, launcher, main, served>>
    BY <1>33 DEF CloseEntry
  <2> HIDE DEF d
  <2>3. CASE ShutDown(d)
    BY <2>1, <2>2, <2>3, DrainedFacts DEF ShutDown, ConnRecords, DrainPC
  <2>4. CASE conn' = [conn EXCEPT ![c] = Closing(c)] /\ UNCHANGED drain
    BY <1>33, <2>2, <2>4, ClosingFacts DEF CloseEntry, ConnRecords
  <2> QED
    BY <1>33, <2>3, <2>4 DEF CloseEntry, d
<1>34. ASSUME NEW c \in Connections, SessionClosed(c) PROVE DaemonTypeOK'
  BY <1>34 DEF SessionClosed
<1>35. CASE UNCHANGED daemonVars
  BY <1>35 DEF daemonVars
<1>36. QED
  BY <1>1, <1>2, <1>3, <1>4, <1>5, <1>6, <1>7, <1>8, <1>9, <1>10, <1>11, <1>12, <1>13, <1>14,
     <1>15, <1>16, <1>17, <1>18, <1>19, <1>20, <1>21, <1>22, <1>23, <1>24, <1>25, <1>26,
     <1>27, <1>28, <1>29, <1>30, <1>31, <1>32, <1>33, <1>34, <1>35 DEF DaemonNext, LaunchStep,
     DaemonStep

\* A step keeps the lock of a launcher that nobody reclaimed from.
LEMMA LockStep ==
    ASSUME McpAssumption, DaemonTypeOK, BornInv, LockInv, [DaemonNext]_daemonVars
    PROVE  LockInv'
<1> USE DEF McpAssumption, DaemonTypeOK, LockInv, Locked, files, launcher, daemon
<1>1. ASSUME NEW l \in Launchers, Start(l) PROVE LockInv'
  BY <1>1 DEF Start, SettleAdapter, Goto
<1>2. ASSUME NEW l \in Launchers, LinkLock(l) PROVE LockInv'
  BY <1>2 DEF LinkLock, Goto
<1>3. ASSUME NEW l \in Launchers, InspectLock(l) PROVE LockInv'
  BY <1>3 DEF InspectLock, Goto, Alive
<1>4. ASSUME NEW l \in Launchers, Reclaim(l) PROVE LockInv'
  BY <1>4 DEF Reclaim, Goto, Alive
<1>5. ASSUME NEW l \in Launchers, LockFails(l) PROVE LockInv'
  BY <1>5 DEF LockFails, SettleAdapter, Goto
<1>6. ASSUME NEW l \in Launchers, Scan(l) PROVE LockInv'
  BY <1>6 DEF Scan, Goto, DaemonAlive
<1>7. ASSUME NEW l \in Launchers, Clear(l) PROVE LockInv'
  BY <1>7 DEF Clear, Goto
<1>8. ASSUME NEW l \in Launchers, Spawn(l) PROVE LockInv'
  BY <1>8 DEF Spawn, Goto
<1>9. ASSUME NEW l \in Launchers, ConnectMcpDaemon(l) PROVE LockInv'
  BY <1>9 DEF ConnectMcpDaemon, Goto, Draining
<1>10. ASSUME NEW l \in Launchers, Attach(l) PROVE LockInv'
  BY <1>10 DEF Attach, Goto
<1>11. ASSUME NEW l \in Launchers, HandshakeFails(l) PROVE LockInv'
  BY <1>11 DEF HandshakeFails, Goto, Destroyed
<1>12. ASSUME NEW l \in Launchers, Again(l) PROVE LockInv'
  BY <1>12 DEF Again, Goto
<1>13. ASSUME NEW l \in Launchers, GiveUp(l) PROVE LockInv'
  BY <1>13 DEF GiveUp, Goto, DaemonAlive
<1>14. ASSUME NEW l \in Launchers, Reap(l) \/ Reaped(l) PROVE LockInv'
  BY <1>14, ReapCases
<1>15. ASSUME NEW l \in Launchers, Release(l) PROVE LockInv'
  BY <1>15 DEF Release, SettleAdapter, Goto, Outcome
<1>16. ASSUME NEW l \in Launchers, UnlinkLock(l) PROVE LockInv'
  BY <1>16 DEF UnlinkLock, SettleAdapter, Goto, Outcome, Alive
<1>17. ASSUME NEW l \in Launchers, Detach(l) PROVE LockInv'
  BY <1>17 DEF Detach, SettleAdapter, Goto
<1>18. ASSUME NEW l \in Launchers, Crash(l) PROVE LockInv'
  BY <1>18 DEF Crash, Goto
<1>19. ASSUME NEW l \in Launchers,
             Drop(l) \/ Finish(l) \/ OwnerExit(l)
      PROVE  LockInv'
  <2>1. UNCHANGED <<lock, misfire, pc>>
    BY <1>19 DEF Drop, Finish, OwnerExit
  <2> QED
    BY <2>1
<1>20. ASSUME NEW d \in Daemons,
             Booted(d) \/ Publish(d) \/ Bind(d) \/ DrainClosed(d) \/ DrainSocket(d) \/
             DrainRecord(d) \/ StartupTimeout(d) \/ DaemonCrash(d) \/ ShutdownDeadline(d)
      PROVE  LockInv'
  <2>1. UNCHANGED <<lock, misfire, pc>>
    BY <1>20 DEF Booted, Publish, Bind, DrainClosed, DrainSocket, DrainRecord, StartupTimeout,
       DaemonCrash, ShutdownDeadline
  <2> QED
    BY <2>1
<1>21. ASSUME NEW c \in Connections,
             Hello(c) \/ Serve(c) \/ CloseEntry(c) \/ SessionClosed(c)
      PROVE  LockInv'
  <2>1. UNCHANGED <<lock, misfire, pc>>
    BY <1>21 DEF Hello, Serve, CloseEntry, SessionClosed
  <2> QED
    BY <2>1
<1>22. CASE UNCHANGED daemonVars
  BY <1>22 DEF daemonVars
<1>23. QED
  BY <1>1, <1>2, <1>3, <1>4, <1>5, <1>6, <1>7, <1>8, <1>9, <1>10, <1>11, <1>12, <1>13, <1>14,
     <1>15, <1>16, <1>17, <1>18, <1>19, <1>20, <1>21, <1>22 DEF DaemonNext, LaunchStep,
     DaemonStep

\* A step undoes neither a birth nor a death.
LEMMA BornStep ==
    ASSUME McpAssumption, DaemonTypeOK, BornInv, ConnInv, [DaemonNext]_daemonVars
    PROVE  BornInv'
<1> USE DEF McpAssumption, DaemonTypeOK, BornInv, ConnInv, Clearing, files, launcher, daemon
<1>1. ASSUME NEW l \in Launchers, Start(l) PROVE BornInv'
  BY <1>1 DEF Start, SettleAdapter, Goto
<1>2. ASSUME NEW l \in Launchers, LinkLock(l) PROVE BornInv'
  BY <1>2 DEF LinkLock, Goto
<1>3. ASSUME NEW l \in Launchers, InspectLock(l) PROVE BornInv'
  BY <1>3 DEF InspectLock, Goto, Alive
<1>4. ASSUME NEW l \in Launchers, Reclaim(l) PROVE BornInv'
  BY <1>4 DEF Reclaim, Goto, Alive
<1>5. ASSUME NEW l \in Launchers, LockFails(l) PROVE BornInv'
  BY <1>5 DEF LockFails, SettleAdapter, Goto
<1>6. ASSUME NEW l \in Launchers, Scan(l) PROVE BornInv'
  BY <1>6 DEF Scan, Goto, DaemonAlive
<1>7. ASSUME NEW l \in Launchers, Clear(l) PROVE BornInv'
  BY <1>7 DEF Clear, Goto
<1>8. ASSUME NEW l \in Launchers, Spawn(l) PROVE BornInv'
  <2>1. /\ \A d \in Daemons : main[d] # "unborn" => main'[d] = main[d]
        /\ \A k \in Launchers : child'[k] # None => child'[k] \in Daemons /\ main'[child'[k]] # "unborn"
    <3>1. CASE UNCHANGED <<main, child>>
      BY <3>1
    <3>2. ASSUME NEW d \in Daemons, main[d] = "unborn", main' = [main EXCEPT ![d] = "boot"],
                 child' = [child EXCEPT ![l] = d]
          PROVE  /\ \A e \in Daemons : main[e] # "unborn" => main'[e] = main[e]
                 /\ \A k \in Launchers : child'[k] # None => child'[k] \in Daemons /\ main'[child'[k]] # "unborn"
      BY <3>2
    <3> QED
      BY <1>8, <3>1, <3>2 DEF Spawn
  <2>2. \A k \in Launchers : pc'[k] = pc[k] \/ (k = l /\ pc'[k] \in {"pause", "release"})
    BY <1>8 DEF Spawn, Goto
  <2>3. seen' = [seen EXCEPT ![l] = None] /\ pc[l] = "spawn" /\ UNCHANGED files
    BY <1>8 DEF Spawn
  <2>4. \A k \in Launchers : pc'[k] \in {"reap", "reapWait"} => child'[k] # None
    BY <1>8, <2>2 DEF Spawn
  <2> QED
    BY <2>1, <2>2, <2>3, <2>4
<1>9. ASSUME NEW l \in Launchers, ConnectMcpDaemon(l) PROVE BornInv'
  BY <1>9 DEF ConnectMcpDaemon, Goto, Draining
<1>10. ASSUME NEW l \in Launchers, Attach(l) PROVE BornInv'
  BY <1>10 DEF Attach, Goto
<1>11. ASSUME NEW l \in Launchers, HandshakeFails(l) PROVE BornInv'
  <2>1. cur[l] \in Connections \union {None}
    BY DEF DaemonTypeOK
  <2> QED
    BY <1>11, <2>1, DestroyedFacts DEF HandshakeFails, Goto, ConnRecords
<1>12. ASSUME NEW l \in Launchers, Again(l) PROVE BornInv'
  BY <1>12 DEF Again, Goto
<1>13. ASSUME NEW l \in Launchers, GiveUp(l) PROVE BornInv'
  BY <1>13 DEF GiveUp, Goto, DaemonAlive
<1>14. ASSUME NEW l \in Launchers, Reap(l) \/ Reaped(l) PROVE BornInv'
  <2> DEFINE d == child[l]
  <2>1. /\ d \in Daemons /\ pc[l] \in {"reap", "reapWait"}
        /\ pc' \in [Launchers -> LauncherPC]
        /\ \A k \in Launchers \ {l} : pc'[k] = pc[k]
        /\ pc'[l] \in {"reapWait", "release"}
        /\ UNCHANGED <<files, seen, child, cur, finished, owner>>
    BY <1>14, ReapCases
  <2> HIDE DEF d
  <2>2. CASE DaemonAlive(d) /\ Exit(d)
    BY <2>1, <2>2, ExitFacts DEF ConnRecords, DaemonAlive
  <2>3. CASE /\ main[d] \notin {"unborn", "boot", "exited"}
             /\ ShutDown(d) /\ UNCHANGED <<main, served>>
    BY <2>1, <2>3, DrainedFacts DEF ConnRecords, DrainPC, ShutDown
  <2>4. CASE UNCHANGED <<daemon, conn>>
    BY <2>1, <2>4
  <2> QED
    BY <1>14, <2>2, <2>3, <2>4, ReapCases DEF d
<1>15. ASSUME NEW l \in Launchers, Release(l) PROVE BornInv'
  BY <1>15 DEF Release, SettleAdapter, Goto, Outcome
<1>16. ASSUME NEW l \in Launchers, UnlinkLock(l) PROVE BornInv'
  BY <1>16 DEF UnlinkLock, SettleAdapter, Goto, Outcome, Alive
<1>17. ASSUME NEW l \in Launchers, Detach(l) PROVE BornInv'
  BY <1>17 DEF Detach, SettleAdapter, Goto
<1>18. ASSUME NEW l \in Launchers, Crash(l) PROVE BornInv'
  BY <1>18 DEF Crash, Goto
<1>19. ASSUME NEW d \in Daemons, Booted(d) PROVE BornInv'
  BY <1>19 DEF Booted
<1>20. ASSUME NEW d \in Daemons, Publish(d) PROVE BornInv'
  BY <1>20 DEF Publish
<1>21. ASSUME NEW d \in Daemons, Bind(d) PROVE BornInv'
  <2>1. CASE socket = None /\ socket' = d /\ main' = [main EXCEPT ![d] = "up"] /\ UNCHANGED <<drain, conn>>
    BY <1>21, <2>1 DEF Bind
  <2>2. CASE /\ socket' = socket /\ main' = [main EXCEPT ![d] = "failed"]
             /\ UNCHANGED <<drain, conn>>
    BY <1>21, <2>2 DEF Bind
  <2>3. CASE /\ socket' = socket /\ main' = [main EXCEPT ![d] = "failed"]
             /\ ShutDown(d)
    BY <1>21, <2>3, DrainedFacts DEF Bind, ShutDown, ConnRecords, DrainPC
  <2> QED
    BY <1>21, <2>1, <2>2, <2>3 DEF Bind
<1>22. ASSUME NEW d \in Daemons, DrainClosed(d) PROVE BornInv'
  <2>1. CASE record = d /\ drain' = [drain EXCEPT ![d] = "socket"] /\ UNCHANGED <<main, served, conn>>
    BY <1>22, <2>1 DEF DrainClosed, InState, ConnsOf
  <2>2. CASE Exit(d)
    BY <1>22, <2>2, ExitFacts DEF DrainClosed, ConnRecords
  <2> QED
    BY <1>22, <2>1, <2>2 DEF DrainClosed
<1>23. ASSUME NEW d \in Daemons, DrainRecord(d) PROVE BornInv'
  BY <1>23, ExitFacts DEF DrainRecord, Die, DaemonAlive, ConnRecords
<1>24. ASSUME NEW d \in Daemons, DaemonCrash(d) PROVE BornInv'
  BY <1>24, ExitFacts DEF DaemonCrash, Die, DaemonAlive, ConnRecords
<1>25. ASSUME NEW d \in Daemons, ShutdownDeadline(d) PROVE BornInv'
  BY <1>25, ExitFacts DEF ShutdownDeadline, Die, DaemonAlive, ConnRecords
<1>26. ASSUME NEW l \in Launchers,
             Drop(l) \/ Finish(l) \/ OwnerExit(l)
      PROVE  BornInv'
  <2>1. UNCHANGED <<record, main, child, pc, seen>>
    BY <1>26 DEF Drop, Finish, OwnerExit
  <2> QED
    BY <2>1
<1>27. ASSUME NEW d \in Daemons,
             DrainSocket(d) \/ StartupTimeout(d)
      PROVE  BornInv'
  <2>1. UNCHANGED <<record, main, child, pc, seen>>
    BY <1>27 DEF DrainSocket, StartupTimeout
  <2> QED
    BY <2>1
<1>28. ASSUME NEW c \in Connections,
             Hello(c) \/ Serve(c) \/ CloseEntry(c) \/ SessionClosed(c)
      PROVE  BornInv'
  <2>1. UNCHANGED <<record, main, child, pc, seen>>
    BY <1>28 DEF Hello, Serve, CloseEntry, SessionClosed
  <2> QED
    BY <2>1
<1>29. CASE UNCHANGED daemonVars
  BY <1>29 DEF daemonVars
<1>30. QED
  BY <1>1, <1>2, <1>3, <1>4, <1>5, <1>6, <1>7, <1>8, <1>9, <1>10, <1>11, <1>12, <1>13, <1>14,
     <1>15, <1>16, <1>17, <1>18, <1>19, <1>20, <1>21, <1>22, <1>23, <1>24, <1>25, <1>26,
     <1>27, <1>28, <1>29 DEF DaemonNext, LaunchStep, DaemonStep

\* A step connects to a daemon that is up, and one that goes takes its connections along.
LEMMA ConnKept ==
    ASSUME McpAssumption, DaemonTypeOK, BornInv, ConnInv, [DaemonNext]_daemonVars
    PROVE  ConnInv'
<1> USE DEF McpAssumption, DaemonTypeOK, BornInv, ConnInv, files, launcher, daemon, NoConn
<1>1. ASSUME NEW l \in Launchers, Spawn(l) PROVE ConnInv'
  BY <1>1 DEF Spawn, Goto
<1>2. ASSUME NEW l \in Launchers, ConnectMcpDaemon(l) PROVE ConnInv'
  BY <1>2 DEF ConnectMcpDaemon, Goto, Draining
<1>3. ASSUME NEW l \in Launchers, HandshakeFails(l) PROVE ConnInv'
  <2>1. cur[l] \in Connections \union {None}
    BY DEF DaemonTypeOK
  <2> QED
    BY <1>3, <2>1, DestroyedFacts DEF HandshakeFails, Goto, ConnRecords
<1>4. ASSUME NEW l \in Launchers, Reap(l) \/ Reaped(l) PROVE ConnInv'
  <2> DEFINE d == child[l]
  <2>1. /\ d \in Daemons /\ pc[l] \in {"reap", "reapWait"}
        /\ pc' \in [Launchers -> LauncherPC]
        /\ \A k \in Launchers \ {l} : pc'[k] = pc[k]
        /\ pc'[l] \in {"reapWait", "release"}
        /\ UNCHANGED <<files, seen, child, cur, finished, owner>>
    BY <1>4, ReapCases
  <2> HIDE DEF d
  <2>2. CASE DaemonAlive(d) /\ Exit(d)
    BY <2>1, <2>2, ExitFacts DEF ConnRecords, DaemonAlive
  <2>3. CASE /\ main[d] \notin {"unborn", "boot", "exited"}
             /\ ShutDown(d) /\ UNCHANGED <<main, served>>
    BY <2>1, <2>3, DrainedFacts DEF ConnRecords, DrainPC, ShutDown
  <2>4. CASE UNCHANGED <<daemon, conn>>
    BY <2>1, <2>4
  <2> QED
    BY <1>4, <2>2, <2>3, <2>4, ReapCases DEF d
<1>5. ASSUME NEW l \in Launchers, Drop(l) PROVE ConnInv'
  <2>1. cur[l] \in Connections \union {None}
    BY DEF DaemonTypeOK
  <2> QED
    BY <1>5, <2>1, DestroyedFacts DEF Drop, Goto, ConnRecords
<1>6. ASSUME NEW l \in Launchers, Finish(l) PROVE ConnInv'
  <2>1. cur[l] \in Connections \union {None}
    BY DEF DaemonTypeOK
  <2> QED
    BY <1>6, <2>1, DestroyedFacts DEF Finish, Goto, ConnRecords
<1>7. ASSUME NEW d \in Daemons, Booted(d) PROVE ConnInv'
  BY <1>7 DEF Booted
<1>8. ASSUME NEW d \in Daemons, Publish(d) PROVE ConnInv'
  BY <1>8 DEF Publish
<1>9. ASSUME NEW d \in Daemons, Bind(d) PROVE ConnInv'
  <2>1. CASE socket = None /\ socket' = d /\ main' = [main EXCEPT ![d] = "up"] /\ UNCHANGED <<drain, conn>>
    BY <1>9, <2>1 DEF Bind
  <2>2. CASE /\ socket' = socket /\ main' = [main EXCEPT ![d] = "failed"]
             /\ UNCHANGED <<drain, conn>>
    BY <1>9, <2>2 DEF Bind
  <2>3. CASE /\ socket' = socket /\ main' = [main EXCEPT ![d] = "failed"]
             /\ ShutDown(d)
    BY <1>9, <2>3, DrainedFacts DEF Bind, ShutDown, ConnRecords, DrainPC
  <2> QED
    BY <1>9, <2>1, <2>2, <2>3 DEF Bind
<1>10. ASSUME NEW d \in Daemons, DrainClosed(d) PROVE ConnInv'
  <2>1. CASE record = d /\ drain' = [drain EXCEPT ![d] = "socket"] /\ UNCHANGED <<main, served, conn>>
    BY <1>10, <2>1 DEF DrainClosed, InState, ConnsOf
  <2>2. CASE Exit(d)
    BY <1>10, <2>2, ExitFacts DEF DrainClosed, ConnRecords
  <2> QED
    BY <1>10, <2>1, <2>2 DEF DrainClosed
<1>11. ASSUME NEW d \in Daemons, DrainRecord(d) PROVE ConnInv'
  BY <1>11, ExitFacts DEF DrainRecord, Die, DaemonAlive, ConnRecords
<1>12. ASSUME NEW d \in Daemons, StartupTimeout(d) PROVE ConnInv'
  BY <1>12, DrainedFacts DEF StartupTimeout, ShutDown, ConnRecords, DrainPC
<1>13. ASSUME NEW d \in Daemons, DaemonCrash(d) PROVE ConnInv'
  BY <1>13, ExitFacts DEF DaemonCrash, Die, DaemonAlive, ConnRecords
<1>14. ASSUME NEW d \in Daemons, ShutdownDeadline(d) PROVE ConnInv'
  BY <1>14, ExitFacts DEF ShutdownDeadline, Die, DaemonAlive, ConnRecords
<1>15. ASSUME NEW c \in Connections, Hello(c) PROVE ConnInv'
  BY <1>15 DEF Hello, Draining
<1>16. ASSUME NEW c \in Connections, Serve(c) PROVE ConnInv'
  BY <1>16 DEF Serve, Draining
<1>17. ASSUME NEW c \in Connections, CloseEntry(c) PROVE ConnInv'
  <2> DEFINE d == conn[c].daemon
  <2>1. d \in Daemons /\ main[d] = "up"
    BY <1>17 DEF CloseEntry, ConnInv
  <2>2. UNCHANGED <<files, launcher, main, served>>
    BY <1>17 DEF CloseEntry
  <2> HIDE DEF d
  <2>3. CASE ShutDown(d)
    BY <2>1, <2>2, <2>3, DrainedFacts DEF ShutDown, ConnRecords, DrainPC
  <2>4. CASE conn' = [conn EXCEPT ![c] = Closing(c)] /\ UNCHANGED drain
    BY <1>17, <2>2, <2>4, ClosingFacts DEF CloseEntry, ConnRecords
  <2> QED
    BY <1>17, <2>3, <2>4 DEF CloseEntry, d
<1>18. ASSUME NEW c \in Connections, SessionClosed(c) PROVE ConnInv'
  BY <1>18 DEF SessionClosed
<1>19. ASSUME NEW l \in Launchers,
             Start(l) \/ LinkLock(l) \/ InspectLock(l) \/ Reclaim(l) \/ LockFails(l) \/
             Scan(l) \/ Clear(l) \/ Attach(l) \/ Again(l) \/ GiveUp(l) \/ Release(l) \/
             UnlinkLock(l) \/ Detach(l) \/ OwnerExit(l) \/ Crash(l)
      PROVE  ConnInv'
  <2>1. UNCHANGED <<conn, main>>
    BY <1>19 DEF Start, LinkLock, InspectLock, Reclaim, LockFails, Scan, Clear, Attach, Again,
       GiveUp, Release, UnlinkLock, Detach, OwnerExit, Crash
  <2> QED
    BY <2>1
<1>20. ASSUME NEW d \in Daemons,
             DrainSocket(d)
      PROVE  ConnInv'
  <2>1. UNCHANGED <<conn, main>>
    BY <1>20 DEF DrainSocket
  <2> QED
    BY <2>1
<1>21. CASE UNCHANGED daemonVars
  BY <1>21 DEF daemonVars
<1>22. QED
  BY <1>1, <1>2, <1>3, <1>4, <1>5, <1>6, <1>7, <1>8, <1>9, <1>10, <1>11, <1>12, <1>13, <1>14,
     <1>15, <1>16, <1>17, <1>18, <1>19, <1>20, <1>21 DEF DaemonNext, LaunchStep, DaemonStep

\* A step opens no session in a daemon that drains.
LEMMA DrainKept ==
    ASSUME McpAssumption, DaemonTypeOK, BornInv, ConnInv, DrainInv, [DaemonNext]_daemonVars
    PROVE  DrainInv'
<1> USE DEF McpAssumption, DaemonTypeOK, BornInv, ConnInv, DrainInv, DaemonAlive, DrainPC,
        files, launcher, daemon, NoConn
<1>1. ASSUME NEW l \in Launchers, Spawn(l) PROVE DrainInv'
  BY <1>1 DEF Spawn, Goto
<1>2. ASSUME NEW l \in Launchers, ConnectMcpDaemon(l) PROVE DrainInv'
  <2>1. drain' = drain /\ main' = main
    BY <1>2 DEF ConnectMcpDaemon
  <2>2. ASSUME NEW c \in Connections, conn'[c].state \in {"serving", "closing"}
        PROVE  conn'[c] = conn[c]
    BY <1>2, <2>2 DEF ConnectMcpDaemon
  <2> QED
    BY <2>1, <2>2
<1>3. ASSUME NEW l \in Launchers, HandshakeFails(l) PROVE DrainInv'
  <2>1. cur[l] \in Connections \union {None}
    BY DEF DaemonTypeOK
  <2> QED
    BY <1>3, <2>1, DestroyedFacts DEF HandshakeFails, Goto, ConnRecords
<1>4. ASSUME NEW l \in Launchers, Reap(l) \/ Reaped(l) PROVE DrainInv'
  <2> DEFINE d == child[l]
  <2>1. /\ d \in Daemons /\ pc[l] \in {"reap", "reapWait"}
        /\ pc' \in [Launchers -> LauncherPC]
        /\ \A k \in Launchers \ {l} : pc'[k] = pc[k]
        /\ pc'[l] \in {"reapWait", "release"}
        /\ UNCHANGED <<files, seen, child, cur, finished, owner>>
    BY <1>4, ReapCases
  <2> HIDE DEF d
  <2>2. CASE DaemonAlive(d) /\ Exit(d)
    <3>1. \A e \in Daemons : drain'[e] # "no" => main'[e] \notin {"unborn", "exited"}
      BY <2>1, <2>2, ExitFacts
    <3>2. \A k \in Connections : conn'[k].state # "none" =>
             /\ conn'[k] = conn[k] /\ conn[k].daemon \in Daemons
             /\ drain'[conn[k].daemon] = drain[conn[k].daemon]
      BY <2>1, <2>2, ExitFacts
    <3> QED
      BY <3>1, <3>2
  <2>3. CASE /\ main[d] \notin {"unborn", "boot", "exited"}
             /\ ShutDown(d) /\ UNCHANGED <<main, served>>
    BY <2>1, <2>3, DrainedFacts DEF ConnRecords, DrainPC, ShutDown
  <2>4. CASE UNCHANGED <<daemon, conn>>
    BY <2>1, <2>4
  <2> QED
    BY <1>4, <2>2, <2>3, <2>4, ReapCases DEF d
<1>5. ASSUME NEW l \in Launchers, Drop(l) PROVE DrainInv'
  <2>1. cur[l] \in Connections \union {None}
    BY DEF DaemonTypeOK
  <2> QED
    BY <1>5, <2>1, DestroyedFacts DEF Drop, Goto, ConnRecords
<1>6. ASSUME NEW l \in Launchers, Finish(l) PROVE DrainInv'
  <2>1. cur[l] \in Connections \union {None}
    BY DEF DaemonTypeOK
  <2> QED
    BY <1>6, <2>1, DestroyedFacts DEF Finish, Goto, ConnRecords
<1>7. ASSUME NEW d \in Daemons, Booted(d) PROVE DrainInv'
  BY <1>7 DEF Booted
<1>8. ASSUME NEW d \in Daemons, Publish(d) PROVE DrainInv'
  BY <1>8 DEF Publish
<1>9. ASSUME NEW d \in Daemons, Bind(d) PROVE DrainInv'
  <2>1. CASE socket = None /\ socket' = d /\ main' = [main EXCEPT ![d] = "up"] /\ UNCHANGED <<drain, conn>>
    BY <1>9, <2>1 DEF Bind
  <2>2. CASE /\ socket' = socket /\ main' = [main EXCEPT ![d] = "failed"]
             /\ UNCHANGED <<drain, conn>>
    BY <1>9, <2>2 DEF Bind
  <2>3. CASE /\ socket' = socket /\ main' = [main EXCEPT ![d] = "failed"]
             /\ ShutDown(d)
    BY <1>9, <2>3, DrainedFacts DEF Bind, ShutDown, ConnRecords, DrainPC
  <2> QED
    BY <1>9, <2>1, <2>2, <2>3 DEF Bind
<1>10. ASSUME NEW d \in Daemons, DrainClosed(d) PROVE DrainInv'
  <2>1. CASE record = d /\ drain' = [drain EXCEPT ![d] = "socket"] /\ UNCHANGED <<main, served, conn>>
    BY <1>10, <2>1 DEF DrainClosed, InState, ConnsOf
  <2>2. CASE Exit(d)
    <3>1. \A e \in Daemons : drain'[e] # "no" => main'[e] \notin {"unborn", "exited"}
      BY <2>2, ExitFacts
    <3>2. \A k \in Connections : conn'[k].state # "none" =>
             /\ conn'[k] = conn[k] /\ conn[k].daemon \in Daemons
             /\ drain'[conn[k].daemon] = drain[conn[k].daemon]
      BY <2>2, ExitFacts
    <3> QED
      BY <3>1, <3>2
  <2> QED
    BY <1>10, <2>1, <2>2 DEF DrainClosed
<1>11. ASSUME NEW d \in Daemons, DrainSocket(d) PROVE DrainInv'
  BY <1>11 DEF DrainSocket
<1>12. ASSUME NEW d \in Daemons, DrainRecord(d) PROVE DrainInv'
  BY <1>12, ExitFacts DEF DrainRecord, Die, DaemonAlive, ConnRecords
<1>13. ASSUME NEW d \in Daemons, StartupTimeout(d) PROVE DrainInv'
  BY <1>13, DrainedFacts DEF StartupTimeout, ShutDown, ConnRecords, DrainPC
<1>14. ASSUME NEW d \in Daemons, DaemonCrash(d) PROVE DrainInv'
  BY <1>14, ExitFacts DEF DaemonCrash, Die, DaemonAlive, ConnRecords
<1>15. ASSUME NEW d \in Daemons, ShutdownDeadline(d) PROVE DrainInv'
  BY <1>15, ExitFacts DEF ShutdownDeadline, Die, DaemonAlive, ConnRecords
<1>16. ASSUME NEW c \in Connections, Hello(c) PROVE DrainInv'
  BY <1>16 DEF Hello, Draining
<1>17. ASSUME NEW c \in Connections, Serve(c) PROVE DrainInv'
  BY <1>17 DEF Serve, Draining
<1>18. ASSUME NEW c \in Connections, CloseEntry(c) PROVE DrainInv'
  <2> DEFINE d == conn[c].daemon
  <2>1. d \in Daemons /\ main[d] = "up"
    BY <1>18 DEF CloseEntry, ConnInv
  <2>2. UNCHANGED <<files, launcher, main, served>>
    BY <1>18 DEF CloseEntry
  <2> HIDE DEF d
  <2>3. CASE ShutDown(d)
    BY <2>1, <2>2, <2>3, DrainedFacts DEF ShutDown, ConnRecords, DrainPC
  <2>4. CASE conn' = [conn EXCEPT ![c] = Closing(c)] /\ UNCHANGED drain
    BY <1>18, <2>2, <2>4, ClosingFacts DEF CloseEntry, ConnRecords
  <2> QED
    BY <1>18, <2>3, <2>4 DEF CloseEntry, d
<1>19. ASSUME NEW c \in Connections, SessionClosed(c) PROVE DrainInv'
  BY <1>19 DEF SessionClosed
<1>20. ASSUME NEW l \in Launchers,
             Start(l) \/ LinkLock(l) \/ InspectLock(l) \/ Reclaim(l) \/ LockFails(l) \/
             Scan(l) \/ Clear(l) \/ Attach(l) \/ Again(l) \/ GiveUp(l) \/ Release(l) \/
             UnlinkLock(l) \/ Detach(l) \/ OwnerExit(l) \/ Crash(l)
      PROVE  DrainInv'
  <2>1. UNCHANGED <<drain, main, conn>>
    BY <1>20 DEF Start, LinkLock, InspectLock, Reclaim, LockFails, Scan, Clear, Attach, Again,
       GiveUp, Release, UnlinkLock, Detach, OwnerExit, Crash
  <2> QED
    BY <2>1
<1>21. CASE UNCHANGED daemonVars
  BY <1>21 DEF daemonVars
<1>22. QED
  BY <1>1, <1>2, <1>3, <1>4, <1>5, <1>6, <1>7, <1>8, <1>9, <1>10, <1>11, <1>12, <1>13, <1>14,
     <1>15, <1>16, <1>17, <1>18, <1>19, <1>20, <1>21 DEF DaemonNext, LaunchStep, DaemonStep

\* A step takes no record away from a daemon that needs it.
LEMMA RecordKept ==
    ASSUME McpAssumption, DaemonTypeOK, LockInv, BornInv, ConnInv, DrainInv, RecordInv, [DaemonNext]_daemonVars
    PROVE  RecordInv'
<1> USE DEF McpAssumption, DaemonTypeOK, LockInv, BornInv, ConnInv, DrainInv, RecordInv,
        Locked, Clearing, DaemonAlive, files, launcher, daemon
<1>1. ASSUME NEW l \in Launchers, Start(l) PROVE RecordInv'
  BY <1>1 DEF Start, SettleAdapter, Goto
<1>2. ASSUME NEW l \in Launchers, LinkLock(l) PROVE RecordInv'
  BY <1>2 DEF LinkLock, Goto
<1>3. ASSUME NEW l \in Launchers, InspectLock(l) PROVE RecordInv'
  BY <1>3 DEF InspectLock, Goto, Alive
<1>4. ASSUME NEW l \in Launchers, Reclaim(l) PROVE RecordInv'
  BY <1>4 DEF Reclaim, Goto, Alive
<1>5. ASSUME NEW l \in Launchers, LockFails(l) PROVE RecordInv'
  BY <1>5 DEF LockFails, SettleAdapter, Goto
<1>6. ASSUME NEW l \in Launchers, Scan(l) PROVE RecordInv'
  BY <1>6 DEF Scan, Goto, DaemonAlive
<1>7. ASSUME NEW l \in Launchers, Clear(l) PROVE RecordInv'
  BY <1>7 DEF Clear, Goto
<1>8. ASSUME NEW l \in Launchers, Spawn(l) PROVE RecordInv'
  BY <1>8 DEF Spawn, Goto
<1>9. ASSUME NEW l \in Launchers, ConnectMcpDaemon(l) PROVE RecordInv'
  BY <1>9 DEF ConnectMcpDaemon, Goto, Draining
<1>10. ASSUME NEW l \in Launchers, Attach(l) PROVE RecordInv'
  BY <1>10 DEF Attach, Goto
<1>11. ASSUME NEW l \in Launchers, HandshakeFails(l) PROVE RecordInv'
  <2>1. cur[l] \in Connections \union {None}
    BY DEF DaemonTypeOK
  <2> QED
    BY <1>11, <2>1, DestroyedFacts DEF HandshakeFails, Goto, ConnRecords
<1>12. ASSUME NEW l \in Launchers, Again(l) PROVE RecordInv'
  BY <1>12 DEF Again, Goto
<1>13. ASSUME NEW l \in Launchers, GiveUp(l) PROVE RecordInv'
  BY <1>13 DEF GiveUp, Goto, DaemonAlive
<1>14. ASSUME NEW l \in Launchers, Reap(l) \/ Reaped(l) PROVE RecordInv'
  <2> DEFINE d == child[l]
  <2>1. /\ d \in Daemons /\ pc[l] \in {"reap", "reapWait"}
        /\ pc' \in [Launchers -> LauncherPC]
        /\ \A k \in Launchers \ {l} : pc'[k] = pc[k]
        /\ pc'[l] \in {"reapWait", "release"}
        /\ UNCHANGED <<files, seen, child, cur, finished, owner>>
    BY <1>14, ReapCases
  <2> HIDE DEF d
  <2>2. CASE DaemonAlive(d) /\ Exit(d)
    BY <2>1, <2>2, ExitFacts DEF ConnRecords, DaemonAlive
  <2>3. CASE /\ main[d] \notin {"unborn", "boot", "exited"}
             /\ ShutDown(d) /\ UNCHANGED <<main, served>>
    BY <2>1, <2>3, DrainedFacts DEF ConnRecords, DrainPC, ShutDown
  <2>4. CASE UNCHANGED <<daemon, conn>>
    BY <2>1, <2>4
  <2> QED
    BY <1>14, <2>2, <2>3, <2>4, ReapCases DEF d
<1>15. ASSUME NEW l \in Launchers, Release(l) PROVE RecordInv'
  BY <1>15 DEF Release, SettleAdapter, Goto, Outcome
<1>16. ASSUME NEW l \in Launchers, UnlinkLock(l) PROVE RecordInv'
  BY <1>16 DEF UnlinkLock, SettleAdapter, Goto, Outcome, Alive
<1>17. ASSUME NEW l \in Launchers, Detach(l) PROVE RecordInv'
  BY <1>17 DEF Detach, SettleAdapter, Goto
<1>18. ASSUME NEW l \in Launchers, Crash(l) PROVE RecordInv'
  BY <1>18 DEF Crash, Goto
<1>19. ASSUME NEW d \in Daemons, Booted(d) PROVE RecordInv'
  BY <1>19 DEF Booted
<1>20. ASSUME NEW d \in Daemons, Publish(d) PROVE RecordInv'
  BY <1>20 DEF Publish
<1>21. ASSUME NEW d \in Daemons, Bind(d) PROVE RecordInv'
  <2>1. CASE socket = None /\ socket' = d /\ main' = [main EXCEPT ![d] = "up"] /\ UNCHANGED <<drain, conn>>
    BY <1>21, <2>1 DEF Bind
  <2>2. CASE /\ socket' = socket /\ main' = [main EXCEPT ![d] = "failed"]
             /\ UNCHANGED <<drain, conn>>
    BY <1>21, <2>2 DEF Bind
  <2>3. CASE /\ socket' = socket /\ main' = [main EXCEPT ![d] = "failed"]
             /\ ShutDown(d)
    BY <1>21, <2>3, DrainedFacts DEF Bind, ShutDown, ConnRecords, DrainPC
  <2> QED
    BY <1>21, <2>1, <2>2, <2>3 DEF Bind
<1>22. ASSUME NEW d \in Daemons, DrainClosed(d) PROVE RecordInv'
  <2>1. CASE record = d /\ drain' = [drain EXCEPT ![d] = "socket"] /\ UNCHANGED <<main, served, conn>>
    BY <1>22, <2>1 DEF DrainClosed, InState, ConnsOf
  <2>2. CASE Exit(d)
    BY <1>22, <2>2, ExitFacts DEF DrainClosed, ConnRecords
  <2> QED
    BY <1>22, <2>1, <2>2 DEF DrainClosed
<1>23. ASSUME NEW d \in Daemons, DrainSocket(d) PROVE RecordInv'
  BY <1>23 DEF DrainSocket
<1>24. ASSUME NEW d \in Daemons, DrainRecord(d) PROVE RecordInv'
  <2>1. /\ drain[d] = "record" /\ record' = None /\ misfire' = misfire
        /\ \A l \in Launchers : pc'[l] = pc[l] /\ seen'[l] = seen[l]
    BY <1>24 DEF DrainRecord, launcher
  <2>2. /\ main'[d] = "exited" /\ drain'[d] = "no"
        /\ \A e \in Daemons \ {d} : main'[e] = main[e] /\ drain'[e] = drain[e]
    BY <1>24, ExitFacts DEF DrainRecord
  <2>3. ~misfire => record = d
    BY <2>1
  <2>4. \A l \in Launchers : pc[l] \in Clearing => seen[l] # d
    BY <2>1 DEF BornInv, DrainInv, DaemonAlive
  <2> QED
    BY <2>1, <2>2, <2>3, <2>4
<1>25. ASSUME NEW d \in Daemons, StartupTimeout(d) PROVE RecordInv'
  BY <1>25, DrainedFacts DEF StartupTimeout, ShutDown, ConnRecords, DrainPC
<1>26. ASSUME NEW d \in Daemons, DaemonCrash(d) PROVE RecordInv'
  BY <1>26, ExitFacts DEF DaemonCrash, Die, DaemonAlive, ConnRecords
<1>27. ASSUME NEW d \in Daemons, ShutdownDeadline(d) PROVE RecordInv'
  BY <1>27, ExitFacts DEF ShutdownDeadline, Die, DaemonAlive, ConnRecords
<1>28. ASSUME NEW c \in Connections, CloseEntry(c) PROVE RecordInv'
  <2> DEFINE d == conn[c].daemon
  <2>1. d \in Daemons /\ main[d] = "up"
    BY <1>28 DEF CloseEntry, ConnInv
  <2>2. UNCHANGED <<files, launcher, main, served>>
    BY <1>28 DEF CloseEntry
  <2> HIDE DEF d
  <2>3. CASE ShutDown(d)
    BY <2>1, <2>2, <2>3, DrainedFacts DEF ShutDown, ConnRecords, DrainPC
  <2>4. CASE conn' = [conn EXCEPT ![c] = Closing(c)] /\ UNCHANGED drain
    BY <1>28, <2>2, <2>4, ClosingFacts DEF CloseEntry, ConnRecords
  <2> QED
    BY <1>28, <2>3, <2>4 DEF CloseEntry, d
<1>29. ASSUME NEW l \in Launchers,
             Drop(l) \/ Finish(l) \/ OwnerExit(l)
      PROVE  RecordInv'
  <2>1. UNCHANGED <<misfire, main, record, drain, pc, seen>>
    BY <1>29 DEF Drop, Finish, OwnerExit
  <2> QED
    BY <2>1
<1>30. ASSUME NEW c \in Connections,
             Hello(c) \/ Serve(c) \/ SessionClosed(c)
      PROVE  RecordInv'
  <2>1. UNCHANGED <<misfire, main, record, drain, pc, seen>>
    BY <1>30 DEF Hello, Serve, SessionClosed
  <2> QED
    BY <2>1
<1>31. CASE UNCHANGED daemonVars
  BY <1>31 DEF daemonVars
<1>32. QED
  BY <1>1, <1>2, <1>3, <1>4, <1>5, <1>6, <1>7, <1>8, <1>9, <1>10, <1>11, <1>12, <1>13, <1>14,
     <1>15, <1>16, <1>17, <1>18, <1>19, <1>20, <1>21, <1>22, <1>23, <1>24, <1>25, <1>26,
     <1>27, <1>28, <1>29, <1>30, <1>31 DEF DaemonNext, LaunchStep, DaemonStep

-----------------------------------------------------------------------------
(* The theorems.                                                           *)

\* In every behaviour all parts of the inductive invariant hold.
LEMMA DaemonInvariance == McpAssumption /\ DaemonSpec => []DaemonInv
<1> SUFFICES ASSUME McpAssumption PROVE DaemonSpec => []DaemonInv
  OBVIOUS
<1>1. DaemonInit => DaemonInv
  <2> SUFFICES ASSUME DaemonInit PROVE DaemonInv
    OBVIOUS
  <2> USE DEF DaemonInit
  <2>1. NoConn \in ConnRecords /\ NoConn.state = "none"
    BY DEF NoConn, ConnRecords, ConnState
  <2>2. DaemonTypeOK
    BY <2>1 DEF DaemonTypeOK, LauncherPC, MainPC, DrainPC, ConnRecords
  <2>3. LockInv /\ BornInv
    BY DEF LockInv, BornInv, Locked, Clearing
  <2>4. ConnInv /\ DrainInv
    BY <2>1 DEF ConnInv, DrainInv
  <2>5. RecordInv
    BY DEF RecordInv, Clearing
  <2> QED
    BY <2>2, <2>3, <2>4, <2>5 DEF DaemonInv
<1>2. DaemonInv /\ [DaemonNext]_daemonVars => DaemonInv'
  BY TypeStep, LockStep, BornStep, ConnKept, DrainKept, RecordKept DEF DaemonInv
<1> QED
  BY <1>1, <1>2, PTL DEF DaemonSpec

\* Lock, record, socket path, adapters, daemons and connections keep their types:
\* every record names a daemon and every connection one that was spawned.
THEOREM DaemonTypesKept == McpAssumption /\ DaemonSpec => []DaemonTypeOK
<1>1. DaemonInv => DaemonTypeOK
  BY DEF DaemonInv
<1> QED
  BY DaemonInvariance, <1>1, PTL

\* A daemon that drains (shutdown() in daemon.ts) opens no session, and its record
\* stays until every session has closed, so no launcher starts a second daemon
\* beside one that still lets go of a device.
THEOREM SessionsKeepTheRecord == McpAssumption /\ DaemonSpec => []RecordOutlivesSessions
<1>1. DaemonTypeOK /\ ConnInv /\ DrainInv /\ RecordInv => RecordOutlivesSessions
  <2> SUFFICES ASSUME DaemonTypeOK, ConnInv, DrainInv, RecordInv PROVE RecordOutlivesSessions
    OBVIOUS
  <2>1. NoSessionWhileDraining
    BY DEF NoSessionWhileDraining, DrainInv, Draining, InState, ConnsOf
  <2>2. ASSUME NEW d \in Daemons, InState(d, "serving") \union InState(d, "closing") # {}, ~misfire
        PROVE  record = d /\ drain[d] \in {"no", "close"}
    <3>1. PICK c \in Connections : conn[c].daemon = d /\ conn[c].state \in {"serving", "closing"}
      BY <2>2 DEF InState, ConnsOf
    <3>2. record = d
      BY <2>2, <3>1 DEF ConnInv, RecordInv
    <3> QED
      BY <3>1, <3>2 DEF DrainInv
  <2> QED
    BY <2>1, <2>2 DEF RecordOutlivesSessions
<1>2. DaemonInv => RecordOutlivesSessions
  BY <1>1 DEF DaemonInv
<1> QED
  BY DaemonInvariance, <1>2, PTL

\* While no live launcher has lost its lock to a stale reclaim (startupLock in
\* mcp-daemon.ts unlinks the path whatever it holds by then), one daemon at a time
\* accepts sessions.
THEOREM OneDaemonServes == McpAssumption /\ DaemonSpec => []OneServingDaemon
<1>1. RecordInv => OneServingDaemon
  BY DEF RecordInv, OneServingDaemon
<1>2. DaemonInv => OneServingDaemon
  BY <1>1 DEF DaemonInv
<1> QED
  BY DaemonInvariance, <1>2, PTL

----------------------------------------------------------------------------
(***************************************************************************)
(* MetroInspector.  Every connection is opened under a connection          *)
(* generation of its own, so at most one that is still awaited is current, *)
(* and while it is awaited the inspector holds none; whoever waits for a   *)
(* connection goes on before anything else happens, so that it finds the   *)
(* connection the inspector holds, and the device noted with that          *)
(* connection is one its target may stand for.                             *)
(***************************************************************************)

Awaited == {"resolving", "dialing"}
Ends == {"open", "lost", "closed", "stale", "failed"}
Undialed == {"idle", "scanning", "statusing"}
Bound == {"connecting", "starting", "polling", "cleaning", "symbolicating", "answered"}

\* Target t may stand for device d.
Suits(t, d) == t.logical \in {d, Opaque, Nothing}

\* A connection is opened once, to a target, under a generation of its own.
DialInv ==
    /\ \A i \in Inspections : dial[i].state # "none" =>
          dial[i].key \in Targets /\ dial[i].cgen <= metro.cgen
    /\ \A i, j \in Inspections :
          dial[i].state # "none" /\ dial[j].state # "none" /\ dial[i].cgen = dial[j].cgen => i = j
    /\ \A i \in Inspections : call[i].pc \in Undialed => dial[i].state = "none"

\* The inspector holds every connection that is up, and what it notes of the
\* connection it holds is true of it.
SessionInv ==
    /\ NoDebuggerForgotten
    /\ metro.session # Nothing =>
          LET x == dial[metro.session] IN
          /\ x.state \in {"open", "lost"} /\ x.cgen = metro.cgen
          /\ metro.selected = x.key
          /\ metro.device = Nothing \/ Suits(x.key, metro.device)
    /\ metro.session = Nothing => metro.device = Nothing
    /\ metro.connecting # Nothing => dial[metro.connecting].state \in Awaited

\* An inspection is bound to a connection to a target it may use.
CallInv ==
    \A i \in Inspections :
        /\ call[i].pc \in Bound =>
              /\ call[i].dial \in Inspections /\ dial[call[i].dial].state # "none"
              /\ dial[call[i].dial].key.app = call[i].app
              /\ Suits(dial[call[i].dial].key, call[i].device)
        /\ call[i].pc = "cleaning" => call[i].result \in {"tree", "empty", "error"}

\* Those whose connection has settled wait for the same one, just settled.
QuietInv ==
    \A i, j \in Inspections :
        /\ call[i].pc = "connecting" /\ Settled(call[i].dial)
        /\ call[j].pc = "connecting" /\ Settled(call[j].dial)
        => call[i].dial = call[j].dial /\ dial[call[i].dial].state \in {"open", "stale", "failed"}

MetroInv ==
    /\ MetroTypeOK
    /\ DialInv
    /\ SessionInv
    /\ CallInv
    /\ QuietInv

-----------------------------------------------------------------------------
(* What the operators on the records do.                                   *)

MetroRecords ==
    [gen : Nat, cgen : Nat, connecting : Inspections \cup {Nothing},
     session : Inspections \cup {Nothing}, selected : Targets \cup {Nothing},
     device : Devices \cup {Nothing}, app : Apps \cup {Nothing},
     negative : Devices \cup {Nothing},
     reported : {"none", "unavailable", "failed", "no-root"}]

DialStates == {"none", "resolving", "dialing", "open", "lost", "closed", "stale", "failed"}

DialRecords ==
    [state : DialStates, key : Targets \cup {Nothing}, gen : Nat, cgen : Nat]

CallRecords ==
    [pc : Waiting \cup {"idle", "answered", "undefined"}, device : Devices \cup {Nothing},
     app : Apps \cup {Nothing}, gen : Nat, dial : Inspections \cup {Nothing}, result : Boxes]

LEMMA Types ==
    MetroTypeOK <=>
        /\ metro \in MetroRecords
        /\ dial \in [Inspections -> DialRecords]
        /\ call \in [Inspections -> CallRecords]
        /\ wire \in [Inspections -> Seq({"kick", "read", "clean"})]
        /\ box \in [Inspections -> Boxes]
        /\ work \subseteq Inspections
        /\ targets \subseteq Targets
  BY DEF MetroTypeOK, MetroRecords, DialRecords, DialStates, CallRecords

\* selectMetroTarget: the target is one of the app that may stand for the device.
LEMMA SelectFacts ==
    ASSUME MetroAssumption, NEW ts \in SUBSET Targets, NEW d, NEW a, Select(ts, d, a) # Nothing
    PROVE  /\ Select(ts, d, a) \in ts
           /\ Select(ts, d, a).app = a /\ Suits(Select(ts, d, a), d)
<1> DEFINE candidates == {t \in ts : t.app = a}
           exact == {t \in candidates : t.logical = d}
           compatible == {t \in candidates : t.logical \notin Devices}
           byName == {t \in compatible : t.name = d}
<1>1. ASSUME NEW S, S # {}, Only(S) # Nothing
      PROVE  Only(S) \in S
  BY <1>1 DEF Only
<1>2. \A t \in compatible : t \in ts /\ t.app = a /\ Suits(t, d)
  BY DEF MetroAssumption, Suits
<1>3. \A t \in exact : t \in ts /\ t.app = a /\ Suits(t, d)
  BY DEF Suits
<1>4. byName \subseteq compatible
  OBVIOUS
<1>5. \/ exact # {} /\ Select(ts, d, a) = Only(exact)
      \/ byName # {} /\ Select(ts, d, a) = Only(byName)
      \/ (\E t \in compatible : t.logical = Nothing) /\ Select(ts, d, a) = Only(compatible)
  BY DEF Select
<1> HIDE DEF candidates, exact, compatible, byName
<1>6. \E S : S # {} /\ Select(ts, d, a) = Only(S) /\ \A t \in S : t \in ts /\ t.app = a /\ Suits(t, d)
  BY <1>2, <1>3, <1>4, <1>5
<1> QED
  BY <1>1, <1>6

\* #disconnectSession: nothing is held, and awaited connections are not current.
LEMMA DisconnectedFacts ==
    ASSUME NEW m \in MetroRecords
    PROVE  /\ Disconnected(m) \in MetroRecords
           /\ Disconnected(m).cgen = m.cgen + 1
           /\ Disconnected(m).connecting = Nothing /\ Disconnected(m).session = Nothing
           /\ Disconnected(m).selected = Nothing /\ Disconnected(m).device = Nothing
           /\ Disconnected(m).gen = m.gen
<1>1. ASSUME NEW n \in Nat
      PROVE  LET q == [m EXCEPT !.cgen = n, !.connecting = Nothing, !.session = Nothing,
                                !.selected = Nothing, !.device = Nothing] IN
             /\ q \in MetroRecords /\ q.cgen = n /\ q.gen = m.gen
             /\ q.connecting = Nothing /\ q.session = Nothing
             /\ q.selected = Nothing /\ q.device = Nothing
  BY DEF MetroRecords
<1>2. m.cgen + 1 \in Nat
  BY DEF MetroRecords
<1> QED
  BY <1>1, <1>2 DEF Disconnected

\* close(): as #disconnectSession.
LEMMA ClosedFacts ==
    ASSUME NEW m \in MetroRecords
    PROVE  /\ Closed(m) \in MetroRecords
           /\ Closed(m).cgen = m.cgen + 1
           /\ Closed(m).connecting = Nothing /\ Closed(m).session = Nothing
           /\ Closed(m).selected = Nothing /\ Closed(m).device = Nothing
<1> DEFINE c == Disconnected(m)
           g == c.gen + 1
<1>1. c \in MetroRecords /\ g \in Nat
  BY DisconnectedFacts DEF MetroRecords
<1>2. Closed(m) = [c EXCEPT !.gen = g, !.negative = Nothing, !.reported = "none"]
  BY DEF Closed
<1> HIDE DEF c, g
<1>3. /\ Closed(m) \in MetroRecords /\ Closed(m).cgen = c.cgen
      /\ Closed(m).connecting = c.connecting /\ Closed(m).session = c.session
      /\ Closed(m).selected = c.selected /\ Closed(m).device = c.device
  BY <1>1, <1>2 DEF MetroRecords
<1>4. c.cgen = m.cgen + 1 /\ c.connecting = Nothing /\ c.session = Nothing
      /\ c.selected = Nothing /\ c.device = Nothing
  BY DisconnectedFacts DEF c
<1> QED
  BY <1>3, <1>4

\* The connection that is held is closed, and no other.
LEMMA HungFacts ==
    ASSUME MetroAssumption, MetroTypeOK, SessionInv, NEW m, m.session = metro.session
    PROVE  /\ Hung(m) \in [Inspections -> DialRecords]
           /\ \A k \in Inspections :
                 /\ Hung(m)[k].key = dial[k].key /\ Hung(m)[k].cgen = dial[k].cgen
                 /\ Hung(m)[k].gen = dial[k].gen
                 /\ Hung(m)[k].state # "open"
                 /\ dial[k].state # "open" => Hung(m)[k] = dial[k]
                 /\ dial[k].state = "open" => Hung(m)[k].state = "closed"
<1>1. metro \in MetroRecords /\ dial \in [Inspections -> DialRecords]
  BY Types
<1>2. metro.session \in Inspections \cup {Nothing}
  BY <1>1 DEF MetroRecords
<1>3. CASE Connected(m)
  <2>1. metro.session \in Inspections
    BY <1>2, <1>3 DEF Connected
  <2>2. Hung(m) = [dial EXCEPT ![metro.session].state = "closed"]
    BY <1>3 DEF Hung
  <2>3. \A r \in DialRecords :
           LET q == [r EXCEPT !.state = "closed"] IN
           q \in DialRecords /\ q.state = "closed" /\ q.key = r.key /\ q.gen = r.gen /\ q.cgen = r.cgen
    BY DEF DialRecords, DialStates
  <2>4. \A k \in Inspections : dial[k].state = "open" => k = metro.session
    BY DEF SessionInv, NoDebuggerForgotten
  <2> QED
    BY <1>1, <1>3, <2>1, <2>2, <2>3, <2>4 DEF Connected
<1>4. CASE ~Connected(m)
  <2>1. Hung(m) = dial
    BY <1>4 DEF Hung
  <2>2. \A k \in Inspections : dial[k].state # "open"
    BY <1>4 DEF SessionInv, NoDebuggerForgotten, Connected, MetroAssumption
  <2> QED
    BY <1>1, <2>1, <2>2
<1> QED
  BY <1>3, <1>4

-----------------------------------------------------------------------------
(* What keeps each part of the invariant.                                  *)

\* Connections that are opened stay to the targets they are to.
Keyed ==
    \A k \in Inspections : dial[k].state # "none" =>
        dial'[k].state # "none" /\ dial'[k].key = dial[k].key

\* Every other inspection is left where it was.
Others(i) == \A k \in Inspections \ {i} : call'[k] = call[k]

\* No inspection goes back to where it has no connection.
Onward == \A k \in Inspections : call'[k].pc \in Undialed => call[k].pc \in Undialed

\* The inspector holds the connection it held.
Holding ==
    /\ metro'.cgen = metro.cgen /\ metro'.connecting = metro.connecting
    /\ metro'.session = metro.session /\ metro'.selected = metro.selected

\* A state of one connection is set.
LEMMA StateFacts ==
    ASSUME MetroTypeOK, NEW i \in Inspections, NEW s \in DialStates,
           dial' = [dial EXCEPT ![i].state = s]
    PROVE  /\ dial' \in [Inspections -> DialRecords]
           /\ \A k \in Inspections : dial'[k].key = dial[k].key /\ dial'[k].cgen = dial[k].cgen
           /\ \A k \in Inspections \ {i} : dial'[k] = dial[k]
           /\ dial'[i].state = s
<1>1. dial \in [Inspections -> DialRecords]
  BY Types
<1>2. \A r \in DialRecords :
        LET q == [r EXCEPT !.state = s] IN
        q \in DialRecords /\ q.key = r.key /\ q.cgen = r.cgen /\ q.state = s
  BY DEF DialRecords
<1> QED
  BY <1>1, <1>2

\* An inspection goes on.
LEMMA RestFacts ==
    ASSUME MetroTypeOK, NEW i \in Inspections, NEW goal \in Waiting \cup {"idle", "answered", "undefined"},
           Rest(i, goal)
    PROVE  /\ call' \in [Inspections -> CallRecords] /\ Others(i)
           /\ call'[i].pc = goal /\ call'[i].dial = call[i].dial /\ call'[i].result = call[i].result
           /\ call'[i].device = call[i].device /\ call'[i].app = call[i].app
<1>1. call \in [Inspections -> CallRecords]
  BY Types
<1>2. \A r \in CallRecords :
        LET q == [r EXCEPT !.pc = goal] IN
        /\ q \in CallRecords /\ q.pc = goal /\ q.dial = r.dial /\ q.result = r.result
        /\ q.device = r.device /\ q.app = r.app
  BY DEF CallRecords
<1> QED
  BY <1>1, <1>2 DEF Rest, Others

\* inspect() returns undefined.
LEMMA GivesFacts ==
    ASSUME MetroTypeOK, NEW i \in Inspections, Gives(i)
    PROVE  call' \in [Inspections -> CallRecords] /\ Others(i) /\ call'[i].pc = "undefined"
<1>1. call \in [Inspections -> CallRecords]
  BY Types
<1>2. \A r \in CallRecords :
        LET q == [r EXCEPT !.pc = "undefined", !.device = Nothing, !.app = Nothing,
                           !.gen = 0, !.result = "none"] IN
        q \in CallRecords /\ q.pc = "undefined"
  BY DEF CallRecords, Boxes
<1> QED
  BY <1>1, <1>2 DEF Gives, Others

\* Notes of the inspector that do not concern its connection.
LEMMA HoldingKeeps ==
    ASSUME MetroTypeOK, DialInv, SessionInv, Holding, Onward, dial' = dial,
           metro'.device = metro.device
    PROVE  DialInv' /\ SessionInv'
  BY DEF DialInv, SessionInv, NoDebuggerForgotten, Holding, Onward

\* The connection that is held is dropped.
LEMMA DroppingKeeps ==
    ASSUME MetroAssumption, MetroTypeOK, DialInv, SessionInv, Onward, dial' = Hung(metro),
           metro'.cgen = metro.cgen + 1, metro'.connecting = Nothing,
           metro'.session = Nothing, metro'.device = Nothing
    PROVE  /\ DialInv' /\ SessionInv' /\ Keyed
           /\ dial' \in [Inspections -> DialRecords]
           /\ \A k \in Inspections :
                 /\ Settled(k)' <=> Settled(k)
                 /\ dial'[k].state # dial[k].state => dial[k].state = "open"
<1>1. /\ dial' \in [Inspections -> DialRecords]
      /\ \A k \in Inspections :
           /\ dial'[k].key = dial[k].key /\ dial'[k].cgen = dial[k].cgen
           /\ dial'[k].state # "open"
           /\ dial[k].state # "open" => dial'[k] = dial[k]
           /\ dial[k].state = "open" => dial'[k].state = "closed"
  BY HungFacts
<1>2. metro.cgen \in Nat /\ \A k \in Inspections : dial[k].cgen \in Nat
  BY Types DEF MetroRecords, DialRecords
<1>3. \A k \in Inspections : dial'[k].state = "none" <=> dial[k].state = "none"
  BY <1>1
<1>4. DialInv'
  BY <1>1, <1>2, <1>3 DEF DialInv, Onward
<1>5. SessionInv'
  BY <1>1 DEF SessionInv, NoDebuggerForgotten
<1>6. Keyed
  BY <1>1 DEF Keyed
<1>7. \A k \in Inspections :
         /\ Settled(k)' <=> Settled(k)
         /\ dial'[k].state # dial[k].state => dial[k].state = "open"
  BY <1>1 DEF Settled
<1> QED
  BY <1>1, <1>4, <1>5, <1>6, <1>7

\* What an inspection is bound to stays.
BoundOK(k) ==
    /\ call[k].pc \in Bound =>
          /\ call[k].dial \in Inspections /\ dial[call[k].dial].state # "none"
          /\ dial[call[k].dial].key.app = call[k].app
          /\ Suits(dial[call[k].dial].key, call[k].device)
    /\ call[k].pc = "cleaning" => call[k].result \in {"tree", "empty", "error"}

LEMMA OthersStayBound ==
    ASSUME CallInv, Keyed, NEW k \in Inspections, call'[k] = call[k]
    PROVE  BoundOK(k)'
  BY DEF CallInv, Keyed, BoundOK, Suits

\* An inspection stays where it was, or goes on without waiting for a connection.
Moves ==
    \A k \in Inspections :
        \/ call'[k] = call[k]
        \/ /\ call'[k].pc # "connecting"
           /\ call'[k].pc \in Undialed => call[k].pc \in Undialed
           /\ BoundOK(k)'

\* Nobody waits for a settled connection after a step that settles none.
LEMMA QuietKeeps ==
    ASSUME CallInv, Quiet, Moves, \A k \in Inspections : Settled(k)' <=> Settled(k)
    PROVE  QuietInv'
<1>1. ASSUME NEW k \in Inspections, call'[k].pc = "connecting"
      PROVE  dial'[call'[k].dial].state \notin Ends
  <2>1. call'[k] = call[k]
    BY <1>1 DEF Moves
  <2>2. call[k].dial \in Inspections
    BY <1>1, <2>1 DEF CallInv, Bound
  <2>3. dial[call[k].dial].state \notin Ends
    BY <1>1, <2>1 DEF Quiet, Settled, Ends
  <2>4. dial'[call[k].dial].state \notin Ends
    BY <2>2, <2>3 DEF Settled, Ends
  <2> QED
    BY <2>1, <2>4
<1> QED
  BY <1>1 DEF QuietInv, Settled, Ends

LEMMA MovesKeepBound ==
    ASSUME CallInv, Keyed, Moves
    PROVE  CallInv' /\ Onward
<1>1. \A k \in Inspections : BoundOK(k)'
  BY OthersStayBound DEF Moves
<1>2. CallInv'
  BY <1>1 DEF CallInv, BoundOK
<1>3. Onward
  BY DEF Moves, Onward
<1> QED
  BY <1>2, <1>3

\* A step that leaves the connections as they are keeps the invariant.
LEMMA CalmKeeps ==
    ASSUME MetroAssumption, MetroInv, MetroTypeOK', Quiet, Moves,
           Holding, metro'.device = metro.device, dial' = dial
    PROVE  MetroInv'
<1>1. Keyed
  BY DEF Keyed
<1>2. CallInv' /\ Onward
  BY <1>1, MovesKeepBound DEF MetroInv
<1>3. DialInv' /\ SessionInv'
  BY <1>2, HoldingKeeps DEF MetroInv
<1>4. \A k \in Inspections : Settled(k)' <=> Settled(k)
  BY DEF Settled
<1>5. QuietInv'
  BY <1>4, QuietKeeps DEF MetroInv
<1> QED
  BY <1>2, <1>3, <1>5 DEF MetroInv

\* A step that drops the connection that is held keeps the invariant.
LEMMA DropKeeps ==
    ASSUME MetroAssumption, MetroInv, Quiet, Moves, dial' = Hung(metro),
           metro'.cgen = metro.cgen + 1, metro'.connecting = Nothing,
           metro'.session = Nothing, metro'.device = Nothing
    PROVE  /\ dial' \in [Inspections -> DialRecords]
           /\ MetroTypeOK' => MetroInv'
<1>1. Onward
  BY DEF Moves, Onward
<1>2. /\ DialInv' /\ SessionInv' /\ Keyed
      /\ dial' \in [Inspections -> DialRecords]
      /\ \A k \in Inspections : Settled(k)' <=> Settled(k)
  BY <1>1, DroppingKeeps DEF MetroInv
<1>3. CallInv'
  BY <1>2, MovesKeepBound DEF MetroInv
<1>4. QuietInv'
  BY <1>2, QuietKeeps DEF MetroInv
<1> QED
  BY <1>2, <1>3, <1>4 DEF MetroInv

-----------------------------------------------------------------------------
(* The steps.                                                              *)

\* inspect() is called.
LEMMA InspectStep ==
    ASSUME MetroAssumption, MetroInv, NEW i \in Inspections, NEW d \in Devices, NEW a \in Apps,
           Inspect(i, d, a)
    PROVE  MetroInv'
<1> DEFINE other == a # metro.app
           m0 == IF other THEN [Closed(metro) EXCEPT !.app = a] ELSE metro
           m == IF m0.negative # d THEN [m0 EXCEPT !.negative = Nothing] ELSE m0
           usable == Connected(m) /\ m.device = d /\ m.selected.app = a
           Begun(goal, x) == [call[i] EXCEPT !.pc = goal, !.device = d, !.app = a, !.gen = m.gen, !.dial = x]
<1>1. /\ MetroTypeOK /\ metro \in MetroRecords /\ dial \in [Inspections -> DialRecords]
      /\ call \in [Inspections -> CallRecords]
      /\ wire \in [Inspections -> Seq({"kick", "read", "clean"})]
      /\ call[i].pc = "idle" /\ Quiet
      /\ UNCHANGED <<box, work, targets, changes, closes>>
  BY Types DEF Inspect, MetroInv
<1>2. /\ m0 \in MetroRecords
      /\ other => /\ m0.session = Nothing /\ m0.connecting = Nothing /\ m0.device = Nothing
                  /\ m0.cgen = metro.cgen + 1 /\ m0.negative = Nothing
      /\ ~other => m0 = metro
  <2>1. \A r \in MetroRecords :
          LET q == [r EXCEPT !.app = a] IN
          /\ q \in MetroRecords /\ q.session = r.session /\ q.connecting = r.connecting
          /\ q.device = r.device /\ q.cgen = r.cgen /\ q.negative = r.negative
    BY DEF MetroRecords
  <2>2. Closed(metro).negative = Nothing
    BY <1>1, DisconnectedFacts DEF Closed, MetroRecords
  <2> QED
    BY <1>1, <2>1, <2>2, ClosedFacts
<1>3. /\ m \in MetroRecords
      /\ m.session = m0.session /\ m.connecting = m0.connecting /\ m.device = m0.device
      /\ m.cgen = m0.cgen /\ m.selected = m0.selected /\ m.gen = m0.gen
      /\ m.negative = d => m0.negative = d
  <2>1. \A r \in MetroRecords :
          LET q == [r EXCEPT !.negative = Nothing] IN
          /\ q \in MetroRecords /\ q.session = r.session /\ q.connecting = r.connecting
          /\ q.device = r.device /\ q.cgen = r.cgen /\ q.selected = r.selected /\ q.gen = r.gen
          /\ q.negative = Nothing
    BY DEF MetroRecords
  <2>2. d # Nothing
    BY DEF MetroAssumption
  <2> QED
    BY <1>2, <2>1, <2>2
<1>4. ASSUME NEW goal \in Waiting, NEW x \in Inspections \cup {Nothing}
      PROVE  /\ Begun(goal, x) \in CallRecords
             /\ Begun(goal, x).pc = goal /\ Begun(goal, x).dial = x
             /\ Begun(goal, x).device = d /\ Begun(goal, x).app = a
  <2>1. m.gen \in Nat
    BY <1>3 DEF MetroRecords
  <2> QED
    BY <1>1, <2>1 DEF CallRecords
<1>5. /\ \/ /\ usable
            /\ call' = [call EXCEPT ![i] = Begun("starting", m.session)]
            /\ Evaluate(i, m)
            /\ UNCHANGED dial
         \/ /\ m.negative = d
            /\ call' = [call EXCEPT ![i].pc = "undefined"]
            /\ metro' = [m EXCEPT !.reported = "unavailable"]
            /\ UNCHANGED <<dial, wire>>
         \/ /\ call' = [call EXCEPT ![i] = Begun("scanning", Nothing)]
            /\ metro' = m
            /\ dial' = IF other THEN Hung(metro) ELSE dial
            /\ UNCHANGED wire
  BY DEF Inspect
<1> HIDE DEF m0, m, usable, Begun, other
<1>6. CASE /\ usable
           /\ call' = [call EXCEPT ![i] = Begun("starting", m.session)]
           /\ Evaluate(i, m)
           /\ UNCHANGED dial
  <2>1. /\ m.session # Nothing /\ m.session \in Inspections /\ m.device = d /\ m.selected.app = a
    BY <1>3, <1>6 DEF usable, Connected, MetroRecords
  <2>2. ~other /\ m.session = metro.session /\ m.selected = metro.selected /\ metro.device = d
        /\ m.cgen = metro.cgen /\ m.connecting = metro.connecting
    BY <1>2, <1>3, <2>1
  <2>3. "starting" \in Waiting
    BY DEF Waiting
  <2>4. /\ call' \in [Inspections -> CallRecords] /\ Others(i)
        /\ call'[i].pc = "starting" /\ call'[i].dial = metro.session
        /\ call'[i].device = d /\ call'[i].app = a
    BY <1>1, <1>4, <1>6, <2>1, <2>2, <2>3 DEF Others
  <2>5. metro' \in MetroRecords /\ Holding /\ metro'.device = metro.device
    BY <1>3, <1>6, <2>2, <2>4 DEF Evaluate, MetroRecords, Holding
  <2>6. wire' \in [Inspections -> Seq({"kick", "read", "clean"})]
    BY <1>1, <1>6 DEF Evaluate
  <2>7. MetroTypeOK'
    BY <1>1, <1>6, <2>4, <2>5, <2>6 DEF MetroTypeOK, MetroRecords, CallRecords
  <2>8. /\ dial[metro.session].state # "none" /\ dial[metro.session].key.app = a
        /\ Suits(dial[metro.session].key, d)
    BY <2>1, <2>2 DEF MetroInv, SessionInv, MetroAssumption
  <2>9. BoundOK(i)'
    BY <1>6, <2>1, <2>2, <2>4, <2>8 DEF BoundOK, Suits
  <2>10. Moves
    BY <1>1, <2>4, <2>9 DEF Moves, Others, Undialed
  <2> QED
    BY <1>1, <1>6, <2>5, <2>7, <2>10, CalmKeeps
<1>7. CASE /\ m.negative = d
           /\ call' = [call EXCEPT ![i].pc = "undefined"]
           /\ metro' = [m EXCEPT !.reported = "unavailable"]
           /\ UNCHANGED <<dial, wire>>
  <2>1. ~other /\ m0 = metro
    BY <1>2, <1>3, <1>7 DEF MetroAssumption
  <2>2. metro' \in MetroRecords /\ Holding /\ metro'.device = metro.device
    BY <1>3, <1>7, <2>1 DEF MetroRecords, Holding
  <2>3. call' \in [Inspections -> CallRecords] /\ Others(i) /\ call'[i].pc = "undefined"
    BY <1>1, <1>7, RestFacts DEF Rest
  <2>4. MetroTypeOK'
    BY <1>1, <1>7, <2>2, <2>3 DEF MetroTypeOK, MetroRecords, CallRecords
  <2>5. Moves
    BY <2>3 DEF Moves, Others, BoundOK, Bound, Undialed
  <2> QED
    BY <1>1, <1>7, <2>2, <2>4, <2>5, CalmKeeps
<1>8. CASE /\ call' = [call EXCEPT ![i] = Begun("scanning", Nothing)]
           /\ metro' = m
           /\ dial' = IF other THEN Hung(metro) ELSE dial
           /\ UNCHANGED wire
  <2>1. "scanning" \in Waiting
    BY DEF Waiting
  <2>2. call' \in [Inspections -> CallRecords] /\ Others(i) /\ call'[i].pc = "scanning"
    BY <1>1, <1>4, <1>8, <2>1 DEF Others
  <2>3. Moves
    BY <1>1, <2>2 DEF Moves, Others, BoundOK, Bound, Undialed
  <2>4. CASE other
    <3>1. /\ dial' = Hung(metro) /\ metro'.cgen = metro.cgen + 1 /\ metro'.connecting = Nothing
          /\ metro'.session = Nothing /\ metro'.device = Nothing
      BY <1>2, <1>3, <1>8, <2>4
    <3>2. dial' \in [Inspections -> DialRecords] /\ (MetroTypeOK' => MetroInv')
      BY <1>1, <2>3, <3>1, DropKeeps
    <3>3. MetroTypeOK'
      BY <1>1, <1>3, <1>8, <2>2, <3>2
         DEF MetroTypeOK, MetroRecords, DialRecords, DialStates, CallRecords
    <3> QED
      BY <3>2, <3>3
  <2>5. CASE ~other
    <3>1. Holding /\ metro'.device = metro.device /\ dial' = dial
      BY <1>2, <1>3, <1>8, <2>5 DEF Holding
    <3>2. MetroTypeOK'
      BY <1>1, <1>3, <1>8, <2>2, <3>1 DEF MetroTypeOK, MetroRecords, CallRecords
    <3> QED
      BY <1>1, <2>3, <3>1, <3>2, CalmKeeps
  <2> QED
    BY <2>4, <2>5
<1> QED
  BY <1>5, <1>6, <1>7, <1>8

\* An inspection that finds nothing gives up, and so does one that is superseded.
LEMMA GivingKeeps ==
    ASSUME MetroAssumption, MetroInv, NEW i \in Inspections, Quiet, Gives(i), UNCHANGED <<dial, wire>>,
           metro' = metro \/ \E d \in Devices \cup {Nothing},
                                r \in {"none", "unavailable", "failed", "no-root"} :
                                metro' = [metro EXCEPT !.negative = d, !.reported = r],
           UNCHANGED <<box, work, targets, changes, closes>>
    PROVE  MetroInv'
<1>1. metro \in MetroRecords
  BY Types DEF MetroInv
<1>2. metro' \in MetroRecords /\ Holding /\ metro'.device = metro.device
  <2>1. CASE metro' = metro
    BY <1>1, <2>1 DEF Holding
  <2>2. ASSUME NEW d \in Devices \cup {Nothing},
               NEW r \in {"none", "unavailable", "failed", "no-root"},
               metro' = [metro EXCEPT !.negative = d, !.reported = r]
        PROVE  metro' \in MetroRecords /\ Holding /\ metro'.device = metro.device
    BY <1>1, <2>2 DEF MetroRecords, Holding
  <2> QED
    BY <2>1, <2>2
<1>3. call' \in [Inspections -> CallRecords] /\ Others(i) /\ call'[i].pc = "undefined"
  BY GivesFacts DEF MetroInv
<1>4. MetroTypeOK'
  BY <1>2, <1>3 DEF MetroInv, MetroTypeOK, MetroRecords, CallRecords
<1>5. Moves
  BY <1>3 DEF Moves, Others, BoundOK, Bound, Undialed
<1> QED
  BY <1>2, <1>4, <1>5, CalmKeeps

\* #connect is called with the target that was selected.
LEMMA ConnectStep ==
    ASSUME MetroAssumption, MetroInv, NEW i \in Inspections, NEW t \in Targets, Quiet,
           call[i].pc = "scanning", t.app = call[i].app, Suits(t, call[i].device),
           Connect(i, t, metro), UNCHANGED <<box, work, targets, changes, closes>>
    PROVE  MetroInv'
<1>1. /\ MetroTypeOK /\ metro \in MetroRecords /\ dial \in [Inspections -> DialRecords]
      /\ call \in [Inspections -> CallRecords]
      /\ wire \in [Inspections -> Seq({"kick", "read", "clean"})]
  BY Types DEF MetroInv
<1>2. metro.session \in Inspections \cup {Nothing} /\ metro.connecting \in Inspections \cup {Nothing}
  BY <1>1 DEF MetroRecords
<1>3. dial[i].state = "none"
  BY DEF MetroInv, DialInv, Undialed
<1>4. ASSUME NEW goal \in Waiting, NEW x \in Inspections,
             call' = [call EXCEPT ![i].pc = goal, ![i].dial = x]
      PROVE  /\ call' \in [Inspections -> CallRecords] /\ Others(i)
             /\ call'[i].pc = goal /\ call'[i].dial = x
             /\ call'[i].device = call[i].device /\ call'[i].app = call[i].app
  <2>1. \A r \in CallRecords :
          LET q == [[r EXCEPT !.pc = goal] EXCEPT !.dial = x] IN
          /\ q \in CallRecords /\ q.pc = goal /\ q.dial = x /\ q.device = r.device /\ q.app = r.app
    BY DEF CallRecords
  <2>2. call' = [call EXCEPT ![i] = [[call[i] EXCEPT !.pc = goal] EXCEPT !.dial = x]]
    BY <1>1, <1>4
  <2> QED
    BY <1>1, <2>1, <2>2 DEF Others
<1>5. "starting" \in Waiting /\ "connecting" \in Waiting
  BY DEF Waiting
<1>6. CASE /\ Connected(metro) /\ metro.selected = t
           /\ call' = [call EXCEPT ![i].pc = "starting", ![i].dial = metro.session]
           /\ Evaluate(i, metro)
           /\ UNCHANGED dial
  <2>1. metro.session \in Inspections /\ dial[metro.session].key = t
        /\ dial[metro.session].state = "open"
    BY <1>2, <1>6 DEF Connected, MetroInv, SessionInv
  <2>2. /\ call' \in [Inspections -> CallRecords] /\ Others(i)
        /\ call'[i].pc = "starting" /\ call'[i].dial = metro.session
        /\ call'[i].device = call[i].device /\ call'[i].app = call[i].app
    BY <1>4, <1>5, <1>6, <2>1
  <2>3. metro' = [metro EXCEPT !.device = call[i].device]
        /\ wire' \in [Inspections -> Seq({"kick", "read", "clean"})]
    BY <1>1, <1>6, <2>2 DEF Evaluate
  <2>4. call[i].device \in Devices \cup {Nothing}
    BY <1>1 DEF CallRecords
  <2>5. metro' \in MetroRecords /\ Holding /\ metro'.device = call[i].device
    BY <1>1, <2>3, <2>4 DEF MetroRecords, Holding
  <2>6. MetroTypeOK'
    BY <1>1, <1>6, <2>2, <2>3, <2>5 DEF MetroTypeOK, MetroRecords, CallRecords
  <2>7. BoundOK(i)'
    BY <1>6, <2>1, <2>2 DEF BoundOK, Suits
  <2>8. Moves
    BY <2>2, <2>7 DEF Moves, Others, Undialed
  <2>9. Keyed
    BY <1>6 DEF Keyed
  <2>10. CallInv' /\ Onward
    BY <2>8, <2>9, MovesKeepBound DEF MetroInv
  <2>11. DialInv'
    BY <1>6, <2>5, <2>10 DEF MetroInv, DialInv, Holding, Onward
  <2>12. SessionInv'
    BY <1>6, <2>1, <2>5 DEF MetroInv, SessionInv, NoDebuggerForgotten, Holding, Suits, MetroAssumption
  <2>13. QuietInv'
    BY <1>6, <2>8, QuietKeeps DEF MetroInv, Settled
  <2> QED
    BY <2>6, <2>10, <2>11, <2>12, <2>13 DEF MetroInv
<1>7. CASE /\ metro.connecting # Nothing /\ dial[metro.connecting].key = t
           /\ call' = [call EXCEPT ![i].pc = "connecting", ![i].dial = metro.connecting]
           /\ metro' = metro
           /\ UNCHANGED <<wire, dial>>
  <2>1. metro.connecting \in Inspections /\ dial[metro.connecting].state \in Awaited
    BY <1>2, <1>7 DEF MetroInv, SessionInv
  <2>2. /\ call' \in [Inspections -> CallRecords] /\ Others(i)
        /\ call'[i].pc = "connecting" /\ call'[i].dial = metro.connecting
        /\ call'[i].device = call[i].device /\ call'[i].app = call[i].app
    BY <1>4, <1>5, <1>7, <2>1
  <2>3. MetroTypeOK'
    BY <1>1, <1>7, <2>2 DEF MetroTypeOK, MetroRecords, CallRecords
  <2>4. BoundOK(i)'
    BY <1>7, <2>1, <2>2 DEF BoundOK, Suits, Awaited
  <2>5. \A k \in Inspections : BoundOK(k)'
    <3>1. Keyed
      BY <1>7 DEF Keyed
    <3> QED
      BY <2>2, <2>4, <3>1, OthersStayBound DEF Others, MetroInv
  <2>6. CallInv'
    BY <2>5 DEF CallInv, BoundOK
  <2>7. Onward
    BY <2>2 DEF Onward, Others, Undialed
  <2>8. DialInv' /\ SessionInv'
    BY <1>7, <2>7, HoldingKeeps DEF MetroInv, Holding
  <2>9. \A k \in Inspections : call'[k].pc = "connecting" => dial'[call'[k].dial].state \notin Ends
    BY <1>7, <2>1, <2>2 DEF Quiet, Settled, Others, Awaited, Ends
  <2>10. QuietInv'
    BY <2>9 DEF QuietInv, Settled, Ends
  <2> QED
    BY <2>3, <2>6, <2>8, <2>10 DEF MetroInv
<1>8. ASSUME NEW s \in {"resolving", "dialing"},
             LET n == [Disconnected(metro) EXCEPT !.negative = Nothing] IN
             /\ metro' = [n EXCEPT !.connecting = i]
             /\ dial' = [Hung(metro) EXCEPT ![i] = [state |-> s, key |-> t, gen |-> n.gen, cgen |-> n.cgen]],
             call' = [call EXCEPT ![i].pc = "connecting", ![i].dial = i],
             UNCHANGED wire
      PROVE  MetroInv'
  <2> DEFINE n == [Disconnected(metro) EXCEPT !.negative = Nothing]
             new == [state |-> s, key |-> t, gen |-> n.gen, cgen |-> n.cgen]
  <2>1. /\ n \in MetroRecords /\ n.cgen = metro.cgen + 1 /\ n.session = Nothing
        /\ n.device = Nothing /\ n.gen \in Nat /\ n.cgen \in Nat
    <3>1. \A r \in MetroRecords :
            LET q == [r EXCEPT !.negative = Nothing] IN
            /\ q \in MetroRecords /\ q.cgen = r.cgen /\ q.session = r.session /\ q.device = r.device
            /\ q.gen \in Nat /\ q.cgen \in Nat
      BY DEF MetroRecords
    <3> QED
      BY <1>1, <3>1, DisconnectedFacts
  <2>2. metro' = [n EXCEPT !.connecting = i] /\ dial' = [Hung(metro) EXCEPT ![i] = new]
    BY <1>8
  <2>3. new \in DialRecords /\ new.state = s /\ new.key = t /\ new.cgen = n.cgen
    BY <2>1 DEF DialRecords, DialStates
  <2> HIDE DEF n, new
  <2>4. /\ metro' \in MetroRecords /\ metro'.connecting = i /\ metro'.session = Nothing
        /\ metro'.device = Nothing /\ metro'.cgen = n.cgen
    BY <2>1, <2>2 DEF MetroRecords
  <2>5. /\ dial' \in [Inspections -> DialRecords] /\ dial'[i] = new
        /\ \A k \in Inspections \ {i} :
             /\ dial'[k].key = dial[k].key /\ dial'[k].cgen = dial[k].cgen
             /\ dial'[k].state # "open"
             /\ dial[k].state # "open" => dial'[k] = dial[k]
             /\ dial[k].state = "open" => dial'[k].state = "closed"
    BY <1>1, <2>2, <2>3, HungFacts DEF MetroInv
  <2>6. /\ call' \in [Inspections -> CallRecords] /\ Others(i)
        /\ call'[i].pc = "connecting" /\ call'[i].dial = i
        /\ call'[i].device = call[i].device /\ call'[i].app = call[i].app
    BY <1>4, <1>5, <1>8
  <2>7. MetroTypeOK'
    BY <1>1, <1>8, <2>4, <2>5, <2>6
       DEF MetroTypeOK, MetroRecords, DialRecords, DialStates, CallRecords
  <2>8. \A k \in Inspections \ {i} : dial'[k].state = "none" <=> dial[k].state = "none"
    BY <2>5
  <2>9. Keyed
    BY <1>3, <2>5, <2>8 DEF Keyed
  <2>10. BoundOK(i)'
    BY <2>3, <2>5, <2>6 DEF BoundOK, Suits
  <2>11. CallInv'
    <3>1. \A k \in Inspections : BoundOK(k)'
      BY <2>6, <2>9, <2>10, OthersStayBound DEF Others, MetroInv
    <3> QED
      BY <3>1 DEF CallInv, BoundOK
  <2>12. DialInv'
    <3>1. metro.cgen \in Nat /\ \A k \in Inspections : dial[k].cgen \in Nat
      BY <1>1 DEF MetroRecords, DialRecords
    <3>2. \A k \in Inspections \ {i} : dial'[k].state # "none" =>
             dial'[k].key \in Targets /\ dial'[k].cgen <= metro.cgen
      BY <2>5, <2>8 DEF MetroInv, DialInv
    <3>3. dial'[i].state # "none" /\ dial'[i].key \in Targets /\ dial'[i].cgen = metro.cgen + 1
      BY <2>1, <2>3, <2>5
    <3>4. \A k \in Inspections : dial'[k].state # "none" =>
             dial'[k].key \in Targets /\ dial'[k].cgen <= metro'.cgen
      BY <2>1, <2>4, <2>5, <3>1, <3>2, <3>3
    <3>5. \A k \in Inspections \ {i} : dial'[k].state # "none" => dial'[k].cgen # dial'[i].cgen
      BY <2>5, <3>1, <3>2, <3>3
    <3>6. \A j, k \in Inspections :
            dial'[j].state # "none" /\ dial'[k].state # "none" /\ dial'[j].cgen = dial'[k].cgen => j = k
      BY <2>5, <2>8, <3>5 DEF MetroInv, DialInv
    <3>7. \A k \in Inspections : call'[k].pc \in Undialed => dial'[k].state = "none"
      BY <2>6, <2>8 DEF MetroInv, DialInv, Others, Undialed
    <3> QED
      BY <3>4, <3>6, <3>7 DEF DialInv
  <2>13. SessionInv'
    BY <2>3, <2>4, <2>5 DEF SessionInv, NoDebuggerForgotten, Awaited, MetroAssumption
  <2>14. \A k \in Inspections : call'[k].pc = "connecting" => dial'[call'[k].dial].state \notin Ends
    <3>1. ASSUME NEW k \in Inspections \ {i}, call'[k].pc = "connecting"
          PROVE  dial'[call'[k].dial].state \notin Ends
      <4>1. call'[k] = call[k] /\ call[k].dial \in Inspections /\ dial[call[k].dial].state # "none"
        BY <2>6, <3>1 DEF Others, MetroInv, CallInv, Bound
      <4>2. dial[call[k].dial].state \notin Ends /\ call[k].dial # i
        BY <1>3, <3>1, <4>1 DEF Quiet, Settled, Ends
      <4> QED
        BY <2>5, <4>1, <4>2 DEF Ends
    <3>2. dial'[call'[i].dial].state \notin Ends
      BY <2>3, <2>5, <2>6 DEF Ends
    <3> QED
      BY <3>1, <3>2
  <2>15. QuietInv'
    BY <2>14 DEF QuietInv, Settled, Ends
  <2> QED
    BY <2>7, <2>11, <2>12, <2>13, <2>15 DEF MetroInv
<1> QED
  BY <1>6, <1>7, <1>8 DEF Connect

\* The ports have been scanned.
LEMMA ScannedStep ==
    ASSUME MetroAssumption, MetroInv, NEW i \in Inspections, Scanned(i) \/ Classified(i)
    PROVE  MetroInv'
<1>1. /\ call \in [Inspections -> CallRecords] /\ targets \in SUBSET Targets /\ MetroTypeOK
      /\ metro \in MetroRecords
  BY Types DEF MetroInv
<1>2. Quiet /\ call[i].pc \in {"scanning", "statusing"}
      /\ UNCHANGED <<box, work, targets, changes, closes>>
  BY DEF Scanned, Classified
<1>3. CASE Gives(i) /\ UNCHANGED <<metro, dial, wire>>
  BY <1>2, <1>3, GivingKeeps
<1>4. CASE Unavailable(i)
  <2>1. metro' = [metro EXCEPT !.negative = call[i].device, !.reported = "unavailable"]
        /\ call[i].device \in Devices \cup {Nothing}
    BY <1>1, <1>4 DEF Unavailable, CallRecords
  <2> QED
    BY <1>2, <1>4, <2>1, GivingKeeps DEF Unavailable
<1>5. CASE Rest(i, "statusing") /\ UNCHANGED <<metro, dial, wire>>
  <2>1. "statusing" \in Waiting
    BY DEF Waiting
  <2>2. call' \in [Inspections -> CallRecords] /\ Others(i) /\ call'[i].pc = "statusing"
    BY <1>1, <1>5, <2>1, RestFacts
  <2>3. MetroTypeOK'
    BY <1>1, <1>2, <1>5, <2>2 DEF MetroTypeOK, CallRecords
  <2>4. Moves
    BY <1>2, <2>2 DEF Moves, Others, BoundOK, Bound, Undialed
  <2> QED
    BY <1>2, <1>5, <2>3, <2>4, CalmKeeps DEF Holding
<1>6. ASSUME NEW t, t = Select(targets, call[i].device, call[i].app), t # Nothing,
             call[i].pc = "scanning", Connect(i, t, metro)
      PROVE  MetroInv'
  <2>1. t \in Targets /\ t.app = call[i].app /\ Suits(t, call[i].device)
    BY <1>1, <1>6, SelectFacts
  <2> QED
    BY <1>2, <1>6, <2>1, ConnectStep
<1> QED
  BY <1>3, <1>4, <1>5, <1>6 DEF Scanned, Classified

-----------------------------------------------------------------------------
(* #connect after its awaits.                                              *)

\* An awaited connection that is not of the inspector any more, or fails.
LEMMA SettleStep ==
    ASSUME MetroAssumption, MetroInv, NEW i \in Inspections, NEW s \in {"stale", "failed"}, Quiet,
           dial[i].state \in Awaited, Settle(i, s),
           UNCHANGED <<call, wire, box, work, targets, changes, closes>>
    PROVE  MetroInv'
<1>1. MetroTypeOK /\ metro \in MetroRecords
  BY Types DEF MetroInv
<1>2. /\ dial' \in [Inspections -> DialRecords]
      /\ \A k \in Inspections : dial'[k].key = dial[k].key /\ dial'[k].cgen = dial[k].cgen
      /\ \A k \in Inspections \ {i} : dial'[k] = dial[k]
      /\ dial'[i].state = s
  <2>1. s \in DialStates
    BY DEF DialStates
  <2> QED
    BY <1>1, <2>1, StateFacts DEF Settle
<1>3. /\ metro' \in MetroRecords /\ metro'.session = metro.session /\ metro'.cgen = metro.cgen
      /\ metro'.selected = metro.selected /\ metro'.device = metro.device
      /\ metro'.connecting \in {Nothing, metro.connecting} /\ metro'.connecting # i
  BY <1>1 DEF Settle, MetroRecords, MetroAssumption
<1>4. MetroTypeOK'
  BY <1>2, <1>3 DEF MetroInv, MetroTypeOK, MetroRecords, DialRecords, DialStates
<1>5. DialInv'
  BY <1>2, <1>3 DEF MetroInv, DialInv, Awaited, Undialed
<1>6. SessionInv'
  <2>1. metro.session # i
    BY DEF MetroInv, SessionInv, Awaited, MetroAssumption
  <2>2. metro.session \in Inspections \cup {Nothing} /\ metro.connecting \in Inspections \cup {Nothing}
    BY <1>1 DEF MetroRecords
  <2> QED
    BY <1>2, <1>3, <2>1, <2>2 DEF MetroInv, SessionInv, NoDebuggerForgotten
<1>7. CallInv'
  BY <1>2 DEF MetroInv, CallInv, Suits, Awaited
<1>8. QuietInv'
  <2>1. \A k \in Inspections : call[k].pc = "connecting" =>
           call[k].dial \in Inspections /\ dial[call[k].dial].state \notin Ends
    BY DEF MetroInv, CallInv, Bound, Quiet, Settled, Ends
  <2>2. \A k \in Inspections : call'[k].pc = "connecting" /\ dial'[call'[k].dial].state \in Ends =>
           call'[k].dial = i
    BY <1>2, <2>1
  <2> QED
    BY <1>2, <2>2 DEF QuietInv, Settled, Ends
<1> QED
  BY <1>4, <1>5, <1>6, <1>7, <1>8 DEF MetroInv

\* An awaited connection goes on, or is up and the one that is held.
LEMMA OpenedStep ==
    ASSUME MetroAssumption, MetroInv, NEW i \in Inspections, NEW s \in {"dialing", "open"}, Quiet,
           dial[i].state \in Awaited, Current(metro, i), dial' = [dial EXCEPT ![i].state = s],
           s = "dialing" => UNCHANGED metro,
           s = "open" => metro' = [metro EXCEPT !.connecting = Nothing, !.session = i,
                                                !.selected = dial[i].key],
           UNCHANGED <<call, wire, box, work, targets, changes, closes>>
    PROVE  MetroInv'
<1>1. MetroTypeOK /\ metro \in MetroRecords /\ dial[i].key \in Targets
  BY Types DEF MetroInv, DialInv, Awaited
<1>2. /\ dial' \in [Inspections -> DialRecords]
      /\ \A k \in Inspections : dial'[k].key = dial[k].key /\ dial'[k].cgen = dial[k].cgen
      /\ \A k \in Inspections \ {i} : dial'[k] = dial[k]
      /\ dial'[i].state = s
  <2>1. s \in DialStates
    BY DEF DialStates
  <2> QED
    BY <1>1, <2>1, StateFacts
<1>3. metro.session = Nothing /\ metro.device = Nothing
  <2>1. ASSUME metro.session # Nothing PROVE FALSE
    <3>1. metro.session \in Inspections
      BY <1>1, <2>1 DEF MetroRecords
    <3>2. dial[metro.session].cgen = dial[i].cgen /\ dial[metro.session].state \in {"open", "lost"}
      BY <2>1 DEF MetroInv, SessionInv, Current
    <3> QED
      BY <3>1, <3>2 DEF MetroInv, DialInv, Awaited
  <2> QED
    BY <2>1 DEF MetroInv, SessionInv
<1>4. \A k \in Inspections : dial[k].state # "open"
  BY <1>3 DEF MetroInv, SessionInv, NoDebuggerForgotten, MetroAssumption
<1>5. /\ metro' \in MetroRecords /\ metro'.cgen = metro.cgen /\ metro'.device = metro.device
      /\ s = "dialing" => metro'.session = Nothing /\ metro'.connecting = metro.connecting
      /\ s = "open" => /\ metro'.session = i /\ metro'.selected = dial[i].key
                       /\ metro'.connecting = Nothing
  BY <1>1, <1>3 DEF MetroRecords
<1>6. MetroTypeOK'
  BY <1>2, <1>5 DEF MetroInv, MetroTypeOK, MetroRecords, DialRecords, DialStates
<1>7. DialInv'
  BY <1>2, <1>5 DEF MetroInv, DialInv, Awaited, Undialed
<1>8. SessionInv'
  <2>1. metro.connecting \in Inspections \cup {Nothing}
    BY <1>1 DEF MetroRecords
  <2>2. CASE s = "dialing"
    BY <1>2, <1>3, <1>4, <1>5, <2>1, <2>2 DEF MetroInv, SessionInv, NoDebuggerForgotten, Awaited
  <2>3. CASE s = "open"
    BY <1>2, <1>3, <1>4, <1>5, <2>3 DEF SessionInv, NoDebuggerForgotten, Current
  <2> QED
    BY <2>2, <2>3
<1>9. CallInv'
  BY <1>2 DEF MetroInv, CallInv, Suits, Awaited
<1>10. QuietInv'
  <2>1. \A k \in Inspections : call[k].pc = "connecting" =>
           call[k].dial \in Inspections /\ dial[call[k].dial].state \notin Ends
    BY DEF MetroInv, CallInv, Bound, Quiet, Settled, Ends
  <2>2. \A k \in Inspections : call'[k].pc = "connecting" /\ dial'[call'[k].dial].state \in Ends =>
           call'[k].dial = i
    BY <1>2, <2>1
  <2> QED
    BY <1>2, <2>2 DEF QuietInv, Settled, Ends
<1> QED
  BY <1>6, <1>7, <1>8, <1>9, <1>10 DEF MetroInv

\* The awaits of #connect.
LEMMA DialStep ==
    ASSUME MetroAssumption, MetroInv, NEW i \in Inspections, Resolved(i) \/ Opened(i) \/ DialFails(i)
    PROVE  MetroInv'
<1>1. CASE Resolved(i)
  BY <1>1, OpenedStep, SettleStep DEF Resolved, Awaited
<1>2. CASE Opened(i)
  BY <1>2, OpenedStep, SettleStep DEF Opened, Awaited
<1>3. CASE DialFails(i)
  BY <1>3, SettleStep DEF DialFails, Awaited
<1> QED
  BY <1>1, <1>2, <1>3

\* A caller of #connect goes on: it finds the connection the inspector holds.
LEMMA ResumeStep ==
    ASSUME MetroAssumption, MetroInv, NEW i \in Inspections, Resume(i)
    PROVE  MetroInv'
<1> DEFINE x == call[i].dial
<1>1. /\ MetroTypeOK /\ metro \in MetroRecords /\ dial \in [Inspections -> DialRecords]
      /\ call \in [Inspections -> CallRecords] /\ call[i].pc = "connecting"
      /\ wire \in [Inspections -> Seq({"kick", "read", "clean"})]
      /\ UNCHANGED <<box, work, targets, changes, closes>>
  BY Types DEF MetroInv, Resume
<1>2. /\ x \in Inspections /\ dial[x].state \in {"open", "stale", "failed"}
      /\ dial[x].key.app = call[i].app /\ Suits(dial[x].key, call[i].device)
  BY <1>1 DEF Resume, MetroInv, CallInv, QuietInv, Settled, Bound
<1>3. \A k \in Inspections : call[k].pc = "connecting" =>
         call[k].dial \in Inspections /\ (dial[call[k].dial].state \in Ends => call[k].dial = x)
  BY <1>1, <1>2 DEF MetroInv, CallInv, QuietInv, Settled, Bound, Ends
<1>4. ASSUME dial' = dial, Others(i), call'[i].pc # "connecting"
      PROVE  QuietInv'
  <2>1. \A k \in Inspections : call'[k].pc = "connecting" /\ dial'[call'[k].dial].state \in Ends =>
           call'[k].dial = x
    BY <1>3, <1>4 DEF Others
  <2>2. dial'[x].state \in {"open", "stale", "failed"}
    BY <1>2, <1>4
  <2> QED
    BY <2>1, <2>2 DEF QuietInv, Settled, Ends
<1>5. CASE Gives(i) /\ UNCHANGED <<metro, dial, wire>>
  <2>1. call' \in [Inspections -> CallRecords] /\ Others(i) /\ call'[i].pc = "undefined"
    BY <1>1, <1>5, GivesFacts
  <2>2. MetroTypeOK'
    BY <1>1, <1>5, <2>1 DEF MetroTypeOK, CallRecords
  <2>3. Moves /\ Keyed
    BY <1>5, <2>1 DEF Moves, Others, BoundOK, Bound, Undialed, Keyed
  <2>4. CallInv' /\ Onward
    BY <2>3, MovesKeepBound DEF MetroInv
  <2>5. DialInv' /\ SessionInv'
    BY <1>5, <2>4, HoldingKeeps DEF MetroInv, Holding
  <2>6. QuietInv'
    BY <1>4, <1>5, <2>1
  <2> QED
    BY <2>2, <2>4, <2>5, <2>6 DEF MetroInv
<1>6. CASE /\ dial[x].state \in {"stale", "failed"} /\ Gives(i) /\ UNCHANGED wire
           /\ metro' = [Disconnected(metro) EXCEPT !.reported = "failed"]
           /\ dial' = Hung(metro)
  <2>1. call' \in [Inspections -> CallRecords] /\ Others(i) /\ call'[i].pc = "undefined"
    BY <1>1, <1>6, GivesFacts
  <2>2. /\ metro' \in MetroRecords /\ metro'.cgen = metro.cgen + 1 /\ metro'.connecting = Nothing
        /\ metro'.session = Nothing /\ metro'.device = Nothing
    <3>1. \A r \in MetroRecords :
            LET q == [r EXCEPT !.reported = "failed"] IN
            /\ q \in MetroRecords /\ q.cgen = r.cgen /\ q.connecting = r.connecting
            /\ q.session = r.session /\ q.device = r.device
      BY DEF MetroRecords
    <3> QED
      BY <1>1, <1>6, <3>1, DisconnectedFacts
  <2>3. Moves
    BY <2>1 DEF Moves, Others, BoundOK, Bound, Undialed
  <2>4. Onward
    BY <2>3 DEF Moves, Onward
  <2>5. /\ DialInv' /\ SessionInv' /\ Keyed
        /\ dial' \in [Inspections -> DialRecords]
        /\ \A k \in Inspections :
              /\ Settled(k)' <=> Settled(k)
              /\ dial'[k].state # dial[k].state => dial[k].state = "open"
    BY <1>1, <1>6, <2>2, <2>4, DroppingKeeps DEF MetroInv
  <2>6. MetroTypeOK'
    BY <1>1, <1>6, <2>1, <2>2, <2>5
       DEF MetroTypeOK, MetroRecords, DialRecords, DialStates, CallRecords
  <2>7. CallInv'
    BY <2>3, <2>5, MovesKeepBound DEF MetroInv
  <2>8. QuietInv'
    <3>1. \A k \in Inspections : dial'[k].state \in Ends <=> dial[k].state \in Ends
      BY <2>5 DEF Settled, Ends
    <3>2. \A k \in Inspections : call'[k].pc = "connecting" /\ dial'[call'[k].dial].state \in Ends =>
             call'[k].dial = x
      BY <1>3, <2>1, <3>1 DEF Others
    <3>3. dial'[x].state \in {"stale", "failed"}
      BY <1>2, <1>6, <2>5
    <3> QED
      BY <3>2, <3>3 DEF QuietInv, Settled, Ends
  <2> QED
    BY <2>5, <2>6, <2>7, <2>8 DEF MetroInv
<1>7. CASE dial[x].state = "open" /\ Rest(i, "starting") /\ Evaluate(i, metro) /\ UNCHANGED dial
  <2>1. metro.session = x
    BY <1>2, <1>7 DEF MetroInv, SessionInv, NoDebuggerForgotten
  <2>2. "starting" \in Waiting
    BY DEF Waiting
  <2>3. /\ call' \in [Inspections -> CallRecords] /\ Others(i)
        /\ call'[i].pc = "starting" /\ call'[i].dial = x
        /\ call'[i].device = call[i].device /\ call'[i].app = call[i].app
    BY <1>1, <1>7, <2>2, RestFacts
  <2>4. metro' = [metro EXCEPT !.device = call[i].device]
        /\ wire' \in [Inspections -> Seq({"kick", "read", "clean"})]
    BY <1>1, <1>7, <2>3 DEF Evaluate
  <2>5. call[i].device \in Devices \cup {Nothing}
    BY <1>1 DEF CallRecords
  <2>6. metro' \in MetroRecords /\ Holding /\ metro'.device = call[i].device
    BY <1>1, <2>4, <2>5 DEF MetroRecords, Holding
  <2>7. MetroTypeOK'
    BY <1>1, <1>7, <2>3, <2>4, <2>6 DEF MetroTypeOK, MetroRecords, CallRecords
  <2>8. BoundOK(i)'
    BY <1>2, <1>7, <2>3 DEF BoundOK, Suits
  <2>9. Moves /\ Keyed
    BY <1>7, <2>3, <2>8 DEF Moves, Others, Undialed, Keyed
  <2>10. CallInv' /\ Onward
    BY <2>9, MovesKeepBound DEF MetroInv
  <2>11. DialInv'
    BY <1>7, <2>6, <2>10 DEF MetroInv, DialInv, Holding, Onward
  <2>12. SessionInv'
    BY <1>2, <1>7, <2>1, <2>6 DEF MetroInv, SessionInv, NoDebuggerForgotten, Holding, Suits, MetroAssumption
  <2>13. QuietInv'
    BY <1>4, <1>7, <2>3
  <2> QED
    BY <2>7, <2>10, <2>11, <2>12, <2>13 DEF MetroInv
<1> QED
  BY <1>2, <1>5, <1>6, <1>7 DEF Resume, Caught

-----------------------------------------------------------------------------
(* evaluateInspection, and what happens around the inspector.              *)

\* An inspection polls on, or begins to clean up with what it has.
LEMMA PolledKeeps ==
    ASSUME MetroAssumption, MetroInv, NEW i \in Inspections, Quiet, UNCHANGED <<metro, dial>>,
           call[i].pc \in {"starting", "polling"},
           \/ call' = call
           \/ call' = [call EXCEPT ![i].pc = "polling"]
           \/ \E r \in {"tree", "empty", "error"} :
                 call' = [call EXCEPT ![i].pc = "cleaning", ![i].result = r],
           wire' \in [Inspections -> Seq({"kick", "read", "clean"})],
           box' \in [Inspections -> Boxes], work' \subseteq Inspections, UNCHANGED targets
    PROVE  MetroInv'
<1>1. MetroTypeOK /\ call \in [Inspections -> CallRecords]
  BY Types DEF MetroInv
<1>2. /\ call' \in [Inspections -> CallRecords] /\ Others(i)
      /\ call'[i].pc \in {"starting", "polling", "cleaning"}
      /\ call'[i].pc = "cleaning" => call'[i].result \in {"tree", "empty", "error"}
      /\ call'[i].dial = call[i].dial
      /\ call'[i].device = call[i].device /\ call'[i].app = call[i].app
  <2>1. CASE call' = call
    BY <1>1, <2>1 DEF Others
  <2>2. CASE call' = [call EXCEPT ![i].pc = "polling"]
    <3>1. Rest(i, "polling") /\ "polling" \in Waiting
      BY <2>2 DEF Rest, Waiting
    <3>2. /\ call' \in [Inspections -> CallRecords] /\ Others(i) /\ call'[i].pc = "polling"
          /\ call'[i].dial = call[i].dial
          /\ call'[i].device = call[i].device /\ call'[i].app = call[i].app
      BY <1>1, <3>1, RestFacts
    <3> QED
      BY <3>2
  <2>3. ASSUME NEW r \in {"tree", "empty", "error"},
               call' = [call EXCEPT ![i].pc = "cleaning", ![i].result = r]
        PROVE  /\ call' \in [Inspections -> CallRecords] /\ Others(i)
               /\ call'[i].pc = "cleaning" /\ call'[i].result = r
               /\ call'[i].dial = call[i].dial
               /\ call'[i].device = call[i].device /\ call'[i].app = call[i].app
    <3>1. \A q \in CallRecords :
            LET p == [[q EXCEPT !.pc = "cleaning"] EXCEPT !.result = r] IN
            /\ p \in CallRecords /\ p.pc = "cleaning" /\ p.result = r
            /\ p.dial = q.dial /\ p.device = q.device /\ p.app = q.app
      <4> SUFFICES ASSUME NEW q \in CallRecords
                   PROVE  LET p == [[q EXCEPT !.pc = "cleaning"] EXCEPT !.result = r] IN
                          /\ p \in CallRecords /\ p.pc = "cleaning" /\ p.result = r
                          /\ p.dial = q.dial /\ p.device = q.device /\ p.app = q.app
        OBVIOUS
      <4> DEFINE cleaning == [q EXCEPT !.pc = "cleaning"]
      <4>1. /\ cleaning \in CallRecords /\ cleaning.pc = "cleaning"
            /\ cleaning.dial = q.dial /\ cleaning.device = q.device /\ cleaning.app = q.app
        BY DEF CallRecords, Waiting
      <4> HIDE DEF cleaning
      <4>2. LET p == [cleaning EXCEPT !.result = r] IN
            /\ p \in CallRecords /\ p.pc = cleaning.pc /\ p.result = r
            /\ p.dial = cleaning.dial /\ p.device = cleaning.device /\ p.app = cleaning.app
        BY <2>3, <4>1 DEF CallRecords, Boxes
      <4> QED
        BY <4>1, <4>2 DEF cleaning
    <3>2. call' = [call EXCEPT ![i] = [[call[i] EXCEPT !.pc = "cleaning"] EXCEPT !.result = r]]
      BY <1>1, <2>3
    <3> QED
      BY <1>1, <3>1, <3>2 DEF Others
  <2> QED
    BY <2>1, <2>2, <2>3
<1>3. MetroTypeOK'
  BY <1>2 DEF MetroInv, MetroTypeOK, CallRecords
<1>4. BoundOK(i)'
  BY <1>2 DEF MetroInv, CallInv, BoundOK, Bound, Suits
<1>5. Moves
  BY <1>2, <1>4 DEF Moves, Others, Undialed
<1> QED
  BY <1>3, <1>5, CalmKeeps DEF Holding

\* The app performs an evaluation, or the inspection stops waiting for it.
LEMMA PerformStep ==
    ASSUME MetroAssumption, MetroInv, NEW i \in Inspections, Perform(i) \/ EvaluationFails(i)
    PROVE  MetroInv'
<1> DEFINE Evaluations == {"kick", "read", "clean"}
<1>1. /\ MetroTypeOK /\ wire \in [Inspections -> Seq(Evaluations)]
      /\ box \in [Inspections -> Boxes] /\ work \subseteq Inspections
  BY Types DEF MetroInv
<1>2. CASE Perform(i)
  <2>1. wire[i] \in Seq(Evaluations) /\ wire[i] # <<>>
    BY <1>1, <1>2 DEF Perform
  <2>2. Head(wire[i]) \in Evaluations /\ Tail(wire[i]) \in Seq(Evaluations)
    BY <2>1, HeadTailProperties
  <2>3. \A e \in Evaluations : Append(Tail(wire[i]), e) \in Seq(Evaluations)
    BY <2>2, AppendProperties
  <2>4. wire' \in [Inspections -> Seq(Evaluations)]
    BY <1>1, <1>2, <2>2, <2>3 DEF Perform
  <2>5. box' \in [Inspections -> Boxes] /\ work' \subseteq Inspections
    BY <1>1, <1>2, <2>2 DEF Perform, Boxes
  <2>6. box[i] \in Boxes
    BY <1>1
  <2>7. CASE call[i].pc \in {"starting", "polling"}
    <3>1. \/ call' = call
          \/ call' = [call EXCEPT ![i].pc = "polling"]
          \/ \E r \in {"tree", "empty", "error"} :
                call' = [call EXCEPT ![i].pc = "cleaning", ![i].result = r]
      BY <1>2, <2>6, <2>7 DEF Perform, Rest, Boxes
    <3> QED
      BY <1>2, <2>4, <2>5, <2>7, <3>1, PolledKeeps DEF Perform
  <2>8. CASE call[i].pc \notin {"starting", "polling"}
    <3>1. call' = call /\ Quiet /\ UNCHANGED <<metro, dial, targets>>
      BY <1>2, <2>8 DEF Perform
    <3>2. MetroTypeOK'
      BY <1>1, <2>4, <2>5, <3>1 DEF MetroTypeOK
    <3> QED
      BY <3>1, <3>2, CalmKeeps DEF Moves, Holding
  <2> QED
    BY <2>7, <2>8
<1>3. CASE EvaluationFails(i)
  <2>1. wire' \in [Inspections -> Seq(Evaluations)]
    BY <1>1, <1>3, AppendProperties DEF EvaluationFails, Cleanup
  <2>2. call' = [call EXCEPT ![i].pc = "cleaning", ![i].result = "error"]
    BY <1>3 DEF EvaluationFails, Cleanup
  <2> QED
    BY <1>1, <1>3, <2>1, <2>2, PolledKeeps DEF EvaluationFails
<1> QED
  BY <1>2, <1>3

\* The mailbox in the app is filled, or expires.
LEMMA MailboxStep ==
    ASSUME MetroAssumption, MetroInv, NEW i \in Inspections, ExpressionSettles(i) \/ MailboxExpires(i)
    PROVE  MetroInv'
<1>1. Quiet /\ UNCHANGED <<metro, dial, call, wire, targets>>
  BY DEF ExpressionSettles, MailboxExpires
<1>2. box' \in [Inspections -> Boxes] /\ work' \subseteq Inspections
  <2>1. box \in [Inspections -> Boxes] /\ work \subseteq Inspections
    BY DEF MetroInv, MetroTypeOK
  <2>2. CASE ExpressionSettles(i)
    <3>1. PICK s \in {"tree", "empty", "error"} :
            box' = [box EXCEPT ![i] = IF @ = "pending" THEN s ELSE @]
      BY <2>2 DEF ExpressionSettles
    <3>2. box' \in [Inspections -> Boxes]
      BY <2>1, <3>1 DEF Boxes
    <3> QED
      BY <2>1, <2>2, <3>2 DEF ExpressionSettles
  <2>3. CASE MailboxExpires(i)
    BY <2>1, <2>3 DEF MailboxExpires, Boxes
  <2> QED
    BY <2>2, <2>3
<1>3. MetroTypeOK'
  BY <1>1, <1>2 DEF MetroInv, MetroTypeOK
<1> QED
  BY <1>1, <1>3, CalmKeeps DEF Moves, Holding

\* The cleanup is over, and then the source locations are in.
LEMMA CleanedStep ==
    ASSUME MetroAssumption, MetroInv, NEW i \in Inspections, Cleaned(i) \/ Symbolicated(i)
    PROVE  MetroInv'
<1>1. /\ MetroTypeOK /\ metro \in MetroRecords /\ Quiet
      /\ call[i].pc \in {"cleaning", "symbolicating"}
      /\ UNCHANGED <<wire, box, work, targets, changes, closes>>
  BY Types DEF MetroInv, Cleaned, Symbolicated
<1>2. CASE /\ Gives(i) /\ UNCHANGED dial
           /\ metro' = metro \/ metro' = [metro EXCEPT !.reported = "no-root"]
  <2>1. metro.negative \in Devices \cup {Nothing}
    BY <1>1 DEF MetroRecords
  <2>2. [metro EXCEPT !.reported = "no-root"]
          = [metro EXCEPT !.negative = metro.negative, !.reported = "no-root"]
    BY <1>1 DEF MetroRecords
  <2>3. UNCHANGED <<dial, wire>> /\ UNCHANGED <<box, work, targets, changes, closes>>
    BY <1>1, <1>2
  <2>4. metro' = metro \/ \E d \in Devices \cup {Nothing},
                             r \in {"none", "unavailable", "failed", "no-root"} :
                             metro' = [metro EXCEPT !.negative = d, !.reported = r]
    BY <1>2, <2>1, <2>2
  <2> QED
    BY <1>1, <1>2, <2>3, <2>4, GivingKeeps
<1>3. CASE /\ Gives(i) /\ metro' = [Disconnected(metro) EXCEPT !.reported = "failed"]
           /\ dial' = Hung(metro)
  <2>1. call' \in [Inspections -> CallRecords] /\ Others(i) /\ call'[i].pc = "undefined"
    BY <1>1, <1>3, GivesFacts
  <2>2. /\ metro' \in MetroRecords /\ metro'.cgen = metro.cgen + 1 /\ metro'.connecting = Nothing
        /\ metro'.session = Nothing /\ metro'.device = Nothing
    <3>1. \A r \in MetroRecords :
            LET q == [r EXCEPT !.reported = "failed"] IN
            /\ q \in MetroRecords /\ q.cgen = r.cgen /\ q.connecting = r.connecting
            /\ q.session = r.session /\ q.device = r.device
      BY DEF MetroRecords
    <3> QED
      BY <1>1, <1>3, <3>1, DisconnectedFacts
  <2>3. Moves
    BY <2>1 DEF Moves, Others, BoundOK, Bound, Undialed
  <2>4. dial' \in [Inspections -> DialRecords] /\ (MetroTypeOK' => MetroInv')
    BY <1>1, <1>3, <2>2, <2>3, DropKeeps
  <2>5. MetroTypeOK'
    BY <1>1, <2>1, <2>2, <2>4
       DEF MetroInv, MetroTypeOK, MetroRecords, DialRecords, DialStates, CallRecords
  <2> QED
    BY <2>4, <2>5
<1>4. ASSUME NEW goal \in {"symbolicating", "answered"}, Rest(i, goal), UNCHANGED dial,
             metro' = metro \/ metro' = [metro EXCEPT !.reported = "none", !.negative = Nothing]
      PROVE  MetroInv'
  <2>1. /\ call' \in [Inspections -> CallRecords] /\ Others(i)
        /\ call'[i].pc = goal /\ call'[i].dial = call[i].dial /\ call'[i].result = call[i].result
        /\ call'[i].device = call[i].device /\ call'[i].app = call[i].app
    BY <1>1, <1>4, RestFacts DEF Waiting
  <2>2. metro' \in MetroRecords /\ Holding /\ metro'.device = metro.device
    BY <1>1, <1>4 DEF MetroRecords, Holding
  <2>3. MetroTypeOK'
    BY <1>1, <1>4, <2>1, <2>2 DEF MetroTypeOK, MetroRecords, CallRecords
  <2>4. BoundOK(i)'
    BY <1>1, <1>4, <2>1 DEF MetroInv, CallInv, BoundOK, Bound, Suits
  <2>5. Moves
    BY <1>4, <2>1, <2>4 DEF Moves, Others, Undialed
  <2> QED
    BY <1>1, <1>4, <2>2, <2>3, <2>5, CalmKeeps
<1>5. CASE Cleaned(i)
  <2>1. call[i].result \in {"tree", "empty", "error"}
    BY <1>5 DEF Cleaned, MetroInv, CallInv
  <2> QED
    BY <1>2, <1>3, <1>4, <1>5, <2>1 DEF Cleaned, Caught
<1>6. CASE Symbolicated(i)
  BY <1>2, <1>4, <1>6 DEF Symbolicated
<1> QED
  BY <1>5, <1>6

\* The session closes the inspector.
LEMMA CloseStep ==
    ASSUME MetroAssumption, MetroInv, Close
    PROVE  MetroInv'
<1>1. MetroTypeOK /\ metro \in MetroRecords /\ Quiet /\ Moves
  BY Types DEF MetroInv, Close, Moves
<1>2. /\ metro' \in MetroRecords /\ metro'.cgen = metro.cgen + 1 /\ metro'.connecting = Nothing
      /\ metro'.session = Nothing /\ metro'.device = Nothing
  BY <1>1, ClosedFacts DEF Close
<1>3. dial' \in [Inspections -> DialRecords] /\ (MetroTypeOK' => MetroInv')
  BY <1>1, <1>2, DropKeeps DEF Close
<1>4. MetroTypeOK'
  BY <1>1, <1>2, <1>3 DEF Close, MetroTypeOK, MetroRecords, DialRecords, DialStates
<1> QED
  BY <1>3, <1>4

\* Targets come and go.
LEMMA TargetsStep ==
    ASSUME MetroAssumption, MetroInv, TargetsChange
    PROVE  MetroInv'
<1>1. /\ MetroTypeOK /\ Quiet /\ Moves /\ targets' \in SUBSET Targets
      /\ dial \in [Inspections -> DialRecords] /\ UNCHANGED <<metro, call, wire, box, work>>
  BY Types DEF MetroInv, TargetsChange, Moves
<1>2. /\ dial' \in [Inspections -> DialRecords]
      /\ \A k \in Inspections :
            /\ dial'[k].key = dial[k].key /\ dial'[k].cgen = dial[k].cgen
            /\ dial'[k].state = dial[k].state \/ (dial[k].state = "open" /\ dial'[k].state = "lost")
  <2>1. \A r \in DialRecords :
          LET q == [r EXCEPT !.state = "lost"] IN
          q \in DialRecords /\ q.key = r.key /\ q.cgen = r.cgen /\ q.state = "lost"
    BY DEF DialRecords, DialStates
  <2> QED
    BY <1>1, <2>1 DEF TargetsChange
<1>3. MetroTypeOK'
  BY <1>1, <1>2 DEF MetroTypeOK, DialRecords, DialStates
<1>4. DialInv'
  BY <1>1, <1>2 DEF MetroInv, DialInv
<1>5. SessionInv'
  <2>1. metro.session \in Inspections \cup {Nothing} /\ metro.connecting \in Inspections \cup {Nothing}
    BY <1>1, Types DEF MetroRecords
  <2> QED
    BY <1>1, <1>2, <2>1 DEF MetroInv, SessionInv, NoDebuggerForgotten, Awaited, Suits
<1>6. Keyed
  BY <1>2 DEF Keyed
<1>7. CallInv'
  BY <1>1, <1>6, MovesKeepBound DEF MetroInv
<1>8. \A k \in Inspections : Settled(k)' <=> Settled(k)
  BY <1>2 DEF Settled
<1>9. QuietInv'
  BY <1>1, <1>8, QuietKeeps DEF MetroInv
<1> QED
  BY <1>3, <1>4, <1>5, <1>7, <1>9 DEF MetroInv

-----------------------------------------------------------------------------
(* The theorems.                                                           *)

\* In every behaviour all parts of the inductive invariant hold.
LEMMA MetroInvariance == MetroAssumption /\ MetroSpec => []MetroInv
<1> SUFFICES ASSUME MetroAssumption PROVE MetroSpec => []MetroInv
  OBVIOUS
<1>1. MetroInit => MetroInv
  <2> SUFFICES ASSUME MetroInit PROVE MetroInv
    OBVIOUS
  <2> USE DEF MetroInit
  <2>1. MetroTypeOK
    BY DEF MetroTypeOK, Waiting, Boxes
  <2>2. DialInv /\ SessionInv
    BY DEF DialInv, SessionInv, NoDebuggerForgotten, MetroAssumption
  <2>3. CallInv /\ QuietInv
    BY DEF CallInv, QuietInv, Bound
  <2> QED
    BY <2>1, <2>2, <2>3 DEF MetroInv
<1>2. MetroInv /\ [MetroNext]_metroVars => MetroInv'
  <2> SUFFICES ASSUME MetroInv, [MetroNext]_metroVars PROVE MetroInv'
    OBVIOUS
  <2>1. CASE MetroNext
    BY <2>1, InspectStep, ScannedStep, DialStep, ResumeStep, PerformStep, MailboxStep,
       CleanedStep, CloseStep, TargetsStep DEF MetroNext
  <2>2. CASE UNCHANGED metroVars
    BY <2>2 DEF metroVars, MetroInv, MetroTypeOK, DialInv, SessionInv, NoDebuggerForgotten, CallInv,
                QuietInv, Settled, Suits
  <2> QED
    BY <2>1, <2>2
<1> QED
  BY <1>1, <1>2, PTL DEF MetroSpec

\* The fields of the inspector, its connections and its inspections keep their types.
THEOREM MetroTypesKept == MetroAssumption /\ MetroSpec => []MetroTypeOK
<1>1. MetroInv => MetroTypeOK
  BY DEF MetroInv
<1> QED
  BY MetroInvariance, <1>1, PTL

\* However inspections, close() and late connections overtake one another, a
\* debugger connection that is up is the one in #session: #connect closes what it
\* replaces and takes no connection whose generation has passed.
THEOREM DebuggersAreHeld == MetroAssumption /\ MetroSpec => []NoDebuggerForgotten
<1>1. MetroInv => NoDebuggerForgotten
  BY DEF MetroInv, SessionInv
<1> QED
  BY MetroInvariance, <1>1, PTL

\* inspect() answers with a tree of its own application, from a target that does
\* not carry the identifier of another device (selectMetroTarget), also when it
\* joined a connection that another inspection opened.
THEOREM AnswersAreOfTheirTarget == MetroAssumption /\ MetroSpec => []TreeIsOfOwnTarget
<1>1. CallInv => TreeIsOfOwnTarget
  BY DEF CallInv, TreeIsOfOwnTarget, Bound, Suits
<1>2. MetroInv => TreeIsOfOwnTarget
  BY <1>1 DEF MetroInv
<1> QED
  BY MetroInvariance, <1>2, PTL

=============================================================================
