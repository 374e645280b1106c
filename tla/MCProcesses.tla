---------------------------- MODULE MCProcesses ----------------------------
(* TLC instance of the two families of processes that outlive their callers:  *)
(* the native backends of the registry and the daemon that MCP adapters share.*)
(* They share no file, so a behaviour is one of BackendRegistry or one of     *)
(* McpDaemon, whichever part is chosen at the start; the other stays put.     *)
EXTENDS MCBackendRegistry

CONSTANTS Launchers, Daemons, Connections, MaxSockets   \* of McpDaemon

VARIABLES
    part,
    daemonLock, daemonRecord, daemonSocket, daemonMisfire,
    launcherPc, launcherSeen, launcherChild, cur, finished, owner,
    main, drain, served, daemonConn

Daemon == INSTANCE McpDaemon WITH
    MayCrash <- {}, lock <- daemonLock, record <- daemonRecord, socket <- daemonSocket,
    misfire <- daemonMisfire, pc <- launcherPc, seen <- launcherSeen,
    child <- launcherChild, conn <- daemonConn

daemonVars == <<daemonLock, daemonRecord, daemonSocket, daemonMisfire, launcherPc,
    launcherSeen, launcherChild, cur, finished, owner, main, drain, served, daemonConn>>

ASSUME Daemon!McpAssumption

ProcessInit == part \in {"registry", "daemon"} /\ Init /\ Daemon!DaemonInit

RegistryStep == part = "registry" /\ Next /\ UNCHANGED <<part, daemonVars>>
AdapterStep == part = "daemon" /\ Daemon!DaemonNext /\ UNCHANGED <<part, vars>>

\* FairSpec of both modules, each for the behaviours that are its own.
ProcessFairness ==
    /\ \A s \in Starters : WF_vars(part = "registry" /\ AcquireStep(s))
    /\ \A b \in Backends :
          /\ WF_vars(part = "registry" /\ IdleShutDown(b))
          /\ WF_vars(part = "registry" /\ Exit(b))
          /\ WF_vars(part = "registry" /\ Boot(b))
    /\ \A l \in Launchers :
          /\ WF_daemonVars(part = "daemon" /\ Daemon!LaunchStep(l))
          /\ SF_daemonVars(part = "daemon" /\ Daemon!GiveUp(l))
    /\ \A d \in Daemons :
          /\ WF_daemonVars(part = "daemon" /\ Daemon!DaemonStep(d))
          /\ WF_daemonVars(part = "daemon" /\ Daemon!StartupTimeout(d))
          /\ WF_daemonVars(part = "daemon" /\ Daemon!ShutdownDeadline(d))
    /\ \A c \in Connections : WF_daemonVars(part = "daemon" /\ Daemon!ConnStep(c))

ProcessSpec ==
    /\ ProcessInit
    /\ [][RegistryStep \/ AdapterStep]_<<part, vars, daemonVars>>
    /\ ProcessFairness

\* Every acquireDaemon call returns a client or throws; every adapter ends or is piped
\* to a daemon, and a daemon does not outlive its adapters.
StarterSettles ==
    /\ part = "registry" => AcquireSettles
    /\ part = "daemon" => Daemon!AdapterSettles /\ Daemon!DaemonFollowsAdapters
=============================================================================
