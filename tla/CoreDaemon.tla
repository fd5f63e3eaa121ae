----------------------------- MODULE CoreDaemon -----------------------------
(***************************************************************************)
(* How gateways that share a machine start one Core (core/daemon.go).      *)
(*                                                                         *)
(* EnsureCoreDaemon pings the unix socket, takes a file lock, removes a    *)
(* stale socket, starts Core, records its pid and waits for it to answer.  *)
(* The lock belongs to the gateway process: it is released by its exit and *)
(* is not inherited by Core, which outlives a gateway that crashes.        *)
(*                                                                         *)
(* Core (external) binds the socket when the path is free and exits        *)
(* otherwise; it leaves the socket file behind when it is killed.          *)
(***************************************************************************)
EXTENDS FiniteSets, Naturals

CONSTANTS
    Gateways,       \* gateway processes (each may start again)
    MaxCores,       \* bound: Core processes started
    StartFaults     \* "crash": a gateway dies while it starts Core;
                    \* "unrecorded": the pid file cannot be written

ASSUME DaemonAssumption == MaxCores \in Nat /\ StartFaults \subseteq {"crash", "unrecorded"}

VARIABLES
    gateway,    \* per gateway: where EnsureCoreDaemon is
    ownCore,    \* per gateway: daemonCmd, the Core it started (0: none)
    lockedBy,   \* the gateways that hold the lock file
    core,       \* per pid: "unborn", "starting", "serving", "hung" or "dead"
    socket,     \* pid of the Core that bound the socket file (0: no file)
    pidFile     \* content of the pid file (0: no file)

daemonVars == <<gateway, ownCore, lockedBy, core, socket, pidFile>>

Pids == 1 .. MaxCores
Starting == {"lock", "clean", "start", "record", "wait"}
Alive(p) == p # 0 /\ core[p] \in {"starting", "serving", "hung"}
PingOk == socket # 0 /\ core[socket] = "serving"

At(g, l) == gateway[g] = l
GoTo(g, l) == gateway' = [gateway EXCEPT ![g] = l]

-----------------------------------------------------------------------------
(* EnsureCoreDaemon of gateway g. *)

\* A Core that answers is used, whoever started it.
Ensure(g) ==
    /\ At(g, "down")
    /\ GoTo(g, IF PingOk THEN "up" ELSE "lock")
    /\ UNCHANGED <<ownCore, lockedBy, core, socket, pidFile>>

\* Another gateway may hold the lock; then Core must have come up meanwhile.
acquireDaemonLock(g) ==
    /\ At(g, "lock")
    /\ \/ lockedBy = {} /\ lockedBy' = {g} /\ GoTo(g, "clean")
       \/ lockedBy # {} /\ GoTo(g, IF PingOk THEN "up" ELSE "down") /\ UNCHANGED lockedBy
    /\ UNCHANGED <<ownCore, core, socket, pidFile>>

\* Mutant: the socket file is removed without looking at the pid.
removeUnixSocket(g) ==
    /\ At(g, "clean")
    /\ socket' = 0 /\ pidFile' = 0 /\ GoTo(g, "start")
    /\ UNCHANGED <<ownCore, lockedBy, core>>

\* A socket whose recorded pid is alive is left alone and the start fails;
\* any other socket file is removed, with the pid file.
removeUnixSocketIfSafe(g) ==
    /\ At(g, "clean")
    /\ \/ socket = 0 /\ GoTo(g, "start") /\ UNCHANGED <<lockedBy, socket, pidFile>>
       \/ /\ socket # 0 /\ Alive(pidFile)
          /\ lockedBy' = {} /\ GoTo(g, "down")
          /\ UNCHANGED <<socket, pidFile>>
       \/ /\ socket # 0 /\ ~Alive(pidFile)
          /\ socket' = 0 /\ pidFile' = 0 /\ GoTo(g, "start")
          /\ UNCHANGED lockedBy
    /\ UNCHANGED <<ownCore, core>>

StartCore(g) ==
    /\ At(g, "start")
    /\ \/ \E p \in Pids :
            /\ core[p] = "unborn" /\ \A q \in 1 .. p - 1 : core[q] # "unborn"
            /\ core' = [core EXCEPT ![p] = "starting"]
            /\ ownCore' = [ownCore EXCEPT ![g] = p]
            /\ GoTo(g, "record")
            /\ UNCHANGED lockedBy
       \/ lockedBy' = {} /\ GoTo(g, "down") /\ UNCHANGED <<core, ownCore>>
    /\ UNCHANGED <<socket, pidFile>>

\* The pid is recorded; that the file was not written is ignored.
writeDaemonPID(g) ==
    /\ At(g, "record")
    /\ \/ pidFile' = ownCore[g]
       \/ "unrecorded" \in StartFaults /\ UNCHANGED pidFile
    /\ GoTo(g, "wait")
    /\ UNCHANGED <<ownCore, lockedBy, core, socket>>

Ready(g) ==
    /\ At(g, "wait") /\ PingOk
    /\ GoTo(g, "up")
    /\ UNCHANGED <<ownCore, lockedBy, core, socket, pidFile>>

Kill(p) == core' = [core EXCEPT ![p] = "dead"]

\* Mutant: the child is forgotten but not killed.
timeoutWithoutKill(g) ==
    /\ At(g, "wait") /\ ~PingOk
    /\ ownCore' = [ownCore EXCEPT ![g] = 0]
    /\ pidFile' = 0 /\ lockedBy' = {}
    /\ GoTo(g, "down")
    /\ UNCHANGED <<core, socket>>

\* No answer for fifteen seconds: the child is killed and forgotten.
StartTimeout(g) ==
    /\ At(g, "wait") /\ ~PingOk
    /\ Kill(ownCore[g])
    /\ ownCore' = [ownCore EXCEPT ![g] = 0]
    /\ pidFile' = 0 /\ lockedBy' = {}
    /\ GoTo(g, "down")
    /\ UNCHANGED socket

\* Handler.Close -> StopOwnedCoreDaemon, and the process exits.
StopOwnedCoreDaemon(g) ==
    /\ At(g, "up")
    /\ IF ownCore[g] = 0
       THEN UNCHANGED <<core, pidFile, lockedBy>>
       ELSE /\ Kill(ownCore[g])
            /\ pidFile' = IF pidFile = ownCore[g] THEN 0 ELSE pidFile
            /\ lockedBy' = lockedBy \ {g}
    /\ ownCore' = [ownCore EXCEPT ![g] = 0]
    /\ GoTo(g, "down")
    /\ UNCHANGED socket

\* The gateway dies without stopping its Core.
GatewayCrash(g) ==
    /\ At(g, "up") \/ ("crash" \in StartFaults /\ gateway[g] \in Starting)
    /\ lockedBy' = lockedBy \ {g}
    /\ ownCore' = [ownCore EXCEPT ![g] = 0]
    /\ GoTo(g, "down")
    /\ UNCHANGED <<core, socket, pidFile>>

-----------------------------------------------------------------------------
(* Core processes. *)

Bind(p) ==
    /\ core[p] = "starting"
    /\ IF socket = 0 THEN socket' = p /\ core' = [core EXCEPT ![p] = "serving"]
                     ELSE Kill(p) /\ UNCHANGED socket
    /\ UNCHANGED <<gateway, ownCore, lockedBy, pidFile>>

\* A Core that is busy or stuck does not answer pings; it may recover or die.
CoreTrouble(p) ==
    /\ \/ core[p] = "serving" /\ core' = [core EXCEPT ![p] = "hung"]
       \/ core[p] = "hung" /\ core' = [core EXCEPT ![p] = "serving"]
       \/ Alive(p) /\ Kill(p)
    /\ UNCHANGED <<gateway, ownCore, lockedBy, socket, pidFile>>

-----------------------------------------------------------------------------

DaemonInit ==
    /\ gateway = [g \in Gateways |-> "down"]
    /\ ownCore = [g \in Gateways |-> 0]
    /\ lockedBy = {} /\ socket = 0 /\ pidFile = 0
    /\ core = [p \in Pids |-> "unborn"]

EnsureStep(g) ==
    \/ acquireDaemonLock(g) \/ removeUnixSocketIfSafe(g) \/ StartCore(g)
    \/ writeDaemonPID(g) \/ Ready(g) \/ StartTimeout(g)

DaemonNext ==
    \/ \E g \in Gateways :
          Ensure(g) \/ EnsureStep(g) \/ StopOwnedCoreDaemon(g) \/ GatewayCrash(g)
    \/ \E p \in Pids : Bind(p) \/ CoreTrouble(p)

DaemonSpec == DaemonInit /\ [][DaemonNext]_daemonVars

-----------------------------------------------------------------------------
(* Properties. *)

\* The types of the daemon's state; one gateway at a time holds the lock.
DaemonTypeOK ==
    /\ Cardinality(lockedBy) <= 1
    /\ gateway \in [Gateways -> {"down", "up"} \cup Starting]
    /\ ownCore \in [Gateways -> 0 .. MaxCores]
    /\ lockedBy \in SUBSET Gateways
    /\ core \in [Pids -> {"unborn", "starting", "serving", "hung", "dead"}]
    /\ socket \in 0 .. MaxCores /\ pidFile \in 0 .. MaxCores

\* "Never unlinks a socket owned by a still-running Core": the socket file of
\* a Core that lives stays in place.
LiveSocketKept == [][Alive(socket) /\ core'[socket] # "dead" => socket' = socket]_daemonVars

\* At most one Core process is alive: "two Gateways cannot race on the same
\* unix socket", whatever Core or a running gateway does, as long as the start
\* of a Core and the record of its pid are not cut short (StartFaults = {}).
OneCore == \A p, q \in Pids : Alive(p) /\ Alive(q) => p = q
=============================================================================
