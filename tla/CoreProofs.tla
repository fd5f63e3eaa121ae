----------------------------- MODULE CoreProofs -----------------------------
(***************************************************************************)
(* Proofs about the gateway's two ways to Core: the start of its daemon by *)
(* several gateways, and the calls of the RPC client.                      *)
(***************************************************************************)
EXTENDS CoreDaemon, CoreRpc, TLAPS

-----------------------------------------------------------------------------
(* The start of the daemon, for any number of gateways and Core processes, *)
(* as long as no gateway dies between the start of its Core and the record *)
(* of its pid (StartFaults = {}).                                          *)
(*                                                                         *)
(* Between the lock and the answer of Core one gateway works alone; a Core *)
(* that lives is named by the pid file, or by the gateway that has just    *)
(* started it; and one that has bound the socket is the one the socket file*)
(* belongs to.                                                             *)

\* The steps of EnsureCoreDaemon that hold the lock.
Holding == {"clean", "start", "record", "wait"}

\* One gateway at a time is between the lock and the answer of its Core.
LockExcludes == \A g \in Gateways : gateway[g] \in Holding => lockedBy = {g}

\* A Core that has not bound the socket is waited for by the gateway that
\* started it; one that has is the owner of the socket file.
BoundOrAwaited ==
    \A p \in Pids :
        /\ core[p] = "starting" =>
             \E g \in Gateways : gateway[g] \in {"record", "wait"} /\ ownCore[g] = p
        /\ core[p] \in {"serving", "hung"} => socket = p

\* A live Core is in the pid file, or its gateway is about to write it there.
Recorded ==
    \A p \in Pids :
        Alive(p) => pidFile = p \/ \E g \in Gateways : At(g, "record") /\ ownCore[g] = p

\* A gateway that is about to start Core knows that none lives; then only its
\* own does.
StartsAlone ==
    \A g \in Gateways : \A p \in Pids :
        Alive(p) => ~At(g, "start") /\ (gateway[g] \in {"record", "wait"} => p = ownCore[g])

\* The inductive invariant.
DaemonInv ==
    /\ gateway \in [Gateways -> {"down", "up"} \cup Starting]
    /\ ownCore \in [Gateways -> 0 .. MaxCores]
    /\ core \in [Pids -> {"unborn", "starting", "serving", "hung", "dead"}]
    /\ socket \in 0 .. MaxCores
    /\ LockExcludes /\ BoundOrAwaited /\ Recorded /\ StartsAlone

-----------------------------------------------------------------------------
\* A pid is never 0, the content of a missing file.
LEMMA PidsPositive == \A p \in Pids : p \in 0 .. MaxCores /\ p # 0
BY DaemonAssumption DEF Pids

\* Of two live Cores both are the one of the pid file or of the gateway that
\* has just started its Core.
LEMMA InvOneCore == DaemonInv => OneCore
BY DEF DaemonInv, OneCore, Recorded, StartsAlone, At

\* A gateway that looks for a stale socket finds no live Core unless the pid
\* file names it and the socket is its own.
LEMMA CleanSees ==
    ASSUME DaemonInv, NEW g \in Gateways, At(g, "clean"), NEW p \in Pids, Alive(p)
    PROVE  pidFile = p /\ socket = p
<1>1. \A h \in Gateways : gateway[h] \in Holding => h = g
    BY DEF DaemonInv, LockExcludes, At, Holding
<1>2. \A h \in Gateways : gateway[h] \notin {"record", "wait"}
    BY <1>1 DEF At, Holding
<1>3. pidFile = p
    BY <1>2 DEF DaemonInv, Recorded, At
<1>4. core[p] # "starting"
    BY <1>2 DEF DaemonInv, BoundOrAwaited
<1>. QED
    BY <1>3, <1>4 DEF DaemonInv, BoundOrAwaited, Alive

-----------------------------------------------------------------------------
\* Nothing runs at first.
LEMMA DaemonInvInit == DaemonInit => DaemonInv
BY DaemonAssumption
DEF DaemonInit, DaemonInv, LockExcludes, BoundOrAwaited, Recorded, StartsAlone, Alive, At, Holding, Starting, Pids

\* The steps before the lock, and the answer of Core, move one gateway only.
LEMMA EnsureKeeps ==
    ASSUME DaemonInv, NEW g \in Gateways, Ensure(g)
    PROVE  DaemonInv'
BY DEF Ensure, GoTo, At, DaemonInv, LockExcludes, BoundOrAwaited, Recorded, StartsAlone, Alive, Holding, Starting

\* withCoreDaemonLock: the lock is taken only when no gateway holds it.
LEMMA LockKeeps ==
    ASSUME DaemonInv, NEW g \in Gateways, acquireDaemonLock(g)
    PROVE  DaemonInv'
BY DEF acquireDaemonLock, GoTo, At, DaemonInv, LockExcludes, BoundOrAwaited, Recorded, StartsAlone, Alive, Holding, Starting

\* A stale socket is removed only when no Core lives, so the start that follows
\* is alone.
LEMMA RemoveKeeps ==
    ASSUME DaemonInv, NEW g \in Gateways, removeUnixSocketIfSafe(g)
    PROVE  DaemonInv'
<1>1. At(g, "clean") /\ UNCHANGED <<ownCore, core>>
    BY DEF removeUnixSocketIfSafe
<1>2. \A h \in Gateways : gateway[h] \in Holding => h = g
    BY <1>1 DEF DaemonInv, LockExcludes, At, Holding
<1>3. CASE GoTo(g, "start") /\ lockedBy' = lockedBy /\ socket' \in {0, socket} /\ \A p \in Pids : ~Alive(p)
    <2>1. \A p \in Pids : ~Alive(p)' /\ core'[p] \notin {"starting", "serving", "hung"}
        BY <1>1, <1>3, PidsPositive DEF Alive
    <2>2. BoundOrAwaited' /\ Recorded' /\ StartsAlone'
        BY <2>1 DEF BoundOrAwaited, Recorded, StartsAlone
    <2>3. LockExcludes'
        BY <1>1, <1>2, <1>3 DEF GoTo, At, DaemonInv, LockExcludes, Holding
    <2>4. socket' \in 0 .. MaxCores
        BY <1>3, DaemonAssumption DEF DaemonInv
    <2>. QED
        BY <1>1, <1>3, <2>2, <2>3, <2>4 DEF GoTo, DaemonInv, Starting
<1>4. CASE GoTo(g, "down") /\ lockedBy' = {} /\ UNCHANGED <<socket, pidFile>>
    BY <1>1, <1>2, <1>4
    DEF GoTo, At, DaemonInv, LockExcludes, BoundOrAwaited, Recorded, StartsAlone, Alive, Holding, Starting
<1>. QED
    BY <1>1, <1>3, <1>4, CleanSees, PidsPositive DEF removeUnixSocketIfSafe

\* The Core that is started is the only one that lives.
LEMMA StartKeeps ==
    ASSUME DaemonInv, NEW g \in Gateways, StartCore(g)
    PROVE  DaemonInv'
<1>1. At(g, "start") /\ UNCHANGED <<socket, pidFile>>
    BY DEF StartCore
<1>2. \A h \in Gateways : gateway[h] \in Holding => h = g
    BY <1>1 DEF DaemonInv, LockExcludes, At, Holding
<1>3. \A p \in Pids : ~Alive(p)
    BY <1>1 DEF DaemonInv, StartsAlone
<1>4. CASE GoTo(g, "down") /\ lockedBy' = {} /\ UNCHANGED <<core, ownCore>>
    BY <1>1, <1>2, <1>3, <1>4
    DEF GoTo, At, DaemonInv, LockExcludes, BoundOrAwaited, Recorded, StartsAlone, Alive, Holding, Starting
<1>5. ASSUME NEW p \in Pids, core' = [core EXCEPT ![p] = "starting"],
             ownCore' = [ownCore EXCEPT ![g] = p], GoTo(g, "record"), lockedBy' = lockedBy
      PROVE  DaemonInv'
    <2>1. /\ gateway' \in [Gateways -> {"down", "up"} \cup Starting]
          /\ ownCore' \in [Gateways -> 0 .. MaxCores]
          /\ core' \in [Pids -> {"unborn", "starting", "serving", "hung", "dead"}]
        BY <1>5, PidsPositive DEF GoTo, DaemonInv, Starting
    <2>2. gateway'[g] = "record" /\ ownCore'[g] = p /\ \A h \in Gateways : h # g => gateway'[h] = gateway[h]
        BY <1>5 DEF GoTo, DaemonInv
    <2>3. \A q \in Pids : Alive(q)' => q = p
        BY <1>3, <1>5 DEF Alive, DaemonInv
    <2>4. core'[p] = "starting"
        BY <1>5 DEF DaemonInv
    <2>5. LockExcludes'
        BY <1>1, <1>2, <1>5, <2>2 DEF DaemonInv, LockExcludes, Holding, At
    <2>6. BoundOrAwaited'
        BY <2>2, <2>3, <2>4, PidsPositive DEF BoundOrAwaited, Alive
    <2>7. Recorded'
        BY <2>2, <2>3 DEF Recorded, At
    <2>8. StartsAlone'
        BY <1>1, <1>2, <2>2, <2>3 DEF StartsAlone, At, Holding
    <2>9. socket' \in 0 .. MaxCores
        BY <1>1 DEF DaemonInv
    <2>. QED
        BY <2>1, <2>5, <2>6, <2>7, <2>8, <2>9 DEF DaemonInv
<1>. QED
    BY <1>4, <1>5 DEF StartCore

\* The pid of the only live Core is written down.
LEMMA RecordKeeps ==
    ASSUME StartFaults = {}, DaemonInv, NEW g \in Gateways, writeDaemonPID(g)
    PROVE  DaemonInv'
<1>1. At(g, "record") /\ GoTo(g, "wait") /\ pidFile' = ownCore[g] /\ UNCHANGED <<ownCore, lockedBy, core, socket>>
    BY DEF writeDaemonPID
<1>2. \A p \in Pids : Alive(p) => p = ownCore[g]
    BY <1>1 DEF DaemonInv, StartsAlone, At
<1>. QED
    BY <1>1, <1>2
    DEF GoTo, At, DaemonInv, LockExcludes, BoundOrAwaited, Recorded, StartsAlone, Alive, Holding, Starting

\* Core answers: the only live Core is the owner of the socket.
LEMMA ReadyKeeps ==
    ASSUME DaemonInv, NEW g \in Gateways, Ready(g)
    PROVE  DaemonInv'
<1>1. At(g, "wait") /\ PingOk /\ GoTo(g, "up") /\ UNCHANGED <<ownCore, lockedBy, core, socket, pidFile>>
    BY DEF Ready
<1>2. core[socket] = "serving" /\ socket \in Pids
    BY <1>1, DaemonAssumption DEF PingOk, DaemonInv, Pids
<1>3. \A p \in Pids : Alive(p) => p = ownCore[g]
    BY <1>1 DEF DaemonInv, StartsAlone, At
<1>4. Alive(socket)
    BY <1>2, PidsPositive DEF Alive
<1>5. \A p \in Pids : core[p] # "starting"
    BY <1>2, <1>3, <1>4, PidsPositive DEF Alive
<1>. QED
    BY <1>1, <1>5
    DEF GoTo, At, DaemonInv, LockExcludes, BoundOrAwaited, Recorded, StartsAlone, Alive, Holding, Starting

\* The only live Core is killed when it does not answer.
LEMMA TimeoutKeeps ==
    ASSUME DaemonInv, NEW g \in Gateways, StartTimeout(g)
    PROVE  DaemonInv'
<1>1. /\ At(g, "wait") /\ GoTo(g, "down") /\ core' = [core EXCEPT ![ownCore[g]] = "dead"]
      /\ ownCore' = [ownCore EXCEPT ![g] = 0] /\ lockedBy' = {} /\ socket' = socket
    BY DEF StartTimeout, Kill
<1>2. \A h \in Gateways : gateway[h] \in Holding => h = g
    BY <1>1 DEF DaemonInv, LockExcludes, At, Holding
<1>3. \A p \in Pids : Alive(p) => p = ownCore[g]
    BY <1>1 DEF DaemonInv, StartsAlone, At
<1>4. \A p \in Pids : ~Alive(p)' /\ core'[p] \notin {"starting", "serving", "hung"}
    BY <1>1, <1>3, PidsPositive DEF Alive, DaemonInv
<1>5. BoundOrAwaited' /\ Recorded' /\ StartsAlone'
    BY <1>4 DEF BoundOrAwaited, Recorded, StartsAlone
<1>6. LockExcludes'
    BY <1>1, <1>2 DEF GoTo, At, DaemonInv, LockExcludes, Holding
<1>7. core' \in [Pids -> {"unborn", "starting", "serving", "hung", "dead"}]
    BY <1>1 DEF DaemonInv
<1>8. ownCore' \in [Gateways -> 0 .. MaxCores]
    BY <1>1, DaemonAssumption DEF DaemonInv
<1>. QED
    BY <1>1, <1>5, <1>6, <1>7, <1>8 DEF GoTo, DaemonInv, Starting

\* A gateway that stops, or dies when it is up, takes no other gateway's lock;
\* its Core may live on.
LEMMA LeaveKeeps ==
    ASSUME DaemonInv, NEW g \in Gateways, At(g, "up"), GoTo(g, "down"),
           ownCore' = [ownCore EXCEPT ![g] = 0], lockedBy' \in {lockedBy, lockedBy \ {g}},
           socket' = socket,
           \/ UNCHANGED <<core, pidFile>>
           \/ /\ core' = [core EXCEPT ![ownCore[g]] = "dead"]
              /\ pidFile' = IF pidFile = ownCore[g] THEN 0 ELSE pidFile
    PROVE  DaemonInv'
<1>1. \A h \in Gateways : gateway[h] \in Holding => h # g /\ gateway'[h] = gateway[h] /\ ownCore'[h] = ownCore[h]
    BY DEF GoTo, At, Holding, DaemonInv
<1>2. \A h \in Gateways : gateway'[h] \in Holding => gateway[h] \in Holding
    BY DEF GoTo, DaemonInv, Holding
<1>3. \A p \in Pids : core'[p] # core[p] => core'[p] = "dead" /\ p = ownCore[g]
    BY DEF DaemonInv
<1>4. \A p \in Pids : Alive(p)' => Alive(p) /\ core'[p] = core[p] /\ (pidFile = p => pidFile' = p)
    BY DEF DaemonInv, Alive
<1>5. LockExcludes'
    BY <1>1, <1>2 DEF DaemonInv, LockExcludes
<1>6. BoundOrAwaited'
    <2>1. \A p \in Pids : core'[p] = "starting" => core[p] = "starting"
        BY <1>3
    <2>2. \A p \in Pids : core'[p] \in {"serving", "hung"} => core[p] \in {"serving", "hung"}
        BY <1>3
    <2>. QED
        BY <1>1, <2>1, <2>2 DEF DaemonInv, BoundOrAwaited, Holding
<1>7. Recorded'
    BY <1>1, <1>4 DEF DaemonInv, Recorded, At, Holding
<1>8. StartsAlone'
    BY <1>1, <1>2, <1>4 DEF DaemonInv, StartsAlone, At, Holding
<1>9. /\ core' \in [Pids -> {"unborn", "starting", "serving", "hung", "dead"}]
      /\ gateway' \in [Gateways -> {"down", "up"} \cup Starting]
    BY DEF DaemonInv, GoTo, Starting
<1>10. ownCore' \in [Gateways -> 0 .. MaxCores] /\ socket' \in 0 .. MaxCores
    BY DaemonAssumption DEF DaemonInv
<1>. QED
    BY <1>5, <1>6, <1>7, <1>8, <1>9, <1>10 DEF DaemonInv

\* Core binds the socket, or exits when there is one.
LEMMA BindKeeps ==
    ASSUME DaemonInv, NEW p \in Pids, Bind(p)
    PROVE  DaemonInv'
<1>1. core[p] = "starting" /\ UNCHANGED <<gateway, ownCore, lockedBy, pidFile>>
    BY DEF Bind
<1>2. Alive(p) /\ \A q \in Pids : Alive(q) => q = p
    BY <1>1, InvOneCore, PidsPositive DEF OneCore, Alive
<1>3. \A q \in Pids : q # p => core[q] \notin {"starting", "serving", "hung"}
    BY <1>2, PidsPositive DEF Alive
<1>4. \E l \in {"serving", "dead"} : core' = [core EXCEPT ![p] = l] /\ (l = "serving" => socket' = p)
    BY DEF Bind, Kill
<1>5. socket' \in 0 .. MaxCores
    BY PidsPositive DEF Bind, DaemonInv
<1>6. \A q \in Pids : Alive(q)' => Alive(q)
    BY <1>2, <1>3, <1>4 DEF Alive, DaemonInv
<1>7. BoundOrAwaited'
    BY <1>3, <1>4 DEF DaemonInv, BoundOrAwaited
<1>8. LockExcludes' /\ Recorded' /\ StartsAlone'
    BY <1>1, <1>6 DEF DaemonInv, LockExcludes, Recorded, StartsAlone, At
<1>9. core' \in [Pids -> {"unborn", "starting", "serving", "hung", "dead"}]
    BY <1>4 DEF DaemonInv
<1>. QED
    BY <1>1, <1>5, <1>7, <1>8, <1>9 DEF DaemonInv

\* A Core that hangs, recovers or dies keeps its socket and its pid.
LEMMA TroubleKeeps ==
    ASSUME DaemonInv, NEW p \in Pids, CoreTrouble(p)
    PROVE  DaemonInv'
<1>1. UNCHANGED <<gateway, ownCore, lockedBy, socket, pidFile>>
    BY DEF CoreTrouble
<1>2. \E l \in {"serving", "hung", "dead"} :
         core' = [core EXCEPT ![p] = l] /\ (l # "dead" => core[p] \in {"serving", "hung"})
    BY DEF CoreTrouble, Kill
<1>3. \A q \in Pids : Alive(q)' => Alive(q)
    BY <1>2, PidsPositive DEF Alive, DaemonInv
<1>4. BoundOrAwaited'
    BY <1>1, <1>2 DEF DaemonInv, BoundOrAwaited
<1>5. LockExcludes' /\ Recorded' /\ StartsAlone'
    BY <1>1, <1>3 DEF DaemonInv, LockExcludes, Recorded, StartsAlone, At
<1>6. core' \in [Pids -> {"unborn", "starting", "serving", "hung", "dead"}]
    BY <1>2 DEF DaemonInv
<1>. QED
    BY <1>1, <1>4, <1>5, <1>6 DEF DaemonInv

\* The invariant is inductive when no gateway dies while it starts Core and
\* every pid is recorded.
LEMMA DaemonInvStep ==
    ASSUME StartFaults = {}, DaemonInv, [DaemonNext]_daemonVars
    PROVE  DaemonInv'
<1>1. ASSUME NEW g \in Gateways, Ensure(g) \/ EnsureStep(g)
      PROVE  DaemonInv'
    BY <1>1, EnsureKeeps, LockKeeps, RemoveKeeps, StartKeeps, RecordKeeps, ReadyKeeps, TimeoutKeeps DEF EnsureStep
<1>2. ASSUME NEW g \in Gateways, StopOwnedCoreDaemon(g)
      PROVE  DaemonInv'
    <2>1. /\ At(g, "up") /\ GoTo(g, "down") /\ ownCore' = [ownCore EXCEPT ![g] = 0]
          /\ lockedBy' \in {lockedBy, lockedBy \ {g}} /\ socket' = socket
          /\ \/ UNCHANGED <<core, pidFile>>
             \/ /\ core' = [core EXCEPT ![ownCore[g]] = "dead"]
                /\ pidFile' = IF pidFile = ownCore[g] THEN 0 ELSE pidFile
        BY <1>2 DEF StopOwnedCoreDaemon, Kill
    <2>. QED
        BY <2>1, LeaveKeeps
<1>3. ASSUME NEW g \in Gateways, GatewayCrash(g)
      PROVE  DaemonInv'
    <2>1. /\ At(g, "up") /\ GoTo(g, "down") /\ ownCore' = [ownCore EXCEPT ![g] = 0]
          /\ lockedBy' \in {lockedBy, lockedBy \ {g}} /\ socket' = socket
          /\ UNCHANGED <<core, pidFile>>
        BY <1>3 DEF GatewayCrash
    <2>. QED
        BY <2>1, LeaveKeeps
<1>4. ASSUME NEW p \in Pids, Bind(p) \/ CoreTrouble(p)
      PROVE  DaemonInv'
    BY <1>4, BindKeeps, TroubleKeeps
<1>5. CASE UNCHANGED daemonVars
    BY <1>5 DEF daemonVars, DaemonInv, LockExcludes, BoundOrAwaited, Recorded, StartsAlone, Alive, At
<1>. QED
    BY <1>1, <1>2, <1>3, <1>4, <1>5 DEF DaemonNext

\* A step leaves the socket of a live Core alone: the only step that removes a
\* socket runs when no Core lives, and a socket is bound where there is none.
LEMMA SocketStep ==
    ASSUME DaemonInv, [DaemonNext]_daemonVars, Alive(socket), core'[socket] # "dead"
    PROVE  socket' = socket
<1>1. socket \in Pids
    BY DaemonAssumption DEF Alive, DaemonInv, Pids
<1>2. ASSUME NEW g \in Gateways, removeUnixSocketIfSafe(g)
      PROVE  socket' = socket
    <2>1. At(g, "clean")
        BY <1>2 DEF removeUnixSocketIfSafe
    <2>2. Alive(pidFile)
        BY <1>1, <2>1, CleanSees
    <2>. QED
        BY <1>2, <2>2 DEF removeUnixSocketIfSafe
<1>3. ASSUME NEW p \in Pids, Bind(p)
      PROVE  socket' = socket
    BY <1>1, <1>3, PidsPositive DEF Bind
<1>. QED
    BY <1>2, <1>3 DEF DaemonNext, EnsureStep, Ensure, acquireDaemonLock, StartCore, writeDaemonPID, Ready,
        StartTimeout, StopOwnedCoreDaemon, GatewayCrash, CoreTrouble, daemonVars

-----------------------------------------------------------------------------
\* While no gateway dies between the start of its Core and the record of its
\* pid, and that record is written, the inductive invariant of EnsureCoreDaemon
\* holds for any number of gateways and Cores.
THEOREM DaemonInvariant == StartFaults = {} /\ DaemonSpec => []DaemonInv
<1>. SUFFICES ASSUME StartFaults = {} PROVE DaemonSpec => []DaemonInv
    OBVIOUS
<1>1. DaemonInv /\ [DaemonNext]_daemonVars => DaemonInv'
    BY DaemonInvStep
<1>. QED
    BY <1>1, DaemonInvInit, PTL DEF DaemonSpec

\* EnsureCoreDaemon of any number of gateways never leaves two Cores alive,
\* whatever Core does and however a running gateway ends.
THEOREM AtMostOneCore == StartFaults = {} /\ DaemonSpec => []OneCore
BY DaemonInvariant, InvOneCore, PTL

\* removeUnixSocketIfSafe never removes the socket of a live Core, also when
\* that Core hangs and answers no ping.
THEOREM SocketOfLiveCoreKept == StartFaults = {} /\ DaemonSpec => LiveSocketKept
<1>1. DaemonInv /\ [DaemonNext]_daemonVars
        => [Alive(socket) /\ core'[socket] # "dead" => socket' = socket]_daemonVars
    BY SocketStep
<1>. QED
    BY <1>1, DaemonInvariant, PTL DEF DaemonSpec, LiveSocketKept

-----------------------------------------------------------------------------
(* The RPC client of Core, for any number of calls and of lines that answer*)
(* none of them.                                                           *)

\* Nothing is known to Core of a call that was not made.
Fresh ==
    /\ \A q \in inbox : q.id <= callId
    /\ \A i \in CallIds : i > callId => i \notin mutates /\ executed[i] = 0
    /\ Working => callId >= 1

\* A call of a mutating method that is about to write has written nothing.
Unsent ==
    callId \in mutates /\ call.phase \in {"send", "redial"} =>
        executed[callId] = 0 /\ \A q \in inbox : q.id # callId

\* A mutating request is at most once in Core's inbox, and then not executed.
AtMostOnce ==
    /\ \A i \in mutates : executed[i] <= 1
    /\ \A q \in inbox : q.id \in mutates => executed[q.id] = 0
    /\ \A q, r \in inbox : q.id = r.id /\ q.id \in mutates => q = r

\* A positive answer in the reader is that of a request Core has executed.
AnswersExecuted ==
    \A k \in DOMAIN reader : reader[k].ok /\ reader[k].id # 0 => executed[reader[k].id] >= 1

CallInv == Fresh /\ Unsent /\ AtMostOnce
AnswerInv == AnswersExecuted /\ AnswerIsOwn
RpcInv == RpcTypeOK /\ CallInv /\ AnswerInv

-----------------------------------------------------------------------------
(* The parts of the actions. *)

\* What is in a list.
LEMMA ListElement ==
    ASSUME NEW S, NEW s \in Seq(S), NEW n \in 1 .. Len(s)
    PROVE  s[n] \in S
OBVIOUS

\* What a call leaves that returns.
LEMMA ReturnEffect ==
    ASSUME RpcTypeOK, callId \in CallIds, NEW r \in {"ok", "error"}, Return(r)
    PROVE  /\ call' \in [phase : {"idle"}, attempt : 0 .. 2]
           /\ result' \in [CallIds -> {"none", "ok", "error"}]
           /\ \A i \in CallIds : result'[i] = "ok" =>
                  result[i] = "ok" \/ (i = callId /\ r = "ok")
<1>1. call' \in [phase : {"idle"}, attempt : 0 .. 2]
    BY DEF Return, Idle
<1>2. result \in [CallIds -> {"none", "ok", "error"}]
    BY DEF RpcTypeOK
<1>3. result' = [result EXCEPT ![callId] = r]
    BY DEF Return
<1>. QED
    BY <1>1, <1>2, <1>3

\* What a failed round trip leaves: the call returns, or it will dial again
\* and has then not written a mutating request.
LEMMA AfterFailureEffect ==
    ASSUME RpcTypeOK, Working, Fresh, NEW wrote \in BOOLEAN, AfterFailure(wrote)
    PROVE  /\ call' \in [phase : {"idle", "redial"}, attempt : 0 .. 2]
           /\ result' \in [CallIds -> {"none", "ok", "error"}]
           /\ \A i \in CallIds : result'[i] = "ok" => result[i] = "ok"
           /\ call'.phase = "redial" => ~(wrote /\ callId \in mutates)
<1>1. callId \in CallIds
    BY RpcAssumption DEF Fresh, RpcTypeOK, CallIds
<1>2. CASE call.attempt = 2 \/ (wrote /\ callId \in mutates)
    <2>1. Return("error")
        BY <1>2 DEF AfterFailure
    <2>2. call' \in [phase : {"idle"}, attempt : 0 .. 2]
        BY <1>1, <2>1, ReturnEffect
    <2>. QED
        BY <1>1, <2>1, <2>2, ReturnEffect
<1>3. CASE ~(call.attempt = 2 \/ (wrote /\ callId \in mutates))
    <2>1. call' = [call EXCEPT !.phase = "redial"] /\ result' = result
        BY <1>3 DEF AfterFailure
    <2>2. call' \in [phase : {"idle", "redial"}, attempt : 0 .. 2]
        BY <2>1 DEF RpcTypeOK
    <2>. QED
        BY <1>3, <2>1, <2>2 DEF RpcTypeOK
<1>. QED
    BY <1>2, <1>3

\* A step of the client that sends nothing keeps what is said of the calls.
LEMMA QuietStep ==
    ASSUME RpcTypeOK, CallInv, UNCHANGED <<callId, mutates, inbox, executed>>,
           call'.phase # "idle" => Working,
           call'.phase \in {"send", "redial"} =>
               call.phase \in {"send", "redial"} \/ callId \notin mutates
    PROVE  CallInv'
<1>1. Fresh'
    BY DEF CallInv, Fresh, Working
<1>2. Unsent'
    BY DEF CallInv, Unsent
<1>3. AtMostOnce'
    BY DEF CallInv, AtMostOnce
<1>. QED
    BY <1>1, <1>2, <1>3 DEF CallInv

\* A step that keeps the reader or empties it, and makes no call succeed.
LEMMA NoAnswerStep ==
    ASSUME RpcTypeOK, AnswerInv, executed' = executed, reader' \in {reader, <<>>},
           \A i \in CallIds : result'[i] = "ok" => result[i] = "ok"
    PROVE  AnswerInv'
<1>1. AnswersExecuted'
    BY DEF AnswerInv, AnswersExecuted
<1>2. AnswerIsOwn'
    BY DEF AnswerInv, AnswerIsOwn, CallIds
<1>. QED
    BY <1>1, <1>2 DEF AnswerInv

-----------------------------------------------------------------------------
(* Every action keeps the inductive invariant. *)

\* Call: the request id is one that Core has never seen.
LEMMA CallStep ==
    ASSUME RpcInv, NEW mutating \in BOOLEAN, Call(mutating)
    PROVE  RpcInv'
<1>0. RpcTypeOK /\ CallInv /\ AnswerInv
    BY DEF RpcInv
<1>1. callId + 1 \in CallIds /\ callId \in Nat /\ callId' = callId + 1
    BY <1>0, RpcAssumption DEF Call, RpcTypeOK, CallIds
<1>2. RpcTypeOK'
    BY <1>0, <1>1 DEF Call, RpcTypeOK, CallIds
<1>3. executed[callId + 1] = 0 /\ \A q \in inbox : q.id # callId + 1
    BY <1>0, <1>1 DEF CallInv, Fresh, RpcTypeOK, CallIds
<1>4. mutates' \subseteq mutates \cup {callId + 1}
    BY DEF Call
<1>5. inbox' = inbox /\ executed' = executed /\ call'.phase = "send"
    BY DEF Call
<1>6. Fresh'
    BY <1>0, <1>1, <1>4, <1>5 DEF CallInv, Fresh, RpcTypeOK, CallIds, Working
<1>7. Unsent'
    BY <1>1, <1>3, <1>5 DEF Unsent
<1>8. AtMostOnce'
    BY <1>0, <1>3, <1>4, <1>5 DEF CallInv, AtMostOnce, RpcTypeOK
<1>9. AnswerInv'
    BY <1>0, NoAnswerStep DEF Call
<1>. QED
    BY <1>2, <1>6, <1>7, <1>8, <1>9 DEF RpcInv, CallInv

\* ensureConnLocked and the redial of the second round trip.
LEMMA DialStep ==
    ASSUME RpcInv, EnsureConn \/ Reconnect
    PROVE  RpcInv'
<1>0. RpcTypeOK /\ CallInv /\ AnswerInv /\ Fresh
    BY DEF RpcInv, CallInv
<1>1. call.phase \in {"send", "redial"} /\ Working
    BY DEF EnsureConn, Reconnect, Working
<1>2. UNCHANGED <<callId, mutates, inbox, executed, noise>>
    BY DEF EnsureConn, Reconnect
<1>3. callId \in CallIds
    BY <1>0, <1>1, RpcAssumption DEF Fresh, RpcTypeOK, CallIds
<1>4. reader' = <<>> /\ gen' \in Nat /\ connected' \in BOOLEAN
    <2>1. reader' = <<>>
        BY DEF EnsureConn, Reconnect, Dial, Hangup
    <2>2. gen' = gen + 1 \/ gen' = gen
        BY DEF EnsureConn, Reconnect, Dial, Hangup
    <2>3. connected' = TRUE \/ connected' = FALSE
        BY Zenon DEF EnsureConn, Reconnect, Dial, Hangup
    <2>4. connected' \in BOOLEAN
        BY <2>3, Zenon
    <2>. QED
        BY <1>0, <2>1, <2>2, <2>4 DEF RpcTypeOK
<1>5. /\ call' \in [phase : {"idle", "send", "read", "redial"}, attempt : 0 .. 2]
      /\ result' \in [CallIds -> {"none", "ok", "error"}]
      /\ \A i \in CallIds : result'[i] = "ok" => result[i] = "ok"
    <2>1. CASE EnsureConn
        <3>1. CASE UNCHANGED <<call, result>>
            BY <1>0, <3>1 DEF RpcTypeOK
        <3>2. CASE AfterFailure(FALSE)
            BY <1>0, <1>1, <3>2, AfterFailureEffect
        <3>. QED
            BY <2>1, <3>1, <3>2 DEF EnsureConn
    <2>2. CASE Reconnect
        <3>1. CASE call' = [phase |-> "send", attempt |-> 2] /\ UNCHANGED result
            <4>1. call' \in [phase : {"send"}, attempt : 0 .. 2]
                BY <3>1
            <4>. QED
                BY <1>0, <3>1, <4>1 DEF RpcTypeOK
        <3>2. CASE Return("error")
            BY <1>0, <1>3, <3>2, ReturnEffect
        <3>. QED
            BY <2>2, <3>1, <3>2 DEF Reconnect
    <2>. QED
        BY <2>1, <2>2
<1>6. RpcTypeOK'
    BY <1>0, <1>2, <1>4, <1>5 DEF RpcTypeOK
<1>7. CallInv'
    BY <1>0, <1>1, <1>2, QuietStep
<1>8. AnswerInv'
    BY <1>0, <1>2, <1>4, <1>5, NoAnswerStep
<1>. QED
    BY <1>6, <1>7, <1>8 DEF RpcInv

\* The write: the first of a mutating call.
LEMMA WriteStep ==
    ASSUME RpcInv, Write
    PROVE  RpcInv'
<1>0. RpcTypeOK /\ CallInv /\ AnswerInv /\ Fresh /\ Unsent /\ AtMostOnce
    BY DEF RpcInv, CallInv
<1>1. call.phase = "send" /\ Working /\ UNCHANGED <<callId, mutates, executed, noise>>
    BY DEF Write, Working
<1>2. callId \in CallIds
    BY <1>0, <1>1, RpcAssumption DEF Fresh, RpcTypeOK, CallIds
<1>3. CASE Hangup /\ AfterFailure(FALSE) /\ UNCHANGED inbox
    <2>1. /\ call' \in [phase : {"idle", "redial"}, attempt : 0 .. 2]
          /\ result' \in [CallIds -> {"none", "ok", "error"}]
          /\ \A i \in CallIds : result'[i] = "ok" => result[i] = "ok"
        BY <1>0, <1>1, <1>3, AfterFailureEffect
    <2>2. reader' = <<>> /\ gen' = gen /\ connected' \in BOOLEAN
        BY <1>3, Zenon DEF Hangup
    <2>3. RpcTypeOK'
        BY <1>0, <1>1, <1>3, <2>1, <2>2 DEF RpcTypeOK
    <2>4. CallInv'
        BY <1>0, <1>1, <1>3, QuietStep
    <2>5. AnswerInv'
        BY <1>0, <1>1, <2>1, <2>2, NoAnswerStep
    <2>. QED
        BY <2>3, <2>4, <2>5 DEF RpcInv
<1>4. CASE /\ inbox' = inbox \cup {[id |-> callId, gen |-> gen]}
           /\ call' = [call EXCEPT !.phase = "read"]
           /\ UNCHANGED <<gen, connected, reader, result>>
    <2>1. call' \in [phase : {"read"}, attempt : 0 .. 2]
        BY <1>0, <1>4 DEF RpcTypeOK
    <2>2. RpcTypeOK'
        BY <1>0, <1>1, <1>2, <1>4, <2>1 DEF RpcTypeOK
    <2>3. Fresh'
        BY <1>0, <1>1, <1>2, <1>4 DEF Fresh, RpcTypeOK, CallIds, Working
    <2>4. Unsent'
        BY <2>1 DEF Unsent
    <2>5. AtMostOnce'
        BY <1>0, <1>1, <1>4 DEF AtMostOnce, Unsent
    <2>6. AnswerInv'
        BY <1>0, <1>1, <1>4, NoAnswerStep
    <2>. QED
        BY <2>2, <2>3, <2>4, <2>5, <2>6 DEF RpcInv, CallInv
<1>. QED
    BY <1>3, <1>4 DEF Write

\* A line is read, or none comes.
LEMMA ReadStep ==
    ASSUME RpcInv, Read \/ ReadFailure
    PROVE  RpcInv'
<1>0. RpcTypeOK /\ CallInv /\ AnswerInv /\ Fresh
    BY DEF RpcInv, CallInv
<1>1. /\ call.phase = "read" /\ Working
      /\ UNCHANGED <<callId, mutates, inbox, executed, noise>>
    BY DEF Read, ReadFailure, Working
<1>2. callId \in CallIds /\ callId # 0
    BY <1>0, <1>1, RpcAssumption DEF Fresh, RpcTypeOK, CallIds
<1>3. CASE ReadFailure
    <2>1. Hangup /\ AfterFailure(TRUE)
        BY <1>3 DEF ReadFailure
    <2>2. /\ call' \in [phase : {"idle", "redial"}, attempt : 0 .. 2]
          /\ result' \in [CallIds -> {"none", "ok", "error"}]
          /\ \A i \in CallIds : result'[i] = "ok" => result[i] = "ok"
          /\ call'.phase = "redial" => callId \notin mutates
        BY <1>0, <1>1, <2>1, AfterFailureEffect
    <2>3. reader' = <<>> /\ gen' = gen /\ connected' \in BOOLEAN
        BY <2>1, Zenon DEF Hangup
    <2>4. RpcTypeOK'
        BY <1>0, <1>1, <2>2, <2>3 DEF RpcTypeOK
    <2>5. CallInv'
        BY <1>0, <1>1, <2>2, QuietStep
    <2>6. AnswerInv'
        BY <1>0, <1>1, <2>2, <2>3, NoAnswerStep
    <2>. QED
        BY <2>4, <2>5, <2>6 DEF RpcInv
<1>4. CASE Read
    <2>1. /\ reader # <<>> /\ reader' = Tail(reader)
          /\ IF OwnAnswer(Head(reader)) THEN Return("ok") ELSE AfterFailure(TRUE)
          /\ UNCHANGED <<gen, connected>>
        BY <1>4 DEF Read
    <2>2. /\ call' \in [phase : {"idle", "redial"}, attempt : 0 .. 2]
          /\ result' \in [CallIds -> {"none", "ok", "error"}]
          /\ \A i \in CallIds : result'[i] = "ok" =>
                 result[i] = "ok" \/ (i = callId /\ OwnAnswer(Head(reader)))
          /\ call'.phase = "redial" => callId \notin mutates
        <3>1. CASE OwnAnswer(Head(reader))
            <4>1. call' \in [phase : {"idle"}, attempt : 0 .. 2]
                BY <1>0, <1>2, <2>1, <3>1, ReturnEffect
            <4>. QED
                BY <1>0, <1>2, <2>1, <3>1, <4>1, ReturnEffect
        <3>2. CASE ~OwnAnswer(Head(reader))
            BY <1>0, <1>1, <2>1, <3>2, AfterFailureEffect
        <3>. QED
            BY <3>1, <3>2
    <2>3. /\ reader \in Seq([id : 0 .. MaxCalls, ok : BOOLEAN])
          /\ Tail(reader) \in Seq([id : 0 .. MaxCalls, ok : BOOLEAN])
          /\ 1 \in DOMAIN reader /\ Head(reader) = reader[1]
          /\ \A k \in DOMAIN Tail(reader) : k + 1 \in DOMAIN reader /\ Tail(reader)[k] = reader[k + 1]
        BY <1>0, <2>1 DEF RpcTypeOK
    <2>4. connected
        BY <1>0, <2>1 DEF RpcTypeOK
    <2>5. RpcTypeOK'
        BY <1>0, <1>1, <2>1, <2>2, <2>3, <2>4 DEF RpcTypeOK
    <2>6. CallInv'
        BY <1>0, <1>1, <2>2, QuietStep
    <2>7. AnswersExecuted'
        BY <1>0, <1>1, <2>1, <2>3 DEF AnswerInv, AnswersExecuted
    <2>8. OwnAnswer(Head(reader)) => executed[callId] >= 1
        BY <1>0, <1>2, <2>3 DEF OwnAnswer, AnswerInv, AnswersExecuted
    <2>9. AnswerIsOwn'
        BY <1>0, <1>1, <2>2, <2>8 DEF AnswerInv, AnswerIsOwn, CallIds
    <2>. QED
        BY <2>5, <2>6, <2>7, <2>9 DEF RpcInv, AnswerInv
<1>. QED
    BY <1>3, <1>4

\* Core executes a request, or refuses it, and answers.
LEMMA ServeStep ==
    ASSUME RpcInv, NEW q \in inbox, Serve(q)
    PROVE  RpcInv'
<1>0. RpcTypeOK /\ CallInv /\ AnswerInv /\ Fresh /\ Unsent /\ AtMostOnce
    BY DEF RpcInv, CallInv
<1>1. PICK ok \in BOOLEAN :
          /\ executed' = IF ok THEN [executed EXCEPT ![q.id] = @ + 1] ELSE executed
          /\ reader' = IF connected /\ q.gen = gen
                       THEN Append(reader, [id |-> q.id, ok |-> ok]) ELSE reader
    BY DEF Serve
<1>2. inbox' = inbox \ {q} /\ UNCHANGED <<callId, call, mutates, gen, connected, result, noise>>
    BY DEF Serve, clientVars
<1>3. q.id \in CallIds /\ executed \in [CallIds -> Nat]
    BY <1>0 DEF RpcTypeOK
<1>4. /\ executed' \in [CallIds -> Nat]
      /\ \A i \in CallIds : executed'[i] >= executed[i] /\ (i # q.id => executed'[i] = executed[i])
      /\ executed'[q.id] <= executed[q.id] + 1
      /\ ok => executed'[q.id] >= 1
    BY <1>1, <1>3
<1>5. RpcTypeOK'
    <2>1. [id |-> q.id, ok |-> ok] \in [id : 0 .. MaxCalls, ok : BOOLEAN]
        BY <1>3, RpcAssumption DEF CallIds
    <2>2. reader' \in Seq([id : 0 .. MaxCalls, ok : BOOLEAN])
        <3>1. reader \in Seq([id : 0 .. MaxCalls, ok : BOOLEAN])
            BY <1>0 DEF RpcTypeOK
        <3>2. Append(reader, [id |-> q.id, ok |-> ok]) \in Seq([id : 0 .. MaxCalls, ok : BOOLEAN])
            BY <2>1, <3>1
        <3>. QED
            BY <1>1, <3>1, <3>2
    <2>3. ~connected => reader' = reader
        BY <1>1
    <2>. QED
        BY <1>0, <1>2, <1>4, <2>2, <2>3 DEF RpcTypeOK
<1>6. Fresh'
    <2>1. q.id <= callId
        BY <1>0 DEF Fresh
    <2>2. \A i \in CallIds : i > callId => i # q.id
        BY <1>0, <1>3, <2>1 DEF RpcTypeOK, CallIds
    <2>. QED
        BY <1>0, <1>2, <1>4, <2>2 DEF Fresh, Working
<1>7. Unsent'
    BY <1>0, <1>2, <1>4 DEF Unsent, RpcTypeOK
<1>8. AtMostOnce'
    <2>1. \A i \in mutates : i \in CallIds
        BY <1>0 DEF RpcTypeOK
    <2>2. \A i \in mutates : executed'[i] <= 1
        <3>. TAKE i \in mutates
        <3>1. CASE i = q.id
            BY <1>0, <1>3, <1>4, <3>1 DEF AtMostOnce
        <3>2. CASE i # q.id
            BY <1>0, <1>4, <2>1, <3>2 DEF AtMostOnce
        <3>. QED
            BY <3>1, <3>2
    <2>3. \A r \in inbox' : r.id \in mutates => executed'[r.id] = 0
        BY <1>0, <1>2, <1>4, <2>1 DEF AtMostOnce
    <2>. QED
        BY <1>0, <1>2, <2>2, <2>3 DEF AtMostOnce
<1>9. AnswersExecuted'
    <2>. SUFFICES ASSUME NEW k \in DOMAIN reader', reader'[k].ok, reader'[k].id # 0
                  PROVE  executed'[reader'[k].id] >= 1
        BY DEF AnswersExecuted
    <2>1. reader \in Seq([id : 0 .. MaxCalls, ok : BOOLEAN])
        BY <1>0 DEF RpcTypeOK
    <2>2. CASE k \in DOMAIN reader /\ reader'[k] = reader[k]
        <3>1. reader[k].id \in CallIds
            <4>0. k \in 1 .. Len(reader)
                BY <2>1, <2>2
            <4>1. reader[k] \in [id : 0 .. MaxCalls, ok : BOOLEAN]
                BY <2>1, <4>0, ListElement
            <4>2. reader[k].id \in 0 .. MaxCalls /\ reader[k].id # 0
                BY <2>2, <4>1
            <4>. QED
                BY <4>2, RpcAssumption DEF CallIds
        <3>2. executed[reader[k].id] >= 1
            BY <1>0, <2>2 DEF AnswerInv, AnswersExecuted
        <3>. QED
            BY <1>3, <1>4, <2>2, <3>1, <3>2
    <2>3. CASE reader'[k] = [id |-> q.id, ok |-> ok]
        BY <1>4, <2>3
    <2>. QED
        BY <1>1, <2>1, <2>2, <2>3
<1>10. AnswerIsOwn'
    BY <1>0, <1>2, <1>3, <1>4 DEF AnswerInv, AnswerIsOwn, CallIds
<1>. QED
    BY <1>5, <1>6, <1>7, <1>8, <1>9, <1>10 DEF RpcInv, CallInv, AnswerInv

\* A line that answers no request.
LEMMA NoiseStep ==
    ASSUME RpcInv, Noise
    PROVE  RpcInv'
<1>0. RpcTypeOK /\ CallInv /\ AnswerInv
    BY DEF RpcInv
<1>1. /\ connected /\ noise < MaxNoise /\ noise' = noise + 1
      /\ reader' = Append(reader, [id |-> 0, ok |-> TRUE])
      /\ UNCHANGED <<callId, call, mutates, gen, connected, inbox, executed, result>>
    BY DEF Noise, clientVars
<1>2. reader \in Seq([id : 0 .. MaxCalls, ok : BOOLEAN])
    BY <1>0 DEF RpcTypeOK
<1>3. [id |-> 0, ok |-> TRUE] \in [id : 0 .. MaxCalls, ok : BOOLEAN]
    BY RpcAssumption
<1>4. reader' \in Seq([id : 0 .. MaxCalls, ok : BOOLEAN])
    BY <1>1, <1>2, <1>3
<1>5. noise' \in 0 .. MaxNoise
    BY <1>0, <1>1, RpcAssumption DEF RpcTypeOK
<1>6. RpcTypeOK'
    BY <1>0, <1>1, <1>4, <1>5 DEF RpcTypeOK
<1>7. CallInv'
    BY <1>0, <1>1, QuietStep DEF Working
<1>8. \A k \in DOMAIN reader' :
          (k \in DOMAIN reader /\ reader'[k] = reader[k]) \/ reader'[k] = [id |-> 0, ok |-> TRUE]
    BY <1>1, <1>2
<1>9. AnswersExecuted'
    BY <1>0, <1>1, <1>8 DEF AnswerInv, AnswersExecuted
<1>10. AnswerIsOwn'
    BY <1>0, <1>1 DEF AnswerInv, AnswerIsOwn, CallIds
<1>. QED
    BY <1>6, <1>7, <1>9, <1>10 DEF RpcInv, AnswerInv

-----------------------------------------------------------------------------
\* No call has been made.
LEMMA RpcInvInit == RpcInit => RpcInv
<1>. SUFFICES ASSUME RpcInit PROVE RpcInv
    OBVIOUS
<1>1. /\ callId = 0 /\ call = Idle /\ mutates = {} /\ connected \in BOOLEAN /\ gen \in {0, 1}
      /\ reader = <<>> /\ inbox = {} /\ noise = 0
      /\ executed = [i \in CallIds |-> 0] /\ result = [i \in CallIds |-> "none"]
    BY DEF RpcInit
<1>2. <<>> \in Seq([id : 0 .. MaxCalls, ok : BOOLEAN])
    OBVIOUS
<1>3. RpcTypeOK
    BY <1>1, <1>2, RpcAssumption DEF RpcTypeOK, Idle
<1>4. CallInv
    BY <1>1 DEF CallInv, Fresh, Unsent, AtMostOnce, Working, Idle
<1>5. AnswerInv
    BY <1>1 DEF AnswerInv, AnswersExecuted, AnswerIsOwn
<1>. QED
    BY <1>3, <1>4, <1>5 DEF RpcInv

\* Every step of callers, reader, connection and Core preserves the invariant.
LEMMA RpcInvStep == RpcInv /\ [RpcNext]_rpcVars => RpcInv'
<1>. SUFFICES ASSUME RpcInv, [RpcNext]_rpcVars PROVE RpcInv'
    OBVIOUS
<1>1. CASE UNCHANGED rpcVars
    <2>1. /\ UNCHANGED <<callId, call, mutates, gen, connected>>
          /\ UNCHANGED <<reader, inbox, executed, result, noise>>
        BY <1>1 DEF rpcVars, clientVars
    <2>2. RpcTypeOK'
        BY <2>1 DEF RpcInv, RpcTypeOK
    <2>3. CallInv'
        BY <2>1, QuietStep DEF RpcInv, Working
    <2>4. AnswerInv'
        BY <2>1, NoAnswerStep DEF RpcInv
    <2>. QED
        BY <2>2, <2>3, <2>4 DEF RpcInv
<1>2. CASE \E mutating \in BOOLEAN : Call(mutating)
    BY <1>2, CallStep
<1>3. CASE ClientStep
    BY <1>3, DialStep, WriteStep, ReadStep DEF ClientStep
<1>4. CASE \E q \in inbox : Serve(q)
    BY <1>4, ServeStep
<1>5. CASE Noise
    BY <1>5, NoiseStep
<1>. QED
    BY <1>1, <1>2, <1>3, <1>4, <1>5 DEF RpcNext

\* RpcInv is an inductive invariant of the client and Core.
THEOREM RpcInvariant == RpcSpec => []RpcInv
BY RpcInvInit, RpcInvStep, PTL DEF RpcSpec

\* For any number of calls: whatever is lost, late or repeated, Core executes
\* the request of a mutating call at most once, because Call retries only
\* what it has not written.
THEOREM MutatingCallOnce == RpcSpec => []MutateOnce
<1>1. RpcInv => MutateOnce
    BY DEF RpcInv, CallInv, AtMostOnce, MutateOnce
<1>. QED
    BY <1>1, RpcInvariant, PTL

\* For any number of calls and unasked lines: a call that returns a result
\* was executed by Core, because an answer with another id is an error.
THEOREM ResultIsOwn == RpcSpec => []AnswerIsOwn
<1>1. RpcInv => AnswerIsOwn
    BY DEF RpcInv, AnswerInv
<1>. QED
    BY <1>1, RpcInvariant, PTL

=============================================================================
