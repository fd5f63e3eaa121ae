----------------------------- MODULE PeerLinks -----------------------------
(***************************************************************************)
(* The links between gateways (NodesManager): dialling, the announcements  *)
(* by which two nodes register each other, heartbeats, the clean-up when a *)
(* connection ends, dead peers found by a broadcast, and reconnect timers. *)
(* A connection's handler knows its peer by an address.  On the side that  *)
(* dialled it is the peer's announced address; on the side that accepted   *)
(* it is the remote end of the socket, which matches no registered peer    *)
(* and where nobody answers the dials it leads to.  Gossip names to a peer *)
(* the gateways other than the sender and so adds nothing between two.     *)
(***************************************************************************)
EXTENDS Integers, FiniteSets

CONSTANTS Members,    \* the gateways
          Dials,      \* pairs <<n, m>>: n has m in its list of peers
          Links,      \* identities of connections, used again when free
          PongWindow, \* peerLivePongWindow, in heartbeat periods (3 in the code)
          PingFailuresAllowed, \* failures before a connection is closed (2)
          MaxLosses   \* bound on connections lost and dials that fail

ASSUME LinksAssumption == Dials \subseteq Members \X Members /\ {PongWindow, PingFailuresAllowed, MaxLosses} \subseteq Nat

VARIABLES link,             \* the connections
          connectedNodes,   \* what each node has registered of each other node
          reconnectTimers,  \* peers each node will dial again
          expired,          \* peers whose timer has fired
          dialing,          \* peers each node has found missing and is dialling
          due,              \* connections whose heartbeat ticker has fired
          losses            \* history: connections lost and dials that failed

linkVars == <<link, connectedNodes, reconnectTimers, expired, dialing, due, losses>>

Ends == {"dialer", "acceptor"}
Other(e) == IF e = "dialer" THEN "acceptor" ELSE "dialer"
NoLink == [up |-> FALSE, dialer |-> "", acceptor |-> "", readers |-> {}, beats |-> FALSE, hello |-> {}]
NoEntry == [over |-> "", quiet |-> 0, failures |-> 0]
Pairs == {p \in Members \X Members : p[1] # p[2]}

Registered(n, m) == connectedNodes[n][m] # NoEntry
Live(n, m) == Registered(n, m) /\ link[connectedNodes[n][m].over].up

\* Dials and announcements are over well within the 5 s of a reconnect timer
\* and the 10 s of a heartbeat period.
Quick == (\A l \in Links : link[l].hello = {}) /\ \A n \in Members : dialing[n] = {}

Free(l) ==
    /\ ~link[l].up /\ link[l].readers = {}
    /\ \A p \in Pairs : connectedNodes[p[1]][p[2]].over # l

LinksInit ==
    /\ link = [l \in Links |-> NoLink]
    /\ connectedNodes = [n \in Members |-> [m \in Members |-> NoEntry]]
    /\ reconnectTimers = [n \in Members |-> {}]
    /\ expired = [n \in Members |-> {m \in Members : <<n, m>> \in Dials}]
    /\ dialing = [n \in Members |-> {}]
    /\ due = {} /\ losses = 0

-----------------------------------------------------------------------------
\* The timer of scheduleReconnect fires (ConnectToPeers starts the first dials
\* in the same way): tryConnect stops here for a peer that is registered.
ConnectToNode(n, m) ==
    /\ m \in expired[n]
    /\ expired' = [expired EXCEPT ![n] = @ \ {m}]
    /\ dialing' = [dialing EXCEPT ![n] = IF Registered(n, m) THEN @ ELSE @ \cup {m}]
    /\ UNCHANGED <<link, connectedNodes, reconnectTimers, due, losses>>

\* Five seconds pass.
ReconnectDelay ==
    /\ Quick /\ \E n \in Members : reconnectTimers[n] # {}
    /\ reconnectTimers' = [n \in Members |-> {}]
    /\ expired' = [n \in Members |-> expired[n] \cup reconnectTimers[n]]
    /\ UNCHANGED <<link, connectedNodes, dialing, due, losses>>

\* Mutant: a timer that has fired is not deleted, and stops the next one.
timerNeverDeleted(n, peers) == reconnectTimers

scheduleReconnect(n, peers) == [reconnectTimers EXCEPT ![n] = @ \cup peers]

\* tryConnect dials, both ends start handlePeerConnection, and the dialer
\* announces itself; a dial that fails is tried again later.
tryConnect(n, m) ==
    /\ m \in dialing[n]
    /\ dialing' = [dialing EXCEPT ![n] = @ \ {m}]
    /\ \/ /\ \E l \in Links :
              /\ Free(l) /\ l = CHOOSE f \in Links : Free(f)
              /\ link' = [link EXCEPT ![l] = [up |-> TRUE, dialer |-> n, acceptor |-> m,
                                              readers |-> Ends, beats |-> TRUE, hello |-> {"acceptor"}]]
          /\ UNCHANGED <<reconnectTimers, losses>>
       \/ /\ losses < MaxLosses /\ losses' = losses + 1
          /\ reconnectTimers' = scheduleReconnect(n, {m})
          /\ UNCHANGED link
    /\ UNCHANGED <<expired, connectedNodes, due>>

\* handleNodeAnnounce: a new peer is registered over this connection and gets
\* an announcement back; one that is registered under the same address keeps
\* the connection it has, and gets none.
handleNodeAnnounce(l, end) ==
    LET n == link[l][end]
        m == link[l][Other(end)]
    IN  /\ end \in link[l].hello /\ end \in link[l].readers
        /\ IF Registered(n, m)
           THEN /\ link' = [link EXCEPT ![l].hello = @ \ {end}]
                /\ UNCHANGED connectedNodes
           ELSE /\ link' = [link EXCEPT ![l].hello = (@ \ {end}) \cup {Other(end)}]
                /\ connectedNodes' = [connectedNodes EXCEPT ![n][m] = [over |-> l, quiet |-> 0, failures |-> 0]]
        /\ UNCHANGED <<expired, reconnectTimers, dialing, due, losses>>

\* The network cuts a connection.
Cut(l) ==
    /\ link[l].up /\ losses < MaxLosses
    /\ link' = [link EXCEPT ![l].up = FALSE, ![l].hello = {}]
    /\ losses' = losses + 1
    /\ UNCHANGED <<expired, connectedNodes, reconnectTimers, dialing, due>>

\* The read loop of handlePeerConnection ends.  The dialer removes the peer
\* registered under the address it dialled, whatever connection the entry is
\* about, and dials again; the acceptor finds no peer under its address.
ReaderEnds(l, end) ==
    LET n == link[l].dialer
        m == link[l].acceptor
    IN  /\ ~link[l].up /\ end \in link[l].readers
        /\ link' = [link EXCEPT ![l].readers = @ \ {end}, ![l].beats = @ /\ end # "dialer"]
        /\ due' = IF end = "dialer" THEN due \ {l} ELSE due
        /\ IF end = "dialer"
           THEN /\ connectedNodes' = [connectedNodes EXCEPT ![n][m] = NoEntry]
                /\ reconnectTimers' = scheduleReconnect(n, {m})
           ELSE UNCHANGED <<connectedNodes, reconnectTimers>>
        /\ UNCHANGED <<expired, dialing, losses>>

\* Ten seconds pass: every peer has been quiet for longer, every heartbeat
\* ticker fires.
HeartbeatPeriod ==
    /\ due = {} /\ Quick
    /\ connectedNodes' = [n \in Members |-> [m \in Members |->
        IF Registered(n, m) /\ connectedNodes[n][m].quiet <= PongWindow
        THEN [connectedNodes[n][m] EXCEPT !.quiet = @ + 1] ELSE connectedNodes[n][m]]]
    /\ due' = {l \in Links : link[l].beats}
    /\ UNCHANGED <<expired, link, reconnectTimers, dialing, losses>>

\* The pong handler of the connection the ping went out on, which belongs to
\* the peer only at the end that dialled.
Ponged(n, entry) ==
    IF link[entry.over].dialer = n THEN [entry EXCEPT !.quiet = 0, !.failures = 0] ELSE entry

\* "Too many ping failures".
TooMany(failures) == failures > PingFailuresAllowed

\* The heartbeat goroutine of a dialled connection pings the peer registered
\* under its address, over the connection of that entry, and closes that
\* connection after too many periods without a pong.
Heartbeat(l) ==
    LET n == link[l].dialer
        m == link[l].acceptor
        entry == connectedNodes[n][m]
        failures == entry.failures + IF entry.quiet > PongWindow THEN 1 ELSE 0
    IN  /\ l \in due /\ link[l].beats
        /\ due' = due \ {l}
        /\ IF entry = NoEntry THEN UNCHANGED <<link, connectedNodes, losses>>
           ELSE IF ~link[entry.over].up
           THEN link' = [link EXCEPT ![l].beats = FALSE] /\ UNCHANGED <<connectedNodes, losses>>
           ELSE IF TooMany(failures)
           THEN /\ losses < MaxLosses /\ losses' = losses + 1
                /\ link' = [link EXCEPT ![entry.over].up = FALSE, ![entry.over].hello = {}, ![l].beats = FALSE]
                /\ connectedNodes' = [connectedNodes EXCEPT ![n][m].failures = failures]
           ELSE /\ connectedNodes' = [connectedNodes EXCEPT ![n][m] = Ponged(n, [entry EXCEPT !.failures = failures])]
                /\ UNCHANGED <<link, losses>>
        /\ UNCHANGED <<expired, reconnectTimers, dialing>>

\* BroadcastBlockchainEvent fails to write to some peers: removeDeadPeers.
BroadcastBlockchainEvent(n) ==
    LET dead == {m \in Members : Registered(n, m) /\ ~Live(n, m)}
    IN  /\ dead # {}
        /\ connectedNodes' = [connectedNodes EXCEPT ![n] = [m \in Members |-> IF m \in dead THEN NoEntry ELSE @[m]]]
        /\ reconnectTimers' = scheduleReconnect(n, dead)
        /\ UNCHANGED <<expired, link, dialing, due, losses>>

LinksNext ==
    \/ \E n, m \in Members : ConnectToNode(n, m) \/ tryConnect(n, m)
    \/ \E l \in Links :
        \/ Cut(l) \/ Heartbeat(l)
        \/ \E end \in Ends : handleNodeAnnounce(l, end) \/ ReaderEnds(l, end)
    \/ HeartbeatPeriod \/ ReconnectDelay
    \/ \E n \in Members : BroadcastBlockchainEvent(n)

\* Dialling, announcing, noticing a closed connection or a failed write, and
\* the delay before the next dial.
RepairStep ==
    \/ \E n, m \in Members : ConnectToNode(n, m) \/ tryConnect(n, m)
    \/ \E l \in Links : \E end \in Ends : handleNodeAnnounce(l, end) \/ ReaderEnds(l, end)
    \/ ReconnectDelay
    \/ \E n \in Members : BroadcastBlockchainEvent(n)

HeartbeatStep == HeartbeatPeriod \/ \E l \in Links : Heartbeat(l)

\* Timers fire, reads of a closed connection fail and events are broadcast
\* again and again; which goroutine runs first is left open.
LinksFairness ==
    /\ WF_linkVars(RepairStep)
    /\ WF_linkVars(HeartbeatStep)

LinksSpec == LinksInit /\ [][LinksNext]_linkVars /\ LinksFairness

-----------------------------------------------------------------------------
(* Properties. *)

\* The types of the link state: a connection is closed at the first failure
\* beyond the allowed ones.  Its last conjunct says that the bound on
\* identities hides no dial.
LinksTypeOK ==
    /\ \A l \in Links : link[l].up => link[l].readers = Ends /\ link[l].hello \subseteq Ends
    /\ \A p \in Pairs : Registered(p[1], p[2]) =>
        LET entry == connectedNodes[p[1]][p[2]]
        IN  /\ {link[entry.over].dialer, link[entry.over].acceptor} = {p[1], p[2]}
            /\ entry.quiet \in 0..PongWindow + 1 /\ entry.failures \in 0..PingFailuresAllowed + 1
    /\ (\E n \in Members : dialing[n] # {}) => \E l \in Links : Free(l)

\* Of two gateways of which one lists the other, one can send to the other.
Reachable == \A p \in Dials : Live(p[1], p[2]) \/ Live(p[2], p[1])

\* Two gateways of which one lists the other are never cut off for good: once
\* connections stop being cut, at least one of them can send to the other,
\* although an entry may be removed because of another connection's end and a
\* peer that is registered does not answer an announcement.
OneDirectionHeals == []<>Reachable
=============================================================================
