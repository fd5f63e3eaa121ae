----------------------------- MODULE Messenger -----------------------------
(***************************************************************************)
(* The websocket server of one gateway: sockets that register an address   *)
(* with or without a proof of ownership, several devices per address,      *)
(* direct messages, messages routed from peers and contact requests, fan-  *)
(* out to the sockets of an address, and the buffer for an address that is *)
(* offline.  Every handler releases Server.mu between its steps, so a      *)
(* registration may fall between the look-up of the recipients and the     *)
(* buffering.  A write succeeds as long as the socket is open.             *)
(***************************************************************************)
EXTENDS Integers, Sequences, FiniteSets, Functions

CONSTANTS Sockets,
          DeviceOf,      \* the device each socket belongs to
          Addrs,
          Msgs,          \* messages, each sent once
          To,            \* their recipients
          BufferMax      \* offlineMessageMaxPerRecipient

ASSUME MessengerAssumption ==
    /\ To \in [Msgs -> Addrs]
    /\ BufferMax \in Nat \ {0} /\ "" \notin Addrs

VARIABLES socket,        \* connection and registration of each socket
          clients,       \* sockets in Server.clients
          clientsByAddr, \* sockets registered for each address
          offlineMessages,
          taken,         \* buffered messages a registration still has to write
          sending,       \* how far the handler of each message has come
          received,      \* history: messages some device got
          dropped        \* history: overflowed, expired, or cut off with the socket

messengerVars == <<socket, clients, clientsByAddr, offlineMessages, taken, sending, received, dropped>>

\* "leaving": told to log out, and about to be closed by the server.
SocketType == [state : {"new", "accepted", "open", "leaving", "closed"},
               address : Addrs \cup {""}]
Phases == {"no", "fanOut", "clean", "cleanBuffer", "buffer", "done"}
Writable(c) == socket[c].state \in {"accepted", "open", "leaving"}

\* A socket's messages are handled one after the other.
Reading(c) ==
    /\ Writable(c) /\ taken[c] = <<>>
    /\ \A m \in Msgs : sending[m].by = {c} => sending[m].phase = "done"

MessengerInit ==
    /\ socket = [c \in Sockets |-> [state |-> "new", address |-> ""]]
    /\ clients = {}
    /\ clientsByAddr = [a \in Addrs |-> {}]
    /\ offlineMessages = [a \in Addrs |-> <<>>]
    /\ taken = [c \in Sockets |-> <<>>]
    /\ sending = [m \in Msgs |-> [phase |-> "no", via |-> "", by |-> {}, dead |-> {}]]
    /\ received = {} /\ dropped = {}

-----------------------------------------------------------------------------
(* Connections. *)

handleWebSocket(c) ==
    /\ socket[c].state = "new"
    /\ socket' = [socket EXCEPT ![c].state = "accepted"]
    /\ clients' = clients \cup {c}
    /\ UNCHANGED <<clientsByAddr, offlineMessages, taken, sending, received, dropped>>

\* handleWebSocket starts the reader as a goroutine and returns, which runs its
\* deferred clean-up while the socket is in use: the socket leaves the list of
\* clients, and the index if the reader has registered it already.
HandlerReturns(c) ==
    /\ c \in clients
    /\ socket' = [socket EXCEPT ![c].state = IF @ = "accepted" THEN "open" ELSE @]
    /\ clients' = clients \ {c}
    /\ clientsByAddr' = [a \in Addrs |-> IF a = socket[c].address THEN clientsByAddr[a] \ {c} ELSE clientsByAddr[a]]
    /\ UNCHANGED <<offlineMessages, taken, sending, received, dropped>>

\* handleClientMessages meets a read error, or the server closes a socket it
\* has told to log out.  The registration stays until a write fails.
Close(c) ==
    /\ Writable(c)
    /\ socket' = [socket EXCEPT ![c].state = "closed"]
    /\ UNCHANGED <<clients, clientsByAddr, offlineMessages, taken, sending, received, dropped>>

\* A socket logs another device of its address out.
handleDevicesLogout(c, target) ==
    /\ Reading(c) /\ socket[c].address # ""
    /\ target \in clientsByAddr[socket[c].address] /\ Writable(target)
    /\ socket' = [socket EXCEPT ![target].state = "closed"]
    /\ UNCHANGED <<clients, clientsByAddr, offlineMessages, taken, sending, received, dropped>>

\* Sockets of the same device that are registered for the address.
Replaced(c, a) == {d \in clientsByAddr[a] \ {c} : DeviceOf[d] = DeviceOf[c]}

\* addClientToAddrLocked on the sockets: one of the same device loses its address,
\* and a goroutine will close it.
addClientToAddrLocked(c, a) ==
    [d \in Sockets |->
        IF d = c THEN [socket[c] EXCEPT !.address = a]
        ELSE IF d \in Replaced(c, a)
             THEN [state |-> IF Writable(d) THEN "leaving" ELSE "closed", address |-> ""]
        ELSE socket[d]]

\* Mutant: the address a socket had before keeps it.
indexKeepsOld(c, a) ==
    [clientsByAddr EXCEPT ![a] = (@ \ Replaced(c, a)) \cup {c}]

\* The index after c registered a: removeClientFromAddrLocked for its former
\* address, then the new entry.
Reindexed(c, a) ==
    [b \in Addrs |->
        IF b = a THEN (clientsByAddr[a] \ Replaced(c, a)) \cup {c}
        ELSE IF b = socket[c].address THEN clientsByAddr[b] \ {c}
        ELSE clientsByAddr[b]]

\* bindClientRegister under the lock.  It takes what is buffered for the address.
\* Authenticated, set and cleared with the address, is read by no handler here.
bindClientRegister(c, a) ==
    /\ Reading(c)
    /\ socket' = addClientToAddrLocked(c, a)
    /\ clientsByAddr' = Reindexed(c, a)
    /\ taken' = [taken EXCEPT ![c] = offlineMessages[a]]
    /\ offlineMessages' = [offlineMessages EXCEPT ![a] = <<>>]
    /\ UNCHANGED <<clients, sending, received, dropped>>

\* ... and writes them one by one; a write error ends it, and the rest is gone.
DeliverBuffered(c) ==
    /\ taken[c] # <<>>
    /\ IF Writable(c)
       THEN /\ received' = received \cup {Head(taken[c])}
            /\ taken' = [taken EXCEPT ![c] = Tail(@)]
            /\ UNCHANGED dropped
       ELSE /\ dropped' = dropped \cup Range(taken[c])
            /\ taken' = [taken EXCEPT ![c] = <<>>]
            /\ UNCHANGED received
    /\ UNCHANGED <<socket, clients, clientsByAddr, offlineMessages, sending>>

-----------------------------------------------------------------------------
(* Messages. *)

\* handleDirectMessage of a registered sender looks up the recipients: none,
\* and the message will be buffered (and routed to the peers); else fanOutJSON.
handleDirectMessage(c, m) ==
    /\ sending[m].phase = "no"
    /\ Reading(c) /\ socket[c].address # ""
    /\ sending' = [sending EXCEPT ![m].via = "direct", ![m].by = {c},
                                  ![m].phase = IF clientsByAddr[To[m]] = {} THEN "buffer" ELSE "fanOut"]
    /\ UNCHANGED <<socket, clients, clientsByAddr, offlineMessages, taken, received, dropped>>

FanOutAtOnce(m, via) ==
    /\ sending[m].phase = "no"
    /\ sending' = [sending EXCEPT ![m].via = via, ![m].phase = "fanOut"]
    /\ UNCHANGED <<socket, clients, clientsByAddr, offlineMessages, taken, received, dropped>>

\* A message a peer has routed here.
HandleIncomingPeerMessage(m) == FanOutAtOnce(m, "peer")

\* A contact request for the address.
DeliverContactRequest(m) == FanOutAtOnce(m, "contact")

\* Mutant: the message counts as delivered although no write succeeded.
afterAnyWrite(ok) == "clean"

\* okCount = 0 leads to the buffer.
AfterWrites(ok) == IF ok = {} THEN "cleanBuffer" ELSE "clean"

\* fanOutJSON writes to every socket of the address.
fanOutJSON(m) ==
    LET ok == {c \in clientsByAddr[To[m]] : Writable(c)}
    IN  /\ sending[m].phase = "fanOut"
        /\ received' = IF ok = {} THEN received ELSE received \cup {m}
        /\ sending' = [sending EXCEPT ![m].phase = AfterWrites(ok), ![m].dead = clientsByAddr[To[m]] \ ok]
        /\ UNCHANGED <<socket, clients, clientsByAddr, offlineMessages, taken, dropped>>

\* It then takes the lock and forgets the sockets that failed.
RemoveDead(m) ==
    /\ sending[m].phase \in {"clean", "cleanBuffer"}
    /\ clientsByAddr' = [a \in Addrs |-> clientsByAddr[a] \ {c \in sending[m].dead : socket[c].address = a}]
    /\ clients' = clients \ sending[m].dead
    /\ sending' = [sending EXCEPT ![m].phase = IF @ = "clean" THEN "done" ELSE "buffer", ![m].dead = {}]
    /\ UNCHANGED <<socket, offlineMessages, taken, received, dropped>>

\* Mutant: a full buffer grows by one more message.
keptPlusOne(m, all) ==
    IF sending[m].via = "contact" \/ Len(all) <= BufferMax + 1 THEN all
    ELSE SubSeq(all, Len(all) - BufferMax, Len(all))

\* The newest messages a full buffer keeps; a contact request is appended
\* without the limit.
Kept(m, all) ==
    IF sending[m].via = "contact" \/ Len(all) <= BufferMax THEN all
    ELSE SubSeq(all, Len(all) - BufferMax + 1, Len(all))

\* The message is appended to the buffer of the address.
Buffer(m) ==
    LET all == Append(offlineMessages[To[m]], m)
    IN  /\ sending[m].phase = "buffer"
        /\ offlineMessages' = [offlineMessages EXCEPT ![To[m]] = Kept(m, all)]
        /\ dropped' = dropped \cup (Range(all) \ Range(Kept(m, all)))
        /\ sending' = [sending EXCEPT ![m].phase = "done"]
        /\ UNCHANGED <<socket, clients, clientsByAddr, taken, received>>

\* The janitor: what has been buffered for 24 hours goes.  (A registration
\* drops it too; that is this step just before the registration.)
pruneExpiredOfflineMessages ==
    \E a \in Addrs : \E n \in 1..Len(offlineMessages[a]) :
        /\ offlineMessages' = [offlineMessages EXCEPT ![a] = SubSeq(@, n + 1, Len(@))]
        /\ dropped' = dropped \cup {offlineMessages[a][i] : i \in 1..n}
        /\ UNCHANGED <<socket, clients, clientsByAddr, taken, sending, received>>

MessengerNext ==
    \/ \E c \in Sockets :
        \/ handleWebSocket(c) \/ HandlerReturns(c) \/ Close(c) \/ DeliverBuffered(c)
        \/ \E d \in Sockets : handleDevicesLogout(c, d)
        \/ \E a \in Addrs : bindClientRegister(c, a)
        \/ \E m \in Msgs : handleDirectMessage(c, m)
    \/ \E m \in Msgs : HandleIncomingPeerMessage(m) \/ DeliverContactRequest(m) \/ fanOutJSON(m) \/ RemoveDead(m) \/ Buffer(m)
    \/ pruneExpiredOfflineMessages

MessengerSpec == MessengerInit /\ [][MessengerNext]_messengerVars

-----------------------------------------------------------------------------
(* Properties. *)

\* The types of the server's state; messages other than contact requests never
\* fill a buffer beyond offlineMessageMaxPerRecipient.
MessengerTypeOK ==
    /\ socket \in [Sockets -> SocketType]
    /\ clients \subseteq Sockets
    /\ clientsByAddr \in [Addrs -> SUBSET Sockets]
    /\ \A a \in Addrs :
        /\ Range(offlineMessages[a]) \subseteq {m \in Msgs : To[m] = a}
        /\ Len(SelectSeq(offlineMessages[a], LAMBDA m : sending[m].via # "contact")) <= BufferMax
    /\ \A c \in Sockets : Range(taken[c]) \subseteq Msgs
    /\ \A m \in Msgs :
        sending[m].phase \in Phases /\ sending[m].by \cup sending[m].dead \subseteq Sockets

\* The index by address agrees with the sockets: a socket is found under an
\* address only while that is its address, through re-registrations, replaced
\* devices, the clean-up of handleWebSocket, and the removal after failed
\* writes, which uses a list made before the lock was taken again.  And a device
\* has one session at an address: registering it again replaces the old socket,
\* whichever of them was first to connect or is still to be closed.
AddrIndexSound ==
    \A a \in Addrs : \A c \in clientsByAddr[a] :
        /\ socket[c].address = a
        /\ \A d \in clientsByAddr[a] : DeviceOf[c] = DeviceOf[d] => c = d

\* A message whose handler has answered is accounted for: a device got it, it
\* is buffered, a registration is delivering it, or it was dropped at one of
\* the three places where the code drops messages.
AcceptedAccountedFor ==
    \A m \in Msgs : sending[m].phase = "done" =>
        \/ m \in received \cup dropped
        \/ \E a \in Addrs : m \in Range(offlineMessages[a])
        \/ \E c \in Sockets : m \in Range(taken[c])
=============================================================================
