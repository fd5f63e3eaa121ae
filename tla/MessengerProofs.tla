--------------------------- MODULE MessengerProofs --------------------------
(***************************************************************************)
(* Proofs about the websocket server, for any number of sockets, addresses *)
(* and messages.                                                           *)
(***************************************************************************)
EXTENDS Messenger, TLAPS

-----------------------------------------------------------------------------
(* The websocket server.  The index by address holds by itself.             *)

IndexInv ==
    /\ socket \in [Sockets -> SocketType]
    /\ clientsByAddr \in [Addrs -> SUBSET Sockets]
    /\ AddrIndexSound

\* The end of a buffer.
LEMMA BufferEnd ==
    ASSUME NEW S, NEW s \in Seq(S), NEW n \in 1 .. Len(s) + 1
    PROVE  /\ SubSeq(s, n, Len(s)) \in Seq(S) /\ Len(SubSeq(s, n, Len(s))) = Len(s) - n + 1
           /\ \A i \in 1 .. Len(s) - n + 1 : SubSeq(s, n, Len(s))[i] = s[n + i - 1]
OBVIOUS

\* Steps that leave the addresses alone and register nobody.
LEMMA IndexShrinks ==
    ASSUME IndexInv, socket' \in [Sockets -> SocketType],
           \A c \in Sockets : socket'[c].address = socket[c].address,
           clientsByAddr' \in [Addrs -> SUBSET Sockets],
           \A a \in Addrs : clientsByAddr'[a] \subseteq clientsByAddr[a]
    PROVE  IndexInv'
<1>1. ASSUME NEW a \in Addrs, NEW c \in clientsByAddr'[a]
      PROVE  /\ socket'[c].address = a
             /\ \A d \in clientsByAddr'[a] : DeviceOf[c] = DeviceOf[d] => c = d
    <2>1. c \in clientsByAddr[a] /\ c \in Sockets
        BY DEF IndexInv
    <2> QED
        BY <2>1 DEF IndexInv, AddrIndexSound
<1> QED
    BY <1>1 DEF IndexInv, AddrIndexSound

\* A changed connection state keeps the address.
LEMMA StateOnly ==
    ASSUME socket \in [Sockets -> SocketType], NEW c \in Sockets,
           NEW st \in {"new", "accepted", "open", "leaving", "closed"},
           socket' = [socket EXCEPT ![c].state = st]
    PROVE  socket' \in [Sockets -> SocketType] /\ \A d \in Sockets : socket'[d].address = socket[d].address
<1>1. socket[c] \in SocketType
    OBVIOUS
<1>2. [socket[c] EXCEPT !.state = st] \in SocketType /\ [socket[c] EXCEPT !.state = st].address = socket[c].address
    BY <1>1 DEF SocketType
<1> QED
    BY <1>2

\* bindClientRegister: the former address loses the socket, the new one loses
\* the former socket of the device.
LEMMA RegisterKeepsIndex ==
    ASSUME IndexInv, NEW c \in Sockets, NEW a \in Addrs, bindClientRegister(c, a)
    PROVE  IndexInv'
<1>1. socket' = addClientToAddrLocked(c, a)
    BY DEF bindClientRegister
<1>2. /\ clientsByAddr' = Reindexed(c, a) /\ socket \in [Sockets -> SocketType]
      /\ clientsByAddr \in [Addrs -> SUBSET Sockets]
    BY DEF bindClientRegister, IndexInv
<1>3. socket' \in [Sockets -> SocketType]
    <2>1. [socket[c] EXCEPT !.address = a] \in SocketType
        BY <1>2 DEF SocketType
    <2>2. \A d \in Sockets :
            [state |-> IF Writable(d) THEN "leaving" ELSE "closed", address |-> ""] \in SocketType
        BY DEF SocketType
    <2> QED
        BY <1>1, <1>2, <2>1, <2>2 DEF addClientToAddrLocked
<1>4. /\ socket'[c].address = a
      /\ \A d \in Sockets \ {c} : d \notin Replaced(c, a) => socket'[d] = socket[d]
    <2>1. [socket[c] EXCEPT !.address = a].address = a
        BY <1>2 DEF SocketType
    <2> QED
        BY <1>1, <2>1 DEF addClientToAddrLocked
<1>5. /\ clientsByAddr' \in [Addrs -> SUBSET Sockets]
      /\ clientsByAddr'[a] = (clientsByAddr[a] \ Replaced(c, a)) \cup {c}
      /\ \A b \in Addrs \ {a} : clientsByAddr'[b] = IF b = socket[c].address THEN clientsByAddr[b] \ {c} ELSE clientsByAddr[b]
    BY <1>2 DEF Reindexed
<1>6. ASSUME NEW d \in clientsByAddr'[a]
      PROVE  socket'[d].address = a /\ \A e \in clientsByAddr'[a] : DeviceOf[d] = DeviceOf[e] => d = e
    <2>1. d \in Sockets /\ (d = c \/ (d \in clientsByAddr[a] /\ d \notin Replaced(c, a) /\ d # c))
        BY <1>5
    <2>2. socket'[d].address = a
        BY <1>4, <2>1 DEF IndexInv, AddrIndexSound
    <2>3. ASSUME NEW e \in clientsByAddr'[a], DeviceOf[d] = DeviceOf[e] PROVE d = e
        <3>1. e = c \/ (e \in clientsByAddr[a] /\ e \notin Replaced(c, a) /\ e # c)
            BY <1>5
        <3> QED
            BY <2>1, <2>3, <3>1 DEF IndexInv, AddrIndexSound, Replaced
    <2> QED
        BY <2>2, <2>3
<1>7. ASSUME NEW b \in Addrs \ {a}, NEW d \in clientsByAddr'[b]
      PROVE  socket'[d].address = b /\ \A e \in clientsByAddr'[b] : DeviceOf[d] = DeviceOf[e] => d = e
    <2>1. clientsByAddr'[b] \subseteq clientsByAddr[b] /\ d \in clientsByAddr[b] /\ socket[d].address = b
        BY <1>5 DEF IndexInv, AddrIndexSound
    <2>2. d # c
        BY <1>5, <2>1
    <2>3. d \notin Replaced(c, a)
        BY <2>1 DEF Replaced, IndexInv, AddrIndexSound
    <2> QED
        BY <1>2, <1>4, <2>1, <2>2, <2>3 DEF IndexInv, AddrIndexSound
<1> QED
    BY <1>3, <1>5, <1>6, <1>7 DEF IndexInv, AddrIndexSound

\* The index agrees with the sockets after every step.
LEMMA IndexInvariant == MessengerSpec => []IndexInv
<1>1. MessengerInit => IndexInv
    <2> SUFFICES ASSUME MessengerInit PROVE IndexInv
        OBVIOUS
    <2>1. socket \in [Sockets -> SocketType]
        BY DEF MessengerInit, SocketType
    <2>2. clientsByAddr \in [Addrs -> SUBSET Sockets] /\ \A a \in Addrs : clientsByAddr[a] = {}
        BY DEF MessengerInit
    <2> QED
        BY <2>1, <2>2 DEF IndexInv, AddrIndexSound
<1>2. IndexInv /\ [MessengerNext]_messengerVars => IndexInv'
    <2> SUFFICES ASSUME IndexInv, [MessengerNext]_messengerVars PROVE IndexInv'
        OBVIOUS
    <2>0. socket \in [Sockets -> SocketType] /\ clientsByAddr \in [Addrs -> SUBSET Sockets]
        BY DEF IndexInv
    <2>1. CASE UNCHANGED <<socket, clientsByAddr>>
        BY <2>1 DEF IndexInv, AddrIndexSound
    <2>2. ASSUME NEW c \in Sockets, handleWebSocket(c) \/ Close(c) PROVE IndexInv'
        <3>1. PICK st \in {"accepted", "closed"} : socket' = [socket EXCEPT ![c].state = st]
            BY <2>2 DEF handleWebSocket, Close
        <3>2. clientsByAddr' = clientsByAddr
            BY <2>2 DEF handleWebSocket, Close
        <3> QED
            BY <2>0, <3>1, <3>2, StateOnly, IndexShrinks
    <2>3. ASSUME NEW c \in Sockets, HandlerReturns(c) PROVE IndexInv'
        <3>1. PICK st : st = IF socket[c].state = "accepted" THEN "open" ELSE socket[c].state
            OBVIOUS
        <3>2. st \in {"new", "accepted", "open", "leaving", "closed"}
            BY <2>0, <3>1 DEF SocketType
        <3>3. socket' = [socket EXCEPT ![c].state = st]
            BY <2>0, <2>3, <3>1 DEF HandlerReturns
        <3>4. clientsByAddr' = [a \in Addrs |-> IF a = socket[c].address THEN clientsByAddr[a] \ {c} ELSE clientsByAddr[a]]
            BY <2>3 DEF HandlerReturns
        <3>5. clientsByAddr' \in [Addrs -> SUBSET Sockets] /\ \A a \in Addrs : clientsByAddr'[a] \subseteq clientsByAddr[a]
            BY <2>0, <3>4
        <3> QED
            BY <2>0, <3>2, <3>3, <3>5, StateOnly, IndexShrinks
    <2>4. ASSUME NEW c \in Sockets, NEW d \in Sockets, handleDevicesLogout(c, d) PROVE IndexInv'
        <3>1. socket' = [socket EXCEPT ![d].state = "closed"] /\ clientsByAddr' = clientsByAddr
            BY <2>4 DEF handleDevicesLogout
        <3> QED
            BY <2>0, <3>1, StateOnly, IndexShrinks
    <2>5. ASSUME NEW m \in Msgs, RemoveDead(m) PROVE IndexInv'
        <3>1. /\ clientsByAddr' = [a \in Addrs |-> clientsByAddr[a] \ {c \in sending[m].dead : socket[c].address = a}]
              /\ socket' = socket
            BY <2>5 DEF RemoveDead
        <3>2. clientsByAddr' \in [Addrs -> SUBSET Sockets] /\ \A a \in Addrs : clientsByAddr'[a] \subseteq clientsByAddr[a]
            BY <2>0, <3>1
        <3> QED
            BY <2>0, <3>1, <3>2, IndexShrinks
    <2>6. \/ UNCHANGED <<socket, clientsByAddr>>
          \/ \E c \in Sockets : handleWebSocket(c) \/ Close(c) \/ HandlerReturns(c)
          \/ \E c, d \in Sockets : handleDevicesLogout(c, d)
          \/ \E c \in Sockets, a \in Addrs : bindClientRegister(c, a)
          \/ \E m \in Msgs : RemoveDead(m)
        BY DEF MessengerNext, messengerVars, DeliverBuffered, handleDirectMessage, HandleIncomingPeerMessage,
               DeliverContactRequest, FanOutAtOnce, fanOutJSON, Buffer, pruneExpiredOfflineMessages
    <2> QED
        BY <2>1, <2>2, <2>3, <2>4, <2>5, <2>6, RegisterKeepsIndex
<1>. QED
    BY <1>1, <1>2, PTL DEF MessengerSpec

\* bindClientRegister, addClientToAddrLocked, the clean-up of handleWebSocket and
\* the removal of dead sockets keep the index by address in agreement with the
\* sockets, and one session of a device per address.
THEOREM IndexSound == MessengerSpec => []AddrIndexSound
<1>1. IndexInv => AddrIndexSound
    BY DEF IndexInv
<1>. QED
    BY <1>1, IndexInvariant, PTL

-----------------------------------------------------------------------------
(* Its messages.  Wherever a message is, the steps only move it on.          *)

\* The values of a sequence, element by element.
LEMMA RangeOf ==
    ASSUME NEW s \in Seq(Msgs), NEW m
    PROVE  m \in Range(s) <=> \E i \in 1 .. Len(s) : s[i] = m
BY DEF Range

\* What a queue holds is its head or in the rest (the write pump takes the head).
LEMMA RangeOfTail ==
    ASSUME NEW s \in Seq(Msgs), s # <<>>, NEW m \in Range(s)
    PROVE  m = Head(s) \/ m \in Range(Tail(s))
<1>1. PICK i \in 1 .. Len(s) : s[i] = m
    BY RangeOf
<1>2. CASE i = 1
    BY <1>1, <1>2
<1>3. CASE i # 1
    <2>1. Tail(s) \in Seq(Msgs) /\ i - 1 \in 1 .. Len(Tail(s)) /\ Tail(s)[i - 1] = m
        BY <1>1, <1>3
    <2> QED
        BY <2>1, RangeOf
<1> QED
    BY <1>2, <1>3

\* What is appended to a queue is in it, and so is what was there.
LEMMA RangeOfAppend ==
    ASSUME NEW s \in Seq(Msgs), NEW e \in Msgs
    PROVE  /\ Append(s, e) \in Seq(Msgs) /\ e \in Range(Append(s, e))
           /\ Range(s) \subseteq Range(Append(s, e))
<1>1. Append(s, e) \in Seq(Msgs) /\ Len(Append(s, e)) = Len(s) + 1 /\ Append(s, e)[Len(s) + 1] = e
    OBVIOUS
<1>2. \A i \in 1 .. Len(s) : Append(s, e)[i] = s[i] /\ i \in 1 .. Len(s) + 1
    OBVIOUS
<1>3. Len(s) + 1 \in 1 .. Len(s) + 1
    OBVIOUS
<1>4. ASSUME NEW m \in Range(s) PROVE m \in Range(Append(s, e))
    <2>1. PICK i \in 1 .. Len(s) : s[i] = m
        BY RangeOf
    <2>2. i \in 1 .. Len(Append(s, e)) /\ Append(s, e)[i] = m
        BY <1>1, <1>2, <2>1
    <2> QED
        BY <1>1, <2>2, RangeOf
<1>5. e \in Range(Append(s, e))
    BY <1>1, <1>3, RangeOf
<1> QED
    BY <1>1, <1>4, <1>5

\* Dropping the first n of a buffer loses only those.
LEMMA RangeOfSuffix ==
    ASSUME NEW s \in Seq(Msgs), NEW n \in 1 .. Len(s), NEW m \in Range(s)
    PROVE  m \in {s[i] : i \in 1 .. n} \/ m \in Range(SubSeq(s, n + 1, Len(s)))
<1>1. PICK i \in 1 .. Len(s) : s[i] = m
    BY RangeOf
<1>2. CASE i <= n
    BY <1>1, <1>2
<1>3. CASE i > n
    <2>1. PICK t : t = SubSeq(s, n + 1, Len(s))
        OBVIOUS
    <2>2. t \in Seq(Msgs) /\ Len(t) = Len(s) - n /\ \A j \in 1 .. Len(s) - n : t[j] = s[n + j]
        <3>1. n + 1 \in 1 .. Len(s) + 1 /\ Len(s) \in 0 .. Len(s)
            OBVIOUS
        <3> QED
            BY <2>1, <3>1, BufferEnd
    <2>3. i - n \in 1 .. Len(s) - n /\ n + (i - n) = i
        BY <1>1, <1>3
    <2>4. t[i - n] = m
        BY <1>1, <2>2, <2>3
    <2> QED
        BY <2>1, <2>2, <2>3, <2>4, RangeOf
<1> QED
    BY <1>2, <1>3

Handlings == [phase : Phases, via : {"", "direct", "peer", "contact"}, by : SUBSET Sockets, dead : SUBSET Sockets]

\* Where a message may be once it was accepted.
Found(m) ==
    \/ m \in received \cup dropped
    \/ \E a \in Addrs : m \in Range(offlineMessages[a])
    \/ \E c \in Sockets : m \in Range(taken[c])

MessageInv ==
    /\ offlineMessages \in [Addrs -> Seq(Msgs)]
    /\ taken \in [Sockets -> Seq(Msgs)]
    /\ sending \in [Msgs -> Handlings]
    /\ \A m \in Msgs : sending[m].phase = "clean" => m \in received
    /\ \A m \in Msgs : sending[m].phase = "done" => Found(m)

\* The registration takes the buffer over, and had nothing left to write.
LEMMA RegisterKeepsFound ==
    ASSUME MessageInv, NEW c \in Sockets, NEW a \in Addrs, bindClientRegister(c, a), NEW m, Found(m)
    PROVE  Found(m)'
<1>1. /\ taken[c] = <<>> /\ taken' = [taken EXCEPT ![c] = offlineMessages[a]]
      /\ offlineMessages' = [offlineMessages EXCEPT ![a] = <<>>] /\ received' = received /\ dropped' = dropped
    BY DEF bindClientRegister, Reading
<1>2. /\ taken'[c] = offlineMessages[a] /\ \A d \in Sockets \ {c} : taken'[d] = taken[d]
      /\ \A b \in Addrs \ {a} : offlineMessages'[b] = offlineMessages[b]
    BY <1>1 DEF MessageInv
<1>3. m \notin Range(taken[c])
    BY <1>1 DEF Range
<1> QED
    BY <1>1, <1>2, <1>3 DEF Found

\* What is delivered is received, and what cannot be is dropped.
LEMMA DeliverKeepsFound ==
    ASSUME MessageInv, NEW c \in Sockets, DeliverBuffered(c), NEW m, Found(m)
    PROVE  Found(m)'
<1>1. taken[c] \in Seq(Msgs) /\ taken[c] # <<>> /\ offlineMessages' = offlineMessages
    BY DEF MessageInv, DeliverBuffered
<1>2. CASE Writable(c)
    <2>1. received' = received \cup {Head(taken[c])} /\ taken' = [taken EXCEPT ![c] = Tail(taken[c])] /\ dropped' = dropped
        BY <1>2 DEF DeliverBuffered, MessageInv
    <2>2. taken'[c] = Tail(taken[c]) /\ \A d \in Sockets \ {c} : taken'[d] = taken[d]
        BY <2>1 DEF MessageInv
    <2>3. m \in Range(taken[c]) => m = Head(taken[c]) \/ m \in Range(Tail(taken[c]))
        BY <1>1, RangeOfTail
    <2> QED
        BY <1>1, <2>1, <2>2, <2>3 DEF Found
<1>3. CASE ~Writable(c)
    <2>1. dropped' = dropped \cup Range(taken[c]) /\ taken' = [taken EXCEPT ![c] = <<>>] /\ received' = received
        BY <1>3 DEF DeliverBuffered
    <2>2. \A d \in Sockets \ {c} : taken'[d] = taken[d]
        BY <2>1 DEF MessageInv
    <2> QED
        BY <1>1, <2>1, <2>2 DEF Found
<1> QED
    BY <1>2, <1>3

\* What a buffer keeps are messages.
LEMMA KeptIsBuffer ==
    ASSUME NEW m, NEW all \in Seq(Msgs)
    PROVE  Kept(m, all) \in Seq(Msgs)
<1>0. BufferMax \in Nat
    BY MessengerAssumption, Zenon DEF MessengerAssumption
<1>1. BufferMax \in Nat /\ Len(all) \in Nat
    BY <1>0
<1>2. CASE sending[m].via = "contact" \/ Len(all) <= BufferMax
    BY <1>2 DEF Kept
<1>3. CASE ~(sending[m].via = "contact" \/ Len(all) <= BufferMax)
    <2>1. Kept(m, all) = SubSeq(all, Len(all) - BufferMax + 1, Len(all))
        BY <1>3 DEF Kept
    <2>2. PICK n \in 1 .. Len(all) + 1 : n = Len(all) - BufferMax + 1
        <3>1. PICK k \in Nat : k = Len(all) /\ k > BufferMax
            BY <1>1, <1>3
        <3>2. k - BufferMax + 1 \in 1 .. k + 1
            BY <1>1, <3>1
        <3> QED
            BY <3>1, <3>2, Zenon
    <2> QED
        BY <1>1, <2>1, <2>2, BufferEnd
<1> QED
    BY <1>2, <1>3

\* A full buffer drops the oldest, and counts what it drops.
LEMMA BufferKeepsFound ==
    ASSUME MessageInv, NEW n \in Msgs, Buffer(n), NEW m, Found(m) \/ m = n
    PROVE  Found(m)' /\ offlineMessages' \in [Addrs -> Seq(Msgs)]
<1> USE MessengerAssumption DEF MessengerAssumption
<1>1. PICK old, all, kept :
        old = offlineMessages[To[n]] /\ all = Append(old, n) /\ kept = Kept(n, all)
    OBVIOUS
<1>2. /\ offlineMessages' = [offlineMessages EXCEPT ![To[n]] = kept]
      /\ dropped' = dropped \cup (Range(all) \ Range(kept)) /\ taken' = taken /\ received' = received
    BY <1>1 DEF Buffer
<1>3. To[n] \in Addrs /\ old \in Seq(Msgs) /\ all \in Seq(Msgs)
    <2>1. To[n] \in Addrs /\ old \in Seq(Msgs)
        BY <1>1 DEF MessageInv
    <2> QED
        BY <1>1, <2>1, RangeOfAppend
<1>4. kept \in Seq(Msgs)
    BY <1>1, <1>3, KeptIsBuffer
<1>5. /\ offlineMessages' \in [Addrs -> Seq(Msgs)] /\ offlineMessages'[To[n]] = kept
      /\ \A b \in Addrs \ {To[n]} : offlineMessages'[b] = offlineMessages[b]
    BY <1>2, <1>3, <1>4 DEF MessageInv
<1>6. n \in Range(all) /\ Range(old) \subseteq Range(all)
    BY <1>1, <1>3, RangeOfAppend
<1>7. m \in Range(all) => m \in dropped' \/ m \in Range(kept)
    BY <1>2
<1> QED
    BY <1>1, <1>2, <1>3, <1>5, <1>6, <1>7 DEF Found

\* The janitor counts what it drops.
LEMMA PruneKeepsFound ==
    ASSUME MessageInv, pruneExpiredOfflineMessages, NEW m, Found(m)
    PROVE  Found(m)'
<1>0. PICK a \in Addrs : \E n \in 1 .. Len(offlineMessages[a]) :
        /\ offlineMessages' = [offlineMessages EXCEPT ![a] = SubSeq(@, n + 1, Len(@))]
        /\ dropped' = dropped \cup {offlineMessages[a][i] : i \in 1 .. n}
        /\ taken' = taken /\ received' = received
    BY DEF pruneExpiredOfflineMessages
<1>1. PICK n \in 1 .. Len(offlineMessages[a]) :
        /\ offlineMessages' = [offlineMessages EXCEPT ![a] = SubSeq(@, n + 1, Len(@))]
        /\ dropped' = dropped \cup {offlineMessages[a][i] : i \in 1 .. n}
        /\ taken' = taken /\ received' = received
    BY <1>0
<1>2. offlineMessages[a] \in Seq(Msgs)
    BY DEF MessageInv
<1>3. /\ offlineMessages'[a] = SubSeq(offlineMessages[a], n + 1, Len(offlineMessages[a]))
      /\ \A b \in Addrs \ {a} : offlineMessages'[b] = offlineMessages[b]
    BY <1>1 DEF MessageInv
<1>4. m \in Range(offlineMessages[a]) =>
        m \in {offlineMessages[a][i] : i \in 1 .. n} \/ m \in Range(SubSeq(offlineMessages[a], n + 1, Len(offlineMessages[a])))
    BY <1>2, RangeOfSuffix
<1> QED
    BY <1>1, <1>3, <1>4 DEF Found

\* A step on the handling of one message, and what it must show.
LEMMA HandlingKeeps ==
    ASSUME MessageInv, NEW n \in Msgs, NEW h \in Handlings, sending' = [sending EXCEPT ![n] = h],
           offlineMessages' \in [Addrs -> Seq(Msgs)], taken' = taken, received \subseteq received',
           \A m \in Msgs : Found(m) => Found(m)',
           h.phase = "clean" => n \in received',
           h.phase = "done" => Found(n)'
    PROVE  MessageInv'
<1>1. /\ sending' \in [Msgs -> Handlings] /\ sending'[n] = h
      /\ \A m \in Msgs \ {n} : sending'[m] = sending[m]
    BY DEF MessageInv
<1>2. ASSUME NEW m \in Msgs, sending'[m].phase = "clean" PROVE m \in received'
    BY <1>1, <1>2 DEF MessageInv
<1>3. ASSUME NEW m \in Msgs, sending'[m].phase = "done" PROVE Found(m)'
    BY <1>1, <1>3 DEF MessageInv
<1> QED
    BY <1>1, <1>2, <1>3 DEF MessageInv

\* The handlers up to the fan-out.
LEMMA AcceptKeeps ==
    ASSUME MessageInv, NEW m \in Msgs,
           HandleIncomingPeerMessage(m) \/ DeliverContactRequest(m) \/ (\E c \in Sockets : handleDirectMessage(c, m))
    PROVE  MessageInv'
<1>1. UNCHANGED <<offlineMessages, taken, received, dropped>>
    BY DEF HandleIncomingPeerMessage, DeliverContactRequest, FanOutAtOnce, handleDirectMessage
<1>2. sending \in [Msgs -> Handlings] /\ sending[m] \in Handlings
    BY DEF MessageInv
<1>3. PICK h \in Handlings : h.phase \in {"buffer", "fanOut"} /\ sending' = [sending EXCEPT ![m] = h]
    <2>1. ASSUME NEW via \in {"peer", "contact"}, FanOutAtOnce(m, via)
          PROVE  \E h \in Handlings : h.phase \in {"buffer", "fanOut"} /\ sending' = [sending EXCEPT ![m] = h]
        <3>1. sending' = [sending EXCEPT ![m] = [sending[m] EXCEPT !.via = via, !.phase = "fanOut"]]
            BY <1>2, <2>1 DEF FanOutAtOnce
        <3>2. /\ [sending[m] EXCEPT !.via = via, !.phase = "fanOut"] \in Handlings
              /\ [sending[m] EXCEPT !.via = via, !.phase = "fanOut"].phase = "fanOut"
            BY <1>2 DEF Handlings, Phases
        <3> QED
            BY <3>1, <3>2
    <2>2. ASSUME NEW c \in Sockets, handleDirectMessage(c, m)
          PROVE  \E h \in Handlings : h.phase \in {"buffer", "fanOut"} /\ sending' = [sending EXCEPT ![m] = h]
        <3>1. PICK ph : ph = IF clientsByAddr[To[m]] = {} THEN "buffer" ELSE "fanOut"
            OBVIOUS
        <3>2. sending' = [sending EXCEPT ![m] = [sending[m] EXCEPT !.via = "direct", !.by = {c}, !.phase = ph]]
            BY <1>2, <2>2, <3>1 DEF handleDirectMessage
        <3>3. ph \in {"buffer", "fanOut"}
            BY <3>1
        <3>4. /\ [sending[m] EXCEPT !.via = "direct", !.by = {c}, !.phase = ph] \in Handlings
              /\ [sending[m] EXCEPT !.via = "direct", !.by = {c}, !.phase = ph].phase = ph
            BY <1>2, <3>3 DEF Handlings, Phases
        <3> QED
            BY <3>2, <3>3, <3>4
    <2> QED
        BY <2>1, <2>2 DEF HandleIncomingPeerMessage, DeliverContactRequest
<1>4. \A n \in Msgs : Found(n) => Found(n)'
    BY <1>1 DEF Found
<1> QED
    BY <1>1, <1>3, <1>4, HandlingKeeps DEF MessageInv

\* fanOutJSON counts a message delivered only when a write succeeded.
LEMMA FanOutKeeps ==
    ASSUME MessageInv, IndexInv, NEW m \in Msgs, fanOutJSON(m)
    PROVE  MessageInv'
<1>1. PICK ok, dead, h :
        /\ ok = {c \in clientsByAddr[To[m]] : Writable(c)} /\ dead = clientsByAddr[To[m]] \ ok
        /\ h = [sending[m] EXCEPT !.phase = AfterWrites(ok), !.dead = dead]
    OBVIOUS
<1>2. /\ received' = (IF ok = {} THEN received ELSE received \cup {m})
      /\ sending' = [sending EXCEPT ![m].phase = AfterWrites(ok), ![m].dead = dead]
      /\ UNCHANGED <<offlineMessages, taken, dropped>>
    BY <1>1 DEF fanOutJSON
<1>3. sending \in [Msgs -> Handlings] /\ sending[m] \in Handlings
    BY DEF MessageInv
<1>4. sending' = [sending EXCEPT ![m] = h]
    BY <1>1, <1>2, <1>3
<1>5. dead \in SUBSET Sockets
    <2>1. To[m] \in Addrs
        BY MessengerAssumption, Zenon DEF MessengerAssumption
    <2> QED
        BY <1>1, <2>1 DEF IndexInv
<1>6. h \in Handlings /\ h.phase = AfterWrites(ok)
    BY <1>1, <1>3, <1>5 DEF Handlings, Phases, AfterWrites
<1>7. h.phase # "done" /\ (h.phase = "clean" => ok # {})
    BY <1>6 DEF AfterWrites
<1>8. received \subseteq received' /\ (ok # {} => m \in received')
    BY <1>2
<1>9. \A n \in Msgs : Found(n) => Found(n)'
    BY <1>2, <1>8 DEF Found
<1> QED
    BY <1>2, <1>4, <1>6, <1>7, <1>8, <1>9, HandlingKeeps DEF MessageInv

\* The removal of dead sockets ends the handling, or leads to the buffer.
LEMMA RemoveDeadKeeps ==
    ASSUME MessageInv, NEW m \in Msgs, RemoveDead(m)
    PROVE  MessageInv'
<1>1. PICK ph, h :
        /\ ph = IF sending[m].phase = "clean" THEN "done" ELSE "buffer"
        /\ h = [sending[m] EXCEPT !.phase = ph, !.dead = {}]
    OBVIOUS
<1>2. sending \in [Msgs -> Handlings] /\ sending[m] \in Handlings
    BY DEF MessageInv
<1>3. sending' = [sending EXCEPT ![m] = h] /\ UNCHANGED <<offlineMessages, taken, received, dropped>>
    BY <1>1, <1>2 DEF RemoveDead
<1>4. ph \in Phases /\ ph # "clean"
    BY <1>1 DEF Phases
<1>5. h \in Handlings /\ h.phase = ph
    BY <1>1, <1>2, <1>4 DEF Handlings
<1>6. \A n \in Msgs : Found(n) => Found(n)'
    BY <1>3 DEF Found
<1>7. h.phase = "done" => Found(m)'
    <2>1. h.phase = "done" => m \in received'
        BY <1>1, <1>3, <1>5 DEF MessageInv
    <2> QED
        BY <2>1 DEF Found
<1> QED
    BY <1>3, <1>4, <1>5, <1>6, <1>7, HandlingKeeps DEF MessageInv

\* The message is in the buffer when its handling ends.
LEMMA BufferKeeps ==
    ASSUME MessageInv, NEW m \in Msgs, Buffer(m)
    PROVE  MessageInv'
<1>1. PICK h : h = [sending[m] EXCEPT !.phase = "done"]
    OBVIOUS
<1>2. sending \in [Msgs -> Handlings] /\ sending[m] \in Handlings
    BY DEF MessageInv
<1>3. sending' = [sending EXCEPT ![m] = h] /\ UNCHANGED <<taken, received>>
    BY <1>1, <1>2 DEF Buffer
<1>4. h \in Handlings /\ h.phase = "done"
    BY <1>1, <1>2 DEF Handlings, Phases
<1>5. offlineMessages' \in [Addrs -> Seq(Msgs)] /\ Found(m)' /\ \A n \in Msgs : Found(n) => Found(n)'
    BY BufferKeepsFound
<1> QED
    BY <1>3, <1>4, <1>5, HandlingKeeps

\* Registrations, deliveries and the janitor handle no message.
LEMMA MoveKeeps ==
    ASSUME MessageInv, sending' = sending, received \subseteq received',
           offlineMessages' \in [Addrs -> Seq(Msgs)], taken' \in [Sockets -> Seq(Msgs)],
           \A m \in Msgs : Found(m) => Found(m)'
    PROVE  MessageInv'
BY DEF MessageInv

\* A message whose handler has answered is with a device, in a buffer, in a
\* registration that delivers it, or counted as dropped, for any interleaving of
\* handleDirectMessage, fanOutJSON, bindClientRegister, closing sockets and the
\* janitor.
THEOREM MessagesAccountedFor == MessengerSpec => []AcceptedAccountedFor
<1>1. MessengerInit => MessageInv
    <2> SUFFICES ASSUME MessengerInit PROVE MessageInv
        OBVIOUS
    <2>0. <<>> \in Seq(Msgs)
        OBVIOUS
    <2>1. offlineMessages \in [Addrs -> Seq(Msgs)] /\ taken \in [Sockets -> Seq(Msgs)]
        <3>1. offlineMessages = [a \in Addrs |-> <<>>] /\ taken = [c \in Sockets |-> <<>>]
            BY Zenon DEF MessengerInit
        <3> QED
            BY <2>0, <3>1, Zenon
    <2>2. sending \in [Msgs -> Handlings] /\ \A m \in Msgs : sending[m].phase = "no"
        BY DEF MessengerInit, Handlings, Phases
    <2> QED
        BY <2>1, <2>2 DEF MessageInv
<1>2. MessageInv /\ IndexInv /\ [MessengerNext]_messengerVars => MessageInv'
    <2> SUFFICES ASSUME MessageInv, IndexInv, [MessengerNext]_messengerVars PROVE MessageInv'
        OBVIOUS
    <2>0. offlineMessages \in [Addrs -> Seq(Msgs)] /\ taken \in [Sockets -> Seq(Msgs)]
        BY DEF MessageInv
    <2>1. CASE UNCHANGED <<offlineMessages, taken, sending, received, dropped>>
        <3>1. \A m \in Msgs : Found(m) => Found(m)'
            BY <2>1 DEF Found
        <3> QED
            BY <2>0, <2>1, <3>1, MoveKeeps
    <2>2. ASSUME NEW c \in Sockets, NEW a \in Addrs, bindClientRegister(c, a) PROVE MessageInv'
        <3>1. /\ taken' = [taken EXCEPT ![c] = offlineMessages[a]]
              /\ offlineMessages' = [offlineMessages EXCEPT ![a] = <<>>]
              /\ sending' = sending /\ received' = received
            BY <2>2 DEF bindClientRegister
        <3>2. offlineMessages' \in [Addrs -> Seq(Msgs)] /\ taken' \in [Sockets -> Seq(Msgs)]
            BY <2>0, <3>1
        <3> QED
            BY <2>2, <3>1, <3>2, RegisterKeepsFound, MoveKeeps
    <2>3. ASSUME NEW c \in Sockets, DeliverBuffered(c) PROVE MessageInv'
        <3>1. taken[c] \in Seq(Msgs) /\ taken[c] # <<>> /\ Tail(taken[c]) \in Seq(Msgs)
            BY <2>0, <2>3 DEF DeliverBuffered
        <3>2. /\ taken' = [taken EXCEPT ![c] = Tail(taken[c])] \/ taken' = [taken EXCEPT ![c] = <<>>]
              /\ offlineMessages' = offlineMessages /\ sending' = sending /\ received \subseteq received'
            BY <2>0, <2>3 DEF DeliverBuffered
        <3>3. taken' \in [Sockets -> Seq(Msgs)]
            <4>1. PICK rest \in Seq(Msgs) : taken' = [taken EXCEPT ![c] = rest]
                <5>1. <<>> \in Seq(Msgs)
                    OBVIOUS
                <5> QED
                    BY <3>1, <3>2, <5>1, Zenon
            <4> QED
                BY <2>0, <4>1
        <3> QED
            BY <2>0, <2>3, <3>2, <3>3, DeliverKeepsFound, MoveKeeps
    <2>4. ASSUME pruneExpiredOfflineMessages PROVE MessageInv'
        <3>1. PICK a \in Addrs : \E n \in 1 .. Len(offlineMessages[a]) :
                offlineMessages' = [offlineMessages EXCEPT ![a] = SubSeq(@, n + 1, Len(@))]
            BY <2>4 DEF pruneExpiredOfflineMessages
        <3>2. PICK n \in 1 .. Len(offlineMessages[a]) :
                offlineMessages' = [offlineMessages EXCEPT ![a] = SubSeq(offlineMessages[a], n + 1, Len(offlineMessages[a]))]
            BY <2>0, <3>1
        <3>3. SubSeq(offlineMessages[a], n + 1, Len(offlineMessages[a])) \in Seq(Msgs)
            <4>1. PICK s, k : s \in Seq(Msgs) /\ s = offlineMessages[a] /\ k = n + 1 /\ k \in 1 .. Len(s) + 1
                BY <2>0
            <4> QED
                BY <4>1, BufferEnd
        <3>4. offlineMessages' \in [Addrs -> Seq(Msgs)]
            BY <2>0, <3>2, <3>3
        <3>5. UNCHANGED <<taken, sending, received>>
            BY <2>4 DEF pruneExpiredOfflineMessages
        <3> QED
            BY <2>0, <2>4, <3>4, <3>5, PruneKeepsFound, MoveKeeps
    <2>5. \/ UNCHANGED <<offlineMessages, taken, sending, received, dropped>>
          \/ \E c \in Sockets, a \in Addrs : bindClientRegister(c, a)
          \/ \E c \in Sockets : DeliverBuffered(c)
          \/ pruneExpiredOfflineMessages
          \/ \E m \in Msgs :
                \/ HandleIncomingPeerMessage(m) \/ DeliverContactRequest(m)
                \/ \E c \in Sockets : handleDirectMessage(c, m)
          \/ \E m \in Msgs : fanOutJSON(m) \/ RemoveDead(m) \/ Buffer(m)
        BY DEF MessengerNext, messengerVars, handleWebSocket, HandlerReturns, Close, handleDevicesLogout
    <2> QED
        BY <2>1, <2>2, <2>3, <2>4, <2>5, AcceptKeeps, FanOutKeeps, RemoveDeadKeeps, BufferKeeps
<1>3. MessageInv => AcceptedAccountedFor
    BY DEF MessageInv, Found, AcceptedAccountedFor
<1>. QED
    BY <1>1, <1>2, <1>3, IndexInvariant, PTL DEF MessengerSpec

=============================================================================
