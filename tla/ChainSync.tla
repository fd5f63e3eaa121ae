----------------------------- MODULE ChainSync -----------------------------
(***************************************************************************)
(* How a block reaches the other gateway: the block_confirmed event that   *)
(* the confirming gateway sends to its registered peers (handlers.go), and *)
(* the sync:request / sync:response exchange of a new connection           *)
(* (nodes.go, chain_sync.go, handlers_sync.go).                            *)
(*                                                                         *)
(* Two gateways, and at most one connection between them at a time.  Each  *)
(* connection has a read loop at both ends that handles one message at a   *)
(* time; the loop of a lost connection finishes the response it is         *)
(* applying.  The steps inside the application of one block are those of   *)
(* ConfirmBoundary; here the application succeeds or fails as a whole.     *)
(***************************************************************************)
EXTENDS Integers, Sequences, FiniteSetsExt

CONSTANTS
    Sides,         \* the two gateways
    Confirmers,   \* the gateways that confirm blocks
    Dialling,     \* the gateways that list the other one in their peers
    MaxChain,     \* bound: blocks in a chain
    MaxConns,     \* bound: connections made
    MaxFaults     \* bound: blocks that Rocks refuses or Core cannot execute

ASSUME SidesAssumption ==
    /\ IsFiniteSet(Sides) /\ Cardinality(Sides) = 2 /\ Confirmers \cup Dialling \subseteq Sides
    /\ {MaxChain, MaxConns, MaxFaults} \subseteq Nat

VARIABLES
    rocksOn,      \* Rocks is the source of truth (else it is disabled)
    history,      \* the blockHistory of each gateway, in the order of its appends
    staged,       \* the gateways whose last block is not yet in Rocks
    unsent,       \* confirmed blocks whose broadcast goroutine has not run yet
    live,         \* the connection that is open, 0 if there is none
    made,         \* connections made so far
    registered,   \* the gateways that list the other in connectedNodes
    wire,         \* the messages on their way to an end, per connection
    answer,       \* a response that is exported and not yet written
    todo,         \* the blocks of a response that are still to be applied
    undone,       \* the blocks that their confirmer took back
    coreFailures  \* peer blocks that Core could not execute

syncVars == <<rocksOn, history, staged, unsent, live, made, registered, wire, answer,
              todo, undone, coreFailures>>
chainVars == <<history, staged, unsent, undone>>
linkState == <<live, made, registered>>
loopVars == <<wire, answer, todo>>

Conns == 1 .. MaxConns
FaultLeft == Cardinality(undone) + coreFailures < MaxFaults
Far(n) == CHOOSE m \in Sides : m # n

\* A block: its number, and what tells it from another block of that number.
SyncBlock == [num : 0 .. MaxChain - 1, by : Sides, try : 0 .. MaxFaults]

LastBlock(s) == s[Len(s)]
WithoutLast(s) == SubSeq(s, 1, Len(s) - 1)
Numbers(n) == {b.num : b \in Range(history[n])}

\* HeadBlockNumber: the number of the last appended block, or the head of Rocks.
HeadBlockNumber(n) ==
    LET committed == IF n \in staged /\ rocksOn THEN WithoutLast(history[n]) ELSE history[n]
    IN  IF committed = <<>> THEN -1 ELSE LastBlock(committed).num

\* blockCounter of a confirming gateway: one more than its highest number.  (A
\* refused peer block above the next height leaves the counter too high; that is
\* a matter of ConfirmBoundary, and with one confirmer it does not happen here.)
NextNumber(n) == Max({-1} \cup Numbers(n)) + 1

-----------------------------------------------------------------------------
(* The confirming gateway. *)

\* L2ConfirmBlock: the block enters the history before it is in Rocks.
Stage(n) ==
    /\ n \in Confirmers \ staged
    /\ NextNumber(n) < MaxChain
    /\ LET block == [num |-> NextNumber(n), by |-> n, try |-> Cardinality(undone)]
       IN  history' = [history EXCEPT ![n] = Append(@, block)]
    /\ staged' = staged \cup {n}
    /\ UNCHANGED <<rocksOn, unsent, undone, linkState, loopVars, coreFailures>>

\* The block is durable; a goroutine of its own will broadcast it.
Commit(n) ==
    /\ n \in staged
    /\ staged' = staged \ {n}
    /\ unsent' = [unsent EXCEPT ![n] = @ \cup {LastBlock(history[n])}]
    /\ UNCHANGED <<rocksOn, history, undone, linkState, loopVars, coreFailures>>

\* UndoLastConfirmedBlock: Rocks refused the block.
Undo(n) ==
    /\ n \in staged /\ rocksOn
    /\ FaultLeft
    /\ staged' = staged \ {n}
    /\ undone' = undone \cup {LastBlock(history[n])}
    /\ history' = [history EXCEPT ![n] = WithoutLast(@)]
    /\ UNCHANGED <<rocksOn, unsent, linkState, loopVars, coreFailures>>

Post(n, msgs) == wire' = [wire EXCEPT ![live][Far(n)] = @ \o msgs]

\* BroadcastBlockchainEvent: the event is written to the registered peer.
BroadcastBlock(n) ==
    /\ \E b \in unsent[n] :
          /\ unsent' = [unsent EXCEPT ![n] = @ \ {b}]
          /\ IF n \in registered THEN Post(n, <<[type |-> "event", block |-> b]>>)
             ELSE UNCHANGED wire
    /\ UNCHANGED <<rocksOn, history, staged, undone, linkState, answer, todo, coreFailures>>

-----------------------------------------------------------------------------
(* The connection. *)

\* ConnectToNode: the dialling end announces itself.
DialPeer(n) ==
    /\ n \in Dialling
    /\ live = 0 /\ made < MaxConns
    /\ live' = made + 1 /\ made' = made + 1
    /\ wire' = [wire EXCEPT ![made + 1][Far(n)] = <<[type |-> "announce"]>>]
    /\ UNCHANGED <<rocksOn, chainVars, registered, answer, todo, coreFailures>>

\* The connection breaks: what is under way is lost and both ends forget the peer.
Drop ==
    /\ live # 0
    /\ live' = 0
    /\ registered' = {}
    /\ wire' = [wire EXCEPT ![live] = [n \in Sides |-> <<>>]]
    /\ answer' = [answer EXCEPT ![live] = [n \in Sides |-> <<>>]]
    /\ UNCHANGED <<rocksOn, chainVars, made, todo, coreFailures>>

\* The read loop of the open connection is free and its next message is of the type.
Reads(n, type) ==
    /\ live # 0
    /\ answer[live][n] = <<>> /\ todo[live][n] = <<>>
    /\ wire[live][n] # <<>> /\ Head(wire[live][n]).type = type

Popped(n) == [wire EXCEPT ![live][n] = Tail(@)]

\* Mutant of SyncFrom: a block is left out.
syncAfterNext(n) == HeadBlockNumber(n) + 2

\* The first block the gateway asks for.
SyncFrom(n) == HeadBlockNumber(n) + 1

\* handleNodeAnnounce: a new peer is registered, answered with an announcement
\* and asked for the blocks after the head.
AnswerAnnounce(n) ==
    /\ Reads(n, "announce")
    /\ IF n \in registered
       THEN wire' = Popped(n) /\ UNCHANGED registered
       ELSE /\ registered' = registered \cup {n}
            /\ wire' = [Popped(n) EXCEPT ![live][Far(n)] =
                           @ \o << [type |-> "announce"],
                                   [type |-> "request", from |-> SyncFrom(n)] >>]
    /\ UNCHANGED <<rocksOn, chainVars, live, made, answer, todo, coreFailures>>

\* ExportBlocksForSync: the blocks of the history from the number asked for
\* on; their order is no matter, the receiver sorts them.
ExportBlocksForSync(n, from) == {b \in Range(history[n]) : b.num >= from}

\* handleSyncRequest: the response is built ...
handleSyncRequest(n) ==
    /\ Reads(n, "request")
    /\ answer' = [answer EXCEPT ![live][n] =
                     <<[type |-> "response",
                        blocks |-> ExportBlocksForSync(n, Head(wire[live][n]).from)]>>]
    /\ wire' = Popped(n)
    /\ UNCHANGED <<rocksOn, chainVars, linkState, todo, coreFailures>>

\* ... and written once the lock of the peer is free.
WriteResponse(n) ==
    /\ live # 0
    /\ answer[live][n] # <<>>
    /\ Post(n, answer[live][n])
    /\ answer' = [answer EXCEPT ![live][n] = <<>>]
    /\ UNCHANGED <<rocksOn, chainVars, linkState, todo, coreFailures>>

-----------------------------------------------------------------------------
(* The receiving gateway.  A gateway that has a block of its own on the way
   to Rocks takes none from a peer: how two confirms of one gateway mix is
   the subject of ConfirmBoundary. *)

\* Mutant of KnownHeight: only the tip is looked at.
isTip(n, b) == history[n] # <<>> /\ LastBlock(history[n]).num = b.num

\* AddConfirmedBlock looks for the height in the history, whatever the hash: a
\* competing block is reported, and the local one stays.
KnownHeight(n, b) == b.num \in Numbers(n)

\* Mutant of AddConfirmedBlock: the block takes the next number of the receiver.
takesNextNumber(n, b) ==
    /\ NextNumber(n) < MaxChain
    /\ history' = [history EXCEPT ![n] = Append(@, [b EXCEPT !.num = NextNumber(n)])]
    /\ UNCHANGED coreFailures

\* ApplyPeerConfirmedBlock: Core may fail to execute the block, and Rocks, when
\* enabled, takes it only at the next height; the block is then undone.
AddConfirmedBlock(n, b) ==
    \/ /\ KnownHeight(n, b)
       /\ UNCHANGED <<history, coreFailures>>
    \/ /\ ~KnownHeight(n, b) /\ FaultLeft
       /\ coreFailures' = coreFailures + 1
       /\ UNCHANGED history
    \/ /\ ~KnownHeight(n, b)
       /\ history' = IF rocksOn /\ b.num # Len(history[n]) THEN history
                     ELSE [history EXCEPT ![n] = Append(@, b)]
       /\ UNCHANGED coreFailures

\* onBlockConfirmed: the block of an event is applied.
onBlockConfirmed(n) ==
    /\ Reads(n, "event") /\ n \notin staged
    /\ AddConfirmedBlock(n, Head(wire[live][n]).block)
    /\ wire' = Popped(n)
    /\ UNCHANGED <<rocksOn, staged, unsent, undone, linkState, answer, todo>>

\* The orders in which sort.Slice may leave the blocks.
ByNumber(blocks) ==
    {s \in [1 .. Cardinality(blocks) -> blocks] :
        Range(s) = blocks /\ \A i, j \in DOMAIN s : i < j => s[i].num <= s[j].num}

\* onSyncApply: the blocks of the response are sorted by number ...
handleSyncResponse(n) ==
    /\ Reads(n, "response")
    /\ \E sorted \in ByNumber(Head(wire[live][n]).blocks) :
        todo' = [todo EXCEPT ![live][n] = sorted]
    /\ wire' = Popped(n)
    /\ UNCHANGED <<rocksOn, chainVars, linkState, answer, coreFailures>>

\* ... and each one above the head is applied, also after one that failed.
onSyncApply(n, c) ==
    /\ todo[c][n] # <<>> /\ n \notin staged
    /\ LET b == Head(todo[c][n])
       IN  IF b.num <= HeadBlockNumber(n) THEN UNCHANGED <<history, coreFailures>>
           ELSE AddConfirmedBlock(n, b)
    /\ todo' = [todo EXCEPT ![c][n] = Tail(@)]
    /\ UNCHANGED <<rocksOn, staged, unsent, undone, linkState, wire, answer>>

-----------------------------------------------------------------------------
SyncInit ==
    /\ rocksOn \in BOOLEAN
    /\ history = [n \in Sides |-> <<>>] /\ staged = {}
    /\ unsent = [n \in Sides |-> {}] /\ undone = {}
    /\ live = 0 /\ made = 0 /\ registered = {}
    /\ wire = [c \in Conns |-> [n \in Sides |-> <<>>]]
    /\ answer = [c \in Conns |-> [n \in Sides |-> <<>>]]
    /\ todo = [c \in Conns |-> [n \in Sides |-> <<>>]]
    /\ coreFailures = 0

SyncNext ==
    \/ \E n \in Sides :
        \/ Stage(n) \/ Commit(n) \/ Undo(n) \/ BroadcastBlock(n) \/ DialPeer(n)
        \/ AnswerAnnounce(n) \/ handleSyncRequest(n) \/ WriteResponse(n)
        \/ onBlockConfirmed(n) \/ handleSyncResponse(n)
        \/ \E c \in Conns : onSyncApply(n, c)
    \/ Drop

SyncSpec == SyncInit /\ [][SyncNext]_syncVars

-----------------------------------------------------------------------------
(* Properties. *)

\* Every variable keeps its type, and no gateway has a height twice: neither an
\* event nor a response adds a block whose height is in the history.
SyncTypeOK ==
    /\ rocksOn \in BOOLEAN
    /\ history \in [Sides -> Seq(SyncBlock)]
    /\ staged \subseteq Confirmers
    /\ unsent \in [Sides -> SUBSET SyncBlock]
    /\ live \in 0 .. MaxConns /\ made \in live .. MaxConns
    /\ registered \subseteq Sides
    /\ undone \subseteq SyncBlock
    /\ coreFailures \in 0 .. MaxFaults
    /\ \A n \in Sides : Cardinality(Numbers(n)) = Len(history[n])

\* Two gateways that both have a height have the same block there, unless the
\* confirming gateway took its block back: the export serves a block before it
\* is in Rocks, and this is the only way the chains of one confirmer come apart.
AgreeUnlessUndone ==
    Cardinality(Confirmers) = 1 =>
        \A n, m \in Sides : \A x \in Range(history[n]), y \in Range(history[m]) :
            x.num = y.num => x = y \/ {x, y} \cap undone # {}

\* A response closes the gap: when a gateway with Rocks has gone through the
\* blocks it asked for, its chain reaches the last of them, whatever events came
\* first, unless Core failed on one.
ResponseClosesGap ==
    [][\A n \in Sides, c \in Conns :
          rocksOn /\ todo[c][n] # <<>> /\ todo'[c][n] = <<>> =>
              Len(history'[n]) > LastBlock(todo[c][n]).num \/ coreFailures' > 0]_syncVars
=============================================================================
