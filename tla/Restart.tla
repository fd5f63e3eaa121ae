------------------------------ MODULE Restart ------------------------------
(***************************************************************************)
(* One gateway node that dies and starts again.                            *)
(*                                                                         *)
(* While it runs it admits transactions, keeps them in a durable pool and  *)
(* confirms blocks with the auto-block worker (ConfirmBoundary has the     *)
(* other paths).  The process may die between any two steps.  A start      *)
(* loads chain.json, follows Rocks, puts what is not in the chain back     *)
(* into the mempool, and then rebuilds the explorer index from Rocks on a  *)
(* goroutine of its own, beside the worker.                                *)
(*                                                                         *)
(* Every transaction here is signed and not a faucet credit.               *)
(***************************************************************************)
EXTENDS Accounts, Sequences, FiniteSetsExt, SequencesExt

CONSTANTS
    Stamp,      \* Stamp[t]: the timestamp a client put into t
    Escrow,     \* the escrow operations among the transactions
    OldTxs,     \* transactions of block 0 of an older chain, {} for a new chain
    Invalid,    \* transactions that Core finds invalid after admission
    Faults,     \* what the environment may do and make fail
    CrashAt,    \* labels of the worker at which the process may die
    MaxCrashes, \* bound: number of crashes
    MaxHeight   \* bound: highest block number

\* "apply": Core refuses a batch.  "rocks": Rocks refuses a commit.  "persist":
\* chain.json cannot be written.  "pool": a pool file cannot be written.
\* "chainfile": chain.json is lost while the node is down.  "migrate": Core cannot
\* import chain.json.  "age": entries ahead of their account's nonce grow too old.
\* "late": copies of a transaction (a client's and a peer's) are validated side by
\* side and inserted later.  "read": a read of Rocks, of a nonce or
\* of the pool fails.
\* "request": clients ask for the confirmed list and for single transactions.
\* "hydrate": the hydration goroutine is scheduled.
AllFaults == {"apply", "rocks", "persist", "pool", "chainfile", "migrate", "age", "late",
              "read", "request", "hydrate"}
Labels == {"idle", "applied", "staged", "headed", "committed"}

ASSUME StampAssumption == Stamp \in [Tx -> Nat \ {0}]
ASSUME SubsetsAssumption ==
    /\ Escrow \subseteq Tx /\ Invalid \subseteq Tx /\ OldTxs \subseteq Tx
    /\ Faults \subseteq AllFaults /\ CrashAt \subseteq Labels
ASSUME BoundAssumption == MaxCrashes \in Nat /\ MaxHeight \in Nat

VARIABLES
    \* Blockchain, in memory.  rows[t]: the block number of the row of t, None when
    \* there is no row; a row that is in no block has number 0.
    rows, mempool, pendingBlock, confirmedHashes, blockHistory, blockCounter, durableHead,
    \* files and databases
    stateFile, backup, chainFile, txPool, rocks,
    \* admissions that Core accepted, the one being inserted (mempoolAdmitMu), and what
    \* clients were told is accepted
    valid, admit, acked,
    \* the process, the auto-block worker, the explorer hydration, a list request
    node, crashes, pc, blk, hyd, req,
    \* history: None when the head or the pool could not be read at the start, and the
    \* numbers of the blocks that could not be read for the history
    unread

queueVars == <<mempool, pendingBlock>>
explorerVars == <<rows, confirmedHashes, blockHistory, blockCounter>>
cacheVars == <<durableHead, chainFile>>
coreVars == <<stateFile, backup>>
admitVars == <<valid, admit, acked>>
workerVars == <<pc, blk>>
processVars == <<node, crashes, hyd, req, unread>>
vars == <<queueVars, explorerVars, cacheVars, coreVars, txPool, rocks, admitVars,
          workerVars, processVars>>

-----------------------------------------------------------------------------
(* Blocks and the explorer. *)

None == -1
NoBlock == [num |-> 0, txs |-> {}, ts |-> 0]
NoFile == [blocks |-> <<>>, counter |-> 0, rows |-> [t \in Tx |-> None]]
NoTx == [at |-> "free", tx |-> {}]
NoHydration == [at |-> "off", todo |-> "off", head |-> 0, expected |-> 0, indexed |-> 0,
                local |-> None, listed |-> <<>>, txs |-> {}]
NoRequest == [at |-> "off", listed |-> <<>>]

Nums(blocks) == {blocks[i].num : i \in DOMAIN blocks}
historyHead(blocks) == Max({None} \cup Nums(blocks))
TxsOf(blocks) == UNION {blocks[i].txs : i \in DOMAIN blocks}

\* Rocks height h is gateway block h - 1.
RocksTxs == TxsOf(rocks)
RocksHead == Len(rocks) - 1

\* A read of Rocks or of a nonce may fail, and a list of blocks leaves out the ones it
\* cannot read.
CanFail == "read" \in Faults
BlockLists(chain) ==
    IF CanFail
    THEN {SelectSeq(chain, LAMBDA b : b.num \in nums) : nums \in SUBSET Nums(chain)}
    ELSE {chain}

\* Core has consumed the nonce of t.
Stale(t) == Consumed(stateFile, t)

RowTxs(index, num) == {t \in Tx : index[t] = num}

\* Mutant: rows do not bring their blocks back.
AttachNothing(history, index) == history

\* attachConfirmedTxsToHistoryLocked: a row with a positive block number joins
\* that block, and the block is created when the history does not have it.
Attach(history, index) ==
    LET last(i) == \A j \in i + 1 .. Len(history) : history[j].num # history[i].num
        grown   == [i \in DOMAIN history |->
                      IF history[i].num > 0 /\ last(i)
                      THEN [history[i] EXCEPT !.txs = @ \cup RowTxs(index, history[i].num)]
                      ELSE history[i]]
        missing == {index[t] : t \in Tx} \ ({None, 0} \cup Nums(history))
        rebuilt == [n \in missing |-> [num |-> n, txs |-> RowTxs(index, n),
                                       ts  |-> Max({Stamp[t] : t \in RowTxs(index, n)})]]
        byNum(a, b) == a.num < b.num
    IN  IF missing = {} THEN grown
        ELSE SortSeq(grown \o SetToSeq({rebuilt[n] : n \in missing}), byNum)

\* The counter and durableHead after attachConfirmedTxsToHistoryLocked: raised only
\* if it created a block.
Raised(history, index, low, n) ==
    IF Nums(Attach(history, index)) = Nums(history) THEN n
    ELSE Max({n, historyHead(Attach(history, index)) + low})
AttachCounter(history, index, counter) == Raised(history, index, 1, counter)
AttachDurable(history, index, durable) == Raised(history, index, 0, durable)

\* persistChain, which refuses to lower the head it wrote or loaded before.
Persistable(history, durable) == historyHead(history) >= durable
Snapshot(history, counter, index) == [blocks |-> history, counter |-> counter, rows |-> index]
PersistOver(durable, history, counter, index) ==
    \/ /\ Persistable(history, durable)
       /\ chainFile' = Snapshot(history, counter, index)
       /\ durableHead' = historyHead(history)
    \/ /\ ~Persistable(history, durable) \/ "persist" \in Faults
       /\ durableHead' = durable
       /\ UNCHANGED chainFile
Persist(history, counter, index) == PersistOver(durableHead, history, counter, index)

-----------------------------------------------------------------------------
(* Admission. *)

\* A nonce that a queued transaction uses.
InFlight(t) == \E u \in mempool \cup pendingBlock : SameSlot(t, u)

\* validateTxForMempool: Core accepts t on the state and the queues as they are now.
Validate(t) ==
    /\ node = "up" /\ t \notin valid
    /\ ~Stale(t) /\ ~InFlight(t)
    /\ valid' = valid \cup {t}
    /\ UNCHANGED <<queueVars, explorerVars, cacheVars, coreVars, txPool, rocks, admit, acked,
                   workerVars, processVars>>

\* Mutant: late gossip of a confirmed hash is not recognised.
KnownTxQueuedOnly(t) == t \in pendingBlock \cup mempool

\* A hash that must not enter the mempool (again).
KnownTx(t) == t \in confirmedHashes \cup pendingBlock \cup mempool

\* indexMempoolAdmission, first step: AddToMempool ignores a known hash and refuses a
\* nonce that is in flight.
AddToMempool(t) ==
    /\ node = "up" /\ t \in valid /\ admit = NoTx
    /\ valid' = valid \ {t} \/ ("late" \in Faults /\ UNCHANGED valid)
    /\ IF ~KnownTx(t) /\ InFlight(t)
       THEN UNCHANGED <<mempool, admit>>
       ELSE /\ mempool' = IF KnownTx(t) THEN mempool ELSE mempool \cup {t}
            /\ admit' = [at |-> "row", tx |-> {t}]
    /\ UNCHANGED <<pendingBlock, explorerVars, cacheVars, coreVars, txPool, rocks, acked,
                   workerVars, processVars>>

\* AddTransaction: a row with the body that arrived (block number 0).
AddTransaction ==
    /\ node = "up" /\ admit.at = "row"
    /\ rows' = [t \in Tx |-> IF t \in admit.tx THEN 0 ELSE rows[t]]
    /\ admit' = [admit EXCEPT !.at = "save"]
    /\ UNCHANGED <<queueVars, confirmedHashes, blockHistory, blockCounter, cacheVars, coreVars,
                   txPool, rocks, valid, acked, workerVars, processVars>>

\* SaveAdmittedTx (an error of the pool is logged only), the chain.json snapshot of an
\* escrow operation, and the answer to the client.
SaveAdmittedTx ==
    /\ node = "up" /\ admit.at = "save"
    /\ \/ txPool' = txPool \cup (admit.tx \ confirmedHashes)
       \/ "pool" \in Faults /\ UNCHANGED txPool
    /\ IF admit.tx \subseteq Escrow
       THEN Persist(blockHistory, blockCounter, rows)
       ELSE UNCHANGED cacheVars
    /\ acked' = acked \cup admit.tx
    /\ admit' = NoTx
    /\ UNCHANGED <<queueVars, explorerVars, coreVars, rocks, valid, workerVars, processVars>>

-----------------------------------------------------------------------------
(* The auto-block worker. *)

\* What PruneMempool may keep of a mempool: nothing that is in a block or pending, no
\* nonce known to be consumed, one entry per nonce.
PrunedPools(pool, listed) ==
    LET open == pool \ (TxsOf(listed) \cup TxsOf(blockHistory) \cup pendingBlock)
        live == {t \in open : ~Stale(t)}
        due(t) == Nonce[t] = NextNonce(stateFile, Sender[t]) \/ "age" \notin Faults
    IN  {kept \in SUBSET IF CanFail THEN open ELSE live :
            /\ \A t \in live : due(t) => \E u \in kept : SameSlot(t, u)
            /\ \A t, u \in kept : SameSlot(t, u) => t = u}

\* PruneMempool removes what it drops from the durable pool too.
PruneMempool ==
    \E listed \in BlockLists(rocks) : \E kept \in PrunedPools(mempool, listed) :
        mempool' = kept /\ txPool' = txPool \ (mempool \ kept)

PruneBeforeL1 ==
    /\ node = "up" /\ pc = "idle"
    /\ PruneMempool
    /\ mempool' # mempool
    /\ UNCHANGED <<pendingBlock, explorerVars, cacheVars, coreVars, rocks, admitVars,
                   workerVars, processVars>>

\* Rows of transactions that are dropped, unless they count as confirmed.
DropRows(s) == rows' = [t \in Tx |-> IF t \in s \ confirmedHashes THEN None ELSE rows[t]]

\* RequeueUnconfirmedEscrows at the start of a tick: escrow rows in no block, in no
\* queue, not marked confirmed and with a nonce that is not known to be consumed go
\* back, unless they are too old.
EscrowRows == {t \in Escrow \ (mempool \cup pendingBlock \cup confirmedHashes) : rows[t] = 0}
Requeueable == {t \in EscrowRows : ~Stale(t)}
RequeueUnconfirmedEscrows ==
    /\ node = "up" /\ pc = "idle"
    /\ \E s \in SUBSET EscrowRows \ {{}} :
         /\ "age" \in Faults \/ Requeueable \subseteq s
         /\ CanFail \/ s \subseteq Requeueable
         /\ mempool' = mempool \cup s
    /\ UNCHANGED <<pendingBlock, explorerVars, cacheVars, coreVars, txPool, rocks, admitVars,
                   workerVars, processVars>>

\* RemoveFromMempool on what Core found invalid.
RemoveFromMempool ==
    /\ node = "up" /\ pc = "idle"
    /\ mempool \cap Invalid # {}
    /\ mempool' = mempool \ Invalid
    /\ DropRows(mempool \cap Invalid)
    /\ UNCHANGED <<pendingBlock, confirmedHashes, blockHistory, blockCounter, cacheVars, coreVars,
                   txPool, rocks, admitVars, workerVars, processVars>>

\* AbandonPendingBlock(invalid hashes) before the vote.
AbandonInvalid ==
    /\ node = "up" /\ pc = "idle"
    /\ pendingBlock \cap Invalid # {}
    /\ mempool' = mempool \cup (pendingBlock \ Invalid)
    /\ pendingBlock' = {}
    /\ DropRows(pendingBlock \cap Invalid)
    /\ UNCHANGED <<confirmedHashes, blockHistory, blockCounter, cacheVars, coreVars, txPool, rocks,
                   admitVars, workerVars, processVars>>

\* The worker collects a block when none is pending.
Collect(selected) ==
    /\ node = "up" /\ pc = "idle" /\ pendingBlock = {}
    /\ selected # {} /\ selected \subseteq mempool
    /\ pendingBlock' = selected
    /\ mempool' = mempool \ selected
    /\ UNCHANGED <<explorerVars, cacheVars, coreVars, txPool, rocks, admitVars, workerVars,
                   processVars>>

\* L2ConfirmBlock up to Core: snapshot the state file and execute.  A failure
\* restores the state file and returns the batch to the mempool.
ApplyConfirmed ==
    /\ node = "up" /\ pc = "idle" /\ pendingBlock # {}
    /\ Executable(stateFile, pendingBlock)
    /\ backup' = {stateFile}
    /\ stateFile' = stateFile \cup pendingBlock
    /\ pc' = "applied"
    /\ UNCHANGED <<queueVars, explorerVars, cacheVars, txPool, rocks, admitVars, blk, processVars>>

ApplyFails ==
    /\ node = "up" /\ pc = "idle" /\ pendingBlock # {}
    /\ ~Executable(stateFile, pendingBlock) \/ "apply" \in Faults
    /\ backup' = {}
    /\ mempool' = mempool \cup pendingBlock
    /\ pendingBlock' = {}
    /\ UNCHANGED <<explorerVars, cacheVars, stateFile, txPool, rocks, admitVars, workerVars,
                   processVars>>

\* Explorer and Core go back: the rows of the batch are deleted, the worker puts
\* the batch into the mempool.
UndoConfirm(batch) ==
    /\ stateFile' = UNION backup
    /\ backup' = {}
    /\ rows' = [t \in Tx |-> IF t \in batch THEN None ELSE rows[t]]
    /\ confirmedHashes' = confirmedHashes \ batch
    /\ pc' = "idle" /\ blk' = NoBlock
    /\ mempool' = mempool \cup batch
    /\ pendingBlock' = {}

\* L2ConfirmBlock after Core: the block time is the time of its last transaction.
Stage ==
    /\ node = "up" /\ pc = "applied"
    /\ blockCounter <= MaxHeight
    /\ \E ts \in {Stamp[t] : t \in pendingBlock} :
         LET b    == [num |-> blockCounter, txs |-> pendingBlock, ts |-> ts]
             hist == Append(blockHistory, b)
             index == [t \in Tx |-> IF t \in pendingBlock THEN b.num ELSE rows[t]]
         IN  \/ /\ Persistable(hist, durableHead)
                /\ chainFile' = Snapshot(hist, b.num + 1, index)
                /\ durableHead' = historyHead(hist)
                /\ blockHistory' = hist /\ blockCounter' = b.num + 1
                /\ rows' = index
                /\ confirmedHashes' = confirmedHashes \cup pendingBlock
                /\ pc' = "staged" /\ blk' = b
                /\ pendingBlock' = {}
                /\ UNCHANGED <<mempool, coreVars>>
             \/ /\ ~Persistable(hist, durableHead) \/ "persist" \in Faults
                /\ UndoConfirm(pendingBlock)
                /\ UNCHANGED <<blockHistory, blockCounter, cacheVars>>
    /\ UNCHANGED <<txPool, rocks, admitVars, processVars>>

\* ApplyBlockHeader: chain.json is written again with the header of the block; a
\* failure is ignored.
ApplyBlockHeader ==
    /\ node = "up" /\ pc = "staged"
    /\ IF blk.num \in Nums(blockHistory)
       THEN Persist(blockHistory, blockCounter, rows)
       ELSE UNCHANGED cacheVars
    /\ pc' = "headed"
    /\ UNCHANGED <<queueVars, explorerVars, coreVars, txPool, rocks, admitVars, blk, processVars>>

\* commitBlockToRocks: Core appends the next height and nothing else.
CommitBlockToRocks ==
    /\ node = "up" /\ pc = "headed"
    /\ blk.num = Len(rocks)
    /\ rocks' = Append(rocks, [num |-> blk.num, txs |-> blk.txs, ts |-> blk.ts])
    /\ pc' = "committed"
    /\ UNCHANGED <<queueVars, explorerVars, cacheVars, coreVars, txPool, admitVars, blk, processVars>>

\* Mutant: the undo leaves the counter.
UndoneCounterKept(tip) == blockCounter

\* undoExplorerConfirmLocked lowers the counter with the tip it removes.
UndoneCounter(tip) == IF tip /\ blockCounter = blk.num + 1 THEN blk.num ELSE blockCounter

\* The commit is refused: UndoLastConfirmedBlock and the worker's recovery.
CommitFails ==
    LET tip  == blockHistory # <<>> /\ Last(blockHistory).num = blk.num
        hist == IF tip THEN Front(blockHistory) ELSE blockHistory
        cnt  == UndoneCounter(tip)
    IN  /\ node = "up" /\ pc = "headed"
        /\ blk.num # Len(rocks) \/ "rocks" \in Faults
        /\ UndoConfirm(blk.txs)
        /\ blockHistory' = hist /\ blockCounter' = cnt
        /\ Persist(hist, cnt, rows')
        /\ UNCHANGED <<txPool, rocks, admitVars, processVars>>

\* Mutant: the whole pool is emptied.
ForgetAll ==
    /\ node = "up" /\ pc = "committed"
    /\ backup' = {}
    /\ txPool' = {}
    /\ pc' = "idle" /\ blk' = NoBlock
    /\ UNCHANGED <<queueVars, explorerVars, cacheVars, stateFile, rocks, admitVars, processVars>>

\* DiscardStateBackup and ForgetTxPool.
Forget ==
    /\ node = "up" /\ pc = "committed"
    /\ backup' = {}
    /\ txPool' = txPool \ blk.txs
    /\ pc' = "idle" /\ blk' = NoBlock
    /\ UNCHANGED <<queueVars, explorerVars, cacheVars, stateFile, rocks, admitVars, processVars>>

-----------------------------------------------------------------------------
(* The process dies and starts. *)

EmptyMemory ==
    /\ rows' = [t \in Tx |-> None]
    /\ mempool' = {} /\ pendingBlock' = {} /\ confirmedHashes' = {}
    /\ blockHistory' = <<>> /\ blockCounter' = 0 /\ durableHead' = None
    /\ valid' = {} /\ admit' = NoTx
    /\ pc' = "idle" /\ blk' = NoBlock /\ hyd' = NoHydration /\ req' = NoRequest
    /\ unread' = unread \ {None}

Crash ==
    /\ node # "down" /\ pc \in CrashAt
    /\ crashes < MaxCrashes
    /\ crashes' = crashes + 1
    /\ node' = "down"
    /\ EmptyMemory
    /\ UNCHANGED <<chainFile, coreVars, txPool, rocks, acked>>

LoseChainFile ==
    /\ node = "down" /\ "chainfile" \in Faults
    /\ chainFile # NoFile
    /\ chainFile' = NoFile
    /\ UNCHANGED <<queueVars, explorerVars, durableHead, coreVars, txPool, rocks, admitVars,
                   workerVars, processVars>>

\* SyncFromRocksHead, with the head and the blocks read from Rocks: an empty Rocks or
\* a longer cache keeps the cache, otherwise what was read replaces it and the rows
\* bring back what is newer.
KeepsCache(head, local) == head = 0 \/ local > head - 1

\* Mutant: one block too far.
KeptCounterFar(local, counter) == local + 2

KeptCounter(local, counter) == IF counter <= local THEN local + 1 ELSE counter

\* The blocks that were read, unless there are none.
Replaced(listed, history) == IF listed = <<>> THEN history ELSE listed

\* initChainPersistence up to the pool: LoadChainFile, and initRocksFromChainFile,
\* which lets Core import chain.json into an empty Rocks and follows Rocks, unless the
\* head cannot be read.
LoadChain ==
    LET index  == chainFile.rows
        loaded == Attach(chainFile.blocks, index)
        local  == historyHead(loaded)
        count  == AttachCounter(chainFile.blocks, index, chainFile.counter)
        keep   == KeepsCache(Len(rocks'), local)
    IN  /\ node = "down"
        /\ \/ rocks = <<>> /\ rocks' = chainFile.blocks
           \/ (rocks # <<>> \/ "migrate" \in Faults \/ CanFail) /\ UNCHANGED rocks
        /\ rows' = index
        /\ confirmedHashes' = {t \in Tx : index[t] >= 0}
        /\ \/ /\ keep
              /\ blockHistory' = loaded
              /\ blockCounter' = KeptCounter(local, count)
              /\ UNCHANGED unread
              /\ durableHead' = local
           \/ /\ ~keep
              /\ \E listed \in BlockLists(rocks') :
                    LET base == Replaced(listed, loaded)
                    IN  /\ blockHistory' = Attach(base, index)
                        /\ blockCounter' = AttachCounter(base, index, Len(rocks'))
                        /\ durableHead' = AttachDurable(base, index, local)
                        /\ unread' = Nums(rocks') \ Nums(listed)
           \/ /\ CanFail
              /\ blockHistory' = loaded /\ blockCounter' = count
              /\ durableHead' = local
              /\ unread' = {None} \cup Nums(rocks')
        /\ node' = "loaded"
        /\ UNCHANGED <<queueVars, chainFile, coreVars, txPool, admitVars, workerVars, crashes, hyd,
                       req>>

\* Mutant: the tip that a crash left stays.
KeptWithLead(head) == blockHistory

\* The blocks at or below the Rocks head, all of them when it cannot be read.
KeptBlocks(head) ==
    LET canonical(b) == head = {} \/ b.num \in None .. Max(head)
    IN  SelectSeq(blockHistory, canonical)

\* Mutant: the pool is not read.
RestoredRows(kept) ==
    LET headTs == Max({0} \cup {kept[i].ts : i \in DOMAIN kept})
    IN  {t \in Tx \ TxsOf(kept) : rows[t] # None /\ Stamp[t] > headTs}

\* Mutant: rows that have no pool entry are not restored.
RestoredPool(kept) ==
    LET headTs == Max({0} \cup {kept[i].ts : i \in DOMAIN kept})
    IN  {t \in txPool \ TxsOf(kept) : Stamp[t] > headTs}

\* Pool entries and rows in none of those blocks, unless not newer than the last.
Restored(kept) ==
    LET headTs == Max({0} \cup {kept[i].ts : i \in DOMAIN kept})
    IN  {t \in (txPool \cup {u \in Tx : rows[u] # None}) \ TxsOf(kept) : Stamp[t] > headTs}

\* RestoreDurableTxs: blocks ahead of the Rocks head leave the history, what is
\* restored goes to the mempool and to the pool, everything else leaves the pool.
RestoreWith(head) ==
    LET kept     == KeptBlocks(head)
        restored == Restored(kept)
        index    == [t \in Tx |-> IF t \in restored THEN 0 ELSE rows[t]]
    IN  /\ rows' = index
        /\ confirmedHashes' = confirmedHashes \ restored
        /\ mempool' = restored
        /\ txPool' = restored \/ ("pool" \in Faults /\ txPool' = restored \cap txPool)
        /\ IF kept = blockHistory
           THEN UNCHANGED <<blockHistory, blockCounter, cacheVars>>
           ELSE /\ blockHistory' = kept
                /\ blockCounter' = RocksHead + 1
                /\ durableHead' = historyHead(kept)
                /\ \/ chainFile' = Snapshot(kept, RocksHead + 1, index)
                   \/ "persist" \in Faults /\ UNCHANGED chainFile

RestoreDurableTxs ==
    /\ node = "loaded"
    /\ \/ RestoreWith({RocksHead}) /\ UNCHANGED unread
       \/ CanFail /\ RestoreWith({}) /\ unread' = unread \cup {None}
       \/ /\ CanFail /\ unread' = unread \cup {None}
          /\ UNCHANGED <<mempool, explorerVars, cacheVars, txPool>>
    /\ node' = "restored"
    /\ UNCHANGED <<pendingBlock, coreVars, rocks, admitVars, workerVars, crashes, hyd, req>>

\* The last step of a start: PruneMempool, and the hydration is started.
PruneAtStart ==
    /\ node = "restored"
    /\ PruneMempool
    /\ node' = "up" /\ hyd' = [NoHydration EXCEPT !.at = "head"]
    /\ UNCHANGED <<pendingBlock, explorerVars, cacheVars, coreVars, rocks, admitVars, workerVars,
                   crashes, req, unread>>

-----------------------------------------------------------------------------
(* hydrateExplorerIndexFromRocksIfNeeded, beside the worker: every read of Rocks   *)
(* and every lock is a step of its own.                                            *)

HydrationReads(label) ==
    /\ node = "up" /\ hyd.at = label /\ "hydrate" \in Faults
    /\ UNCHANGED <<queueVars, explorerVars, cacheVars, coreVars, txPool, rocks, admitVars,
                   workerVars, node, crashes, req, unread>>
HydrationWrites(label, rest) ==
    /\ node = "up" /\ hyd.at = label /\ "hydrate" \in Faults
    /\ UNCHANGED <<queueVars, coreVars, txPool, rocks, admitVars, workerVars, node, crashes, req,
                   rest>>
At(label) == [NoHydration EXCEPT !.at = label]

Indexed == Cardinality({t \in Tx : rows[t] # None})
Expected == Cardinality(TxsOf(blockHistory))

\* GetBlockHistory may be empty: the blocks in memory up to the Rocks head, or those of
\* Rocks when there are none in memory.
NoneServed ==
    {IF blockHistory = <<>> THEN rocks = <<>> ELSE \A n \in Nums(blockHistory) : n > RocksHead}
    \cup (IF CanFail THEN {blockHistory = <<>>} ELSE {})

HydrateReadHead ==
    /\ HydrationReads("head")
    /\ \/ hyd' = [hyd EXCEPT !.at = "expected", !.head = Len(rocks)]
       \/ CanFail /\ hyd' = NoHydration

HydrateReadExpected ==
    /\ HydrationReads("expected")
    /\ hyd' = [hyd EXCEPT !.at = "indexed", !.expected = Expected]

HydrateReadIndexed ==
    /\ HydrationReads("indexed")
    /\ hyd' = [hyd EXCEPT !.at = "served", !.indexed = Indexed]

\* An index that lacks transactions is hydrated, a complete one written again.
HydrateReadHistory ==
    LET needed(none) == hyd.head > 0 /\ (hyd.indexed < hyd.expected \/ hyd.indexed = 0 \/ none)
        complete == hyd.head > 0 /\ hyd.indexed = hyd.expected /\ hyd.expected > 0
        todo(none) == IF needed(none) THEN "sync" ELSE IF complete THEN "snapshot" ELSE "off"
    IN  /\ HydrationReads("served")
        /\ IF hyd.head = 0 /\ hyd.expected = 0
           THEN hyd' = NoHydration
           ELSE \E none \in NoneServed :
                    hyd' = [NoHydration EXCEPT !.at = "memory", !.todo = todo(none)]

\* ChainCacheLeadsRocks: the head in memory, then the head of Rocks.  A history ahead
\* of Rocks (a block being confirmed) is only written again.
HydrateReadMemory ==
    /\ HydrationReads("memory")
    /\ hyd' = [hyd EXCEPT !.at = "leads", !.local = historyHead(blockHistory)]

HydrateReadLead ==
    /\ HydrationReads("leads")
    /\ \/ hyd' = At(IF hyd.local > RocksHead THEN "snapshot" ELSE hyd.todo)
       \/ CanFail /\ hyd' = At(hyd.todo)

\* SyncFromRocksHead: read the head,
SyncReadHead ==
    /\ HydrationReads("sync")
    /\ \/ hyd' = [hyd EXCEPT !.at = "attach", !.head = Len(rocks)]
       \/ CanFail /\ hyd' = At("txs")

\* attach the rows and look at the local head under the lock,
SyncAttach ==
    LET local == historyHead(Attach(blockHistory, rows))
    IN  /\ HydrationWrites("attach", <<rows, confirmedHashes, chainFile, unread>>)
        /\ blockHistory' = Attach(blockHistory, rows)
        /\ blockCounter' = AttachCounter(blockHistory, rows, blockCounter)
        /\ durableHead' = AttachDurable(blockHistory, rows, durableHead)
        /\ hyd' = IF KeepsCache(hyd.head, local)
                  THEN [hyd EXCEPT !.at = "keep", !.local = local]
                  ELSE [hyd EXCEPT !.at = "list"]

\* keep a longer history (under a second lock, with the head seen under the first),
SyncKeep ==
    /\ HydrationWrites("keep", <<rows, confirmedHashes, blockHistory, cacheVars, unread>>)
    /\ blockCounter' = KeptCounter(hyd.local, blockCounter)
    /\ hyd' = At("txs")

\* or list the blocks of Rocks
SyncListBlocks ==
    /\ HydrationWrites("list", <<explorerVars, cacheVars>>)
    /\ \/ \E listed \in BlockLists(rocks) :
            /\ hyd' = [hyd EXCEPT !.at = "install", !.listed = listed]
            /\ unread' = unread \cup (Nums(rocks) \ Nums(listed))
       \/ CanFail /\ hyd' = At("txs") /\ UNCHANGED unread

\* and install them: the counter is set to the head read first, the history to the
\* blocks read second; what was confirmed since comes back through its rows.
SyncInstall ==
    LET base == Replaced(hyd.listed, blockHistory)
    IN  /\ HydrationWrites("install", <<rows, confirmedHashes, chainFile, unread>>)
        /\ blockHistory' = Attach(base, rows)
        /\ blockCounter' = AttachCounter(base, rows, hyd.head)
        /\ durableHead' = AttachDurable(base, rows, durableHead)
        /\ hyd' = At("txs")

\* HydrateExplorerIndexFromRocks: list the transactions that can be read,
HydrateListTxs ==
    /\ HydrationReads("txs")
    /\ \/ \E txs \in IF CanFail THEN SUBSET RocksTxs ELSE {RocksTxs} :
            hyd' = [hyd EXCEPT !.at = "index", !.txs = txs]
       \/ CanFail /\ hyd' = At("done")

\* and index them, except under a row with a higher block number.
HydrateIndex ==
    LET height(t) == CHOOSE n \in 0 .. RocksHead : t \in rocks[n + 1].txs
        index == [t \in Tx |-> IF t \in hyd.txs THEN Max({rows[t], height(t)}) ELSE rows[t]]
    IN  /\ HydrationWrites("index", <<chainFile, unread>>)
        /\ rows' = index
        /\ confirmedHashes' = confirmedHashes \cup hyd.txs
        /\ blockHistory' = Attach(blockHistory, index)
        /\ blockCounter' = AttachCounter(blockHistory, index, blockCounter)
        /\ durableHead' = AttachDurable(blockHistory, index, durableHead)
        /\ hyd' = [At("snapshot") EXCEPT !.todo = "sync"]

\* PersistChainSnapshot.
HydrateSnapshot ==
    /\ HydrationWrites("snapshot", <<explorerVars, unread>>)
    /\ Persist(blockHistory, blockCounter, rows)
    /\ hyd' = At(IF hyd.todo = "sync" THEN "done" ELSE "off")

-----------------------------------------------------------------------------
(* Requests of clients that write to the explorer while they read it. *)

RequestStep(label) ==
    /\ node = "up" /\ "request" \in Faults /\ req.at = label
    /\ UNCHANGED <<queueVars, chainFile, coreVars, txPool, rocks, admitVars, workerVars, node,
                   crashes, hyd>>

\* GetTransaction: a transaction without a row is taken from Rocks, where it has no
\* block number, and counts as confirmed.
GetTransaction(t) ==
    /\ RequestStep("off")
    /\ rows[t] = None /\ t \in RocksTxs
    /\ rows' = [rows EXCEPT ![t] = 0]
    /\ confirmedHashes' = confirmedHashes \cup {t}
    /\ UNCHANGED <<blockHistory, blockCounter, durableHead, req, unread>>

\* ConfirmedTxRefsNewestFirst: attach the rows; with no block at all, list Rocks,
ConfirmedTxRefsNewestFirst ==
    /\ RequestStep("off")
    /\ blockHistory' = Attach(blockHistory, rows)
    /\ blockCounter' = AttachCounter(blockHistory, rows, blockCounter)
    /\ durableHead' = AttachDurable(blockHistory, rows, durableHead)
    /\ req' = IF blockHistory' = <<>> THEN [NoRequest EXCEPT !.at = "list"] ELSE NoRequest
    /\ UNCHANGED <<rows, confirmedHashes, unread>>

ListFromRocks ==
    /\ RequestStep("list")
    /\ \/ \E listed \in BlockLists(rocks) \ {<<>>} :
            /\ req' = [at |-> "install", listed |-> listed]
            /\ unread' = unread \cup (Nums(rocks) \ Nums(listed))
       \/ (CanFail \/ rocks = <<>>) /\ req' = NoRequest /\ UNCHANGED unread
    /\ UNCHANGED <<explorerVars, durableHead>>

\* and install the list if there is still none.
InstallList ==
    /\ RequestStep("install")
    /\ IF blockHistory = <<>>
       THEN /\ blockHistory' = req.listed
            /\ blockCounter' = KeptCounter(historyHead(req.listed), blockCounter)
            /\ durableHead' = Max({durableHead, historyHead(req.listed)})
       ELSE UNCHANGED <<blockHistory, blockCounter, durableHead>>
    /\ req' = NoRequest
    /\ UNCHANGED <<rows, confirmedHashes, unread>>

-----------------------------------------------------------------------------
(* The specification. *)

\* What a node that was stopped cleanly has on disk.
OldChain ==
    IF OldTxs = {} THEN <<>>
    ELSE <<[num |-> 0, txs |-> OldTxs, ts |-> Max({Stamp[t] : t \in OldTxs})]>>
OldFile ==
    Snapshot(OldChain, Len(OldChain), [t \in Tx |-> IF t \in OldTxs THEN 0 ELSE None])

Init ==
    /\ rows = [t \in Tx |-> None]
    /\ mempool = {} /\ pendingBlock = {} /\ confirmedHashes = {}
    /\ blockHistory = <<>> /\ blockCounter = 0 /\ durableHead = None
    /\ stateFile = OldTxs /\ backup = {} /\ chainFile = OldFile /\ txPool = {}
    /\ rocks = OldChain
    /\ valid = {} /\ admit = NoTx /\ acked = {}
    /\ node = "down" /\ crashes = 0 /\ pc = "idle" /\ blk = NoBlock
    /\ hyd = NoHydration /\ req = NoRequest /\ unread = {}

Admission ==
    \/ \E t \in Tx : Validate(t) \/ AddToMempool(t)
    \/ AddTransaction \/ SaveAdmittedTx

Queues == RequeueUnconfirmedEscrows \/ PruneBeforeL1 \/ RemoveFromMempool \/ AbandonInvalid

Worker ==
    \/ \E s \in SUBSET mempool : Collect(s)
    \/ ApplyConfirmed \/ ApplyFails \/ Stage \/ ApplyBlockHeader
    \/ CommitBlockToRocks \/ CommitFails \/ Forget

Start == LoadChain \/ RestoreDurableTxs \/ PruneAtStart

Hydration ==
    \/ HydrateReadHead \/ HydrateReadExpected \/ HydrateReadIndexed \/ HydrateReadHistory
    \/ HydrateReadMemory \/ HydrateReadLead
    \/ SyncReadHead \/ SyncAttach \/ SyncKeep \/ SyncListBlocks \/ SyncInstall
    \/ HydrateListTxs \/ HydrateIndex \/ HydrateSnapshot

Requests ==
    \/ \E t \in Tx : GetTransaction(t)
    \/ ConfirmedTxRefsNewestFirst \/ ListFromRocks \/ InstallList

Next == Admission \/ Queues \/ Worker \/ Crash \/ LoseChainFile \/ Start \/ Hydration \/ Requests

Spec == Init /\ [][Next]_vars

\* The worker ticks every 500 ms, the start and the hydration run to their end, and a
\* node that died is started again.
FairSpec ==
    /\ Spec
    /\ WF_vars(\E s \in SUBSET mempool : Collect(s))
    /\ WF_vars(ApplyConfirmed) /\ WF_vars(Stage) /\ WF_vars(ApplyBlockHeader)
    /\ WF_vars(CommitBlockToRocks) /\ WF_vars(CommitFails) /\ WF_vars(Forget)
    /\ WF_vars(Start) /\ WF_vars(Hydration)

-----------------------------------------------------------------------------
(* Properties. *)

Block == [num : 0 .. MaxHeight, txs : SUBSET Tx, ts : {Stamp[t] : t \in Tx}]
Index == [Tx -> None .. MaxHeight]

\* Every variable keeps its type.
TypeOK ==
    /\ rows \in Index
    /\ mempool \subseteq Tx /\ pendingBlock \subseteq Tx /\ confirmedHashes \subseteq Tx
    /\ blockHistory \in Seq(Block) /\ rocks \in Seq(Block)
    /\ blockCounter \in 0 .. MaxHeight + 1 /\ durableHead \in None .. MaxHeight
    /\ stateFile \subseteq Tx /\ backup \in SUBSET SUBSET Tx
    /\ chainFile \in [blocks : Seq(Block), counter : 0 .. MaxHeight + 1, rows : Index]
    /\ txPool \subseteq Tx /\ valid \subseteq Tx /\ acked \subseteq Tx
    /\ admit \in [at : {"free", "row", "save"}, tx : SUBSET Tx]
    /\ node \in {"down", "loaded", "restored", "up"} /\ crashes \in 0 .. MaxCrashes
    /\ pc \in Labels /\ blk \in Block \cup {NoBlock}
    /\ hyd \in [at : {"off", "done", "head", "expected", "indexed", "served", "memory", "leads", "sync",
                     "attach", "keep", "list", "install", "txs", "index", "snapshot"},
               todo : {"off", "snapshot", "sync"}, head : 0 .. MaxHeight + 1,
               expected : Nat, indexed : Nat, local : None .. MaxHeight,
               listed : Seq(Block), txs : SUBSET Tx]
    /\ req \in [at : {"off", "list", "install"}, listed : Seq(Block)]
    /\ unread \subseteq None .. MaxHeight

BeforeSync == {"off", "head", "expected", "indexed", "served", "memory", "leads", "sync", "attach"}
Quiet == node = "up" /\ pc = "idle"
Started == Quiet /\ None \notin unread

\* A transaction that is in the canonical chain is never queued again, whatever
\* was left in the pool, in chain.json or in an admission by a crash.
NoCanonicalTxQueued == Quiet => (mempool \cup pendingBlock) \cap RocksTxs = {}

\* With no block in flight and the hydration over, the explorer has every canonical
\* block it could read with all its transactions, also those confirmed while the
\* hydration installed the blocks it had read before.  The one way out is a row that a
\* late copy of the transaction has set back to number 0.
HistoryCoversRocks ==
    Quiet /\ hyd.at \in {"off", "done"} => \A h \in DOMAIN rocks : h - 1 \notin unread =>
        \A t \in rocks[h].txs :
            \/ \E i \in DOMAIN blockHistory : blockHistory[i].num = h - 1 /\ t \in blockHistory[i].txs
            \/ h > 1 /\ rows[t] = 0

\* A transaction that is in no block and not newer than the canonical chain: a start
\* does not restore it, and it keeps the row it had.
LeftBehind(t) == t \notin RocksTxs /\ \E h \in DOMAIN rocks : Stamp[t] <= rocks[h].ts

\* "Tip leading Rocks head must not be served as canonical": what a crash left in
\* chain.json above the canonical head is gone once the node is up, if the start could
\* read Rocks.  A block above Rocks that a request for the confirmed list builds again
\* from rows has left-behind transactions only.
NoLeadingTip ==
    Started =>
        \A i \in DOMAIN blockHistory : blockHistory[i].num > RocksHead =>
            \A t \in blockHistory[i].txs : LeftBehind(t)

\* "Those rows go back to the mempool and are written to the pool so the next
\* restart finds them again": with no block in flight, an accepted transaction is in
\* the durable pool until it is in the chain, unless it is not newer than a canonical block or another
\* transaction has its nonce.
Excused(t) ==
    \/ \E h \in DOMAIN rocks : Stamp[t] <= rocks[h].ts
    \/ \E u \in Tx \ {t} : SameSlot(t, u)
AckedDurable == Quiet => \A t \in acked : t \in txPool \cup RocksTxs \/ Excused(t)

\* An accepted transaction reaches the canonical chain, across crashes.
AckedIsCommitted == \A t \in Tx : t \in acked ~> (t \in RocksTxs \/ Excused(t))

\* "RequeueUnconfirmedEscrows puts indexed deal locks back into the mempool when they
\* never received a block number": an escrow row in no block is in a queue, or the next
\* tick can requeue it; a mark as confirmed does not hide it, unless the transaction is
\* not newer than the canonical chain.
EscrowRowsRecover ==
    Started => \A t \in Escrow \ RocksTxs : rows[t] = 0 /\ ~Stale(t) =>
                \/ t \in mempool \cup pendingBlock \cup Requeueable
                \/ \E h \in DOMAIN rocks : Stamp[t] <= rocks[h].ts

\* "Next gateway block number equals Rocks head": the worker's next block is the one
\* Rocks accepts, or follows a tip that a list request built again, through failures,
\* undos, crashes and starts.  The hydration does not keep this once it follows Rocks
\* beside the worker.
NextNumberIsNextHeight ==
    Started /\ hyd.at \in BeforeSync =>
        blockCounter = Max({RocksHead, historyHead(blockHistory)}) + 1

\* The same comment taken literally: with no block in flight the counter is the Rocks
\* head, whatever clients read and the hydration does.
CounterIsRocksHead == Quiet => blockCounter = Len(rocks)

\* "RequeueUnconfirmedEscrows puts indexed deal locks (and their settle/cancel) back into
\* the mempool when they never received a block number", taken literally: no start leaves
\* such a row where no tick finds it.
EscrowRowsRequeued ==
    Started => \A t \in Escrow \ RocksTxs : rows[t] = 0 /\ ~Stale(t) =>
                  t \in mempool \cup pendingBlock \cup Requeueable

\* "Invariant: committed block B <-> account/state after B": with nothing in flight
\* the Core state holds the canonical chain.
StateMatchesChain == Quiet => stateFile = RocksTxs

\* "Partial explorer writes without Core COMMITTED are discarded on recovery": a
\* block of the explorer holds the transactions of the canonical block.
HistoryOnlyCommitted ==
    Quiet => \A i \in DOMAIN blockHistory : blockHistory[i].txs \subseteq RocksTxs
=============================================================================
