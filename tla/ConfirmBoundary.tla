-------------------------- MODULE ConfirmBoundary --------------------------
(***************************************************************************)
(* One gateway node: how a block becomes final.                            *)
(*                                                                         *)
(* A block is confirmed by one of four paths: the auto-block worker, the   *)
(* /api/l2-confirm handler, the legacy /api/confirm-block handler, and a   *)
(* block received from a peer.  Each path runs on its own goroutine and    *)
(* goes through the same boundary:                                         *)
(*                                                                         *)
(*   snapshot the Core state file -> Core executes -> explorer + chain.json *)
(*   -> Rocks -> remove the snapshot                                       *)
(*                                                                         *)
(* Blockchain.mu protects single steps of that path, never the path as a   *)
(* whole, so paths interleave at the boundaries of the actions below.      *)
(*                                                                         *)
(* Transactions are atoms.  The lists mempool and pendingBlock are sets,   *)
(* the Core state file is the set of transactions it has executed.         *)
(***************************************************************************)
EXTENDS Accounts, Sequences

CONSTANTS
    Procs,      \* goroutines that confirm blocks
    Kinds,      \* confirm paths in use
    Faults,     \* what the environment may make fail
    PeerLead,   \* how far a peer's block may lead the local canonical chain
    MaxHeight   \* bound: highest block number

AllKinds == {"auto", "l2", "legacy", "peer"}

\* "snapshot": the state file cannot be copied.  "apply": Core refuses the
\* batch or is unreachable.  "persist": chain.json cannot be written.
\* "header": the header cannot be assembled.  "rocks": Rocks refuses the
\* commit.  "reply": Rocks commits, and the gateway sees an error.
AllFaults == {"snapshot", "apply", "persist", "header", "rocks", "reply"}

ASSUME KindsAssumption == Kinds \subseteq AllKinds
ASSUME FaultsAssumption == Faults \subseteq AllFaults
ASSUME BoundsAssumption == MaxHeight \in Nat /\ PeerLead \in Nat

VARIABLES
    \* Blockchain, in memory (blockchain.go)
    mempool, pendingBlock, confirmedHashes, blockHistory, blockCounter, durableHead,
    \* files and databases
    stateFile, backup, chainFile, rocks,
    \* the confirm goroutines
    pc, kind, txs, blk

queueVars == <<mempool, pendingBlock>>
explorerVars == <<confirmedHashes, blockHistory, blockCounter>>
cacheVars == <<durableHead, chainFile>>
coreVars == <<stateFile, backup>>
procVars == <<pc, kind, txs, blk>>
vars == <<queueVars, explorerVars, cacheVars, coreVars, rocks, procVars>>

-----------------------------------------------------------------------------
(* Data. *)

Heights == 0 .. MaxHeight
Block == [num : Heights, txs : SUBSET Tx]
ChainFile == [blocks : Seq(Block), counter : 0 .. MaxHeight + 1]

\* Highest block number of a list of blocks, -1 when it is empty.
historyHead(blocks) ==
    LET nums == {-1} \cup {blocks[i].num : i \in DOMAIN blocks}
    IN  CHOOSE n \in nums : \A m \in nums : m <= n

\* Rocks height h holds the transactions of gateway block h - 1 and the accounts
\* written with it.  The next block to commit has number Len(rocks).
RocksBlock == [txs : SUBSET Tx, accounts : SUBSET Tx]
RocksTxs == UNION {rocks[h].txs : h \in DOMAIN rocks}

\* Accounts that a block touches, as what Core has executed for their owners.
Touched(executed, batch) == {t \in executed : \E u \in batch : Sender[t] = Sender[u]}

\* The state file after a restore from the snapshot (copyFile of a missing
\* snapshot fails and leaves the state file alone).
Restored == IF backup = {} THEN stateFile ELSE UNION backup

-----------------------------------------------------------------------------
(* Mempool and pending block. *)

\* AddToMempool after Core admitted t: a hash that is confirmed or in flight is
\* ignored, a nonce in flight is refused.
AddToMempool(t) ==
    /\ t \notin confirmedHashes \cup pendingBlock \cup mempool
    /\ \A u \in mempool \cup pendingBlock : ~SameSlot(t, u)
    /\ mempool' = mempool \cup {t}
    /\ UNCHANGED <<pendingBlock, explorerVars, cacheVars, coreVars, rocks, procVars>>

\* PruneMempool: entries confirmed in memory, entries already pending and all but one
\* entry of an account's nonce leave the mempool.  The blocks of Rocks and the nonces
\* are read before the lock, beside any confirm or undo, and the clock decides what is
\* too old: any other entry may leave too, or be missed.
PruneMempool ==
    LET known == pendingBlock \cup UNION {blockHistory[i].txs : i \in DOMAIN blockHistory}
    IN  /\ \E kept \in SUBSET (mempool \ known) :
              /\ \A t, u \in kept : SameSlot(t, u) => t = u
              /\ kept # mempool
              /\ mempool' = kept
        /\ UNCHANGED <<pendingBlock, explorerVars, cacheVars, coreVars, rocks, procVars>>

\* L1CollectSelected: the selected transactions still in the mempool become the
\* pending block, whatever it held (none of them may be left).
L1CollectSelected(selected) ==
    /\ selected \subseteq mempool
    /\ pendingBlock' = selected
    /\ mempool' = mempool \ selected
    /\ UNCHANGED <<explorerVars, cacheVars, coreVars, rocks, procVars>>

\* onPendingBlockSync: a peer collected a block; it replaces the pending block.
SyncPendingBlock(collected) ==
    /\ collected # {}
    /\ pendingBlock' = collected
    /\ mempool' = mempool \ collected
    /\ UNCHANGED <<explorerVars, cacheVars, coreVars, rocks, procVars>>

\* autoBlockConfirmPending before it votes: Core says which pending transactions
\* can never execute, AbandonPendingBlock drops them and requeues the others.
AbandonInvalid(drop) ==
    /\ drop # {}
    /\ mempool' = mempool \cup (pendingBlock \ drop)
    /\ pendingBlock' = {}
    /\ UNCHANGED <<explorerVars, cacheVars, coreVars, rocks, procVars>>

\* AbandonPendingBlock(nil)
AbandonPendingBlock ==
    /\ mempool' = mempool \cup pendingBlock
    /\ pendingBlock' = {}

-----------------------------------------------------------------------------
(* A confirm path starts. *)

HasHeight(num) == \E i \in DOMAIN blockHistory : blockHistory[i].num = num

\* Labels of a confirm goroutine: what it does next.
Labels == {"idle", "vote", "snapshot", "apply", "rollback", "requeue", "recover",
           "stage", "header", "commit", "undo", "discard"}

NoBlock == [num |-> 0, txs |-> {}]

\* The goroutine continues at label with the block and transactions it holds.
Goto(p, label) == pc' = [pc EXCEPT ![p] = label] /\ UNCHANGED <<kind, txs, blk>>

\* The goroutine returns; its locals are gone.
Return(p) ==
    /\ pc' = [pc EXCEPT ![p] = "idle"]
    /\ kind' = [kind EXCEPT ![p] = "none"]
    /\ txs' = [txs EXCEPT ![p] = {}]
    /\ blk' = [blk EXCEPT ![p] = NoBlock]

\* The goroutine continues at label on path k with batch s and block b.
Hold(p, label, k, s, b) ==
    /\ pc' = [pc EXCEPT ![p] = label]
    /\ kind' = [kind EXCEPT ![p] = k]
    /\ txs' = [txs EXCEPT ![p] = s]
    /\ blk' = [blk EXCEPT ![p] = b]

\* Where a path that failed goes: the auto-block worker returns what is pending
\* to the mempool, the others answer with an error.
Fail(p) == IF kind[p] = "auto" THEN Goto(p, "recover") ELSE Return(p)

\* l2ConfirmBlockRun: refuse when nothing is pending, else run the vote round.
L2Begin(p, k) ==
    /\ pc[p] = "idle" /\ k \in Kinds \cap {"auto", "l2"}
    /\ pendingBlock # {}
    /\ Hold(p, "vote", k, {}, NoBlock)
    /\ UNCHANGED <<queueVars, explorerVars, cacheVars, coreVars, rocks>>

\* The vote round ends: rejected, or Blockchain.L2ConfirmBlock copies what is
\* pending now, which may no longer be what the round voted on.
L2Voted(p) ==
    /\ pc[p] = "vote"
    /\ Fail(p) \/ Hold(p, "snapshot", kind[p], pendingBlock, NoBlock)
    /\ UNCHANGED <<queueVars, explorerVars, cacheVars, coreVars, rocks>>

\* ConfirmMempoolToChain copies the mempool.
LegacyBegin(p) ==
    /\ pc[p] = "idle" /\ "legacy" \in Kinds
    /\ Hold(p, "snapshot", "legacy", mempool, NoBlock)
    /\ UNCHANGED <<queueVars, explorerVars, cacheVars, coreVars, rocks>>

\* AddConfirmedBlock on a peer's block: a height the history already has is
\* either known or a fork conflict, and nothing changes.  The transaction bodies
\* may be missing from the message (a peer that lost its index exports none).
PeerBegin(p, b, bodies) ==
    /\ pc[p] = "idle" /\ "peer" \in Kinds
    /\ b.num <= Len(rocks) + PeerLead
    /\ ~HasHeight(b.num)
    /\ Hold(p, "snapshot", "peer", bodies, b)
    /\ UNCHANGED <<queueVars, explorerVars, cacheVars, coreVars, rocks>>

-----------------------------------------------------------------------------
(* applyConfirmedTransactions: no lock is held. *)

\* After a failed apply: L2 requeues, the other paths answer with an error.
ApplyFailed(p) == IF kind[p] \in {"auto", "l2"} THEN Goto(p, "requeue") ELSE Return(p)

\* copyFile(state, state.l2bak): one snapshot name for every path.
SnapshotState(p) ==
    /\ pc[p] = "snapshot"
    /\ \/ backup' = {stateFile} /\ Goto(p, "apply")
       \/ "snapshot" \in Faults /\ ApplyFailed(p) /\ UNCHANGED backup
    /\ UNCHANGED <<queueVars, explorerVars, cacheVars, stateFile, rocks>>

\* Core is not called for an empty block.
ApplyMayFail(p) == "apply" \in Faults /\ txs[p] # {}

\* Core executes the batch.  When it fails, any executable part of it may have
\* been executed: nothing (the kernel batch was refused), the transactions before
\* the failing one (one call per transaction), or all (the answer was lost).
ApplyTransactions(p) ==
    /\ pc[p] = "apply"
    /\ \/ /\ Executable(stateFile, txs[p])
          /\ stateFile' = stateFile \cup txs[p]
          /\ Goto(p, "stage")
       \/ /\ ~Executable(stateFile, txs[p]) \/ ApplyMayFail(p)
          /\ \E done \in SUBSET txs[p] :
                Executable(stateFile, done) /\ stateFile' = stateFile \cup done
          /\ Goto(p, "rollback")
    /\ UNCHANGED <<queueVars, explorerVars, cacheVars, backup, rocks>>

\* rollback(): restore the state file and remove the snapshot.
RollbackApplySkipped(p) ==
    /\ pc[p] = "rollback"
    /\ backup' = {}
    /\ ApplyFailed(p)
    /\ UNCHANGED <<queueVars, explorerVars, cacheVars, stateFile, rocks>>
RollbackApply(p) ==
    /\ pc[p] = "rollback"
    /\ stateFile' = Restored
    /\ backup' = {}
    /\ ApplyFailed(p)
    /\ UNCHANGED <<queueVars, explorerVars, cacheVars, rocks>>

\* l2ConfirmBlockRun after a failed apply: AbandonPendingBlock(nil).
RequeueAfterApply(p) ==
    /\ pc[p] = "requeue"
    /\ AbandonPendingBlock
    /\ Fail(p)
    /\ UNCHANGED <<explorerVars, cacheVars, coreVars, rocks>>

\* autoBlockConfirmPending after a failed confirm.
AutoRecover(p) ==
    /\ pc[p] = "recover"
    /\ AbandonPendingBlock
    /\ Return(p)
    /\ UNCHANGED <<explorerVars, cacheVars, coreVars, rocks>>

-----------------------------------------------------------------------------
(* Explorer update, chain.json and their undo, under Blockchain.mu. *)

\* persistChain refuses to write a chain with a lower head than it wrote before.
PersistableAlways(history) == TRUE
Persistable(history) == durableHead >= 0 => historyHead(history) >= durableHead

Written(history, counter) ==
    /\ chainFile' = [blocks |-> history, counter |-> counter]
    /\ durableHead' = IF historyHead(history) > durableHead THEN historyHead(history) ELSE durableHead

\* undoExplorerConfirmLocked removes the block only from the end of the history.
IsTip(history, num) == history # <<>> /\ history[Len(history)].num = num

UndoHistoryKept(history, num) == history
UndoHistory(history, num) ==
    IF IsTip(history, num) THEN SubSeq(history, 1, Len(history) - 1) ELSE history

UndoCounterLow(history, num, counter) == IF IsTip(history, num) THEN num - 1 ELSE counter
UndoCounterKept(history, num, counter) == counter
UndoCounter(history, num, counter) ==
    IF IsTip(history, num) /\ counter = num + 1 THEN num ELSE counter

\* The explorer after undoExplorerConfirmLocked(block num, moved).
UndoExplorer(num, moved, history, counter, confirmed) ==
    /\ blockHistory' = UndoHistory(history, num)
    /\ blockCounter' = UndoCounter(history, num, counter)
    /\ confirmedHashes' = confirmed \ moved

\* The explorer with one more block.
ConfirmExplorer(history, counter, confirmed) ==
    /\ blockHistory' = history
    /\ blockCounter' = counter
    /\ confirmedHashes' = confirmed

\* The explorer has the block: the snapshot stays until Rocks has it too.
KeepBackupEarly == backup' = {} /\ UNCHANGED stateFile
KeepBackup == UNCHANGED coreVars

\* Restore the state file from the snapshot and remove the snapshot.
RestoreCoreSkipped == backup' = {} /\ UNCHANGED stateFile
RestoreCore == stateFile' = Restored /\ backup' = {}

\* The fence of L2ConfirmBlock: pending changed during the apply, to other
\* transactions or (a sync may come at any time) to the same ones in another
\* order.  The state is restored and whatever is pending now is cleared.
L2Fence(p) ==
    /\ pc[p] = "stage" /\ kind[p] \in {"auto", "l2"}
    /\ pendingBlock # txs[p] \/ Cardinality(txs[p]) > 1
    /\ RestoreCore
    /\ pendingBlock' = {}
    /\ Return(p)
    /\ UNCHANGED <<mempool, explorerVars, cacheVars, rocks>>

\* L2ConfirmBlock after the fence.
L2Stage(p) ==
    LET num  == blockCounter
        b    == [num |-> num, txs |-> txs[p]]
        hist == Append(blockHistory, b)
        conf == confirmedHashes \cup txs[p]
    IN  /\ pc[p] = "stage" /\ kind[p] \in {"auto", "l2"}
        /\ pendingBlock = txs[p]
        /\ num <= MaxHeight
        /\ \/ /\ Persistable(hist)
              /\ ConfirmExplorer(hist, num + 1, conf)
              /\ Written(hist, num + 1)
              /\ pendingBlock' = {}
              /\ Hold(p, "header", kind[p], txs[p], b)
              /\ KeepBackup
           \/ /\ ~Persistable(hist) \/ "persist" \in Faults
              /\ RestoreCore
              /\ UndoExplorer(num, txs[p], hist, num + 1, conf)
              /\ Fail(p)
              /\ UNCHANGED <<cacheVars, pendingBlock>>
        /\ UNCHANGED <<mempool, rocks>>

\* ConfirmMempoolToChain confirms the mempool as it is now, not the copy that
\* Core executed, and does not mark the hashes confirmed.
LegacyStage(p) ==
    LET num  == blockCounter
        b    == [num |-> num, txs |-> mempool]
        hist == Append(blockHistory, b)
    IN  /\ pc[p] = "stage" /\ kind[p] = "legacy"
        /\ num <= MaxHeight
        /\ \/ /\ Persistable(hist)
              /\ ConfirmExplorer(hist, num + 1, confirmedHashes)
              /\ Written(hist, num + 1)
              /\ mempool' = {}
              /\ Hold(p, "header", "legacy", mempool, b)
              /\ KeepBackup
           \/ /\ ~Persistable(hist) \/ "persist" \in Faults
              /\ RestoreCore
              /\ UndoExplorer(num, mempool, hist, num + 1, confirmedHashes)
              /\ Return(p)
              /\ UNCHANGED <<cacheVars, mempool>>
        /\ UNCHANGED <<pendingBlock, rocks>>

\* AddConfirmedBlock after the apply.  The height is not checked again.  Every
\* hash of the block counts as confirmed, also one whose body did not come.
PeerStage(p) ==
    LET b       == blk[p]
        hist    == Append(blockHistory, b)
        counter == IF b.num + 1 > blockCounter THEN b.num + 1 ELSE blockCounter
        conf    == confirmedHashes \cup txs[p] \cup b.txs
    IN  /\ pc[p] = "stage" /\ kind[p] = "peer"
        /\ pendingBlock' = pendingBlock \ txs[p]
        /\ \/ /\ Persistable(hist)
              /\ ConfirmExplorer(hist, counter, conf)
              /\ Written(hist, counter)
              /\ mempool' = mempool \ txs[p]
              /\ Goto(p, "commit")
              /\ KeepBackup
           \/ /\ ~Persistable(hist) \/ "persist" \in Faults
              /\ RestoreCore
              /\ UndoExplorer(b.num, txs[p], hist, counter, conf)
              /\ mempool' = mempool \cup txs[p]
              /\ Return(p)
              /\ UNCHANGED cacheVars
        /\ UNCHANGED <<rocks>>

-----------------------------------------------------------------------------
(* FinalizeConfirmedBlock and DurableCommitAfterExplorer. *)

\* assembleBlockHeader, then ApplyBlockHeader, which writes chain.json again if
\* the history still has the block, and ignores an error of the write.
AssembleHeader(p) ==
    /\ pc[p] = "header"
    /\ \/ /\ Goto(p, "commit")
          /\ \/ HasHeight(blk[p].num) /\ Persistable(blockHistory)
                /\ Written(blockHistory, blockCounter)
             \/ /\ ~HasHeight(blk[p].num) \/ ~Persistable(blockHistory) \/ "persist" \in Faults
                /\ UNCHANGED cacheVars
       \/ "header" \in Faults /\ Goto(p, "undo") /\ UNCHANGED cacheVars
    /\ UNCHANGED <<queueVars, explorerVars, coreVars, rocks>>

\* commitBlockToRocks: the accounts are queried from the state file as it is now;
\* Core appends the block at the next height or refuses.
CommitBlockToRocks(p) ==
    /\ pc[p] = "commit"
    /\ \/ /\ blk[p].num = Len(rocks)
          /\ rocks' = Append(rocks, [txs |-> txs[p], accounts |-> Touched(stateFile, txs[p])])
          /\ \/ Goto(p, "discard")
             \/ "reply" \in Faults /\ Goto(p, "undo")
       \/ /\ blk[p].num # Len(rocks) \/ "rocks" \in Faults
          /\ Goto(p, "undo")
          /\ UNCHANGED rocks
    /\ UNCHANGED <<queueVars, explorerVars, cacheVars, coreVars>>

\* UndoLastConfirmedBlock: restore Core, undo the explorer, requeue to pending,
\* write chain.json unless the snapshot was missing or the head would shrink.
UndoLastConfirmedBlock(p) ==
    LET num == blk[p].num
    IN  /\ pc[p] = "undo"
        /\ RestoreCore
        /\ UndoExplorer(num, txs[p], blockHistory, blockCounter, confirmedHashes)
        /\ pendingBlock' = pendingBlock \cup txs[p]
        /\ \/ /\ backup # {} /\ Persistable(UndoHistory(blockHistory, num))
              /\ Written(blockHistory', blockCounter')
           \/ /\ \/ backup = {} \/ "persist" \in Faults
                 \/ ~Persistable(UndoHistory(blockHistory, num))
              /\ UNCHANGED cacheVars
        /\ Fail(p)
        /\ UNCHANGED <<mempool, rocks>>

DiscardStateBackup(p) ==
    /\ pc[p] = "discard"
    /\ backup' = {}
    /\ Return(p)
    /\ UNCHANGED <<queueVars, explorerVars, cacheVars, stateFile, rocks>>

-----------------------------------------------------------------------------
(* The specification. *)

Init ==
    /\ mempool = {} /\ pendingBlock = {}
    /\ confirmedHashes = {}
    /\ blockHistory = <<>> /\ blockCounter = 0 /\ durableHead = -1
    /\ stateFile = {} /\ backup = {} /\ rocks = <<>>
    /\ chainFile = [blocks |-> <<>>, counter |-> 0]
    /\ pc = [p \in Procs |-> "idle"] /\ kind = [p \in Procs |-> "none"]
    /\ txs = [p \in Procs |-> {}] /\ blk = [p \in Procs |-> NoBlock]

Queues ==
    \/ \E t \in Tx : AddToMempool(t)
    \/ PruneMempool
    \/ \E s \in SUBSET pendingBlock : AbandonInvalid(s)
    \/ \E s \in SUBSET mempool : L1CollectSelected(s)
    \/ \E s \in SUBSET Tx : SyncPendingBlock(s)

Begin(p) ==
    \/ \E k \in Kinds : L2Begin(p, k)
    \/ LegacyBegin(p)
    \/ \E b \in Block : \E bodies \in {b.txs, {}} : PeerBegin(p, b, bodies)

Confirm(p) ==
    \/ L2Voted(p)
    \/ SnapshotState(p) \/ ApplyTransactions(p) \/ RollbackApply(p)
    \/ RequeueAfterApply(p) \/ AutoRecover(p)
    \/ L2Fence(p) \/ L2Stage(p) \/ LegacyStage(p) \/ PeerStage(p)
    \/ AssembleHeader(p) \/ CommitBlockToRocks(p) \/ UndoLastConfirmedBlock(p)
    \/ DiscardStateBackup(p)

Next == Queues \/ \E p \in Procs : Begin(p) \/ Confirm(p)

Spec == Init /\ [][Next]_vars

-----------------------------------------------------------------------------
(* Properties. *)

\* Every variable keeps its type.
TypeOK ==
    /\ mempool \subseteq Tx /\ pendingBlock \subseteq Tx /\ confirmedHashes \subseteq Tx
    /\ blockHistory \in Seq(Block)
    /\ blockCounter \in 0 .. MaxHeight + 1
    /\ durableHead \in {-1} \cup Heights
    /\ stateFile \subseteq Tx
    /\ backup \in SUBSET SUBSET Tx /\ \A x, y \in backup : x = y
    /\ chainFile \in ChainFile
    /\ rocks \in Seq(RocksBlock)
    /\ pc \in [Procs -> Labels] /\ kind \in [Procs -> AllKinds \cup {"none"}]
    /\ txs \in [Procs -> SUBSET Tx] /\ blk \in [Procs -> Block]

\* chain.json is written before Rocks and persistChain never lowers its head, so
\* the explorer cache on disk always reaches at least the canonical head.  With
\* any number of confirm goroutines, any fault and any undo in between.
CacheReachesRocks == Len(rocks) - 1 <= historyHead(chainFile.blocks)

\* persistChain: the head of chain.json never goes down while the node runs.
CacheHeadNeverShrinks ==
    [][historyHead(chainFile'.blocks) >= historyHead(chainFile.blocks)]_vars

\* "Invariant: committed block B <-> account/state after B": the accounts written
\* with a Rocks block are what the chain up to that block executed for them.
ChainTxs(h) == UNION {rocks[i].txs : i \in 1 .. h}
CommittedStatePaired ==
    \A h \in DOMAIN rocks : rocks[h].accounts = Touched(ChainTxs(h), rocks[h].txs)

\* Nothing in flight: the Core state file holds the canonical chain, no more (an
\* apply that was not committed is rolled back) and no less (a committed block
\* is not rolled back).
Quiescent == \A p \in Procs : pc[p] = "idle"
StateMatchesChain == Quiescent => stateFile = RocksTxs

\* Nothing in flight: the history ends at the canonical head, no half tip.
NoHalfTip == Quiescent => historyHead(blockHistory) = Len(rocks) - 1

\* "NextBlockNumber returns the block number for the next confirmed block": with
\* nothing in flight it is the height Rocks will accept, and a block of that
\* height can still be written to chain.json, so the node can follow the chain.
NextNumberIsNextHeight == Quiescent => blockCounter = Len(rocks) /\ durableHead <= Len(rocks)

\* "Backup (.l2bak) must NOT be removed before durable Rocks commit success": the
\* snapshot of a path stays on disk until its commit or its own rollback.
BackupKept ==
    \A p \in Procs :
        pc[p] \in {"apply", "rollback", "stage", "header", "commit"} => backup # {}

=============================================================================
