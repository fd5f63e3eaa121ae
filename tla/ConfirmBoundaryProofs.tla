------------------------ MODULE ConfirmBoundaryProofs ------------------------
(***************************************************************************)
(* What holds of ConfirmBoundary for every set of transactions, every      *)
(* number of confirm goroutines and every height.                          *)
(***************************************************************************)
EXTENDS ConfirmBoundary, TLAPS, WellFoundedInduction

-----------------------------------------------------------------------------
(* Data. *)

\* The places of a list.
LEMMA ListPlaces ==
    ASSUME NEW S, NEW s \in Seq(S)
    PROVE  /\ Len(s) \in Nat /\ DOMAIN s = 1 .. Len(s) /\ s \in [1 .. Len(s) -> S]
           /\ s # <<>> => Len(s) \in Nat \ {0}
OBVIOUS

\* A list with one more at its end.
LEMMA ListAppend ==
    ASSUME NEW S, NEW s \in Seq(S), NEW e \in S
    PROVE  /\ Append(s, e) \in Seq(S) /\ Append(s, e) # <<>>
           /\ Len(Append(s, e)) = Len(s) + 1 /\ Append(s, e)[Len(s) + 1] = e
           /\ \A i \in 1 .. Len(s) : Append(s, e)[i] = s[i]
OBVIOUS

\* Lists that agree everywhere are the same.
LEMMA ListEqual ==
    ASSUME NEW S, NEW s \in Seq(S), NEW t \in Seq(S), Len(s) = Len(t),
           \A i \in 1 .. Len(s) : s[i] = t[i]
    PROVE  s = t
OBVIOUS

\* The front of a list.
LEMMA ListFront ==
    ASSUME NEW S, NEW s \in Seq(S), NEW k \in 0 .. Len(s)
    PROVE  /\ SubSeq(s, 1, k) \in Seq(S) /\ Len(SubSeq(s, 1, k)) = k
           /\ \A i \in 1 .. k : SubSeq(s, 1, k)[i] = s[i]
OBVIOUS

\* A nonempty set of integers between -1 and MaxHeight has a largest element.
LEMMA BoundedMax ==
    ASSUME NEW S, S \subseteq -1 .. MaxHeight, S # {}
    PROVE  \E n \in S : \A m \in S : m <= n
<1> DEFINE T == {k \in Nat : MaxHeight - k \in S}
<1>1. MaxHeight \in Nat
    BY BoundsAssumption
<1>2. PICK s \in S : TRUE
    BY ZenonT(30)
<1>3. MaxHeight - s \in T
    BY <1>1, <1>2
<1>4. PICK k \in T : \A j \in T : ~(<<j, k>> \in OpToRel(<, Nat))
    <2>1. IsWellFoundedOn(OpToRel(<, Nat), Nat)
        BY NatLessThanWellFounded
    <2>2. T \subseteq Nat /\ T # {}
        BY <1>3
    <2> HIDE DEF T
    <2> QED
        BY <2>1, <2>2, WFMin
<1>5. \A m \in S : m <= MaxHeight - k
    <2> SUFFICES ASSUME NEW m \in S PROVE m <= MaxHeight - k
        OBVIOUS
    <2>1. MaxHeight - m \in T
        BY <1>1
    <2>2. <<MaxHeight - m, k>> \notin OpToRel(<, Nat)
        BY <2>1, <1>4
    <2>3. MaxHeight - m \in Nat /\ k \in Nat
        BY <2>1
    <2>4. ~(MaxHeight - m < k)
        BY <2>2, <2>3 DEF OpToRel
    <2> QED
        BY <2>3, <2>4, <1>1
<1> QED
    BY <1>4, <1>5

\* A number up to the bound is a height.
LEMMA HeightOf ==
    ASSUME NEW n \in Nat, n <= MaxHeight
    PROVE  n \in Heights
BY BoundsAssumption DEF Heights

\* A height and a set of transactions make a block (NewBlock's number and txs).
LEMMA BlockOf ==
    ASSUME NEW n \in Heights, NEW T \in SUBSET Tx
    PROVE  [num |-> n, txs |-> T] \in Block
BY DEF Block

\* historyHead is the largest block number, -1 for an empty history.
LEMMA HistoryHeadMax ==
    ASSUME NEW blocks \in Seq(Block)
    PROVE  /\ historyHead(blocks) \in -1 .. MaxHeight
           /\ \A i \in DOMAIN blocks : blocks[i].num <= historyHead(blocks)
           /\ historyHead(blocks) >= -1
           /\ historyHead(blocks) = -1 \/ \E i \in DOMAIN blocks : blocks[i].num = historyHead(blocks)
<1> DEFINE nums == {-1} \cup {blocks[i].num : i \in DOMAIN blocks}
<1>1. MaxHeight \in Nat
    BY BoundsAssumption
<1>2. \A i \in DOMAIN blocks : blocks[i].num \in 0 .. MaxHeight
    <2>1. \A i \in DOMAIN blocks : blocks[i] \in Block
        BY ListPlaces
    <2> QED
        BY <2>1 DEF Block, Heights
<1>3. nums \subseteq -1 .. MaxHeight /\ nums # {}
    BY <1>1, <1>2
<1>4. \E n \in nums : \A m \in nums : m <= n
    <2> HIDE DEF nums
    <2> QED
        BY <1>3, BoundedMax, ZenonT(30)
<1>5. historyHead(blocks) = CHOOSE n \in nums : \A m \in nums : m <= n
    BY DEF historyHead
<1>6. historyHead(blocks) \in nums /\ \A m \in nums : m <= historyHead(blocks)
    <2> HIDE DEF nums
    <2> QED
        BY <1>4, <1>5
<1> QED
    BY <1>3, <1>6, ZenonT(30)

\* Taking the last block off a history leaves a history.
LEMMA FrontType ==
    ASSUME NEW hist \in Seq(Block), NEW num
    PROVE  UndoHistory(hist, num) \in Seq(Block)
<1>1. CASE hist = <<>>
    BY <1>1 DEF UndoHistory, IsTip
<1>2. CASE hist # <<>>
    <2>1. Len(hist) \in Nat \ {0}
        BY <1>2, ListPlaces
    <2>2. SubSeq(hist, 1, Len(hist) - 1) \in Seq(Block)
        BY <2>1, ListFront
    <2> QED
        BY <2>2 DEF UndoHistory
<1> QED
    BY <1>1, <1>2

-----------------------------------------------------------------------------
(* Types.  TypeOK is inductive.  Its parts: *)

QueueType == mempool \subseteq Tx /\ pendingBlock \subseteq Tx

ExplorerType ==
    /\ confirmedHashes \subseteq Tx
    /\ blockHistory \in Seq(Block)
    /\ blockCounter \in 0 .. MaxHeight + 1

CacheType == durableHead \in {-1} \cup Heights /\ chainFile \in ChainFile

CoreType ==
    /\ stateFile \subseteq Tx
    /\ backup \in SUBSET SUBSET Tx /\ \A x, y \in backup : x = y

RocksType == rocks \in Seq(RocksBlock)

ProcType ==
    /\ pc \in [Procs -> Labels] /\ kind \in [Procs -> AllKinds \cup {"none"}]
    /\ txs \in [Procs -> SUBSET Tx] /\ blk \in [Procs -> Block]

\* TypeOK is the conjunction of the types of the stores.
LEMMA TypeParts ==
    TypeOK <=> QueueType /\ ExplorerType /\ CacheType /\ CoreType /\ RocksType /\ ProcType
BY DEF TypeOK, QueueType, ExplorerType, CacheType, CoreType, RocksType, ProcType

\* The same of the next state.
LEMMA TypePartsNext ==
    QueueType' /\ ExplorerType' /\ CacheType' /\ CoreType' /\ RocksType' /\ ProcType' => TypeOK'
BY DEF TypeOK, QueueType, ExplorerType, CacheType, CoreType, RocksType, ProcType

\* Every way a goroutine continues keeps its locals typed.
LEMMA ProcTypeStep ==
    ASSUME ProcType, NEW p \in Procs
    PROVE  /\ \A label \in Labels : Goto(p, label) => ProcType'
           /\ Return(p) => ProcType'
           /\ \A label \in Labels, k \in AllKinds \cup {"none"}, s \in SUBSET Tx, b \in Block :
                 Hold(p, label, k, s, b) => ProcType'
           /\ Fail(p) => ProcType'
           /\ ApplyFailed(p) => ProcType'
<1>1. NoBlock \in Block
    BY BoundsAssumption DEF NoBlock, Block, Heights
<1>2. \A label \in Labels : Goto(p, label) => ProcType'
    BY DEF ProcType, Goto
<1>3. Return(p) => ProcType'
    BY <1>1 DEF ProcType, Return, Labels
<1>4. \A label \in Labels, k \in AllKinds \cup {"none"}, s \in SUBSET Tx, b \in Block :
          Hold(p, label, k, s, b) => ProcType'
    BY DEF ProcType, Hold
<1>5. "recover" \in Labels /\ "requeue" \in Labels
    BY DEF Labels
<1> QED
    BY <1>2, <1>3, <1>4, <1>5 DEF Fail, ApplyFailed

\* A chain.json write keeps the cache typed.
LEMMA WrittenType ==
    ASSUME CacheType, NEW hist \in Seq(Block), NEW counter \in 0 .. MaxHeight + 1,
           Written(hist, counter)
    PROVE  CacheType'
<1>1. historyHead(hist) \in {-1} \cup Heights
    BY HistoryHeadMax, BoundsAssumption DEF Heights
<1> QED
    BY <1>1 DEF Written, CacheType, ChainFile

\* The explorer undo keeps the explorer typed.
LEMMA UndoExplorerType ==
    ASSUME NEW num \in Heights, NEW moved, NEW hist \in Seq(Block),
           NEW counter \in 0 .. MaxHeight + 1, NEW confirmed \in SUBSET Tx,
           UndoExplorer(num, moved, hist, counter, confirmed)
    PROVE  ExplorerType'
<1>1. UndoHistory(hist, num) \in Seq(Block)
    BY FrontType
<1>2. UndoCounter(hist, num, counter) \in 0 .. MaxHeight + 1
    BY BoundsAssumption DEF UndoCounter, Heights
<1> QED
    BY <1>1, <1>2 DEF UndoExplorer, ExplorerType

\* A restore from the snapshot keeps the Core files typed.
LEMMA RestoreType ==
    ASSUME CoreType
    PROVE  /\ Restored \subseteq Tx
           /\ RestoreCore => CoreType'
<1>1. Restored \subseteq Tx
    BY DEF CoreType, Restored
<1> QED
    BY <1>1 DEF CoreType, RestoreCore

\* The queue actions touch only the two queues.
LEMMA QueuesType ==
    ASSUME TypeOK, Queues
    PROVE  TypeOK'
<1>1. /\ QueueType /\ ExplorerType /\ CacheType /\ CoreType /\ RocksType /\ ProcType
    BY TypeParts
<1>2. /\ QueueType'
      /\ UNCHANGED <<explorerVars, cacheVars, coreVars, rocks, procVars>>
    <2>1. ASSUME NEW t \in Tx, AddToMempool(t) PROVE <1>2!1 /\ <1>2!2
        BY <2>1, <1>1 DEF AddToMempool, QueueType
    <2>2. CASE PruneMempool
        BY <2>2, <1>1 DEF PruneMempool, QueueType
    <2>3. ASSUME NEW s \in SUBSET pendingBlock, AbandonInvalid(s) PROVE <1>2!1 /\ <1>2!2
        BY <2>3, <1>1 DEF AbandonInvalid, QueueType
    <2>4. ASSUME NEW s \in SUBSET mempool, L1CollectSelected(s) PROVE <1>2!1 /\ <1>2!2
        BY <2>4, <1>1 DEF L1CollectSelected, QueueType
    <2>5. ASSUME NEW s \in SUBSET Tx, SyncPendingBlock(s) PROVE <1>2!1 /\ <1>2!2
        BY <2>5, <1>1 DEF SyncPendingBlock, QueueType
    <2> QED
        BY <2>1, <2>2, <2>3, <2>4, <2>5 DEF Queues
<1>3. ExplorerType' /\ CacheType' /\ CoreType' /\ RocksType' /\ ProcType'
    BY <1>1, <1>2 DEF explorerVars, cacheVars, coreVars, procVars,
                      ExplorerType, CacheType, CoreType, RocksType, ProcType
<1> QED
    BY <1>2, <1>3, TypePartsNext

\* A confirm path that starts changes only its own locals.
LEMMA BeginType ==
    ASSUME TypeOK, NEW p \in Procs, Begin(p)
    PROVE  TypeOK'
<1>1. QueueType /\ ExplorerType /\ CacheType /\ CoreType /\ RocksType /\ ProcType
    BY TypeParts
<1>2. NoBlock \in Block
    BY BoundsAssumption DEF NoBlock, Block, Heights
<1>3. /\ ProcType'
      /\ UNCHANGED <<queueVars, explorerVars, cacheVars, coreVars, rocks>>
    <2>1. ASSUME NEW k \in Kinds, L2Begin(p, k) PROVE <1>3!1 /\ <1>3!2
        <3>1. k \in AllKinds /\ "vote" \in Labels
            BY KindsAssumption DEF Labels
        <3> QED
            BY <2>1, <3>1, <1>1, <1>2, ProcTypeStep DEF L2Begin
    <2>2. CASE LegacyBegin(p)
        <3>1. "legacy" \in AllKinds /\ "snapshot" \in Labels /\ mempool \in SUBSET Tx
            BY <1>1 DEF AllKinds, Labels, QueueType
        <3> QED
            BY <2>2, <3>1, <1>1, <1>2, ProcTypeStep DEF LegacyBegin
    <2>3. ASSUME NEW b \in Block, NEW bodies \in {b.txs, {}}, PeerBegin(p, b, bodies)
          PROVE  <1>3!1 /\ <1>3!2
        <3>1. "peer" \in AllKinds /\ "snapshot" \in Labels /\ bodies \in SUBSET Tx
            BY DEF AllKinds, Labels, Block
        <3> QED
            BY <2>3, <3>1, <1>1, ProcTypeStep DEF PeerBegin
    <2> QED
        BY <2>1, <2>2, <2>3 DEF Begin
<1>4. QueueType' /\ ExplorerType' /\ CacheType' /\ CoreType' /\ RocksType'
    BY <1>1, <1>3 DEF queueVars, explorerVars, cacheVars, coreVars,
                      QueueType, ExplorerType, CacheType, CoreType, RocksType
<1> QED
    BY <1>3, <1>4, TypePartsNext

\* The steps of a confirm path up to the explorer update.
LEMMA ApplyStepsType ==
    ASSUME TypeOK, NEW p \in Procs,
           \/ L2Voted(p) \/ SnapshotState(p) \/ ApplyTransactions(p) \/ RollbackApply(p)
           \/ RequeueAfterApply(p) \/ AutoRecover(p) \/ L2Fence(p) \/ DiscardStateBackup(p)
    PROVE  TypeOK'
<1>1. QueueType /\ ExplorerType /\ CacheType /\ CoreType /\ RocksType /\ ProcType
    BY TypeParts
<1>2. NoBlock \in Block
    BY BoundsAssumption DEF NoBlock, Block, Heights
<1>3. QueueType' /\ CoreType' /\ ProcType' /\ UNCHANGED <<explorerVars, cacheVars, rocks>>
    <2>1. CASE L2Voted(p)
        <3>1. "snapshot" \in Labels /\ kind[p] \in AllKinds \cup {"none"} /\ pendingBlock \in SUBSET Tx
            BY <1>1, ZenonT(30) DEF Labels, ProcType, QueueType
        <3>2. ProcType'
            BY <2>1, <3>1, <1>1, <1>2, ProcTypeStep DEF L2Voted
        <3> QED
            BY <2>1, <3>2, <1>1 DEF L2Voted, queueVars, coreVars, QueueType, CoreType
    <2>2. CASE SnapshotState(p)
        <3>1. "apply" \in Labels
            BY DEF Labels
        <3>2. ProcType'
            BY <2>2, <3>1, <1>1, ProcTypeStep, ZenonT(30) DEF SnapshotState
        <3> QED
            BY <2>2, <3>2, <1>1 DEF SnapshotState, queueVars, QueueType, CoreType
    <2>3. CASE ApplyTransactions(p)
        <3>1. "stage" \in Labels /\ "rollback" \in Labels /\ txs[p] \subseteq Tx
            BY <1>1, ZenonT(30) DEF Labels, ProcType
        <3>2. ProcType'
            BY <2>3, <3>1, <1>1, ProcTypeStep, ZenonT(30) DEF ApplyTransactions
        <3>3. stateFile' \subseteq Tx
            BY <2>3, <3>1, <1>1 DEF ApplyTransactions, CoreType
        <3> QED
            BY <2>3, <3>2, <3>3, <1>1 DEF ApplyTransactions, queueVars, QueueType, CoreType
    <2>4. CASE RollbackApply(p)
        <3>1. ProcType'
            BY <2>4, <1>1, ProcTypeStep DEF RollbackApply
        <3>2. CoreType'
            BY <2>4, <1>1, RestoreType DEF RollbackApply, CoreType
        <3> QED
            BY <2>4, <3>1, <3>2, <1>1 DEF RollbackApply, queueVars, QueueType
    <2>5. CASE RequeueAfterApply(p)
        <3>1. ProcType'
            BY <2>5, <1>1, ProcTypeStep DEF RequeueAfterApply
        <3> QED
            BY <2>5, <3>1, <1>1 DEF RequeueAfterApply, AbandonPendingBlock, coreVars, QueueType, CoreType
    <2>6. CASE AutoRecover(p)
        <3>1. ProcType'
            BY <2>6, <1>1, ProcTypeStep DEF AutoRecover
        <3> QED
            BY <2>6, <3>1, <1>1 DEF AutoRecover, AbandonPendingBlock, coreVars, QueueType, CoreType
    <2>7. CASE L2Fence(p)
        <3>1. ProcType' /\ CoreType'
            BY <2>7, <1>1, ProcTypeStep, RestoreType DEF L2Fence
        <3> QED
            BY <2>7, <3>1, <1>1, ZenonT(30) DEF L2Fence, QueueType
    <2>8. CASE DiscardStateBackup(p)
        <3>1. ProcType'
            BY <2>8, <1>1, ProcTypeStep DEF DiscardStateBackup
        <3> QED
            BY <2>8, <3>1, <1>1 DEF DiscardStateBackup, queueVars, QueueType, CoreType
    <2> QED
        BY <2>1, <2>2, <2>3, <2>4, <2>5, <2>6, <2>7, <2>8, ZenonT(30)
<1>4. ExplorerType' /\ CacheType' /\ RocksType'
    BY <1>1, <1>3 DEF explorerVars, cacheVars, ExplorerType, CacheType, RocksType
<1> QED
    BY <1>3, <1>4, TypePartsNext

\* A confirmed history stays a history.
LEMMA AppendType ==
    ASSUME NEW hist \in Seq(Block), NEW b \in Block
    PROVE  Append(hist, b) \in Seq(Block)
BY ListAppend

\* The explorer updates.
LEMMA StageType ==
    ASSUME TypeOK, NEW p \in Procs, L2Stage(p) \/ LegacyStage(p) \/ PeerStage(p)
    PROVE  TypeOK'
<1>1. QueueType /\ ExplorerType /\ CacheType /\ CoreType /\ RocksType /\ ProcType
    BY TypeParts
<1>2. MaxHeight \in Nat /\ "header" \in Labels /\ "commit" \in Labels /\ "legacy" \in AllKinds
    BY BoundsAssumption DEF Labels, AllKinds
<1>3. txs[p] \in SUBSET Tx /\ blk[p] \in Block /\ kind[p] \in AllKinds \cup {"none"}
    BY <1>1 DEF ProcType
<1>4. KeepBackup => CoreType'
    BY <1>1, ZenonT(30) DEF KeepBackup, coreVars, CoreType
<1>5. CASE L2Stage(p)
    <2> DEFINE b == [num |-> blockCounter, txs |-> txs[p]]
               hist == Append(blockHistory, b)
               conf == confirmedHashes \cup txs[p]
    <2>1. b \in Block /\ blockCounter + 1 \in 0 .. MaxHeight + 1 /\ blockCounter \in Heights
        <3>1. blockCounter \in 0 .. MaxHeight + 1 /\ blockCounter <= MaxHeight
            <4>1. blockCounter \in 0 .. MaxHeight + 1
                BY <1>1, ZenonT(30) DEF ExplorerType
            <4> QED
                BY <4>1, <1>5, ZenonT(30) DEF L2Stage
        <3>2. blockCounter + 1 \in 0 .. MaxHeight + 1 /\ blockCounter \in Heights
            BY <3>1, BoundsAssumption DEF Heights
        <3> QED
            BY <3>2, <1>3, BlockOf, ZenonT(30)
    <2>2. hist \in Seq(Block) /\ conf \in SUBSET Tx
        BY <2>1, <1>1, <1>3, AppendType DEF ExplorerType
    <2>3. CASE /\ ConfirmExplorer(hist, blockCounter + 1, conf) /\ Written(hist, blockCounter + 1)
               /\ pendingBlock' = {} /\ Hold(p, "header", kind[p], txs[p], b) /\ KeepBackup
        <3>1. ExplorerType'
            BY <2>1, <2>2, <2>3 DEF ConfirmExplorer, ExplorerType
        <3>2. CacheType' /\ ProcType' /\ CoreType'
            BY <2>1, <2>2, <2>3, <1>1, <1>2, <1>3, <1>4, WrittenType, ProcTypeStep, ZenonT(30)
        <3>3. QueueType' /\ RocksType'
            BY <2>3, <1>5, <1>1, <1>3 DEF L2Stage, QueueType, RocksType
        <3> QED
            BY <3>1, <3>2, <3>3, TypePartsNext
    <2>4. CASE /\ RestoreCore /\ UndoExplorer(blockCounter, txs[p], hist, blockCounter + 1, conf)
               /\ Fail(p) /\ UNCHANGED <<cacheVars, pendingBlock>>
        <3>1. ExplorerType'
            BY <2>1, <2>2, <2>4, UndoExplorerType, ZenonT(30)
        <3>2. CoreType' /\ ProcType'
            BY <2>4, <1>1, RestoreType, ProcTypeStep, ZenonT(30)
        <3>3. QueueType' /\ RocksType'
            BY <2>4, <1>5, <1>1, <1>3, ZenonT(30) DEF L2Stage, QueueType, RocksType
        <3>4. CacheType'
            BY <2>4, <1>1, ZenonT(30) DEF cacheVars, CacheType
        <3> QED
            BY <3>1, <3>2, <3>3, <3>4, TypePartsNext
    <2> QED
        BY <1>5, <2>3, <2>4, ZenonT(30) DEF L2Stage
<1>6. CASE LegacyStage(p)
    <2> DEFINE b == [num |-> blockCounter, txs |-> mempool]
               hist == Append(blockHistory, b)
    <2>1. b \in Block /\ blockCounter + 1 \in 0 .. MaxHeight + 1 /\ blockCounter \in Heights
        <3>1. blockCounter \in 0 .. MaxHeight + 1 /\ mempool \in SUBSET Tx
            BY <1>1, ZenonT(30) DEF ExplorerType, QueueType
        <3>2. blockCounter <= MaxHeight
            BY <1>6, ZenonT(30) DEF LegacyStage
        <3>3. blockCounter + 1 \in 0 .. MaxHeight + 1 /\ blockCounter \in Heights
            BY <3>1, <3>2, BoundsAssumption DEF Heights
        <3> QED
            BY <3>1, <3>3, BlockOf, ZenonT(30)
    <2>2. hist \in Seq(Block) /\ confirmedHashes \in SUBSET Tx /\ mempool \in SUBSET Tx
        BY <2>1, <1>1, AppendType, ZenonT(30) DEF ExplorerType, QueueType
    <2>3. CASE /\ ConfirmExplorer(hist, blockCounter + 1, confirmedHashes) /\ Written(hist, blockCounter + 1)
               /\ mempool' = {} /\ Hold(p, "header", "legacy", mempool, b) /\ KeepBackup
        <3>1. ExplorerType'
            BY <2>1, <2>2, <2>3 DEF ConfirmExplorer, ExplorerType
        <3>2. CacheType' /\ ProcType' /\ CoreType'
            BY <2>1, <2>2, <2>3, <1>1, <1>2, <1>4, WrittenType, ProcTypeStep, ZenonT(30)
        <3>3. QueueType' /\ RocksType'
            BY <2>3, <1>6, <1>1, <1>3, ZenonT(30) DEF LegacyStage, QueueType, RocksType
        <3> QED
            BY <3>1, <3>2, <3>3, TypePartsNext
    <2>4. CASE /\ RestoreCore /\ UndoExplorer(blockCounter, mempool, hist, blockCounter + 1, confirmedHashes)
               /\ Return(p) /\ UNCHANGED <<cacheVars, mempool>>
        <3>1. ExplorerType'
            BY <2>1, <2>2, <2>4, UndoExplorerType, ZenonT(30)
        <3>2. CoreType' /\ ProcType'
            BY <2>4, <1>1, RestoreType, ProcTypeStep, ZenonT(30)
        <3>3. QueueType' /\ RocksType'
            BY <2>4, <1>6, <1>1, <1>3 DEF LegacyStage, QueueType, RocksType
        <3>4. CacheType'
            BY <2>4, <1>1, ZenonT(30) DEF cacheVars, CacheType
        <3> QED
            BY <3>1, <3>2, <3>3, <3>4, TypePartsNext
    <2> QED
        BY <1>6, <2>3, <2>4, ZenonT(30) DEF LegacyStage
<1>7. CASE PeerStage(p)
    <2> DEFINE hist == Append(blockHistory, blk[p])
               counter == IF blk[p].num + 1 > blockCounter THEN blk[p].num + 1 ELSE blockCounter
               conf == confirmedHashes \cup txs[p] \cup blk[p].txs
    <2>1. counter \in 0 .. MaxHeight + 1 /\ blk[p].num \in Heights /\ blk[p].txs \in SUBSET Tx
        BY <1>1, <1>2, <1>3 DEF ExplorerType, Block, Heights
    <2>2. hist \in Seq(Block) /\ conf \in SUBSET Tx
        BY <2>1, <1>1, <1>3, AppendType, ZenonT(30) DEF ExplorerType
    <2>3. CASE /\ ConfirmExplorer(hist, counter, conf) /\ Written(hist, counter)
               /\ mempool' = mempool \ txs[p] /\ Goto(p, "commit") /\ KeepBackup
        <3>1. ExplorerType'
            BY <2>1, <2>2, <2>3, SMTT(30) DEF ConfirmExplorer, ExplorerType
        <3>2. CacheType' /\ ProcType' /\ CoreType'
            BY <2>1, <2>2, <2>3, <1>1, <1>2, <1>4, WrittenType, ProcTypeStep, ZenonT(30)
        <3>3. QueueType' /\ RocksType'
            BY <2>3, <1>7, <1>1, <1>3, ZenonT(30) DEF PeerStage, QueueType, RocksType
        <3> QED
            BY <3>1, <3>2, <3>3, TypePartsNext
    <2>4. CASE /\ RestoreCore /\ UndoExplorer(blk[p].num, txs[p], hist, counter, conf)
               /\ mempool' = mempool \cup txs[p] /\ Return(p) /\ UNCHANGED cacheVars
        <3>1. ExplorerType'
            BY <2>1, <2>2, <2>4, UndoExplorerType, ZenonT(30)
        <3>2. CoreType' /\ ProcType'
            BY <2>4, <1>1, RestoreType, ProcTypeStep, ZenonT(30)
        <3>3. QueueType' /\ RocksType'
            BY <2>4, <1>7, <1>1, <1>3, ZenonT(30) DEF PeerStage, QueueType, RocksType
        <3>4. CacheType'
            BY <2>4, <1>1 DEF cacheVars, CacheType
        <3> QED
            BY <3>1, <3>2, <3>3, <3>4, TypePartsNext
    <2> QED
        BY <1>7, <2>3, <2>4, ZenonT(30) DEF PeerStage
<1> QED
    BY <1>5, <1>6, <1>7

\* The steps after the explorer update.
LEMMA FinalizeType ==
    ASSUME TypeOK, NEW p \in Procs,
           AssembleHeader(p) \/ CommitBlockToRocks(p) \/ UndoLastConfirmedBlock(p)
    PROVE  TypeOK'
<1>1. QueueType /\ ExplorerType /\ CacheType /\ CoreType /\ RocksType /\ ProcType
    BY TypeParts
<1>2. txs[p] \in SUBSET Tx /\ blk[p] \in Block /\ blk[p].num \in Heights
    BY <1>1 DEF ProcType, Block
<1>3. {"commit", "undo", "discard"} \subseteq Labels
    BY DEF Labels
<1>4. blockHistory \in Seq(Block) /\ blockCounter \in 0 .. MaxHeight + 1 /\ confirmedHashes \in SUBSET Tx
    BY <1>1 DEF ExplorerType
<1>5. CASE AssembleHeader(p)
    <2>1. CacheType'
        BY <1>5, <1>1, <1>4, WrittenType, ZenonT(30) DEF AssembleHeader, cacheVars, CacheType
    <2>2. ProcType'
        BY <1>5, <1>1, <1>3, ProcTypeStep, ZenonT(30) DEF AssembleHeader
    <2>3. UNCHANGED <<queueVars, explorerVars, coreVars, rocks>>
        BY <1>5 DEF AssembleHeader
    <2>4. QueueType' /\ ExplorerType' /\ CoreType' /\ RocksType'
        BY <2>3, <1>1 DEF queueVars, explorerVars, coreVars, QueueType, ExplorerType, CoreType, RocksType
    <2> QED
        BY <2>1, <2>2, <2>4, TypePartsNext, ZenonT(30)
<1>6. CASE CommitBlockToRocks(p)
    <2>1. [txs |-> txs[p], accounts |-> Touched(stateFile, txs[p])] \in RocksBlock
        BY <1>1, <1>2, ZenonT(30) DEF RocksBlock, Touched, CoreType
    <2>2. RocksType'
        <3> DEFINE new == [txs |-> txs[p], accounts |-> Touched(stateFile, txs[p])]
        <3>1. rocks' = rocks \/ rocks' = Append(rocks, new)
            BY <1>6, ZenonT(30) DEF CommitBlockToRocks
        <3>2. new \in RocksBlock /\ rocks \in Seq(RocksBlock)
            BY <2>1, <1>1 DEF RocksType
        <3> HIDE DEF new
        <3> QED
            BY <3>1, <3>2, ListAppend DEF RocksType
    <2>3. ProcType'
        BY <1>6, <1>1, <1>3, ProcTypeStep, ZenonT(30) DEF CommitBlockToRocks
    <2>4. UNCHANGED <<queueVars, explorerVars, cacheVars, coreVars>>
        BY <1>6 DEF CommitBlockToRocks
    <2>5. QueueType' /\ ExplorerType' /\ CacheType' /\ CoreType'
        BY <2>4, <1>1 DEF queueVars, explorerVars, cacheVars, coreVars,
                          QueueType, ExplorerType, CacheType, CoreType
    <2> QED
        BY <2>2, <2>3, <2>5, TypePartsNext
<1>7. CASE UndoLastConfirmedBlock(p)
    <2>1. ExplorerType'
        BY <1>7, <1>2, <1>4, UndoExplorerType, ZenonT(30) DEF UndoLastConfirmedBlock
    <2>2. CacheType'
        <3>1. blockHistory' \in Seq(Block) /\ blockCounter' \in 0 .. MaxHeight + 1
            BY <2>1, ZenonT(30) DEF ExplorerType
        <3> QED
            BY <3>1, <1>7, <1>1, WrittenType DEF UndoLastConfirmedBlock, cacheVars, CacheType
    <2>3. CoreType' /\ ProcType'
        BY <1>7, <1>1, RestoreType, ProcTypeStep, ZenonT(30) DEF UndoLastConfirmedBlock
    <2>4. QueueType' /\ RocksType'
        BY <1>7, <1>1, <1>2 DEF UndoLastConfirmedBlock, QueueType, RocksType
    <2> QED
        BY <2>1, <2>2, <2>3, <2>4, TypePartsNext, ZenonT(30)
<1> QED
    BY <1>5, <1>6, <1>7

\* Every start of the gateway is typed.
LEMMA InitType == Init => TypeOK
<1> SUFFICES ASSUME Init PROVE TypeOK
    OBVIOUS
<1>1. MaxHeight \in Nat /\ "idle" \in Labels
    BY BoundsAssumption DEF Labels
<1>2. <<>> \in Seq(Block) /\ <<>> \in Seq(RocksBlock) /\ NoBlock \in Block
    BY <1>1, SMTT(30) DEF NoBlock, Block, Heights
<1>3. QueueType /\ ExplorerType /\ CacheType
    BY <1>1, <1>2 DEF Init, QueueType, ExplorerType, CacheType, ChainFile, Heights
<1>4. CoreType /\ RocksType /\ ProcType
    BY <1>1, <1>2 DEF Init, CoreType, RocksType, ProcType
<1> QED
    BY <1>3, <1>4, TypeParts

\* Every step of a confirm keeps the types.
LEMMA NextType == TypeOK /\ [Next]_vars => TypeOK'
<1> SUFFICES ASSUME TypeOK, [Next]_vars PROVE TypeOK'
    OBVIOUS
<1>1. CASE Queues
    BY <1>1, QueuesType
<1>2. ASSUME NEW p \in Procs, Begin(p) PROVE TypeOK'
    BY <1>2, BeginType
<1>3. ASSUME NEW p \in Procs, Confirm(p) PROVE TypeOK'
    BY <1>3, ApplyStepsType, StageType, FinalizeType, ZenonT(30) DEF Confirm
<1>4. CASE UNCHANGED vars
    BY <1>4 DEF vars, queueVars, explorerVars, cacheVars, coreVars, procVars, TypeOK
<1> QED
    BY <1>1, <1>2, <1>3, <1>4 DEF Next

\* Every reachable state is well typed, for every instance: block numbers and the
\* block counter stay within the heights, and there is at most one snapshot.
THEOREM TypeCorrect == Spec => []TypeOK
<1>1. Init => TypeOK
    BY InitType
<1>2. TypeOK /\ [Next]_vars => TypeOK'
    BY NextType
<1> QED
    BY <1>1, <1>2, PTL DEF Spec

-----------------------------------------------------------------------------
(* chain.json reaches the canonical head.                                   *)
(*                                                                         *)
(* CacheReachesRocks alone is not inductive: a commit needs to know that    *)
(* the block it commits was in chain.json before, whatever other goroutines *)
(* wrote or undid since.                                                   *)

Staged(p) == pc[p] \in {"header", "commit"}

CacheInv ==
    /\ durableHead = historyHead(chainFile.blocks)
    /\ Len(rocks) - 1 <= durableHead
    /\ \A p \in Procs : Staged(p) => blk[p].num <= durableHead

\* What a step may do to the cache: nothing, or a write that persistChain allows.
CacheMove ==
    /\ durableHead' >= durableHead
    /\ durableHead' = historyHead(chainFile'.blocks)

\* persistChain writes only a head as high as the one it wrote before.
LEMMA WrittenHead ==
    ASSUME TypeOK, CacheInv, NEW hist \in Seq(Block), NEW counter,
           Persistable(hist), Written(hist, counter)
    PROVE  CacheMove /\ durableHead' = historyHead(hist)
<1>1. historyHead(hist) \in -1 .. MaxHeight
    BY HistoryHeadMax
<1>2. durableHead \in -1 .. MaxHeight
    BY BoundsAssumption DEF TypeOK, Heights
<1>3. chainFile'.blocks = hist
    BY DEF Written
<1> QED
    BY <1>1, <1>2, <1>3, BoundsAssumption DEF Written, Persistable, CacheMove

\* A step that leaves the cache files alone leaves their head alone.
LEMMA UnwrittenHead ==
    ASSUME TypeOK, CacheInv, UNCHANGED cacheVars
    PROVE  CacheMove
<1>1. durableHead \in Int
    BY BoundsAssumption DEF TypeOK, Heights
<1> QED
    BY <1>1 DEF CacheMove, CacheInv, cacheVars

\* A step of p that does not leave it staged keeps CacheInv if Rocks is unchanged.
LEMMA NotStaged ==
    ASSUME TypeOK, CacheInv, NEW p \in Procs, CacheMove, UNCHANGED rocks, durableHead' \in Int,
           \/ \E label \in Labels \ {"header", "commit"} : Goto(p, label)
           \/ Return(p) \/ Fail(p) \/ ApplyFailed(p)
           \/ \E label \in Labels \ {"header", "commit"} : \E k, s, b : Hold(p, label, k, s, b)
    PROVE  CacheInv'
<1>1. \A q \in Procs : Staged(q)' => Staged(q) /\ blk'[q] = blk[q]
    <2>1. {"recover", "requeue"} \subseteq Labels
        BY DEF Labels
    <2>2. pc \in [Procs -> Labels] /\ blk \in [Procs -> Block]
        BY DEF TypeOK
    <2>3. ASSUME NEW label \in Labels \ {"header", "commit"}, Goto(p, label) PROVE <1>1
        BY <2>2, <2>3 DEF Goto, Staged
    <2>4. CASE Return(p)
        BY <2>2, <2>4 DEF Return, Staged
    <2>5. ASSUME NEW label \in Labels \ {"header", "commit"}, NEW k, NEW s, NEW b, Hold(p, label, k, s, b)
          PROVE  <1>1
        BY <2>2, <2>5 DEF Hold, Staged
    <2> QED
        BY <2>1, <2>3, <2>4, <2>5 DEF Fail, ApplyFailed
<1>2. \A q \in Procs : blk[q].num \in Int
    BY DEF TypeOK, Block, Heights
<1>3. Len(rocks) \in Int /\ durableHead \in Int
    BY ListPlaces, BoundsAssumption DEF TypeOK, Heights
<1> QED
    BY <1>1, <1>2, <1>3, SMTT(30) DEF CacheInv, CacheMove

\* A step of p that leaves it staged with a block whose number the cache reaches.
LEMMA StagedStep ==
    ASSUME TypeOK, CacheInv, NEW p \in Procs, CacheMove, UNCHANGED rocks, durableHead' \in Int,
           \A q \in Procs \ {p} : pc'[q] = pc[q] /\ blk'[q] = blk[q],
           blk'[p].num <= durableHead'
    PROVE  CacheInv'
<1>1. \A q \in Procs : blk[q].num \in Int
    BY DEF TypeOK, Block, Heights
<1>2. Len(rocks) \in Int /\ durableHead \in Int
    BY ListPlaces, BoundsAssumption DEF TypeOK, Heights
<1> QED
    BY <1>1, <1>2 DEF CacheInv, CacheMove, Staged

\* The last block of an extended history is below its head.
LEMMA AppendHead ==
    ASSUME NEW hist \in Seq(Block), NEW b \in Block
    PROVE  b.num <= historyHead(Append(hist, b))
<1>1. Append(hist, b) \in Seq(Block) /\ Len(hist) + 1 \in DOMAIN Append(hist, b)
      /\ Append(hist, b)[Len(hist) + 1] = b
    BY ListAppend, ListPlaces
<1> QED
    BY <1>1, HistoryHeadMax, ZenonT(30)

\* The stage of a block, by any of the three confirms, keeps the cache ahead of Rocks.
LEMMA CacheStage ==
    ASSUME TypeOK, TypeOK', CacheInv, NEW p \in Procs, L2Stage(p) \/ LegacyStage(p) \/ PeerStage(p)
    PROVE  CacheInv' /\ CacheMove
<1>1. durableHead' \in Int
    BY BoundsAssumption DEF TypeOK, Heights
<1>2. ASSUME NEW b \in Block, NEW counter, Persistable(Append(blockHistory, b)),
             Written(Append(blockHistory, b), counter), UNCHANGED rocks,
             \/ \E label, k, s : Hold(p, label, k, s, b)
             \/ b = blk[p] /\ \E label : Goto(p, label)
      PROVE  CacheInv' /\ CacheMove
    <2>1. blockHistory \in Seq(Block) /\ Append(blockHistory, b) \in Seq(Block)
        BY AppendType DEF TypeOK
    <2>2. CacheMove /\ durableHead' = historyHead(Append(blockHistory, b))
        BY <1>2, <2>1, WrittenHead, ZenonT(30)
    <2>3. b.num <= durableHead'
        BY <2>1, <2>2, AppendHead, ZenonT(30)
    <2>4. pc \in [Procs -> Labels] /\ blk \in [Procs -> Block]
        BY DEF TypeOK
    <2>5. blk'[p] = b /\ \A q \in Procs \ {p} : pc'[q] = pc[q] /\ blk'[q] = blk[q]
        BY <1>2, <2>4 DEF Hold, Goto
    <2> QED
        BY <1>1, <1>2, <2>2, <2>3, <2>5, StagedStep, ZenonT(30)
<1>3. ASSUME UNCHANGED cacheVars, UNCHANGED rocks, Fail(p) \/ Return(p) PROVE CacheInv' /\ CacheMove
    BY <1>1, <1>3, UnwrittenHead, NotStaged, ZenonT(30)
<1>4. txs[p] \in SUBSET Tx /\ blk[p] \in Block /\ mempool \in SUBSET Tx /\ blockCounter \in Nat
    BY BoundsAssumption, SMTT(30) DEF TypeOK
<1>5. CASE L2Stage(p)
    <2> DEFINE b == [num |-> blockCounter, txs |-> txs[p]]
    <2>1. b \in Block
        <3>1. blockCounter <= MaxHeight
            BY <1>5, ZenonT(30) DEF L2Stage
        <3>2. blockCounter \in Heights
            BY <3>1, <1>4, HeightOf, ZenonT(30)
        <3> QED
            BY <3>2, <1>4, BlockOf, ZenonT(30)
    <2>2. UNCHANGED rocks
        BY <1>5, ZenonT(30) DEF L2Stage
    <2>3. \/ /\ Persistable(Append(blockHistory, b)) /\ Written(Append(blockHistory, b), blockCounter + 1)
             /\ Hold(p, "header", kind[p], txs[p], b)
          \/ UNCHANGED cacheVars /\ Fail(p)
        BY <1>5 DEF L2Stage
    <2> HIDE DEF b
    <2> QED
        BY <2>1, <2>2, <2>3, <1>2, <1>3, ZenonT(30)
<1>6. CASE LegacyStage(p)
    <2> DEFINE b == [num |-> blockCounter, txs |-> mempool]
    <2>1. b \in Block
        <3>1. blockCounter <= MaxHeight
            BY <1>6, ZenonT(30) DEF LegacyStage
        <3>2. blockCounter \in Heights
            BY <3>1, <1>4, HeightOf, ZenonT(30)
        <3> QED
            BY <3>2, <1>4, BlockOf, ZenonT(30)
    <2>2. UNCHANGED rocks
        BY <1>6, ZenonT(30) DEF LegacyStage
    <2>3. \/ /\ Persistable(Append(blockHistory, b)) /\ Written(Append(blockHistory, b), blockCounter + 1)
             /\ Hold(p, "header", "legacy", mempool, b)
          \/ UNCHANGED cacheVars /\ Return(p)
        BY <1>6, ZenonT(30) DEF LegacyStage
    <2> HIDE DEF b
    <2> QED
        BY <2>1, <2>2, <2>3, <1>2, <1>3, ZenonT(30)
<1>7. CASE PeerStage(p)
    <2> DEFINE counter == IF blk[p].num + 1 > blockCounter THEN blk[p].num + 1 ELSE blockCounter
    <2>1. UNCHANGED rocks
        BY <1>7, ZenonT(30) DEF PeerStage
    <2>2. \/ /\ Persistable(Append(blockHistory, blk[p])) /\ Written(Append(blockHistory, blk[p]), counter)
             /\ Goto(p, "commit")
          \/ UNCHANGED cacheVars /\ Return(p)
        BY <1>7, ZenonT(30) DEF PeerStage
    <2> HIDE DEF counter
    <2> QED
        BY <1>4, <2>1, <2>2, <1>2, <1>3, ZenonT(30)
<1> QED
    BY <1>5, <1>6, <1>7, ZenonT(30)

\* So do the header, the commit to Rocks and the undo of a confirmed block.
LEMMA CacheFinalize ==
    ASSUME TypeOK, TypeOK', CacheInv, NEW p \in Procs,
           AssembleHeader(p) \/ CommitBlockToRocks(p) \/ UndoLastConfirmedBlock(p)
    PROVE  CacheInv' /\ CacheMove
<1>1. durableHead' \in Int /\ durableHead \in Int
    BY BoundsAssumption DEF TypeOK, Heights
<1>2. pc \in [Procs -> Labels] /\ blk \in [Procs -> Block] /\ blk[p].num \in Int
    BY DEF TypeOK, Block, Heights
<1>3. {"undo", "discard"} \subseteq Labels \ {"header", "commit"}
    BY ZenonT(30) DEF Labels
<1>4. CASE AssembleHeader(p)
    <2>1. CacheMove
        <3>1. blockHistory \in Seq(Block)
            BY ZenonT(30) DEF TypeOK
        <3> QED
            BY <3>1, <1>4, WrittenHead, UnwrittenHead, ZenonT(30) DEF AssembleHeader
    <2>2. blk[p].num <= durableHead
        BY <1>4, ZenonT(30) DEF AssembleHeader, CacheInv, Staged
    <2>3. blk'[p].num <= durableHead' /\ UNCHANGED rocks
          /\ \A q \in Procs \ {p} : pc'[q] = pc[q] /\ blk'[q] = blk[q]
        BY <1>4, <1>1, <1>2, <2>1, <2>2, SMTT(30) DEF AssembleHeader, Goto, CacheMove
    <2> QED
        BY <1>1, <2>1, <2>3, StagedStep, SMTT(30)
<1>5. CASE CommitBlockToRocks(p)
    <2>1. CacheMove
        BY <1>5, UnwrittenHead, ZenonT(30) DEF CommitBlockToRocks
    <2>2. CASE UNCHANGED rocks
        BY <2>1, <2>2, <1>1, <1>3, <1>5, NotStaged, ZenonT(30) DEF CommitBlockToRocks
    <2>3. CASE /\ blk[p].num = Len(rocks)
               /\ rocks' = Append(rocks, [txs |-> txs[p], accounts |-> Touched(stateFile, txs[p])])
        <3>1. rocks \in Seq(RocksBlock) /\ Len(rocks) \in Nat
            BY ListPlaces, ZenonT(30) DEF TypeOK
        <3>2. [txs |-> txs[p], accounts |-> Touched(stateFile, txs[p])] \in RocksBlock
            BY ZenonT(30) DEF TypeOK, RocksBlock, Touched
        <3>3. Len(rocks') = Len(rocks) + 1
            BY <2>3, <3>1, <3>2, ListAppend, ZenonT(30)
        <3>4. Len(rocks) <= durableHead
            BY <2>3, <1>5, ZenonT(30) DEF CommitBlockToRocks, CacheInv, Staged
        <3>5. UNCHANGED cacheVars /\ blk' = blk /\ \A q \in Procs : Staged(q)' => Staged(q)
            BY <1>5, <1>2, ZenonT(30) DEF CommitBlockToRocks, Goto, Staged
        <3> QED
            BY <3>1, <3>3, <3>4, <3>5, <2>1, <1>1, SMTT(30) DEF CacheInv, cacheVars, CacheMove
    <2> QED
        BY <1>5, <2>2, <2>3, ZenonT(30) DEF CommitBlockToRocks
<1>6. CASE UndoLastConfirmedBlock(p)
    <2>1. blockHistory' \in Seq(Block) /\ blockHistory' = UndoHistory(blockHistory, blk[p].num)
        BY <1>6, SMTT(30) DEF TypeOK, UndoLastConfirmedBlock, UndoExplorer
    <2>2. CacheMove
        BY <1>6, <2>1, WrittenHead, UnwrittenHead, ZenonT(30) DEF UndoLastConfirmedBlock
    <2> QED
        BY <2>2, <1>1, <1>6, NotStaged, ZenonT(30) DEF UndoLastConfirmedBlock
<1> QED
    BY <1>4, <1>5, <1>6

\* The gateway starts with the cache files covering Rocks.
LEMMA CacheInit == Init => CacheInv
<1> SUFFICES ASSUME Init PROVE CacheInv
    OBVIOUS
<1>1. <<>> \in Seq(Block) /\ DOMAIN <<>> = {} /\ Len(<<>>) = 0
    BY SMTT(30)
<1>2. historyHead(<<>>) = -1
    BY <1>1, HistoryHeadMax, ZenonT(30)
<1> QED
    BY <1>1, <1>2 DEF Init, CacheInv, Staged

\* Every step keeps the cache ahead of Rocks and never shortens it.
LEMMA CacheNext == TypeOK /\ TypeOK' /\ CacheInv /\ [Next]_vars => CacheInv' /\ CacheMove
<1> SUFFICES ASSUME TypeOK, TypeOK', CacheInv, [Next]_vars PROVE CacheInv' /\ CacheMove
    OBVIOUS
<1>1. durableHead' \in Int
    BY BoundsAssumption DEF TypeOK, Heights
<1>2. ASSUME UNCHANGED <<cacheVars, rocks, procVars>> PROVE CacheInv' /\ CacheMove
    <2>1. CacheMove
        BY <1>2, UnwrittenHead, ZenonT(30)
    <2> QED
        BY <1>2, <2>1 DEF CacheInv, cacheVars, procVars, Staged
<1>3. CASE Queues
    BY <1>2, <1>3 DEF Queues, AddToMempool, PruneMempool, AbandonInvalid, L1CollectSelected, SyncPendingBlock
<1>4. CASE UNCHANGED vars
    BY <1>2, <1>4 DEF vars
<1>5. ASSUME NEW p \in Procs, UNCHANGED cacheVars, UNCHANGED rocks,
             \/ \E label \in Labels \ {"header", "commit"} : Goto(p, label)
             \/ Return(p) \/ Fail(p) \/ ApplyFailed(p)
             \/ \E label \in Labels \ {"header", "commit"} : \E k, s, b : Hold(p, label, k, s, b)
      PROVE  CacheInv' /\ CacheMove
    BY <1>1, <1>5, UnwrittenHead, NotStaged
<1>6. {"vote", "snapshot", "apply", "rollback", "stage"} \subseteq Labels \ {"header", "commit"}
    BY SMTT(30) DEF Labels
<1>7. ASSUME NEW p \in Procs, Begin(p) PROVE CacheInv' /\ CacheMove
    BY <1>5, <1>6, <1>7, ZenonT(30) DEF Begin, L2Begin, LegacyBegin, PeerBegin
<1>8. ASSUME NEW p \in Procs, Confirm(p) PROVE CacheInv' /\ CacheMove
    <2>1. CASE L2Voted(p) \/ SnapshotState(p) \/ ApplyTransactions(p)
        BY <2>1, <1>5, <1>6, ZenonT(30) DEF L2Voted, SnapshotState, ApplyTransactions
    <2>2. CASE RollbackApply(p) \/ RequeueAfterApply(p) \/ AutoRecover(p) \/ L2Fence(p) \/ DiscardStateBackup(p)
        BY <2>2, <1>5 DEF RollbackApply, RequeueAfterApply, AutoRecover, L2Fence, DiscardStateBackup
    <2> QED
        BY <1>8, <2>1, <2>2, CacheStage, CacheFinalize, ZenonT(30) DEF Confirm
<1> QED
    BY <1>3, <1>4, <1>7, <1>8 DEF Next

\* Types and cache invariant hold throughout.
LEMMA CacheInvAlways == Spec => [](TypeOK /\ CacheInv)
<1>1. Init => TypeOK /\ CacheInv
    BY InitType, CacheInit
<1>2. TypeOK /\ CacheInv /\ [Next]_vars => TypeOK' /\ CacheInv'
    BY NextType, CacheNext
<1> QED
    BY <1>1, <1>2, PTL DEF Spec

\* With any number of confirm goroutines in any order, chain.json on disk always
\* reaches the canonical Rocks head, whatever was undone or failed to be written.
THEOREM CacheReachesRocksAlways == Spec => []CacheReachesRocks
<1>1. TypeOK /\ CacheInv => CacheReachesRocks
    BY DEF CacheInv, CacheReachesRocks
<1> QED
    BY <1>1, CacheInvAlways, PTL

\* persistChain's guard is enough under concurrency: the head of chain.json never
\* goes down while the node runs.
THEOREM CacheHeadMonotone == Spec => CacheHeadNeverShrinks
<1>1. TypeOK /\ CacheInv /\ TypeOK' /\ [Next]_vars =>
          [historyHead(chainFile'.blocks) >= historyHead(chainFile.blocks)]_vars
    <2> SUFFICES ASSUME TypeOK, CacheInv, TypeOK', [Next]_vars
                 PROVE  historyHead(chainFile'.blocks) >= historyHead(chainFile.blocks)
        OBVIOUS
    <2>1. CacheMove
        BY CacheNext
    <2> QED
        BY <2>1 DEF CacheMove, CacheInv
<1>2. Spec => [](TypeOK /\ CacheInv)
    BY CacheInvAlways
<1> QED
    BY <1>1, <1>2, PTL DEF Spec, CacheHeadNeverShrinks
=============================================================================
