----------------------------- MODULE SoloProofs -----------------------------
(***************************************************************************)
(* What the confirm boundary guarantees when confirms do not overlap: one  *)
(* confirm at a time, no legacy confirm, no lost Rocks answer.             *)
(***************************************************************************)
EXTENDS ConfirmBoundaryProofs

\* One confirm at a time; the legacy path and a lost Rocks answer excluded.
SoloConfig ==
    /\ \A p, q \in Procs : p = q
    /\ "legacy" \notin Kinds
    /\ "reply" \notin Faults

\* Where a confirm is, and what the state file and the snapshot hold then.
AtChain(p) == pc[p] \in {"idle", "vote", "snapshot", "requeue", "recover", "discard"}
Ahead(p) == pc[p] \in {"stage", "header", "commit", "undo"}
Tipped(p) == pc[p] \in {"header", "commit", "undo"}

StateInv ==
    /\ Quiescent => stateFile = RocksTxs
    /\ \A p \in Procs :
         /\ kind[p] # "legacy"
         /\ AtChain(p) => stateFile = RocksTxs
         /\ pc[p] = "apply" => stateFile = RocksTxs /\ backup = {RocksTxs}
         /\ pc[p] = "rollback" => backup = {RocksTxs}
         /\ Ahead(p) => stateFile = RocksTxs \cup txs[p] /\ backup = {RocksTxs}

\* The block that p staged is the last of the history; without it the history
\* ends at the canonical head.
TipOver(hist, b, n) == \E h \in Seq(Block) : hist = Append(h, b) /\ historyHead(h) = n - 1

HistoryInv ==
    /\ Quiescent => historyHead(blockHistory) = Len(rocks) - 1
    /\ \A p \in Procs :
         IF Tipped(p) THEN TipOver(blockHistory, blk[p], Len(rocks))
                      ELSE historyHead(blockHistory) = Len(rocks) - 1

-----------------------------------------------------------------------------
(* Data. *)

\* One more canonical block: the chain's transactions grow by the block's.
LEMMA RocksGrow ==
    ASSUME TypeOK, NEW b \in RocksBlock, rocks' = Append(rocks, b)
    PROVE  /\ RocksTxs' = RocksTxs \cup b.txs
           /\ DOMAIN rocks' = DOMAIN rocks \cup {Len(rocks) + 1}
           /\ rocks'[Len(rocks) + 1] = b
           /\ \A h \in DOMAIN rocks : rocks'[h] = rocks[h]
           /\ \A h \in DOMAIN rocks : ChainTxs(h)' = ChainTxs(h)
           /\ \A n : n = Len(rocks) + 1 => ChainTxs(n)' = RocksTxs \cup b.txs
<1>1. rocks \in Seq(RocksBlock) /\ Len(rocks) \in Nat /\ DOMAIN rocks = 1 .. Len(rocks)
    BY ListPlaces DEF TypeOK
<1>2. /\ rocks' \in Seq(RocksBlock)
      /\ Len(rocks') = Len(rocks) + 1
      /\ DOMAIN rocks' = 1 .. Len(rocks) + 1
      /\ \A i \in 1 .. Len(rocks) : rocks'[i] = rocks[i]
      /\ rocks'[Len(rocks) + 1] = b
    BY <1>1, ListAppend, ListPlaces
<1>3. DOMAIN rocks' = DOMAIN rocks \cup {Len(rocks) + 1}
    BY <1>1, <1>2
<1>4. RocksTxs' = RocksTxs \cup b.txs
    BY <1>1, <1>2, <1>3 DEF RocksTxs
<1>5. \A h \in DOMAIN rocks : ChainTxs(h)' = ChainTxs(h)
    <2> SUFFICES ASSUME NEW h \in DOMAIN rocks PROVE ChainTxs(h)' = ChainTxs(h)
        OBVIOUS
    <2>1. \A i \in 1 .. h : rocks'[i] = rocks[i]
        BY <1>1, <1>2
    <2> QED
        BY <2>1 DEF ChainTxs
<1>6. \A n : n = Len(rocks) + 1 => ChainTxs(n)' = RocksTxs'
    BY <1>2 DEF ChainTxs, RocksTxs
<1> QED
    BY <1>1, <1>2, <1>3, <1>4, <1>5, <1>6

\* The head of a history with one more block.
LEMMA HeadOfAppend ==
    ASSUME NEW hist \in Seq(Block), NEW b \in Block
    PROVE  historyHead(Append(hist, b)) = IF b.num > historyHead(hist) THEN b.num ELSE historyHead(hist)
<1> DEFINE more == Append(hist, b)
<1>1. /\ more \in Seq(Block) /\ DOMAIN hist = 1 .. Len(hist) /\ Len(hist) \in Nat
      /\ DOMAIN more = 1 .. Len(hist) + 1
      /\ \A i \in 1 .. Len(hist) : more[i] = hist[i]
      /\ more[Len(hist) + 1] = b
    BY ListAppend, ListPlaces
<1> HIDE DEF more
<1>2. b.num \in Int /\ b.num >= 0
    BY DEF Block, Heights
<1>3. \A i \in DOMAIN hist : i \in DOMAIN more /\ more[i] = hist[i]
    BY <1>1
<1>4. \A i \in DOMAIN more : (i \in DOMAIN hist /\ more[i] = hist[i]) \/ more[i] = b
    BY <1>1
<1>5. Len(hist) + 1 \in DOMAIN more
    BY <1>1
<1>6. historyHead(hist) \in Int /\ historyHead(more) \in Int
    BY <1>1, HistoryHeadMax, BoundsAssumption
<1>7. historyHead(more) >= historyHead(hist) /\ historyHead(more) >= b.num
    BY <1>1, <1>2, <1>3, <1>5, <1>6, HistoryHeadMax, ZenonT(30)
<1>8. historyHead(more) <= historyHead(hist) \/ historyHead(more) = b.num
    <2>1. CASE historyHead(more) = -1
        BY <2>1, <1>2, <1>7
    <2>2. ASSUME NEW i \in DOMAIN more, more[i].num = historyHead(more) PROVE <1>8
        BY <2>2, <1>4, HistoryHeadMax
    <2> QED
        BY <2>1, <2>2, <1>1, HistoryHeadMax
<1> QED
    BY <1>2, <1>6, <1>7, <1>8 DEF more

\* Undoing the block that is the last of the history removes exactly that block.
LEMMA UndoAppend ==
    ASSUME NEW hist \in Seq(Block), NEW b \in Block
    PROVE  UndoHistory(Append(hist, b), b.num) = hist
<1> DEFINE more == Append(hist, b)
<1>1. /\ more \in Seq(Block) /\ Len(hist) \in Nat /\ Len(more) = Len(hist) + 1
      /\ \A i \in 1 .. Len(hist) : more[i] = hist[i]
      /\ more[Len(hist) + 1] = b /\ more # <<>>
    BY ListAppend, ListPlaces
<1>2. IsTip(more, b.num)
    BY <1>1 DEF IsTip
<1>3. /\ SubSeq(more, 1, Len(hist)) \in Seq(Block)
      /\ Len(SubSeq(more, 1, Len(hist))) = Len(hist)
      /\ \A i \in 1 .. Len(hist) : SubSeq(more, 1, Len(hist))[i] = more[i]
    BY <1>1, ListFront
<1>4. SubSeq(more, 1, Len(hist)) = hist
    BY <1>1, <1>3, ListEqual
<1>5. Len(more) - 1 = Len(hist)
    BY <1>1
<1> QED
    BY <1>2, <1>4, <1>5 DEF UndoHistory

-----------------------------------------------------------------------------
(* The state file follows the chain. *)

\* With one confirm at a time, only p changes its label, and nothing is in flight
\* exactly when p is idle.
LEMMA Alone ==
    ASSUME SoloConfig, NEW p \in Procs
    PROVE  (\A q \in Procs : q = p) /\ (Quiescent <=> pc[p] = "idle")
BY DEF SoloConfig, Quiescent

\* StateInv of a step of p, from what it says of p alone.
LEMMA StateInvOf ==
    ASSUME SoloConfig, NEW p \in Procs,
           kind'[p] # "legacy",
           AtChain(p)' => stateFile' = RocksTxs',
           pc'[p] = "apply" => stateFile' = RocksTxs' /\ backup' = {RocksTxs'},
           pc'[p] = "rollback" => backup' = {RocksTxs'},
           Ahead(p)' => stateFile' = RocksTxs' \cup txs'[p] /\ backup' = {RocksTxs'}
    PROVE  StateInv'
<1>1. \A q \in Procs : q = p
    BY DEF SoloConfig
<1>2. Quiescent' => AtChain(p)'
    BY DEF Quiescent, AtChain
<1> QED
    BY <1>1, <1>2 DEF StateInv

\* Every way a goroutine continues, as new values of its label and locals.
LEMMA Continues ==
    ASSUME TypeOK, NEW p \in Procs
    PROVE  /\ \A label : Goto(p, label) => pc'[p] = label /\ UNCHANGED <<kind, txs, blk>>
           /\ Return(p) => pc'[p] = "idle" /\ kind'[p] = "none"
           /\ \A label, k, s, b : Hold(p, label, k, s, b) =>
                 pc'[p] = label /\ kind'[p] = k /\ txs'[p] = s /\ blk'[p] = b
           /\ Fail(p) => /\ pc'[p] \in {"recover", "idle"}
                         /\ kind'[p] \in {kind[p], "none"}
           /\ ApplyFailed(p) => /\ pc'[p] \in {"requeue", "idle"}
                                /\ kind'[p] \in {kind[p], "none"}
<1>1. p \in DOMAIN pc /\ p \in DOMAIN kind /\ p \in DOMAIN txs /\ p \in DOMAIN blk
    BY DEF TypeOK
<1>2. DOMAIN pc = Procs /\ DOMAIN kind = Procs /\ DOMAIN txs = Procs /\ DOMAIN blk = Procs
    BY DEF TypeOK
<1>3. \A label : Goto(p, label) => pc'[p] = label /\ UNCHANGED <<kind, txs, blk>>
    BY <1>1 DEF Goto
<1>4. Return(p) => pc'[p] = "idle" /\ kind'[p] = "none"
    BY <1>1 DEF Return
<1>5. \A label, k, s, b : Hold(p, label, k, s, b) =>
          pc'[p] = label /\ kind'[p] = k /\ txs'[p] = s /\ blk'[p] = b
    BY <1>1 DEF Hold
<1> QED
    BY <1>3, <1>4, <1>5 DEF Fail, ApplyFailed

\* A restore from the chain's snapshot.
LEMMA RestoreChain ==
    ASSUME backup = {RocksTxs}
    PROVE  Restored = RocksTxs
BY DEF Restored

\* Without a commit the transactions in Rocks stay what they are.
LEMMA RocksTxsUnchanged == ASSUME UNCHANGED rocks PROVE RocksTxs' = RocksTxs
BY DEF RocksTxs

\* The steps that end where the state file equals the chain, and touch nothing of Core.
LEMMA StateCalm ==
    ASSUME SoloConfig, TypeOK, StateInv, NEW p \in Procs, AtChain(p),
           UNCHANGED <<rocks, stateFile>>, AtChain(p)', kind'[p] # "legacy"
    PROVE  StateInv'
<1>1. RocksTxs' = RocksTxs /\ stateFile' = RocksTxs'
    BY RocksTxsUnchanged DEF StateInv
<1> QED
    BY <1>1, StateInvOf DEF AtChain, Ahead

\* The start of a confirm leaves the state file at the chain.
LEMMA StateBegin ==
    ASSUME SoloConfig, TypeOK, StateInv, NEW p \in Procs, Begin(p)
    PROVE  StateInv'
<1>1. AtChain(p)
    BY DEF Begin, L2Begin, LegacyBegin, PeerBegin, AtChain
<1>2. UNCHANGED <<rocks, stateFile>>
    BY DEF Begin, L2Begin, LegacyBegin, PeerBegin, coreVars
<1>3. AtChain(p)' /\ kind'[p] # "legacy"
    <2>1. ASSUME NEW k \in Kinds, L2Begin(p, k) PROVE <1>3
        BY <2>1, Continues DEF L2Begin, AtChain, SoloConfig
    <2>2. ~LegacyBegin(p)
        BY DEF LegacyBegin, SoloConfig
    <2>3. ASSUME NEW b \in Block, NEW bodies \in {b.txs, {}}, PeerBegin(p, b, bodies) PROVE <1>3
        BY <2>3, Continues DEF PeerBegin, AtChain
    <2> QED
        BY <2>1, <2>2, <2>3 DEF Begin
<1> QED
    BY <1>1, <1>2, <1>3, StateCalm

\* A step of p that restores the chain's state and gives up.
LEMMA StateRestored ==
    ASSUME SoloConfig, TypeOK, StateInv, NEW p \in Procs, UNCHANGED rocks,
           backup = {RocksTxs}, stateFile' = Restored, Fail(p) \/ Return(p) \/ ApplyFailed(p)
    PROVE  StateInv'
<1>1. RocksTxs' = RocksTxs /\ stateFile' = RocksTxs'
    BY RocksTxsUnchanged, RestoreChain
<1>2. kind[p] # "legacy"
    BY DEF StateInv
<1>3. pc'[p] \in {"idle", "recover", "requeue"} /\ kind'[p] # "legacy"
    BY <1>2, Continues, SMTT(30)
<1> QED
    BY <1>1, <1>3, StateInvOf DEF AtChain, Ahead

\* A step of p from one of the labels ahead of the chain to another.
LEMMA StateStaysAhead ==
    ASSUME SoloConfig, TypeOK, StateInv, NEW p \in Procs, Ahead(p), UNCHANGED <<rocks, coreVars>>,
           Ahead(p)', txs'[p] = txs[p], kind'[p] = kind[p]
    PROVE  StateInv'
<1>1. RocksTxs' = RocksTxs
    BY RocksTxsUnchanged
<1>2. /\ kind[p] # "legacy"
      /\ stateFile = RocksTxs \cup txs[p] /\ backup = {RocksTxs}
    BY DEF StateInv
<1> QED
    BY <1>1, <1>2, StateInvOf, SMTT(30) DEF AtChain, Ahead, coreVars

\* The execution by Core and its failure paths keep state file and snapshot.
LEMMA StateApplySteps ==
    ASSUME SoloConfig, TypeOK, StateInv, NEW p \in Procs,
           \/ L2Voted(p) \/ SnapshotState(p) \/ ApplyTransactions(p) \/ RollbackApply(p)
           \/ RequeueAfterApply(p) \/ AutoRecover(p) \/ L2Fence(p) \/ DiscardStateBackup(p)
    PROVE  StateInv'
<1>1. kind[p] # "legacy"
    BY DEF StateInv
<1>2. CASE L2Voted(p) \/ RequeueAfterApply(p) \/ AutoRecover(p) \/ DiscardStateBackup(p)
    <2>1. AtChain(p) /\ UNCHANGED <<rocks, stateFile>>
        BY <1>2, ZenonT(30) DEF L2Voted, RequeueAfterApply, AutoRecover, DiscardStateBackup, AtChain, coreVars
    <2>2. AtChain(p)' /\ kind'[p] # "legacy"
        BY <1>1, <1>2, Continues, SMTT(30) DEF L2Voted, RequeueAfterApply, AutoRecover, DiscardStateBackup, AtChain
    <2> QED
        BY <2>1, <2>2, StateCalm, ZenonT(30)
<1>3. CASE SnapshotState(p)
    <2>1. RocksTxs' = RocksTxs /\ stateFile' = RocksTxs
        <3>1. AtChain(p) /\ UNCHANGED rocks /\ UNCHANGED stateFile
            BY <1>3, ZenonT(30) DEF SnapshotState, AtChain
        <3>2. stateFile = RocksTxs
            BY <3>1, ZenonT(30) DEF StateInv
        <3> QED
            BY <3>1, <3>2, RocksTxsUnchanged, ZenonT(30)
    <2>2. CASE backup' = {stateFile} /\ Goto(p, "apply")
        <3>1. pc'[p] = "apply" /\ kind'[p] # "legacy" /\ backup' = {RocksTxs}
            BY <1>1, <1>3, <2>2, Continues, ZenonT(30) DEF StateInv, AtChain, SnapshotState
        <3> QED
            BY <2>1, <3>1, StateInvOf, ZenonT(30) DEF AtChain, Ahead
    <2>3. CASE ApplyFailed(p)
        <3>1. pc'[p] \in {"requeue", "idle"} /\ kind'[p] # "legacy"
            BY <1>1, <2>3, Continues, ZenonT(30)
        <3> QED
            BY <2>1, <3>1, StateInvOf, ZenonT(30) DEF AtChain, Ahead
    <2> QED
        BY <1>3, <2>2, <2>3, ZenonT(30) DEF SnapshotState
<1>4. CASE ApplyTransactions(p)
    <2>1. RocksTxs' = RocksTxs /\ stateFile = RocksTxs /\ backup' = {RocksTxs}
        <3>1. pc[p] = "apply" /\ UNCHANGED <<backup, rocks>>
            BY <1>4 DEF ApplyTransactions
        <3>2. stateFile = RocksTxs /\ backup = {RocksTxs}
            BY <3>1 DEF StateInv
        <3> QED
            BY <3>1, <3>2, RocksTxsUnchanged
    <2>2. CASE stateFile' = stateFile \cup txs[p] /\ Goto(p, "stage")
        <3>1. pc'[p] = "stage" /\ kind'[p] # "legacy" /\ txs'[p] = txs[p]
            BY <1>1, <2>2, Continues, SMTT(30)
        <3> QED
            BY <2>1, <2>2, <3>1, StateInvOf, ZenonT(30) DEF AtChain, Ahead
    <2>3. CASE Goto(p, "rollback")
        <3>1. pc'[p] = "rollback" /\ kind'[p] # "legacy"
            BY <1>1, <2>3, Continues, SMTT(30)
        <3> QED
            BY <2>1, <3>1, StateInvOf, ZenonT(30) DEF AtChain, Ahead
    <2> QED
        BY <1>4, <2>2, <2>3, ZenonT(30) DEF ApplyTransactions
<1>5. CASE RollbackApply(p)
    <2>1. backup = {RocksTxs}
        BY <1>5, SMTT(30) DEF RollbackApply, StateInv
    <2> QED
        BY <1>5, <2>1, StateRestored, ZenonT(30) DEF RollbackApply
<1>6. CASE L2Fence(p)
    <2>1. backup = {RocksTxs}
        BY <1>6 DEF L2Fence, StateInv, Ahead
    <2> QED
        BY <1>6, <2>1, StateRestored, ZenonT(30) DEF L2Fence, RestoreCore
<1> QED
    BY <1>2, <1>3, <1>4, <1>5, <1>6, ZenonT(30)

\* So does the stage of a block: confirmed, or undone with the snapshot restored.
LEMMA StateStage ==
    ASSUME SoloConfig, TypeOK, StateInv, NEW p \in Procs, L2Stage(p) \/ LegacyStage(p) \/ PeerStage(p)
    PROVE  StateInv'
<1>1. kind[p] # "legacy" /\ Ahead(p)
    BY ZenonT(30) DEF StateInv, L2Stage, LegacyStage, PeerStage, Ahead
<1>2. backup = {RocksTxs}
    BY <1>1, ZenonT(30) DEF StateInv
<1>3. UNCHANGED rocks
    BY DEF L2Stage, LegacyStage, PeerStage
<1>4. CASE RestoreCore /\ (Fail(p) \/ Return(p))
    BY <1>2, <1>3, <1>4, StateRestored, ZenonT(30) DEF RestoreCore
<1>5. CASE KeepBackup /\ \E b : Hold(p, "header", kind[p], txs[p], b)
    <2>1. pc'[p] = "header" /\ kind'[p] = kind[p] /\ txs'[p] = txs[p]
        BY <1>5, Continues, ZenonT(30)
    <2> QED
        BY <1>1, <1>3, <1>5, <2>1, StateStaysAhead, ZenonT(30) DEF Ahead, KeepBackup
<1>6. CASE KeepBackup /\ Goto(p, "commit")
    <2>1. pc'[p] = "commit" /\ kind'[p] = kind[p] /\ txs'[p] = txs[p]
        BY <1>6, Continues, ZenonT(30)
    <2> QED
        BY <1>1, <1>3, <1>6, <2>1, StateStaysAhead, ZenonT(30) DEF Ahead, KeepBackup
<1>7. CASE L2Stage(p)
    BY <1>4, <1>5, <1>7, ZenonT(30) DEF L2Stage
<1>8. CASE PeerStage(p)
    BY <1>4, <1>6, <1>8, ZenonT(30) DEF PeerStage
<1>9. ~LegacyStage(p)
    BY <1>1 DEF LegacyStage
<1> QED
    BY <1>7, <1>8, <1>9, ZenonT(30)

\* The commit pairs the block with the state after it; an undo returns to the chain.
LEMMA StateFinalize ==
    ASSUME SoloConfig, TypeOK, StateInv, CommittedStatePaired, NEW p \in Procs,
           AssembleHeader(p) \/ CommitBlockToRocks(p) \/ UndoLastConfirmedBlock(p)
    PROVE  StateInv' /\ CommittedStatePaired'
<1>1. kind[p] # "legacy" /\ Ahead(p)
    BY ZenonT(30) DEF StateInv, AssembleHeader, CommitBlockToRocks, UndoLastConfirmedBlock, Ahead
<1>2. stateFile = RocksTxs \cup txs[p] /\ backup = {RocksTxs}
    BY <1>1 DEF StateInv
<1>3. ASSUME UNCHANGED rocks PROVE CommittedStatePaired'
    BY <1>3, SMTT(30) DEF CommittedStatePaired, ChainTxs, Touched
<1>4. ASSUME UNCHANGED <<rocks, coreVars>>, Goto(p, "undo") \/ Goto(p, "commit") PROVE StateInv'
    <2>1. pc'[p] \in {"undo", "commit"} /\ kind'[p] = kind[p] /\ txs'[p] = txs[p]
        BY <1>4, Continues, ZenonT(30)
    <2> QED
        BY <1>1, <1>4, <2>1, StateStaysAhead, ZenonT(30) DEF Ahead
<1>5. CASE AssembleHeader(p)
    BY <1>3, <1>4, <1>5, ZenonT(30) DEF AssembleHeader
<1>6. CASE UndoLastConfirmedBlock(p)
    BY <1>2, <1>3, <1>6, StateRestored, ZenonT(30) DEF UndoLastConfirmedBlock, RestoreCore
<1>7. CASE CommitBlockToRocks(p)
    <2> DEFINE b == [txs |-> txs[p], accounts |-> Touched(stateFile, txs[p])]
    <2>1. CASE UNCHANGED rocks /\ Goto(p, "undo")
        BY <1>3, <1>4, <1>7, <2>1, SMTT(30) DEF CommitBlockToRocks
    <2>2. CASE rocks' = Append(rocks, b) /\ Goto(p, "discard")
        <3>1. b \in RocksBlock /\ b.txs = txs[p] /\ b.accounts = Touched(RocksTxs \cup txs[p], txs[p])
            BY <1>2, ZenonT(30) DEF TypeOK, RocksBlock, Touched
        <3> HIDE DEF b
        <3>2. /\ RocksTxs' = RocksTxs \cup txs[p]
              /\ DOMAIN rocks' = DOMAIN rocks \cup {Len(rocks) + 1}
              /\ rocks'[Len(rocks) + 1] = b
              /\ \A h \in DOMAIN rocks : rocks'[h] = rocks[h]
              /\ \A h \in DOMAIN rocks : ChainTxs(h)' = ChainTxs(h)
              /\ \A n : n = Len(rocks) + 1 => ChainTxs(n)' = RocksTxs \cup txs[p]
            BY <2>2, <3>1, RocksGrow, ZenonT(30)
        <3>3. pc'[p] = "discard" /\ kind'[p] # "legacy" /\ stateFile' = stateFile
            BY <1>1, <1>7, <2>2, Continues, ZenonT(30) DEF CommitBlockToRocks, coreVars
        <3>4. StateInv'
            BY <1>2, <3>2, <3>3, StateInvOf, ZenonT(30) DEF AtChain, Ahead
        <3>5. CommittedStatePaired'
            <4> SUFFICES ASSUME NEW h \in DOMAIN rocks'
                         PROVE  rocks'[h].accounts = Touched(ChainTxs(h)', rocks'[h].txs)
                BY ZenonT(30) DEF CommittedStatePaired, Touched
            <4>1. CASE h \in DOMAIN rocks
                BY <4>1, <3>2, SMTT(30) DEF CommittedStatePaired
            <4>2. CASE h = Len(rocks) + 1
                <5>1. ChainTxs(h)' = RocksTxs \cup txs[p]
                    BY <4>2, <3>2, SMTT(30)
                <5>2. rocks'[h] = b
                    BY <4>2, <3>2, SMTT(30)
                <5> QED
                    BY <5>1, <5>2, <3>1, ZenonT(30)
            <4> QED
                BY <3>2, <4>1, <4>2, ZenonT(30)
        <3> QED
            BY <3>4, <3>5, ZenonT(30)
    <2> QED
        BY <1>7, <2>1, <2>2, ZenonT(30) DEF CommitBlockToRocks, SoloConfig
<1> QED
    BY <1>5, <1>6, <1>7, ZenonT(30)

\* At the start the state file is that of the chain.
LEMMA StateInit == Init => StateInv /\ CommittedStatePaired
<1> SUFFICES ASSUME Init PROVE StateInv /\ CommittedStatePaired
    OBVIOUS
<1>1. rocks = <<>> /\ DOMAIN rocks = {}
    BY DEF Init
<1>2. RocksTxs = {}
    BY <1>1 DEF RocksTxs
<1>3. \A p \in Procs : pc[p] = "idle" /\ kind[p] = "none"
    BY DEF Init
<1>4. stateFile = {}
    BY DEF Init
<1> QED
    BY <1>1, <1>2, <1>3, <1>4, SMTT(30) DEF StateInv, AtChain, Ahead, CommittedStatePaired

\* Every step keeps state file and snapshot as StateInv says.
LEMMA StateNext ==
    ASSUME SoloConfig, TypeOK, StateInv, CommittedStatePaired, [Next]_vars
    PROVE  StateInv' /\ CommittedStatePaired'
<1>1. ASSUME UNCHANGED rocks PROVE CommittedStatePaired'
    BY <1>1, SMTT(30) DEF CommittedStatePaired, ChainTxs, Touched
<1>2. ASSUME UNCHANGED <<coreVars, rocks, procVars>> PROVE StateInv' /\ CommittedStatePaired'
    <2>1. RocksTxs' = RocksTxs
        BY <1>2, RocksTxsUnchanged, ZenonT(30)
    <2> QED
        BY <1>1, <1>2, <2>1, SMTT(30) DEF StateInv, Quiescent, AtChain, Ahead, coreVars, procVars
<1>3. CASE Queues
    BY <1>2, <1>3, SMTT(30) DEF Queues, AddToMempool, PruneMempool, AbandonInvalid, L1CollectSelected, SyncPendingBlock
<1>4. CASE UNCHANGED vars
    BY <1>2, <1>4, SMTT(30) DEF vars
<1>5. ASSUME NEW p \in Procs, Begin(p) PROVE StateInv' /\ CommittedStatePaired'
    <2>1. UNCHANGED rocks
        BY <1>5, SMTT(30) DEF Begin, L2Begin, LegacyBegin, PeerBegin
    <2> QED
        BY <1>1, <1>5, <2>1, StateBegin, ZenonT(30)
<1>6. ASSUME NEW p \in Procs, Confirm(p) PROVE StateInv' /\ CommittedStatePaired'
    <2>1. CASE \/ L2Voted(p) \/ SnapshotState(p) \/ ApplyTransactions(p) \/ RollbackApply(p)
               \/ RequeueAfterApply(p) \/ AutoRecover(p) \/ L2Fence(p) \/ DiscardStateBackup(p)
        <3>1. UNCHANGED rocks
            BY <2>1, ZenonT(30) DEF L2Voted, SnapshotState, ApplyTransactions, RollbackApply,
                        RequeueAfterApply, AutoRecover, L2Fence, DiscardStateBackup
        <3> QED
            BY <1>1, <2>1, <3>1, StateApplySteps, ZenonT(30)
    <2>2. CASE L2Stage(p) \/ LegacyStage(p) \/ PeerStage(p)
        <3>1. UNCHANGED rocks
            BY <2>2, ZenonT(30) DEF L2Stage, LegacyStage, PeerStage
        <3> QED
            BY <1>1, <2>2, <3>1, StateStage, ZenonT(30)
    <2>3. CASE AssembleHeader(p) \/ CommitBlockToRocks(p) \/ UndoLastConfirmedBlock(p)
        BY <2>3, StateFinalize, SMTT(30)
    <2> QED
        BY <1>6, <2>1, <2>2, <2>3, ZenonT(30) DEF Confirm
<1> QED
    BY <1>3, <1>4, <1>5, <1>6, ZenonT(30) DEF Next

-----------------------------------------------------------------------------
(* The history ends at the canonical head. *)

\* HistoryInv of a step of p, from what it says of p alone.
LEMMA HistoryInvOf ==
    ASSUME SoloConfig, NEW p \in Procs,
           IF Tipped(p)' THEN TipOver(blockHistory', blk'[p], Len(rocks'))
                         ELSE historyHead(blockHistory') = Len(rocks') - 1
    PROVE  HistoryInv'
<1>1. \A q \in Procs : q = p
    BY SMTT(30) DEF SoloConfig
<1>2. Quiescent' => ~Tipped(p)'
    BY SMTT(30) DEF Quiescent, Tipped
<1> QED
    BY <1>1, <1>2, SMTT(30) DEF HistoryInv

\* A step before the explorer update leaves the history alone.
LEMMA HistoryCalm ==
    ASSUME SoloConfig, HistoryInv, NEW p \in Procs, ~Tipped(p), ~Tipped(p)',
           UNCHANGED <<blockHistory, rocks>>
    PROVE  HistoryInv'
BY HistoryInvOf DEF HistoryInv

\* The stage of a block puts it on top of the history.
LEMMA HistoryStage ==
    ASSUME SoloConfig, TypeOK, StateInv, HistoryInv, NEW p \in Procs,
           L2Stage(p) \/ LegacyStage(p) \/ PeerStage(p)
    PROVE  HistoryInv'
<1>1. kind[p] # "legacy" /\ pc[p] = "stage"
    BY ZenonT(30) DEF StateInv, L2Stage, LegacyStage, PeerStage
<1>2. historyHead(blockHistory) = Len(rocks) - 1 /\ blockHistory \in Seq(Block)
    BY <1>1, SMTT(30) DEF HistoryInv, Tipped, TypeOK
<1>3. UNCHANGED rocks
    BY ZenonT(30) DEF L2Stage, LegacyStage, PeerStage
<1>4. ASSUME NEW b \in Block, blockHistory' = Append(blockHistory, b),
             \/ \E k, t : Hold(p, "header", k, t, b)
             \/ b = blk[p] /\ Goto(p, "commit")
      PROVE  HistoryInv'
    <2>1. Tipped(p)' /\ blk'[p] = b
        BY <1>4, Continues, ZenonT(30) DEF Tipped
    <2>2. TipOver(blockHistory', blk'[p], Len(rocks'))
        BY <1>2, <1>3, <1>4, <2>1, ZenonT(30) DEF TipOver
    <2> QED
        BY <2>1, <2>2, HistoryInvOf, ZenonT(30)
<1>5. ASSUME NEW b \in Block, blockHistory' = UndoHistory(Append(blockHistory, b), b.num),
             Fail(p) \/ Return(p)
      PROVE  HistoryInv'
    <2>1. ~Tipped(p)'
        BY <1>5, Continues, SMTT(30) DEF Tipped
    <2>2. blockHistory' = blockHistory
        BY <1>2, <1>5, UndoAppend, ZenonT(30)
    <2> QED
        BY <1>1, <1>3, <2>1, <2>2, HistoryCalm, ZenonT(30) DEF Tipped
<1>6. CASE L2Stage(p)
    <2> DEFINE b == [num |-> blockCounter, txs |-> txs[p]]
    <2>1. b \in Block /\ b.num = blockCounter
        <3>1. blockCounter <= MaxHeight
            BY <1>6, ZenonT(30) DEF L2Stage
        <3>2. blockCounter \in Nat /\ txs[p] \in SUBSET Tx
            BY BoundsAssumption DEF TypeOK
        <3>3. blockCounter \in Heights
            BY <3>1, <3>2, HeightOf, ZenonT(30)
        <3> QED
            BY <3>2, <3>3, ZenonT(30) DEF Block
    <2>2. \/ blockHistory' = Append(blockHistory, b) /\ Hold(p, "header", kind[p], txs[p], b)
          \/ blockHistory' = UndoHistory(Append(blockHistory, b), blockCounter) /\ Fail(p)
        BY <1>6, ZenonT(30) DEF L2Stage, ConfirmExplorer, UndoExplorer
    <2> HIDE DEF b
    <2> QED
        BY <2>1, <2>2, <1>4, <1>5, ZenonT(30)
<1>7. CASE PeerStage(p)
    <2>1. blk[p] \in Block
        BY SMTT(30) DEF TypeOK
    <2>2. \/ blockHistory' = Append(blockHistory, blk[p]) /\ Goto(p, "commit")
          \/ blockHistory' = UndoHistory(Append(blockHistory, blk[p]), blk[p].num) /\ Return(p)
        BY <1>7, ZenonT(30) DEF PeerStage, ConfirmExplorer, UndoExplorer
    <2> QED
        BY <2>1, <2>2, <1>4, <1>5, ZenonT(30)
<1>8. ~LegacyStage(p)
    BY <1>1, ZenonT(30) DEF LegacyStage
<1> QED
    BY <1>6, <1>7, <1>8, ZenonT(30)

\* The commit or the undo of a staged block settles the tip.
LEMMA HistoryFinalize ==
    ASSUME SoloConfig, TypeOK, HistoryInv, NEW p \in Procs,
           AssembleHeader(p) \/ CommitBlockToRocks(p) \/ UndoLastConfirmedBlock(p)
    PROVE  HistoryInv'
<1>1. Tipped(p)
    BY ZenonT(30) DEF AssembleHeader, CommitBlockToRocks, UndoLastConfirmedBlock, Tipped
<1>2. PICK h \in Seq(Block) : blockHistory = Append(h, blk[p]) /\ historyHead(h) = Len(rocks) - 1
    BY <1>1, ZenonT(30) DEF HistoryInv, TipOver
<1>3. blk[p] \in Block /\ blk[p].num \in Nat /\ Len(rocks) \in Nat
    BY ListPlaces, SMTT(30) DEF TypeOK, Block, Heights
<1>4. ASSUME UNCHANGED <<blockHistory, rocks>>, Goto(p, "undo") \/ Goto(p, "commit") PROVE HistoryInv'
    <2>1. Tipped(p)' /\ blk'[p] = blk[p]
        BY <1>4, Continues, ZenonT(30) DEF Tipped
    <2>2. TipOver(blockHistory', blk'[p], Len(rocks'))
        BY <1>2, <1>4, <2>1, ZenonT(30) DEF TipOver
    <2> QED
        BY <2>1, <2>2, HistoryInvOf, ZenonT(30)
<1>5. CASE AssembleHeader(p)
    BY <1>4, <1>5, ZenonT(30) DEF AssembleHeader, explorerVars
<1>6. CASE UndoLastConfirmedBlock(p)
    <2>1. blockHistory' = h
        BY <1>2, <1>3, <1>6, UndoAppend, ZenonT(30) DEF UndoLastConfirmedBlock, UndoExplorer
    <2>2. ~Tipped(p)' /\ rocks' = rocks
        BY <1>6, Continues, ZenonT(30) DEF UndoLastConfirmedBlock, Tipped
    <2> QED
        BY <1>2, <2>1, <2>2, HistoryInvOf, ZenonT(30)
<1>7. CASE CommitBlockToRocks(p)
    <2> DEFINE b == [txs |-> txs[p], accounts |-> Touched(stateFile, txs[p])]
    <2>1. CASE UNCHANGED rocks /\ Goto(p, "undo")
        BY <1>4, <1>7, <2>1, ZenonT(30) DEF CommitBlockToRocks, explorerVars
    <2>2. CASE blk[p].num = Len(rocks) /\ rocks' = Append(rocks, b) /\ Goto(p, "discard")
        <3>1. b \in RocksBlock /\ rocks \in Seq(RocksBlock)
            BY SMTT(30) DEF TypeOK, RocksBlock, Touched
        <3>2. Len(rocks') = Len(rocks) + 1
            BY <2>2, <3>1, ListAppend, ZenonT(30)
        <3>3. historyHead(blockHistory) = Len(rocks)
            <4>1. historyHead(blockHistory) = IF blk[p].num > historyHead(h) THEN blk[p].num ELSE historyHead(h)
                BY <1>2, <1>3, HeadOfAppend, ZenonT(30)
            <4>2. blk[p].num = Len(rocks) /\ historyHead(h) = Len(rocks) - 1 /\ Len(rocks) \in Nat
                BY <1>2, <1>3, <2>2, ZenonT(30)
            <4> QED
                BY <4>1, <4>2
        <3>4. ~Tipped(p)' /\ blockHistory' = blockHistory
            <4>1. pc'[p] = "discard"
                BY <2>2, Continues, ZenonT(30)
            <4>2. blockHistory' = blockHistory
                BY <1>7, ZenonT(30) DEF CommitBlockToRocks, explorerVars
            <4> QED
                BY <4>1, <4>2 DEF Tipped
        <3> QED
            BY <1>3, <3>2, <3>3, <3>4, HistoryInvOf, SMTT(30)
    <2> QED
        BY <1>7, <2>1, <2>2, ZenonT(30) DEF CommitBlockToRocks, SoloConfig
<1> QED
    BY <1>5, <1>6, <1>7, ZenonT(30)

\* At the start the history ends at the canonical head.
LEMMA HistoryInit == Init => HistoryInv
<1> SUFFICES ASSUME Init PROVE HistoryInv
    OBVIOUS
<1>1. <<>> \in Seq(Block) /\ DOMAIN <<>> = {} /\ Len(<<>>) = 0
    OBVIOUS
<1>2. historyHead(<<>>) = -1
    BY <1>1, HistoryHeadMax, ZenonT(30)
<1> QED
    BY <1>1, <1>2 DEF Init, HistoryInv, Tipped

\* Where the steps before the explorer update and after the commit go on.
LEMMA Untipped ==
    ASSUME TypeOK, NEW p \in Procs
    PROVE  /\ Goto(p, "snapshot") => ~Tipped(p)'
           /\ Goto(p, "apply") => ~Tipped(p)'
           /\ Goto(p, "stage") => ~Tipped(p)'
           /\ Goto(p, "rollback") => ~Tipped(p)'
           /\ Return(p) => ~Tipped(p)'
           /\ Fail(p) => ~Tipped(p)'
           /\ ApplyFailed(p) => ~Tipped(p)'
           /\ \A k, s, b : Hold(p, "snapshot", k, s, b) => ~Tipped(p)'
<1>1. \A label : Goto(p, label) => pc'[p] = label
    BY Continues, ZenonT(30)
<1>2. \A k, s, b : Hold(p, "snapshot", k, s, b) => pc'[p] = "snapshot"
    BY Continues, ZenonT(30)
<1>3. /\ Return(p) => pc'[p] = "idle"
      /\ Fail(p) => pc'[p] \in {"recover", "idle"}
      /\ ApplyFailed(p) => pc'[p] \in {"requeue", "idle"}
    BY Continues, ZenonT(30)
<1> QED
    BY <1>1, <1>2, <1>3 DEF Tipped

\* Every step keeps the history as HistoryInv says.
LEMMA HistoryNext ==
    ASSUME SoloConfig, TypeOK, StateInv, HistoryInv, [Next]_vars
    PROVE  HistoryInv'
<1>1. ASSUME UNCHANGED <<explorerVars, rocks, procVars>> PROVE HistoryInv'
    BY <1>1, ZenonT(30) DEF HistoryInv, Quiescent, Tipped, TipOver, explorerVars, procVars
<1>2. CASE Queues
    BY <1>1, <1>2, ZenonT(30) DEF Queues, AddToMempool, PruneMempool, AbandonInvalid, L1CollectSelected, SyncPendingBlock
<1>3. CASE UNCHANGED vars
    BY <1>1, <1>3, SMTT(30) DEF vars
<1>4. ASSUME NEW p \in Procs, Begin(p) PROVE HistoryInv'
    <2>1. ~Tipped(p) /\ UNCHANGED <<blockHistory, rocks>>
        BY <1>4, ZenonT(30) DEF Begin, L2Begin, LegacyBegin, PeerBegin, Tipped, explorerVars
    <2>2. ~Tipped(p)'
        BY <1>4, Continues, ZenonT(30) DEF Begin, L2Begin, LegacyBegin, PeerBegin, Tipped
    <2> QED
        BY <2>1, <2>2, HistoryCalm, ZenonT(30)
<1>5. ASSUME NEW p \in Procs, Confirm(p) PROVE HistoryInv'
    <2>1. CASE \/ L2Voted(p) \/ SnapshotState(p) \/ ApplyTransactions(p) \/ RollbackApply(p)
               \/ RequeueAfterApply(p) \/ AutoRecover(p) \/ L2Fence(p) \/ DiscardStateBackup(p)
        <3>1. ~Tipped(p) /\ UNCHANGED <<blockHistory, rocks>>
            BY <2>1, ZenonT(30) DEF L2Voted, SnapshotState, ApplyTransactions, RollbackApply, RequeueAfterApply,
                        AutoRecover, L2Fence, DiscardStateBackup, Tipped, explorerVars
        <3>2. ~Tipped(p)'
            <4>1. CASE L2Voted(p)
                BY <4>1, Untipped, ZenonT(30) DEF L2Voted
            <4>2. CASE SnapshotState(p) \/ ApplyTransactions(p) \/ RollbackApply(p)
                BY <4>2, Untipped, ZenonT(30) DEF SnapshotState, ApplyTransactions, RollbackApply
            <4>3. CASE RequeueAfterApply(p) \/ AutoRecover(p) \/ L2Fence(p) \/ DiscardStateBackup(p)
                BY <4>3, Untipped, ZenonT(30) DEF RequeueAfterApply, AutoRecover, L2Fence, DiscardStateBackup
            <4> QED
                BY <2>1, <4>1, <4>2, <4>3, ZenonT(30)
        <3> QED
            BY <3>1, <3>2, HistoryCalm
    <2>2. CASE L2Stage(p) \/ LegacyStage(p) \/ PeerStage(p)
        BY <2>2, HistoryStage, SMTT(30)
    <2>3. CASE AssembleHeader(p) \/ CommitBlockToRocks(p) \/ UndoLastConfirmedBlock(p)
        BY <2>3, HistoryFinalize
    <2> QED
        BY <1>5, <2>1, <2>2, <2>3, ZenonT(30) DEF Confirm
<1> QED
    BY <1>2, <1>3, <1>4, <1>5, ZenonT(30) DEF Next

-----------------------------------------------------------------------------
(* Blocks in order: the next block number is the next height. *)

\* Peers send no block above the next height.
InOrderConfig == SoloConfig /\ PeerLead = 0

\* A history that has every height below n.
Covered(hist, n) == \A m \in 0 .. n - 1 : \E i \in DOMAIN hist : hist[i].num = m

\* The counter, the head of chain.json and the history around height n.
OrderedAt(n) == blockCounter = n /\ durableHead <= Len(rocks) /\ Covered(blockHistory, n)

\* A peer's block on its way to the explorer is the next one; no vote is held on it.
PeerNext(p) == kind[p] = "peer" =>
    /\ pc[p] # "vote"
    /\ pc[p] \in {"snapshot", "apply", "stage"} => blk[p].num = Len(rocks)

OrderInv ==
    /\ Quiescent => OrderedAt(Len(rocks))
    /\ \A p \in Procs :
         /\ IF Tipped(p) THEN OrderedAt(Len(rocks) + 1) /\ blk[p].num = Len(rocks)
                         ELSE OrderedAt(Len(rocks))
         /\ PeerNext(p)

\* OrderInv of a step of p, from what it says of p alone.
LEMMA OrderInvOf ==
    ASSUME SoloConfig, NEW p \in Procs,
           IF Tipped(p)' THEN OrderedAt(Len(rocks) + 1)' /\ blk'[p].num = Len(rocks')
                         ELSE OrderedAt(Len(rocks))',
           PeerNext(p)'
    PROVE  OrderInv'
<1>1. \A q \in Procs : q = p
    BY DEF SoloConfig
<1>2. Quiescent' => ~Tipped(p)'
    BY DEF Quiescent, Tipped
<1> QED
    BY <1>1, <1>2 DEF OrderInv

\* A history with the next block on top covers one height more.
LEMMA CoveredAppend ==
    ASSUME NEW hist \in Seq(Block), NEW b \in Block, NEW n \in Nat, b.num = n
    PROVE  Covered(Append(hist, b), n + 1) <=> Covered(hist, n)
<1> DEFINE more == Append(hist, b)
<1>1. /\ DOMAIN hist = 1 .. Len(hist) /\ Len(hist) \in Nat
      /\ DOMAIN more = 1 .. Len(hist) + 1
      /\ \A i \in 1 .. Len(hist) : more[i] = hist[i]
      /\ more[Len(hist) + 1] = b
    BY ListAppend, ListPlaces
<1> HIDE DEF more
<1>2. \A i \in DOMAIN hist : i \in DOMAIN more /\ more[i] = hist[i]
    BY <1>1
<1>3. \A i \in DOMAIN more : (i \in DOMAIN hist /\ more[i] = hist[i]) \/ more[i] = b
    BY <1>1
<1>4. Len(hist) + 1 \in DOMAIN more /\ more[Len(hist) + 1].num = n
    BY <1>1
<1>5. ASSUME Covered(hist, n), NEW m \in 0 .. n PROVE \E i \in DOMAIN more : more[i].num = m
    <2>1. CASE m = n
        BY <1>4, <2>1
    <2>2. CASE m # n
        <3>1. m \in 0 .. n - 1
            BY <2>2
        <3>2. PICK i \in DOMAIN hist : hist[i].num = m
            BY <1>5, <3>1 DEF Covered
        <3> QED
            BY <1>2, <3>2
    <2> QED
        BY <2>1, <2>2
<1>6. ASSUME Covered(more, n + 1), NEW m \in 0 .. n - 1 PROVE \E i \in DOMAIN hist : hist[i].num = m
    <2>1. m \in 0 .. (n + 1) - 1 /\ m # n
        OBVIOUS
    <2>2. PICK i \in DOMAIN more : more[i].num = m
        BY <1>6, <2>1 DEF Covered
    <2> QED
        BY <1>3, <2>1, <2>2
<1>7. Covered(hist, n) => Covered(more, n + 1)
    <2>1. (n + 1) - 1 = n
        OBVIOUS
    <2> QED
        BY <1>5, <2>1 DEF Covered
<1>8. Covered(more, n + 1) => Covered(hist, n)
    BY <1>6 DEF Covered
<1> QED
    BY <1>7, <1>8 DEF more

\* A step that keeps the explorer, chain.json and Rocks.
LEMMA OrderCalm ==
    ASSUME SoloConfig, OrderInv, NEW p \in Procs, ~Tipped(p), ~Tipped(p)',
           UNCHANGED <<explorerVars, cacheVars, rocks>>,
           PeerNext(p)'
    PROVE  OrderInv'
<1>1. OrderedAt(Len(rocks))
    BY DEF OrderInv
<1>2. OrderedAt(Len(rocks))'
    BY <1>1 DEF OrderedAt, Covered, explorerVars, cacheVars
<1> QED
    BY <1>2, OrderInvOf

\* A peer's block that the history does not have is the next one.
LEMMA OrderBegin ==
    ASSUME InOrderConfig, TypeOK, OrderInv, NEW p \in Procs, Begin(p)
    PROVE  OrderInv'
<1>1. /\ pc[p] = "idle" /\ ~Tipped(p) /\ SoloConfig
      /\ UNCHANGED <<explorerVars, cacheVars, rocks>>
    BY ZenonT(30) DEF Begin, L2Begin, LegacyBegin, PeerBegin, Tipped, InOrderConfig
<1>2. ASSUME NEW k \in Kinds, L2Begin(p, k) PROVE OrderInv'
    <2>1. pc'[p] = "vote" /\ kind'[p] = k /\ k \in {"auto", "l2"}
        BY <1>2, Continues, ZenonT(30) DEF L2Begin
    <2> QED
        BY <1>1, <2>1, OrderCalm DEF Tipped, PeerNext
<1>3. ~LegacyBegin(p)
    BY <1>1 DEF LegacyBegin, SoloConfig
<1>4. ASSUME NEW b \in Block, NEW bodies \in {b.txs, {}}, PeerBegin(p, b, bodies) PROVE OrderInv'
    <2>1. pc'[p] = "snapshot" /\ blk'[p] = b
        BY <1>4, Continues, ZenonT(30) DEF PeerBegin
    <2>2. b.num <= Len(rocks) /\ ~HasHeight(b.num)
        <3>1. b.num <= Len(rocks) + PeerLead /\ ~HasHeight(b.num)
            BY <1>4 DEF PeerBegin
        <3>2. Len(rocks) + PeerLead = Len(rocks)
            BY ListPlaces DEF InOrderConfig, TypeOK
        <3> QED
            BY <3>1, <3>2
    <2>3. Covered(blockHistory, Len(rocks))
        BY <1>1 DEF OrderInv, OrderedAt
    <2>4. b.num \in Nat /\ Len(rocks) \in Nat
        BY ListPlaces DEF TypeOK, Block, Heights
    <2>5. b.num \notin 0 .. Len(rocks) - 1
        BY <2>2, <2>3 DEF Covered, HasHeight
    <2>6. b.num = Len(rocks)
        BY <2>2, <2>4, <2>5
    <2> QED
        BY <1>1, <2>1, <2>6, OrderCalm DEF Tipped, PeerNext
<1> QED
    BY <1>2, <1>3, <1>4 DEF Begin

\* persistChain raises the durable head to the head of what it writes, at most.
LEMMA WrittenBound ==
    ASSUME NEW hist \in Seq(Block), NEW counter, NEW n \in Nat,
           Written(hist, counter), historyHead(hist) <= n, durableHead <= n
    PROVE  durableHead' <= n
BY DEF Written

\* Before the explorer update a peer's block stays the next one.
LEMMA OrderApplySteps ==
    ASSUME SoloConfig, TypeOK, OrderInv, NEW p \in Procs,
           \/ L2Voted(p) \/ SnapshotState(p) \/ ApplyTransactions(p) \/ RollbackApply(p)
           \/ RequeueAfterApply(p) \/ AutoRecover(p) \/ L2Fence(p) \/ DiscardStateBackup(p)
    PROVE  OrderInv'
<1>1. ~Tipped(p) /\ UNCHANGED <<explorerVars, cacheVars, rocks>>
    BY ZenonT(30) DEF L2Voted, SnapshotState, ApplyTransactions, RollbackApply, RequeueAfterApply,
                AutoRecover, L2Fence, DiscardStateBackup, Tipped
<1>2. ASSUME Fail(p) \/ Return(p) \/ ApplyFailed(p) PROVE OrderInv'
    <2>1. pc'[p] \in {"recover", "idle", "requeue"}
        BY <1>2, Continues, ZenonT(30)
    <2> QED
        BY <1>1, <2>1, OrderCalm DEF Tipped, PeerNext
<1>3. ASSUME pc[p] \in {"snapshot", "apply"},
             Goto(p, "apply") \/ Goto(p, "stage") \/ Goto(p, "rollback")
      PROVE  OrderInv'
    <2>1. pc'[p] \in {"apply", "stage", "rollback"} /\ kind' = kind /\ blk' = blk
        BY <1>3, Continues, ZenonT(30)
    <2>2. kind[p] = "peer" => blk[p].num = Len(rocks)
        BY <1>3 DEF OrderInv, PeerNext
    <2> QED
        BY <1>1, <2>1, <2>2, OrderCalm DEF Tipped, PeerNext
<1>4. CASE L2Voted(p)
    <2>1. CASE Fail(p)
        BY <1>2, <2>1
    <2>2. CASE Hold(p, "snapshot", kind[p], pendingBlock, NoBlock)
        <3>1. pc'[p] = "snapshot" /\ kind'[p] = kind[p] /\ blk'[p] = NoBlock
            BY <2>2, Continues, ZenonT(30)
        <3>2. kind[p] # "peer"
            BY <1>4 DEF L2Voted, OrderInv, PeerNext
        <3> QED
            BY <1>1, <3>1, <3>2, OrderCalm DEF Tipped, PeerNext
    <2> QED
        BY <1>4, <2>1, <2>2 DEF L2Voted
<1>5. CASE SnapshotState(p)
    BY <1>2, <1>3, <1>5, ZenonT(30) DEF SnapshotState
<1>6. CASE ApplyTransactions(p)
    BY <1>3, <1>6, ZenonT(30) DEF ApplyTransactions
<1>7. CASE RollbackApply(p) \/ RequeueAfterApply(p) \/ AutoRecover(p) \/ L2Fence(p) \/ DiscardStateBackup(p)
    BY <1>2, <1>7, ZenonT(30) DEF RollbackApply, RequeueAfterApply, AutoRecover, L2Fence, DiscardStateBackup
<1> QED
    BY <1>4, <1>5, <1>6, <1>7

\* The block appended last is the tip.
LEMMA AppendIsTip ==
    ASSUME NEW hist \in Seq(Block), NEW b \in Block
    PROVE  IsTip(Append(hist, b), b.num)
<1>1. /\ Len(Append(hist, b)) = Len(hist) + 1 /\ Append(hist, b)[Len(hist) + 1] = b
      /\ Append(hist, b) # <<>>
    BY ListAppend, ListPlaces
<1> QED
    BY <1>1 DEF IsTip

\* The block that is staged is the next one, and giving it up restores the counter.
LEMMA OrderStage ==
    ASSUME SoloConfig, TypeOK, StateInv, HistoryInv, OrderInv, NEW p \in Procs,
           L2Stage(p) \/ LegacyStage(p) \/ PeerStage(p)
    PROVE  OrderInv'
<1> DEFINE n == Len(rocks)
<1>1. kind[p] # "legacy" /\ pc[p] = "stage" /\ ~Tipped(p)
    BY ZenonT(30) DEF StateInv, L2Stage, LegacyStage, PeerStage, Tipped
<1>2. /\ n \in Nat /\ blockHistory \in Seq(Block)
      /\ blockCounter = n /\ durableHead <= n /\ Covered(blockHistory, n)
      /\ historyHead(blockHistory) = n - 1
    BY <1>1, ListPlaces DEF TypeOK, OrderInv, OrderedAt, HistoryInv
<1>3. UNCHANGED rocks
    BY ZenonT(30) DEF L2Stage, LegacyStage, PeerStage
<1> HIDE DEF n
<1>4. ASSUME NEW b \in Block, b.num = n, blockHistory' = Append(blockHistory, b), blockCounter' = n + 1,
             Written(Append(blockHistory, b), n + 1),
             \/ \E k, t : Hold(p, "header", k, t, b)
             \/ b = blk[p] /\ Goto(p, "commit")
      PROVE  OrderInv'
    <2>1. pc'[p] \in {"header", "commit"} /\ blk'[p] = b
        BY <1>4, Continues, ZenonT(30)
    <2>2. historyHead(Append(blockHistory, b)) = n
        BY <1>2, <1>4, HeadOfAppend
    <2>3. durableHead' <= n
        <3>1. Append(blockHistory, b) \in Seq(Block)
            BY <1>2, AppendType
        <3>2. historyHead(Append(blockHistory, b)) <= n
            BY <1>2, <2>2
        <3> QED
            BY <1>2, <1>4, <3>1, <3>2, WrittenBound
    <2>4. Covered(blockHistory', n + 1)
        BY <1>2, <1>4, CoveredAppend
    <2>5. OrderedAt(Len(rocks) + 1)'
        BY <1>3, <1>4, <2>3, <2>4 DEF OrderedAt, n
    <2> QED
        BY <1>3, <1>4, <2>1, <2>5, OrderInvOf DEF Tipped, PeerNext, n
<1>5. ASSUME NEW b \in Block, b.num = n,
             blockHistory' = UndoHistory(Append(blockHistory, b), b.num),
             blockCounter' = UndoCounter(Append(blockHistory, b), b.num, n + 1),
             UNCHANGED cacheVars, Fail(p) \/ Return(p)
      PROVE  OrderInv'
    <2>1. pc'[p] \in {"recover", "idle"}
        BY <1>5, Continues, ZenonT(30)
    <2>2. blockHistory' = blockHistory
        BY <1>2, <1>5, UndoAppend, ZenonT(30)
    <2>3. IsTip(Append(blockHistory, b), b.num)
        BY <1>2, AppendIsTip
    <2>4. blockCounter' = n
        BY <1>2, <1>5, <2>3 DEF UndoCounter
    <2>5. OrderedAt(Len(rocks))'
        BY <1>2, <1>3, <1>5, <2>2, <2>4 DEF OrderedAt, Covered, cacheVars, n
    <2> QED
        BY <2>1, <2>5, OrderInvOf DEF Tipped, PeerNext
<1>6. CASE L2Stage(p)
    <2> DEFINE b == [num |-> blockCounter, txs |-> txs[p]]
    <2>1. b \in Block /\ b.num = n
        <3>1. blockCounter <= MaxHeight
            BY <1>6, ZenonT(30) DEF L2Stage
        <3>2. txs[p] \in SUBSET Tx
            BY DEF TypeOK
        <3>3. blockCounter \in Heights
            BY <1>2, <3>1, HeightOf
        <3> QED
            BY <1>2, <3>2, <3>3 DEF Block
    <2>2. \/ /\ blockHistory' = Append(blockHistory, b) /\ blockCounter' = blockCounter + 1
             /\ Written(Append(blockHistory, b), blockCounter + 1)
             /\ Hold(p, "header", kind[p], txs[p], b)
          \/ /\ blockHistory' = UndoHistory(Append(blockHistory, b), blockCounter)
             /\ blockCounter' = UndoCounter(Append(blockHistory, b), blockCounter, blockCounter + 1)
             /\ UNCHANGED cacheVars /\ Fail(p)
        BY <1>6, ZenonT(30) DEF L2Stage, ConfirmExplorer, UndoExplorer
    <2> HIDE DEF b
    <2>3. blockCounter = n
        BY <1>2
    <2> QED
        BY <2>1, <2>2, <2>3, <1>4, <1>5, ZenonT(30)
<1>7. CASE PeerStage(p)
    <2>1. blk[p] \in Block /\ blk[p].num = n
        BY <1>1, <1>7 DEF TypeOK, PeerStage, OrderInv, PeerNext, n
    <2> DEFINE counter == IF blk[p].num + 1 > blockCounter THEN blk[p].num + 1 ELSE blockCounter
    <2>2. counter = n + 1
        BY <1>2, <2>1
    <2>3. \/ /\ blockHistory' = Append(blockHistory, blk[p]) /\ blockCounter' = counter
             /\ Written(Append(blockHistory, blk[p]), counter) /\ Goto(p, "commit")
          \/ /\ blockHistory' = UndoHistory(Append(blockHistory, blk[p]), blk[p].num)
             /\ blockCounter' = UndoCounter(Append(blockHistory, blk[p]), blk[p].num, counter)
             /\ UNCHANGED cacheVars /\ Return(p)
        BY <1>7, ZenonT(30) DEF PeerStage, ConfirmExplorer, UndoExplorer
    <2> HIDE DEF counter
    <2> QED
        BY <2>1, <2>2, <2>3, <1>4, <1>5, ZenonT(30)
<1>8. ~LegacyStage(p)
    BY <1>1 DEF LegacyStage
<1> QED
    BY <1>6, <1>7, <1>8

\* The header writes the staged tip again, the commit makes its height canonical,
\* and the undo takes tip and counter back together.
LEMMA OrderFinalize ==
    ASSUME SoloConfig, TypeOK, HistoryInv, OrderInv, NEW p \in Procs,
           AssembleHeader(p) \/ CommitBlockToRocks(p) \/ UndoLastConfirmedBlock(p)
    PROVE  OrderInv'
<1> DEFINE n == Len(rocks)
<1>1. Tipped(p)
    BY ZenonT(30) DEF AssembleHeader, CommitBlockToRocks, UndoLastConfirmedBlock, Tipped
<1>2. PICK h \in Seq(Block) : blockHistory = Append(h, blk[p]) /\ historyHead(h) = n - 1
    BY <1>1, ZenonT(30) DEF HistoryInv, TipOver
<1>3. /\ blk[p] \in Block /\ blk[p].num = n /\ n \in Nat /\ blockHistory \in Seq(Block)
      /\ blockCounter = n + 1 /\ durableHead <= n /\ Covered(blockHistory, n + 1)
    BY <1>1, ListPlaces DEF TypeOK, OrderInv, OrderedAt
<1> HIDE DEF n
<1>4. ASSUME UNCHANGED <<explorerVars, rocks>>, durableHead' <= n,
             Goto(p, "undo") \/ Goto(p, "commit")
      PROVE  OrderInv'
    <2>1. pc'[p] \in {"undo", "commit"} /\ blk'[p] = blk[p]
        BY <1>4, Continues, ZenonT(30)
    <2>2. OrderedAt(Len(rocks) + 1)'
        BY <1>3, <1>4 DEF OrderedAt, Covered, explorerVars, n
    <2> QED
        BY <1>3, <1>4, <2>1, <2>2, OrderInvOf DEF Tipped, PeerNext, n
<1>5. CASE AssembleHeader(p)
    <2>1. historyHead(blockHistory) = n
        BY <1>2, <1>3, HeadOfAppend
    <2>2. durableHead' <= n
        <3>1. CASE Written(blockHistory, blockCounter)
            <4>1. historyHead(blockHistory) <= n
                BY <1>3, <2>1
            <4> QED
                BY <1>3, <3>1, <4>1, WrittenBound
        <3>2. CASE UNCHANGED cacheVars
            BY <1>3, <3>2 DEF cacheVars
        <3> QED
            BY <1>5, <3>1, <3>2, ZenonT(30) DEF AssembleHeader
    <2> QED
        BY <1>4, <1>5, <2>2, ZenonT(30) DEF AssembleHeader
<1>6. CASE UndoLastConfirmedBlock(p)
    <2>1. blockHistory' = h
        BY <1>2, <1>3, <1>6, UndoAppend, ZenonT(30) DEF UndoLastConfirmedBlock, UndoExplorer
    <2>2. blockCounter' = n
        <3>1. IsTip(blockHistory, blk[p].num)
            BY <1>2, <1>3, AppendIsTip
        <3>2. blockCounter' = UndoCounter(blockHistory, blk[p].num, blockCounter)
            BY <1>6 DEF UndoLastConfirmedBlock, UndoExplorer
        <3> QED
            BY <1>3, <3>1, <3>2 DEF UndoCounter
    <2>3. durableHead' <= n
        <3>1. CASE Written(blockHistory', blockCounter')
            <4>1. historyHead(h) <= n
                BY <1>2, <1>3
            <4>2. Written(h, blockCounter')
                BY <2>1, <3>1
            <4> QED
                BY <1>3, <4>1, <4>2, WrittenBound
        <3>2. CASE UNCHANGED cacheVars
            BY <1>3, <3>2 DEF cacheVars
        <3> QED
            BY <1>6, <3>1, <3>2, ZenonT(30) DEF UndoLastConfirmedBlock
    <2>4. Covered(h, n)
        BY <1>2, <1>3, CoveredAppend
    <2>5. pc'[p] \in {"recover", "idle"} /\ rocks' = rocks
        BY <1>6, Continues, ZenonT(30) DEF UndoLastConfirmedBlock
    <2>6. OrderedAt(Len(rocks))'
        BY <2>1, <2>2, <2>3, <2>4, <2>5 DEF OrderedAt, n
    <2> QED
        BY <2>5, <2>6, OrderInvOf DEF Tipped, PeerNext
<1>7. CASE CommitBlockToRocks(p)
    <2> DEFINE b == [txs |-> txs[p], accounts |-> Touched(stateFile, txs[p])]
    <2>1. UNCHANGED <<explorerVars, cacheVars>>
        BY <1>7 DEF CommitBlockToRocks
    <2>2. CASE UNCHANGED rocks /\ Goto(p, "undo")
        BY <1>3, <1>4, <2>1, <2>2 DEF cacheVars
    <2>3. CASE rocks' = Append(rocks, b) /\ Goto(p, "discard")
        <3>1. b \in RocksBlock /\ rocks \in Seq(RocksBlock)
            BY SMTT(30) DEF TypeOK, RocksBlock, Touched
        <3>2. Len(rocks') = n + 1
            BY <2>3, <3>1, ListAppend, ZenonT(30) DEF n
        <3>3. pc'[p] = "discard"
            BY <2>3, Continues, ZenonT(30)
        <3>4. OrderedAt(Len(rocks))'
            <4>1. durableHead \in Int
                BY BoundsAssumption DEF TypeOK, Heights
            <4>2. durableHead' <= Len(rocks')
                BY <1>3, <2>1, <3>2, <4>1 DEF cacheVars
            <4> QED
                BY <1>3, <2>1, <3>2, <4>2 DEF OrderedAt, Covered, explorerVars
        <3> QED
            BY <3>3, <3>4, OrderInvOf DEF Tipped, PeerNext
    <2> QED
        BY <1>7, <2>2, <2>3, ZenonT(30) DEF CommitBlockToRocks, SoloConfig
<1> QED
    BY <1>5, <1>6, <1>7

\* The empty node.
LEMMA OrderInit == Init => OrderInv
<1> SUFFICES ASSUME Init PROVE OrderInv
    OBVIOUS
<1>1. Len(rocks) = 0 /\ blockCounter = 0 /\ durableHead = -1
    BY DEF Init
<1>2. OrderedAt(Len(rocks))
    BY <1>1 DEF OrderedAt, Covered
<1> QED
    BY <1>2 DEF Init, OrderInv, Tipped, PeerNext

\* Every step, by its group of actions.
LEMMA OrderNext ==
    ASSUME InOrderConfig, TypeOK, StateInv, HistoryInv, OrderInv, [Next]_vars
    PROVE  OrderInv'
<1>1. ASSUME UNCHANGED <<explorerVars, cacheVars, rocks, procVars>> PROVE OrderInv'
    BY <1>1, ZenonT(30) DEF OrderInv, Quiescent, Tipped, PeerNext, OrderedAt, Covered,
                            explorerVars, cacheVars, procVars
<1>2. CASE Queues
    BY <1>1, <1>2, ZenonT(30) DEF Queues, AddToMempool, PruneMempool, AbandonInvalid, L1CollectSelected, SyncPendingBlock
<1>3. CASE UNCHANGED vars
    BY <1>1, <1>3, SMTT(30) DEF vars
<1>4. ASSUME NEW p \in Procs, Begin(p) PROVE OrderInv'
    BY <1>4, OrderBegin
<1>5. ASSUME NEW p \in Procs, Confirm(p) PROVE OrderInv'
    <2>1. SoloConfig
        BY DEF InOrderConfig
    <2> QED
        BY <1>5, <2>1, OrderApplySteps, OrderStage, OrderFinalize, ZenonT(30) DEF Confirm
<1> QED
    BY <1>2, <1>3, <1>4, <1>5, ZenonT(30) DEF Next

-----------------------------------------------------------------------------
(* The theorems. *)

\* The invariants hold throughout as long as confirms do not overlap.
LEMMA SoloInvAlways ==
    ASSUME SoloConfig
    PROVE  Spec => [](StateInv /\ CommittedStatePaired /\ HistoryInv)
<1>1. Init => TypeOK /\ StateInv /\ CommittedStatePaired /\ HistoryInv
    BY InitType, StateInit, HistoryInit, ZenonT(30)
<1>2. TypeOK /\ StateInv /\ CommittedStatePaired /\ HistoryInv /\ [Next]_vars
          => TypeOK' /\ StateInv' /\ CommittedStatePaired' /\ HistoryInv'
    BY NextType, StateNext, HistoryNext, SMTT(30)
<1> QED
    BY <1>1, <1>2, PTL DEF Spec

\* When confirms do not overlap, each committed block is paired with the accounts
\* after it, whatever failed and was rolled back before: applyConfirmedTransactions,
\* the fence, persistChain, the header or Rocks.
THEOREM SoloCommittedStatePaired ==
    ASSUME SoloConfig
    PROVE  Spec => []CommittedStatePaired
<1>1. Spec => [](StateInv /\ CommittedStatePaired /\ HistoryInv)
    BY SoloInvAlways
<1> QED
    BY <1>1, PTL

\* When confirms do not overlap and none is in flight, the Core state file holds
\* exactly the canonical chain.
THEOREM SoloStateMatchesChain ==
    ASSUME SoloConfig
    PROVE  Spec => []StateMatchesChain
<1>1. Spec => [](StateInv /\ CommittedStatePaired /\ HistoryInv)
    BY SoloInvAlways
<1>2. StateInv => StateMatchesChain
    BY ZenonT(30) DEF StateInv, StateMatchesChain
<1> QED
    BY <1>1, <1>2, PTL

\* When confirms do not overlap, the snapshot of a confirm stays on disk until
\* its Rocks commit or its own rollback.
THEOREM SoloBackupKept ==
    ASSUME SoloConfig
    PROVE  Spec => []BackupKept
<1>1. Spec => [](StateInv /\ CommittedStatePaired /\ HistoryInv)
    BY SoloInvAlways
<1>2. StateInv => BackupKept
    BY DEF StateInv, BackupKept, Ahead
<1> QED
    BY <1>1, <1>2, PTL

\* When confirms do not overlap, no undo leaves a half tip: with nothing in flight
\* the explorer history ends exactly at the canonical head, also after blocks
\* that arrived out of order.
THEOREM SoloNoHalfTip ==
    ASSUME SoloConfig
    PROVE  Spec => []NoHalfTip
<1>1. Spec => [](StateInv /\ CommittedStatePaired /\ HistoryInv)
    BY SoloInvAlways
<1>2. HistoryInv => NoHalfTip
    BY DEF HistoryInv, NoHalfTip
<1> QED
    BY <1>1, <1>2, PTL

\* When confirms do not overlap and peers send no block above the next height,
\* NextBlockNumber is the height Rocks will accept whenever nothing is in flight,
\* and persistChain can still write a block of that height.
THEOREM InOrderNextNumber ==
    ASSUME InOrderConfig
    PROVE  Spec => []NextNumberIsNextHeight
<1>1. Init => TypeOK /\ StateInv /\ CommittedStatePaired /\ HistoryInv /\ OrderInv
    BY InitType, StateInit, HistoryInit, OrderInit, ZenonT(30)
<1>2. TypeOK /\ StateInv /\ CommittedStatePaired /\ HistoryInv /\ OrderInv /\ [Next]_vars
          => TypeOK' /\ StateInv' /\ CommittedStatePaired' /\ HistoryInv' /\ OrderInv'
    BY NextType, StateNext, HistoryNext, OrderNext, SMTT(30) DEF InOrderConfig
<1>3. OrderInv => NextNumberIsNextHeight
    BY DEF OrderInv, OrderedAt, NextNumberIsNextHeight
<1> QED
    BY <1>1, <1>2, <1>3, PTL DEF Spec
=============================================================================
