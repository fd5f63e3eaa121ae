------------------------------ MODULE FeeShares ------------------------------
(***************************************************************************)
(* What becomes of the fees of a block (rewards/rewards.go, rewards/xp.go  *)
(* and the fee handlers of handlers/handlers.go): the confirmer splits     *)
(* them into burn, treasury and two pools, shares the pools among the yes  *)
(* voters and broadcasts the result, which every peer adds to its own      *)
(* books.  A node that restarts rebuilds the totals from its chain.        *)
(*                                                                         *)
(* The nodes agree on the blocks; a block and the broadcast of its fees    *)
(* reach a peer independently of each other, in any order.                 *)
(***************************************************************************)
EXTENDS NodeRegistry, Sequences, FiniteSetsExt

CONSTANTS
    FeeNodes,    \* the nodes
    Weight,      \* per node: its selection weight in every registry
    BlockFees,   \* fees a block may have
    VoterSets,   \* sets of yes voters a layer may have
    LoadPcts,    \* network loads, in percent
    MaxBlocks,   \* bound: number of blocks
    MaxRestarts, \* bound: number of restarts
    MaxRefusals  \* bound: number of credits that Core refuses

ASSUME FeeAssumption ==
    /\ IsFiniteSet(FeeNodes) /\ Weight \in [FeeNodes -> Nat \ {0}]
    /\ BlockFees \subseteq Nat /\ VoterSets \subseteq SUBSET FeeNodes
    /\ LoadPcts \subseteq 0 .. 100 /\ MaxBlocks \in Nat /\ {MaxRestarts, MaxRefusals} \subseteq Nat

VARIABLES
    blocks,      \* the blocks in chain order, the first one has number 0
    held,        \* per node: how many blocks its history has
    totals,      \* per node: TotalBurned and TotalTreasury
    earnings,    \* per node: allNodeEarnings, L1 and L2 added up
    unclaimed,   \* per node: history: pools that had no yes voter
    wallet,      \* per node: fee share and XP credited to the operator, and
                 \* history: the share and the number of credits Core refused
    feeEvents,   \* fee_distribution messages on their way
    processed,   \* per node: history: the blocks in its books
    restarts     \* per node: number of restarts

feeVars == <<blocks, held, totals, earnings, unclaimed, wallet, feeEvents, processed, restarts>>

NoTotals == [burn |-> 0, treasury |-> 0]
NoShares == [m \in FeeNodes |-> 0]
BlockNumber(i) == i - 1
SumOf(f) == FoldSet(LAMBDA m, acc : f[m] + acc, 0, DOMAIN f)

-----------------------------------------------------------------------------
(* The arithmetic. *)

\* Mutant of SplitBlockFees: what the divisions leave goes nowhere.
SplitRoundedDown(fees) ==
    [burn |-> (fees * 10) \div 100, treasury |-> (fees * 18) \div 100,
     l1 |-> (fees * 36) \div 100, l2 |-> (fees * 36) \div 100]

\* SplitBlockFees with the configured percentages 10, 18, 36 and 36.
SplitBlockFees(fees) ==
    LET burn == (fees * 10) \div 100
        l1 == (fees * 36) \div 100
        l2 == (fees * 36) \div 100
    IN  [burn |-> burn, treasury |-> fees - burn - l1 - l2, l1 |-> l1, l2 |-> l2]

\* distributePool: one each if the pool is large enough, the rest by weight,
\* and what the divisions leave to the first voter, which is any of them
\* since a map is iterated.
distributePool(pool, voters, first) ==
    LET n == Cardinality(voters)
        each == IF pool >= n THEN 1 ELSE 0
        remainder == pool - each * n
        total == SumOf([m \in voters |-> Weight[m]])
        part(m) == (remainder * Weight[m]) \div total
        left == remainder - SumOf([m \in voters |-> part(m)])
    IN  IF pool <= 0 \/ voters = {} THEN NoShares
        ELSE [m \in FeeNodes |->
                IF m \notin voters THEN 0
                ELSE each + part(m) + (IF m = first THEN left ELSE 0)]

\* loadXPBonus: two more for every step down of the selection percentage.
loadXPBonus(loadPct) ==
    2 * Cardinality({step \in {50, 30, 25, 20, 15} : SelectionPercentFromLoad(loadPct) < step})

\* distributionXPBonus: up to 10 for a weight above the equal share.
distributionXPBonus(mine, earners) ==
    LET equal == SumOf([m \in earners |-> Weight[m]]) \div Cardinality(earners)
        ratio == (Weight[mine] * 10) \div (IF equal <= 0 THEN 1 ELSE equal)
    IN  IF ratio <= 10 THEN 0 ELSE IF ratio > 20 THEN 10 ELSE ratio - 10

ComputeValidationXP(n, loadPct, shares) ==
    10 + loadXPBonus(loadPct)
       + distributionXPBonus(n, {m \in FeeNodes : shares[m] > 0})

-----------------------------------------------------------------------------
(* The books of a node. *)

AddBurnTreasury(t, burn, treasury) ==
    [burn |-> t.burn + burn, treasury |-> t.treasury + treasury]

\* Mutant of recordEarnings: a later distribution replaces an earlier one.
recordLatest(n, shares) ==
    earnings' = [earnings EXCEPT ![n] = shares]

\* recordEarnings
recordEarnings(n, shares) ==
    earnings' = [earnings EXCEPT ![n] = [m \in FeeNodes |-> @[m] + shares[m]]]

\* applyOperatorBlockReward: the node's own share and XP to the operator's
\* wallet.  A credit that Core refuses is logged and not tried again.  Each
\* block comes by once, so operatorRewardedBlock never hits.
applyOperatorBlockReward(n, loadPct, shares) ==
    IF shares[n] <= 0 THEN UNCHANGED wallet
    ELSE \E paid, xpPaid \in BOOLEAN :
        LET refused == (IF paid THEN 0 ELSE 1) + (IF xpPaid THEN 0 ELSE 1)
        IN  /\ refused + SumOf([m \in FeeNodes |-> wallet[m].refused]) <= MaxRefusals
            /\ wallet' = [wallet EXCEPT ![n] =
                    [fees |-> @.fees + (IF paid THEN shares[n] ELSE 0),
                     unpaid |-> @.unpaid + (IF paid THEN 0 ELSE shares[n]),
                     xp |-> @.xp + (IF xpPaid THEN ComputeValidationXP(n, loadPct, shares) ELSE 0),
                     refused |-> @.refused + refused]]

\* The fee part of l2ConfirmBlockRun.  The voters of L1 are the last ones
\* the confirmer heard of, perhaps none.
DistributeFees(n) ==
    /\ held[n] = Len(blocks) /\ Len(blocks) < MaxBlocks
    /\ \E fees \in BlockFees : \E l1Voters \in VoterSets : \E l2Voters \in VoterSets :
       \E loadPct \in LoadPcts : \E first1 \in FeeNodes : \E first2 \in l2Voters :
        LET sr == SplitBlockFees(fees)
            l1Shares == distributePool(sr.l1, l1Voters, first1)
            l2Shares == distributePool(sr.l2, l2Voters, first2)
            shares == [m \in FeeNodes |-> l1Shares[m] + l2Shares[m]]
        IN  /\ n \in l2Voters
            /\ first1 \in l1Voters \/ l1Voters = {}
            /\ blocks' = Append(blocks, [fees |-> fees, by |-> n])
            /\ held' = [held EXCEPT ![n] = @ + 1]
            /\ IF fees > 0
               THEN /\ totals' = [totals EXCEPT ![n] = AddBurnTreasury(@, sr.burn, sr.treasury)]
                    /\ recordEarnings(n, shares)
                    /\ applyOperatorBlockReward(n, loadPct, shares)
                    /\ feeEvents' = feeEvents \cup
                        {[to |-> m, block |-> Len(blocks) + 1, shares |-> shares,
                          burn |-> sr.burn, treasury |-> sr.treasury, loadPct |-> loadPct,
                          lost |-> IF l1Voters = {} THEN sr.l1 ELSE 0]
                            : m \in FeeNodes \ {n}}
                    /\ unclaimed' = [unclaimed EXCEPT ![n] = @ + (IF l1Voters = {} THEN sr.l1 ELSE 0)]
               ELSE UNCHANGED <<totals, earnings, wallet, feeEvents, unclaimed>>
            /\ processed' = [processed EXCEPT ![n] = @ \cup {Len(blocks) + 1}]
    /\ UNCHANGED restarts

Counted(e) == e.burn > 0 \/ e.treasury > 0

\* onFeeDistribution
onFeeDistribution(n) ==
    \E e \in feeEvents :
        /\ e.to = n
        /\ feeEvents' = feeEvents \ {e}
        /\ recordEarnings(n, e.shares)
        /\ totals' = IF Counted(e)
                     THEN [totals EXCEPT ![n] = AddBurnTreasury(@, e.burn, e.treasury)]
                     ELSE totals
        /\ IF BlockNumber(e.block) > 0
           THEN applyOperatorBlockReward(n, e.loadPct, e.shares)
           ELSE UNCHANGED wallet
        /\ processed' = [processed EXCEPT ![n] = @ \cup {e.block}]
        /\ unclaimed' = [unclaimed EXCEPT ![n] = @ + e.lost]
        /\ UNCHANGED <<blocks, held, restarts>>

\* There are blocks that the node does not hold.
Behind(n) == held[n] < Len(blocks)

\* The block itself reaches a peer (onBlockConfirmed, onSyncApply).
BlockArrives(n) ==
    /\ Behind(n)
    /\ held' = [held EXCEPT ![n] = @ + 1]
    /\ UNCHANGED <<blocks, totals, earnings, unclaimed, wallet, feeEvents, processed, restarts>>

\* rebuildDistributorTotalsFromChain, given what the totals were.
rebuildDistributorTotalsFromChain(n, t) ==
    LET sum(part) == SumOf([i \in 1 .. held[n] |-> SplitBlockFees(blocks[i].fees)[part]])
    IN  IF sum("burn") > 0 \/ sum("treasury") > 0
        THEN [burn |-> sum("burn"), treasury |-> sum("treasury")]
        ELSE t

\* A restart: the books are in memory only, initChainPersistence restores
\* the totals from the history.
FeeRestart(n) ==
    /\ SumOf(restarts) < MaxRestarts
    /\ restarts' = [restarts EXCEPT ![n] = @ + 1]
    /\ totals' = [totals EXCEPT ![n] = rebuildDistributorTotalsFromChain(n, NoTotals)]
    /\ earnings' = [earnings EXCEPT ![n] = NoShares]
    /\ UNCHANGED <<blocks, held, unclaimed, wallet, feeEvents, processed>>

\* The hydration that runs in the background after a start rebuilds again.
RebuildAfterHydrate(n) ==
    /\ restarts[n] > 0
    /\ totals' = [totals EXCEPT ![n] = rebuildDistributorTotalsFromChain(n, @)]
    /\ UNCHANGED <<blocks, held, earnings, unclaimed, wallet, feeEvents, processed, restarts>>

-----------------------------------------------------------------------------

FeeInit ==
    /\ blocks = <<>> /\ feeEvents = {}
    /\ held = [n \in FeeNodes |-> 0]
    /\ totals = [n \in FeeNodes |-> NoTotals]
    /\ earnings = [n \in FeeNodes |-> NoShares]
    /\ unclaimed = [n \in FeeNodes |-> 0]
    /\ wallet = [n \in FeeNodes |-> [fees |-> 0, unpaid |-> 0, xp |-> 0, refused |-> 0]]
    /\ processed = [n \in FeeNodes |-> {}]
    /\ restarts = [n \in FeeNodes |-> 0]

FeeNext ==
    \E n \in FeeNodes :
        \/ DistributeFees(n) \/ onFeeDistribution(n) \/ BlockArrives(n)
        \/ FeeRestart(n) \/ RebuildAfterHydrate(n)

FeeSpec == FeeInit /\ [][FeeNext]_feeVars

-----------------------------------------------------------------------------
(* Properties. *)

\* Type invariant: amounts are natural numbers, a history is a prefix of the
\* chain.
FeeTypeOK ==
    /\ \A n \in FeeNodes :
        /\ held[n] \in 0 .. Len(blocks)
        /\ {totals[n].burn, totals[n].treasury, unclaimed[n]} \subseteq Nat
        /\ wallet[n] \in [fees : Nat, unpaid : Nat, xp : Nat, refused : 0 .. MaxRefusals]
        /\ earnings[n] \in [FeeNodes -> Nat]
    /\ \A e \in feeEvents : e.block \in 1 .. Len(blocks)

\* The fees of the blocks in the books of a node that has not restarted are
\* accounted for to the last unit: burnt, in the treasury, shared, or left
\* in an L1 pool that had no yes voter (SplitBlockFees, distributePool).
FeesConserved ==
    \A n \in FeeNodes : restarts[n] = 0 =>
        totals[n].burn + totals[n].treasury + SumOf(earnings[n]) + unclaimed[n]
            = SumOf([i \in processed[n] |-> blocks[i].fees])

\* The operator of a node is credited with exactly the share that the node
\* records for itself, less what Core refused, and with 10 to 30 XP a block;
\* only block number 0 pays nobody but the operator of its confirmer
\* (applyOperatorBlockReward, onFeeDistribution).
WalletMatchesEarnings ==
    \A n \in FeeNodes : restarts[n] = 0 =>
        LET due == wallet[n].fees + wallet[n].unpaid
        IN  /\ due <= earnings[n][n]
            /\ (1 \in processed[n] => blocks[1].by = n) => due = earnings[n][n]
            /\ wallet[n].xp <= 30 * Cardinality(processed[n])
            /\ due > 0 /\ wallet[n].refused = 0 => wallet[n].xp >= 10

=============================================================================
