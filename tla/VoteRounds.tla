------------------------------ MODULE VoteRounds ------------------------------
(***************************************************************************)
(* The two vote rounds of a block (handlers/handlers.go): L1 collects      *)
(* transactions of the mempool into the pending block, L2 confirms the     *)
(* pending block.  The node that runs a round proposes, votes yes itself   *)
(* and counts the votes of a committee until a threshold or a timeout.     *)
(*                                                                         *)
(* Any node may run rounds at any time: the block worker and the two REST  *)
(* endpoints do not exclude each other, neither on one node nor between    *)
(* nodes.  A node has ONE current round per layer: a second run replaces   *)
(* it, and the end of any run clears it.                                   *)
(*                                                                         *)
(* Messages may be delayed for ever, so also lost; each is delivered at    *)
(* most once (the event id is remembered).  A message that its handler     *)
(* ignores is one that stays on its way: such deliveries are not steps.    *)
(* The announcement of a confirmed block to the peers is in                *)
(* ConfirmBoundary, not here.                                              *)
(***************************************************************************)
EXTENDS NodeRegistry, Sequences

CONSTANTS
    Nodes,          \* the connected nodes
    Runners,        \* the nodes that run rounds
    Txs,            \* transactions
    Selections,     \* bound: what Core may select for a block
    Doubters,       \* bound: the nodes whose Core may find a proposal invalid
    MaxRuns,        \* bound: number of rounds
    Serial,         \* a node runs one round at a time
    CoreSizes,      \* committee sizes that Core may answer, 0 if its call fails
    CoreMayFail,    \* Core may fail to count the votes
    AllowDegraded,  \* PLATARIUM_ALLOW_DEGRADED_CONSENSUS
    Testnet         \* Handler.testnet

ASSUME RoundsAssumption ==
    /\ IsFiniteSet(Nodes) /\ Runners \subseteq Nodes /\ Doubters \subseteq Nodes
    /\ Selections \subseteq (SUBSET Txs) \ {{}}
    /\ MaxRuns \in Nat /\ CoreSizes \subseteq Nat
    /\ {Serial, CoreMayFail, AllowDegraded, Testnet} \subseteq BOOLEAN

VARIABLES
    mempool,    \* per node: the mempool
    pending,    \* per node: the pending block
    chain,      \* per node: the confirmed blocks
    run,        \* the rounds started so far
    current,    \* per layer and node: l1VoteRound, l2VoteRound (0: nil)
    votedIds,   \* per node: l1VotedIds and l2VotedIds
    fetched,    \* votes whose handler has read the current round
    net,        \* messages on their way
    registry,   \* per node: its table of scores
    slashed     \* history: who was slashed for which block by whom

roundVars == <<mempool, pending, chain, run, current, votedIds,
               fetched, net, registry, slashed>>

Layers == {"L1", "L2"}
Runs == 1 .. Len(run)
Others(n) == Nodes \ {n}
Yes(r) == {m \in r.committee : r.votes[m] = "yes"}
Voters(r) == {m \in r.committee : r.votes[m] # "none"}
Quota(pct, n) == (n * pct + 99) \div 100

-----------------------------------------------------------------------------
(* Starting a round. *)

\* computeVoteBlockID: the next height and the state root are those of the
\* chain, the hashes are sorted.
computeVoteBlockID(layer, n, txs) == [layer |-> layer, on |-> chain[n], txs |-> txs]

\* The committee: Core's size if it answers, else the fallback from the
\* load; the proposer and that many others, less one.
FallbackSize(n) ==
    LET share == (Cardinality(Nodes) * SelectionPercentFromLoad(networkLoadPct(registry[n], Nodes))) \div 100
        atLeast == IF Cardinality(Nodes) >= 3 /\ share < 3 THEN 3
                   ELSE IF share < 1 THEN 1 ELSE share
    IN  IF atLeast > Cardinality(Nodes) THEN Cardinality(Nodes) ELSE atLeast

Seated(n, others) == {n} \cup others

Committees(n) ==
    {Seated(n, s) : s \in UNION
        {IF k = 0 THEN SelectCommittee(registry[n], Others(n), FallbackSize(n) - 1)
                  ELSE {t \in SUBSET Others(n) : Cardinality(t) = k - 1} : k \in CoreSizes}}

\* The round is installed, proposal and own vote are broadcast; alone in its
\* committee the proposer closes the round at once.
OpenRound(layer, n, selected, txs) ==
    \E committee \in Committees(n) :
        LET id == computeVoteBlockID(layer, n, txs)
        IN  /\ run' = Append(run,
                [layer |-> layer, node |-> n, id |-> id, selected |-> selected,
                 committee |-> committee,
                 votes |-> [m \in Nodes |-> IF m = n THEN "yes" ELSE "none"],
                 phase |-> IF committee = {n} THEN "closed" ELSE "open",
                 outcome |-> "none"])
            /\ current' = [current EXCEPT ![layer][n] = Len(run) + 1]
            /\ net' = net
                \cup {[type |-> "proposal", to |-> m, from |-> n, id |-> id] : m \in Others(n)}
                \cup {[type |-> "vote", to |-> m, from |-> n, id |-> id, yes |-> TRUE] : m \in Others(n) \cap Runners}

MayStart(n) ==
    /\ n \in Runners
    /\ Len(run) < MaxRuns
    /\ Serial => \A r \in Runs : run[r].node = n => run[r].phase = "done"

\* pruneMempoolBeforeL1
Pruned(n) == mempool[n] \ (pending[n] \cup UNION {chain[n][i] : i \in DOMAIN chain[n]})

\* The set proposed after Core refused the selection and some of it was
\* dropped: what it called valid or, if that is nothing, a new selection.
Retries(n, selected, dropped) ==
    ((SUBSET (selected \ dropped)) \ {{}})
        \cup {s \in Selections : s \subseteq Pruned(n) \ dropped}

\* l1CollectBlockRun up to the wait.  The retry changes what is voted on;
\* the selection kept for the end of the run stays the first one.
l1CollectBlockRun(n) ==
    /\ MayStart(n)
    /\ \E selected \in {s \in Selections : s \subseteq Pruned(n)} :
        \/ /\ mempool' = [mempool EXCEPT ![n] = Pruned(n)]
           /\ OpenRound("L1", n, selected, selected)
        \/ \E dropped \in SUBSET selected : \E retry \in Retries(n, selected, dropped) :
            /\ mempool' = [mempool EXCEPT ![n] = Pruned(n) \ dropped]
            /\ OpenRound("L1", n, selected, retry)
        \/ \E dropped \in SUBSET selected : \E retry \in {{}} \cup Retries(n, selected, dropped) :
            /\ \E more \in SUBSET retry :
                mempool' = [mempool EXCEPT ![n] = Pruned(n) \ (dropped \cup more)]
            /\ UNCHANGED <<run, current, net>>
    /\ UNCHANGED <<pending, chain, votedIds, fetched, registry, slashed>>

\* l2ConfirmBlockRun up to the wait.
l2ConfirmBlockRun(n) ==
    /\ MayStart(n)
    /\ pending[n] # {}
    /\ OpenRound("L2", n, pending[n], pending[n])
    /\ UNCHANGED <<mempool, pending, chain, votedIds, fetched, registry, slashed>>

-----------------------------------------------------------------------------
(* Voting on the proposal of another node. *)

Receive(type, layer, n, msg) ==
    /\ msg \in net /\ msg.to = n /\ msg.type = type /\ msg.id.layer = layer

\* The vote is signed and broadcast.  Only the nodes that run rounds look at
\* votes.
BroadcastVote(n, id, yes) ==
    net' = net \cup {[type |-> "vote", to |-> m, from |-> n, id |-> id, yes |-> yes] :
                        m \in Others(n) \cap Runners}

\* What Core may say of the transactions at a node.
Judgements(n) == IF n \in Doubters THEN BOOLEAN ELSE {TRUE}

\* submitL1Vote: yes if GetMempoolTxsByHashes finds every hash and Core
\* finds them valid.
submitL1Vote(n, id) == \E valid \in Judgements(n) :
    BroadcastVote(n, id, valid /\ id.txs \subseteq mempool[n])

\* submitL2Vote: yes if PendingBlockMatchesHashes and Core finds them valid.
submitL2Vote(n, id) == \E valid \in Judgements(n) :
    BroadcastVote(n, id, valid /\ id.txs = pending[n])

\* Mutant of FirstVote: the ids already voted on are not looked up.
FirstVoteUnchecked(n, id) == TRUE
FirstVote(n, id) == id \notin votedIds[n]

\* onL1Proposal, onL2Proposal: one vote per block id.  The vote is decided
\* in a goroutine; one that is slow is a proposal that arrived late.
onL1Proposal(n) ==
    \E msg \in net :
        /\ Receive("proposal", "L1", n, msg)
        /\ FirstVote(n, msg.id)
        /\ votedIds' = [votedIds EXCEPT ![n] = @ \cup {msg.id}]
        /\ submitL1Vote(n, msg.id)
        /\ UNCHANGED <<mempool, pending, chain, run, current, fetched, registry, slashed>>

onL2Proposal(n) ==
    \E msg \in net :
        /\ Receive("proposal", "L2", n, msg)
        /\ FirstVote(n, msg.id)
        /\ votedIds' = [votedIds EXCEPT ![n] = @ \cup {msg.id}]
        /\ submitL2Vote(n, msg.id)
        /\ UNCHANGED <<mempool, pending, chain, run, current, fetched, registry, slashed>>

-----------------------------------------------------------------------------
(* Counting votes at the node that runs the round. *)

\* onL1Vote, onL2Vote, first half: the handler reads the current round.
FetchRound(layer, n) ==
    \E msg \in net :
        /\ Receive("vote", layer, n, msg)
        /\ net' = net \ {msg}
        /\ LET r == current[layer][n]
           IN  /\ r # 0
               /\ run[r].id = msg.id
               /\ msg.from \in run[r].committee
               /\ fetched' = fetched \cup {[run |-> r, from |-> msg.from, yes |-> msg.yes]}
        /\ UNCHANGED <<mempool, pending, chain, run, current, votedIds, registry, slashed>>

TakesVotes(r) == r.phase = "open"

\* Second half, under the lock of that round: a closed round takes no vote,
\* a second vote is not counted and, if it differs, is slashed.
CountVote(v, pct) ==
    LET r == run[v.run]
        vote == IF v.yes THEN "yes" ELSE "no"
        counted == [r EXCEPT !.votes[v.from] = vote]
        need == Quota(pct, Cardinality(r.committee))
    IN  /\ fetched' = fetched \ {v}
        /\ CASE ~TakesVotes(r) -> UNCHANGED <<run, registry, slashed>>
             [] TakesVotes(r) /\ r.votes[v.from] \notin {"none", vote} ->
                /\ registry' = [registry EXCEPT ![r.node][v.from] = ApplySlash(@, "Equivocation")]
                /\ slashed' = slashed \cup {[by |-> r.node, node |-> v.from, id |-> r.id]}
                /\ UNCHANGED run
             [] TakesVotes(r) /\ r.votes[v.from] = vote ->
                UNCHANGED <<run, registry, slashed>>
             [] OTHER ->
                /\ run' = [run EXCEPT ![v.run] =
                        IF Cardinality(Yes(counted)) >= need
                        THEN [counted EXCEPT !.phase = "closed"] ELSE counted]
                /\ UNCHANGED <<registry, slashed>>
        /\ UNCHANGED <<mempool, pending, chain, current, votedIds, net>>

onL1Vote(n) ==
    \/ FetchRound("L1", n)
    \/ \E v \in fetched : run[v.run].layer = "L1" /\ run[v.run].node = n /\ CountVote(v, 67)

onL2Vote(n) ==
    \/ FetchRound("L2", n)
    \/ \E v \in fetched : run[v.run].layer = "L2" /\ run[v.run].node = n /\ CountVote(v, 70)

\* Mutant of TimerCloses: a round nobody else voted in is left open.
TimerClosesVoted(r) == r.phase = "open" /\ Voters(r) # {r.node}
TimerCloses(r) == r.phase = "open"

\* The timer goroutine of a round (voteRoundTimeout).
RoundTimeout(r) ==
    /\ TimerCloses(run[r])
    /\ run' = [run EXCEPT ![r].phase = "closed"]
    /\ UNCHANGED <<mempool, pending, chain, current, votedIds, fetched,
                   net, registry, slashed>>

-----------------------------------------------------------------------------
(* The end of a round. *)

\* Core counts the votes it is given (external); it never confirms below
\* the threshold.
ProcessVotes(r, pct) ==
    {"rejected"}
        \cup (IF Cardinality(Yes(r)) * 100 >= Cardinality(Voters(r)) * pct THEN {"confirmed"} ELSE {})
        \cup (IF CoreMayFail THEN {"failed"} ELSE {})

\* finalizeVoteRoundWithCore and maybeDegradedAccept, and what testnet adds.
Degraded(r) == Cardinality(r.committee) > 1 /\ Voters(r) = {r.node}

maybeDegradedAccept(r, core) == core = "rejected" /\ AllowDegraded /\ Degraded(r)
Accepts(r, core) ==
    \/ core = "confirmed"
    \/ maybeDegradedAccept(r, core)
    \/ Testnet /\ Degraded(r)

\* updateVoteStatsFromRound
updateVoteStatsFromRound(table, r, accepted) ==
    [m \in Nodes |->
        IF m \notin r.committee THEN table[m]
        ELSE LET wrong == r.votes[m] # (IF accepted THEN "yes" ELSE "no")
             IN  SetVoteStats(table[m], table[m].missed + (IF wrong THEN 1 ELSE 0), table[m].total + 1)]

\* Core's to_penalize list (external): those who voted against its result.
\* The gateway forgets the list when it accepts what Core rejected.
ToPenalize(r, core, accepted) ==
    CASE core = "confirmed" -> Voters(r) \ Yes(r)
      [] core = "rejected" /\ ~accepted -> Yes(r)
      [] OTHER -> {}

\* applyVoteSlashing: Core's list, and every committee member without a vote.
applyVoteSlashing(table, r, toPenalize) ==
    ApplySlashBatch(ApplySlashBatch(table, toPenalize, "AgainstMajority"),
                    r.committee \ Voters(r), "NoVote")

\* What both layers do: decide, clear the current round, judge the voters.
Finalize(r, pct, accepted) ==
    /\ run[r].phase = "closed"
    /\ \E core \in ProcessVotes(run[r], pct) :
        /\ accepted = Accepts(run[r], core)
        /\ registry' = [registry EXCEPT ![run[r].node] =
                applyVoteSlashing(updateVoteStatsFromRound(@, run[r], accepted),
                                  run[r], ToPenalize(run[r], core, accepted))]
        /\ run' = [run EXCEPT ![r].phase = "done",
                ![r].outcome = IF ~accepted THEN "rejected"
                               ELSE IF core = "failed" THEN "unbacked" ELSE "accepted"]
    /\ current' = [current EXCEPT ![run[r].layer][run[r].node] = 0]
    /\ UNCHANGED <<votedIds, fetched, slashed>>

\* The rest of l1CollectBlockRun: L1CollectSelected moves the selection from
\* the mempool into the pending block, which it replaces, and the peers are
\* told.
EndL1(r) ==
    LET n == run[r].node
        moved == run[r].selected \cap mempool[n]
    IN  /\ run[r].layer = "L1"
        /\ \/ Finalize(r, 67, FALSE) /\ UNCHANGED <<mempool, pending, net>>
           \/ /\ Finalize(r, 67, TRUE)
              /\ mempool' = [mempool EXCEPT ![n] = @ \ moved]
              /\ pending' = [pending EXCEPT ![n] = moved]
              /\ net' = net \cup {[type |-> "collected", to |-> m, from |-> n, txs |-> moved] : m \in Others(n)}
        /\ UNCHANGED chain

\* AbandonPendingBlock: the pending block goes back, less what is dropped.
AbandonPendingBlock(n, dropped) ==
    /\ mempool' = [mempool EXCEPT ![n] = @ \cup (pending[n] \ dropped)]
    /\ pending' = [pending EXCEPT ![n] = {}]

\* The rest of l2ConfirmBlockRun: L2ConfirmBlock confirms the pending block
\* there is NOW (an empty one without asking Core).  If Core does not apply
\* it, or the block worker sees the round rejected, it is abandoned.  A write
\* that fails later puts it back; if the pending block changed while Core
\* applied it, whatever is pending is cleared.
EndL2(r) ==
    LET n == run[r].node
    IN  /\ run[r].layer = "L2"
        /\ \/ Finalize(r, 70, FALSE) /\ UNCHANGED <<mempool, pending, chain>>
           \/ Finalize(r, 70, FALSE) /\ AbandonPendingBlock(n, {}) /\ UNCHANGED chain
           \/ /\ Finalize(r, 70, TRUE)
              /\ chain' = [chain EXCEPT ![n] = Append(@, pending[n])]
              /\ pending' = [pending EXCEPT ![n] = {}]
              /\ UNCHANGED mempool
           \/ /\ Finalize(r, 70, TRUE)
              /\ pending[n] # {}
              /\ AbandonPendingBlock(n, {})
              /\ UNCHANGED chain
           \/ /\ Finalize(r, 70, TRUE)
              /\ pending' \in {pending, [pending EXCEPT ![n] = {}]}
              /\ UNCHANGED <<mempool, chain>>
        /\ UNCHANGED net

\* autoBlockConfirmPending, when Core finds part of the pending block invalid.
autoBlockConfirmPending(n) ==
    /\ MayStart(n)
    /\ \E dropped \in (SUBSET pending[n]) \ {{}} : AbandonPendingBlock(n, dropped)
    /\ UNCHANGED <<chain, run, current, votedIds, fetched, net, registry, slashed>>

\* onPendingBlockSync: the block a peer collected replaces the pending one.
onPendingBlockSync(n) ==
    \E msg \in net :
        /\ msg.type = "collected" /\ msg.to = n
        /\ net' = net \ {msg}
        /\ msg.txs # {}
        /\ pending' = [pending EXCEPT ![n] = msg.txs]
        /\ mempool' = [mempool EXCEPT ![n] = @ \ msg.txs]
        /\ UNCHANGED <<chain, run, current, votedIds, fetched, registry, slashed>>

-----------------------------------------------------------------------------

RoundsInit ==
    /\ mempool = [n \in Nodes |-> Txs]
    /\ pending = [n \in Nodes |-> {}]
    /\ chain = [n \in Nodes |-> <<>>]
    /\ run = <<>>
    /\ current = [l \in Layers |-> [n \in Nodes |-> 0]]
    /\ votedIds = [n \in Nodes |-> {}]
    /\ fetched = {} /\ net = {}
    /\ registry = [n \in Nodes |-> [m \in Nodes |-> EnsureNode]]
    /\ slashed = {}

RoundsNext ==
    \/ \E n \in Nodes :
        \/ l1CollectBlockRun(n) \/ l2ConfirmBlockRun(n)
        \/ onL1Proposal(n) \/ onL2Proposal(n)
        \/ onL1Vote(n) \/ onL2Vote(n)
        \/ onPendingBlockSync(n) \/ autoBlockConfirmPending(n)
    \/ \E r \in Runs : RoundTimeout(r) \/ EndL1(r) \/ EndL2(r)

\* The timer of a round fires and the handler that waits for it runs on;
\* nothing is assumed of the network or of the other nodes.
RoundsFairness ==
    \A r \in 1 .. MaxRuns :
        WF_roundVars(r \in Runs /\ (RoundTimeout(r) \/ EndL1(r) \/ EndL2(r)))

RoundsSpec == RoundsInit /\ [][RoundsNext]_roundVars /\ RoundsFairness

-----------------------------------------------------------------------------
(* Properties. *)

\* Type invariant: what the nodes hold, and a node judges only itself and
\* its peers.
RoundsTypeOK ==
    /\ \A n \in Nodes : mempool[n] \subseteq Txs /\ pending[n] \subseteq Txs
    /\ chain \in [Nodes -> Seq(SUBSET Txs)]
    /\ \A r \in Runs : run[r].node \in run[r].committee /\ run[r].phase \in {"open", "closed", "done"}
    /\ current \in [Layers -> [Nodes -> 0 .. MaxRuns]]
    /\ \A v \in fetched : v.run \in Runs /\ v.from \in run[v.run].committee

\* A node is slashed for equivocation only if it proposed the block itself
\* while another node proposed the same one: voting on proposals alone never
\* gets an honest node slashed, whatever the order in which proposals and
\* votes arrive.
OnlyRivalsSlashed ==
    \A s \in slashed : \E r \in Runs : run[r].node = s.node /\ run[r].id = s.id

\* A block is confirmed by an L2 round only if it is the block that the
\* committee of that round voted on (l2ConfirmBlockRun: 70% yes, then
\* pending goes to the chain).
ConfirmedWasVoted ==
    \A n \in Nodes : \A i \in DOMAIN chain[n] :
        \E r \in Runs : /\ run[r].node = n /\ run[r].layer = "L2"
                        /\ run[r].outcome = "accepted" /\ run[r].id.txs = chain[n][i]

\* Every round ends, whatever happens to the messages: a round that was started
\* stays in run, so again and again it is not there yet or it is done.
RoundEnds == \A r \in 1 .. MaxRuns : []<>(r \in Runs => run[r].phase = "done")

=============================================================================
