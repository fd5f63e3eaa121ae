--------------------------- MODULE VoteRoundProofs ---------------------------
(***************************************************************************)
(* Proofs about the votes on blocks, for any number of nodes, transactions *)
(* and rounds.                                                             *)
(***************************************************************************)
EXTENDS VoteRounds, TLAPS

-----------------------------------------------------------------------------
(* Vote rounds: types. *)

BlockIds == [layer : Layers, on : Seq(SUBSET Txs), txs : SUBSET Txs]
Words == {"yes", "no"}
Rounds == [layer : Layers, node : Nodes, id : BlockIds, selected : SUBSET Txs,
           committee : SUBSET Nodes, votes : [Nodes -> {"none"} \cup Words],
           phase : {"open", "closed", "done"},
           outcome : {"none", "rejected", "unbacked", "accepted"}]
VoteMsgs == [type : {"vote"}, to : Nodes, from : Nodes, id : BlockIds, yes : BOOLEAN]
OtherMsgs == [type : {"proposal"}, to : Nodes, from : Nodes, id : BlockIds]
                \cup [type : {"collected"}, to : Nodes, from : Nodes, txs : SUBSET Txs]

PoolTypes ==
    /\ mempool \in [Nodes -> SUBSET Txs] /\ pending \in [Nodes -> SUBSET Txs]
    /\ chain \in [Nodes -> Seq(SUBSET Txs)]

VoteTypes ==
    /\ run \in Seq(Rounds) /\ Len(run) <= MaxRuns
    /\ \A r \in Runs : run[r].node \in run[r].committee
    /\ current \in [Layers -> [Nodes -> 0 .. Len(run)]]
    /\ votedIds \in [Nodes -> SUBSET BlockIds]
    /\ fetched \subseteq [run : Runs, from : Nodes, yes : BOOLEAN]
    /\ \A v \in fetched : v.from \in run[v.run].committee
    /\ net \subseteq VoteMsgs \cup OtherMsgs

-----------------------------------------------------------------------------
(* A node says one word on a block that it did not propose: every vote of   *)
(* it that is on its way, in a handler or counted is that word.             *)

WordOf(yes) == IF yes THEN "yes" ELSE "no"
Sent(m, id, w) == \E msg \in net : msg.type = "vote" /\ msg.from = m /\ msg.id = id /\ WordOf(msg.yes) = w
InHand(m, id, w) == \E v \in fetched : v.from = m /\ run[v.run].id = id /\ WordOf(v.yes) = w
CountedAs(m, id, w) == \E r \in Runs : run[r].id = id /\ run[r].votes[m] = w
Says(m, id, w) == Sent(m, id, w) \/ InHand(m, id, w) \/ CountedAs(m, id, w)
Proposed(m, id) == \E r \in Runs : run[r].node = m /\ run[r].id = id

OneWord ==
    \A m \in Nodes : \A id \in BlockIds : ~Proposed(m, id) =>
        /\ ~(Says(m, id, "yes") /\ Says(m, id, "no"))
        /\ \A w \in Words : Says(m, id, w) => id \in votedIds[m]

VoteInv == VoteTypes /\ OneWord /\ OnlyRivalsSlashed

\* A step after which a node says nothing new, unless it is the proposer.
LEMMA NothingNew ==
    ASSUME OneWord,
           \A m \in Nodes : votedIds[m] \subseteq votedIds'[m],
           \A m \in Nodes : \A id \in BlockIds : Proposed(m, id) => Proposed(m, id)',
           \A m \in Nodes : \A id \in BlockIds : \A w \in Words :
                Says(m, id, w)' => Says(m, id, w) \/ Proposed(m, id)'
    PROVE  OneWord'
<1> SUFFICES ASSUME NEW m \in Nodes, NEW id \in BlockIds, ~Proposed(m, id)'
             PROVE  /\ ~(Says(m, id, "yes")' /\ Says(m, id, "no")')
                    /\ \A w \in Words : Says(m, id, w)' => id \in votedIds'[m]
    BY DEF OneWord
<1>1. /\ ~(Says(m, id, "yes") /\ Says(m, id, "no"))
      /\ \A w \in Words : Says(m, id, w) => id \in votedIds[m]
    BY DEF OneWord
<1>2. \A w \in Words : Says(m, id, w)' => Says(m, id, w)
    OBVIOUS
<1> QED
    BY <1>1, <1>2 DEF Words

\* A first vote is the word of its node.
LEMMA FirstWord ==
    ASSUME OneWord, NEW n \in Nodes, NEW i \in BlockIds, NEW said \in Words,
           i \notin votedIds[n], i \in votedIds'[n],
           \A m \in Nodes : votedIds[m] \subseteq votedIds'[m],
           \A m \in Nodes : \A id \in BlockIds : Proposed(m, id)' <=> Proposed(m, id),
           \A m \in Nodes : \A id \in BlockIds : \A w \in Words :
                Says(m, id, w)' => Says(m, id, w) \/ (m = n /\ id = i /\ w = said)
    PROVE  OneWord'
<1> SUFFICES ASSUME NEW m \in Nodes, NEW id \in BlockIds, ~Proposed(m, id)'
             PROVE  /\ ~(Says(m, id, "yes")' /\ Says(m, id, "no")')
                    /\ \A w \in Words : Says(m, id, w)' => id \in votedIds'[m]
    BY DEF OneWord
<1>1. /\ ~(Says(m, id, "yes") /\ Says(m, id, "no"))
      /\ \A w \in Words : Says(m, id, w) => id \in votedIds[m]
    BY DEF OneWord
<1>2. CASE m = n /\ id = i
    <2>1. \A w \in Words : ~Says(m, id, w)
        BY <1>1, <1>2
    <2>2. \A w \in Words : Says(m, id, w)' => w = said
        BY <2>1
    <2> QED
        BY <1>2, <2>2 DEF Words
<1>3. CASE ~(m = n /\ id = i)
    BY <1>1, <1>3 DEF Words
<1> QED
    BY <1>2, <1>3

\* A step that keeps the ids, proposers, committees and votes of the rounds, and
\* adds no vote to the network.
LEMMA CalmKeeps ==
    ASSUME VoteInv, run' \in Seq(Rounds), Len(run') = Len(run),
           \A r \in Runs : /\ run'[r].id = run[r].id /\ run'[r].node = run[r].node
                           /\ run'[r].committee = run[r].committee /\ run'[r].votes = run[r].votes,
           current' \in [Layers -> [Nodes -> 0 .. Len(run)]],
           votedIds' = votedIds, fetched' = fetched, slashed' = slashed,
           net' \subseteq VoteMsgs \cup OtherMsgs,
           \A msg \in net' : msg.type = "vote" => msg \in net
    PROVE  VoteInv'
<1>1. Runs' = Runs
    BY DEF Runs
<1>2. VoteTypes'
    <2>1. \A v \in fetched : v.run \in Runs /\ v.from \in run'[v.run].committee
        BY DEF VoteInv, VoteTypes
    <2> QED
        BY <1>1, <2>1 DEF VoteInv, VoteTypes
<1>3. \A m \in Nodes : \A id \in BlockIds : Proposed(m, id) => Proposed(m, id)'
    BY <1>1 DEF Proposed
<1>4. ASSUME NEW m \in Nodes, NEW id \in BlockIds, NEW w \in Words, Says(m, id, w)'
      PROVE  Says(m, id, w)
    <2>1. Sent(m, id, w)' => Sent(m, id, w)
        BY DEF Sent
    <2>2. InHand(m, id, w)' => InHand(m, id, w)
        BY DEF InHand, VoteInv, VoteTypes
    <2>3. CountedAs(m, id, w)' => CountedAs(m, id, w)
        BY <1>1 DEF CountedAs
    <2> QED
        BY <1>4, <2>1, <2>2, <2>3 DEF Says
<1>5. OneWord'
    BY <1>3, <1>4, NothingNew DEF VoteInv
<1>6. OnlyRivalsSlashed'
    BY <1>1 DEF VoteInv, OnlyRivalsSlashed
<1> QED
    BY <1>2, <1>5, <1>6 DEF VoteInv

\* Voting on a proposal: the id is noted, and the vote is the first on it.
LEMMA ProposalKeeps ==
    ASSUME VoteInv, NEW n \in Nodes, onL1Proposal(n) \/ onL2Proposal(n)
    PROVE  VoteInv'
<1>1. PICK msg \in net :
        /\ msg.type = "proposal" /\ msg.id \notin votedIds[n]
        /\ votedIds' = [votedIds EXCEPT ![n] = @ \cup {msg.id}]
        /\ submitL1Vote(n, msg.id) \/ submitL2Vote(n, msg.id)
        /\ UNCHANGED <<run, current, fetched, slashed>>
    BY DEF onL1Proposal, onL2Proposal, Receive, FirstVote
<1>2. PICK yes \in BOOLEAN : BroadcastVote(n, msg.id, yes)
    BY <1>1 DEF submitL1Vote, submitL2Vote, Judgements
<1>3. PICK id0 : id0 = msg.id
    OBVIOUS
<1>4. id0 \in BlockIds
    BY <1>1, <1>3 DEF VoteInv, VoteTypes, VoteMsgs, OtherMsgs
<1>5. /\ id0 \notin votedIds[n] /\ id0 \in votedIds'[n] /\ votedIds' \in [Nodes -> SUBSET BlockIds]
      /\ \A m \in Nodes : votedIds[m] \subseteq votedIds'[m]
    BY <1>1, <1>3, <1>4 DEF VoteInv, VoteTypes
<1>6. PICK posted : /\ posted = {[type |-> "vote", to |-> m, from |-> n, id |-> id0, yes |-> yes] :
                                    m \in Others(n) \cap Runners}
                    /\ net' = net \cup posted
    BY <1>2, <1>3 DEF BroadcastVote
<1>7. posted \subseteq VoteMsgs /\ \A p \in posted : p.from = n /\ p.id = id0 /\ p.yes = yes
    BY <1>4, <1>6 DEF VoteMsgs, Others
<1>8. VoteTypes'
    BY <1>1, <1>5, <1>6, <1>7 DEF VoteInv, VoteTypes, Runs
<1>9. PICK said : said = WordOf(yes) /\ said \in Words
    BY DEF WordOf, Words
<1>10. \A m \in Nodes : \A id \in BlockIds : Proposed(m, id)' <=> Proposed(m, id)
    BY <1>1 DEF Proposed, Runs
<1>11. ASSUME NEW m \in Nodes, NEW id \in BlockIds, NEW w \in Words, Says(m, id, w)'
       PROVE  Says(m, id, w) \/ (m = n /\ id = id0 /\ w = said)
    <2>1. InHand(m, id, w)' => InHand(m, id, w)
        BY <1>1 DEF InHand
    <2>2. CountedAs(m, id, w)' => CountedAs(m, id, w)
        BY <1>1 DEF CountedAs, Runs
    <2>3. Sent(m, id, w)' => Sent(m, id, w) \/ (m = n /\ id = id0 /\ w = said)
        <3> SUFFICES ASSUME Sent(m, id, w)' PROVE Sent(m, id, w) \/ (m = n /\ id = id0 /\ w = said)
            OBVIOUS
        <3>1. PICK p \in net' : p.type = "vote" /\ p.from = m /\ p.id = id /\ WordOf(p.yes) = w
            BY DEF Sent
        <3>2. CASE p \in net
            BY <3>1, <3>2 DEF Sent
        <3>3. CASE p \in posted
            BY <1>7, <1>9, <3>1, <3>3
        <3> QED
            BY <1>6, <3>2, <3>3
    <2> QED
        BY <1>11, <2>1, <2>2, <2>3 DEF Says
<1>12. OneWord'
    BY <1>4, <1>5, <1>9, <1>10, <1>11, FirstWord DEF VoteInv
<1>13. OnlyRivalsSlashed'
    BY <1>1 DEF VoteInv, OnlyRivalsSlashed, Runs
<1> QED
    BY <1>8, <1>12, <1>13 DEF VoteInv

\* A vote goes from the network to a handler that has its round.
LEMMA FetchKeeps ==
    ASSUME VoteInv, NEW n \in Nodes, NEW layer \in Layers, FetchRound(layer, n)
    PROVE  VoteInv'
<1>1. PICK msg \in net :
        /\ msg.type = "vote" /\ net' = net \ {msg}
        /\ current[layer][n] # 0 /\ run[current[layer][n]].id = msg.id
        /\ msg.from \in run[current[layer][n]].committee
        /\ fetched' = fetched \cup {[run |-> current[layer][n], from |-> msg.from, yes |-> msg.yes]}
        /\ UNCHANGED <<run, current, votedIds, slashed>>
    BY DEF FetchRound, Receive
<1>2. PICK v : v = [run |-> current[layer][n], from |-> msg.from, yes |-> msg.yes]
    OBVIOUS
<1>3. msg \in VoteMsgs
    BY <1>1 DEF VoteInv, VoteTypes, VoteMsgs, OtherMsgs
<1>4. current[layer][n] \in Runs
    <2>1. current \in [Layers -> [Nodes -> 0 .. Len(run)]]
        BY DEF VoteInv, VoteTypes
    <2> QED
        BY <2>1, <1>1 DEF Runs
<1>5. /\ v \in [run : Runs, from : Nodes, yes : BOOLEAN] /\ v.from \in run[v.run].committee
      /\ v.from = msg.from /\ run[v.run].id = msg.id /\ v.yes = msg.yes
    BY <1>1, <1>2, <1>3, <1>4 DEF VoteMsgs
<1>6. fetched' = fetched \cup {v}
    BY <1>1, <1>2
<1>7. VoteTypes'
    BY <1>1, <1>5, <1>6 DEF VoteInv, VoteTypes, Runs
<1>8. ASSUME NEW m \in Nodes, NEW id \in BlockIds, NEW w \in Words, Says(m, id, w)'
      PROVE  Says(m, id, w)
    <2>1. Sent(m, id, w)' => Sent(m, id, w)
        BY <1>1 DEF Sent
    <2>2. CountedAs(m, id, w)' => CountedAs(m, id, w)
        BY <1>1 DEF CountedAs, Runs
    <2>3. InHand(m, id, w)' => InHand(m, id, w) \/ Sent(m, id, w)
        <3> SUFFICES ASSUME InHand(m, id, w)' PROVE InHand(m, id, w) \/ Sent(m, id, w)
            OBVIOUS
        <3>1. PICK f \in fetched' : f.from = m /\ run'[f.run].id = id /\ WordOf(f.yes) = w
            BY DEF InHand
        <3>2. CASE f \in fetched
            BY <1>1, <3>1, <3>2 DEF InHand
        <3>3. CASE f = v
            BY <1>1, <1>5, <3>1, <3>3 DEF Sent
        <3> QED
            BY <1>6, <3>2, <3>3
    <2> QED
        BY <1>8, <2>1, <2>2, <2>3 DEF Says
<1>9. \A m \in Nodes : \A id \in BlockIds : Proposed(m, id) => Proposed(m, id)'
    BY <1>1 DEF Proposed, Runs
<1>10. OneWord'
    BY <1>1, <1>8, <1>9, NothingNew DEF VoteInv
<1>11. OnlyRivalsSlashed'
    BY <1>1 DEF VoteInv, OnlyRivalsSlashed, Runs
<1> QED
    BY <1>7, <1>10, <1>11 DEF VoteInv

\* A vote is counted, ignored, or found to contradict the one counted before:
\* then its node has said both words.
LEMMA CountKeeps ==
    ASSUME VoteInv, NEW v \in fetched, NEW pct, CountVote(v, pct)
    PROVE  VoteInv'
<1>1. PICK r, vote : r = run[v.run] /\ vote = IF v.yes THEN "yes" ELSE "no"
    OBVIOUS
<1>2. /\ v.run \in Runs /\ v.from \in Nodes /\ r \in Rounds /\ v.from \in r.committee
      /\ run \in Seq(Rounds) /\ r.votes \in [Nodes -> {"none"} \cup Words]
    <2>1. v \in [run : Runs, from : Nodes, yes : BOOLEAN] /\ run \in Seq(Rounds) /\ v.from \in run[v.run].committee
        BY DEF VoteInv, VoteTypes
    <2>2. v.run \in Runs /\ v.from \in Nodes
        BY <2>1
    <2>3. r \in Rounds
        BY <1>1, <2>1, <2>2 DEF Runs
    <2>4. r.votes \in [Nodes -> {"none"} \cup Words]
        BY <2>3 DEF Rounds
    <2> QED
        BY <1>1, <2>1, <2>2, <2>3, <2>4
<1>3. vote \in Words /\ vote = WordOf(v.yes)
    BY <1>1 DEF Words, WordOf
<1>4. fetched' = fetched \ {v} /\ UNCHANGED <<current, votedIds, net>>
    BY DEF CountVote
<1>5. CASE run' = run
    <2>1. VoteTypes'
        BY <1>4, <1>5 DEF VoteInv, VoteTypes, Runs
    <2>2. \A m \in Nodes : \A id \in BlockIds : Proposed(m, id) => Proposed(m, id)'
        BY <1>5 DEF Proposed, Runs
    <2>3. ASSUME NEW m \in Nodes, NEW id \in BlockIds, NEW w \in Words, Says(m, id, w)'
          PROVE  Says(m, id, w)
        BY <1>4, <1>5, <2>3 DEF Says, Sent, InHand, CountedAs, Runs
    <2>4. OneWord'
        BY <1>4, <2>2, <2>3, NothingNew DEF VoteInv
    <2>5. OnlyRivalsSlashed'
        <3>1. CASE slashed' = slashed
            BY <1>5, <3>1 DEF VoteInv, OnlyRivalsSlashed, Runs
        <3>2. CASE /\ r.votes[v.from] \notin {"none", vote}
                   /\ slashed' = slashed \cup {[by |-> r.node, node |-> v.from, id |-> r.id]}
            <4>1. PICK other \in Words : other = r.votes[v.from] /\ other # vote
                BY <1>2, <3>2
            <4>2. CountedAs(v.from, r.id, other)
                BY <1>1, <1>2, <4>1 DEF CountedAs
            <4>3. InHand(v.from, r.id, vote)
                BY <1>1, <1>3 DEF InHand
            <4>4. r.id \in BlockIds
                BY <1>2 DEF Rounds
            <4>5. Says(v.from, r.id, "yes") /\ Says(v.from, r.id, "no")
                BY <1>3, <4>1, <4>2, <4>3 DEF Says, Words
            <4>6. Proposed(v.from, r.id)
                BY <1>2, <4>4, <4>5 DEF VoteInv, OneWord
            <4>7. ASSUME NEW s \in slashed' PROVE \E q \in Runs : run[q].node = s.node /\ run[q].id = s.id
                BY <3>2, <4>6, <4>7 DEF Proposed, VoteInv, OnlyRivalsSlashed
            <4> QED
                BY <1>5, <4>7 DEF OnlyRivalsSlashed, Runs
        <3> QED
            BY <1>1, <3>1, <3>2 DEF CountVote
    <2> QED
        BY <2>1, <2>4, <2>5 DEF VoteInv
<1>6. CASE run' # run
    <2>1. PICK counted : counted = [r EXCEPT !.votes[v.from] = vote]
        OBVIOUS
    <2>2. /\ counted \in Rounds /\ counted.id = r.id /\ counted.node = r.node /\ counted.committee = r.committee
          /\ counted.votes[v.from] = vote
          /\ \A m \in Nodes \ {v.from} : counted.votes[m] = r.votes[m]
        <3>1. PICK votes : votes = [r.votes EXCEPT ![v.from] = vote]
            OBVIOUS
        <3>2. /\ votes \in [Nodes -> {"none"} \cup Words] /\ votes[v.from] = vote
              /\ \A m \in Nodes \ {v.from} : votes[m] = r.votes[m]
            BY <1>2, <1>3, <3>1
        <3>3. counted = [r EXCEPT !.votes = votes]
            BY <1>2, <2>1, <3>1 DEF Rounds
        <3> QED
            BY <1>2, <3>2, <3>3 DEF Rounds
    <2>3. PICK h : /\ h = counted \/ h = [counted EXCEPT !.phase = "closed"]
                   /\ run' = [run EXCEPT ![v.run] = h]
        BY <1>1, <1>6, <2>1 DEF CountVote
    <2>4. slashed' = slashed
        BY <1>6 DEF CountVote
    <2>5. /\ h \in Rounds /\ h.id = r.id /\ h.node = r.node /\ h.committee = r.committee
          /\ h.votes[v.from] = vote /\ \A m \in Nodes \ {v.from} : h.votes[m] = r.votes[m]
        BY <2>2, <2>3 DEF Rounds
    <2>6. /\ run' \in Seq(Rounds) /\ Len(run') = Len(run) /\ run'[v.run] = h
          /\ \A q \in Runs \ {v.run} : run'[q] = run[q]
        BY <1>2, <2>3, <2>5 DEF Runs
    <2>7. Runs' = Runs
        BY <2>6 DEF Runs
    <2>8. \A q \in Runs : /\ run'[q].id = run[q].id /\ run'[q].node = run[q].node
                          /\ run'[q].committee = run[q].committee
        BY <1>1, <1>2, <2>5, <2>6
    <2>9. VoteTypes'
        <3>1. \A f \in fetched' : f.run \in Runs /\ f.from \in run'[f.run].committee
            BY <1>4, <2>8 DEF VoteInv, VoteTypes
        <3> QED
            BY <1>4, <2>6, <2>7, <2>8, <3>1 DEF VoteInv, VoteTypes
    <2>10. \A m \in Nodes : \A id \in BlockIds : Proposed(m, id) => Proposed(m, id)'
        BY <2>7, <2>8 DEF Proposed
    <2>11. ASSUME NEW m \in Nodes, NEW id \in BlockIds, NEW w \in Words, Says(m, id, w)'
           PROVE  Says(m, id, w)
        <3>1. Sent(m, id, w)' => Sent(m, id, w)
            BY <1>4 DEF Sent
        <3>2. InHand(m, id, w)' => InHand(m, id, w)
            BY <1>4, <2>8 DEF InHand, VoteInv, VoteTypes
        <3>3. CountedAs(m, id, w)' => CountedAs(m, id, w) \/ InHand(m, id, w)
            <4> SUFFICES ASSUME CountedAs(m, id, w)' PROVE CountedAs(m, id, w) \/ InHand(m, id, w)
                OBVIOUS
            <4>1. PICK q \in Runs : run'[q].id = id /\ run'[q].votes[m] = w
                BY <2>7 DEF CountedAs
            <4>2. CASE q = v.run /\ m = v.from
                BY <1>1, <1>3, <2>5, <2>6, <4>1, <4>2 DEF InHand
            <4>3. CASE ~(q = v.run /\ m = v.from)
                <5>1. run[q].id = id /\ run[q].votes[m] = w
                    BY <1>1, <2>5, <2>6, <2>8, <4>1, <4>3
                <5> QED
                    BY <5>1 DEF CountedAs
            <4> QED
                BY <4>2, <4>3
        <3> QED
            BY <2>11, <3>1, <3>2, <3>3 DEF Says
    <2>12. OneWord'
        BY <1>4, <2>10, <2>11, NothingNew DEF VoteInv
    <2>13. OnlyRivalsSlashed'
        BY <2>4, <2>7, <2>8 DEF VoteInv, OnlyRivalsSlashed
    <2> QED
        BY <2>9, <2>12, <2>13 DEF VoteInv
<1> QED
    BY <1>5, <1>6

\* A committee is a set of nodes with the proposer in it.
LEMMA CommitteeOfNodes ==
    ASSUME NEW n \in Nodes, NEW committee \in Committees(n)
    PROVE  committee \in SUBSET Nodes /\ n \in committee
<1>1. PICK s : s \in SUBSET Others(n) /\ committee = Seated(n, s)
    <2>1. PICK k \in CoreSizes :
            \E s \in IF k = 0 THEN SelectCommittee(registry[n], Others(n), FallbackSize(n) - 1)
                              ELSE {t \in SUBSET Others(n) : Cardinality(t) = k - 1} : committee = Seated(n, s)
        BY DEF Committees
    <2>2. SelectCommittee(registry[n], Others(n), FallbackSize(n) - 1) \subseteq SUBSET Others(n)
        BY DEF SelectCommittee
    <2> QED
        BY <2>1, <2>2
<1> QED
    BY <1>1 DEF Seated, Others

\* A new round: the proposer votes for what it proposes.
LEMMA OpenKeeps ==
    ASSUME VoteInv, PoolTypes, NEW n \in Nodes, NEW layer \in Layers,
           NEW selected \in SUBSET Txs, NEW txs \in SUBSET Txs,
           Len(run) < MaxRuns, OpenRound(layer, n, selected, txs),
           UNCHANGED <<votedIds, fetched, slashed>>
    PROVE  VoteInv'
<1>1. PICK committee \in Committees(n) :
        LET id == computeVoteBlockID(layer, n, txs)
        IN  /\ run' = Append(run,
                [layer |-> layer, node |-> n, id |-> id, selected |-> selected,
                 committee |-> committee,
                 votes |-> [m \in Nodes |-> IF m = n THEN "yes" ELSE "none"],
                 phase |-> IF committee = {n} THEN "closed" ELSE "open",
                 outcome |-> "none"])
            /\ current' = [current EXCEPT ![layer][n] = Len(run) + 1]
            /\ net' = net
                \cup {[type |-> "proposal", to |-> m, from |-> n, id |-> id] : m \in Others(n)}
                \cup {[type |-> "vote", to |-> m, from |-> n, id |-> id, yes |-> TRUE] : m \in Others(n) \cap Runners}
    BY Zenon DEF OpenRound
<1>2. PICK id0, votes0, phase0 :
        /\ id0 = [layer |-> layer, on |-> chain[n], txs |-> txs]
        /\ votes0 = [m \in Nodes |-> IF m = n THEN "yes" ELSE "none"]
        /\ phase0 = IF committee = {n} THEN "closed" ELSE "open"
    OBVIOUS
<1>3. PICK new, asked, posted :
        /\ new = [layer |-> layer, node |-> n, id |-> id0, selected |-> selected,
                  committee |-> committee, votes |-> votes0, phase |-> phase0, outcome |-> "none"]
        /\ asked = {[type |-> "proposal", to |-> m, from |-> n, id |-> id0] : m \in Others(n)}
        /\ posted = {[type |-> "vote", to |-> m, from |-> n, id |-> id0, yes |-> TRUE] : m \in Others(n) \cap Runners}
    OBVIOUS
<1>4. /\ run' = Append(run, new)
      /\ current' = [current EXCEPT ![layer][n] = Len(run) + 1]
      /\ net' = net \cup asked \cup posted
    BY <1>1, <1>2, <1>3, Zenon DEF computeVoteBlockID
<1>5. id0 \in BlockIds
    BY <1>2 DEF PoolTypes, BlockIds
<1>6. /\ new \in Rounds /\ new.id = id0 /\ new.node = n /\ n \in new.committee
      /\ new.votes[n] = "yes" /\ \A m \in Others(n) : new.votes[m] = "none"
    <2>1. committee \in SUBSET Nodes /\ n \in committee
        BY CommitteeOfNodes
    <2>2. votes0 \in [Nodes -> {"none"} \cup Words] /\ votes0[n] = "yes" /\ \A m \in Others(n) : votes0[m] = "none"
        BY <1>2 DEF Words, Others
    <2>3. phase0 \in {"open", "closed", "done"}
        BY <1>2
    <2> QED
        BY <1>3, <1>5, <2>1, <2>2, <2>3 DEF Rounds
<1>7. run \in Seq(Rounds)
    BY DEF VoteInv, VoteTypes
<1>8. /\ run' \in Seq(Rounds) /\ Len(run') = Len(run) + 1 /\ run'[Len(run) + 1] = new
      /\ \A q \in Runs : run'[q] = run[q]
    BY <1>4, <1>6, <1>7 DEF Runs
<1>9. Runs' = Runs \cup {Len(run) + 1} /\ Runs \subseteq Runs'
    BY <1>7, <1>8 DEF Runs
<1>10. asked \subseteq OtherMsgs /\ posted \subseteq VoteMsgs
    <2>1. asked \subseteq OtherMsgs
        <3>1. \A m \in Nodes : [type |-> "proposal", to |-> m, from |-> n, id |-> id0] \in OtherMsgs
            BY <1>5, Zenon DEF OtherMsgs
        <3> QED
            BY <1>3, <3>1 DEF Others
    <2>2. \A m \in Nodes : [type |-> "vote", to |-> m, from |-> n, id |-> id0, yes |-> TRUE] \in VoteMsgs
        BY <1>5, Zenon DEF VoteMsgs
    <2>3. posted \subseteq VoteMsgs
        BY <1>3, <2>2 DEF Others
    <2> QED
        BY <2>1, <2>3
<1>11. VoteTypes'
    <2>1. \A q \in Runs' : run'[q].node \in run'[q].committee
        BY <1>6, <1>8, <1>9 DEF VoteInv, VoteTypes
    <2>2. current' \in [Layers -> [Nodes -> 0 .. Len(run')]]
        <3>1. current \in [Layers -> [Nodes -> 0 .. Len(run)]] /\ Len(run) \in Nat
            <4>1. current \in [Layers -> [Nodes -> 0 .. Len(run)]]
                BY DEF VoteInv, VoteTypes
            <4> QED
                BY <1>7, <4>1
        <3>2. PICK row : row = [current[layer] EXCEPT ![n] = Len(run) + 1]
            OBVIOUS
        <3>3. current' = [current EXCEPT ![layer] = row]
            BY <1>4, <3>1, <3>2
        <3>4. \A l \in Layers : current[l] \in [Nodes -> 0 .. Len(run')]
            BY <1>8, <3>1
        <3>5. row \in [Nodes -> 0 .. Len(run')]
            BY <1>8, <3>1, <3>2, <3>4
        <3> QED
            BY <3>1, <3>3, <3>4, <3>5
    <2>3. fetched' \subseteq [run : Runs', from : Nodes, yes : BOOLEAN]
        BY <1>9 DEF VoteInv, VoteTypes
    <2>4. \A f \in fetched' : f.from \in run'[f.run].committee
        BY <1>8 DEF VoteInv, VoteTypes
    <2>5. net' \subseteq VoteMsgs \cup OtherMsgs
        BY <1>4, <1>10 DEF VoteInv, VoteTypes
    <2>6. votedIds' \in [Nodes -> SUBSET BlockIds]
        BY DEF VoteInv, VoteTypes
    <2>7. Len(run') <= MaxRuns
        BY <1>7, <1>8, RoundsAssumption DEF RoundsAssumption
    <2> QED
        BY <1>8, <2>1, <2>2, <2>3, <2>4, <2>5, <2>6, <2>7 DEF VoteTypes
<1>12. \A m \in Nodes : \A id \in BlockIds : Proposed(m, id) => Proposed(m, id)'
    BY <1>8, <1>9 DEF Proposed
<1>13. Proposed(n, id0)'
    <2>1. Len(run) + 1 \in Runs' /\ run'[Len(run) + 1].node = n /\ run'[Len(run) + 1].id = id0
        BY <1>6, <1>8, <1>9
    <2> QED
        BY <2>1 DEF Proposed
<1>14. ASSUME NEW m \in Nodes, NEW id \in BlockIds, NEW w \in Words, Says(m, id, w)'
       PROVE  Says(m, id, w) \/ Proposed(m, id)'
    <2>1. CASE Sent(m, id, w)'
        <3>1. PICK msg \in net' : msg.type = "vote" /\ msg.from = m /\ msg.id = id /\ WordOf(msg.yes) = w
            BY <2>1 DEF Sent
        <3>2. CASE msg \in net
            BY <3>1, <3>2 DEF Sent, Says
        <3>3. CASE msg \in asked
            <4>1. PICK o \in Others(n) : msg = [type |-> "proposal", to |-> o, from |-> n, id |-> id0]
                BY <1>3, <3>3, Zenon
            <4>2. msg.type = "proposal"
                BY <4>1
            <4> QED
                BY <3>1, <4>2
        <3>4. CASE msg \in posted
            <4>1. PICK o \in Others(n) :
                    msg = [type |-> "vote", to |-> o, from |-> n, id |-> id0, yes |-> TRUE]
                BY <1>3, <3>4, Zenon
            <4>2. msg.from = n /\ msg.id = id0
                BY <4>1
            <4> QED
                BY <1>13, <3>1, <4>2
        <3> QED
            BY <1>4, <3>2, <3>3, <3>4
    <2>2. CASE InHand(m, id, w)'
        <3>1. InHand(m, id, w)
            BY <1>8, <2>2 DEF InHand, VoteInv, VoteTypes
        <3> QED
            BY <3>1 DEF Says
    <2>3. CASE CountedAs(m, id, w)'
        <3>1. PICK q \in Runs' : run'[q].id = id /\ run'[q].votes[m] = w
            BY <2>3 DEF CountedAs
        <3>2. CASE q \in Runs
            BY <1>8, <3>1, <3>2 DEF CountedAs, Says
        <3>3. CASE q = Len(run) + 1
            <4>1. m = n /\ id = id0
                BY <1>6, <1>8, <3>1, <3>3 DEF Others, Words
            <4> QED
                BY <1>13, <4>1
        <3> QED
            BY <1>9, <3>2, <3>3
    <2> QED
        BY <1>14, <2>1, <2>2, <2>3 DEF Says
<1>15. OneWord'
    BY <1>12, <1>14, NothingNew DEF VoteInv
<1>16. OnlyRivalsSlashed'
    BY <1>8, <1>9, ZenonT(30) DEF VoteInv, OnlyRivalsSlashed
<1> QED
    BY <1>11, <1>15, <1>16 DEF VoteInv

\* The rounds are rounds.
LEMMA RoundsTyped ==
    ASSUME VoteInv
    PROVE  run \in Seq(Rounds) /\ \A r \in Runs : run[r] \in Rounds
<1>1. run \in Seq(Rounds)
    BY DEF VoteInv, VoteTypes
<1> QED
    BY <1>1 DEF Runs

\* The timer closes a round: the votes stay as they are.
LEMMA TimeoutKeeps ==
    ASSUME VoteInv, NEW r \in Runs, RoundTimeout(r)
    PROVE  VoteInv'
<1>1. run \in Seq(Rounds) /\ run[r] \in Rounds
    BY RoundsTyped
<1>2. PICK h : h = [run[r] EXCEPT !.phase = "closed"] /\ run' = [run EXCEPT ![r] = h]
    BY DEF RoundTimeout
<1>3. /\ h \in Rounds /\ h.id = run[r].id /\ h.node = run[r].node
      /\ h.committee = run[r].committee /\ h.votes = run[r].votes
    BY <1>1, <1>2 DEF Rounds
<1>4. run' \in Seq(Rounds) /\ Len(run') = Len(run) /\ \A q \in Runs : run'[q] = IF q = r THEN h ELSE run[q]
    BY <1>1, <1>2, <1>3 DEF Runs
<1>5. UNCHANGED <<current, votedIds, fetched, net, slashed>>
    BY DEF RoundTimeout
<1>6. current' \in [Layers -> [Nodes -> 0 .. Len(run)]] /\ net' \subseteq VoteMsgs \cup OtherMsgs
    BY <1>5 DEF VoteInv, VoteTypes
<1> QED
    BY <1>3, <1>4, <1>5, <1>6, CalmKeeps

\* The end of a round writes its outcome and clears the current round.
LEMMA FinalizeKeeps ==
    ASSUME VoteInv, NEW r \in Runs, NEW pct, NEW accepted, Finalize(r, pct, accepted),
           net' \subseteq VoteMsgs \cup OtherMsgs,
           \A msg \in net' : msg.type = "vote" => msg \in net
    PROVE  VoteInv'
<1>1. run \in Seq(Rounds) /\ run[r] \in Rounds
    BY RoundsTyped
<1>2. PICK core : run' = [run EXCEPT ![r].phase = "done",
                ![r].outcome = IF ~accepted THEN "rejected"
                               ELSE IF core = "failed" THEN "unbacked" ELSE "accepted"]
    BY Zenon DEF Finalize
<1>3. PICK outcome \in {"rejected", "unbacked", "accepted"} :
        outcome = IF ~accepted THEN "rejected" ELSE IF core = "failed" THEN "unbacked" ELSE "accepted"
    OBVIOUS
<1>4. PICK h : h = [run[r] EXCEPT !.phase = "done", !.outcome = outcome] /\ run' = [run EXCEPT ![r] = h]
    <2>1. run' = [run EXCEPT ![r].phase = "done", ![r].outcome = outcome]
        BY <1>2, <1>3, Zenon
    <2> QED
        BY <1>1, <2>1 DEF Rounds, Runs
<1>5. /\ h \in Rounds /\ h.id = run[r].id /\ h.node = run[r].node
      /\ h.committee = run[r].committee /\ h.votes = run[r].votes
    BY <1>1, <1>3, <1>4 DEF Rounds
<1>6. run' \in Seq(Rounds) /\ Len(run') = Len(run) /\ \A q \in Runs : run'[q] = IF q = r THEN h ELSE run[q]
    BY <1>1, <1>4, <1>5 DEF Runs
<1>7. UNCHANGED <<votedIds, fetched, slashed>>
    BY DEF Finalize
<1>8. current' \in [Layers -> [Nodes -> 0 .. Len(run)]]
    <2>1. PICK l \in Layers, n \in Nodes : l = run[r].layer /\ n = run[r].node
        BY <1>1 DEF Rounds
    <2>2. current' = [current EXCEPT ![l][n] = 0]
        BY <2>1 DEF Finalize
    <2>3. current \in [Layers -> [Nodes -> 0 .. Len(run)]] /\ Len(run) \in Nat
        <3>1. current \in [Layers -> [Nodes -> 0 .. Len(run)]]
            BY DEF VoteInv, VoteTypes
        <3> QED
            BY <1>1, <3>1
    <2> QED
        BY <2>2, <2>3
<1> QED
    BY <1>5, <1>6, <1>7, <1>8, CalmKeeps

\* A step of a node keeps the votes as they should be.
LEMMA VoteStep ==
    ASSUME VoteInv, PoolTypes, RoundsNext
    PROVE  VoteInv'
<1>1. ASSUME NEW n \in Nodes, l1CollectBlockRun(n) PROVE VoteInv'
    <2>1. Len(run) < MaxRuns /\ UNCHANGED <<votedIds, fetched, slashed>>
        BY <1>1 DEF l1CollectBlockRun, MayStart
    <2>2. Pruned(n) \subseteq Txs
        BY DEF Pruned, PoolTypes
    <2>3. PICK selected \in {s \in Selections : s \subseteq Pruned(n)} :
            \/ OpenRound("L1", n, selected, selected)
            \/ \E dropped \in SUBSET selected : \E retry \in Retries(n, selected, dropped) :
                OpenRound("L1", n, selected, retry)
            \/ UNCHANGED <<run, current, net>>
        BY <1>1, Zenon DEF l1CollectBlockRun
    <2>4. selected \in SUBSET Txs /\ "L1" \in Layers
        BY <2>2, <2>3 DEF Layers
    <2>5. CASE OpenRound("L1", n, selected, selected)
        BY <2>1, <2>4, <2>5, OpenKeeps
    <2>6. ASSUME NEW dropped \in SUBSET selected, NEW retry \in Retries(n, selected, dropped),
                 OpenRound("L1", n, selected, retry)
          PROVE  VoteInv'
        <3>1. retry \in SUBSET Txs
            BY <2>2, <2>4 DEF Retries
        <3> QED
            BY <2>1, <2>4, <2>6, <3>1, OpenKeeps
    <2>7. CASE UNCHANGED <<run, current, net>>
        BY <2>1, <2>7, CalmKeeps DEF VoteInv, VoteTypes
    <2> QED
        BY <2>3, <2>5, <2>6, <2>7
<1>2. ASSUME NEW n \in Nodes, l2ConfirmBlockRun(n) PROVE VoteInv'
    <2>1. /\ Len(run) < MaxRuns /\ UNCHANGED <<votedIds, fetched, slashed>>
          /\ OpenRound("L2", n, pending[n], pending[n])
        BY <1>2 DEF l2ConfirmBlockRun, MayStart
    <2>2. pending[n] \in SUBSET Txs /\ "L2" \in Layers
        BY DEF PoolTypes, Layers
    <2> QED
        BY <2>1, <2>2, OpenKeeps
<1>3. ASSUME NEW n \in Nodes, onL1Proposal(n) \/ onL2Proposal(n) PROVE VoteInv'
    BY <1>3, ProposalKeeps
<1>4. ASSUME NEW n \in Nodes, onL1Vote(n) \/ onL2Vote(n) PROVE VoteInv'
    BY <1>4, FetchKeeps, CountKeeps DEF onL1Vote, onL2Vote, Layers
<1>5. ASSUME NEW n \in Nodes, onPendingBlockSync(n) PROVE VoteInv'
    <2>1. net' \subseteq net /\ UNCHANGED <<run, current, votedIds, fetched, slashed>>
        BY <1>5 DEF onPendingBlockSync
    <2> QED
        BY <2>1, CalmKeeps DEF VoteInv, VoteTypes
<1>6. ASSUME NEW n \in Nodes, autoBlockConfirmPending(n) PROVE VoteInv'
    <2>1. UNCHANGED <<run, current, votedIds, fetched, net, slashed>>
        BY <1>6 DEF autoBlockConfirmPending
    <2> QED
        BY <2>1, CalmKeeps DEF VoteInv, VoteTypes
<1>7. ASSUME NEW r \in Runs, EndL1(r) PROVE VoteInv'
    <2>1. CASE Finalize(r, 67, FALSE) /\ net' = net
        BY <2>1, FinalizeKeeps DEF VoteInv, VoteTypes
    <2>2. CASE /\ Finalize(r, 67, TRUE)
               /\ net' = net \cup {[type |-> "collected", to |-> m, from |-> run[r].node,
                                    txs |-> run[r].selected \cap mempool[run[r].node]] : m \in Others(run[r].node)}
        <3>1. run[r] \in Rounds
            BY RoundsTyped
        <3>2. PICK from \in Nodes, moved \in SUBSET Txs :
                from = run[r].node /\ moved = run[r].selected \cap mempool[run[r].node]
            BY <3>1 DEF Rounds
        <3>3. \A m \in Nodes : [type |-> "collected", to |-> m, from |-> from, txs |-> moved] \in OtherMsgs
            BY Zenon DEF OtherMsgs
        <3>4. net' \subseteq VoteMsgs \cup OtherMsgs
            BY <2>2, <3>2, <3>3 DEF VoteInv, VoteTypes, Others
        <3>5. \A msg \in net' : msg.type = "vote" => msg \in net
            BY <2>2
        <3> QED
            BY <2>2, <3>4, <3>5, FinalizeKeeps
    <2> QED
        BY <1>7, <2>1, <2>2 DEF EndL1
<1>8. ASSUME NEW r \in Runs, EndL2(r) PROVE VoteInv'
    <2>1. net' = net /\ (Finalize(r, 70, FALSE) \/ Finalize(r, 70, TRUE))
        BY <1>8 DEF EndL2
    <2> QED
        BY <2>1, FinalizeKeeps DEF VoteInv, VoteTypes
<1> QED
    BY <1>1, <1>2, <1>3, <1>4, <1>5, <1>6, <1>7, <1>8, TimeoutKeeps DEF RoundsNext

\* The mempools, the pending blocks and the chains hold transactions.
LEMMA PoolStep ==
    ASSUME VoteInv, PoolTypes, RoundsNext
    PROVE  PoolTypes'
<1>1. ASSUME NEW n \in Nodes, l1CollectBlockRun(n) PROVE PoolTypes'
    <2>1. Pruned(n) \subseteq Txs
        BY DEF Pruned, PoolTypes
    <2>2. PICK left \in SUBSET Txs : mempool' = [mempool EXCEPT ![n] = left]
        BY <1>1, <2>1 DEF l1CollectBlockRun
    <2>3. UNCHANGED <<pending, chain>>
        BY <1>1 DEF l1CollectBlockRun
    <2> QED
        BY <2>2, <2>3 DEF PoolTypes
<1>2. ASSUME NEW n \in Nodes, \E dropped : AbandonPendingBlock(n, dropped), UNCHANGED chain PROVE PoolTypes'
    BY <1>2 DEF AbandonPendingBlock, PoolTypes
<1>3. ASSUME NEW n \in Nodes, onPendingBlockSync(n) PROVE PoolTypes'
    <2>1. PICK msg \in net : /\ msg.type = "collected"
                             /\ pending' = [pending EXCEPT ![n] = msg.txs]
                             /\ mempool' = [mempool EXCEPT ![n] = @ \ msg.txs]
                             /\ UNCHANGED chain
        BY <1>3 DEF onPendingBlockSync
    <2>2. msg.txs \in SUBSET Txs
        BY <2>1 DEF VoteInv, VoteTypes, VoteMsgs, OtherMsgs
    <2> QED
        BY <2>1, <2>2 DEF PoolTypes
<1>4. ASSUME NEW r \in Runs, EndL1(r) PROVE PoolTypes'
    <2>1. PICK n \in Nodes : n = run[r].node
        <3>1. run[r] \in Rounds
            BY DEF VoteInv, VoteTypes, Runs
        <3> QED
            BY <3>1 DEF Rounds
    <2>2. CASE UNCHANGED <<mempool, pending, chain>>
        BY <2>2 DEF PoolTypes
    <2>3. CASE ~UNCHANGED <<mempool, pending, chain>>
        <3>1. PICK moved \in SUBSET mempool[n] :
                /\ mempool' = [mempool EXCEPT ![n] = @ \ moved]
                /\ pending' = [pending EXCEPT ![n] = moved]
                /\ UNCHANGED chain
            BY <1>4, <2>1, <2>3 DEF EndL1
        <3> QED
            BY <3>1 DEF PoolTypes
    <2> QED
        BY <2>2, <2>3
<1>5. ASSUME NEW r \in Runs, EndL2(r) PROVE PoolTypes'
    <2>1. PICK n \in Nodes : n = run[r].node
        <3>1. run[r] \in Rounds
            BY DEF VoteInv, VoteTypes, Runs
        <3> QED
            BY <3>1 DEF Rounds
    <2>2. CASE UNCHANGED <<mempool, pending, chain>>
        BY <2>2 DEF PoolTypes
    <2>3. CASE AbandonPendingBlock(n, {}) /\ UNCHANGED chain
        BY <1>2, <2>3
    <2>4. CASE /\ chain' = [chain EXCEPT ![n] = Append(@, pending[n])]
               /\ pending' = [pending EXCEPT ![n] = {}]
               /\ UNCHANGED mempool
        <3>1. Append(chain[n], pending[n]) \in Seq(SUBSET Txs)
            BY DEF PoolTypes
        <3> QED
            BY <2>4, <3>1 DEF PoolTypes
    <2>5. CASE pending' = [pending EXCEPT ![n] = {}] /\ UNCHANGED <<mempool, chain>>
        BY <2>5 DEF PoolTypes
    <2> QED
        BY <1>5, <2>1, <2>2, <2>3, <2>4, <2>5 DEF EndL2
<1>6. ASSUME NEW n \in Nodes, autoBlockConfirmPending(n) PROVE PoolTypes'
    BY <1>2, <1>6 DEF autoBlockConfirmPending
<1>7. ASSUME UNCHANGED <<mempool, pending, chain>> PROVE PoolTypes'
    BY <1>7 DEF PoolTypes
<1>8. ASSUME NEW n \in Nodes, \/ l2ConfirmBlockRun(n) \/ onL1Proposal(n) \/ onL2Proposal(n)
                              \/ onL1Vote(n) \/ onL2Vote(n)
      PROVE  UNCHANGED <<mempool, pending, chain>>
    BY <1>8 DEF l2ConfirmBlockRun, onL1Proposal, onL2Proposal, onL1Vote, onL2Vote, FetchRound, CountVote
<1>9. ASSUME NEW r \in Runs, RoundTimeout(r) PROVE UNCHANGED <<mempool, pending, chain>>
    BY <1>9 DEF RoundTimeout
<1> QED
    BY <1>1, <1>3, <1>4, <1>5, <1>6, <1>7, <1>8, <1>9 DEF RoundsNext

\* Before the first round.
LEMMA VotesAtStart == RoundsInit => VoteInv /\ PoolTypes
<1> SUFFICES ASSUME RoundsInit PROVE VoteInv /\ PoolTypes
    OBVIOUS
<1>1. /\ run = <<>> /\ fetched = {} /\ net = {} /\ slashed = {}
      /\ votedIds = [n \in Nodes |-> {}] /\ current = [l \in Layers |-> [n \in Nodes |-> 0]]
    BY DEF RoundsInit
<1>2. <<>> \in Seq(Rounds) /\ Len(<<>>) = 0 /\ <<>> \in Seq(SUBSET Txs)
    OBVIOUS
<1>3. PoolTypes
    BY <1>2 DEF RoundsInit, PoolTypes
<1>4. Runs = {}
    BY <1>1 DEF Runs
<1>5. current \in [Layers -> [Nodes -> 0 .. Len(run)]]
    BY <1>1, <1>2
<1>6. VoteTypes
    BY <1>1, <1>2, <1>4, <1>5, RoundsAssumption DEF VoteTypes, RoundsAssumption
<1>7. OneWord
    BY <1>1, <1>4 DEF OneWord, Says, Sent, InHand, CountedAs
<1>8. OnlyRivalsSlashed
    BY <1>1 DEF OnlyRivalsSlashed
<1> QED
    BY <1>3, <1>6, <1>7, <1>8 DEF VoteInv

\* A node that only votes on the proposals of others is never slashed for
\* equivocation, by any node, in any order of proposals, votes, timeouts and
\* overlapping rounds (onL1Vote, onL2Vote and the voted-id tables), for any
\* number of nodes, rounds and transactions.
THEOREM HonestVotersKept == RoundsSpec => []OnlyRivalsSlashed
<1>1. RoundsInit => VoteInv /\ PoolTypes
    BY VotesAtStart
<1>2. VoteInv /\ PoolTypes /\ [RoundsNext]_roundVars => (VoteInv /\ PoolTypes)'
    <2>1. ASSUME VoteInv, PoolTypes, UNCHANGED roundVars PROVE (VoteInv /\ PoolTypes)'
        BY <2>1, CalmKeeps DEF roundVars, VoteInv, VoteTypes, PoolTypes, Runs
    <2> QED
        BY <2>1, VoteStep, PoolStep
<1>3. VoteInv => OnlyRivalsSlashed
    BY DEF VoteInv
<1> QED
    BY <1>1, <1>2, <1>3, PTL DEF RoundsSpec
=============================================================================
