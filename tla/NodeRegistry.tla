----------------------------- MODULE NodeRegistry -----------------------------
(***************************************************************************)
(* The reputation registry (rating/registry.go, rating/slashing.go) as     *)
(* operators on a table of scores, one row per known node.                 *)
(*                                                                         *)
(* Every node is created with stake 0, so the largest stake is 0, the      *)
(* stake weight is full and a stake slash has no effect; uptime and        *)
(* latency are never lowered.  They are constants of a row here, and so is *)
(* the load: reports of load (SetLoad) are not modelled.                   *)
(***************************************************************************)
EXTENDS Integers, FiniteSets

ScoreScale == 1000000
SuspensionThreshold == 100000

\* reputationPenaltyFor
reputationPenaltyFor ==
    [NoVote          |-> (ScoreScale * 2) \div 100,
     AgainstMajority |-> (ScoreScale * 3) \div 100,
     Equivocation    |-> (ScoreScale * 15) \div 100]

VoteAccuracy(missed, total) ==
    IF total <= 0 THEN ScoreScale
    ELSE ((IF total < missed THEN 0 ELSE total - missed) * ScoreScale) \div total

ComputeReputation(missed, total) ==
    (ScoreScale * (300 + 200 + 200) + VoteAccuracy(missed, total) * 300) \div 1000

\* EnsureNode: the row of a node met for the first time.
EnsureNode ==
    [missed |-> 0, total |-> 0, load |-> 0,
     reputation |-> ComputeReputation(0, 0), status |-> "active"]

\* SetVoteStats recomputes the reputation from the counts alone: a slash
\* applied since the last round is forgotten, a suspension is not.
SetVoteStats(row, missed, total) ==
    LET counted == IF total < missed THEN missed ELSE total
    IN  [row EXCEPT !.missed = missed, !.total = counted,
                    !.reputation = ComputeReputation(missed, counted)]

\* applySlashLocked
ApplySlash(row, reason) ==
    LET left == row.reputation - reputationPenaltyFor[reason]
        rep == IF left < 0 THEN 0 ELSE left
    IN  [row EXCEPT !.reputation = rep,
                    !.status = IF rep < SuspensionThreshold THEN "suspended" ELSE @]

ApplySlashBatch(table, nodes, reason) ==
    [n \in DOMAIN table |->
        IF n \in nodes THEN ApplySlash(table[n], reason) ELSE table[n]]

\* SelectionWeightFor: reputation times what the load leaves, at least 1.  The
\* load is taken in thousandths, so that the product fits TLC's integers.
SelectionWeightFor(row) ==
    LET w == (row.reputation * ((ScoreScale - row.load) \div 1000)) \div 1000
    IN  IF w <= 0 THEN 1 ELSE w

SelectionPercentFromLoad(loadPct) ==
    CASE loadPct = 0 -> 50
      [] loadPct \in 1 .. 19 -> 30
      [] loadPct \in 20 .. 29 -> 25
      [] loadPct \in 30 .. 59 -> 20
      [] loadPct \in 60 .. 84 -> 15
      [] OTHER -> 10

\* networkLoadPct: the largest load among the candidates, in percent.
networkLoadPct(table, candidates) ==
    LET pct(n) == (table[n].load \div 10000)
    IN  CHOOSE p \in {0} \cup {pct(n) : n \in candidates} :
            \A n \in candidates : pct(n) <= p

\* filterEligibleCandidates and SelectCommittee: any choice of that many
\* eligible nodes that the weighted draw can reach.
SelectCommittee(table, candidates, count) ==
    LET eligible == {n \in candidates : table[n].status # "suspended" /\ SelectionWeightFor(table[n]) > 0}
    IN  IF count >= Cardinality(eligible)
        THEN {eligible}
        ELSE {s \in SUBSET eligible : Cardinality(s) = count}

=============================================================================
