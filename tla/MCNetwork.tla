----------------------------- MODULE MCNetwork -----------------------------
(***************************************************************************)
(* Small instances of what connects a gateway to Core and to its peers:    *)
(* the vote rounds, the shares of the fees, the connections between        *)
(* gateways, the blocks sent over them, the RPC client of Core and the     *)
(* start of the Core daemon.  They share no state, so a behaviour moves    *)
(* one of them.                                                            *)
(***************************************************************************)
EXTENDS VoteRounds, FeeShares, CoreRpc, CoreDaemon, PeerLinks, ChainSync, TLC

CONSTANTS n1, n2, t1

TwoNodes == {n1, n2}
OneTx == {t1}
OneSelection == {{t1}}
MCWeight == n1 :> 1 @@ n2 :> 3
MCVoterSets == {{}, TwoNodes}
BothDial == {<<"a", "b">>, <<"b", "a">>}

VARIABLE part       \* the part that moves

networkVars == <<roundVars, feeVars, rpcVars, daemonVars, linkVars, syncVars, part>>

Init ==
    /\ RoundsInit /\ FeeInit /\ RpcInit /\ DaemonInit /\ LinksInit /\ SyncInit
    /\ part \in {"rounds", "fees", "rpc", "daemon", "links", "sync"}
    /\ part # "rpc" => ~connected
    /\ part # "sync" => rocksOn

Next ==
    \/ /\ part = "rounds" /\ RoundsNext
       /\ UNCHANGED <<feeVars, rpcVars, daemonVars, linkVars, syncVars, part>>
    \/ /\ part = "fees" /\ FeeNext
       /\ UNCHANGED <<roundVars, rpcVars, daemonVars, linkVars, syncVars, part>>
    \/ /\ part = "rpc" /\ RpcNext
       /\ UNCHANGED <<roundVars, feeVars, daemonVars, linkVars, syncVars, part>>
    \/ /\ part = "daemon" /\ DaemonNext
       /\ UNCHANGED <<roundVars, feeVars, rpcVars, linkVars, syncVars, part>>
    \/ /\ part = "links" /\ LinksNext
       /\ UNCHANGED <<roundVars, feeVars, rpcVars, daemonVars, syncVars, part>>
    \/ /\ part = "sync" /\ SyncNext
       /\ UNCHANGED <<roundVars, feeVars, rpcVars, daemonVars, linkVars, part>>

\* The fairness of the parts.  In their initial states no step of the rounds
\* or of the RPC client is due, while a dial is.
Fairness ==
    /\ RoundsFairness
    /\ RpcFairness
    /\ WF_linkVars(part = "links" /\ RepairStep)
    /\ WF_linkVars(part = "links" /\ HeartbeatStep)

Spec == Init /\ [][Next]_networkVars /\ Fairness

-----------------------------------------------------------------------------
\* The types of the parts; a proposer sits in its own committee, one gateway at a
\* time holds the lock of the daemon, and no chain has a height twice.
NetworkTypeOK ==
    CASE part = "rounds" -> RoundsTypeOK
      [] part = "fees"   -> FeeTypeOK
      [] part = "rpc"    -> RpcTypeOK
      [] part = "daemon" -> DaemonTypeOK
      [] part = "links"  -> LinksTypeOK
      [] part = "sync"   -> SyncTypeOK

\* OneDirectionHeals, when it is the connections that move: two gateways of
\* which one lists the other are never cut off for good.
LinksHeal == []<>(part = "links" => Reachable)
=============================================================================
