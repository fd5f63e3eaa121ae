----------------------------- MODULE MCClients -----------------------------
(***************************************************************************)
(* Small instances of the parts of a gateway that wallets and messengers   *)
(* call: the nonce desk and the admission to the mempool, the websocket    *)
(* server, and the contact requests.  They share no state, so a behaviour  *)
(* moves one of them.                                                      *)
(*                                                                         *)
(* Both sockets belong to one device.  One sender asks three receivers.    *)
(***************************************************************************)
EXTENDS NonceDesk, Messenger, ContactEconomy, TLC

CONSTANTS c1, c2, m1, m2

MCDeviceOf == [c \in Sockets |-> "d1"]
MCTo == [m \in Msgs |-> "x"]
SocketSymmetry == Permutations(Sockets) \cup Permutations(Msgs)

MCSender == [i \in Ids |-> "s"]
MCReceiver == "q1" :> "r1" @@ "q2" :> "r2" @@ "q3" :> "r3"
MCLockTx == [i \in Ids |-> i]

VARIABLE served     \* the part that moves

clientsVars == <<deskVars, messengerVars, economyVars, served>>

Init ==
    /\ DeskInit /\ MessengerInit /\ EconomyInit
    /\ served \in {"desk", "messenger", "economy"}

Next ==
    \/ /\ served = "desk" /\ DeskNext
       /\ UNCHANGED <<messengerVars, economyVars, served>>
    \/ /\ served = "messenger" /\ MessengerNext
       /\ UNCHANGED <<deskVars, economyVars, served>>
    \/ /\ served = "economy" /\ EconomyNext
       /\ UNCHANGED <<deskVars, messengerVars, served>>

Spec == Init /\ [][Next]_clientsVars

\* The types of the three parts; an executing block is not empty, messages other
\* than contact requests keep to the limit of the offline buffer, and contacts
\* are the pairs of accepted requests.
ClientsTypeOK ==
    CASE served = "desk"      -> DeskTypeOK
      [] served = "messenger" -> MessengerTypeOK
      [] served = "economy"   -> EconomyTypeOK
=============================================================================
