------------------------------ MODULE MCStores ------------------------------
(***************************************************************************)
(* Small instances of the two stores that decide about money once: the     *)
(* book of dispute panels and the faucet's cooldown.  They share no state, *)
(* so a behaviour moves one of them.                                       *)
(*                                                                         *)
(* Five volunteers can be seated and a sixth is always excluded; the       *)
(* seated ones are interchangeable.                                        *)
(***************************************************************************)
EXTENDS DealBook, Faucet, TLC

CONSTANTS v1, v2, v3, v4, v5, w

MCVolunteers == {v1, v2, v3, v4, v5, w}
MCPools == {{}, MCVolunteers}
MCExclusions == {{w}}
SeatSymmetry == Permutations({v1, v2, v3, v4, v5})

VARIABLE store      \* the store that moves

storesVars == <<dealVars, faucetVars, store>>

Init == DealInit /\ FaucetInit /\ store \in {"deals", "faucet"}

Next ==
    \/ store = "deals" /\ DealNext /\ UNCHANGED <<faucetVars, store>>
    \/ store = "faucet" /\ FaucetNext /\ UNCHANGED <<dealVars, store>>

Spec == Init /\ [][Next]_storesVars

\* The types of both stores; a panel of the book has five members, and a faucet
\* claim is in its file before the credit is tried.
StoresTypeOK == DealTypeOK /\ FaucetTypeOK
=============================================================================
