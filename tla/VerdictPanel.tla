---------------------------- MODULE VerdictPanel ----------------------------
(***************************************************************************)
(* What the volunteer panel promises to the parties of a deal, without     *)
(* files, heights or restarts: five volunteers are seated once, each seals *)
(* one verdict and may open it once, and an announced verdict is one that  *)
(* at least three of them opened.                                          *)
(***************************************************************************)
EXTENDS FiniteSets, Naturals

CONSTANTS Volunteers, Escrows, Verdicts, None

VARIABLES seats, sealed, opened, announced

panelVars == <<seats, sealed, opened, announced>>

PanelInit ==
    /\ seats = [e \in Escrows |-> {}]
    /\ sealed = [e \in Escrows |-> [k \in Volunteers |-> None]]
    /\ opened = [e \in Escrows |-> [k \in Volunteers |-> None]]
    /\ announced = [e \in Escrows |-> {}]

Seat(e, panel) ==
    /\ seats[e] = {}
    /\ Cardinality(panel) = 5
    /\ seats' = [seats EXCEPT ![e] = panel]
    /\ UNCHANGED <<sealed, opened, announced>>

Seal(e, k, v) ==
    /\ k \in seats[e] /\ sealed[e][k] = None
    /\ sealed' = [sealed EXCEPT ![e][k] = v]
    /\ UNCHANGED <<seats, opened, announced>>

Unseal(e, k) ==
    /\ k \in seats[e] /\ sealed[e][k] # None /\ opened[e][k] = None
    /\ opened' = [opened EXCEPT ![e][k] = sealed[e][k]]
    /\ UNCHANGED <<seats, sealed, announced>>

Announce(e, v) ==
    /\ Cardinality({k \in seats[e] : opened[e][k] = v}) >= 3
    /\ announced[e] \subseteq {v}
    /\ announced' = [announced EXCEPT ![e] = {v}]
    /\ UNCHANGED <<seats, sealed, opened>>

PanelNext ==
    \E e \in Escrows :
        \/ \E panel \in SUBSET Volunteers : Seat(e, panel)
        \/ \E k \in Volunteers, v \in Verdicts : Seal(e, k, v)
        \/ \E k \in Volunteers : Unseal(e, k)
        \/ \E v \in Verdicts : Announce(e, v)

PanelSpec == PanelInit /\ [][PanelNext]_panelVars
=============================================================================
