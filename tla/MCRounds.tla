------------------------------ MODULE MCRounds ------------------------------
(***************************************************************************)
(* Two gateways run three rounds over two transactions, of which Core      *)
(* selects one for a block.                                                *)
(***************************************************************************)
EXTENDS VoteRounds

CONSTANTS a, b, t1, t2

AB == {a, b}
TwoTxs == {t1, t2}
OneByOne == {{t1}, {t2}}
=============================================================================
