----------------------------- MODULE MCRestart -----------------------------
(***************************************************************************)
(* Small instances of Restart.  Every transaction is the first of an       *)
(* account of its own (OwnAccounts), or all belong to one account with     *)
(* consecutive nonces (OneAccount).  The timestamps are t0 < t2 < t1 < t3, *)
(* so t2 can be older than the last block.                                 *)
(***************************************************************************)
EXTENDS Restart

CONSTANTS t0, t1, t2, t3

One == {t0, t1}
Two == {t0, t1, t2}
Three == {t0, t1, t2, t3}
MCStamp == [t \in Tx |-> CASE t = t0 -> 1 [] t = t2 -> 2 [] t = t1 -> 3 [] t = t3 -> 4]

OwnAccounts == [t \in Tx |-> t]
FirstNonce == [t \in Tx |-> 0]
OneAccount == [t \in Tx |-> t0]
Consecutive == [t \in Tx |-> CASE t = t0 -> 0 [] t = t1 -> 1 [] t = t2 -> 2 [] t = t3 -> 3]
=============================================================================
