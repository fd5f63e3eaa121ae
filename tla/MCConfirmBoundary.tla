------------------------- MODULE MCConfirmBoundary -------------------------
(***************************************************************************)
(* Small instances of ConfirmBoundary.  t1 and t2 are consecutive          *)
(* transactions of one account; the runs with two confirm goroutines use   *)
(* t1 alone.                                                               *)
(***************************************************************************)
EXTENDS ConfirmBoundary, TLC

CONSTANTS t1, t2, alice

TwoTxs == {t1, t2}
OneTx == {t1}
OneAccount == {alice}
MCSender == [t \in Tx |-> alice]
MCNonce == [t \in Tx |-> IF t = t1 THEN 0 ELSE 1]

\* Confirm goroutines are interchangeable.
ProcSymmetry == Permutations(Procs)
=============================================================================
