------------------------------ MODULE Accounts ------------------------------
(***************************************************************************)
(* Transactions and account nonces as Core sees them.  Core is outside the *)
(* repository: this is what the gateway relies on.  A transaction is an    *)
(* atom with a sender and a nonce, an account state is the set of          *)
(* transactions executed so far.                                           *)
(***************************************************************************)
EXTENDS Integers, FiniteSets

CONSTANTS
    Tx,         \* transactions (a hash and a body)
    Account,    \* accounts
    Sender,     \* Sender[t]: the account that transaction t spends from
    Nonce       \* Nonce[t]: its account nonce

ASSUME TxAssumption == Sender \in [Tx -> Account] /\ Nonce \in [Tx -> Nat]

\* Core executes a batch when, for every account, its nonces continue the
\* account's nonce without a gap or a repetition.
NextNonce(executed, a) == Cardinality({t \in executed : Sender[t] = a})
Executable(executed, batch) ==
    \A a \in Account :
        LET mine == {t \in batch : Sender[t] = a}
            n    == NextNonce(executed, a)
        IN  {Nonce[t] : t \in mine} = n .. n + Cardinality(mine) - 1

\* The account state has consumed the nonce of t.
Consumed(executed, t) == Nonce[t] < NextNonce(executed, Sender[t])

SameSlot(t, u) == Sender[t] = Sender[u] /\ Nonce[t] = Nonce[u]
=============================================================================
