----------------------------- MODULE NonceDesk -----------------------------
(***************************************************************************)
(* Nonces of one sender, from the reservation to the block: AllocateNonce  *)
(* and ReleaseNonce, the two-phase admission (Core validates without a     *)
(* lock, the insertion is under mempoolAdmitMu), the escrow endpoint that  *)
(* releases on failure, gossip of transactions signed through another      *)
(* gateway, and the block worker that empties the queues meanwhile, with   *)
(* the undo of a block that could not be committed.  One worker at a time: *)
(* ConfirmBoundary has the confirm paths that run beside each other.       *)
(*                                                                         *)
(* A wallet follows the contract of AllocateNonce: it signs only with a    *)
(* nonce it was handed, and releases it at most once.  It may forget the   *)
(* nonce, and the answer to its submission may be lost.  Reservations are  *)
(* kept in memory: the module is about the time between two restarts, and  *)
(* about blocks that this gateway confirms.                                *)
(***************************************************************************)
EXTENDS Integers, FiniteSets

CONSTANTS Wallets,       \* sessions of the sender's wallet
          Escrowing,     \* those that also call the escrow endpoint
          Peer,          \* stands for the other gateway; not a wallet
          PeerNonces,    \* nonces the sender also signs through the other gateway
          MaxNonce,      \* bound: nonces are 0..MaxNonce
          ReserveAhead,  \* maxNonceReserveAhead
          MayBeInvalid   \* whose transactions Core may find invalid once pending

ASSUME DeskAssumption ==
    /\ MaxNonce \in Nat /\ ReserveAhead \in Nat
    /\ Peer \notin Wallets /\ PeerNonces \subseteq 0..MaxNonce

VARIABLES accountNonce,  \* the account's nonce in Core's state
          mempool, pendingBlock,
          confirming,    \* "applied": Core has executed the pending block;
                         \* "staged": the gateway has moved it, Rocks not yet committed it
          moved, backup, \* the staged transactions, and the account nonce of .l2bak
          confirmed,     \* confirmedHashes
          reserved,      \* nonceReserved[address]
          admitMu,       \* holder of mempoolAdmitMu, or Peer when it is free
          session,       \* what each wallet session is doing
          gossip,        \* the transaction of onMempoolAdd that Core has accepted
          admitted,      \* history: what ever entered the mempool
          undone         \* history: nonces of blocks that were undone

confirmVars == <<confirming, moved, backup, undone>>
queueVars == <<accountNonce, mempool, pendingBlock, confirmed, confirmVars>>
deskVars == <<queueVars, reserved, admitMu, session, gossip, admitted>>

Nonces == 0..MaxNonce
Txn(n, by) == [nonce |-> n, by |-> by]
Txns == [nonce : Nonces, by : Wallets \cup {Peer}]
Idle == [phase |-> "idle", escrow |-> FALSE, nonce |-> 0]
Sessions == [phase : {"idle", "asking", "holding", "checked", "refused"}, escrow : BOOLEAN, nonce : Nonces]
Queued == mempool \cup pendingBlock
Least(S) == CHOOSE n \in S : \A m \in S : n <= m

\* Nonces some transaction has been admitted with.
Taken == {t.nonce : t \in admitted}
Holds(w, n) == session[w].phase \in {"holding", "checked", "refused"} /\ session[w].nonce = n
MuFree == admitMu = Peer

DeskInit ==
    /\ accountNonce = 0
    /\ mempool = {} /\ pendingBlock = {} /\ confirmed = {} /\ admitted = {}
    /\ confirming = "no" /\ moved = {} /\ backup = 0 /\ undone = {}
    /\ reserved = {}
    /\ admitMu = Peer
    /\ session = [w \in Wallets |-> Idle]
    /\ gossip = {}

-----------------------------------------------------------------------------
(* Reservation. *)

HasInFlightNonce(n) == \E t \in Queued : t.nonce = n

\* AllocateNonce, or an escrow endpoint that was given no nonce: take the
\* mutex and ask Core for the account's nonce.
AllocateNonce(w) ==
    /\ session[w].phase = "idle" /\ MuFree
    /\ admitMu' = w
    /\ \E escrow \in BOOLEAN :
        /\ escrow => w \in Escrowing
        /\ session' = [session EXCEPT ![w] = [phase |-> "asking", escrow |-> escrow, nonce |-> accountNonce]]
    /\ UNCHANGED <<queueVars, reserved, gossip, admitted>>

\* Mutant: reservations of others are not looked at.
FreeInQueues(tip) == {n \in (tip..(tip + ReserveAhead)) \cap Nonces : ~HasInFlightNonce(n)}
FreeNonces(tip) == {n \in (tip..(tip + ReserveAhead)) \cap Nonces : n \notin reserved /\ ~HasInFlightNonce(n)}

\* The rest of allocateNonceLocked: the least free nonce from the account
\* nonce that was read, or an error.
allocateNonceLocked(w) ==
    /\ session[w].phase = "asking"
    /\ admitMu' = Peer
    /\ LET free == FreeNonces(session[w].nonce)
       IN  IF free = {}
           THEN session' = [session EXCEPT ![w] = Idle] /\ UNCHANGED reserved
           ELSE /\ reserved' = reserved \cup {Least(free)}
                /\ session' = [session EXCEPT ![w].phase = "holding", ![w].nonce = Least(free)]
    /\ UNCHANGED <<queueVars, gossip, admitted>>

\* releaseNonceLocked keeps the reservation of a nonce that is in flight.
releaseNonceLocked(n) ==
    /\ MuFree
    /\ reserved' = IF HasInFlightNonce(n) THEN reserved ELSE reserved \ {n}

ReleaseNonce(w) ==
    /\ session[w].phase = "holding" /\ ~session[w].escrow
    /\ releaseNonceLocked(session[w].nonce)
    /\ session' = [session EXCEPT ![w] = Idle]
    /\ UNCHANGED <<queueVars, admitMu, gossip, admitted>>

\* The wallet goes away: nothing ever frees the reservation.
WalletLeaves(w) ==
    /\ session[w].phase = "holding" /\ ~session[w].escrow
    /\ session' = [session EXCEPT ![w] = Idle]
    /\ UNCHANGED <<queueVars, reserved, admitMu, gossip, admitted>>

-----------------------------------------------------------------------------
(* Admission. *)

\* Core's mempool_admit on the state file and on AdmissionSnapshotJSON, the
\* mempool and the pending block.
MempoolAdmit(n) == n >= accountNonce /\ ~HasInFlightNonce(n)

\* submitCoreSignedTx, or SubmitEscrowLock with a nonce of the wallet or of
\* its own: Core accepts the signed transaction; no lock is held.
validateTxViaCore(w) ==
    /\ session[w].phase = "holding"
    /\ MempoolAdmit(session[w].nonce)
    /\ \E escrow \in BOOLEAN :
        /\ escrow => w \in Escrowing
        /\ session[w].escrow => escrow
        /\ session' = [session EXCEPT ![w].phase = "checked", ![w].escrow = escrow]
    /\ UNCHANGED <<queueVars, reserved, admitMu, gossip, admitted>>

\* The escrow endpoint fails to sign, to parse or to admit: it releases the
\* nonce.  (pg-sendtx just answers with the error; the wallet still holds it.)
SubmitEscrowFails(w) ==
    /\ session[w].phase \in {"holding", "refused"} /\ session[w].escrow
    /\ releaseNonceLocked(session[w].nonce)
    /\ session' = [session EXCEPT ![w] = Idle]
    /\ UNCHANGED <<queueVars, admitMu, gossip, admitted>>

\* Mutant: the pending block is not searched.
RefusedByMempool(t) == \E u \in mempool : u.nonce = t.nonce
Refused(t) == HasInFlightNonce(t.nonce)

Known(t) == t \in confirmed \cup Queued
AddToMempool(t) ==
    IF Known(t) THEN UNCHANGED <<mempool, admitted>>
    ELSE mempool' = mempool \cup {t} /\ admitted' = admitted \cup {t}

clearReservedNonceLocked(n) == reserved \ {n}

\* The insertion of a wallet's transaction; the answer may be lost.
admitToMempool(w) ==
    LET t == Txn(session[w].nonce, w)
    IN  /\ session[w].phase = "checked" /\ MuFree
        /\ IF ~Known(t) /\ Refused(t)
           THEN /\ session' = [session EXCEPT ![w].phase = IF session[w].escrow THEN "refused" ELSE "holding"]
                /\ UNCHANGED <<mempool, admitted, reserved>>
           ELSE /\ AddToMempool(t)
                /\ reserved' = clearReservedNonceLocked(t.nonce)
                /\ \/ session' = [session EXCEPT ![w] = Idle]
                   \/ ~session[w].escrow /\ session' = [session EXCEPT ![w].phase = "holding"]
        /\ UNCHANGED <<accountNonce, pendingBlock, confirmed, confirmVars, admitMu, gossip>>

\* onMempoolAdd, likewise in two phases: a transaction the sender signed
\* through another gateway, or an echo of one admitted here.
onMempoolAdd ==
    /\ gossip = {}
    /\ \E t \in admitted \cup {Txn(n, Peer) : n \in PeerNonces} :
        MempoolAdmit(t.nonce) /\ gossip' = {t}
    /\ UNCHANGED <<queueVars, reserved, admitMu, session, admitted>>

onMempoolAddInsert ==
    /\ MuFree
    /\ \E t \in gossip :
        /\ gossip' = {}
        /\ IF ~Known(t) /\ Refused(t)
           THEN UNCHANGED <<mempool, admitted, reserved>>
           ELSE AddToMempool(t) /\ reserved' = clearReservedNonceLocked(t.nonce)
    /\ UNCHANGED <<accountNonce, pendingBlock, confirmed, confirmVars, admitMu, session>>

-----------------------------------------------------------------------------
(* The block worker, which does not take mempoolAdmitMu. *)

Unique(S) == \A t, u \in S : t.nonce = u.nonce => t = u

\* PruneMempool: consumed nonces and second transactions of a nonce go; a
\* nonce that is ahead of the account's may have grown too old.
PruneMempool ==
    /\ \E kept \in SUBSET {t \in mempool : t.nonce >= accountNonce} :
        /\ Unique(kept)
        /\ (\E t \in mempool : t.nonce = accountNonce) => \E t \in kept : t.nonce = accountNonce
        /\ mempool' = kept
    /\ UNCHANGED <<accountNonce, pendingBlock, confirmed, confirmVars, reserved, admitMu, session, gossip, admitted>>

\* Core selects consecutive nonces; L1CollectSelected moves them.
L1Collect ==
    /\ pendingBlock = {} /\ confirming = "no"
    /\ \E picked \in SUBSET mempool, upTo \in Nonces :
        /\ picked # {} /\ Unique(picked)
        /\ {t.nonce : t \in picked} = accountNonce..upTo
        /\ pendingBlock' = picked
        /\ mempool' = mempool \ picked
    /\ UNCHANGED <<accountNonce, confirmed, confirmVars, reserved, admitMu, session, gossip, admitted>>

\* The committee or Core refuses: what Core found invalid is dropped, the rest
\* returns to the mempool.
AbandonPendingBlock ==
    /\ pendingBlock # {} /\ confirming = "no"
    /\ \E drop \in SUBSET {t \in pendingBlock : t.by \in MayBeInvalid} : mempool' = mempool \cup (pendingBlock \ drop)
    /\ pendingBlock' = {}
    /\ UNCHANGED <<accountNonce, confirmed, confirmVars, reserved, admitMu, session, gossip, admitted>>

\* The state is copied to .l2bak and Core executes the block.  (If that fails
\* the copy is put back, which changes nothing here.)
applyConfirmedTransactions ==
    /\ pendingBlock # {} /\ confirming = "no"
    /\ accountNonce + Cardinality(pendingBlock) \in Nonces
    /\ accountNonce' = accountNonce + Cardinality(pendingBlock)
    /\ confirming' = "applied" /\ backup' = accountNonce
    /\ UNCHANGED <<mempool, pendingBlock, confirmed, moved, undone, reserved, admitMu, session, gossip, admitted>>

\* The rest of L2ConfirmBlock: the block is staged, or chain.json cannot be
\* written and everything is put back under the same lock.
L2ConfirmBlock ==
    /\ confirming = "applied"
    /\ \/ /\ confirmed' = confirmed \cup pendingBlock /\ moved' = pendingBlock
          /\ pendingBlock' = {} /\ confirming' = "staged"
          /\ UNCHANGED <<accountNonce, backup>>
       \/ /\ accountNonce' = backup /\ backup' = 0 /\ confirming' = "no"
          /\ UNCHANGED <<confirmed, moved, pendingBlock>>
    /\ UNCHANGED <<mempool, undone, reserved, admitMu, session, gossip, admitted>>

\* Rocks takes the block.
DurableCommitAfterExplorer ==
    /\ confirming = "staged"
    /\ confirming' = "no" /\ moved' = {} /\ backup' = 0
    /\ UNCHANGED <<accountNonce, mempool, pendingBlock, confirmed, undone, reserved, admitMu, session, gossip, admitted>>

\* Rocks refuses it: the state of .l2bak comes back and the transactions are
\* pending again, whatever was admitted or reserved meanwhile.
UndoLastConfirmedBlock ==
    /\ confirming = "staged"
    /\ confirming' = "no" /\ moved' = {} /\ backup' = 0
    /\ accountNonce' = backup
    /\ confirmed' = confirmed \ moved
    /\ pendingBlock' = pendingBlock \cup moved
    /\ undone' = undone \cup {t.nonce : t \in moved}
    /\ UNCHANGED <<mempool, reserved, admitMu, session, gossip, admitted>>

DeskNext ==
    \/ \E w \in Wallets :
        \/ AllocateNonce(w) \/ allocateNonceLocked(w) \/ ReleaseNonce(w) \/ WalletLeaves(w)
        \/ validateTxViaCore(w) \/ SubmitEscrowFails(w) \/ admitToMempool(w)
    \/ onMempoolAdd \/ onMempoolAddInsert
    \/ PruneMempool \/ L1Collect \/ AbandonPendingBlock
    \/ applyConfirmedTransactions \/ L2ConfirmBlock
    \/ DurableCommitAfterExplorer \/ UndoLastConfirmedBlock

DeskSpec == DeskInit /\ [][DeskNext]_deskVars

-----------------------------------------------------------------------------
(* Properties. *)

\* The types of the desk's state; a nonce is never held below zero or past
\* the bound, and the pending block is never executed when it is empty.
DeskTypeOK ==
    /\ accountNonce \in Nonces
    /\ mempool \subseteq Txns /\ pendingBlock \subseteq Txns
    /\ confirmed \subseteq Txns /\ admitted \subseteq Txns /\ gossip \subseteq Txns
    /\ confirming \in {"no", "applied", "staged"} /\ (confirming = "applied" => pendingBlock # {})
    /\ moved \subseteq Txns /\ backup \in Nonces /\ undone \subseteq Nonces
    /\ reserved \subseteq Nonces
    /\ admitMu \in Wallets \cup {Peer}
    /\ session \in [Wallets -> Sessions]

\* AllocateNonce's promise while the gateway runs: until some transaction with the nonce has been
\* admitted, at most one session of the wallet holds it, whatever is released,
\* forgotten, gossiped, confirmed or pruned in between.
HandedOutOnce ==
    \A n \in Nonces \ Taken : \A v, w \in Wallets : Holds(v, n) /\ Holds(w, n) => v = w

\* Two transactions in flight never have the same nonce, although Core
\* validates each without a lock and the worker moves the queue meanwhile,
\* unless a block with that nonce was undone: the undo does not look.
OneTxPerNonce == \A t, u \in Queued : t.nonce = u.nonce => t = u \/ t.nonce \in undone

=============================================================================
