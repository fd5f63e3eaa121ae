--------------------------- MODULE NonceDeskProofs --------------------------
(***************************************************************************)
(* The promises of the nonce desk, for any number of wallet sessions, any  *)
(* range of nonces and any reservation window.                             *)
(***************************************************************************)
EXTENDS NonceDesk, TLAPS

\* A nonce is never reserved and in flight at once: the reservation is
\* consumed with the insertion, and none is made for a queued nonce.  Here too
\* a nonce whose block was undone is the exception.
ReservedNotInFlight == \A n \in reserved \ undone : ~HasInFlightNonce(n)

\* What is queued, staged or confirmed was admitted.
AdmittedAll == Queued \cup confirmed \cup moved \subseteq admitted

\* A nonce that a session holds stays reserved until it is taken.
HeldReserved == \A w \in Wallets : \A n \in Nonces \ Taken : Holds(w, n) => n \in reserved

QueueInv == AdmittedAll /\ OneTxPerNonce /\ ReservedNotInFlight
DeskInv == DeskTypeOK /\ QueueInv /\ HeldReserved /\ HandedOutOnce

\* The queues lose transactions, or swap them, and no nonce is reserved.
QueuesShrink ==
    /\ Queued' \subseteq Queued
    /\ Queued' \cup confirmed' \cup moved' \subseteq Queued \cup confirmed \cup moved
    /\ reserved' \subseteq reserved
    /\ undone' = undone
    /\ admitted' = admitted

\* A transaction was already known, or is queued under a nonce not in flight;
\* its reservation is consumed.
Inserted(t) ==
    /\ reserved' = reserved \ {t.nonce}
    /\ UNCHANGED <<confirmed, moved, undone>>
    /\ \/ Known(t) /\ Queued' = Queued /\ admitted' = admitted
       \/ ~HasInFlightNonce(t.nonce) /\ Queued' = Queued \cup {t} /\ admitted' = admitted \cup {t}

\* A non-empty set of nonces has a least element; shown at the end, before the
\* theorems.
LeastIsIn == \A S \in SUBSET Nat : S # {} => Least(S) \in S

\* The free nonces of a window are nonces.
LEMMA FreeNoncesType ==
    ASSUME NEW tip
    PROVE  FreeNonces(tip) \subseteq Nonces /\ FreeNonces(tip) \subseteq Nat
BY DeskAssumption DEF FreeNonces, Nonces

-----------------------------------------------------------------------------
(* What the actions do to the queues. *)

\* The block worker only moves and drops transactions.
LEMMA WorkerShrinks ==
    ASSUME \/ PruneMempool \/ L1Collect \/ AbandonPendingBlock
           \/ applyConfirmedTransactions \/ L2ConfirmBlock \/ DurableCommitAfterExplorer
    PROVE  QueuesShrink /\ UNCHANGED <<reserved, session>>
<1>1. CASE PruneMempool
    BY <1>1 DEF PruneMempool, QueuesShrink, Queued, confirmVars
<1>2. CASE L1Collect
    BY <1>2 DEF L1Collect, QueuesShrink, Queued, confirmVars
<1>3. CASE AbandonPendingBlock
    BY <1>3 DEF AbandonPendingBlock, QueuesShrink, Queued, confirmVars
<1>4. CASE applyConfirmedTransactions
    BY <1>4 DEF applyConfirmedTransactions, QueuesShrink, Queued
<1>5. CASE L2ConfirmBlock
    BY <1>5 DEF L2ConfirmBlock, QueuesShrink, Queued
<1>6. CASE DurableCommitAfterExplorer
    BY <1>6 DEF DurableCommitAfterExplorer, QueuesShrink, Queued
<1>. QED
    BY <1>1, <1>2, <1>3, <1>4, <1>5, <1>6

\* The insertion under mempoolAdmitMu, of a wallet's transaction or of gossip.
LEMMA InsertionInserts ==
    ASSUME NEW t, ~(~Known(t) /\ Refused(t)), AddToMempool(t),
           reserved' = clearReservedNonceLocked(t.nonce),
           UNCHANGED <<pendingBlock, confirmed, moved, undone>>
    PROVE  Inserted(t)
<1>1. CASE Known(t)
    BY <1>1 DEF AddToMempool, Inserted, Queued, clearReservedNonceLocked
<1>2. CASE ~Known(t)
    BY <1>2 DEF AddToMempool, Inserted, Queued, clearReservedNonceLocked, Refused
<1>. QED
    BY <1>1, <1>2

\* A shrinking of the queues keeps what is said of them.
LEMMA ShrinkKeepsQueues ==
    ASSUME QueueInv, QueuesShrink
    PROVE  QueueInv'
<1>1. AdmittedAll'
    BY DEF QueueInv, QueuesShrink, AdmittedAll
<1>2. OneTxPerNonce'
    BY DEF QueueInv, QueuesShrink, OneTxPerNonce
<1>3. ReservedNotInFlight'
    BY DEF QueueInv, QueuesShrink, ReservedNotInFlight, HasInFlightNonce
<1>. QED
    BY <1>1, <1>2, <1>3 DEF QueueInv

\* So does an insertion.
LEMMA InsertKeepsQueues ==
    ASSUME NEW t, QueueInv, Inserted(t)
    PROVE  QueueInv'
<1>1. AdmittedAll'
    BY DEF QueueInv, Inserted, AdmittedAll
<1>2. OneTxPerNonce'
    BY DEF QueueInv, Inserted, OneTxPerNonce, HasInFlightNonce
<1>3. ReservedNotInFlight'
    BY DEF QueueInv, Inserted, ReservedNotInFlight, HasInFlightNonce
<1>. QED
    BY <1>1, <1>2, <1>3 DEF QueueInv

\* The undo queues the staged transactions again; their nonces are undone.
LEMMA UndoKeepsQueues ==
    ASSUME QueueInv, UndoLastConfirmedBlock
    PROVE  QueueInv'
<1>1. /\ Queued' = Queued \cup moved
      /\ undone' = undone \cup {t.nonce : t \in moved}
      /\ confirmed' \subseteq confirmed /\ moved' = {}
      /\ UNCHANGED <<reserved, admitted>>
    BY DEF UndoLastConfirmedBlock, Queued
<1>2. AdmittedAll'
    BY <1>1 DEF QueueInv, AdmittedAll
<1>3. OneTxPerNonce'
    BY <1>1 DEF QueueInv, OneTxPerNonce
<1>4. ReservedNotInFlight'
    BY <1>1 DEF QueueInv, ReservedNotInFlight, HasInFlightNonce
<1>. QED
    BY <1>2, <1>3, <1>4 DEF QueueInv

\* After an insertion the nonce of the transaction is taken.
LEMMA InsertTakes ==
    ASSUME NEW t, QueueInv, Inserted(t)
    PROVE  Taken' = Taken \cup {t.nonce}
BY DEF QueueInv, Inserted, AdmittedAll, Taken, Known

-----------------------------------------------------------------------------
(* The sessions. *)

\* A step that keeps, per session, the nonces it holds, and reserves no less of
\* the nonces not taken, keeps the reservations of the holders.
LEMMA HoldersKept ==
    ASSUME HeldReserved, HandedOutOnce,
           Taken \subseteq Taken',
           \A w \in Wallets, n \in Nonces \ Taken' : Holds(w, n)' => Holds(w, n),
           reserved \ Taken' \subseteq reserved'
    PROVE  HeldReserved' /\ HandedOutOnce'
<1>1. HeldReserved'
    BY DEF HeldReserved, Nonces
<1>2. HandedOutOnce'
    BY DEF HandedOutOnce, Nonces
<1>. QED
    BY <1>1, <1>2

\* A session that is given a nonce nobody has reserved.
LEMMA HolderAdded ==
    ASSUME HeldReserved, HandedOutOnce,
           NEW v \in Wallets, NEW k \in Nonces, k \notin reserved,
           reserved' = reserved \cup {k}, admitted' = admitted,
           \A w \in Wallets \ {v}, n \in Nonces : Holds(w, n)' => Holds(w, n),
           \A n \in Nonces : Holds(v, n)' => n = k
    PROVE  HeldReserved' /\ HandedOutOnce'
<1>1. Taken' = Taken
    BY DEF Taken
<1>2. HeldReserved'
    BY <1>1 DEF HeldReserved, Nonces
<1>3. ASSUME NEW n \in Nonces \ Taken, NEW u \in Wallets, NEW w \in Wallets,
             Holds(u, n)', Holds(w, n)'
      PROVE  u = w
    <2>1. CASE n = k
        <3>1. ASSUME NEW x \in Wallets \ {v}, Holds(x, n)' PROVE FALSE
            BY <3>1, <2>1 DEF HeldReserved
        <3>. QED
            BY <3>1, <1>3
    <2>2. CASE n # k
        <3>1. u # v /\ w # v
            BY <2>2, <1>3
        <3>. QED
            BY <3>1, <1>3 DEF HandedOutOnce
    <2>. QED
        BY <2>1, <2>2
<1>4. HandedOutOnce'
    BY <1>1, <1>3 DEF HandedOutOnce, Nonces
<1>. QED
    BY <1>2, <1>4

\* A session gives its nonce back.
LEMMA HolderReleased ==
    ASSUME HeldReserved, HandedOutOnce,
           NEW v \in Wallets, NEW k \in Nonces, Holds(v, k),
           reserved' \in {reserved, reserved \ {k}}, admitted' = admitted,
           \A w \in Wallets \ {v}, n \in Nonces : Holds(w, n)' => Holds(w, n),
           \A n \in Nonces : ~Holds(v, n)'
    PROVE  HeldReserved' /\ HandedOutOnce'
<1>1. Taken' = Taken
    BY DEF Taken
<1>2. \A w \in Wallets, n \in Nonces : Holds(w, n)' => w # v /\ Holds(w, n)
    OBVIOUS
<1>3. HandedOutOnce'
    BY <1>1, <1>2 DEF HandedOutOnce, Nonces
<1>4. ASSUME NEW w \in Wallets, NEW n \in Nonces \ Taken, Holds(w, n)'
      PROVE  n \in reserved'
    <2>1. w # v /\ Holds(w, n)
        BY <1>2, <1>4
    <2>2. n # k
        BY <2>1 DEF HandedOutOnce
    <2>3. n \in reserved
        BY <2>1 DEF HeldReserved
    <2>. QED
        BY <2>2, <2>3
<1>5. HeldReserved'
    BY <1>1, <1>4 DEF HeldReserved, Nonces
<1>. QED
    BY <1>3, <1>5

-----------------------------------------------------------------------------
(* Types. *)

\* The reservation and the admission of a wallet keep the types.
LEMMA WalletTypes ==
    ASSUME LeastIsIn, DeskTypeOK, NEW w \in Wallets,
           \/ AllocateNonce(w) \/ allocateNonceLocked(w) \/ ReleaseNonce(w) \/ WalletLeaves(w)
           \/ validateTxViaCore(w) \/ SubmitEscrowFails(w) \/ admitToMempool(w)
    PROVE  DeskTypeOK'
<1>0. Idle \in Sessions
    BY DeskAssumption DEF Idle, Sessions, Nonces
<1>1. CASE AllocateNonce(w)
    BY <1>1 DEF AllocateNonce, DeskTypeOK, Sessions, queueVars, confirmVars
<1>2. CASE allocateNonceLocked(w)
    <2>1. CASE FreeNonces(session[w].nonce) = {}
        BY <1>0, <1>2, <2>1 DEF allocateNonceLocked, DeskTypeOK, queueVars, confirmVars
    <2>2. CASE FreeNonces(session[w].nonce) # {}
        <3>1. Least(FreeNonces(session[w].nonce)) \in Nonces
            BY <2>2, FreeNoncesType DEF LeastIsIn
        <3>2. /\ reserved' = reserved \cup {Least(FreeNonces(session[w].nonce))}
              /\ session' = [session EXCEPT ![w].phase = "holding",
                                            ![w].nonce = Least(FreeNonces(session[w].nonce))]
              /\ admitMu' = Peer
              /\ UNCHANGED <<queueVars, gossip, admitted>>
            BY <1>2, <2>2 DEF allocateNonceLocked
        <3>3. session' \in [Wallets -> Sessions]
            BY <3>1, <3>2 DEF DeskTypeOK, Sessions
        <3>. QED
            BY <3>1, <3>2, <3>3 DEF DeskTypeOK, queueVars, confirmVars
    <2>. QED
        BY <2>1, <2>2
<1>3. CASE ReleaseNonce(w)
    BY <1>0, <1>3 DEF ReleaseNonce, releaseNonceLocked, DeskTypeOK, queueVars, confirmVars
<1>4. CASE WalletLeaves(w)
    BY <1>0, <1>4 DEF WalletLeaves, DeskTypeOK, queueVars, confirmVars
<1>5. CASE validateTxViaCore(w)
    <2>1. PICK escrow \in BOOLEAN :
              session' = [session EXCEPT ![w].phase = "checked", ![w].escrow = escrow]
        BY <1>5 DEF validateTxViaCore
    <2>2. session' \in [Wallets -> Sessions]
        BY <2>1 DEF DeskTypeOK, Sessions
    <2>. QED
        BY <1>5, <2>2 DEF validateTxViaCore, DeskTypeOK, queueVars, confirmVars
<1>6. CASE SubmitEscrowFails(w)
    BY <1>0, <1>6 DEF SubmitEscrowFails, releaseNonceLocked, DeskTypeOK, queueVars, confirmVars
<1>7. CASE admitToMempool(w)
    <2>1. Txn(session[w].nonce, w) \in Txns
        BY DEF DeskTypeOK, Sessions, Txn, Txns
    <2>2. session' \in [Wallets -> Sessions]
        BY <1>0, <1>7 DEF admitToMempool, DeskTypeOK, Sessions
    <2>3. mempool' \subseteq Txns /\ admitted' \subseteq Txns /\ reserved' \subseteq Nonces
        BY <1>7, <2>1 DEF admitToMempool, AddToMempool, clearReservedNonceLocked, DeskTypeOK
    <2>. QED
        BY <1>7, <2>2, <2>3 DEF admitToMempool, DeskTypeOK, confirmVars
<1>. QED
    BY <1>1, <1>2, <1>3, <1>4, <1>5, <1>6, <1>7

\* So do gossip and the block worker.
LEMMA OtherTypes ==
    ASSUME DeskTypeOK,
           \/ onMempoolAdd \/ onMempoolAddInsert
           \/ PruneMempool \/ L1Collect \/ AbandonPendingBlock
           \/ applyConfirmedTransactions \/ L2ConfirmBlock
           \/ DurableCommitAfterExplorer \/ UndoLastConfirmedBlock
    PROVE  DeskTypeOK'
<1>1. CASE onMempoolAdd
    <2>1. \A n \in PeerNonces : Txn(n, Peer) \in Txns
        BY DeskAssumption DEF Txn, Txns, Nonces
    <2>. QED
        BY <1>1, <2>1 DEF onMempoolAdd, DeskTypeOK, queueVars, confirmVars
<1>2. CASE onMempoolAddInsert
    <2>1. PICK t \in gossip :
              /\ gossip' = {}
              /\ IF ~Known(t) /\ Refused(t)
                 THEN UNCHANGED <<mempool, admitted, reserved>>
                 ELSE AddToMempool(t) /\ reserved' = clearReservedNonceLocked(t.nonce)
        BY <1>2 DEF onMempoolAddInsert
    <2>2. mempool' \subseteq Txns /\ admitted' \subseteq Txns
        BY <2>1 DEF AddToMempool, DeskTypeOK
    <2>3. reserved' \subseteq Nonces
        BY <2>1 DEF clearReservedNonceLocked, DeskTypeOK
    <2>4. UNCHANGED <<accountNonce, pendingBlock, confirmed, confirming, moved, backup, undone, admitMu, session>>
        BY <1>2 DEF onMempoolAddInsert, confirmVars
    <2>. QED
        BY <2>1, <2>2, <2>3, <2>4 DEF DeskTypeOK
<1>3. CASE PruneMempool
    BY <1>3 DEF PruneMempool, DeskTypeOK, confirmVars
<1>4. CASE L1Collect
    BY <1>4 DEF L1Collect, DeskTypeOK, confirmVars
<1>5. CASE AbandonPendingBlock
    BY <1>5 DEF AbandonPendingBlock, DeskTypeOK, confirmVars
<1>6. CASE applyConfirmedTransactions
    BY <1>6 DEF applyConfirmedTransactions, DeskTypeOK
<1>7. CASE L2ConfirmBlock
    BY <1>7, DeskAssumption DEF L2ConfirmBlock, DeskTypeOK, Nonces
<1>8. CASE DurableCommitAfterExplorer
    BY <1>8, DeskAssumption DEF DurableCommitAfterExplorer, DeskTypeOK, Nonces
<1>9. CASE UndoLastConfirmedBlock
    <2>1. {t.nonce : t \in moved} \subseteq Nonces
        BY DEF DeskTypeOK, Txns
    <2>2. accountNonce' \in Nonces /\ backup' \in Nonces
        BY <1>9, DeskAssumption DEF UndoLastConfirmedBlock, DeskTypeOK, Nonces
    <2>3. undone' \subseteq Nonces /\ reserved' \subseteq Nonces
        BY <1>9, <2>1 DEF UndoLastConfirmedBlock, DeskTypeOK
    <2>4. /\ mempool' \subseteq Txns /\ pendingBlock' \subseteq Txns
          /\ confirmed' \subseteq Txns /\ moved' \subseteq Txns
        BY <1>9 DEF UndoLastConfirmedBlock, DeskTypeOK
    <2>5. /\ confirming' = "no"
          /\ UNCHANGED <<mempool, admitMu, session, gossip, admitted>>
        BY <1>9 DEF UndoLastConfirmedBlock
    <2>. QED
        BY <2>2, <2>3, <2>4, <2>5 DEF DeskTypeOK
<1>. QED
    BY <1>1, <1>2, <1>3, <1>4, <1>5, <1>6, <1>7, <1>8, <1>9

-----------------------------------------------------------------------------
(* Every step keeps the inductive invariant. *)

\* The reservation steps of a session.
LEMMA ReservationStep ==
    ASSUME LeastIsIn, DeskInv, NEW w \in Wallets,
           \/ AllocateNonce(w) \/ allocateNonceLocked(w) \/ ReleaseNonce(w) \/ WalletLeaves(w)
           \/ validateTxViaCore(w) \/ SubmitEscrowFails(w)
    PROVE  QueueInv' /\ HeldReserved' /\ HandedOutOnce'
<1>0. QueueInv /\ HeldReserved /\ HandedOutOnce /\ DeskTypeOK
    BY DEF DeskInv
<1>1. session \in [Wallets -> Sessions] /\ session[w].nonce \in Nonces
    BY <1>0 DEF DeskTypeOK, Sessions
<1>2. CASE AllocateNonce(w)
    <2>1. QueuesShrink
        BY <1>2 DEF AllocateNonce, QueuesShrink, queueVars, confirmVars, Queued
    <2>2. \A v \in Wallets, n \in Nonces : Holds(v, n)' => Holds(v, n)
        BY <1>1, <1>2 DEF AllocateNonce, Holds
    <2>3. Taken' = Taken /\ reserved' = reserved
        BY <1>2 DEF AllocateNonce, Taken
    <2>. QED
        BY <1>0, <2>1, <2>2, <2>3, ShrinkKeepsQueues, HoldersKept
<1>3. CASE allocateNonceLocked(w)
    <2>1. CASE FreeNonces(session[w].nonce) = {}
        <3>1. QueuesShrink
            BY <1>3, <2>1 DEF allocateNonceLocked, QueuesShrink, queueVars, confirmVars, Queued
        <3>2. QueueInv'
            BY <1>0, <3>1, ShrinkKeepsQueues
        <3>3. \A v \in Wallets, n \in Nonces : Holds(v, n)' => Holds(v, n)
            BY <1>1, <1>3, <2>1 DEF allocateNonceLocked, Holds, Idle
        <3>4. Taken' = Taken /\ reserved' = reserved
            BY <1>3, <2>1 DEF allocateNonceLocked, Taken
        <3>. QED
            BY <1>0, <3>2, <3>3, <3>4, HoldersKept
    <2>2. CASE FreeNonces(session[w].nonce) # {}
        <3>. DEFINE k == Least(FreeNonces(session[w].nonce))
        <3>1. k \in FreeNonces(session[w].nonce) /\ k \in Nonces
            BY <2>2, FreeNoncesType DEF LeastIsIn
        <3>2. k \notin reserved /\ ~HasInFlightNonce(k)
            BY <3>1 DEF FreeNonces
        <3>3. /\ reserved' = reserved \cup {k}
              /\ session' = [session EXCEPT ![w].phase = "holding", ![w].nonce = k]
              /\ UNCHANGED <<queueVars, admitted>>
            BY <1>3, <2>2 DEF allocateNonceLocked
        <3>. HIDE DEF k
        <3>4. Queued' = Queued /\ UNCHANGED <<confirmed, moved, undone>>
            BY <3>3 DEF queueVars, confirmVars, Queued
        <3>5. QueueInv'
            BY <1>0, <3>2, <3>3, <3>4
               DEF QueueInv, AdmittedAll, OneTxPerNonce, ReservedNotInFlight, HasInFlightNonce
        <3>6. \A v \in Wallets \ {w}, n \in Nonces : Holds(v, n)' => Holds(v, n)
            BY <1>1, <3>3 DEF Holds
        <3>7. \A n \in Nonces : Holds(w, n)' => n = k
            BY <1>1, <3>3 DEF Holds, Sessions
        <3>. QED
            BY <1>0, <3>1, <3>2, <3>3, <3>5, <3>6, <3>7, HolderAdded
    <2>. QED
        BY <2>1, <2>2
<1>4. CASE ReleaseNonce(w) \/ SubmitEscrowFails(w)
    <2>. DEFINE k == session[w].nonce
    <2>1. /\ Holds(w, k)
          /\ reserved' \in {reserved, reserved \ {k}}
          /\ session' = [session EXCEPT ![w] = Idle]
          /\ UNCHANGED <<queueVars, admitted>>
        BY <1>4 DEF ReleaseNonce, SubmitEscrowFails, releaseNonceLocked, Holds
    <2>2. k \in Nonces
        BY <1>1
    <2>. HIDE DEF k
    <2>3. QueuesShrink
        BY <2>1 DEF QueuesShrink, queueVars, confirmVars, Queued
    <2>4. QueueInv'
        BY <1>0, <2>3, ShrinkKeepsQueues
    <2>5. \A v \in Wallets \ {w}, n \in Nonces : Holds(v, n)' => Holds(v, n)
        BY <1>1, <2>1 DEF Holds
    <2>6. \A n \in Nonces : ~Holds(w, n)'
        BY <1>1, <2>1 DEF Holds, Idle
    <2>. QED
        BY <1>0, <2>1, <2>2, <2>4, <2>5, <2>6, HolderReleased
<1>5. CASE WalletLeaves(w) \/ validateTxViaCore(w)
    <2>1. QueuesShrink /\ reserved' = reserved
        BY <1>5 DEF WalletLeaves, validateTxViaCore, QueuesShrink, queueVars, confirmVars, Queued
    <2>2. QueueInv'
        BY <1>0, <2>1, ShrinkKeepsQueues
    <2>3. \A v \in Wallets, n \in Nonces : Holds(v, n)' => Holds(v, n)
        BY <1>1, <1>5 DEF WalletLeaves, validateTxViaCore, Holds, Idle, Sessions
    <2>4. Taken' = Taken
        BY <2>1 DEF QueuesShrink, Taken
    <2>. QED
        BY <1>0, <2>1, <2>2, <2>3, <2>4, HoldersKept
<1>. QED
    BY <1>2, <1>3, <1>4, <1>5

\* A transaction enters the mempool, or is refused, while the sessions hold no
\* other nonces than before.
LEMMA AdmissionStep ==
    ASSUME DeskInv, NEW t, UNCHANGED <<pendingBlock, confirmed, moved, undone>>,
           IF ~Known(t) /\ Refused(t)
           THEN UNCHANGED <<mempool, admitted, reserved>>
           ELSE AddToMempool(t) /\ reserved' = clearReservedNonceLocked(t.nonce),
           \A w \in Wallets, n \in Nonces : Holds(w, n)' => Holds(w, n)
    PROVE  QueueInv' /\ HeldReserved' /\ HandedOutOnce'
<1>0. QueueInv /\ HeldReserved /\ HandedOutOnce
    BY DEF DeskInv
<1>1. CASE ~Known(t) /\ Refused(t)
    <2>1. QueuesShrink /\ reserved' = reserved
        BY <1>1 DEF QueuesShrink, Queued
    <2>2. Taken' = Taken
        BY <2>1 DEF QueuesShrink, Taken
    <2>. QED
        BY <1>0, <2>1, <2>2, ShrinkKeepsQueues, HoldersKept
<1>2. CASE ~(~Known(t) /\ Refused(t))
    <2>1. Inserted(t)
        BY <1>2, InsertionInserts
    <2>2. QueueInv' /\ Taken' = Taken \cup {t.nonce}
        BY <1>0, <2>1, InsertKeepsQueues, InsertTakes
    <2>3. reserved \ Taken' \subseteq reserved'
        BY <2>1, <2>2 DEF Inserted
    <2>. QED
        BY <1>0, <2>2, <2>3, HoldersKept
<1>. QED
    BY <1>1, <1>2

\* The inductive invariant is kept by every step.
LEMMA DeskInvStep == LeastIsIn /\ DeskInv /\ [DeskNext]_deskVars => DeskInv'
<1>. SUFFICES ASSUME LeastIsIn, DeskInv, [DeskNext]_deskVars
              PROVE  DeskInv'
    OBVIOUS
<1>0. DeskTypeOK /\ QueueInv /\ HeldReserved /\ HandedOutOnce
    BY DEF DeskInv
<1>1. ASSUME NEW w \in Wallets,
             \/ AllocateNonce(w) \/ allocateNonceLocked(w) \/ ReleaseNonce(w) \/ WalletLeaves(w)
             \/ validateTxViaCore(w) \/ SubmitEscrowFails(w)
      PROVE  DeskInv'
    BY <1>0, <1>1, WalletTypes, ReservationStep DEF DeskInv
<1>2. ASSUME NEW w \in Wallets, admitToMempool(w)
      PROVE  DeskInv'
    <2>1. \A v \in Wallets, n \in Nonces : Holds(v, n)' => Holds(v, n)
        <3>1. /\ session[w].phase = "checked"
              /\ \/ session' = [session EXCEPT ![w] = Idle]
                 \/ \E l \in {"holding", "refused"} : session' = [session EXCEPT ![w].phase = l]
            BY <1>2 DEF admitToMempool
        <3>2. session \in [Wallets -> Sessions]
            BY <1>0 DEF DeskTypeOK
        <3>. QED
            BY <3>1, <3>2 DEF Holds, Idle, Sessions
    <2>2. /\ UNCHANGED <<pendingBlock, confirmed, moved, undone>>
          /\ IF ~Known(Txn(session[w].nonce, w)) /\ Refused(Txn(session[w].nonce, w))
             THEN UNCHANGED <<mempool, admitted, reserved>>
             ELSE /\ AddToMempool(Txn(session[w].nonce, w))
                  /\ reserved' = clearReservedNonceLocked(Txn(session[w].nonce, w).nonce)
        BY <1>2 DEF admitToMempool, confirmVars
    <2>3. QueueInv' /\ HeldReserved' /\ HandedOutOnce'
        BY <2>1, <2>2, AdmissionStep
    <2>. QED
        BY <1>0, <1>2, <2>3, WalletTypes DEF DeskInv
<1>3. CASE onMempoolAdd
    <2>1. QueuesShrink /\ UNCHANGED <<reserved, session>>
        BY <1>3 DEF onMempoolAdd, QueuesShrink, queueVars, confirmVars, Queued
    <2>2. Taken' = Taken /\ \A v \in Wallets, n \in Nonces : Holds(v, n)' => Holds(v, n)
        BY <2>1 DEF QueuesShrink, Taken, Holds
    <2>. QED
        BY <1>0, <1>3, <2>1, <2>2, OtherTypes, ShrinkKeepsQueues, HoldersKept DEF DeskInv
<1>4. CASE onMempoolAddInsert
    <2>1. PICK t \in gossip :
              IF ~Known(t) /\ Refused(t)
              THEN UNCHANGED <<mempool, admitted, reserved>>
              ELSE AddToMempool(t) /\ reserved' = clearReservedNonceLocked(t.nonce)
        BY <1>4 DEF onMempoolAddInsert
    <2>2. UNCHANGED <<pendingBlock, confirmed, moved, undone, session>>
        BY <1>4 DEF onMempoolAddInsert, confirmVars
    <2>3. \A v \in Wallets, n \in Nonces : Holds(v, n)' => Holds(v, n)
        BY <2>2 DEF Holds
    <2>4. QueueInv' /\ HeldReserved' /\ HandedOutOnce'
        BY <2>1, <2>2, <2>3, AdmissionStep
    <2>. QED
        BY <1>0, <1>4, <2>4, OtherTypes DEF DeskInv
<1>5. CASE \/ PruneMempool \/ L1Collect \/ AbandonPendingBlock
           \/ applyConfirmedTransactions \/ L2ConfirmBlock \/ DurableCommitAfterExplorer
    <2>1. QueuesShrink /\ UNCHANGED <<reserved, session>>
        BY <1>5, WorkerShrinks
    <2>2. Taken' = Taken /\ \A v \in Wallets, n \in Nonces : Holds(v, n)' => Holds(v, n)
        BY <2>1 DEF QueuesShrink, Taken, Holds
    <2>. QED
        BY <1>0, <1>5, <2>1, <2>2, OtherTypes, ShrinkKeepsQueues, HoldersKept DEF DeskInv
<1>6. CASE UndoLastConfirmedBlock
    <2>1. UNCHANGED <<reserved, session, admitted>>
        BY <1>6 DEF UndoLastConfirmedBlock
    <2>2. Taken' = Taken /\ \A v \in Wallets, n \in Nonces : Holds(v, n)' => Holds(v, n)
        BY <2>1 DEF Taken, Holds
    <2>. QED
        BY <1>0, <1>6, <2>1, <2>2, OtherTypes, UndoKeepsQueues, HoldersKept DEF DeskInv
<1>7. CASE UNCHANGED deskVars
    <2>1. /\ UNCHANGED <<accountNonce, mempool, pendingBlock, confirmed, confirming, moved, backup, undone>>
          /\ UNCHANGED <<reserved, admitMu, session, gossip, admitted>>
        BY <1>7 DEF deskVars, queueVars, confirmVars
    <2>2. DeskTypeOK'
        BY <1>0, <2>1 DEF DeskTypeOK
    <2>3. QueuesShrink
        BY <2>1 DEF QueuesShrink, Queued
    <2>4. Taken' = Taken /\ \A v \in Wallets, n \in Nonces : Holds(v, n)' => Holds(v, n)
        BY <2>1 DEF Taken, Holds
    <2>. QED
        BY <1>0, <2>1, <2>2, <2>3, <2>4, ShrinkKeepsQueues, HoldersKept DEF DeskInv
<1>. QED
    BY <1>1, <1>2, <1>3, <1>4, <1>5, <1>6, <1>7 DEF DeskNext

-----------------------------------------------------------------------------
\* The inductive invariant holds when the gateway starts.
LEMMA DeskInvInit == DeskInit => DeskInv
<1>. SUFFICES ASSUME DeskInit PROVE DeskInv
    OBVIOUS
<1>1. DeskTypeOK
    <2>1. 0 \in Nonces /\ Idle \in Sessions
        BY DeskAssumption DEF Idle, Sessions, Nonces
    <2>2. confirming = "no" /\ moved = {} /\ backup = 0 /\ undone = {}
        BY DEF DeskInit
    <2>3. session \in [Wallets -> Sessions] /\ accountNonce \in Nonces
        BY <2>1 DEF DeskInit
    <2>. QED
        BY <2>1, <2>2, <2>3 DEF DeskInit, DeskTypeOK
<1>2. QueueInv
    BY DEF DeskInit, QueueInv, AdmittedAll, OneTxPerNonce, ReservedNotInFlight, Queued
<1>3. \A w \in Wallets, n \in Nonces : ~Holds(w, n)
    BY DEF DeskInit, Holds, Idle
<1>. QED
    BY <1>1, <1>2, <1>3 DEF DeskInv, HeldReserved, HandedOutOnce

INSTANCE FiniteSetTheorems

\* The least nonce that AllocateNonce looks for exists.
LEMMA LeastHolds == LeastIsIn
<1>. SUFFICES ASSUME NEW S \in SUBSET Nat, S # {} PROVE Least(S) \in S
    BY DEF LeastIsIn
<1>1. IsWellFoundedOn(OpToRel(<, Nat), Nat)
    BY NatLessThanWellFounded
<1>2. PICK x \in S : \A y \in S : ~(<<y, x>> \in OpToRel(<, Nat))
    BY <1>1, WFMin
<1>3. \A y \in S : x <= y
    <2>. TAKE y \in S
    <2>1. x \in Nat /\ y \in Nat
        OBVIOUS
    <2>2. <<y, x>> \in Nat \X Nat /\ <<y, x>>[1] = y /\ <<y, x>>[2] = x
        BY <2>1
    <2>3. ~(y < x)
        BY <1>2, <2>2 DEF OpToRel
    <2>. QED
        BY <2>1, <2>3
<1>. QED
    BY <1>3 DEF Least

\* DeskInv is an inductive invariant of the desk.
THEOREM DeskInvariant == DeskSpec => []DeskInv
<1>1. DeskInv /\ [DeskNext]_deskVars => DeskInv'
    BY DeskInvStep, LeastHolds
<1>. QED
    BY <1>1, DeskInvInit, PTL DEF DeskSpec

\* AllocateNonce's promise for any number of sessions and any window: until a
\* transaction with the nonce is admitted, one session at most holds it.
THEOREM NonceHandedOutOnce == DeskSpec => []HandedOutOnce
<1>1. DeskInv => HandedOutOnce
    BY DEF DeskInv
<1>. QED
    BY <1>1, DeskInvariant, PTL

\* The two-phase admission never lets two transactions of one nonce be in
\* flight: the re-check under mempoolAdmitMu makes up for the validation
\* without a lock.  Only a nonce whose block was undone may be there twice.
THEOREM NonceInFlightOnce == DeskSpec => []OneTxPerNonce
<1>1. DeskInv => OneTxPerNonce
    BY DEF DeskInv, QueueInv
<1>. QED
    BY <1>1, DeskInvariant, PTL

\* The reservation of a nonce and its presence in the queues exclude each other,
\* with the same exception.
THEOREM ReservedOrInFlight == DeskSpec => []ReservedNotInFlight
<1>1. DeskInv => ReservedNotInFlight
    BY DEF DeskInv, QueueInv
<1>. QED
    BY <1>1, DeskInvariant, PTL

=============================================================================
