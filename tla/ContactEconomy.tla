--------------------------- MODULE ContactEconomy ---------------------------
(***************************************************************************)
(* First-contact requests: contacteconomy.Store, kept in memory and in one *)
(* JSON file, and the handlers around it.  CreateRequest looks at the      *)
(* contacts and at the sender's limit under read locks of their own and    *)
(* inserts under the write lock later; a response changes the request and  *)
(* then adds XP, call by call; the sweeper expires what is due; a failed   *)
(* write of the file leaves the memory changed.                            *)
(***************************************************************************)
EXTENDS Integers, FiniteSets

CONSTANTS Ids,             \* request ids
          Sender, Receiver, LockTx,   \* of each id, as the client posts it
          Users,
          Settling,        \* ids whose settlement is reported
          Late,            \* ids that may run past ExpiresAt
          BasePendingLimit,
          InitialXP,       \* what the file grants everyone at the start
          MaxCreators,     \* CreateRequest calls served at once
          MaxFailures      \* bound: writes of the file that fail

ASSUME EconomyAssumption ==
    /\ Sender \in [Ids -> Users] /\ Receiver \in [Ids -> Users]
    /\ {BasePendingLimit, InitialXP, MaxFailures} \subseteq Nat
    /\ MaxCreators \in Nat \ {0} /\ IsFiniteSet(Ids)

VARIABLES data,            \* Store.data
          economyFile,     \* contact-economy.json
          creating,        \* how far a CreateRequest for the id has come
          overdue,         \* ids past ExpiresAt
          xpDue,           \* AddXP calls a response has still to make
          failures,        \* writes that failed so far
          answered         \* history: the status a client was told last

economyVars == <<data, economyFile, creating, overdue, xpDue, failures, answered>>

Resolved == {"established", "rejected", "expired"}
Statuses == {"absent", "pending"} \cup Resolved
EmptyStore ==
    [status |-> [i \in Ids |-> "absent"], settled |-> {}, contacts |-> {},
     xp |-> [u \in Users |-> InitialXP]]
pairKey(i) == {Sender[i], Receiver[i]}

EconomyInit ==
    /\ data = EmptyStore
    /\ economyFile = EmptyStore
    /\ creating = [i \in Ids |-> "no"]
    /\ overdue = {}
    /\ xpDue = {}
    /\ failures = 0
    /\ answered = [i \in Ids |-> "absent"]

\* persistLocked: the memory is changed whether or not the file was written.
\* Mutant: the file is not written.
SaveInMemory(new) == data' = new /\ UNCHANGED <<economyFile, failures>>
Save(new) == data' = new /\ economyFile' = new /\ UNCHANGED failures
SaveFails(new) ==
    /\ failures < MaxFailures
    /\ failures' = failures + 1
    /\ data' = new
    /\ UNCHANGED economyFile

-----------------------------------------------------------------------------
(* A request. *)

HasProtocolContact(i) == pairKey(i) \in data.contacts
PendingOutbound(u) == {i \in Ids : Sender[i] = u /\ data.status[i] = "pending"}
PendingLimit(u) ==
    LET lim == BasePendingLimit + data.xp[u] \div 100 IN IF lim > 50 THEN 50 ELSE lim

\* The first checks: the receiver's pricing (a refusal changes nothing), then
\* the contact.
CheckContact(i) ==
    /\ creating[i] = "no"
    /\ Cardinality({j \in Ids : creating[j] # "no"}) < MaxCreators
    /\ ~HasProtocolContact(i)
    /\ creating' = [creating EXCEPT ![i] = "unknown"]
    /\ UNCHANGED <<data, economyFile, overdue, xpDue, failures, answered>>

\* Mutant: one request too many.
OverLimit(u) == Cardinality(PendingOutbound(u)) > PendingLimit(u)
LimitReached(u) == Cardinality(PendingOutbound(u)) >= PendingLimit(u)

CheckLimit(i) ==
    /\ creating[i] = "unknown"
    /\ creating' = [creating EXCEPT ![i] = IF LimitReached(Sender[i]) THEN "no" ELSE "allowed"]
    /\ UNCHANGED <<data, economyFile, overdue, xpDue, failures, answered>>

\* What CreateRequest checks under the write lock.
RefusedAtInsert(i) ==
    \E j \in Ids :
        \/ data.status[j] # "absent" /\ (j = i \/ LockTx[j] = LockTx[i])
        \/ data.status[j] = "pending" /\ Sender[j] = Sender[i] /\ Receiver[j] = Receiver[i]

CreateRequest(i) ==
    /\ creating[i] = "allowed"
    /\ creating' = [creating EXCEPT ![i] = "no"]
    /\ LET new == [data EXCEPT !.status[i] = "pending"]
       IN  IF RefusedAtInsert(i)
           THEN UNCHANGED <<data, economyFile, failures, answered>>
           ELSE \/ Save(new) /\ answered' = [answered EXCEPT ![i] = "pending"]
                \/ SaveFails(new) /\ UNCHANGED answered
    /\ UNCHANGED <<overdue, xpDue>>

TimePasses(i) ==
    /\ i \in Late /\ data.status[i] = "pending" /\ i \notin overdue
    /\ overdue' = overdue \cup {i}
    /\ UNCHANGED <<data, economyFile, creating, xpDue, failures, answered>>

-----------------------------------------------------------------------------
(* Its resolution. *)

Expired(ids) == [data EXCEPT !.status = [i \in Ids |-> IF i \in ids THEN "expired" ELSE @[i]]]

Resolution(i, outcome) ==
    [data EXCEPT !.status[i] = outcome,
                 !.contacts = IF outcome = "established" THEN @ \cup {pairKey(i)} ELSE @]
GrantsOf(i, outcome) ==
    IF outcome = "established"
    THEN {[id |-> i, user |-> Receiver[i], xp |-> 25], [id |-> i, user |-> Sender[i], xp |-> 10]}
    ELSE {[id |-> i, user |-> Receiver[i], xp |-> 1]}

\* Respond by the receiver, over HTTP (RespondContactRequest) or over the
\* websocket, which grants nothing for a rejection: too late it expires the
\* request and is refused.
Respond(i, outcome) ==
    /\ data.status[i] = "pending"
    /\ IF i \in overdue
       THEN /\ Save(Expired({i})) \/ SaveFails(Expired({i}))
            /\ UNCHANGED <<answered, xpDue>>
       ELSE \/ /\ Save(Resolution(i, outcome))
               /\ answered' = [answered EXCEPT ![i] = outcome]
               /\ xpDue' \in {xpDue \cup GrantsOf(i, outcome),
                               xpDue \cup IF outcome = "rejected" THEN {} ELSE GrantsOf(i, outcome)}
            \/ SaveFails(Resolution(i, outcome)) /\ UNCHANGED <<answered, xpDue>>
    /\ UNCHANGED <<creating, overdue>>

\* One AddXP call of a response; that the file was not written is ignored.
AddXP ==
    \E g \in xpDue :
        /\ xpDue' = xpDue \ {g}
        /\ LET new == [data EXCEPT !.xp[g.user] = @ + g.xp] IN Save(new) \/ SaveFails(new)
        /\ UNCHANGED <<creating, overdue, answered>>

\* runContactTimeoutSweeper
ExpireDue ==
    LET due == {i \in overdue : data.status[i] = "pending"}
    IN  /\ due # {}
        /\ Save(Expired(due)) \/ SaveFails(Expired(due))
        /\ UNCHANGED <<creating, overdue, xpDue, answered>>

\* SubmitEscrowSettle after the settlement was admitted, or AckEscrowSettled:
\* any request that exists, whatever its status.
MarkSettled(i) ==
    /\ i \in Settling /\ data.status[i] # "absent" /\ i \notin data.settled
    /\ LET new == [data EXCEPT !.settled = @ \cup {i}] IN Save(new) \/ SaveFails(new)
    /\ UNCHANGED <<creating, overdue, xpDue, answered>>

\* SetPricing: the prices are not kept here, but with them the whole store is
\* written again, also what an earlier write failed to save.
SetPricing ==
    /\ Save(data) \/ SaveFails(data)
    /\ UNCHANGED <<creating, overdue, xpDue, answered>>

\* The process dies; NewStore loads the file.
NewStore ==
    /\ data' = economyFile
    /\ creating' = [i \in Ids |-> "no"]
    /\ xpDue' = {}
    /\ UNCHANGED <<economyFile, overdue, failures, answered>>

EconomyNext ==
    \/ \E i \in Ids :
        \/ CheckContact(i) \/ CheckLimit(i) \/ CreateRequest(i) \/ TimePasses(i) \/ MarkSettled(i)
        \/ \E outcome \in {"established", "rejected"} : Respond(i, outcome)
    \/ AddXP \/ ExpireDue \/ NewStore
    \/ SetPricing

EconomySpec == EconomyInit /\ [][EconomyNext]_economyVars

-----------------------------------------------------------------------------
(* Properties. *)

\* The types of the store's state; the contacts are the pairs of the requests
\* that were accepted, in memory and in the file.
EconomyTypeOK ==
    /\ {data, economyFile} \subseteq
        [status : [Ids -> Statuses], settled : SUBSET Ids, contacts : SUBSET {pairKey(i) : i \in Ids},
         xp : [Users -> Nat]]
    /\ \A d \in {data, economyFile} :
        d.contacts = {pairKey(i) : i \in {j \in Ids : d.status[j] = "established"}}
    /\ creating \in [Ids -> {"no", "unknown", "allowed"}]
    /\ overdue \subseteq Ids
    /\ answered \in [Ids -> Statuses]

\* The limit on pending requests is checked without the write lock, so
\* requests served at once can exceed it, but never by more than their
\* number less one.
PendingExcessBounded ==
    \A u \in Users : Cardinality(PendingOutbound(u)) <= PendingLimit(u) + MaxCreators - 1

\* What a client was told survives: an accepted request is never lost, an
\* answered one keeps its outcome, through failed writes of other changes,
\* sweeps and restarts.
AnsweredStays ==
    \A i \in Ids :
        /\ answered[i] = "pending" => data.status[i] # "absent"
        /\ answered[i] \in Resolved => data.status[i] = answered[i]

=============================================================================
