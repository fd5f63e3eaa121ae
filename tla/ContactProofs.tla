---------------------------- MODULE ContactProofs ---------------------------
(***************************************************************************)
(* Proofs about the first-contact requests, for any users, requests and    *)
(* limits.                                                                 *)
(***************************************************************************)
EXTENDS ContactEconomy, TLAPS

-----------------------------------------------------------------------------
(* The first-contact requests.  What holds of the memory must hold of the    *)
(* file as well, since a restart makes the file the memory.                  *)

Stores == [status : [Ids -> Statuses], settled : SUBSET Ids,
           contacts : SUBSET {pairKey(i) : i \in Ids}, xp : [Users -> Nat]]
Grants == [id : Ids, user : Users, xp : Nat]

RequestTypes ==
    /\ data \in Stores /\ economyFile \in Stores
    /\ creating \in [Ids -> {"no", "unknown", "allowed"}]
    /\ overdue \subseteq Ids
    /\ xpDue \subseteq Grants
    /\ answered \in [Ids -> Statuses]

\* A store agrees with what the clients were told.
Agrees(d) ==
    \A i \in Ids :
        /\ answered[i] = "pending" => d.status[i] # "absent"
        /\ answered[i] \in Resolved => d.status[i] = answered[i]

\* The pending requests and the limit of a user in a store, and the requests of
\* the user that have passed the check of the limit and are not inserted yet.
PendingIn(d, u) == {i \in Ids : Sender[i] = u /\ d.status[i] = "pending"}
LimitIn(d, u) == LET lim == BasePendingLimit + d.xp[u] \div 100 IN IF lim > 50 THEN 50 ELSE lim
AllowedFor(u) == {i \in Ids : Sender[i] = u /\ creating[i] = "allowed"}
Creators == {i \in Ids : creating[i] # "no"}

\* A request that passed the check counts as inserted.
LimitInv ==
    /\ Cardinality(Creators) <= MaxCreators
    /\ \A u \in Users :
        /\ Cardinality(PendingIn(data, u)) + Cardinality(AllowedFor(u)) <= LimitIn(data, u) + MaxCreators - 1
        /\ Cardinality(PendingIn(economyFile, u)) <= LimitIn(economyFile, u) + MaxCreators - 1

ContactInv == RequestTypes /\ Agrees(data) /\ Agrees(economyFile) /\ LimitInv

\* What counting requests gives; shown at the end, before the theorems, so that
\* the library's facts about finite sets are not in the way of the other proofs.
Counting ==
    /\ Cardinality({}) = 0
    /\ \A T \in SUBSET Ids : /\ IsFiniteSet(T) /\ Cardinality(T) \in Nat
                            /\ \A S \in SUBSET T : Cardinality(S) <= Cardinality(T)
    /\ \A S, x : IsFiniteSet(S) => Cardinality(S \cup {x}) <= Cardinality(S) + 1
    /\ \A S, x : IsFiniteSet(S) /\ x \in S => Cardinality(S \ {x}) = Cardinality(S) - 1

\* Sets of ids are finite and have a cardinality.
LEMMA IdSets ==
    ASSUME Counting, NEW S, NEW T \in SUBSET Ids, S \subseteq T
    PROVE  /\ IsFiniteSet(S) /\ IsFiniteSet(T)
           /\ Cardinality(S) \in Nat /\ Cardinality(T) \in Nat
           /\ Cardinality(S) <= Cardinality(T)
<1>1. S \in SUBSET Ids /\ S \in SUBSET T
    OBVIOUS
<1> QED
    BY <1>1 DEF Counting

\* One more id adds one at most.
LEMMA OneMoreId ==
    ASSUME Counting, NEW S, NEW x, IsFiniteSet(S)
    PROVE  Cardinality(S \cup {x}) <= Cardinality(S) + 1
BY DEF Counting

\* XP raises the limit of pending requests, never lowers it.
LEMMA LimitGrows ==
    ASSUME NEW d \in Stores, NEW e \in Stores, NEW u \in Users, d.xp[u] <= e.xp[u]
    PROVE  LimitIn(d, u) \in Nat /\ LimitIn(d, u) <= LimitIn(e, u)
<1>1. d.xp[u] \in Nat /\ e.xp[u] \in Nat /\ BasePendingLimit \in Nat
    BY EconomyAssumption DEF Stores, EconomyAssumption
<1>2. d.xp[u] \div 100 \in Nat /\ d.xp[u] \div 100 <= e.xp[u] \div 100 /\ e.xp[u] \div 100 \in Nat
    BY <1>1
<1> QED
    BY <1>1, <1>2 DEF LimitIn

\* A change that resolves requests, adds XP or touches neither, written or not,
\* keeps the limit: a pending request may only stop to be pending.
LEMMA ResolvingKeepsLimit ==
    ASSUME Counting, RequestTypes, LimitInv, NEW new \in Stores,
           data' = new, economyFile' = new \/ economyFile' = economyFile, creating' = creating,
           \A i \in Ids : new.status[i] = "pending" => data.status[i] = "pending",
           \A u \in Users : data.xp[u] <= new.xp[u]
    PROVE  LimitInv'
<1>1. Creators' = Creators /\ \A u \in Users : AllowedFor(u)' = AllowedFor(u)
    BY DEF Creators, AllowedFor
<1>2. ASSUME NEW u \in Users
      PROVE  /\ Cardinality(PendingIn(new, u)) + Cardinality(AllowedFor(u)) <= LimitIn(new, u) + MaxCreators - 1
             /\ Cardinality(PendingIn(new, u)) <= LimitIn(new, u) + MaxCreators - 1
    <2>1. PendingIn(new, u) \subseteq PendingIn(data, u) /\ PendingIn(data, u) \in SUBSET Ids
        BY DEF PendingIn
    <2>2. /\ Cardinality(PendingIn(new, u)) <= Cardinality(PendingIn(data, u))
          /\ Cardinality(PendingIn(new, u)) \in Nat /\ Cardinality(PendingIn(data, u)) \in Nat
        BY <2>1, IdSets
    <2>3. AllowedFor(u) \in SUBSET Ids
        BY DEF AllowedFor
    <2>4. Cardinality(AllowedFor(u)) \in Nat
        BY <2>3, IdSets
    <2>5. data \in Stores
        BY DEF RequestTypes
    <2>6. LimitIn(data, u) \in Nat /\ LimitIn(data, u) <= LimitIn(new, u) /\ LimitIn(new, u) \in Nat
        BY <2>5, LimitGrows DEF Stores
    <2>7. Cardinality(PendingIn(data, u)) + Cardinality(AllowedFor(u)) <= LimitIn(data, u) + MaxCreators - 1
        BY DEF LimitInv
    <2> QED
        BY <2>2, <2>4, <2>6, <2>7, EconomyAssumption DEF EconomyAssumption
<1>3. \A u \in Users : /\ PendingIn(data, u)' = PendingIn(new, u)
                       /\ LimitIn(data, u)' = LimitIn(new, u)
    BY DEF PendingIn, LimitIn
<1>4. CASE economyFile' = new
    <2>1. \A u \in Users : /\ PendingIn(economyFile, u)' = PendingIn(new, u)
                           /\ LimitIn(economyFile, u)' = LimitIn(new, u)
        BY <1>4 DEF PendingIn, LimitIn
    <2> QED
        BY <1>1, <1>2, <1>3, <2>1 DEF LimitInv
<1>5. CASE economyFile' = economyFile
    <2>1. \A u \in Users : /\ PendingIn(economyFile, u)' = PendingIn(economyFile, u)
                           /\ LimitIn(economyFile, u)' = LimitIn(economyFile, u)
        BY <1>5 DEF PendingIn, LimitIn
    <2> QED
        BY <1>1, <1>2, <1>3, <2>1 DEF LimitInv
<1> QED
    BY <1>4, <1>5

\* The checks of CreateRequest: a request joins those that passed the check
\* only when fewer than the limit are pending.
LEMMA ChecksKeepLimit ==
    ASSUME Counting, RequestTypes, LimitInv, NEW i \in Ids, CheckContact(i) \/ CheckLimit(i)
    PROVE  LimitInv' /\ RequestTypes'
<1> USE EconomyAssumption DEF EconomyAssumption
<1>1. data' = data /\ economyFile' = economyFile /\ UNCHANGED <<overdue, xpDue, answered>>
    BY DEF CheckContact, CheckLimit
<1>2. creating' \in [Ids -> {"no", "unknown", "allowed"}] /\ \A j \in Ids \ {i} : creating'[j] = creating[j]
    BY DEF CheckContact, CheckLimit, RequestTypes
<1>3. RequestTypes'
    BY <1>1, <1>2 DEF RequestTypes
<1>4. Creators \in SUBSET Ids /\ Creators' \in SUBSET Ids
    BY DEF Creators
<1>5. Cardinality(Creators') <= MaxCreators
    <2>1. CASE CheckContact(i)
        <3>1. Creators' = Creators \cup {i} /\ Cardinality(Creators) < MaxCreators
            BY <1>2, <2>1 DEF CheckContact, Creators, RequestTypes
        <3>2. IsFiniteSet(Creators) /\ Cardinality(Creators) \in Nat
            BY <1>4, IdSets
        <3> QED
            <4>1. Cardinality(Creators') <= Cardinality(Creators) + 1
                BY <3>1, <3>2, OneMoreId
            <4>2. Cardinality(Creators') \in Nat
                BY <1>4, IdSets
            <4> QED
                BY <3>1, <3>2, <4>1, <4>2
    <2>2. CASE CheckLimit(i)
        <3>1. Creators' \subseteq Creators
            BY <1>2, <2>2 DEF CheckLimit, Creators, RequestTypes
        <3> QED
            BY <1>4, <3>1, IdSets DEF LimitInv
    <2> QED
        BY <2>1, <2>2
<1>6. ASSUME NEW u \in Users
      PROVE  Cardinality(PendingIn(data, u)) + Cardinality(AllowedFor(u)') <= LimitIn(data, u) + MaxCreators - 1
    <2>1. PendingIn(data, u) \in SUBSET Ids /\ AllowedFor(u) \in SUBSET Ids /\ AllowedFor(u)' \subseteq Creators'
        BY DEF PendingIn, AllowedFor, Creators
    <2>2. Cardinality(PendingIn(data, u)) \in Nat /\ Cardinality(AllowedFor(u)) \in Nat
        BY <2>1, IdSets
    <2>3. Cardinality(AllowedFor(u)') \in Nat /\ Cardinality(AllowedFor(u)') <= Cardinality(Creators')
        BY <1>4, <2>1, IdSets
    <2>4. LimitIn(data, u) \in Nat
        BY LimitGrows DEF RequestTypes, Stores
    <2>5. CASE AllowedFor(u)' \subseteq AllowedFor(u)
        <3>1. Cardinality(AllowedFor(u)') <= Cardinality(AllowedFor(u))
            BY <2>1, <2>5, IdSets
        <3> QED
            BY <2>2, <2>3, <2>4, <3>1 DEF LimitInv
    <2>6. CASE ~(AllowedFor(u)' \subseteq AllowedFor(u))
        <3>1. i \in AllowedFor(u)' /\ i \notin AllowedFor(u)
            BY <1>2, <2>6 DEF AllowedFor
        <3>2. CheckLimit(i) /\ Sender[i] = u /\ ~LimitReached(u)
            BY <1>2, <3>1 DEF CheckContact, CheckLimit, AllowedFor, RequestTypes
        <3>3. Cardinality(PendingIn(data, u)) < LimitIn(data, u)
            BY <2>2, <2>4, <3>2 DEF LimitReached, PendingOutbound, PendingLimit, PendingIn, LimitIn
        <3>4. Cardinality(Creators') \in Nat
            BY <1>4, IdSets
        <3> QED
            BY <1>5, <2>2, <2>3, <2>4, <3>3, <3>4
    <2> QED
        BY <2>5, <2>6
<1>7. \A u \in Users : /\ PendingIn(data, u)' = PendingIn(data, u) /\ LimitIn(data, u)' = LimitIn(data, u)
                       /\ PendingIn(economyFile, u)' = PendingIn(economyFile, u)
                       /\ LimitIn(economyFile, u)' = LimitIn(economyFile, u)
    BY <1>1 DEF PendingIn, LimitIn
<1> QED
    BY <1>3, <1>5, <1>6, <1>7 DEF LimitInv

\* A request is inserted once it passed the check, and counts once.
LEMMA InsertKeepsLimit ==
    ASSUME Counting, RequestTypes, LimitInv, NEW i \in Ids, creating[i] = "allowed", NEW new \in Stores,
           creating' = [creating EXCEPT ![i] = "no"],
           data' = new, economyFile' = new \/ economyFile' = economyFile, new.xp = data.xp,
           \A j \in Ids \ {i} : new.status[j] = data.status[j]
    PROVE  LimitInv'
<1> USE EconomyAssumption DEF EconomyAssumption
<1>1. creating'[i] = "no" /\ \A j \in Ids \ {i} : creating'[j] = creating[j]
    BY DEF RequestTypes
<1>2. Creators \in SUBSET Ids /\ Creators' \subseteq Creators
    BY <1>1 DEF Creators, RequestTypes
<1>3. Cardinality(Creators') <= MaxCreators
    BY <1>2, IdSets DEF LimitInv
<1>4. \A u \in Users : LimitIn(new, u) = LimitIn(data, u)
    BY DEF LimitIn
<1>5. ASSUME NEW u \in Users
      PROVE  /\ Cardinality(PendingIn(new, u)) + Cardinality(AllowedFor(u)') <= LimitIn(new, u) + MaxCreators - 1
             /\ Cardinality(PendingIn(new, u)) <= LimitIn(new, u) + MaxCreators - 1
    <2>1. /\ PendingIn(data, u) \in SUBSET Ids /\ AllowedFor(u) \in SUBSET Ids
          /\ PendingIn(new, u) \in SUBSET Ids
        BY DEF PendingIn, AllowedFor
    <2>2. /\ Cardinality(PendingIn(data, u)) \in Nat /\ Cardinality(AllowedFor(u)) \in Nat
          /\ Cardinality(PendingIn(new, u)) \in Nat
          /\ IsFiniteSet(PendingIn(data, u)) /\ IsFiniteSet(AllowedFor(u))
        BY <2>1, IdSets
    <2>3. LimitIn(data, u) \in Nat
        BY LimitGrows DEF RequestTypes, Stores
    <2>4. Cardinality(PendingIn(data, u)) + Cardinality(AllowedFor(u)) <= LimitIn(data, u) + MaxCreators - 1
        BY DEF LimitInv
    <2>5. /\ Cardinality(AllowedFor(u)') \in Nat
          /\ Cardinality(PendingIn(new, u)) + Cardinality(AllowedFor(u)')
               <= Cardinality(PendingIn(data, u)) + Cardinality(AllowedFor(u))
        <3>1. CASE Sender[i] = u
            <4>1. AllowedFor(u)' = AllowedFor(u) \ {i} /\ i \in AllowedFor(u)
                BY <1>1, <3>1 DEF AllowedFor
            <4>2. Cardinality(AllowedFor(u)') = Cardinality(AllowedFor(u)) - 1 /\ Cardinality(AllowedFor(u)') \in Nat
                <5>1. IsFiniteSet(AllowedFor(u) \ {i}) /\ Cardinality(AllowedFor(u) \ {i}) \in Nat
                    BY <2>1, IdSets
                <5> QED
                    BY <2>2, <4>1, <5>1 DEF Counting
            <4>3. PendingIn(new, u) \subseteq PendingIn(data, u) \cup {i} /\ PendingIn(data, u) \cup {i} \in SUBSET Ids
                BY DEF PendingIn
            <4>4. Cardinality(PendingIn(new, u)) <= Cardinality(PendingIn(data, u) \cup {i})
                BY <4>3, IdSets
            <4>5. Cardinality(PendingIn(data, u) \cup {i}) <= Cardinality(PendingIn(data, u)) + 1
                BY <2>2, OneMoreId
            <4>6. Cardinality(PendingIn(data, u) \cup {i}) \in Nat
                BY <4>3, IdSets
            <4> QED
                BY <2>2, <4>2, <4>4, <4>5, <4>6
        <3>2. CASE Sender[i] # u
            <4>1. AllowedFor(u)' = AllowedFor(u) /\ PendingIn(new, u) = PendingIn(data, u)
                BY <1>1, <3>2 DEF AllowedFor, PendingIn
            <4> QED
                BY <2>2, <4>1
        <3> QED
            BY <3>1, <3>2
    <2> QED
        BY <1>4, <2>2, <2>3, <2>4, <2>5
<1>6. \A u \in Users : PendingIn(data, u)' = PendingIn(new, u) /\ LimitIn(data, u)' = LimitIn(new, u)
    BY DEF PendingIn, LimitIn
<1>7. CASE economyFile' = new
    <2>1. \A u \in Users : /\ PendingIn(economyFile, u)' = PendingIn(new, u)
                           /\ LimitIn(economyFile, u)' = LimitIn(new, u)
        BY <1>7 DEF PendingIn, LimitIn
    <2> QED
        BY <1>3, <1>5, <1>6, <2>1 DEF LimitInv
<1>8. CASE economyFile' = economyFile
    <2>1. \A u \in Users : /\ PendingIn(economyFile, u)' = PendingIn(economyFile, u)
                           /\ LimitIn(economyFile, u)' = LimitIn(economyFile, u)
        BY <1>8 DEF PendingIn, LimitIn
    <2> QED
        BY <1>3, <1>5, <1>6, <2>1 DEF LimitInv
<1> QED
    BY <1>7, <1>8

\* A status that a client was told is left only by a step that tells a new one.
LEMMA SilentAgrees ==
    ASSUME RequestTypes, Agrees(data), Agrees(economyFile), NEW new,
           data' = new, economyFile' = new \/ economyFile' = economyFile, answered' = answered,
           \A i \in Ids : \/ new.status[i] = data.status[i]
                          \/ data.status[i] = "pending" /\ new.status[i] \in Resolved
                          \/ data.status[i] = "absent" /\ new.status[i] = "pending"
    PROVE  Agrees(data)' /\ Agrees(economyFile)'
<1>1. ASSUME NEW i \in Ids
      PROVE  /\ answered[i] = "pending" => new.status[i] # "absent"
             /\ answered[i] \in Resolved => new.status[i] = answered[i]
    BY DEF Agrees, Resolved
<1> QED
    BY <1>1 DEF Agrees

\* A status that is told is stored, and written, first.
LEMMA ToldAgrees ==
    ASSUME RequestTypes, Agrees(data), NEW new, NEW i \in Ids, NEW told \in Statuses,
           data' = new, economyFile' = new, answered' = [answered EXCEPT ![i] = told],
           new.status[i] = told, \A j \in Ids \ {i} : new.status[j] = data.status[j]
    PROVE  Agrees(data)' /\ Agrees(economyFile)' /\ answered' \in [Ids -> Statuses]
<1>1. answered'[i] = told /\ \A j \in Ids \ {i} : answered'[j] = answered[j]
    BY DEF RequestTypes
<1>2. ASSUME NEW j \in Ids
      PROVE  /\ answered'[j] = "pending" => new.status[j] # "absent"
             /\ answered'[j] \in Resolved => new.status[j] = answered'[j]
    BY <1>1 DEF Agrees
<1> QED
    BY <1>2 DEF Agrees, RequestTypes

\* The store with one status changed.
LEMMA OneStatus ==
    ASSUME NEW d \in Stores, NEW i \in Ids, NEW s \in Statuses
    PROVE  LET new == [d EXCEPT !.status[i] = s]
           IN  /\ new \in Stores /\ new.xp = d.xp /\ new.status[i] = s
               /\ \A j \in Ids \ {i} : new.status[j] = d.status[j]
BY DEF Stores

\* CreateRequest inserts a request under an id that is free.
LEMMA CreateKeeps ==
    ASSUME Counting, ContactInv, NEW i \in Ids, CreateRequest(i)
    PROVE  ContactInv'
<1>1. PICK new : new = [data EXCEPT !.status[i] = "pending"]
    OBVIOUS
<1>2. /\ new \in Stores /\ new.xp = data.xp /\ new.status[i] = "pending"
      /\ \A j \in Ids \ {i} : new.status[j] = data.status[j]
    BY <1>1, OneStatus DEF ContactInv, RequestTypes, Statuses
<1>3. /\ creating[i] = "allowed" /\ creating' = [creating EXCEPT ![i] = "no"]
      /\ overdue' = overdue /\ xpDue' = xpDue
    BY DEF CreateRequest
<1>4. creating' \in [Ids -> {"no", "unknown", "allowed"}]
    BY <1>3 DEF ContactInv, RequestTypes
<1>5. CASE RefusedAtInsert(i)
    <2>1. data' = data /\ economyFile' = economyFile /\ answered' = answered
        BY <1>5 DEF CreateRequest
    <2>2. LimitInv'
        BY <1>3, <2>1, InsertKeepsLimit DEF ContactInv, RequestTypes
    <2> QED
        BY <1>3, <1>4, <2>1, <2>2 DEF ContactInv, RequestTypes, Agrees
<1>6. CASE ~RefusedAtInsert(i)
    <2>1. data.status[i] = "absent"
        BY <1>6 DEF RefusedAtInsert
    <2>2. \/ data' = new /\ economyFile' = new /\ answered' = [answered EXCEPT ![i] = "pending"]
          \/ data' = new /\ economyFile' = economyFile /\ answered' = answered
        BY <1>1, <1>6 DEF CreateRequest, Save, SaveFails
    <2>3. LimitInv'
        BY <1>2, <1>3, <2>2, InsertKeepsLimit DEF ContactInv
    <2>4. CASE economyFile' = new /\ answered' = [answered EXCEPT ![i] = "pending"]
        <3>0. PICK told \in Statuses : told = "pending"
            BY DEF Statuses
        <3>1. Agrees(data)' /\ Agrees(economyFile)' /\ answered' \in [Ids -> Statuses]
            <4>1. RequestTypes /\ Agrees(data)
                BY DEF ContactInv
            <4>2. data' = new /\ economyFile' = new /\ answered' = [answered EXCEPT ![i] = told]
                BY <2>2, <2>4, <3>0
            <4>3. new.status[i] = told /\ \A j \in Ids \ {i} : new.status[j] = data.status[j]
                BY <1>2, <3>0
            <4> QED
                BY <4>1, <4>2, <4>3, ToldAgrees
        <3> QED
            BY <1>2, <1>3, <1>4, <2>2, <2>3, <2>4, <3>1 DEF ContactInv, RequestTypes
    <2>5. CASE economyFile' = economyFile /\ answered' = answered
        <3>1. Agrees(data)' /\ Agrees(economyFile)'
            BY <1>2, <2>1, <2>2, <2>5, SilentAgrees DEF ContactInv
        <3> QED
            BY <1>2, <1>3, <1>4, <2>2, <2>3, <2>5, <3>1 DEF ContactInv, RequestTypes
    <2> QED
        BY <2>2, <2>4, <2>5
<1> QED
    BY <1>5, <1>6

\* A change that resolves requests or adds XP, and tells nothing.
LEMMA SilentKeeps ==
    ASSUME Counting, ContactInv, NEW new \in Stores,
           data' = new, economyFile' = new \/ economyFile' = economyFile,
           creating' = creating, overdue' = overdue, xpDue' \subseteq Grants, answered' = answered,
           \A i \in Ids : \/ new.status[i] = data.status[i]
                          \/ data.status[i] = "pending" /\ new.status[i] \in Resolved,
           \A u \in Users : data.xp[u] <= new.xp[u]
    PROVE  ContactInv'
<1>1. LimitInv'
    BY ResolvingKeepsLimit DEF ContactInv, Resolved
<1>2. Agrees(data)' /\ Agrees(economyFile)'
    BY SilentAgrees DEF ContactInv
<1> QED
    BY <1>1, <1>2 DEF ContactInv, RequestTypes

\* Expired requests were pending.
LEMMA ExpiredStore ==
    ASSUME RequestTypes, NEW ids \in SUBSET Ids, \A i \in ids : data.status[i] = "pending"
    PROVE  /\ Expired(ids) \in Stores /\ Expired(ids).xp = data.xp
           /\ \A i \in Ids : \/ Expired(ids).status[i] = data.status[i]
                             \/ data.status[i] = "pending" /\ Expired(ids).status[i] \in Resolved
<1>1. PICK st : st = [i \in Ids |-> IF i \in ids THEN "expired" ELSE data.status[i]]
    OBVIOUS
<1>2. st \in [Ids -> Statuses]
    BY <1>1 DEF RequestTypes, Stores, Statuses, Resolved
<1>3. Expired(ids) = [data EXCEPT !.status = st]
    BY <1>1 DEF Expired
<1>4. Expired(ids) \in Stores /\ Expired(ids).xp = data.xp /\ Expired(ids).status = st
    BY <1>2, <1>3 DEF RequestTypes, Stores
<1> QED
    BY <1>1, <1>4 DEF Resolved

\* Respond resolves a pending request: too late it expires, else the outcome is
\* told only when it was written.
LEMMA RespondKeeps ==
    ASSUME Counting, ContactInv, NEW i \in Ids, NEW outcome \in {"established", "rejected"}, Respond(i, outcome)
    PROVE  ContactInv'
<1> USE EconomyAssumption DEF EconomyAssumption
<1>1. data.status[i] = "pending" /\ creating' = creating /\ overdue' = overdue
    BY DEF Respond
<1>2. RequestTypes /\ \A u \in Users : data.xp[u] <= data.xp[u]
    BY DEF ContactInv, RequestTypes, Stores
<1>3. CASE i \in overdue
    <2>1. /\ data' = Expired({i}) /\ (economyFile' = Expired({i}) \/ economyFile' = economyFile)
          /\ answered' = answered /\ xpDue' = xpDue
        BY <1>3 DEF Respond, Save, SaveFails
    <2>2. /\ Expired({i}) \in Stores /\ Expired({i}).xp = data.xp
          /\ \A j \in Ids : \/ Expired({i}).status[j] = data.status[j]
                            \/ data.status[j] = "pending" /\ Expired({i}).status[j] \in Resolved
        BY <1>1, <1>2, ExpiredStore
    <2> QED
        BY <1>1, <1>2, <2>1, <2>2, SilentKeeps DEF RequestTypes
<1>4. CASE i \notin overdue
    <2>1. PICK new : new = Resolution(i, outcome)
        OBVIOUS
    <2>2. outcome \in Statuses /\ outcome \in Resolved /\ outcome # "pending"
        BY DEF Statuses, Resolved
    <2>3. /\ new \in Stores /\ new.xp = data.xp /\ new.status[i] = outcome
          /\ \A j \in Ids \ {i} : new.status[j] = data.status[j]
        <3>1. PICK cs : cs = IF outcome = "established" THEN data.contacts \cup {pairKey(i)} ELSE data.contacts
            OBVIOUS
        <3>2. PICK st : st = [data.status EXCEPT ![i] = outcome]
            OBVIOUS
        <3>3. cs \in SUBSET {pairKey(j) : j \in Ids} /\ st \in [Ids -> Statuses]
            BY <1>2, <2>2, <3>1, <3>2 DEF RequestTypes, Stores
        <3>4. new = [data EXCEPT !.status = st, !.contacts = cs]
            BY <2>1, <3>1, <3>2, <1>2 DEF Resolution, RequestTypes, Stores
        <3>5. new \in Stores /\ new.xp = data.xp /\ new.status = st
            BY <1>2, <3>3, <3>4 DEF RequestTypes, Stores
        <3> QED
            BY <1>2, <3>2, <3>5 DEF RequestTypes, Stores
    <2>4. GrantsOf(i, outcome) \subseteq Grants
        BY DEF GrantsOf, Grants
    <2>5. \/ /\ data' = new /\ economyFile' = new /\ answered' = [answered EXCEPT ![i] = outcome]
             /\ xpDue' \subseteq xpDue \cup GrantsOf(i, outcome)
          \/ data' = new /\ economyFile' = economyFile /\ answered' = answered /\ xpDue' = xpDue
        BY <1>4, <2>1 DEF Respond, Save, SaveFails
    <2>6. xpDue' \subseteq Grants
        BY <1>2, <2>4, <2>5 DEF RequestTypes
    <2>7. CASE economyFile' = new /\ answered' = [answered EXCEPT ![i] = outcome]
        <3>1. LimitInv'
            BY <1>1, <1>2, <2>2, <2>3, <2>5, <2>7, ResolvingKeepsLimit DEF ContactInv
        <3>2. Agrees(data)' /\ Agrees(economyFile)' /\ answered' \in [Ids -> Statuses]
            BY <2>2, <2>3, <2>5, <2>7, ToldAgrees DEF ContactInv
        <3> QED
            BY <1>1, <2>3, <2>5, <2>6, <2>7, <3>1, <3>2 DEF ContactInv, RequestTypes
    <2>8. CASE economyFile' = economyFile /\ answered' = answered
        BY <1>1, <1>2, <2>2, <2>3, <2>5, <2>6, <2>8, SilentKeeps
    <2> QED
        BY <2>5, <2>7, <2>8
<1> QED
    BY <1>3, <1>4

\* AddXP raises the XP of one user.
LEMMA AddXPKeeps ==
    ASSUME Counting, ContactInv, AddXP
    PROVE  ContactInv'
<1>1. PICK g \in xpDue :
        /\ xpDue' = xpDue \ {g}
        /\ LET new == [data EXCEPT !.xp[g.user] = @ + g.xp] IN Save(new) \/ SaveFails(new)
        /\ UNCHANGED <<creating, overdue, answered>>
    BY DEF AddXP
<1>2. g.user \in Users /\ g.xp \in Nat /\ data \in Stores /\ xpDue \subseteq Grants
    BY DEF ContactInv, RequestTypes, Grants
<1>3. PICK xp : xp = [data.xp EXCEPT ![g.user] = @ + g.xp]
    OBVIOUS
<1>4. xp \in [Users -> Nat] /\ \A u \in Users : data.xp[u] <= xp[u]
    <2>1. data.xp \in [Users -> Nat]
        BY <1>2 DEF Stores
    <2>2. xp[g.user] = data.xp[g.user] + g.xp /\ \A u \in Users \ {g.user} : xp[u] = data.xp[u]
        BY <1>2, <1>3, <2>1
    <2> QED
        BY <1>2, <1>3, <2>1, <2>2
<1>5. PICK new : new = [data EXCEPT !.xp = xp]
    OBVIOUS
<1>6. new = [data EXCEPT !.xp[g.user] = @ + g.xp]
    BY <1>2, <1>3, <1>5 DEF Stores
<1>7. new \in Stores /\ new.status = data.status /\ new.xp = xp
    BY <1>2, <1>4, <1>5 DEF Stores
<1>8. data' = new /\ (economyFile' = new \/ economyFile' = economyFile)
    BY <1>1, <1>6 DEF Save, SaveFails
<1> QED
    BY <1>1, <1>2, <1>4, <1>7, <1>8, SilentKeeps

\* The other steps that write the store: the sweeper, a settlement, new prices.
LEMMA WriteKeeps ==
    ASSUME Counting, ContactInv, ExpireDue \/ SetPricing \/ (\E i \in Ids : MarkSettled(i))
    PROVE  ContactInv'
<1> USE EconomyAssumption DEF EconomyAssumption
<1>1. /\ RequestTypes /\ data \in Stores /\ xpDue \subseteq Grants
      /\ \A u \in Users : data.xp[u] <= data.xp[u]
    BY DEF ContactInv, RequestTypes, Stores
<1>2. CASE ExpireDue
    <2>1. PICK due \in SUBSET Ids :
            /\ \A i \in due : data.status[i] = "pending"
            /\ Save(Expired(due)) \/ SaveFails(Expired(due))
            /\ UNCHANGED <<creating, overdue, xpDue, answered>>
        BY <1>1, <1>2 DEF ExpireDue, RequestTypes
    <2>2. data' = Expired(due) /\ (economyFile' = Expired(due) \/ economyFile' = economyFile)
        BY <2>1 DEF Save, SaveFails
    <2>3. /\ Expired(due) \in Stores /\ Expired(due).xp = data.xp
          /\ \A i \in Ids : \/ Expired(due).status[i] = data.status[i]
                            \/ data.status[i] = "pending" /\ Expired(due).status[i] \in Resolved
        BY <1>1, <2>1, ExpiredStore
    <2> QED
        BY <1>1, <2>1, <2>2, <2>3, SilentKeeps
<1>3. CASE SetPricing
    BY <1>1, <1>3, SilentKeeps DEF SetPricing, Save, SaveFails
<1>4. ASSUME NEW i \in Ids, MarkSettled(i) PROVE ContactInv'
    <2>1. PICK new : new = [data EXCEPT !.settled = @ \cup {i}]
        OBVIOUS
    <2>2. new \in Stores /\ new.status = data.status /\ new.xp = data.xp
        BY <1>1, <2>1 DEF Stores
    <2>3. /\ data' = new /\ (economyFile' = new \/ economyFile' = economyFile)
          /\ UNCHANGED <<creating, overdue, xpDue, answered>>
        BY <1>4, <2>1 DEF MarkSettled, Save, SaveFails
    <2> QED
        BY <1>1, <2>2, <2>3, SilentKeeps
<1> QED
    BY <1>2, <1>3, <1>4

\* A restart makes the file the memory.
LEMMA NewStoreKeeps ==
    ASSUME Counting, ContactInv, NewStore
    PROVE  ContactInv'
<1> USE EconomyAssumption DEF EconomyAssumption
<1>1. /\ data' = economyFile /\ economyFile' = economyFile /\ creating' = [i \in Ids |-> "no"]
      /\ xpDue' = {} /\ overdue' = overdue /\ answered' = answered
    BY DEF NewStore
<1>2. Creators' = {} /\ \A u \in Users : AllowedFor(u)' = {}
    BY <1>1 DEF Creators, AllowedFor
<1>3. Cardinality({}) = 0
    BY DEF Counting
<1>4. \A u \in Users : /\ PendingIn(data, u)' = PendingIn(economyFile, u)
                       /\ LimitIn(data, u)' = LimitIn(economyFile, u)
                       /\ PendingIn(economyFile, u)' = PendingIn(economyFile, u)
                       /\ LimitIn(economyFile, u)' = LimitIn(economyFile, u)
    BY <1>1 DEF PendingIn, LimitIn
<1>5. ASSUME NEW u \in Users
      PROVE  Cardinality(PendingIn(economyFile, u)) + 0 <= LimitIn(economyFile, u) + MaxCreators - 1
    <2>1. PendingIn(economyFile, u) \in SUBSET Ids
        BY DEF PendingIn
    <2>2. Cardinality(PendingIn(economyFile, u)) \in Nat
        BY <2>1, IdSets
    <2> QED
        BY <2>2 DEF ContactInv, LimitInv
<1>6. LimitInv'
    BY <1>2, <1>3, <1>4, <1>5 DEF LimitInv, ContactInv
<1>7. RequestTypes'
    BY <1>1 DEF RequestTypes, ContactInv
<1> QED
    BY <1>1, <1>6, <1>7 DEF ContactInv, Agrees

\* What is pending, and who is creating, is all that the limit depends on.
LEMMA SameLimit ==
    ASSUME LimitInv, UNCHANGED <<data, economyFile, creating>>
    PROVE  LimitInv'
<1>1. Creators' = Creators
    BY DEF Creators
<1>2. \A u \in Users : /\ AllowedFor(u)' = AllowedFor(u)
                       /\ PendingIn(data, u)' = PendingIn(data, u) /\ LimitIn(data, u)' = LimitIn(data, u)
    BY DEF AllowedFor, PendingIn, LimitIn
<1>3. \A u \in Users : /\ PendingIn(economyFile, u)' = PendingIn(economyFile, u)
                       /\ LimitIn(economyFile, u)' = LimitIn(economyFile, u)
    BY DEF PendingIn, LimitIn
<1> QED
    BY <1>1, <1>2, <1>3 DEF LimitInv

\* NewStore starts with no requests.
LEMMA ContactInit ==
    ASSUME Counting, EconomyInit
    PROVE  ContactInv
<1> USE EconomyAssumption DEF EconomyAssumption
<1>1. data = EmptyStore /\ economyFile = EmptyStore /\ EmptyStore \in Stores
    BY DEF EconomyInit, EmptyStore, Stores, Statuses
<1>2. RequestTypes
    BY <1>1 DEF EconomyInit, RequestTypes, Statuses
<1>3. /\ Creators = {}
      /\ \A u \in Users : AllowedFor(u) = {} /\ PendingIn(data, u) = {} /\ PendingIn(economyFile, u) = {}
    <2>1. \A i \in Ids : creating[i] = "no"
        BY DEF EconomyInit
    <2>2. \A i \in Ids : EmptyStore.status[i] = "absent"
        BY DEF EmptyStore
    <2>3. Creators = {}
        BY <2>1 DEF Creators
    <2>4. \A u \in Users : AllowedFor(u) = {}
        BY <2>1 DEF AllowedFor
    <2>5. \A u \in Users : PendingIn(EmptyStore, u) = {}
        BY <2>2 DEF PendingIn
    <2> QED
        BY <1>1, <2>3, <2>4, <2>5
<1>4. Cardinality({}) = 0
    BY DEF Counting
<1>5. \A u \in Users : LimitIn(data, u) \in Nat /\ LimitIn(economyFile, u) \in Nat
    BY <1>1, LimitGrows DEF Stores
<1>6. LimitInv
    <2>1. MaxCreators \in Nat /\ MaxCreators >= 1
        OBVIOUS
    <2>2. ASSUME NEW u \in Users
          PROVE  /\ Cardinality(PendingIn(data, u)) + Cardinality(AllowedFor(u)) <= LimitIn(data, u) + MaxCreators - 1
                 /\ Cardinality(PendingIn(economyFile, u)) <= LimitIn(economyFile, u) + MaxCreators - 1
        <3>1. 0 + 0 <= LimitIn(data, u) + MaxCreators - 1 /\ 0 <= LimitIn(economyFile, u) + MaxCreators - 1
            BY <1>5, <2>1
        <3> QED
            BY <1>3, <1>4, <3>1
    <2> QED
        BY <1>3, <1>4, <2>1, <2>2 DEF LimitInv
<1> QED
    BY <1>1, <1>2, <1>6 DEF ContactInv, Agrees, EconomyInit, Resolved

\* Every step of a handler keeps the invariant of the store.
LEMMA ContactStep ==
    ASSUME Counting, ContactInv, [EconomyNext]_economyVars
    PROVE  ContactInv'
<1>1. CASE UNCHANGED economyVars
    <2>1. UNCHANGED <<data, economyFile, creating, overdue, xpDue, answered>>
        BY <1>1 DEF economyVars
    <2>2. LimitInv'
        BY <2>1, SameLimit DEF ContactInv
    <2>3. RequestTypes' /\ Agrees(data)' /\ Agrees(economyFile)'
        BY <2>1 DEF ContactInv, RequestTypes, Agrees
    <2> QED
        BY <2>2, <2>3 DEF ContactInv
<1>2. ASSUME NEW i \in Ids, CheckContact(i) \/ CheckLimit(i) PROVE ContactInv'
    <2>1. data' = data /\ economyFile' = economyFile /\ answered' = answered
        BY <1>2 DEF CheckContact, CheckLimit
    <2>2. LimitInv' /\ RequestTypes'
        BY <1>2, ChecksKeepLimit DEF ContactInv
    <2> QED
        BY <2>1, <2>2 DEF ContactInv, Agrees
<1>3. ASSUME NEW i \in Ids, TimePasses(i) PROVE ContactInv'
    <2>1. overdue' \subseteq Ids /\ UNCHANGED <<data, economyFile, creating, xpDue, answered>>
        BY <1>3 DEF TimePasses, ContactInv, RequestTypes
    <2>2. LimitInv'
        BY <2>1, SameLimit DEF ContactInv
    <2>3. RequestTypes' /\ Agrees(data)' /\ Agrees(economyFile)'
        BY <2>1 DEF ContactInv, RequestTypes, Agrees
    <2> QED
        BY <2>2, <2>3 DEF ContactInv
<1> QED
    BY <1>1, <1>2, <1>3, CreateKeeps, RespondKeeps, AddXPKeeps, WriteKeeps, NewStoreKeeps DEF EconomyNext

INSTANCE FiniteSetTheorems

\* The facts about counting that the proofs above rest on.
LEMMA CountingHolds == Counting
<1>1. ASSUME NEW T \in SUBSET Ids
      PROVE  /\ IsFiniteSet(T) /\ Cardinality(T) \in Nat
             /\ \A S \in SUBSET T : Cardinality(S) <= Cardinality(T)
    <2>1. IsFiniteSet(T)
        BY EconomyAssumption, FS_Subset DEF EconomyAssumption
    <2> QED
        BY <2>1, FS_Subset, FS_CardinalityType
<1>2. ASSUME NEW S, NEW x, IsFiniteSet(S)
      PROVE  Cardinality(S) \in Nat /\ Cardinality(S \cup {x}) <= Cardinality(S) + 1
    <2>1. Cardinality(S) \in Nat
        BY <1>2, FS_CardinalityType
    <2>2. Cardinality(S \cup {x}) = IF x \in S THEN Cardinality(S) ELSE Cardinality(S) + 1
        BY <1>2, FS_AddElement, Zenon
    <2> QED
        BY <2>1, <2>2
<1>3. ASSUME NEW S, NEW x, IsFiniteSet(S), x \in S
      PROVE  Cardinality(S \ {x}) = Cardinality(S) - 1
    BY <1>3, FS_RemoveElement
<1> QED
    BY <1>1, <1>2, <1>3, FS_EmptySet DEF Counting

\* The invariant of the store of first-contact requests.
LEMMA ContactInvariant == EconomySpec => []ContactInv
<1>1. EconomyInit => ContactInv
    BY ContactInit, CountingHolds
<1>2. ContactInv /\ [EconomyNext]_economyVars => ContactInv'
    BY ContactStep, CountingHolds
<1>. QED
    BY <1>1, <1>2, PTL DEF EconomySpec

\* The checks and the insert of CreateRequest under separate locks let a user
\* exceed the limit of pending requests by less than the number of requests
\* served at once, whatever writes fail and whenever the process restarts.
THEOREM ExcessBounded == EconomySpec => []PendingExcessBounded
<1>1. ContactInv => PendingExcessBounded
    <2> SUFFICES ASSUME ContactInv, NEW u \in Users
                 PROVE  Cardinality(PendingOutbound(u)) <= PendingLimit(u) + MaxCreators - 1
        BY DEF PendingExcessBounded
    <2>1. PendingOutbound(u) = PendingIn(data, u) /\ PendingLimit(u) = LimitIn(data, u)
        BY DEF PendingOutbound, PendingIn, PendingLimit, LimitIn
    <2>2. PendingIn(data, u) \in SUBSET Ids /\ AllowedFor(u) \in SUBSET Ids
        BY DEF PendingIn, AllowedFor
    <2>3. Cardinality(PendingIn(data, u)) \in Nat /\ Cardinality(AllowedFor(u)) \in Nat
        BY <2>2, IdSets, CountingHolds
    <2>4. LimitIn(data, u) \in Nat
        BY LimitGrows DEF ContactInv, RequestTypes, Stores
    <2> QED
        BY <2>1, <2>3, <2>4, EconomyAssumption DEF ContactInv, LimitInv, EconomyAssumption
<1>. QED
    BY <1>1, ContactInvariant, PTL

\* CreateRequest and Respond tell a status only after persistLocked wrote it, so
\* that no failed write, sweep or restart takes it back.
THEOREM AnswersStay == EconomySpec => []AnsweredStays
<1>1. ContactInv => AnsweredStays
    BY DEF ContactInv, Agrees, AnsweredStays
<1>. QED
    BY <1>1, ContactInvariant, PTL

=============================================================================
