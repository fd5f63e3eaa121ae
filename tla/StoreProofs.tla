----------------------------- MODULE StoreProofs ----------------------------
(***************************************************************************)
(* Proofs about the two stores that decide about money once: the claims of *)
(* the faucet and the book of dispute panels.                              *)
(***************************************************************************)
EXTENDS Faucet, DealBook, TLAPS

-----------------------------------------------------------------------------
(* The faucet.  A claim, in memory or in the file, keeps the next credit of  *)
(* its address away from every credit that was acknowledged.                *)

AckedFor(a) == {c \in credits : c.acked /\ c.address = a}

\* What a stored claim says of the acknowledged credits of its address: it is
\* the claim of the last one, or a later one that may claim, and without a claim
\* every cooldown is over.
Guards(stored) ==
    \A a \in Addresses : \A c \in AckedFor(a) :
        IF stored[a] = 0 THEN clock >= c.at + Cooldown
        ELSE stored[a] = c.at \/ stored[a] >= c.at + Cooldown

\* A request between its claim and its answer: the claim is its own, in memory
\* and in the file, a tick old at most, and no credit of it is acknowledged.
OwnClaim(q) ==
    /\ q.address \in Addresses
    /\ claims[q.address] = q.since /\ claimFile[q.address] = q.since
    /\ q.since \in Times /\ clock \in q.since .. q.since + 1
    /\ \A c \in AckedFor(q.address) : c.at + Cooldown <= q.since

\* One request of an address is served at a time.
Serving(r) == request[r].phase # "idle"
ServedAlone ==
    /\ \A r \in Requests : Serving(r) => OwnClaim(request[r])
    /\ \A r, q \in Requests :
         Serving(r) /\ Serving(q) /\ request[r].address = request[q].address => r = q

CooldownInv ==
    /\ clock \in Times
    /\ claims \in [Addresses -> 0 .. MaxClock] /\ claimFile \in [Addresses -> 0 .. MaxClock]
    /\ request \in [Requests -> FaucetRequests]
    /\ \A c \in credits : c.at \in Times
    /\ Guards(claims) /\ Guards(claimFile)
    /\ ServedAlone
    /\ AckedCreditsSpaced

\* TryClaim is refused while a request of the address is served.
LEMMA TryClaimKeeps ==
    ASSUME CooldownInv, NEW r \in Requests, NEW a \in Addresses, TryClaim(r, a)
    PROVE  CooldownInv'
<1> USE FaucetAssumption
<1>1. clock \in Nat /\ clock # 0 /\ Cooldown \in Nat /\ Cooldown >= 2
    BY DEF CooldownInv, Times
<1>2. \A c \in AckedFor(a) : c.at + Cooldown <= clock /\ c.at \in Nat
    BY <1>1 DEF CooldownInv, Guards, TryClaim, MayClaim, AckedFor, Times
<1>3. \A q \in Requests : Serving(q) => request[q].address # a
    <2> SUFFICES ASSUME NEW q \in Requests, Serving(q), request[q].address = a PROVE FALSE
        OBVIOUS
    <2>1. claims[a] \in Nat /\ claims[a] # 0 /\ clock <= claims[a] + 1
        BY <1>1 DEF CooldownInv, ServedAlone, OwnClaim, Times
    <2> QED
        BY <1>1, <2>1 DEF TryClaim, MayClaim
<1>4. /\ claims' = [claims EXCEPT ![a] = clock] /\ claimFile' = claims'
      /\ request' = [request EXCEPT ![r] = [phase |-> "claimed", address |-> a, since |-> clock]]
      /\ clock' = clock /\ credits' = credits
    BY DEF TryClaim, persistLocked
<1>5. /\ claims' \in [Addresses -> 0 .. MaxClock] /\ claimFile' \in [Addresses -> 0 .. MaxClock]
      /\ request' \in [Requests -> FaucetRequests]
    BY <1>4 DEF CooldownInv, Times, FaucetRequests
<1>6. Guards(claims)' /\ Guards(claimFile)'
    BY <1>1, <1>2, <1>4 DEF CooldownInv, Guards, AckedFor
<1>7. ServedAlone'
    <2>1. /\ request'[r].phase = "claimed" /\ request'[r].address = a /\ request'[r].since = clock
          /\ claims'[a] = clock /\ claimFile'[a] = clock
          /\ \A q \in Requests \ {r} : request'[q] = request[q]
          /\ \A b \in Addresses \ {a} : claims'[b] = claims[b] /\ claimFile'[b] = claims[b]
        BY <1>4 DEF CooldownInv
    <2>2. ASSUME NEW q \in Requests, Serving(q)' PROVE OwnClaim(request[q])'
        <3>1. CASE q = r
            BY <1>1, <1>2, <1>4, <2>1, <3>1 DEF CooldownInv, AckedFor, OwnClaim, Times
        <3>2. CASE q # r
            <4>1. request'[q] = request[q] /\ OwnClaim(request[q]) /\ request[q].address # a
                BY <1>3, <2>1, <2>2, <3>2 DEF CooldownInv, ServedAlone, Serving
            <4> QED
                BY <1>4, <2>1, <4>1 DEF OwnClaim, AckedFor
        <3> QED
            BY <3>1, <3>2
    <2>3. \A q, s \in Requests :
            Serving(q)' /\ Serving(s)' /\ request'[q].address = request'[s].address => q = s
        BY <1>3, <2>1 DEF CooldownInv, ServedAlone, Serving
    <2> QED
        BY <2>2, <2>3 DEF ServedAlone
<1>8. AckedCreditsSpaced' /\ clock' \in Times /\ \A c \in credits' : c.at \in Times
    BY <1>4 DEF CooldownInv, AckedCreditsSpaced
<1> QED
    BY <1>5, <1>6, <1>7, <1>8 DEF CooldownInv

\* What is known of a request that is served.
LEMMA ServedFacts ==
    ASSUME CooldownInv, NEW r \in Requests, Serving(r)
    PROVE  /\ OwnClaim(request[r])
           /\ \A q \in Requests \ {r} : Serving(q) =>
                 OwnClaim(request[q]) /\ request[q].address # request[r].address
BY DEF CooldownInv, ServedAlone

\* A credit is reported as successful or not; only then is it acknowledged.
LEMMA CreditKeeps ==
    ASSUME CooldownInv, NEW r \in Requests, InstantFaucetCredit(r)
    PROVE  CooldownInv'
<1> USE FaucetAssumption
<1>0. PICK a, s : a = request[r].address /\ s = request[r].since
    OBVIOUS
<1>1. Serving(r)
    BY DEF InstantFaucetCredit, Serving
<1>2. /\ a \in Addresses /\ claims[a] = s /\ claimFile[a] = s /\ s \in Times
      /\ \A c \in AckedFor(a) : c.at + Cooldown <= s
      /\ \A q \in Requests \ {r} : Serving(q) => OwnClaim(request[q]) /\ request[q].address # a
    BY <1>0, <1>1, ServedFacts DEF OwnClaim
<1> DEFINE note(k) == [nth |-> Cardinality(credits), address |-> a, at |-> s, acked |-> k]
           after(k) == IF k THEN NoRequest ELSE [request[r] EXCEPT !.phase = "failed"]
<1>12. PICK acked \in BOOLEAN :
        /\ credits' = credits \cup {note(acked)} \/ (~acked /\ credits' = credits)
        /\ request' = [request EXCEPT ![r] = after(acked)]
    <2>1. PICK credited \in BOOLEAN, acked \in BOOLEAN :
            /\ acked => credited
            /\ credits' = IF credited THEN credits \cup {note(acked)} ELSE credits
            /\ request' = [request EXCEPT ![r] = after(acked)]
        BY <1>0, Zenon DEF InstantFaucetCredit
    <2>2. CASE credited
        BY <2>1, <2>2, Zenon
    <2>3. CASE ~credited
        BY <2>1, <2>3, Zenon
    <2> QED
        BY <2>2, <2>3
<1> DEFINE new == note(acked)
<1>3. /\ new.address = a /\ new.at = s /\ new.acked = acked
      /\ credits' = credits \cup {new} \/ (~acked /\ credits' = credits)
    BY <1>12
<1>13. /\ ~acked => after(acked).address = a /\ after(acked).since = s
       /\ acked => after(acked).phase = "idle"
       /\ after(acked) \in FaucetRequests
    BY <1>0 DEF CooldownInv, FaucetRequests, NoRequest
<1> HIDE DEF new, after
<1>4. UNCHANGED <<clock, claims, claimFile>>
    BY DEF InstantFaucetCredit
<1>5. /\ \A b \in Addresses \ {a} : AckedFor(b)' = AckedFor(b)
      /\ AckedFor(a)' \subseteq AckedFor(a) \cup {new}
      /\ ~acked => AckedFor(a)' = AckedFor(a)
    <2>1. \A b \in Addresses \ {a} : AckedFor(b)' = AckedFor(b)
        BY <1>3 DEF AckedFor
    <2>2. AckedFor(a)' \subseteq AckedFor(a) \cup {new}
        BY <1>3 DEF AckedFor
    <2>3. ASSUME ~acked PROVE AckedFor(a)' = AckedFor(a)
        BY <1>3, <2>3, Zenon DEF AckedFor
    <2> QED
        BY <2>1, <2>2, <2>3
<1>6. /\ Serving(r)' => ~acked /\ request'[r].address = a /\ request'[r].since = s
      /\ \A q \in Requests \ {r} : request'[q] = request[q]
    BY <1>12, <1>13 DEF CooldownInv, Serving
<1>7. request' \in [Requests -> FaucetRequests]
    BY <1>12, <1>13 DEF CooldownInv
<1>8. Guards(claims)' /\ Guards(claimFile)'
    <2>1. ASSUME NEW b \in Addresses, NEW c \in AckedFor(b)'
          PROVE  /\ IF claims[b] = 0 THEN clock >= c.at + Cooldown
                    ELSE claims[b] = c.at \/ claims[b] >= c.at + Cooldown
                 /\ IF claimFile[b] = 0 THEN clock >= c.at + Cooldown
                    ELSE claimFile[b] = c.at \/ claimFile[b] >= c.at + Cooldown
        <3>1. CASE c \in AckedFor(b)
            BY <3>1 DEF CooldownInv, Guards
        <3>2. CASE c \notin AckedFor(b)
            <4>1. b = a /\ c = new
                BY <1>5, <2>1, <3>2
            <4>2. c.at = s /\ s # 0
                BY <1>2, <1>3, <4>1 DEF Times
            <4> QED
                BY <1>2, <4>1, <4>2
        <3> QED
            BY <3>1, <3>2
    <2> QED
        BY <1>4, <2>1 DEF Guards
<1>9. ServedAlone'
    <2>1. ASSUME NEW q \in Requests, Serving(q)' PROVE OwnClaim(request[q])'
        <3>1. CASE q = r
            <4>1. ~acked /\ request'[q].address = a /\ request'[q].since = s /\ AckedFor(a)' = AckedFor(a)
                BY <1>5, <1>6, <2>1, <3>1
            <4>2. OwnClaim(request[r])
                BY <1>1, ServedFacts
            <4> QED
                BY <1>0, <1>4, <3>1, <4>1, <4>2 DEF OwnClaim
        <3>2. CASE q # r
            <4>1. request'[q] = request[q] /\ OwnClaim(request[q]) /\ request[q].address \in Addresses \ {a}
                BY <1>2, <1>6, <2>1, <3>2 DEF Serving, OwnClaim
            <4> QED
                BY <1>4, <1>5, <4>1 DEF OwnClaim
        <3> QED
            BY <3>1, <3>2
    <2>2. \A q, t \in Requests :
            Serving(q)' /\ Serving(t)' /\ request'[q].address = request'[t].address => q = t
        BY <1>0, <1>1, <1>6 DEF CooldownInv, ServedAlone, Serving
    <2> QED
        BY <2>1, <2>2 DEF ServedAlone
<1>10. \A c \in credits' : c.at \in Times
    BY <1>2, <1>3 DEF CooldownInv
<1>11. AckedCreditsSpaced'
    <2> SUFFICES ASSUME NEW c \in credits', NEW d \in credits', c # d, c.acked, d.acked, c.address = d.address
                 PROVE  c.at + Cooldown <= d.at \/ d.at + Cooldown <= c.at
        BY DEF AckedCreditsSpaced
    <2>1. CASE c \in credits /\ d \in credits
        BY <2>1 DEF CooldownInv, AckedCreditsSpaced
    <2>2. CASE c \notin credits
        <3>1. c = new /\ d \in AckedFor(a)
            BY <1>3, <2>2 DEF AckedFor
        <3> QED
            BY <1>2, <1>3, <3>1
    <2>3. CASE d \notin credits
        <3>1. d = new /\ c \in AckedFor(a)
            BY <1>3, <2>3 DEF AckedFor
        <3> QED
            BY <1>2, <1>3, <3>1
    <2> QED
        BY <2>1, <2>2, <2>3
<1> QED
    BY <1>4, <1>7, <1>8, <1>9, <1>10, <1>11 DEF CooldownInv

\* A released claim frees the address only when every cooldown is over, and a
\* release that is not written leaves a claim that guards as well.
LEMMA ReleaseKeeps ==
    ASSUME CooldownInv, NEW r \in Requests, ReleaseClaim(r)
    PROVE  CooldownInv'
<1> USE FaucetAssumption
<1>0. PICK a, s : a = request[r].address /\ s = request[r].since
    OBVIOUS
<1>1. Serving(r)
    BY DEF ReleaseClaim, Serving
<1>2. /\ a \in Addresses /\ claims[a] = s /\ claimFile[a] = s /\ s \in Times /\ s <= clock
      /\ clock \in Nat /\ \A c \in AckedFor(a) : c.at + Cooldown <= s /\ c.at \in Nat
      /\ \A q \in Requests \ {r} : Serving(q) => OwnClaim(request[q]) /\ request[q].address # a
    BY <1>0, <1>1, ServedFacts DEF OwnClaim, CooldownInv, AckedFor, Times
<1>3. /\ claims' = [claims EXCEPT ![a] = 0] /\ claimFile' \in {claims', claimFile}
      /\ request' = [request EXCEPT ![r] = NoRequest] /\ clock' = clock /\ credits' = credits
    BY <1>0 DEF ReleaseClaim
<1>4. /\ claims' \in [Addresses -> 0 .. MaxClock] /\ claimFile' \in [Addresses -> 0 .. MaxClock]
      /\ claims'[a] = 0 /\ \A b \in Addresses \ {a} : claims'[b] = claims[b]
      /\ \A b \in Addresses \ {a} : claimFile'[b] = claims[b] \/ claimFile'[b] = claimFile[b]
    <2>1. 0 \in 0 .. MaxClock
        OBVIOUS
    <2>2. /\ claims' \in [Addresses -> 0 .. MaxClock] /\ claims'[a] = 0
          /\ \A b \in Addresses \ {a} : claims'[b] = claims[b]
        BY <1>2, <1>3, <2>1 DEF CooldownInv
    <2>3. claimFile' = claims' \/ claimFile' = claimFile
        BY <1>3
    <2> QED
        BY <2>2, <2>3 DEF CooldownInv
<1>5. /\ request' \in [Requests -> FaucetRequests] /\ request'[r].phase = "idle"
      /\ \A q \in Requests \ {r} : request'[q] = request[q]
    BY <1>3 DEF CooldownInv, NoRequest, FaucetRequests
<1>6. \A b \in Addresses : AckedFor(b)' = AckedFor(b)
    BY <1>3 DEF AckedFor
<1>7. Guards(claims)'
    <2>1. ASSUME NEW c \in AckedFor(a) PROVE clock >= c.at + Cooldown
        <3>1. c.at + Cooldown <= s /\ s <= clock /\ {c.at, s, clock, Cooldown} \subseteq Nat
            BY <1>2 DEF Times
        <3> QED
            BY <3>1
    <2> QED
        BY <1>3, <1>4, <1>6, <2>1 DEF Guards, CooldownInv
<1>8. Guards(claimFile)'
    <2>1. CASE claimFile' = claims'
        BY <1>7, <2>1 DEF Guards
    <2>2. CASE claimFile' = claimFile
        BY <1>3, <1>6, <2>2 DEF Guards, CooldownInv
    <2> QED
        BY <1>3, <2>1, <2>2
<1>9. ServedAlone'
    <2>1. ASSUME NEW q \in Requests, Serving(q)' PROVE OwnClaim(request[q])'
        <3>1. q # r /\ request'[q] = request[q] /\ Serving(q)
            BY <1>5, <2>1 DEF Serving
        <3>2. OwnClaim(request[q]) /\ request[q].address \in Addresses \ {a}
            BY <1>2, <3>1 DEF OwnClaim
        <3> QED
            BY <1>3, <1>4, <1>6, <3>1, <3>2 DEF OwnClaim
    <2>2. \A q, t \in Requests :
            Serving(q)' /\ Serving(t)' /\ request'[q].address = request'[t].address => q = t
        BY <1>5 DEF CooldownInv, ServedAlone, Serving
    <2> QED
        BY <2>1, <2>2 DEF ServedAlone
<1> QED
    BY <1>3, <1>4, <1>5, <1>7, <1>8, <1>9 DEF CooldownInv, AckedCreditsSpaced

\* A restart serves nothing, and the file guards as the memory did.
LEMMA ReloadKeeps ==
    ASSUME CooldownInv, NewCooldownStore
    PROVE  CooldownInv'
<1>1. /\ claims' = claimFile /\ claimFile' = claimFile /\ clock' = clock /\ credits' = credits
      /\ request' = [r \in Requests |-> NoRequest]
    BY DEF NewCooldownStore
<1>2. request' \in [Requests -> FaucetRequests] /\ \A r \in Requests : ~Serving(r)'
    BY <1>1, FaucetAssumption DEF NoRequest, FaucetRequests, Serving
<1>3. ServedAlone'
    BY <1>2 DEF ServedAlone
<1>4. Guards(claims)' /\ Guards(claimFile)'
    BY <1>1 DEF CooldownInv, Guards, AckedFor
<1> QED
    BY <1>1, <1>2, <1>3, <1>4 DEF CooldownInv, AckedCreditsSpaced

\* Time passes only over requests of the present tick.
LEMMA TickKeeps ==
    ASSUME CooldownInv, Tick
    PROVE  CooldownInv'
<1> USE FaucetAssumption
<1>1. /\ clock < MaxClock /\ clock' = clock + 1
      /\ UNCHANGED <<claims, claimFile, request, credits>>
      /\ \A r \in Requests : Serving(r) => request[r].since = clock
    BY DEF Tick, Serving
<1>2. clock' \in Times /\ clock \in Nat
    BY <1>1 DEF CooldownInv, Times
<1>3. Guards(claims)' /\ Guards(claimFile)'
    <2>1. ASSUME NEW a \in Addresses, NEW c \in AckedFor(a)
          PROVE  clock >= c.at + Cooldown => clock' >= c.at + Cooldown
        BY <1>1, <1>2 DEF CooldownInv, AckedFor, Times
    <2> QED
        BY <1>1, <2>1 DEF CooldownInv, Guards, AckedFor
<1>4. ServedAlone'
    <2>1. ASSUME NEW r \in Requests, Serving(r)' PROVE OwnClaim(request[r])'
        <3>1. Serving(r) /\ OwnClaim(request[r]) /\ request[r].since = clock /\ request'[r] = request[r]
            BY <1>1, <2>1 DEF Serving, CooldownInv, ServedAlone
        <3> QED
            BY <1>1, <1>2, <3>1 DEF OwnClaim, AckedFor, Times
    <2> QED
        BY <1>1, <2>1 DEF ServedAlone, CooldownInv, Serving
<1> QED
    BY <1>1, <1>2, <1>3, <1>4 DEF CooldownInv, AckedCreditsSpaced

\* TryClaim, ReleaseClaim and the restart of the cooldown store keep two
\* acknowledged faucet credits of an address a cooldown apart, for any number of
\* concurrent requests, failed credits and unwritten releases.
THEOREM CreditsSpaced == FaucetSpec => []AckedCreditsSpaced
<1>1. FaucetInit => CooldownInv
    <2> SUFFICES ASSUME FaucetInit PROVE CooldownInv
        OBVIOUS
    <2>1. clock \in Times /\ credits = {} /\ \A r \in Requests : ~Serving(r)
        BY FaucetAssumption DEF FaucetInit, NoRequest, Serving, Times
    <2>2. /\ claims \in [Addresses -> 0 .. MaxClock] /\ claimFile \in [Addresses -> 0 .. MaxClock]
          /\ request \in [Requests -> FaucetRequests]
        BY FaucetAssumption DEF FaucetInit, NoRequest, FaucetRequests
    <2> QED
        BY <2>1, <2>2 DEF CooldownInv, Guards, AckedFor, ServedAlone, AckedCreditsSpaced
<1>2. CooldownInv /\ [FaucetNext]_faucetVars => CooldownInv'
    <2> SUFFICES ASSUME CooldownInv, [FaucetNext]_faucetVars PROVE CooldownInv'
        OBVIOUS
    <2>1. CASE UNCHANGED faucetVars
        BY <2>1 DEF faucetVars, CooldownInv, Guards, AckedFor, ServedAlone, Serving, OwnClaim, AckedCreditsSpaced
    <2> QED
        BY <2>1, TryClaimKeeps, CreditKeeps, ReleaseKeeps, ReloadKeeps, TickKeeps DEF FaucetNext
<1>3. CooldownInv => AckedCreditsSpaced
    BY DEF CooldownInv
<1>. QED
    BY <1>1, <1>2, <1>3, PTL DEF FaucetSpec

-----------------------------------------------------------------------------
(* The book of dispute panels.  For any volunteers, escrows, verdicts and  *)
(* heights the book implements the abstract panel and never returns two    *)
(* verdicts for one escrow, although Quorum stores its result in memory    *)
(* only and a restart forgets it.  The file of the book is assumed to be   *)
(* written whenever the book writes it.                                    *)
(*                                                                         *)
(* What the file may miss are only the freeze and the quorum of a case,    *)
(* never a seat or a ballot; reveals are never taken back, so a verdict that*)
(* had three keeps them; and of five volunteers with one ballot each, three*)
(* and three cannot differ.                                                *)

\* A case of the book: five seats, ballots of seated volunteers only, and a
\* quorum that three of the reveals carry.
CaseInv(c) ==
    /\ c \in Case
    /\ c.panel = {} \/ Cardinality(c.panel) = 5
    /\ \A k \in Volunteers : c.commits[k] # None \/ c.reveals[k] # None => k \in c.panel
    /\ c.quorum # None => c.quorum \in Carried(c.reveals)

\* Two cases that differ in the freeze, the quorum and the deadline at most.
SameBallots(c, d) == c.panel = d.panel /\ c.commits = d.commits /\ c.reveals = d.reveals

\* What the handlers and the book range over, without the cases.
RestTypeOK ==
    /\ roster \in SUBSET Volunteers /\ height \in 0 .. TopHeight
    /\ bookFile \in [roster : SUBSET Volunteers, height : 0 .. TopHeight, cases : [Escrows -> Case]]
    /\ complaint \in SUBSET [escrow : Escrows, bonded : SUBSET Volunteers,
                             exclude : SUBSET Volunteers, deadline : 0 .. TopHeight, fill : BOOLEAN]
    /\ settled \in SUBSET [case : Escrows, outcome : Outcomes, dispute : BOOLEAN]

\* The inductive invariant.
BookInv ==
    /\ RestTypeOK
    /\ cases \in [Escrows -> Case]
    /\ announced \in [Escrows -> SUBSET Verdicts]
    /\ \A e \in Escrows :
        /\ CaseInv(cases[e]) /\ CaseInv(bookFile.cases[e])
        /\ SameBallots(cases[e], bookFile.cases[e])
        /\ announced[e] \subseteq Carried(cases[e].reveals)
    /\ \A s \in settled : s.dispute => s.outcome \in announced[s.case]

-----------------------------------------------------------------------------
(* Cases. *)

\* What counting volunteers gives; shown at the end, before the theorems, so that
\* the library's facts about finite sets are not in the way of the other proofs.
Counting ==
    /\ Cardinality({}) = 0
    /\ \A T \in SUBSET Volunteers : /\ Cardinality(T) \in Nat
                                   /\ \A S \in SUBSET T : Cardinality(S) <= Cardinality(T)
    /\ \A S, T \in SUBSET Volunteers :
        S \cap T = {} => Cardinality(S \cup T) = Cardinality(S) + Cardinality(T)

\* The volunteers that revealed v are seated ones.
LEMMA RevealersSeated ==
    ASSUME NEW c, CaseInv(c), NEW v \in Verdicts
    PROVE  {k \in Volunteers : c.reveals[k] = v} \subseteq c.panel
BY DealAssumption DEF CaseInv

\* Three and three of five volunteers have one in common, and it has one ballot.
LEMMA OneCarried ==
    ASSUME Counting, NEW c, CaseInv(c), NEW v \in Carried(c.reveals), NEW w \in Carried(c.reveals)
    PROVE  v = w
<1> DEFINE R(x) == {k \in Volunteers : c.reveals[k] = x}
<1>1. v \in Verdicts /\ w \in Verdicts /\ Cardinality(R(v)) >= 3 /\ Cardinality(R(w)) >= 3
    BY DEF Carried
<1>2. R(v) \subseteq c.panel /\ R(w) \subseteq c.panel
    BY <1>1, RevealersSeated
<1>3. c.panel \in SUBSET Volunteers
    BY DEF CaseInv, Case
<1>4. Cardinality(c.panel) <= 5 /\ Cardinality(c.panel) \in Nat
    BY DEF CaseInv, Counting
<1>5. R(v) \in SUBSET Volunteers /\ R(w) \in SUBSET Volunteers /\ R(v) \cup R(w) \in SUBSET c.panel
    BY <1>2
<1>6. SUFFICES ASSUME R(v) \cap R(w) = {} PROVE FALSE
    OBVIOUS
<1> HIDE DEF R
<1>7. /\ Cardinality(R(v)) \in Nat /\ Cardinality(R(w)) \in Nat
      /\ Cardinality(R(v) \cup R(w)) = Cardinality(R(v)) + Cardinality(R(w))
    BY <1>5, <1>6 DEF Counting
<1>8. Cardinality(R(v) \cup R(w)) <= Cardinality(c.panel)
    BY <1>3, <1>5 DEF Counting
<1>. QED
    BY <1>1, <1>4, <1>7, <1>8

\* quorumOf returns a verdict that three reveals carry, or none.
LEMMA QuorumCarried ==
    ASSUME NEW reveals
    PROVE  quorumOf(reveals) \in Carried(reveals) \cup {None}
BY DEF quorumOf

\* What reveals carry are verdicts.
LEMMA CarriedAreVerdicts ==
    ASSUME NEW reveals
    PROVE  Carried(reveals) \subseteq Verdicts
BY DEF Carried

\* Computing the quorum of a case leaves its ballots alone and keeps the case
\* invariant.
LEMMA WithQuorumKeeps ==
    ASSUME NEW c, CaseInv(c)
    PROVE  CaseInv(WithQuorum(c)) /\ SameBallots(WithQuorum(c), c)
<1> DEFINE d == [c EXCEPT !.quorum = quorumOf(c.reveals)]
<1>1. c \in Case
    BY DEF CaseInv
<1>2. quorumOf(c.reveals) \in Carried(c.reveals) \cup {None} /\ quorumOf(c.reveals) \in Verdicts \cup {None}
    BY QuorumCarried, CarriedAreVerdicts
<1>3. /\ d \in Case /\ d.panel = c.panel /\ d.commits = c.commits /\ d.reveals = c.reveals
      /\ d.quorum = quorumOf(c.reveals)
    BY <1>1, <1>2 DEF Case
<1>4. CaseInv(d) /\ SameBallots(d, c)
    BY <1>2, <1>3 DEF CaseInv, SameBallots
<1>. QED
    BY <1>4 DEF WithQuorum, SameBallots

\* So does freezing it.
LEMMA FreezeKeeps ==
    ASSUME NEW c, CaseInv(c), NEW h
    PROVE  CaseInv(Freeze(c, h)) /\ SameBallots(Freeze(c, h), c)
<1> DEFINE d == [c EXCEPT !.frozen = TRUE]
<1>1. /\ d \in Case /\ d.panel = c.panel /\ d.commits = c.commits /\ d.reveals = c.reveals
      /\ d.quorum = c.quorum
    BY DEF CaseInv, Case
<1>2. CaseInv(d) /\ SameBallots(d, c)
    BY <1>1 DEF CaseInv, SameBallots
<1>3. CaseInv(WithQuorum(d)) /\ SameBallots(WithQuorum(d), d)
    BY <1>2, WithQuorumKeeps
<1>. QED
    BY <1>2, <1>3 DEF Freeze, SameBallots

\* The case that Quorum leaves in memory.
LEMMA QuorumCaseKeeps ==
    ASSUME NEW e \in Escrows, CaseInv(cases[e])
    PROVE  CaseInv(QuorumCase(e)) /\ SameBallots(QuorumCase(e), cases[e])
BY WithQuorumKeeps, FreezeKeeps DEF QuorumCase

\* A new panel of five has no ballots.
LEMMA NewCaseInv ==
    ASSUME NEW panel \in SUBSET Volunteers, Cardinality(panel) = 5, NEW d \in 0 .. TopHeight
    PROVE  CaseInv([NoCase EXCEPT !.panel = panel, !.deadline = d])
<1> DEFINE c == [NoCase EXCEPT !.panel = panel, !.deadline = d]
<1>1. /\ c.panel = panel /\ c.commits = NoCase.commits /\ c.reveals = NoCase.reveals
      /\ c.quorum = None
    BY DEF NoCase
<1>2. c \in Case
    BY DEF NoCase, Case, Ballots
<1>. QED
    BY <1>1, <1>2 DEF CaseInv, NoCase

\* The empty case.
LEMMA NoCaseInv == CaseInv(NoCase)
<1>1. NoCase \in Case
    BY DealAssumption DEF NoCase, Case, Ballots
<1>. QED
    BY <1>1 DEF CaseInv, NoCase

\* A case without a panel has the ballots of none.
LEMMA NoPanelNoBallots ==
    ASSUME NEW c, CaseInv(c), c.panel = {}
    PROVE  c.commits = NoCase.commits /\ c.reveals = NoCase.reveals
BY DEF CaseInv, Case, Ballots, NoCase

\* A commit of a seated volunteer.
LEMMA CommitCaseKeeps ==
    ASSUME NEW c, CaseInv(c), NEW k \in c.panel, NEW v \in Verdicts
    PROVE  LET d == [c EXCEPT !.commits[k] = v]
           IN  /\ CaseInv(d) /\ d.panel = c.panel /\ d.reveals = c.reveals
               /\ d.commits = [c.commits EXCEPT ![k] = v]
<1> DEFINE d == [c EXCEPT !.commits[k] = v]
<1>1. c \in Case /\ k \in Volunteers
    BY DEF CaseInv, Case
<1>2. /\ d.panel = c.panel /\ d.reveals = c.reveals /\ d.quorum = c.quorum
      /\ d.commits = [c.commits EXCEPT ![k] = v]
    BY <1>1 DEF Case
<1>3. d.commits \in Ballots
    BY <1>1, <1>2 DEF Case, Ballots
<1>4. d \in Case
    BY <1>1, <1>3 DEF Case
<1>5. \A j \in Volunteers : d.commits[j] # None \/ d.reveals[j] # None => j \in d.panel
    BY <1>1, <1>2 DEF CaseInv, Case, Ballots
<1>. QED
    BY <1>2, <1>4, <1>5 DEF CaseInv

\* A reveal that was not made before takes no reveal back.
LEMMA RevealGrows ==
    ASSUME Counting, NEW r \in Ballots, NEW k \in Volunteers, r[k] = None, NEW v \in Verdicts
    PROVE  Carried(r) \subseteq Carried([r EXCEPT ![k] = v])
<1> SUFFICES ASSUME NEW w \in Carried(r)
             PROVE  w \in Carried([r EXCEPT ![k] = v])
    OBVIOUS
<1> DEFINE s == [r EXCEPT ![k] = v]
           A == {j \in Volunteers : r[j] = w}
           B == {j \in Volunteers : s[j] = w}
<1>1. w \in Verdicts /\ Cardinality(A) >= 3
    BY DEF Carried
<1>2. A \in SUBSET B
    BY <1>1, DealAssumption DEF Ballots
<1>3. A \in SUBSET Volunteers /\ B \in SUBSET Volunteers
    OBVIOUS
<1> HIDE DEF A, B
<1>4. Cardinality(A) <= Cardinality(B) /\ Cardinality(A) \in Nat /\ Cardinality(B) \in Nat
    BY <1>2, <1>3 DEF Counting
<1>5. Cardinality(B) >= 3
    BY <1>1, <1>4
<1> USE DEF A, B
<1>. QED
    BY <1>1, <1>5 DEF Carried

\* A first reveal of a seated volunteer.
LEMMA RevealCaseKeeps ==
    ASSUME Counting, NEW c, CaseInv(c), NEW k \in c.panel, c.reveals[k] = None, NEW v \in Verdicts
    PROVE  LET d == [c EXCEPT !.reveals[k] = v]
           IN  /\ CaseInv(d) /\ d.panel = c.panel /\ d.commits = c.commits
               /\ d.reveals = [c.reveals EXCEPT ![k] = v]
               /\ Carried(c.reveals) \subseteq Carried(d.reveals)
<1> DEFINE d == [c EXCEPT !.reveals[k] = v]
<1>1. c \in Case /\ k \in Volunteers /\ c.reveals \in Ballots
    BY DEF CaseInv, Case
<1>2. /\ d.panel = c.panel /\ d.commits = c.commits /\ d.quorum = c.quorum
      /\ d.reveals = [c.reveals EXCEPT ![k] = v]
    BY <1>1 DEF Case
<1>3. d.reveals \in Ballots
    BY <1>1, <1>2 DEF Ballots
<1>4. d \in Case
    BY <1>1, <1>3 DEF Case
<1>5. \A j \in Volunteers : d.commits[j] # None \/ d.reveals[j] # None => j \in d.panel
    BY <1>1, <1>2 DEF CaseInv, Ballots
<1>6. Carried(c.reveals) \subseteq Carried(d.reveals)
    BY <1>1, <1>2, RevealGrows
<1>. QED
    BY <1>2, <1>4, <1>5, <1>6 DEF CaseInv

-----------------------------------------------------------------------------
(* Steps. *)

\* The complaints that the handler may hold.
Complaints == [escrow : Escrows, bonded : SUBSET Volunteers, exclude : SUBSET Volunteers,
               deadline : 0 .. TopHeight, fill : BOOLEAN]

\* The new book keeps every verdict that the reveals carried.
Grows(cs) == \A e \in Escrows :
    CaseInv(cs[e]) /\ Carried(cases[e].reveals) \subseteq Carried(cs[e].reveals)

\* Any operation that writes the book it leaves in memory.
LEMMA FlushedKeeps ==
    ASSUME BookInv, NEW cs \in [Escrows -> Case], Grows(cs),
           cases' = cs, roster' \in SUBSET Volunteers, height' \in 0 .. TopHeight,
           bookFile' = [roster |-> roster', height |-> height', cases |-> cs],
           complaint' \in SUBSET Complaints, UNCHANGED <<announced, settled>>
    PROVE  BookInv'
<1>1. RestTypeOK'
    BY DEF BookInv, RestTypeOK, Complaints
<1>2. ASSUME NEW e \in Escrows
      PROVE  /\ CaseInv(cases[e])' /\ CaseInv(bookFile.cases[e])'
             /\ SameBallots(cases[e], bookFile.cases[e])'
             /\ (announced[e] \subseteq Carried(cases[e].reveals))'
    <2>1. CaseInv(cases'[e]) /\ CaseInv(bookFile'.cases[e]) /\ bookFile'.cases[e] = cases'[e]
        BY <1>2 DEF Grows
    <2>2. announced'[e] \subseteq Carried(cases'[e].reveals)
        BY <1>2 DEF Grows, BookInv
    <2>. QED
        BY <2>1, <2>2 DEF SameBallots, CaseInv
<1>3. \A s \in settled' : s.dispute => s.outcome \in announced'[s.case]
    BY DEF BookInv
<1>4. cases' \in [Escrows -> Case] /\ announced' \in [Escrows -> SUBSET Verdicts]
    BY DEF BookInv
<1>. QED
    BY <1>1, <1>2, <1>3, <1>4 DEF BookInv

\* The same for an operation on one case.
LEMMA UpdateCaseKeeps ==
    ASSUME ~FlushMayFail, BookInv, NEW e \in Escrows, NEW c, CaseInv(c),
           Carried(cases[e].reveals) \subseteq Carried(c.reveals), UpdateCase(e, c)
    PROVE  BookInv'
<1> DEFINE cs == [cases EXCEPT ![e] = c]
<1>1. c \in Case /\ cases \in [Escrows -> Case]
    BY DEF CaseInv, BookInv
<1>2. cs \in [Escrows -> Case] /\ cs[e] = c /\ \A f \in Escrows \ {e} : cs[f] = cases[f]
    BY <1>1
<1>3. Grows(cs)
    <2> HIDE DEF cs
    <2>. QED
        BY <1>2 DEF Grows, BookInv
<1>4. /\ cases' = cs /\ roster' = roster /\ height' = height /\ complaint' = complaint
      /\ bookFile' = [roster |-> roster, height |-> height, cases |-> cs]
      /\ UNCHANGED <<announced, settled>>
    BY DEF UpdateCase, flushLocked
<1>5. roster \in SUBSET Volunteers /\ height \in 0 .. TopHeight /\ complaint \in SUBSET Complaints
    BY DEF BookInv, RestTypeOK, Complaints
<1> HIDE DEF cs
<1>. QED
    BY <1>2, <1>3, <1>4, <1>5, FlushedKeeps

\* A commit is written with the book.
LEMMA CommitKeeps ==
    ASSUME ~FlushMayFail, BookInv, NEW e \in Escrows, NEW k \in Volunteers, NEW v \in Verdicts,
           Commit(e, k, v)
    PROVE  BookInv'
<1>1. CaseInv(cases[e]) /\ k \in cases[e].panel
    BY DEF BookInv, Commit
<1> DEFINE c == [cases[e] EXCEPT !.commits[k] = v]
<1>2. CaseInv(c) /\ c.reveals = cases[e].reveals
    BY <1>1, CommitCaseKeeps
<1>3. UpdateCase(e, c)
    BY DEF Commit
<1> HIDE DEF c
<1>. QED
    BY <1>2, <1>3, UpdateCaseKeeps

\* So is a reveal, with the quorum it may complete.
LEMMA RevealKeeps ==
    ASSUME Counting, ~FlushMayFail, BookInv, NEW e \in Escrows, NEW k \in Volunteers, NEW v \in Verdicts,
           RevealNonce(e, k, v)
    PROVE  BookInv'
<1>1. CaseInv(cases[e]) /\ k \in cases[e].panel /\ cases[e].reveals[k] = None
    BY DEF BookInv, RevealNonce
<1> DEFINE c == [cases[e] EXCEPT !.reveals[k] = v]
<1>2. CaseInv(c) /\ Carried(cases[e].reveals) \subseteq Carried(c.reveals)
    BY <1>1, RevealCaseKeeps
<1>3. UpdateCase(e, WithQuorum(c))
    BY DEF RevealNonce
<1> HIDE DEF c
<1>4. CaseInv(WithQuorum(c)) /\ WithQuorum(c).reveals = c.reveals
    BY <1>2, WithQuorumKeeps DEF SameBallots
<1>. QED
    BY <1>2, <1>3, <1>4, UpdateCaseKeeps

\* The roster is replaced, by its endpoint or by a complaint.
LEMMA SetRosterKeeps ==
    ASSUME ~FlushMayFail, BookInv, NEW pool \in SUBSET Volunteers, SetRoster(pool),
           complaint' \in SUBSET Complaints, UNCHANGED <<announced, settled>>
    PROVE  BookInv'
<1>1. /\ cases' = cases /\ roster' = pool /\ height' = height
      /\ bookFile' = [roster |-> roster', height |-> height', cases |-> cases]
    BY DEF SetRoster, flushLocked
<1>2. cases \in [Escrows -> Case] /\ Grows(cases) /\ height \in 0 .. TopHeight
    BY DEF BookInv, RestTypeOK, Grows
<1>. QED
    BY <1>1, <1>2, FlushedKeeps

\* A new height freezes cases and writes the book.
LEMMA SetHeightKeeps ==
    ASSUME ~FlushMayFail, BookInv, NEW h \in 0 .. TopHeight, SetHeight(h)
    PROVE  BookInv'
<1> DEFINE cs == [e \in Escrows |-> IF OpenCase(e) /\ ~cases[e].frozen
                                    THEN Freeze(cases[e], h) ELSE cases[e]]
<1>1. ASSUME NEW e \in Escrows
      PROVE  CaseInv(cs[e]) /\ cs[e].reveals = cases[e].reveals
    <2>1. CaseInv(cases[e])
        BY DEF BookInv
    <2>2. CaseInv(Freeze(cases[e], h)) /\ Freeze(cases[e], h).reveals = cases[e].reveals
        BY <2>1, FreezeKeeps DEF SameBallots
    <2>. QED
        BY <2>1, <2>2
<1>2. cs \in [Escrows -> Case] /\ Grows(cs)
    <2>1. \A e \in Escrows : cs[e] \in Case
        BY <1>1 DEF CaseInv
    <2>. QED
        BY <1>1, <2>1 DEF Grows
<1>3. /\ cases' = cs /\ roster' = roster /\ height' = h /\ complaint' = complaint
      /\ bookFile' = [roster |-> roster, height |-> h, cases |-> cs]
      /\ UNCHANGED <<announced, settled>>
    BY DEF SetHeight, flushLocked
<1>4. roster \in SUBSET Volunteers /\ complaint \in SUBSET Complaints
    BY DEF BookInv, RestTypeOK, Complaints
<1> HIDE DEF cs
<1>. QED
    BY <1>2, <1>3, <1>4, FlushedKeeps

\* The panel that a complaint is given, when it is given one.
LEMMA SeatsFive ==
    ASSUME BookInv, NEW q \in complaint,
           NEW panel \in PickFive(IF roster = {} THEN q.bonded ELSE roster, q.exclude)
    PROVE  panel \in SUBSET Volunteers /\ Cardinality(panel) = 5
BY DEF PickFive, BookInv, RestTypeOK

\* OpenAppeal seats five volunteers or leaves the book alone.
LEMMA OpenAppealKeeps ==
    ASSUME ~FlushMayFail, BookInv, NEW q \in complaint, OpenAppeal(q)
    PROVE  BookInv'
<1>1. q.escrow \in Escrows /\ q.deadline \in 0 .. TopHeight
    BY DEF BookInv, RestTypeOK
<1>2. /\ roster' = roster /\ height' = height /\ complaint' = {}
      /\ UNCHANGED <<announced, settled>>
    BY DEF OpenAppeal
<1>3. CASE UNCHANGED <<cases, bookFile>>
    BY <1>2, <1>3 DEF BookInv, RestTypeOK, CaseInv, SameBallots
<1>4. CASE ~UNCHANGED <<cases, bookFile>>
    <2>1. ~OpenCase(q.escrow)
        BY <1>4 DEF OpenAppeal
    <2>2. PICK panel \in PickFive(IF roster = {} THEN q.bonded ELSE roster, q.exclude) :
            LET cs == [cases EXCEPT ![q.escrow] =
                          [NoCase EXCEPT !.panel = panel, !.deadline = q.deadline]]
            IN  cases' = cs /\ flushLocked(roster, height, cs)
        BY <1>4 DEF OpenAppeal
    <2> DEFINE c  == [NoCase EXCEPT !.panel = panel, !.deadline = q.deadline]
               cs == [cases EXCEPT ![q.escrow] = c]
    <2>3. CaseInv(c) /\ c.reveals = NoCase.reveals
        <3>1. CaseInv(c)
            BY <1>1, SeatsFive, NewCaseInv
        <3>. QED
            BY <3>1 DEF NoCase
    <2>4. cases[q.escrow].reveals = c.reveals
        BY <1>1, <2>1, <2>3, NoPanelNoBallots DEF BookInv, OpenCase
    <2>5. cases' = cs /\ bookFile' = [roster |-> roster, height |-> height, cases |-> cs]
        BY <2>2 DEF flushLocked
    <2> HIDE DEF c
    <2>6. /\ cs \in [Escrows -> Case] /\ cs[q.escrow] = c
          /\ \A f \in Escrows \ {q.escrow} : cs[f] = cases[f]
        BY <1>1, <2>3 DEF BookInv, CaseInv
    <2> HIDE DEF cs
    <2>7. Grows(cs)
        BY <2>3, <2>4, <2>6 DEF Grows, BookInv
    <2>8. roster \in SUBSET Volunteers /\ height \in 0 .. TopHeight
        BY DEF BookInv, RestTypeOK
    <2>. QED
        BY <1>2, <2>5, <2>6, <2>7, <2>8, FlushedKeeps
<1>. QED
    BY <1>3, <1>4

\* What the dispute path announces and admits is what Quorum returns.
LEMMA DisputeKeeps ==
    ASSUME BookInv, NEW e \in Escrows, NEW o \in Outcomes, SubmitDealDisputeSettle(e, o)
    PROVE  BookInv'
<1> DEFINE c == QuorumCase(e)
           a == announced[e] \cup ({c.quorum} \ {None})
           s == [case |-> e, outcome |-> o, dispute |-> TRUE]
<1>1. CaseInv(c) /\ SameBallots(c, cases[e])
    BY QuorumCaseKeeps DEF BookInv
<1>2. /\ cases' = [cases EXCEPT ![e] = c]
      /\ announced' = [announced EXCEPT ![e] = a]
      /\ (c.quorum = o /\ settled' = settled \cup {s}) \/ settled' = settled
      /\ UNCHANGED <<roster, height, bookFile, complaint>>
    BY Zenon DEF SubmitDealDisputeSettle
<1> HIDE DEF c
<1>3. a \subseteq Carried(c.reveals) /\ a \subseteq Verdicts
    BY <1>1, CarriedAreVerdicts DEF BookInv, CaseInv, SameBallots
<1>4. cases' \in [Escrows -> Case] /\ announced' \in [Escrows -> SUBSET Verdicts]
    BY <1>1, <1>2, <1>3 DEF BookInv, CaseInv
<1>5. RestTypeOK'
    <2>1. s \in [case : Escrows, outcome : Outcomes, dispute : BOOLEAN]
        OBVIOUS
    <2> HIDE DEF s
    <2>2. settled' \in SUBSET [case : Escrows, outcome : Outcomes, dispute : BOOLEAN]
        BY <1>2, <2>1 DEF BookInv, RestTypeOK
    <2>. QED
        BY <1>2, <2>2 DEF BookInv, RestTypeOK
<1>6. ASSUME NEW f \in Escrows
      PROVE  /\ CaseInv(cases'[f]) /\ CaseInv(bookFile'.cases[f])
             /\ SameBallots(cases'[f], bookFile'.cases[f])
             /\ announced'[f] \subseteq Carried(cases'[f].reveals)
    <2>1. CASE f = e
        <3>1. cases'[f] = c /\ announced'[f] = a
            BY <1>2, <2>1 DEF BookInv
        <3> HIDE DEF a
        <3>. QED
            BY <1>1, <1>2, <1>3, <2>1, <3>1 DEF BookInv, SameBallots
    <2>2. CASE f # e
        BY <1>2, <2>2 DEF BookInv
    <2>. QED
        BY <2>1, <2>2
<1>7. \A t \in settled' : t.dispute => t.outcome \in announced'[t.case]
    <2>1. \A f \in Escrows : announced[f] \subseteq announced'[f]
        BY <1>2 DEF BookInv
    <2>2. \A t \in settled : t.case \in Escrows
        BY DEF BookInv, RestTypeOK
    <2>3. c.quorum = o => o \in announced'[e]
        <3>1. o # None
            BY DealAssumption DEF Outcomes
        <3>. QED
            BY <1>2, <3>1 DEF BookInv
    <2>. QED
        BY <1>2, <2>1, <2>2, <2>3 DEF BookInv
<1>. QED
    BY <1>4, <1>5, <1>6, <1>7 DEF BookInv, CaseInv, SameBallots

\* A settle without a dispute does not touch the book.
LEMMA SettleKeeps ==
    ASSUME BookInv, NEW e \in Escrows, SubmitDealSettle(e)
    PROVE  BookInv'
<1> DEFINE s == [case |-> e, outcome |-> "timeout", dispute |-> FALSE]
<1>1. s \in [case : Escrows, outcome : Outcomes, dispute : BOOLEAN] /\ ~s.dispute
    BY DEF Outcomes
<1>2. settled' = settled \cup {s}
    BY DEF SubmitDealSettle
<1>3. UNCHANGED <<cases, roster, height, bookFile, complaint, announced>>
    BY DEF SubmitDealSettle
<1> HIDE DEF s
<1>4. /\ settled' \in SUBSET [case : Escrows, outcome : Outcomes, dispute : BOOLEAN]
      /\ \A t \in settled' : t.dispute => t.outcome \in announced'[t.case]
    BY <1>1, <1>2, <1>3 DEF BookInv, RestTypeOK
<1>. QED
    BY <1>3, <1>4 DEF BookInv, RestTypeOK, CaseInv, SameBallots

\* A restart finds every seat and every ballot in the file.
LEMMA OpenBookKeeps ==
    ASSUME BookInv, OpenBook
    PROVE  BookInv'
<1>1. RestTypeOK'
    BY DEF BookInv, RestTypeOK, OpenBook
<1>2. cases' = bookFile.cases /\ bookFile' = bookFile /\ announced' = announced /\ settled' = settled
    BY DEF OpenBook
<1>3. cases' \in [Escrows -> Case] /\ announced' \in [Escrows -> SUBSET Verdicts]
    BY <1>2 DEF BookInv, RestTypeOK
<1>4. ASSUME NEW f \in Escrows
      PROVE  /\ CaseInv(cases'[f]) /\ CaseInv(bookFile'.cases[f])
             /\ SameBallots(cases'[f], bookFile'.cases[f])
             /\ announced'[f] \subseteq Carried(cases'[f].reveals)
    BY <1>2 DEF BookInv, SameBallots
<1>5. \A t \in settled' : t.dispute => t.outcome \in announced'[t.case]
    BY <1>2 DEF BookInv
<1>. QED
    BY <1>1, <1>3, <1>4, <1>5 DEF BookInv, CaseInv, SameBallots

\* The empty book and its empty file.
LEMMA BookInvInit ==
    ASSUME DealInit
    PROVE  BookInv
<1>1. NoCase \in Case
    BY NoCaseInv DEF CaseInv
<1>2. EmptyBook.cases = [e \in Escrows |-> NoCase] /\ EmptyBook.roster = {} /\ EmptyBook.height = 0
    BY DEF EmptyBook
<1>3. RestTypeOK
    BY <1>1, DealAssumption DEF DealInit, EmptyBook, RestTypeOK
<1>4. cases \in [Escrows -> Case] /\ announced \in [Escrows -> SUBSET Verdicts]
    BY <1>1, <1>2 DEF DealInit
<1>5. \A e \in Escrows : cases[e] = NoCase /\ bookFile.cases[e] = NoCase /\ announced[e] = {}
    BY <1>2 DEF DealInit
<1>. QED
    BY <1>3, <1>4, <1>5, NoCaseInv DEF BookInv, SameBallots, DealInit

\* Every step of the book and its handlers preserves the invariant.
LEMMA BookInvStep ==
    ASSUME Counting, ~FlushMayFail, BookInv, [DealNext]_dealVars
    PROVE  BookInv'
<1>1. ASSUME NEW pool \in Pools, PutVolunteerRoster(pool) PROVE BookInv'
    <2>1. pool \in SUBSET Volunteers
        BY DealAssumption
    <2>2. SetRoster(pool) /\ complaint' \in SUBSET Complaints /\ UNCHANGED <<announced, settled>>
        BY <1>1 DEF PutVolunteerRoster, BookInv, RestTypeOK, Complaints
    <2>. QED
        BY <2>1, <2>2, SetRosterKeeps
<1>2. ASSUME NEW e \in Escrows, NEW bonded \in Pools, NEW exclude \in Exclusions,
             NEW d \in 0 .. TopHeight, OpenDealDispute(e, bonded, exclude, d)
      PROVE  BookInv'
    <2>1. bonded \in SUBSET Volunteers /\ exclude \in SUBSET Volunteers
        BY DealAssumption
    <2>2. complaint' \in SUBSET Complaints
        BY <1>2, <2>1 DEF OpenDealDispute, Complaints
    <2>3. UNCHANGED <<cases, roster, height, bookFile, announced, settled>>
        BY <1>2 DEF OpenDealDispute
    <2>. QED
        BY <2>2, <2>3 DEF BookInv, RestTypeOK, CaseInv, SameBallots, Complaints
<1>3. ASSUME NEW q \in complaint, FillRoster(q) PROVE BookInv'
    <2>1. q \in Complaints
        BY DEF BookInv, RestTypeOK, Complaints
    <2>2. q.bonded \in SUBSET Volunteers /\ [q EXCEPT !.fill = FALSE] \in Complaints
        BY <2>1 DEF Complaints
    <2>3. /\ SetRoster(q.bonded) /\ complaint' \in SUBSET Complaints
          /\ UNCHANGED <<announced, settled>>
        BY <1>3, <2>2 DEF FillRoster
    <2>. QED
        BY <2>2, <2>3, SetRosterKeeps
<1>4. CASE UNCHANGED dealVars
    BY <1>4 DEF dealVars, BookInv, RestTypeOK, CaseInv, SameBallots
<1>. QED
    BY <1>1, <1>2, <1>3, <1>4, SetHeightKeeps, OpenAppealKeeps, CommitKeeps, RevealKeeps,
       DisputeKeeps, SettleKeeps, OpenBookKeeps DEF DealNext

-----------------------------------------------------------------------------
(* The panel. *)

\* The empty book is the empty panel.
LEMMA PanelInitRefined ==
    ASSUME DealInit
    PROVE  Panel!PanelInit
<1>1. cases = [e \in Escrows |-> NoCase] /\ announced = [e \in Escrows |-> {}]
    BY DEF DealInit, EmptyBook
<1>. QED
    BY <1>1 DEF Panel!PanelInit, NoCase

\* A step that keeps seats, ballots and announced verdicts is invisible.
LEMMA PanelStutters ==
    ASSUME \A e \in Escrows : SameBallots(cases'[e], cases[e]), UNCHANGED announced
    PROVE  UNCHANGED Panel!panelVars
BY DEF SameBallots, Panel!panelVars

\* The panel counts as the book does.
LEMMA PanelCounts == \A S : Panel!Cardinality(S) = Cardinality(S)
BY DEF Panel!Cardinality, Cardinality

\* What is left alone outside the case of escrow e.
OthersKept(e) == \A f \in Escrows \ {e} : SameBallots(cases'[f], cases[f])

\* A new panel is seated for an escrow that had none.
LEMMA SeatRefined ==
    ASSUME BookInv, NEW q \in complaint, OpenAppeal(q)
    PROVE  [Panel!PanelNext]_(Panel!panelVars)
<1>1. q.escrow \in Escrows /\ UNCHANGED announced
    BY DEF BookInv, RestTypeOK, OpenAppeal
<1>2. CASE UNCHANGED cases
    BY <1>1, <1>2, PanelStutters DEF SameBallots
<1>3. CASE ~UNCHANGED cases
    <2>1. ~OpenCase(q.escrow)
        BY <1>3 DEF OpenAppeal
    <2>2. PICK panel \in PickFive(IF roster = {} THEN q.bonded ELSE roster, q.exclude) :
            cases' = [cases EXCEPT ![q.escrow] =
                          [NoCase EXCEPT !.panel = panel, !.deadline = q.deadline]]
        BY <1>3 DEF OpenAppeal
    <2>3. panel \in SUBSET Volunteers /\ Cardinality(panel) = 5
        BY SeatsFive
    <2>4. cases[q.escrow].panel = {}
        BY <2>1 DEF OpenCase
    <2>5. /\ cases'[q.escrow].panel = panel
          /\ cases'[q.escrow].commits = NoCase.commits /\ cases'[q.escrow].reveals = NoCase.reveals
        BY <1>1, <2>2 DEF BookInv, NoCase
    <2>6. OthersKept(q.escrow)
        BY <1>1, <2>2 DEF BookInv, OthersKept, SameBallots
    <2>7. cases[q.escrow].commits = NoCase.commits /\ cases[q.escrow].reveals = NoCase.reveals
        BY <1>1, <2>4, NoPanelNoBallots DEF BookInv
    <2>8. Panel!Seat(q.escrow, panel)
        <3>1. \A f \in Escrows : cases'[f].commits = cases[f].commits /\ cases'[f].reveals = cases[f].reveals
            BY <2>5, <2>6, <2>7 DEF OthersKept, SameBallots
        <3>2. \A f \in Escrows : cases'[f].panel = IF f = q.escrow THEN panel ELSE cases[f].panel
            BY <2>5, <2>6 DEF OthersKept, SameBallots
        <3>3. [f \in Escrows |-> cases'[f].panel]
                = [[f \in Escrows |-> cases[f].panel] EXCEPT ![q.escrow] = panel]
            BY <3>2
        <3>. QED
            <4>1. /\ [f \in Escrows |-> cases'[f].commits] = [f \in Escrows |-> cases[f].commits]
                  /\ [f \in Escrows |-> cases'[f].reveals] = [f \in Escrows |-> cases[f].reveals]
                BY <3>1
            <4>2. [f \in Escrows |-> cases[f].panel][q.escrow] = {}
                BY <1>1, <2>4
            <4>. QED
                BY <1>1, <2>3, <3>3, <4>1, <4>2, PanelCounts DEF Panel!Seat
    <2>. QED
        BY <1>1, <2>3, <2>8 DEF Panel!PanelNext
<1>. QED
    BY <1>2, <1>3

\* A commit seals a ballot.
LEMMA SealRefined ==
    ASSUME BookInv, NEW e \in Escrows, NEW k \in Volunteers, NEW v \in Verdicts, Commit(e, k, v)
    PROVE  Panel!Seal(e, k, v)
<1> DEFINE c == [cases[e] EXCEPT !.commits[k] = v]
<1>1. CaseInv(cases[e]) /\ k \in cases[e].panel /\ cases[e].commits[k] = None
    BY DEF BookInv, Commit
<1>2. c.panel = cases[e].panel /\ c.reveals = cases[e].reveals
      /\ c.commits = [cases[e].commits EXCEPT ![k] = v]
    BY <1>1, CommitCaseKeeps
<1>3. cases' = [cases EXCEPT ![e] = c] /\ UNCHANGED announced
    BY DEF Commit, UpdateCase
<1> HIDE DEF c
<1>4. cases'[e] = c /\ OthersKept(e)
    BY <1>3 DEF BookInv, OthersKept, SameBallots
<1>. QED
    <2>1. \A f \in Escrows : cases'[f].panel = cases[f].panel /\ cases'[f].reveals = cases[f].reveals
        BY <1>2, <1>4 DEF OthersKept, SameBallots
    <2>2. \A f \in Escrows : cases'[f].commits = IF f = e THEN [cases[e].commits EXCEPT ![k] = v]
                                                  ELSE cases[f].commits
        BY <1>2, <1>4 DEF OthersKept, SameBallots
    <2>3. [f \in Escrows |-> cases'[f].commits]
            = [[f \in Escrows |-> cases[f].commits] EXCEPT ![e][k] = v]
        BY <2>2
    <2>. QED
        BY <1>1, <1>3, <2>1, <2>3 DEF Panel!Seal

\* A reveal opens the ballot that was sealed.
LEMMA UnsealRefined ==
    ASSUME Counting, BookInv, NEW e \in Escrows, NEW k \in Volunteers, NEW v \in Verdicts,
           RevealNonce(e, k, v)
    PROVE  Panel!Unseal(e, k)
<1> DEFINE c == [cases[e] EXCEPT !.reveals[k] = v]
<1>1. CaseInv(cases[e]) /\ k \in cases[e].panel /\ cases[e].reveals[k] = None
    BY DEF BookInv, RevealNonce
<1>6. cases[e].commits[k] = v /\ v # None
    BY DealAssumption DEF RevealNonce
<1>2. /\ CaseInv(c) /\ c.panel = cases[e].panel /\ c.commits = cases[e].commits
      /\ c.reveals = [cases[e].reveals EXCEPT ![k] = v]
    <2>1. CaseInv(c)
        BY <1>1, RevealCaseKeeps
    <2>. QED
        BY <1>1, <2>1 DEF CaseInv, Case
<1>3. cases' = [cases EXCEPT ![e] = WithQuorum(c)] /\ UNCHANGED announced
    BY DEF RevealNonce, UpdateCase
<1> HIDE DEF c
<1>4. cases'[e] = WithQuorum(c) /\ OthersKept(e)
    BY <1>3 DEF BookInv, OthersKept, SameBallots
<1>5. SameBallots(cases'[e], c)
    BY <1>2, <1>4, WithQuorumKeeps
<1>. QED
    <2>1. \A f \in Escrows : cases'[f].panel = cases[f].panel /\ cases'[f].commits = cases[f].commits
        BY <1>2, <1>4, <1>5 DEF OthersKept, SameBallots
    <2>2. \A f \in Escrows : cases'[f].reveals = IF f = e THEN [cases[e].reveals EXCEPT ![k] = v]
                                                  ELSE cases[f].reveals
        BY <1>2, <1>4, <1>5 DEF OthersKept, SameBallots
    <2>3. [f \in Escrows |-> cases'[f].reveals]
            = [[f \in Escrows |-> cases[f].reveals] EXCEPT ![e][k] = v]
        BY <2>2
    <2>. QED
        <3>1. [f \in Escrows |-> cases[f].commits][e][k] = v
            BY <1>6
        <3>2. [f \in Escrows |-> cases'[f].reveals]
                = [[f \in Escrows |-> cases[f].reveals] EXCEPT
                      ![e][k] = [f \in Escrows |-> cases[f].commits][e][k]]
            BY <2>3, <3>1
        <3>. QED
            BY <1>1, <1>3, <1>6, <2>1, <3>2 DEF Panel!Unseal

\* Quorum announces a verdict that three opened ballots carry, the one that was
\* announced before if any was; without a quorum it is invisible.
LEMMA AnnounceRefined ==
    ASSUME Counting, BookInv, NEW e \in Escrows, NEW o \in Outcomes, SubmitDealDisputeSettle(e, o)
    PROVE  [Panel!PanelNext]_(Panel!panelVars)
<1> DEFINE c == QuorumCase(e)
           v == c.quorum
<1>1. CaseInv(c) /\ SameBallots(c, cases[e]) /\ CaseInv(cases[e])
    BY QuorumCaseKeeps DEF BookInv
<1>2. cases' = [cases EXCEPT ![e] = c]
    BY DEF SubmitDealDisputeSettle
<1>3. announced' = [announced EXCEPT ![e] = announced[e] \cup ({c.quorum} \ {None})]
    BY Zenon DEF SubmitDealDisputeSettle
<1> HIDE DEF c
<1>4. \A f \in Escrows : SameBallots(cases'[f], cases[f])
    BY <1>1, <1>2 DEF BookInv, SameBallots
<1>5. CASE v = None
    <2>1. announced' = announced
        BY <1>3, <1>5 DEF BookInv
    <2>. QED
        BY <1>4, <2>1, PanelStutters
<1>6. CASE v # None
    <2> DEFINE R == {k \in Volunteers : cases[e].reveals[k] = v}
               P == {k \in cases[e].panel : cases[e].reveals[k] = v}
    <2>1. v \in Carried(cases[e].reveals)
        BY <1>1, <1>6 DEF CaseInv, SameBallots
    <2>2. v \in Verdicts /\ Cardinality(R) >= 3
        BY <2>1 DEF Carried
    <2>3. P = R
        <3>1. R \subseteq cases[e].panel
            BY <1>1, <2>2, RevealersSeated
        <3>2. cases[e].panel \subseteq Volunteers
            BY <1>1 DEF CaseInv, Case
        <3>. QED
            BY <3>1, <3>2
    <2>4. announced[e] \subseteq {v}
        BY <1>1, <2>1, OneCarried DEF BookInv
    <2>5. announced' = [announced EXCEPT ![e] = {v}]
        BY <1>3, <1>6, <2>4 DEF BookInv
    <2> HIDE DEF v
    <2>6. Panel!Announce(e, v)
        <3>1. /\ [f \in Escrows |-> cases'[f].panel] = [f \in Escrows |-> cases[f].panel]
              /\ [f \in Escrows |-> cases'[f].commits] = [f \in Escrows |-> cases[f].commits]
              /\ [f \in Escrows |-> cases'[f].reveals] = [f \in Escrows |-> cases[f].reveals]
            BY <1>4 DEF SameBallots
        <3>2. {k \in [f \in Escrows |-> cases[f].panel][e] :
                    [f \in Escrows |-> cases[f].reveals][e][k] = v} = R
            BY <2>3
        <3> HIDE DEF R
        <3>. QED
            BY <2>2, <2>4, <2>5, <3>1, <3>2, PanelCounts DEF Panel!Announce
    <2>. QED
        BY <2>2, <2>6 DEF Panel!PanelNext
<1>. QED
    BY <1>5, <1>6

\* Every step of the book is a step of the panel or invisible to it.
LEMMA PanelStepRefined ==
    ASSUME Counting, ~FlushMayFail, BookInv, [DealNext]_dealVars
    PROVE  [Panel!PanelNext]_(Panel!panelVars)
<1>1. ASSUME NEW pool, SetRoster(pool), UNCHANGED announced
      PROVE  UNCHANGED Panel!panelVars
    BY <1>1, PanelStutters DEF SetRoster, SameBallots
<1>2. ASSUME NEW h \in 0 .. TopHeight, SetHeight(h)
      PROVE  UNCHANGED Panel!panelVars
    <2>1. ASSUME NEW e \in Escrows PROVE SameBallots(cases'[e], cases[e])
        <3>1. SameBallots(Freeze(cases[e], h), cases[e])
            BY FreezeKeeps DEF BookInv
        <3>2. cases'[e] = cases[e] \/ cases'[e] = Freeze(cases[e], h)
            BY <1>2 DEF SetHeight
        <3>. QED
            BY <3>1, <3>2 DEF SameBallots
    <2>. QED
        BY <1>2, <2>1, PanelStutters DEF SetHeight
<1>3. ASSUME NEW e \in Escrows, NEW k \in Volunteers, NEW v \in Verdicts,
             Commit(e, k, v) \/ RevealNonce(e, k, v)
      PROVE  Panel!PanelNext
    BY <1>3, SealRefined, UnsealRefined DEF Panel!PanelNext
<1>4. ASSUME OpenBook PROVE UNCHANGED Panel!panelVars
    <2>1. cases' = bookFile.cases /\ UNCHANGED announced
        BY <1>4 DEF OpenBook
    <2>2. \A e \in Escrows : SameBallots(cases'[e], cases[e])
        BY <2>1 DEF BookInv, SameBallots
    <2>. QED
        BY <2>1, <2>2, PanelStutters
<1>5. ASSUME UNCHANGED <<cases, announced>> PROVE UNCHANGED Panel!panelVars
    BY <1>5, PanelStutters DEF SameBallots
<1>6. ASSUME NEW q \in complaint, FillRoster(q) PROVE UNCHANGED Panel!panelVars
    BY <1>1, <1>6 DEF FillRoster
<1>7. ASSUME NEW pool \in Pools, PutVolunteerRoster(pool) PROVE UNCHANGED Panel!panelVars
    BY <1>1, <1>7 DEF PutVolunteerRoster
<1>8. ASSUME NEW e \in Escrows, SubmitDealSettle(e) PROVE UNCHANGED Panel!panelVars
    BY <1>5, <1>8 DEF SubmitDealSettle
<1>9. ASSUME NEW e, NEW bonded, NEW exclude, NEW d, OpenDealDispute(e, bonded, exclude, d)
      PROVE  UNCHANGED Panel!panelVars
    BY <1>5, <1>9 DEF OpenDealDispute
<1>10. UNCHANGED dealVars => UNCHANGED Panel!panelVars
    BY <1>5 DEF dealVars
<1>. QED
    BY <1>2, <1>3, <1>4, <1>6, <1>7, <1>8, <1>9, <1>10, SeatRefined, AnnounceRefined DEF DealNext

-----------------------------------------------------------------------------
(* Theorems. *)

INSTANCE FiniteSetTheorems

\* The facts about counting that the proofs above rest on.
LEMMA CountingHolds == Counting
<1>1. ASSUME NEW T \in SUBSET Volunteers PROVE IsFiniteSet(T)
    BY DealAssumption, FS_Subset
<1>2. ASSUME NEW T \in SUBSET Volunteers
      PROVE  Cardinality(T) \in Nat /\ \A S \in SUBSET T : Cardinality(S) <= Cardinality(T)
    BY <1>1, FS_Subset, FS_CardinalityType
<1>3. Cardinality({}) = 0
    BY FS_EmptySet
<1>4. ASSUME NEW S \in SUBSET Volunteers, NEW T \in SUBSET Volunteers, S \cap T = {}
      PROVE  Cardinality(S \cup T) = Cardinality(S) + Cardinality(T)
    <2>1. Cardinality(S \cup T) = Cardinality(S) + Cardinality(T) - Cardinality(S \cap T)
        BY <1>1, FS_Union
    <2>2. Cardinality(S) \in Nat /\ Cardinality(T) \in Nat
        BY <1>2
    <2>3. Cardinality(S \cap T) = 0
        BY <1>3, <1>4, Zenon
    <2> QED
        BY <2>1, <2>2, <2>3
<1> QED
    BY <1>2, <1>3, <1>4 DEF Counting

\* When flushLocked does not fail, the file of the book holds every seat and
\* every ballot, and every verdict that Quorum has returned or stored is
\* carried by three reveals that are still there.
THEOREM BookInvariant == ~FlushMayFail /\ DealSpec => []BookInv
<1>. SUFFICES ASSUME ~FlushMayFail PROVE DealSpec => []BookInv
    OBVIOUS
<1>1. BookInv /\ [DealNext]_dealVars => BookInv'
    BY BookInvStep, CountingHolds
<1>. QED
    BY <1>1, BookInvInit, PTL DEF DealSpec

\* The book, its file and the handlers keep their types, and every panel has
\* five members.
THEOREM BookTypes == ~FlushMayFail /\ DealSpec => []DealTypeOK
<1>1. BookInv => DealTypeOK
    BY CountingHolds DEF Counting, BookInv, RestTypeOK, CaseInv, DealTypeOK
<1>. QED
    BY <1>1, BookInvariant, PTL

\* Quorum never returns two verdicts for one escrow, and a dispute settle is
\* admitted only with the verdict returned, through restarts that forget the
\* stored quorum, heights that go back, and ballots after the freeze.
THEOREM OneVerdictPerEscrow == ~FlushMayFail /\ DealSpec => []OneVerdict
<1>1. BookInv => OneVerdict
    <2>1. SUFFICES ASSUME BookInv PROVE OneVerdict
        OBVIOUS
    <2>2. ASSUME NEW e \in Escrows, NEW v \in announced[e], NEW w \in announced[e]
          PROVE  v = w
        BY <2>1, OneCarried, CountingHolds DEF BookInv
    <2>3. \A s \in settled : s.dispute => s.outcome \in announced[s.case]
        BY <2>1 DEF BookInv
    <2>. QED
        BY <2>2, <2>3 DEF OneVerdict
<1>. QED
    BY <1>1, BookInvariant, PTL

\* The book with its file, heights, freezes, roster and restarts implements the
\* abstract panel: five seated once, a ballot sealed once and opened as sealed,
\* and an announced verdict never changed.
THEOREM BookImplementsPanel == ~FlushMayFail /\ DealSpec => PanelPromise
<1>. SUFFICES ASSUME ~FlushMayFail PROVE DealSpec => PanelPromise
    OBVIOUS
<1>1. DealInit => Panel!PanelInit
    BY PanelInitRefined
<1>2. BookInv /\ [DealNext]_dealVars => [Panel!PanelNext]_(Panel!panelVars)
    BY PanelStepRefined, CountingHolds
<1>3. DealSpec => []BookInv
    BY BookInvariant
<1>. QED
    BY <1>1, <1>2, <1>3, PTL DEF DealSpec, PanelPromise, Panel!PanelSpec

=============================================================================
