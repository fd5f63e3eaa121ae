------------------------------- MODULE Faucet -------------------------------
(***************************************************************************)
(* The testnet faucet: CooldownStore (claims in memory and in its file)    *)
(* and the handler around it, which claims, credits through Core, indexes  *)
(* and persists the credit, and releases the claim if that failed.         *)
(*                                                                         *)
(* Time is counted in ticks.  A request outlives at most one tick, since   *)
(* the credit has an RPC deadline, and a cooldown is several.              *)
(***************************************************************************)
EXTENDS Integers, FiniteSets

CONSTANTS Addresses,
          Requests,      \* HTTP requests that may be served at once
          Cooldown,      \* ticks
          MaxClock,      \* bound on the clock
          MaxCredits,    \* bound on the credits
          CreditUnsure   \* may a credit that reached the ledger be reported as failed?

ASSUME FaucetAssumption == Cooldown \in Nat \ {0, 1} /\ MaxClock \in Nat \ {0} /\ MaxCredits \in Nat /\ CreditUnsure \in BOOLEAN

VARIABLES clock,
          claims,        \* CooldownStore.claims; 0 is no claim
          claimFile,     \* its JSON file
          request,       \* what each request is doing, for whom, since when
          credits        \* history: what reached the ledger, with the time of its claim

faucetVars == <<clock, claims, claimFile, request, credits>>

NoRequest == [phase |-> "idle", address |-> "none", since |-> 0]
Times == 1..MaxClock
FaucetRequests == [phase : {"idle", "claimed", "failed"}, address : Addresses \cup {"none"}, since : 0..MaxClock]

FaucetInit ==
    /\ clock = 1
    /\ claims = [a \in Addresses |-> 0]
    /\ claimFile = claims
    /\ request = [r \in Requests |-> NoRequest]
    /\ credits = {}

-----------------------------------------------------------------------------
\* Mutant: the last tick of the cooldown is not waited for.
MayClaimEarly(a) == claims[a] = 0 \/ clock + 1 >= claims[a] + Cooldown

\* No time of the cooldown remains.
MayClaim(a) == claims[a] = 0 \/ clock >= claims[a] + Cooldown

persistLocked(newClaims) == newClaims

\* TryClaim: check and persist under the store's mutex.  A claim that cannot
\* be persisted is rolled back and refused, which changes nothing.
TryClaim(r, a) ==
    /\ request[r].phase = "idle"
    /\ MayClaim(a)
    /\ claims' = [claims EXCEPT ![a] = clock]
    /\ claimFile' = persistLocked(claims')
    /\ request' = [request EXCEPT ![r] = [phase |-> "claimed", address |-> a, since |-> clock]]
    /\ UNCHANGED <<clock, credits>>

\* InstantFaucetCredit: Core credits the account, then the transaction is
\* indexed and chain.json written.  The answer is an error if Core failed, and
\* also if it credited but its answer was lost or chain.json was not written.
InstantFaucetCredit(r) ==
    /\ request[r].phase = "claimed"
    /\ \E credited, acked \in BOOLEAN :
        /\ acked => credited
        /\ credited => Cardinality(credits) < MaxCredits
        /\ credited /\ ~acked => CreditUnsure
        /\ credits' = IF credited
                      THEN credits \cup {[nth |-> Cardinality(credits), address |-> request[r].address,
                                       at |-> request[r].since, acked |-> acked]}
                      ELSE credits
        /\ request' = [request EXCEPT ![r] = IF acked THEN NoRequest ELSE [@ EXCEPT !.phase = "failed"]]
    /\ UNCHANGED <<clock, claims, claimFile>>

\* ReleaseClaim; that the file was not written is ignored.
ReleaseClaim(r) ==
    /\ request[r].phase = "failed"
    /\ claims' = [claims EXCEPT ![request[r].address] = 0]
    /\ claimFile' \in {claims', claimFile}
    /\ request' = [request EXCEPT ![r] = NoRequest]
    /\ UNCHANGED <<clock, credits>>

\* The process dies and NewCooldownStore loads the file.
NewCooldownStore ==
    /\ claims' = claimFile
    /\ request' = [r \in Requests |-> NoRequest]
    /\ UNCHANGED <<clock, claimFile, credits>>

Tick ==
    /\ clock < MaxClock
    /\ \A r \in Requests : request[r].phase # "idle" => request[r].since = clock
    /\ clock' = clock + 1
    /\ UNCHANGED <<claims, claimFile, request, credits>>

FaucetNext ==
    \/ \E r \in Requests :
        (\E a \in Addresses : TryClaim(r, a)) \/ InstantFaucetCredit(r) \/ ReleaseClaim(r)
    \/ NewCooldownStore
    \/ Tick

FaucetSpec == FaucetInit /\ [][FaucetNext]_faucetVars

-----------------------------------------------------------------------------
\* The types of the faucet's state; a claim in progress is in the file before
\* any credit is asked for.
FaucetTypeOK ==
    /\ clock \in Times
    /\ claims \in [Addresses -> 0..MaxClock]
    /\ claimFile \in [Addresses -> 0..MaxClock]
    /\ request \in [Requests -> FaucetRequests]
    /\ credits \subseteq [nth : Nat, address : Addresses, at : Times, acked : BOOLEAN]
    /\ \A r \in Requests : request[r].phase = "claimed" => claimFile[request[r].address] # 0

\* Two faucet credits that were reported as successful to the same address are
\* a cooldown apart, across concurrent requests, failed credits, unwritten
\* releases and restarts.
AckedCreditsSpaced ==
    \A c, d \in credits :
        (c # d /\ c.acked /\ d.acked /\ c.address = d.address)
            => (c.at + Cooldown <= d.at \/ d.at + Cooldown <= c.at)
=============================================================================
