------------------------------ MODULE DealBook ------------------------------
(***************************************************************************)
(* The volunteer panel of a disputed deal (internal/deals, and the         *)
(* /api/deals handlers): volunteers commit a hidden verdict and reveal it, *)
(* the block height freezes the case, three equal reveals are its quorum,  *)
(* and a dispute is settled only by the outcome of the quorum.             *)
(*                                                                         *)
(* The book lives in memory and every mutating call rewrites its file,     *)
(* except Quorum, which may freeze a case and store its quorum in memory   *)
(* only.  A restart reloads the file.                                      *)
(*                                                                         *)
(* A case is named by its escrow: caseID is a hash of the escrow and its   *)
(* terms, and byEscrow admits one case per escrow.  A commit is the        *)
(* verdict whose hash it is; a hash that opens nothing is a commit that is *)
(* never revealed.                                                         *)
(***************************************************************************)
EXTENDS FiniteSets, Naturals

CONSTANTS
    Volunteers,     \* keys that can be bonded
    Escrows,        \* deals that can be disputed
    Pools,          \* lists of bonded keys that callers send
    Exclusions,     \* {creator, beneficiary, node} of the complaints
    Verdicts,       \* fulfilled, not-fulfilled
    None,           \* no verdict
    TopHeight,      \* bound: highest block height reported to the book
    FlushMayFail    \* whether flushLocked may fail (its errors are ignored)

ASSUME DealAssumption ==
    /\ IsFiniteSet(Volunteers)
    /\ Pools \subseteq SUBSET Volunteers /\ Exclusions \subseteq SUBSET Volunteers
    /\ None \notin Verdicts \cup {"timeout"}
    /\ TopHeight \in Nat
    /\ FlushMayFail \in BOOLEAN

VARIABLES
    cases, roster, height,  \* Book
    bookFile,               \* <state>.volunteers.json
    complaint,              \* the OpenDealDispute handler in progress
    announced,              \* verdicts that Quorum has returned, per escrow
    settled                 \* settles handed to the mempool, by the case they name

dealVars == <<cases, roster, height, bookFile, complaint, announced, settled>>

-----------------------------------------------------------------------------
(* Data. *)

Ballots == [Volunteers -> Verdicts \cup {None}]
Case == [panel : SUBSET Volunteers, commits : Ballots, reveals : Ballots,
         quorum : Verdicts \cup {None}, deadline : 0 .. TopHeight, frozen : BOOLEAN]

\* An escrow without a case.
NoCase == [panel |-> {}, commits |-> [k \in Volunteers |-> None],
           reveals |-> [k \in Volunteers |-> None],
           quorum |-> None, deadline |-> 0, frozen |-> FALSE]

EmptyBook == [roster |-> {}, height |-> 0, cases |-> [e \in Escrows |-> NoCase]]

\* Settle outcomes: the timeout, or coreOutcome of a verdict.
Outcomes == Verdicts \cup {"timeout"}

OpenCase(e) == cases[e].panel # {}

\* Mutant: two equal reveals are enough.
carriedByTwo(reveals) == {v \in Verdicts : Cardinality({k \in Volunteers : reveals[k] = v}) >= 2}

\* Verdicts with three reveals.
Carried(reveals) == {v \in Verdicts : Cardinality({k \in Volunteers : reveals[k] = v}) >= 3}

quorumOf(reveals) == IF Carried(reveals) = {} THEN None ELSE CHOOSE v \in Carried(reveals) : TRUE

\* The quorum is computed once, when the case is frozen and has none.
WithQuorum(c) == IF c.frozen /\ c.quorum = None
                 THEN [c EXCEPT !.quorum = quorumOf(c.reveals)] ELSE c

\* Mutant: a panel may lack one member.
pickFourOrFive(pool, exclude) == {panel \in SUBSET (pool \ exclude) : Cardinality(panel) \in {4, 5}}

\* The panels that PickFive can draw: the draw is a hash of escrow and terms.
PickFive(pool, exclude) == {panel \in SUBSET (pool \ exclude) : Cardinality(panel) = 5}

\* Write the book to a temporary file and rename it over the old one.
flushLocked(r, h, cs) ==
    \/ bookFile' = [roster |-> r, height |-> h, cases |-> cs]
    \/ FlushMayFail /\ bookFile' = bookFile

-----------------------------------------------------------------------------
(* Book operations under Book.mu, and the handlers that call them. *)

SetRoster(pool) ==
    /\ roster' = pool
    /\ flushLocked(pool, height, cases)
    /\ UNCHANGED <<cases, height>>

PutVolunteerRoster(pool) == SetRoster(pool) /\ UNCHANGED <<complaint, announced, settled>>

Freeze(c, h) == IF h > c.deadline THEN WithQuorum([c EXCEPT !.frozen = TRUE]) ELSE c

\* FreezeVolunteerHeight -> SetHeight: cases past their deadline freeze.
SetHeight(h) ==
    LET cs == [e \in Escrows |-> IF OpenCase(e) /\ ~cases[e].frozen
                                 THEN Freeze(cases[e], h) ELSE cases[e]]
    IN  /\ height' = h
        /\ cases' = cs
        /\ flushLocked(roster, h, cs)
        /\ UNCHANGED <<roster, complaint, announced, settled>>

\* OpenDealDispute, three calls of the book: an empty roster is seen ...
OpenDealDispute(e, bonded, exclude, deadline) ==
    /\ complaint = {}
    /\ complaint' = {[escrow |-> e, bonded |-> bonded, exclude |-> exclude,
                      deadline |-> deadline, fill |-> roster = {} /\ bonded # {}]}
    /\ UNCHANGED <<cases, roster, height, bookFile, announced, settled>>

\* ... filled with the caller's list ...
FillRoster(q) ==
    /\ q.fill
    /\ SetRoster(q.bonded)
    /\ complaint' = {[q EXCEPT !.fill = FALSE]}
    /\ UNCHANGED <<announced, settled>>

\* ... and OpenAppeal seats the panel, unless the escrow has a case already or
\* fewer than five volunteers are eligible.
OpenAppeal(q) ==
    LET pool   == IF roster = {} THEN q.bonded ELSE roster
        panels == PickFive(pool, q.exclude)
    IN  /\ ~q.fill
        /\ \/ /\ ~OpenCase(q.escrow)
              /\ \E panel \in panels :
                    LET cs == [cases EXCEPT ![q.escrow] =
                                  [NoCase EXCEPT !.panel = panel, !.deadline = q.deadline]]
                    IN  cases' = cs /\ flushLocked(roster, height, cs)
           \/ /\ OpenCase(q.escrow) \/ panels = {}
              /\ UNCHANGED <<cases, bookFile>>
        /\ complaint' = {}
        /\ UNCHANGED <<roster, height, announced, settled>>

UpdateCase(e, c) ==
    LET cs == [cases EXCEPT ![e] = c]
    IN  /\ cases' = cs
        /\ flushLocked(roster, height, cs)
        /\ UNCHANGED <<roster, height, complaint, announced, settled>>

\* Mutant: a commit may replace an earlier one.
commitAgain(e, k, v) ==
    /\ k \in cases[e].panel
    /\ UpdateCase(e, [cases[e] EXCEPT !.commits[k] = v])

\* CommitVolunteer -> Commit
Commit(e, k, v) ==
    /\ k \in cases[e].panel
    /\ cases[e].commits[k] = None
    /\ UpdateCase(e, [cases[e] EXCEPT !.commits[k] = v])

\* RevealVolunteer -> RevealNonce: possible before and after the freeze.
RevealNonce(e, k, v) ==
    /\ k \in cases[e].panel
    /\ cases[e].commits[k] = v
    /\ cases[e].reveals[k] = None
    /\ UpdateCase(e, WithQuorum([cases[e] EXCEPT !.reveals[k] = v]))

\* What Quorum leaves in memory: a case past its deadline is frozen late.
QuorumCase(e) == IF cases[e].frozen THEN WithQuorum(cases[e]) ELSE Freeze(cases[e], height)

TimeoutAllowed(e) == OpenCase(e) /\ cases[e].quorum # None

\* admitDealSettle on the dispute path: the quorum's outcome must be the signed
\* one.  Quorum changes the book even when the settle is refused.
SubmitDealDisputeSettle(e, o) ==
    LET c == QuorumCase(e)
    IN  /\ OpenCase(e)
        /\ o = "timeout" => TimeoutAllowed(e)
        /\ cases' = [cases EXCEPT ![e] = c]
        /\ announced' = [announced EXCEPT ![e] = @ \cup ({c.quorum} \ {None})]
        /\ \/ /\ c.quorum = o
              /\ settled' = settled \cup {[case |-> e, outcome |-> o, dispute |-> TRUE]}
           \/ UNCHANGED settled
        /\ UNCHANGED <<roster, height, bookFile, complaint>>

\* admitDealSettle without a dispute: only the timeout is checked, any other
\* outcome passes without touching the book.
SubmitDealSettle(e) ==
    /\ TimeoutAllowed(e)
    /\ settled' = settled \cup {[case |-> e, outcome |-> "timeout", dispute |-> FALSE]}
    /\ UNCHANGED <<cases, roster, height, bookFile, complaint, announced>>

\* The process stops and deals() opens the book again from its file.
OpenBook ==
    /\ roster' = bookFile.roster /\ height' = bookFile.height /\ cases' = bookFile.cases
    /\ complaint' = {}
    /\ UNCHANGED <<bookFile, announced, settled>>

-----------------------------------------------------------------------------

DealInit ==
    /\ roster = EmptyBook.roster /\ height = EmptyBook.height /\ cases = EmptyBook.cases
    /\ bookFile = EmptyBook
    /\ complaint = {}
    /\ announced = [e \in Escrows |-> {}]
    /\ settled = {}

DealNext ==
    \/ \E pool \in Pools : PutVolunteerRoster(pool)
    \/ \E h \in 0 .. TopHeight : SetHeight(h)
    \/ \E e \in Escrows, bonded \in Pools, exclude \in Exclusions, d \in 0 .. TopHeight :
          OpenDealDispute(e, bonded, exclude, d)
    \/ \E q \in complaint : FillRoster(q) \/ OpenAppeal(q)
    \/ \E e \in Escrows, k \in Volunteers, v \in Verdicts :
          Commit(e, k, v) \/ RevealNonce(e, k, v)
    \/ \E e \in Escrows, o \in Outcomes : SubmitDealDisputeSettle(e, o)
    \/ \E e \in Escrows : SubmitDealSettle(e)
    \/ OpenBook

DealSpec == DealInit /\ [][DealNext]_dealVars

-----------------------------------------------------------------------------
(* Properties. *)

\* The values the book, its file and the handlers range over; a panel has five
\* members.
DealTypeOK ==
    /\ cases \in [Escrows -> Case] /\ roster \in SUBSET Volunteers /\ height \in 0 .. TopHeight
    /\ bookFile \in [roster : SUBSET Volunteers, height : 0 .. TopHeight, cases : [Escrows -> Case]]
    /\ \A e \in Escrows : Cardinality(cases[e].panel) \in {0, 5}
    /\ complaint \in SUBSET [escrow : Escrows, bonded : SUBSET Volunteers,
                             exclude : SUBSET Volunteers, deadline : 0 .. TopHeight, fill : BOOLEAN]
    /\ announced \in [Escrows -> SUBSET Verdicts]
    /\ settled \in SUBSET [case : Escrows, outcome : Outcomes, dispute : BOOLEAN]

\* Quorum never returns two verdicts for one escrow, although it may forget the
\* first with a restart (it does not flush), the height may go back, and
\* volunteers may commit and reveal after the freeze.  Two dispute settles that
\* name one case are thus never admitted with different outcomes (that a settle
\* names the case of its own escrow is not compared by admitDealSettle).
OneVerdict ==
    /\ \A e \in Escrows : \A v, w \in announced[e] : v = w
    /\ \A s \in settled : s.dispute => s.outcome \in announced[s.case]

\* The book implements the panel's promise: restarts, freezes, heights and the
\* roster are invisible, a seat is given once, a ballot is sealed once and
\* opened as sealed, and an announced verdict has three opened ballots.
Panel == INSTANCE VerdictPanel WITH
    seats  <- [e \in Escrows |-> cases[e].panel],
    sealed <- [e \in Escrows |-> cases[e].commits],
    opened <- [e \in Escrows |-> cases[e].reveals]
PanelPromise == Panel!PanelSpec
=============================================================================
