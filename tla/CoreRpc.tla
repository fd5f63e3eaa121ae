------------------------------- MODULE CoreRpc -------------------------------
(***************************************************************************)
(* The JSON-RPC client of Core (core/rpc_client.go).                       *)
(*                                                                         *)
(* One mutex serialises the calls, one connection is kept between them.  A *)
(* call makes at most two round trips: the second only when the first one  *)
(* failed and the method does not mutate, or its bytes were never written. *)
(*                                                                         *)
(* Core (external) reads a request line, executes it and answers on the    *)
(* connection it came from; it goes on doing so for a connection that the  *)
(* client has given up, so a request may be executed long after its call   *)
(* has returned an error.  A line may also reach the client unasked.       *)
(***************************************************************************)
EXTENDS FiniteSets, Naturals, Sequences

CONSTANTS
    MaxCalls,   \* bound: number of calls
    MaxNoise    \* bound: number of lines that answer no request

ASSUME RpcAssumption == MaxCalls \in Nat /\ MaxNoise \in Nat

VARIABLES
    callId,     \* RPCClient.id
    call,       \* the call in progress: its phase and attempt
    mutates,    \* calls of mutating methods (isMutatingRPCMethod)
    gen,        \* number of connections dialled so far
    connected,  \* RPCClient.conn is not nil
    reader,     \* lines received on the connection and not read yet
    inbox,      \* requests that Core received and has not executed
    executed,   \* per call: how often Core executed it
    result,     \* per call: what Call returned
    noise       \* unasked lines so far

clientVars == <<callId, call, mutates, gen, connected>>
rpcVars == <<clientVars, reader, inbox, executed, result, noise>>

CallIds == 1 .. MaxCalls
Idle == [phase |-> "idle", attempt |-> 0]
Working == call.phase # "idle"

-----------------------------------------------------------------------------
(* The client. *)

\* Call takes the mutex and the next request id.
Call(mutating) ==
    /\ ~Working
    /\ callId < MaxCalls
    /\ callId' = callId + 1
    /\ call' = [phase |-> "send", attempt |-> 1]
    /\ mutates' = IF mutating THEN mutates \cup {callId + 1} ELSE mutates
    /\ UNCHANGED <<gen, connected, reader, inbox, executed, result, noise>>

\* The call returns and the mutex is released.
Return(r) ==
    /\ result' = [result EXCEPT ![callId] = r]
    /\ call' = Idle

\* connectLocked: the old connection, if any, is closed first.
Dial ==
    /\ gen' = gen + 1
    /\ connected' = TRUE
    /\ reader' = <<>>

\* The connection is closed and forgotten, with its reader.
Hangup ==
    /\ connected' = FALSE
    /\ reader' = <<>>
    /\ UNCHANGED gen

\* Mutant: a mutating request is retried like any other.
retryAlways(wrote) ==
    IF call.attempt = 2
    THEN Return("error")
    ELSE call' = [call EXCEPT !.phase = "redial"] /\ UNCHANGED result

\* What follows a failed round trip: no retry once a mutating request was
\* written, else one more on a new connection.
AfterFailure(wrote) ==
    IF call.attempt = 2 \/ (wrote /\ callId \in mutates)
    THEN Return("error")
    ELSE call' = [call EXCEPT !.phase = "redial"] /\ UNCHANGED result

\* ensureConnLocked at the start of a round trip.
EnsureConn ==
    /\ call.phase = "send" /\ ~connected
    /\ \/ Dial /\ UNCHANGED <<call, result>>
       \/ Hangup /\ AfterFailure(FALSE)
    /\ UNCHANGED <<callId, mutates, inbox, executed, noise>>

\* The retry of Call: connectLocked, then the second round trip.
Reconnect ==
    /\ call.phase = "redial"
    /\ \/ Dial /\ call' = [phase |-> "send", attempt |-> 2] /\ UNCHANGED result
       \/ Hangup /\ Return("error")
    /\ UNCHANGED <<callId, mutates, inbox, executed, noise>>

\* The request is written, or the write fails and Core sees no whole line.
Write ==
    /\ call.phase = "send" /\ connected
    /\ \/ /\ inbox' = inbox \cup {[id |-> callId, gen |-> gen]}
          /\ call' = [call EXCEPT !.phase = "read"]
          /\ UNCHANGED <<gen, connected, reader, result>>
       \/ Hangup /\ AfterFailure(FALSE) /\ UNCHANGED inbox
    /\ UNCHANGED <<callId, mutates, executed, noise>>

\* Mutant: any successful answer is taken for the call's.
anyAnswer(line) == line.ok

\* The answer carries the request's id and a result.
OwnAnswer(line) == line = [id |-> callId, ok |-> TRUE]

\* A line arrives: the answer when its id is the request's, an error otherwise
\* (wrong id, unreadable line, error of Core); the connection stays open.
Read ==
    /\ call.phase = "read" /\ reader # <<>>
    /\ reader' = Tail(reader)
    /\ IF OwnAnswer(Head(reader))
       THEN Return("ok") ELSE AfterFailure(TRUE)
    /\ UNCHANGED <<callId, mutates, gen, connected, inbox, executed, noise>>

\* Mutant: a read has no deadline.
readWithoutDeadline ==
    /\ call.phase = "read" /\ reader # <<>>
    /\ Hangup
    /\ AfterFailure(TRUE)
    /\ UNCHANGED <<callId, mutates, inbox, executed, noise>>

\* The deadline passes or the connection breaks before a line arrives.
ReadFailure ==
    /\ call.phase = "read"
    /\ Hangup
    /\ AfterFailure(TRUE)
    /\ UNCHANGED <<callId, mutates, inbox, executed, noise>>

-----------------------------------------------------------------------------
(* Core. *)

\* Core executes a request, or refuses it, and answers on its connection.
Serve(q) ==
    /\ inbox' = inbox \ {q}
    /\ \E ok \in BOOLEAN :
        /\ executed' = IF ok THEN [executed EXCEPT ![q.id] = @ + 1] ELSE executed
        /\ reader' = IF connected /\ q.gen = gen
                     THEN Append(reader, [id |-> q.id, ok |-> ok]) ELSE reader
    /\ UNCHANGED <<clientVars, result, noise>>

\* A line that answers no request of this client (its id is never used).
Noise ==
    /\ connected /\ noise < MaxNoise
    /\ noise' = noise + 1
    /\ reader' = Append(reader, [id |-> 0, ok |-> TRUE])
    /\ UNCHANGED <<clientVars, inbox, executed, result>>

-----------------------------------------------------------------------------

\* NewRPCClient dials and ignores a failure.
RpcInit ==
    /\ callId = 0 /\ call = Idle /\ mutates = {}
    /\ connected \in BOOLEAN /\ gen = IF connected THEN 1 ELSE 0
    /\ reader = <<>> /\ inbox = {} /\ noise = 0
    /\ executed = [i \in CallIds |-> 0]
    /\ result = [i \in CallIds |-> "none"]

ClientStep == EnsureConn \/ Reconnect \/ Write \/ Read \/ ReadFailure

RpcNext ==
    \/ \E mutating \in BOOLEAN : Call(mutating)
    \/ ClientStep
    \/ \E q \in inbox : Serve(q)
    \/ Noise

\* Dialling, writing and reading have deadlines, so a client step is never
\* postponed for ever.  Nothing is assumed about Core.
RpcFairness == WF_rpcVars(ClientStep)

RpcSpec == RpcInit /\ [][RpcNext]_rpcVars /\ RpcFairness

-----------------------------------------------------------------------------
(* Properties. *)

\* The types of the client's and Core's state; without a connection there is
\* nothing to read.
RpcTypeOK ==
    /\ ~connected => reader = <<>>
    /\ callId \in 0 .. MaxCalls
    /\ call \in [phase : {"idle", "send", "read", "redial"}, attempt : 0 .. 2]
    /\ mutates \in SUBSET CallIds
    /\ gen \in Nat /\ connected \in BOOLEAN /\ noise \in 0 .. MaxNoise
    /\ reader \in Seq([id : 0 .. MaxCalls, ok : BOOLEAN])
    /\ inbox \in SUBSET [id : CallIds, gen : Nat]
    /\ executed \in [CallIds -> Nat]
    /\ result \in [CallIds -> {"none", "ok", "error"}]

\* Core executes the request of a mutating call at most once, whatever is lost,
\* late or repeated: a call that is retried has not written its request.
MutateOnce == \A i \in mutates : executed[i] <= 1

\* A call that returns a result returns that of its own request: Core has
\* executed it, even when lines of earlier calls are still in the reader.
AnswerIsOwn == \A i \in CallIds : result[i] = "ok" => executed[i] >= 1

\* Every call returns and lets the next one run, whatever Core does: the mutex
\* of the client is free again and again.
CallReturns == []<>~Working
=============================================================================
