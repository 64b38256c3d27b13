---------------------------- MODULE ShardRouting ----------------------------
(***************************************************************************)
(* The in-process path (MTDD_LEGACY_INSTALL=1): a query of a pool or of a  *)
(* checked-out client is classified, checked and routed by                 *)
(* executeRoutedQuery(): to the pinned shard, to the shard that Lookup     *)
(* gives for the tid, or to all shards.  While the gRPC hub is ready a     *)
(* statement is a call to a shard's agent, with retries; else it goes to   *)
(* the shard through a native pg pool.                                     *)
(*                                                                         *)
(* One action is one run of the event loop, from the resumption of an      *)
(* await to the next.  A lookup may give any shard, also a different one   *)
(* for the same tid each time: tenants move and answers are cached, as     *)
(* LookupCache models.  The agents and Postgres are the environment.  A    *)
(* checked-out client awaits each query before it issues the next.         *)
(***************************************************************************)
EXTENDS Naturals, FiniteSets

CONSTANTS
    Null,
    Undef,          \* no tid was given
    All,            \* tid: null
    Pools,
    Checkouts,
    Tids,
    Shards,
    Offers,         \* the queries the application may issue
    Policies,       \* values of MTDD_FANOUT_POLICY
    MaxRetries,     \* MTDD_GRPC_MAX_RETRIES
    MaxRequests,    \* bound: queries issued
    MaxFaults       \* bound: failures of calls, connects and lookups

\* FUNCTION is routed as INSERT is, and COMMIT and UPDATE alike.
Kinds == {"begin", "insert", "select", "call", "update"}

Targets == Pools \cup Checkouts

ASSUME ConstantsAssumption ==
    /\ Offers \subseteq [target : Targets, kind : Kinds, tid : Tids \cup {Undef, All}]
    /\ IsFiniteSet(Shards) /\ Cardinality(Shards) > 1
    /\ Policies \subseteq {"all", "best_effort"} /\ Policies # {}
    /\ {MaxRetries, MaxRequests, MaxFaults} \subseteq Nat
    /\ {Null, Undef, All} \cap (Tids \cup Shards) = {}
    /\ Null \notin [host : Shards, grpc : BOOLEAN]

VARIABLES
    hub,        \* "connecting", "ready", "closing", or "null": no shardState
    pin,        \* of each checked-out client: shard, via gRPC or natively
    native,     \* the clients of sub-pools each checked-out client took
    released,   \* checked-out clients after release()
    req,        \* the queries
    issued,
    faults

clients == <<pin, native, released>>
vars == <<hub, clients, req, issued, faults>>

TaskState == {"none", "call", "backoff", "connect", "native", "ok", "failed"}

Request ==
    [pc : {"none", "classify", "lookup", "host", "run", "done"},
     offer : Offers \cup {Null},
     host : Shards \cup {Null},         \* what the lookup gave
     via : {"none", "grpc", "native"},
     session : BOOLEAN,                 \* the calls carry a session_id
     role : {"write", "read"},
     patient : BOOLEAN,                 \* Promise.allSettled
     task : [Shards -> TaskState],
     sent : [Shards -> 0..MaxRetries + 1],
     ran : [Shards -> Nat],             \* how often a shard executed it
     unsure : [Shards -> Nat],          \* how often it did and the answer was lost
     result : {"none", "ok", "error"}]

\* Every variable has its type: no call is sent more than MaxRetries times again.
TypeOK ==
    /\ hub \in {"connecting", "ready", "closing", "null"}
    /\ pin \in [Checkouts -> [host : Shards, grpc : BOOLEAN] \cup {Null}]
    /\ native \in [Checkouts -> Nat]
    /\ released \subseteq Checkouts
    /\ req \in [1..MaxRequests -> Request]
    /\ issued \in 0..MaxRequests
    /\ faults \in 0..MaxFaults

Each(x) == [s \in Shards |-> x]

NoRequest ==
    [pc |-> "none", offer |-> Null, host |-> Null, via |-> "none", session |-> FALSE,
     role |-> "write", patient |-> FALSE, task |-> Each("none"), sent |-> Each(0),
     ran |-> Each(0), unsure |-> Each(0), result |-> "none"]

Init ==
    /\ hub = "connecting"
    /\ pin = [c \in Checkouts |-> Null]
    /\ native = [c \in Checkouts |-> 0]
    /\ released = {}
    /\ req = [r \in 1..MaxRequests |-> NoRequest]
    /\ issued = 0
    /\ faults = 0
---------------------------------------------------------------------------
Target(r) == req[r].offer.target
Kind(r) == req[r].offer.kind
Tid(r) == req[r].offer.tid

\* The pin of a query's target; pools have none.
PinOf(r) == IF Target(r) \in Checkouts THEN pin[Target(r)] ELSE Null

HubReady == hub \in {"ready", "closing"}

\* resolveEndpointRole().
Role(r) == IF Kind(r) = "select" THEN "read" ELSE "write"

Quiet(c) ==
    \A r \in 1..issued :
        Target(r) = c => req[r].pc = "done"
                         /\ \A s \in Shards : req[r].task[s] \in {"none", "ok", "failed"}

\* The query fails before a statement was sent.
Failed(q) == [q EXCEPT !.pc = "done", !.result = "error", !.host = Null]

Fault == faults < MaxFaults /\ faults' = faults + 1

Issue ==
    /\ issued < MaxRequests
    /\ \E o \in Offers :
         /\ o.target \in Checkouts => Quiet(o.target) /\ o.target \notin released
         /\ req' = [req EXCEPT ![issued + 1] = [@ EXCEPT !.pc = "classify", !.offer = o]]
    /\ issued' = issued + 1
    /\ UNCHANGED <<hub, clients, faults>>

\* release(): a native pin has replaced it by the release of its client.
Release(c) ==
    /\ c \notin released
    /\ Quiet(c)
    /\ released' = released \cup {c}
    /\ native' = IF pin[c] # Null /\ ~pin[c].grpc THEN [native EXCEPT ![c] = @ - 1]
                 ELSE native
    /\ UNCHANGED <<hub, pin, req, issued, faults>>
---------------------------------------------------------------------------
(***************************************************************************)
(* Routing, once the query is classified.                                  *)
(***************************************************************************)
\* assertInsertRequiresTid(), assertCallTid(), assertTransactionRouting() and the
\* check of broadcastCallQuery().
Rejected(r) ==
    \/ Kind(r) = "insert" /\ Tid(r) \notin Tids
    \/ Kind(r) = "call" /\ Tid(r) = Undef
    \/ Tid(r) = Undef /\ PinOf(r) # Null
    \/ Tid(r) = Undef /\ (Kind(r) = "begin" \/ Target(r) \in Checkouts)
    \/ Kind(r) = "call" /\ Tid(r) = All /\ PinOf(r) # Null

Classified(r) == req[r].pc = "classify" /\ UNCHANGED <<hub, issued, faults>>

Reject(r) ==
    /\ Classified(r)
    /\ Rejected(r)
    /\ req' = [req EXCEPT ![r] = Failed(@)]
    /\ UNCHANGED clients

\* Mutant: the pin is not kept.
PinAfter_Never(r, s) == pin

\* ensureCheckoutPin().
PinAfter(r, s) ==
    IF HubReady /\ Target(r) \in Checkouts /\ PinOf(r) = Null
    THEN [pin EXCEPT ![Target(r)] = [host |-> s, grpc |-> TRUE]]
    ELSE pin

\* executeQueryOnShard() for the shards of S: calls, or queries of sub-pools.
Started(q, S, session, role) ==
    [q EXCEPT !.pc = "run",
              !.via = IF HubReady THEN "grpc" ELSE "native",
              !.session = session,
              !.role = role,
              !.task = [s \in Shards |->
                          IF s \notin S THEN "none" ELSE IF HubReady THEN "call"
                          ELSE IF q.offer.target \in Pools THEN "native" ELSE "connect"],
              !.sent = [s \in Shards |-> IF s \in S /\ HubReady THEN 1 ELSE 0]]

\* broadcastCallQuery().
Broadcast(r) ==
    /\ Classified(r)
    /\ ~Rejected(r)
    /\ Kind(r) = "call" /\ Tid(r) = All
    /\ req' = [req EXCEPT ![r] = Started(@, Shards, FALSE, Role(r))]
    /\ UNCHANGED clients

\* The client has a pin.  One by gRPC cannot be used once the hub is closed.
RunPinned(r) ==
    /\ Classified(r)
    /\ ~Rejected(r)
    /\ PinOf(r) # Null
    /\ LET p == PinOf(r) IN
         req' = [req EXCEPT ![r] =
                   IF HubReady THEN Started(@, {p.host}, p.grpc, "write")
                   ELSE IF p.grpc THEN Failed(@)
                   ELSE [Started(@, {p.host}, FALSE, "write")
                           EXCEPT !.task[p.host] = "native"]]
    /\ UNCHANGED clients

\* fanOutQuery(): no tid, or tid: null and not a CALL.  (It classifies once more; what
\* has been checked does not change meanwhile.)
FanOut(r) ==
    /\ Classified(r)
    /\ ~Rejected(r)
    /\ PinOf(r) = Null /\ Tid(r) \notin Tids /\ Kind(r) # "call"
    /\ \E policy \in Policies :
         req' = [req EXCEPT ![r] = [Started(@, Shards, FALSE, Role(r))
                                      EXCEPT !.patient = (policy = "best_effort")]]
    /\ UNCHANGED clients

\* routeWithLookupTid(), up to its await.
Lookup(r) ==
    /\ Classified(r)
    /\ ~Rejected(r)
    /\ PinOf(r) = Null /\ Tid(r) \in Tids
    /\ req' = [req EXCEPT ![r] = [@ EXCEPT !.pc = "lookup"]]
    /\ UNCHANGED clients

LookupReturns(r) ==
    /\ req[r].pc = "lookup"
    /\ \E s \in Shards : req' = [req EXCEPT ![r] = [@ EXCEPT !.pc = "host", !.host = s]]
    /\ UNCHANGED <<hub, clients, issued, faults>>

LookupFails(r) ==
    /\ req[r].pc = "lookup"
    /\ Fault
    /\ req' = [req EXCEPT ![r] = Failed(@)]
    /\ UNCHANGED <<hub, clients, issued>>

\* routeWithLookupTid() after onSelectHost: executeQueryOnShard().
Execute(r) ==
    /\ req[r].pc = "host"
    /\ LET s == req[r].host IN
         /\ pin' = PinAfter(r, s)
         /\ req' = [req EXCEPT ![r] =
                      [Started(@, {s}, HubReady /\ Target(r) \in Checkouts, Role(r))
                         EXCEPT !.host = Null]]
    /\ UNCHANGED <<hub, native, released, issued, faults>>
---------------------------------------------------------------------------
(***************************************************************************)
(* The statements on the shards.                                           *)
(***************************************************************************)
\* Mutant: a fan-out is answered by the shards that succeeded.
Settled_Partial(q) ==
    LET over == \A s \in Shards : q.task[s] \in {"none", "ok", "failed"} IN
    IF q.pc # "run" \/ ~over THEN q
    ELSE [q EXCEPT !.pc = "done",
                   !.result = IF \E s \in Shards : q.task[s] = "ok" THEN "ok" ELSE "error"]

\* Mutant: a fan-out of "best_effort" is not answered when a shard has failed.
Settled_Forgets(q) ==
    LET over == \A s \in Shards : q.task[s] \in {"none", "ok", "failed"}
        failed == \E s \in Shards : q.task[s] = "failed"
    IN IF q.pc = "run" /\ (IF failed THEN ~q.patient ELSE over)
       THEN [q EXCEPT !.pc = "done", !.result = IF failed THEN "error" ELSE "ok"]
       ELSE q

\* Promise.all rejects at the first failure, runFanOut() of "best_effort" when all
\* shards have answered; either resolves when all have succeeded.
Settled(q) ==
    LET over == \A s \in Shards : q.task[s] \in {"none", "ok", "failed"}
        failed == \E s \in Shards : q.task[s] = "failed"
    IN IF q.pc = "run" /\ (over \/ (failed /\ ~q.patient))
       THEN [q EXCEPT !.pc = "done", !.result = IF failed THEN "error" ELSE "ok"]
       ELSE q

\* Mutant: one attempt too many.
MayRetry_Once(n) == n <= MaxRetries + 1

\* withGrpcRetries(): the n-th call may be repeated.
MayRetry(n) == n <= MaxRetries

\* The statement's end on a shard; "unsure" counts the executions without an answer.
TaskEnds(q, s, state, executed) ==
    Settled([q EXCEPT !.task[s] = state,
                      !.ran[s] = IF executed THEN @ + 1 ELSE @,
                      !.unsure[s] = IF executed /\ state # "ok" THEN @ + 1 ELSE @])

\* A call ends with an answer, with an error that is not repeated, or is to be repeated.
\* Whatever the error, the agent may have executed the statement: the code that comes
\* back does not tell, and decoding an answer that has come may fail.  A call that was not
\* executed needs no fault to fail once the endpoints are closed.  (Left out, as FanOut has
\* it: a stream that an ERROR without metadata ends is decoded as an answer.)
CallEnds(r, s) ==
    /\ req[r].task[s] = "call"
    /\ \E executed \in BOOLEAN :
         \/ /\ executed
            /\ req' = [req EXCEPT ![r] = TaskEnds(@, s, "ok", executed)]
            /\ UNCHANGED faults
         \/ /\ IF hub = "ready" \/ executed THEN Fault ELSE UNCHANGED faults
            /\ req' = [req EXCEPT ![r] = TaskEnds(@, s, "failed", executed)]
         \/ /\ Fault
            /\ MayRetry(req[r].sent[s])
            /\ req' = [req EXCEPT ![r] = TaskEnds(@, s, "backoff", executed)]
    /\ UNCHANGED <<hub, clients, issued>>

\* The delay after a call of unknown outcome is over.
CallAgain(r, s) ==
    /\ req[r].task[s] = "backoff"
    /\ req' = [req EXCEPT ![r] = [req[r] EXCEPT !.task[s] = "call", !.sent[s] = @ + 1]]
    /\ UNCHANGED <<hub, clients, issued, faults>>

\* Mutant: the connected client is not pinned.
PinNative_Never(c, s) == pin

PinNative(c, s) == [pin EXCEPT ![c] = [host |-> s, grpc |-> FALSE]]

\* pool.connect() for a checked-out client.  In a fan-out there is no target to pin
\* and setPinnedHostIndex() throws, with the client taken.
Connect(r, s) ==
    /\ req[r].task[s] = "connect"
    /\ LET c == Target(r)
           single == Tid(r) \in Tids
       IN \/ /\ native' = [native EXCEPT ![c] = @ + 1]
             /\ pin' = IF single THEN PinNative(c, s) ELSE pin
             /\ req' = [req EXCEPT ![r] =
                          Settled([req[r] EXCEPT !.task[s] = IF single THEN "native" ELSE "failed"])]
             /\ UNCHANGED faults
          \/ /\ Fault
             /\ req' = [req EXCEPT ![r] = Settled([req[r] EXCEPT !.task[s] = "failed"])]
             /\ UNCHANGED <<pin, native>>
    /\ UNCHANGED <<hub, released, issued>>

\* runNativeQuery() ends.  A connection lost under pool.query(), or the application's
\* query_timeout, fails a statement that may have been executed.
NativeEnds(r, s) ==
    /\ req[r].task[s] = "native"
    /\ \E executed \in BOOLEAN :
         \/ /\ executed
            /\ req' = [req EXCEPT ![r] = TaskEnds(@, s, "ok", executed)]
            /\ UNCHANGED faults
         \/ /\ Fault
            /\ req' = [req EXCEPT ![r] = TaskEnds(@, s, "failed", executed)]
    /\ UNCHANGED <<hub, clients, issued>>
---------------------------------------------------------------------------
(***************************************************************************)
(* The hub.                                                                *)
(***************************************************************************)
\* initGrpcHub() of the preload, which install() does not wait for: it connects
\* to every shard, or fails and nobody is told.
HubConnected ==
    /\ hub = "connecting"
    /\ hub' = "ready"
    /\ UNCHANGED <<clients, req, issued, faults>>

HubFails ==
    /\ hub = "connecting"
    /\ Fault
    /\ hub' = "null"
    /\ UNCHANGED <<clients, req, issued>>

\* closeGrpcHub(): the endpoints are disconnected, then shardState is reset.
CloseHub ==
    /\ \/ hub = "ready" /\ hub' = "closing"
       \/ hub = "closing" /\ hub' = "null"
    /\ UNCHANGED <<clients, req, issued, faults>>

Step(r) ==
    \/ Reject(r) \/ Broadcast(r) \/ RunPinned(r) \/ FanOut(r) \/ Lookup(r)
    \/ LookupReturns(r) \/ LookupFails(r) \/ Execute(r)
    \/ \E s \in Shards : CallEnds(r, s) \/ CallAgain(r, s) \/ Connect(r, s) \/ NativeEnds(r, s)

Next ==
    \/ Issue
    \/ \E c \in Checkouts : Release(c)
    \/ \E r \in 1..issued : Step(r)
    \/ HubConnected \/ HubFails \/ CloseHub

Spec == Init /\ [][Next]_vars

\* Callbacks run, and lookups, calls and native queries end.
Fairness == \A r \in 1..MaxRequests : WF_vars(r <= issued /\ Step(r))

FairSpec == Spec /\ Fairness
---------------------------------------------------------------------------
\* Where a query was sent: shards, way, endpoint and session.
Connection(q) == [shards |-> {s \in Shards : q.sent[s] > 0 \/ q.ran[s] > 0}, via |-> q.via,
                  role |-> q.role, session |-> q.session]

\* After a BEGIN of a checked-out client for a tid, in a session over gRPC, everything
\* that the client's later queries execute runs in that session on the same shard's
\* write endpoint, whatever their tid.  (BEGIN with tid: null fans out.  A client that
\* was pinned natively has no session: its BEGIN is followed by calls once the hub is
\* ready, and by native queries again once it is closed.)
TxOneConnection ==
    \A i, j \in 1..issued :
        ( /\ i < j /\ Target(i) = Target(j) /\ Target(i) \in Checkouts
          /\ Kind(i) = "begin" /\ Tid(i) \in Tids
          /\ req[i].result = "ok" /\ req[i].session
          /\ \E s \in Shards : req[j].ran[s] > 0 )
        => Connection(req[j]) = Connection(req[i])

\* A query answered with success was executed on every shard it was for, once and once
\* more for each answer that was lost and its call repeated, also while the shards
\* answer, fail and are asked again in any order; and "best_effort" answers only when no
\* shard is at work.  (What an error says of the shards is nothing: each of them may have
\* executed the statement.)
HonestAnswer ==
    \A r \in 1..issued :
        LET q == req[r]
            asked == {s \in Shards : q.task[s] # "none"}
        IN /\ q.result = "ok" => \A s \in asked : q.ran[s] = q.unsure[s] + 1
           /\ q.pc = "done" /\ q.patient
                => \A s \in asked : q.task[s] \in {"ok", "failed"}

\* A released client holds no client of a sub-pool, unless it has fanned out before
\* the hub was ready or after it was closed.
NoLeakedClient ==
    \A c \in released :
        \/ native[c] = 0
        \/ \E r \in 1..issued : Target(r) = c /\ Tid(r) = All /\ req[r].via = "native"

\* Every query is answered, also while calls are retried and the hub is closed.
Answered == \A r \in 1..MaxRequests : r <= issued ~> req[r].pc = "done"
============================================================================
