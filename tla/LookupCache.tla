---------------------------- MODULE LookupCache ----------------------------
(***************************************************************************)
(* The Lookup client of the in-process path (src/lookup-client.ts) and its *)
(* cache (src/lookup-cache.ts).  Queries ask for the shard of their tid at *)
(* once; each asks the cache and else the service, with a timeout and      *)
(* retries, and caches what the service said.  Meanwhile tenants move.     *)
(*                                                                         *)
(* Times are kept as ages, counted up to one more than anything compares   *)
(* them with.                                                              *)
(***************************************************************************)
EXTENDS Naturals

CONSTANTS
    Null,
    Queries,
    Tids,
    Shards,
    LookupRetries,  \* MTDD_LOOKUP_RETRY_COUNT
    TTLs,           \* values of MTDD_LOOKUP_CACHE_TTL_MS, in ticks; 0: no cache
    LookupTimeout,  \* MTDD_LOOKUP_TIMEOUT_MS, in ticks
    BodyTime,       \* how long the body may come after the headers: the network's,
                    \* for the code's timer is cleared by then
    MaxFaults,      \* bound: lookups that fail
    MaxMoves        \* bound: moves of a tid to another shard

ASSUME ConstantsAssumption ==
    /\ TTLs \subseteq Nat /\ TTLs # {}
    /\ {LookupRetries, LookupTimeout, BodyTime, MaxFaults, MaxMoves} \subseteq Nat
    /\ Null \notin Tids \cup Shards

VARIABLES
    ttl,
    cache,      \* of each tid: its entry and the entry's age
    query,      \* the lookups
    placement,  \* the shard of each tid at the service
    gone,       \* how long ago each tid was last placed on each shard
    faults,
    moves

service == <<placement, gone, moves>>
vars == <<ttl, cache, query, service, faults>>

\* The oldest information that may be used.
Horizon == ttl + LookupTimeout + BodyTime

Older(age) == IF age <= Horizon THEN age + 1 ELSE age

Lookup ==
    [pc : {"idle", "sent", "served", "body", "delay", "done", "failed"},
     tid : Tids \cup {Null},
     tries : 0..LookupRetries,   \* attempts that failed
     waited : Nat,               \* since the attempt began, or the headers came
     host : Shards \cup {Null},
     stale : Nat]                \* the age of the answer when it was given

\* Every variable has its type.
TypeOK ==
    /\ ttl \in TTLs
    /\ cache \in [Tids -> [hostIndex : Shards, age : 0..Horizon + 1] \cup {Null}]
    /\ query \in [Queries -> Lookup]
    /\ placement \in [Tids -> Shards]
    /\ gone \in [Tids -> [Shards -> 0..Horizon + 1]]
    /\ faults \in 0..MaxFaults
    /\ moves \in 0..MaxMoves

Idle == [pc |-> "idle", tid |-> Null, tries |-> 0, waited |-> 0, host |-> Null, stale |-> 0]

Init ==
    /\ ttl \in TTLs
    /\ cache = [t \in Tids |-> Null]
    /\ query = [q \in Queries |-> Idle]
    /\ placement \in [Tids -> Shards]
    /\ gone = [t \in Tids |-> [s \in Shards |-> IF placement[t] = s THEN 0 ELSE Horizon + 1]]
    /\ faults = 0
    /\ moves = 0
---------------------------------------------------------------------------
\* lookupHostIndex() of q returns s.
Return(q, t, s) ==
    query' = [query EXCEPT ![q] = [pc |-> "done", tid |-> t, tries |-> 0, waited |-> 0,
                                    host |-> s, stale |-> gone[t][s]]]

Fail(q) == query' = [query EXCEPT ![q] = [Idle EXCEPT !.pc = "failed"]]

Fault == faults < MaxFaults /\ faults' = faults + 1

\* Mutant: a read renews the entry.
AfterRead_Renewed(t) == IF cache[t] = Null THEN Null ELSE [cache[t] EXCEPT !.age = 0]

\* An entry that has expired is deleted when it is read.
AfterRead(t) == IF cache[t] = Null \/ cache[t].age > ttl THEN Null ELSE cache[t]

\* lookupHostIndex(): getCachedHostIndex(), and the request if there is no answer.
Ask(q, t) ==
    /\ query[q].pc = "idle"
    /\ LET entry == IF ttl = 0 THEN Null ELSE AfterRead(t) IN
         /\ cache' = [cache EXCEPT ![t] = entry]
         /\ \/ entry # Null /\ Return(q, t, entry.hostIndex)
            \/ entry = Null /\ query' = [query EXCEPT ![q].pc = "sent", ![q].tid = t]
    /\ UNCHANGED <<ttl, service, faults>>

\* The service reads the placement.
Serve(q) ==
    /\ query[q].pc = "sent"
    /\ query' = [query EXCEPT ![q].pc = "served", ![q].host = placement[query[q].tid]]
    /\ UNCHANGED <<ttl, cache, service, faults>>

\* fetch() resolves, and the timer is cleared.
Headers(q) ==
    /\ query[q].pc = "served"
    /\ query' = [query EXCEPT ![q].pc = "body", ![q].waited = 0]
    /\ UNCHANGED <<ttl, cache, service, faults>>

\* The rest of the answer arrives: setCachedHostIndex().
Answer(q) ==
    /\ query[q].pc = "body"
    /\ LET t == query[q].tid
           s == query[q].host
       IN /\ Return(q, t, s)
          /\ cache' = IF ttl = 0 THEN cache
                      ELSE [cache EXCEPT ![t] = [hostIndex |-> s, age |-> 0]]
    /\ UNCHANGED <<ttl, service, faults>>

\* Mutant: one attempt is not counted.
MayRetry_Last(q) == query[q].tries <= LookupRetries

MayRetry(q) == query[q].tries < LookupRetries

\* The attempt fails or times out.
Refuse(q) ==
    /\ query[q].pc \in {"sent", "served", "body"}
    /\ Fault
    /\ IF MayRetry(q)
       THEN query' = [query EXCEPT ![q].pc = "delay", ![q].tries = @ + 1,
                                       ![q].waited = 0, ![q].host = Null]
       ELSE Fail(q)
    /\ UNCHANGED <<ttl, cache, service>>

\* Mutant: nothing happens after the delay.
Again_Forgets(q) == UNCHANGED query

\* The delay after a failed attempt is over.
Again(q) == query' = [query EXCEPT ![q].pc = "sent"]

Retry(q) ==
    /\ query[q].pc = "delay"
    /\ Again(q)
    /\ UNCHANGED <<ttl, cache, service, faults>>

\* An answer that is no shard's index fails the lookup and is not cached.
OutOfRange(q) ==
    /\ query[q].pc = "body"
    /\ Fault
    /\ Fail(q)
    /\ UNCHANGED <<ttl, cache, service>>

\* clearLookupCache().
Clear ==
    /\ cache' = [t \in Tids |-> Null]
    /\ UNCHANGED <<ttl, query, service, faults>>

\* The next query in q's place.
Finish(q) ==
    /\ query[q].pc \in {"done", "failed"}
    /\ query' = [query EXCEPT ![q] = Idle]
    /\ UNCHANGED <<ttl, cache, service, faults>>

Move(t) ==
    /\ moves < MaxMoves
    /\ moves' = moves + 1
    /\ \E s \in Shards \ {placement[t]} :
         /\ placement' = [placement EXCEPT ![t] = s]
         /\ gone' = [gone EXCEPT ![t][s] = 0]
    /\ UNCHANGED <<ttl, cache, query, faults>>

\* How long q may wait for what it waits for.
Limit(q) == IF query[q].pc = "body" THEN BodyTime ELSE LookupTimeout

Waiting(q) == query[q].pc \in {"sent", "served", "body"}

\* Time passes, but not beyond the timeout of an attempt.
Tick ==
    /\ \A q \in Queries : Waiting(q) => query[q].waited < Limit(q)
    /\ query' = [q \in Queries |->
                   IF Waiting(q)
                   THEN [query[q] EXCEPT !.waited = @ + 1] ELSE query[q]]
    /\ cache' = [t \in Tids |-> IF cache[t] = Null THEN Null
                                ELSE [cache[t] EXCEPT !.age = Older(@)]]
    /\ gone' = [t \in Tids |-> [s \in Shards |->
                  IF placement[t] = s THEN 0 ELSE Older(gone[t][s])]]
    /\ UNCHANGED <<ttl, placement, moves, faults>>

Step(q) == Serve(q) \/ Headers(q) \/ Answer(q) \/ Refuse(q) \/ Retry(q) \/ OutOfRange(q)

Next ==
    \/ \E q \in Queries : Step(q) \/ Finish(q) \/ \E t \in Tids : Ask(q, t)
    \/ \E t \in Tids : Move(t)
    \/ Clear \/ Tick

Spec == Init /\ [][Next]_vars

\* The service answers with headers and body or the request is aborted, and timers
\* fire.
Fairness == \A q \in Queries : WF_vars(Step(q))

FairSpec == Spec /\ Fairness
---------------------------------------------------------------------------
\* However lookups of a tid, their answers and its moves overlap, an answer is never
\* given that was last true longer ago than the TTL, one attempt's timeout and the
\* time of the body.
BoundedStaleness ==
    \A q \in Queries : query[q].pc = "done" => query[q].stale <= Horizon

\* An entry that may still be used was last true at most one attempt's time before
\* it was stored, also when a slow answer replaced one that was given later.
CacheFresh ==
    \A t \in Tids :
        cache[t] # Null /\ ttl > 0 /\ cache[t].age <= ttl
          => gone[t][cache[t].hostIndex] <= cache[t].age + LookupTimeout + BodyTime

\* Every lookup returns or fails.
Ends == \A q \in Queries : query[q].pc = "sent" ~> query[q].pc \in {"done", "failed"}
============================================================================
