------------------------- MODULE LookupCacheProofs -------------------------
(***************************************************************************)
(* Proofs about LookupCache: how old an answer of lookupHostIndex(), and an *)
(* entry of its cache, can be.                                             *)
(***************************************************************************)
EXTENDS LookupCache, TLAPS

Asked == {"sent", "served", "body", "delay"}
Told == {"served", "body"}

\* A lookup under way has its tid and, once the service has read it, a shard.
Named ==
    \A q \in Queries :
        /\ query[q].pc \in Asked => query[q].tid \in Tids
        /\ query[q].pc \in Told => query[q].host \in Shards

\* Time does not pass the limit of a request, and is kept for requests only.
InTime == \A q \in Queries : IF Waiting(q) THEN query[q].waited <= Limit(q)
                             ELSE query[q].waited = 0

\* The service's own answer is always current.
Current == \A t \in Tids : gone[t][placement[t]] = 0

\* What the service has read is no older than the request that is under way.
AnswerFresh ==
    \A q \in Queries :
        LET age == gone[query[q].tid][query[q].host] IN
        /\ query[q].pc = "served" => age <= query[q].waited
        /\ query[q].pc = "body" => age <= LookupTimeout + query[q].waited

Inv ==
    /\ TypeOK /\ Named
    /\ InTime /\ Current /\ AnswerFresh
    /\ CacheFresh /\ BoundedStaleness
---------------------------------------------------------------------------
\* Horizons are numbers.
LEMMA HorizonNat ==
    ASSUME TypeOK
    PROVE  /\ ttl \in Nat
           /\ LookupTimeout \in Nat
           /\ BodyTime \in Nat
           /\ Horizon \in Nat
  BY ConstantsAssumption DEF TypeOK, Horizon

\* Initially nothing is known.
LEMMA InitInv == Init => Inv
<1> SUFFICES ASSUME Init PROVE Inv
  OBVIOUS
<1>0. ttl \in Nat /\ Horizon \in Nat
  BY ConstantsAssumption DEF Init, Horizon
<1>1. TypeOK
  BY <1>0, ConstantsAssumption DEF Init, TypeOK, Idle, Lookup
<1>2. Named /\ InTime /\ AnswerFresh /\ BoundedStaleness
  BY DEF Init, Idle, Named, InTime, AnswerFresh, BoundedStaleness, Waiting, Asked, Told
<1>3. Current /\ CacheFresh
  BY DEF Init, Current, CacheFresh
<1> QED
  BY <1>1, <1>2, <1>3 DEF Inv
---------------------------------------------------------------------------
\* A step that changes one lookup, which stays in order, and no time keeps the
\* invariant, if the cache is kept in order.
LEMMA OneLookup ==
    ASSUME Inv, NEW q \in Queries, NEW l \in Lookup,
           query' = [query EXCEPT ![q] = l],
           UNCHANGED <<ttl, service>>, faults' \in 0..MaxFaults,
           cache' \in [Tids -> [hostIndex : Shards, age : 0..Horizon + 1] \cup {Null}],
           CacheFresh',
           l.pc \in Asked => l.tid \in Tids,
           l.pc \in Told => l.host \in Shards,
           l.pc \in {"sent", "served"} => l.waited <= LookupTimeout,
           l.pc = "body" => l.waited <= BodyTime,
           l.pc \notin {"sent", "served", "body"} => l.waited = 0,
           l.pc = "served" => gone[l.tid][l.host] <= l.waited,
           l.pc = "body" => gone[l.tid][l.host] <= LookupTimeout + l.waited,
           l.pc = "done" => l.stale <= Horizon
    PROVE  Inv'
<1>1. \A r \in Queries : query'[r] = IF r = q THEN l ELSE query[r]
  BY DEF Inv, TypeOK
<1>2. TypeOK' /\ Horizon' = Horizon
  BY DEF Inv, TypeOK, Horizon, service
<1>3. Named'
  BY <1>1 DEF Inv, Named
<1>4. InTime'
  BY <1>1 DEF Inv, InTime, Waiting, Limit
<1>5. Current'
  BY DEF Inv, Current, service
<1>6. AnswerFresh'
  BY <1>1 DEF Inv, AnswerFresh, service
<1>7. BoundedStaleness'
  BY <1>1, <1>2 DEF Inv, BoundedStaleness
<1> QED
  BY <1>2, <1>3, <1>4, <1>5, <1>6, <1>7 DEF Inv

\* The cache of a step that leaves cache, ttl and service alone is in order.
LEMMA SameCache ==
    ASSUME Inv, UNCHANGED <<ttl, cache, service>>
    PROVE  /\ cache' \in [Tids -> [hostIndex : Shards, age : 0..Horizon + 1] \cup {Null}]
           /\ CacheFresh'
  BY DEF Inv, TypeOK, CacheFresh, service

\* The steps whose lookup ends in failure.
LEMMA FailKeeps ==
    ASSUME Inv, NEW q \in Queries, Fail(q), UNCHANGED <<ttl, cache, service>>,
           faults' \in 0..MaxFaults
    PROVE  Inv'
<1> DEFINE l == [Idle EXCEPT !.pc = "failed"]
<1>1. l \in Lookup /\ query' = [query EXCEPT ![q] = l] /\ l.pc = "failed" /\ l.waited = 0
  BY ConstantsAssumption DEF Fail, Idle, Lookup
<1> HIDE DEF l
<1> QED
  BY <1>1, OneLookup, SameCache DEF Asked, Told

\* The steps that return a shard which was the tid's not longer ago than Horizon.
LEMMA ReturnKeeps ==
    ASSUME Inv, NEW q \in Queries, NEW t \in Tids, NEW s \in Shards, Return(q, t, s),
           gone[t][s] <= Horizon,
           UNCHANGED <<ttl, service>>, faults' \in 0..MaxFaults,
           cache' \in [Tids -> [hostIndex : Shards, age : 0..Horizon + 1] \cup {Null}],
           CacheFresh'
    PROVE  Inv'
<1> DEFINE l == [pc |-> "done", tid |-> t, tries |-> 0, waited |-> 0, host |-> s,
                 stale |-> gone[t][s]]
<1>0. gone[t][s] \in Nat
  BY HorizonNat DEF Inv, TypeOK
<1>1. l \in Lookup /\ l.pc = "done" /\ l.stale = gone[t][s] /\ l.waited = 0
  BY <1>0, ConstantsAssumption DEF Lookup
<1>2. query' = [query EXCEPT ![q] = l]
  BY DEF Return
<1> HIDE DEF l
<1> QED
  BY <1>1, <1>2, OneLookup DEF Asked, Told
---------------------------------------------------------------------------
\* The cache answers, or a request is sent.
LEMMA AskKeeps ==
    ASSUME Inv, NEW q \in Queries, NEW t \in Tids, Ask(q, t)
    PROVE  Inv'
<1> DEFINE entry == IF ttl = 0 THEN Null ELSE AfterRead(t)
           Entries == [hostIndex : Shards, age : 0..Horizon + 1] \cup {Null}
<1>0. /\ cache' = [cache EXCEPT ![t] = entry]
      /\ cache \in [Tids -> Entries]
      /\ UNCHANGED <<ttl, service, faults>>
      /\ faults' \in 0..MaxFaults
  BY DEF Ask, Inv, TypeOK
<1>1. entry = Null \/ (entry = cache[t] /\ cache[t] # Null /\ ttl # 0 /\ cache[t].age <= ttl)
  BY <1>0, HorizonNat DEF AfterRead, Inv, TypeOK
<1>2. cache' \in [Tids -> Entries]
  BY <1>0, <1>1
<1>3. CacheFresh'
  BY <1>0, <1>1 DEF CacheFresh, Inv, service
<1>4. CASE entry # Null /\ Return(q, t, entry.hostIndex)
  <2>1. entry = cache[t] /\ entry.hostIndex \in Shards /\ entry.age \in Nat
    BY <1>0, <1>1, <1>4, HorizonNat DEF Inv
  <2>2. gone[t][entry.hostIndex] <= entry.age + LookupTimeout + BodyTime
    BY <1>1, <1>4, HorizonNat DEF Inv, CacheFresh
  <2>3. gone[t][entry.hostIndex] <= Horizon
    <3>1. gone[t][entry.hostIndex] \in Nat
      BY <2>1, HorizonNat DEF Inv, TypeOK
    <3> QED
      BY <1>1, <1>4, <2>1, <2>2, <3>1, HorizonNat DEF Inv, Horizon
  <2> HIDE DEF entry
  <2> QED
    BY <1>0, <1>2, <1>3, <1>4, <2>1, <2>3, ReturnKeeps
<1>5. CASE entry = Null /\ query' = [query EXCEPT ![q].pc = "sent", ![q].tid = t]
  <2> DEFINE l == [query[q] EXCEPT !.pc = "sent", !.tid = t]
  <2>1. l \in Lookup /\ query' = [query EXCEPT ![q] = l] /\ l.pc = "sent" /\ l.tid = t
    BY <1>5 DEF Inv, TypeOK, Lookup
  <2>2. l.waited <= LookupTimeout
    BY HorizonNat, <2>1 DEF Ask, Inv, InTime, Waiting
  <2> HIDE DEF l
  <2> QED
    BY <1>0, <1>2, <1>3, <2>1, <2>2, OneLookup DEF Asked, Told
<1> QED
  BY <1>4, <1>5 DEF Ask
\* The service reads the placement, which is current.
LEMMA ServeKeeps ==
    ASSUME Inv, NEW q \in Queries, Serve(q)
    PROVE  Inv'
<1> DEFINE l == [query[q] EXCEPT !.pc = "served", !.host = placement[query[q].tid]]
<1>1. query[q] \in Lookup /\ query[q].tid \in Tids /\ query[q].waited <= LookupTimeout
  BY DEF Serve, Inv, TypeOK, Named, InTime, Waiting, Limit, Asked
<1>2. placement[query[q].tid] \in Shards /\ gone[query[q].tid][placement[query[q].tid]] = 0
  BY <1>1 DEF Inv, TypeOK, Current
<1>3. /\ l \in Lookup /\ query' = [query EXCEPT ![q] = l] /\ l.pc = "served"
      /\ l.tid = query[q].tid /\ l.host = placement[query[q].tid]
      /\ l.waited = query[q].waited /\ l.waited \in Nat
  BY <1>1, <1>2 DEF Serve, Lookup
<1>4. faults' \in 0..MaxFaults /\ UNCHANGED <<ttl, cache, service>>
  BY DEF Serve, Inv, TypeOK
<1>5. gone[l.tid][l.host] <= l.waited /\ l.waited <= LookupTimeout
  BY <1>1, <1>2, <1>3
<1> HIDE DEF l
<1> QED
  BY <1>1, <1>2, <1>3, <1>4, <1>5, SameCache, OneLookup DEF Asked, Told

\* The headers are there, and the time of the body begins.
LEMMA HeadersKeeps ==
    ASSUME Inv, NEW q \in Queries, Headers(q)
    PROVE  Inv'
<1> DEFINE l == [query[q] EXCEPT !.pc = "body", !.waited = 0]
<1>1. /\ query[q] \in Lookup /\ query[q].tid \in Tids /\ query[q].host \in Shards
      /\ query[q].waited <= LookupTimeout
      /\ gone[query[q].tid][query[q].host] <= query[q].waited
  BY DEF Headers, Inv, TypeOK, Named, InTime, AnswerFresh, Waiting, Limit, Asked, Told
<1>2. gone[query[q].tid][query[q].host] \in Nat /\ query[q].waited \in Nat
  BY <1>1, HorizonNat DEF Inv, TypeOK, Lookup
<1>3. /\ l \in Lookup /\ query' = [query EXCEPT ![q] = l] /\ l.pc = "body"
      /\ l.tid = query[q].tid /\ l.host = query[q].host /\ l.waited = 0
  BY <1>1 DEF Headers, Lookup
<1>4. faults' \in 0..MaxFaults /\ UNCHANGED <<ttl, cache, service>>
  BY DEF Headers, Inv, TypeOK
<1>5. gone[l.tid][l.host] <= LookupTimeout + l.waited /\ l.waited <= BodyTime
  BY <1>1, <1>2, <1>3, HorizonNat DEF Inv
<1> HIDE DEF l
<1> QED
  BY <1>1, <1>3, <1>4, <1>5, SameCache, OneLookup DEF Asked, Told

\* The answer is cached and returned.
LEMMA AnswerKeeps ==
    ASSUME Inv, NEW q \in Queries, Answer(q)
    PROVE  Inv'
<1> DEFINE t == query[q].tid
           s == query[q].host
           Entries == [hostIndex : Shards, age : 0..Horizon + 1] \cup {Null}
<1>1. t \in Tids /\ s \in Shards /\ Return(q, t, s) /\ UNCHANGED <<ttl, service, faults>>
  BY DEF Answer, Inv, Named, Asked, Told
<1>2. gone[t][s] <= LookupTimeout + BodyTime /\ gone[t][s] \in Nat
  <2>1. gone[t][s] <= LookupTimeout + query[q].waited /\ query[q].waited <= BodyTime
    BY DEF Answer, Inv, AnswerFresh, InTime, Waiting, Limit
  <2>2. gone[t][s] \in Nat /\ query[q].waited \in Nat
    BY <1>1, HorizonNat DEF Inv, TypeOK, Lookup
  <2> QED
    BY <2>1, <2>2, HorizonNat DEF Inv
<1>3. gone[t][s] <= Horizon
  BY <1>2, HorizonNat DEF Inv, Horizon
<1>4. cache' = cache \/ cache' = [cache EXCEPT ![t] = [hostIndex |-> s, age |-> 0]]
  BY DEF Answer
<1>5. cache' \in [Tids -> Entries]
  <2>1. [hostIndex |-> s, age |-> 0] \in Entries
    BY <1>1, HorizonNat DEF Inv
  <2> QED
    BY <1>4, <2>1 DEF Inv, TypeOK
<1>6. CacheFresh'
  <2>1. CASE cache' = cache
    BY <1>1, <2>1 DEF Inv, CacheFresh, service
  <2>2. CASE cache' = [cache EXCEPT ![t] = [hostIndex |-> s, age |-> 0]]
    <3> SUFFICES ASSUME NEW u \in Tids, cache'[u] # Null, ttl > 0, cache'[u].age <= ttl
                 PROVE  gone[u][cache'[u].hostIndex]
                          <= cache'[u].age + LookupTimeout + BodyTime
      BY <1>1 DEF CacheFresh, service
    <3>1. CASE u = t
      <4>1. cache'[u].hostIndex = s /\ cache'[u].age = 0
        BY <2>2, <3>1, <1>1 DEF Inv, TypeOK
      <4> QED
        BY <1>2, <3>1, <4>1, HorizonNat DEF Inv
    <3>2. CASE u # t
      BY <2>2, <3>2 DEF Inv, TypeOK, CacheFresh
    <3> QED
      BY <3>1, <3>2
  <2> QED
    BY <1>4, <2>1, <2>2
<1>7. faults' \in 0..MaxFaults
  BY <1>1 DEF Inv, TypeOK
<1> HIDE DEF t, s
<1> QED
  BY <1>1, <1>3, <1>5, <1>6, <1>7, ReturnKeeps

\* A failed attempt is repeated after a delay, or fails the lookup.
LEMMA RefuseKeeps ==
    ASSUME Inv, NEW q \in Queries, Refuse(q)
    PROVE  Inv'
<1> DEFINE l == [query[q] EXCEPT !.pc = "delay", !.tries = @ + 1, !.waited = 0, !.host = Null]
<1>1. faults' \in 0..MaxFaults /\ UNCHANGED <<ttl, cache, service>>
  BY ConstantsAssumption DEF Refuse, Fault, Inv, TypeOK
<1>2. CASE MayRetry(q)
  <2>1. query[q] \in Lookup /\ query[q].tid \in Tids
    BY DEF Refuse, Inv, TypeOK, Named, Asked
  <2>2. query[q].tries + 1 \in 0..LookupRetries
    BY <1>2, <2>1, ConstantsAssumption DEF MayRetry, Lookup
  <2>3. l \in Lookup /\ l.pc = "delay" /\ l.tid = query[q].tid /\ l.waited = 0
    BY <2>1, <2>2 DEF Lookup
  <2>4. query' = [query EXCEPT ![q] = l]
    BY <1>2, <2>1 DEF Refuse, Lookup
  <2> HIDE DEF l
  <2> QED
    BY <1>1, <2>1, <2>3, <2>4, SameCache, OneLookup DEF Asked, Told
<1>3. CASE ~MayRetry(q)
  BY <1>1, <1>3, FailKeeps DEF Refuse
<1> QED
  BY <1>2, <1>3

\* The request is sent again.
LEMMA RetryKeeps ==
    ASSUME Inv, NEW q \in Queries, Retry(q)
    PROVE  Inv'
<1> DEFINE l == [query[q] EXCEPT !.pc = "sent"]
<1>1. query[q] \in Lookup /\ query[q].tid \in Tids /\ query[q].waited = 0
  BY DEF Retry, Inv, TypeOK, Named, InTime, Waiting, Asked
<1>2. /\ l \in Lookup /\ query' = [query EXCEPT ![q] = l] /\ l.pc = "sent"
      /\ l.tid = query[q].tid /\ l.waited = 0
  BY <1>1 DEF Retry, Again, Lookup
<1>3. faults' \in 0..MaxFaults /\ UNCHANGED <<ttl, cache, service>>
  BY DEF Retry, Inv, TypeOK
<1>4. l.waited <= LookupTimeout
  BY <1>2, HorizonNat DEF Inv
<1> HIDE DEF l
<1> QED
  BY <1>1, <1>2, <1>3, <1>4, SameCache, OneLookup DEF Asked, Told

\* The caller goes on.
LEMMA FinishKeeps ==
    ASSUME Inv, NEW q \in Queries, Finish(q)
    PROVE  Inv'
<1>1. Idle \in Lookup /\ Idle.pc = "idle" /\ Idle.waited = 0
  BY ConstantsAssumption DEF Idle, Lookup
<1>2. faults' \in 0..MaxFaults /\ UNCHANGED <<ttl, cache, service>>
  BY DEF Finish, Inv, TypeOK
<1> QED
  BY <1>1, <1>2, SameCache, OneLookup DEF Finish, Asked, Told
---------------------------------------------------------------------------
\* A tid is placed anew: nothing that was read gets older by it.
LEMMA MoveKeeps ==
    ASSUME Inv, NEW t \in Tids, Move(t)
    PROVE  Inv'
<1> PICK s \in Shards : /\ placement' = [placement EXCEPT ![t] = s]
                        /\ gone' = [gone EXCEPT ![t][s] = 0]
  BY DEF Move
<1>0. Horizon' = Horizon /\ UNCHANGED <<ttl, cache, query, faults>>
  BY DEF Move, Horizon
<1>1. \A u \in Tids, r \in Shards :
         /\ gone[u][r] \in Nat
         /\ gone'[u][r] = IF u = t /\ r = s THEN 0 ELSE gone[u][r]
  BY HorizonNat DEF Inv, TypeOK
<1>2. TypeOK'
  <2>1. gone' \in [Tids -> [Shards -> 0..Horizon + 1]]
    BY HorizonNat DEF Inv, TypeOK
  <2>2. moves' \in 0..MaxMoves
    BY ConstantsAssumption DEF Move, Inv, TypeOK
  <2> QED
    BY <1>0, <2>1, <2>2 DEF Inv, TypeOK
<1>3. Named' /\ InTime'
  BY <1>0 DEF Inv, Named, InTime, Waiting, Limit
<1>4. Current'
  BY <1>1 DEF Inv, Current, TypeOK
<1>5. AnswerFresh'
  <2> SUFFICES ASSUME NEW q \in Queries
               PROVE  LET age == gone'[query[q].tid][query[q].host] IN
                        /\ query[q].pc = "served" => age <= query[q].waited
                        /\ query[q].pc = "body" => age <= LookupTimeout + query[q].waited
    BY <1>0 DEF AnswerFresh
  <2>1. query[q].pc \in Told => query[q].tid \in Tids /\ query[q].host \in Shards
    BY DEF Inv, Named, Asked, Told
  <2>2. query[q].waited \in Nat
    BY DEF Inv, TypeOK, Lookup
  <2> QED
    BY <1>1, <2>1, <2>2, HorizonNat DEF Inv, AnswerFresh, Told
<1>6. CacheFresh'
  <2> SUFFICES ASSUME NEW u \in Tids, cache[u] # Null, ttl > 0, cache[u].age <= ttl
               PROVE  gone'[u][cache[u].hostIndex]
                        <= cache[u].age + LookupTimeout + BodyTime
    BY <1>0 DEF CacheFresh
  <2>1. cache[u].hostIndex \in Shards /\ cache[u].age \in Nat
    BY HorizonNat DEF Inv, TypeOK
  <2> QED
    BY <1>1, <2>1, HorizonNat DEF Inv, CacheFresh
<1>7. BoundedStaleness'
  BY <1>0 DEF Inv, BoundedStaleness
<1> QED
  BY <1>2, <1>3, <1>4, <1>5, <1>6, <1>7 DEF Inv

\* clearLookupCache(): an empty cache is in order.
LEMMA ClearKeeps ==
    ASSUME Inv, Clear
    PROVE  Inv'
<1>1. TypeOK' /\ Horizon' = Horizon
  BY DEF Clear, Inv, TypeOK, Horizon, service
<1>2. CacheFresh'
  BY DEF Clear, CacheFresh
<1>3. Named' /\ InTime' /\ Current' /\ AnswerFresh'
  BY DEF Clear, Inv, Named, InTime, Current, AnswerFresh, Waiting, Limit, service
<1>4. BoundedStaleness'
  BY <1>1 DEF Clear, Inv, BoundedStaleness
<1> QED
  BY <1>1, <1>2, <1>3, <1>4 DEF Inv

\* Everything gets older by at most one tick, and so do requests and entries.
LEMMA TickKeeps ==
    ASSUME Inv, Tick
    PROVE  Inv'
<1>0. Horizon' = Horizon /\ UNCHANGED <<ttl, placement, moves, faults>>
  BY DEF Tick, Horizon
<1>1. \A u \in Tids, r \in Shards :
         gone[u][r] \in Nat /\ gone'[u][r] \in 0..Horizon + 1 /\ gone'[u][r] <= gone[u][r] + 1
  BY HorizonNat DEF Tick, Older, Inv, TypeOK
<1>2. \A q \in Queries :
         /\ query[q] \in Lookup
         /\ query'[q] = IF Waiting(q) THEN [query[q] EXCEPT !.waited = @ + 1] ELSE query[q]
  BY DEF Tick, Inv, TypeOK
<1>3. \A q \in Queries :
         /\ query'[q] \in Lookup
         /\ query'[q].pc = query[q].pc /\ query'[q].tid = query[q].tid
         /\ query'[q].host = query[q].host /\ query'[q].stale = query[q].stale
         /\ query'[q].waited = IF Waiting(q) THEN query[q].waited + 1 ELSE query[q].waited
         /\ query[q].waited \in Nat
  <2> SUFFICES ASSUME NEW q \in Queries
               PROVE  /\ query'[q] \in Lookup
                      /\ query'[q].pc = query[q].pc /\ query'[q].tid = query[q].tid
                      /\ query'[q].host = query[q].host /\ query'[q].stale = query[q].stale
                      /\ query'[q].waited = IF Waiting(q) THEN query[q].waited + 1
                                            ELSE query[q].waited
                      /\ query[q].waited \in Nat
    OBVIOUS
  <2>1. CASE Waiting(q)
    <3>1. query'[q] = [query[q] EXCEPT !.waited = query[q].waited + 1]
      BY <1>2, <2>1
    <3> QED
      BY <1>2, <2>1, <3>1 DEF Lookup
  <2>2. CASE ~Waiting(q)
    BY <1>2, <2>2 DEF Lookup
  <2> QED
    BY <2>1, <2>2
<1>4. \A u \in Tids : /\ cache[u] = Null => cache'[u] = Null
                      /\ cache[u] # Null => cache'[u] = [cache[u] EXCEPT !.age = Older(@)]
  BY DEF Tick
<1>5. TypeOK'
  <2>1. gone' \in [Tids -> [Shards -> 0..Horizon + 1]]
    BY <1>1, HorizonNat DEF Tick, Older, Inv, TypeOK
  <2>2. query' \in [Queries -> Lookup]
    BY <1>3 DEF Tick
  <2>3. cache' \in [Tids -> [hostIndex : Shards, age : 0..Horizon + 1] \cup {Null}]
    <3> SUFFICES ASSUME NEW u \in Tids
                 PROVE  cache'[u] \in [hostIndex : Shards, age : 0..Horizon + 1] \cup {Null}
      BY DEF Tick
    <3>1. CASE cache[u] = Null
      BY <1>4, <3>1
    <3>2. CASE cache[u] # Null
      <4>1. cache[u] \in [hostIndex : Shards, age : 0..Horizon + 1]
        BY <3>2 DEF Inv, TypeOK
      <4>2. Older(cache[u].age) \in 0..Horizon + 1
        BY <4>1, HorizonNat DEF Older, Inv
      <4> QED
        BY <1>4, <3>2, <4>1, <4>2
    <3> QED
      BY <3>1, <3>2
  <2> QED
    BY <1>0, <2>1, <2>2, <2>3 DEF Inv, TypeOK
<1>6. Named'
  BY <1>3 DEF Inv, Named
<1>7. InTime'
  <2> SUFFICES ASSUME NEW q \in Queries
               PROVE  IF Waiting(q) THEN query'[q].waited <= Limit(q)
                      ELSE query'[q].waited = 0
    BY <1>3 DEF InTime, Waiting, Limit
  <2>1. Limit(q) \in Nat
    BY HorizonNat DEF Limit, Inv
  <2>2. CASE Waiting(q)
    <3>1. query[q].waited < Limit(q)
      BY <2>2 DEF Tick
    <3> QED
      BY <1>3, <2>1, <2>2, <3>1
  <2>3. CASE ~Waiting(q)
    BY <1>3, <2>3 DEF Inv, InTime
  <2> QED
    BY <2>2, <2>3
<1>8. Current'
  BY <1>0 DEF Current, Tick, Inv, TypeOK
<1>9. AnswerFresh'
  <2> SUFFICES ASSUME NEW q \in Queries, query[q].pc \in Told
               PROVE  LET age == gone'[query[q].tid][query[q].host] IN
                        /\ query[q].pc = "served" => age <= query[q].waited + 1
                        /\ query[q].pc = "body" => age <= LookupTimeout + query[q].waited + 1
    BY <1>3, HorizonNat DEF AnswerFresh, Waiting, Told, Inv
  <2>1. query[q].tid \in Tids /\ query[q].host \in Shards
    BY DEF Inv, Named, Asked, Told
  <2> QED
    BY <1>1, <1>3, <2>1, HorizonNat DEF Inv, AnswerFresh
<1>10. CacheFresh'
  <2> SUFFICES ASSUME NEW u \in Tids, cache'[u] # Null, ttl > 0, cache'[u].age <= ttl
               PROVE  gone'[u][cache'[u].hostIndex]
                        <= cache'[u].age + LookupTimeout + BodyTime
    BY <1>0 DEF CacheFresh
  <2>1. cache[u] # Null /\ cache[u] \in [hostIndex : Shards, age : 0..Horizon + 1]
    BY <1>4 DEF Inv, TypeOK
  <2>2. cache'[u].hostIndex = cache[u].hostIndex /\ cache'[u].age = Older(cache[u].age)
    BY <1>4, <2>1
  <2>3. cache[u].age \in Nat /\ cache[u].hostIndex \in Shards
    BY <2>1, HorizonNat DEF Inv
  <2>4. cache[u].age <= ttl /\ cache'[u].age = cache[u].age + 1
    BY <2>2, <2>3, HorizonNat DEF Older, Horizon, Inv
  <2>5. gone[u][cache[u].hostIndex] <= cache[u].age + LookupTimeout + BodyTime
    BY <2>1, <2>4 DEF Inv, CacheFresh
  <2> QED
    BY <1>1, <2>2, <2>3, <2>4, <2>5, HorizonNat DEF Inv
<1>11. BoundedStaleness'
  BY <1>0, <1>3 DEF Inv, BoundedStaleness
<1> QED
  BY <1>5, <1>6, <1>7, <1>8, <1>9, <1>10, <1>11 DEF Inv
---------------------------------------------------------------------------
\* Every step keeps the invariant.
LEMMA NextInv == Inv /\ [Next]_vars => Inv'
<1> SUFFICES ASSUME Inv, [Next]_vars PROVE Inv'
  OBVIOUS
<1>1. ASSUME NEW q \in Queries, Step(q) PROVE Inv'
  <2>1. CASE OutOfRange(q)
    <3>1. faults' \in 0..MaxFaults
      BY <2>1, ConstantsAssumption DEF OutOfRange, Fault, Inv, TypeOK
    <3> QED
      BY <2>1, <3>1, FailKeeps DEF OutOfRange
  <2> QED
    BY <1>1, <2>1, ServeKeeps, HeadersKeeps, AnswerKeeps, RefuseKeeps, RetryKeeps DEF Step
<1>2. CASE UNCHANGED vars
  BY <1>2 DEF vars, service, Inv, TypeOK, Horizon, Named, InTime, Current, AnswerFresh,
              CacheFresh, BoundedStaleness, Waiting, Limit
<1> QED
  BY <1>1, <1>2, FinishKeeps, AskKeeps, MoveKeeps, ClearKeeps, TickKeeps DEF Next

\* The invariant of the Lookup client.
LEMMA Invariant == Spec => []Inv
<1> QED
  BY InitInv, NextInv, PTL DEF Spec

\* Every variable of the Lookup client and its cache has its type, and no lookup is
\* tried more often than MTDD_LOOKUP_RETRY_COUNT says.
THEOREM TypeCorrect == Spec => []TypeOK
<1>1. Inv => TypeOK
  BY DEF Inv
<1> QED
  BY <1>1, Invariant, PTL

\* lookupHostIndex() never gives an answer that was last true longer ago than the
\* cache's TTL, one attempt's timeout and the time of the body together.
THEOREM StalenessBounded == Spec => []BoundedStaleness
<1>1. Inv => BoundedStaleness
  BY DEF Inv
<1> QED
  BY <1>1, Invariant, PTL

\* What setCachedHostIndex() stored was true when its own request was under way, and
\* stays as fresh as its age says, whatever other answers were stored before it.
THEOREM CacheStaysFresh == Spec => []CacheFresh
<1>1. Inv => CacheFresh
  BY DEF Inv
<1> QED
  BY <1>1, Invariant, PTL
=============================================================================
