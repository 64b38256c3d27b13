------------------------- MODULE ShardRoutingProofs -------------------------
(***************************************************************************)
(* Proofs about ShardRouting, for any queries, shards, retries and faults: *)
(* a transaction keeps its connection, an answer is honest, and a released *)
(* client holds nothing.                                                   *)
(***************************************************************************)
EXTENDS ShardRouting, FiniteSetTheorems, TLAPS

AtWork == {"call", "backoff", "connect", "native"}

\* The query is answered and none of its statements is under way.
Over(q) == q.pc = "done" /\ \A s \in Shards : q.task[s] \notin AtWork

\* Before a query has been routed nothing has been sent for it.
Unsent(q) ==
    /\ q.via = "none" /\ ~q.session /\ ~q.patient
    /\ \A s \in Shards : q.task[s] = "none"

\* A shard's statement: the way it goes, how often it was sent and how often executed.
ShardInv(q, s) ==
    /\ q.task[s] = "none" => q.sent[s] = 0 /\ q.unsure[s] = 0
    /\ q.task[s] # "none" /\ q.via = "grpc" => q.sent[s] > 0
    /\ q.task[s] = "backoff" => q.sent[s] <= MaxRetries
    /\ q.task[s] \in {"call", "backoff"} => q.via = "grpc"
    /\ q.task[s] \in {"connect", "native"} => q.via = "native"
    /\ q.ran[s] = IF q.task[s] = "ok" THEN q.unsure[s] + 1 ELSE q.unsure[s]

\* What is true of one query, whatever the others do.
RequestInv(q) ==
    /\ q.pc \in {"none", "classify", "lookup", "host"} => Unsent(q) /\ q.result = "none"
    /\ q.pc = "run" => q.result = "none"
    /\ q.pc = "done" => q.result # "none"
    /\ \A s \in Shards : ShardInv(q, s)
    /\ q.result = "ok" => /\ q.pc = "done"
                          /\ \A s \in Shards : q.task[s] \in {"none", "ok"}
    /\ q.result = "error" => /\ q.pc = "done"
                             /\ \/ \A s \in Shards : q.task[s] = "none"
                                \/ \E s \in Shards : q.task[s] = "failed"
    /\ q.pc = "done" /\ q.patient => Over(q)

\* The queries of a checked-out client follow one another, and none is under way when
\* it is released.
TurnInv ==
    /\ \A r \in 1..MaxRequests : IF r > issued THEN req[r] = NoRequest
                                 ELSE req[r].pc # "none" /\ req[r].offer \in Offers
    /\ \A i, j \in 1..issued :
         i < j /\ Target(i) = Target(j) /\ Target(i) \in Checkouts => Over(req[i])
    /\ \A r \in 1..issued : Target(r) \in released => Over(req[r])

\* A query that looks up its shard, or connects to it, finds its client without a pin p;
\* one that connects to all shards is for all tids.
Unpinned(q, p) ==
    /\ q.pc \in {"lookup", "host"} => p = Null /\ q.offer.tid \in Tids
    /\ q.pc = "host" => q.host \in Shards
    /\ \A s \in Shards : q.task[s] = "connect" =>
         /\ q.offer.target \in Checkouts
         /\ q.offer.tid \in Tids => /\ p = Null
                                    /\ \A t \in Shards \ {s} : q.task[t] = "none"
         /\ q.offer.tid \notin Tids => q.offer.tid = All

PinInv == \A r \in 1..issued : Unpinned(req[r], PinOf(r))

\* The query has been sent in the session of the shard of the pin p.
InSession(q, p) ==
    /\ q.via = "grpc" /\ q.session
    /\ \A s \in Shards : q.task[s] # "none" <=> s = p.host

\* A query with a session is one of a client pinned by gRPC.
Sessional(q, p) ==
    q.session => /\ q.offer.target \in Checkouts /\ p # Null /\ p.grpc
                 /\ InSession(q, p)
                 /\ q.offer.kind # "select" => q.role = "write"

\* After it a query of the client runs in the session too, or was not sent.
Follows(q, p) ==
    \/ q.pc \in {"classify", "done"} /\ Unsent(q)
    \/ InSession(q, p) /\ q.role = "write"

SessionInv ==
    /\ \A r \in 1..issued : Sessional(req[r], PinOf(r))
    /\ \A i, j \in 1..issued :
         i < j /\ Target(i) = Target(j) /\ req[i].session => Follows(req[j], PinOf(j))

\* A client with a native pin holds its client of the sub-pool until its release.
Held(c) == IF c \notin released /\ pin[c] # Null /\ ~pin[c].grpc THEN 1 ELSE 0

FannedOut(c) ==
    \E r \in 1..issued : Target(r) = c /\ Tid(r) = All /\ req[r].via = "native"

HoldInv ==
    \A c \in Checkouts : native[c] >= Held(c) /\ (FannedOut(c) \/ native[c] = Held(c))
---------------------------------------------------------------------------
(***************************************************************************)
(* Records of queries.                                                     *)
(***************************************************************************)
\* The counters are bounded by numbers.
LEMMA Bounds == MaxRetries \in Nat /\ MaxRequests \in Nat /\ MaxFaults \in Nat
BY ConstantsAssumption

\* The markers for no tid, all tids and no shard are none of those.
LEMMA NullApart == Null \notin Shards /\ Null \notin Tids /\ Undef \notin Tids /\ All \notin Tids
BY ConstantsAssumption

\* No pin is a missing one.
LEMMA NullNoPin == Null \notin [host : Shards, grpc : BOOLEAN]
BY ConstantsAssumption

\* A query that fails before it is sent.
LEMMA FailedFacts ==
    ASSUME NEW q \in Request, RequestInv(q), q.pc \in {"classify", "lookup"}
    PROVE  /\ Failed(q) \in Request /\ RequestInv(Failed(q))
           /\ Failed(q).pc = "done" /\ Unsent(Failed(q))
           /\ Failed(q).offer = q.offer
<1> DEFINE f == Failed(q)
<1>1. /\ f \in Request /\ f.pc = "done" /\ f.result = "error" /\ f.offer = q.offer
      /\ f.task = q.task /\ f.sent = q.sent /\ f.ran = q.ran /\ f.unsure = q.unsure
      /\ f.via = q.via /\ f.session = q.session /\ f.patient = q.patient
  BY DEF Failed, Request
<1>2. Unsent(q)
  BY DEF RequestInv
<1> HIDE DEF f
<1>3. Unsent(f)
  BY <1>1, <1>2 DEF Unsent
<1>4. RequestInv(f)
  BY <1>1, <1>2, <1>3 DEF RequestInv, ShardInv, Unsent
<1> QED
  BY <1>1, <1>3, <1>4 DEF f

\* w is the query q, sent to the shards of S.
StartedAs(w, q, S, session, role) ==
    /\ w \in Request
    /\ w.pc = "run" /\ w.offer = q.offer /\ w.host = q.host
    /\ w.via = IF HubReady THEN "grpc" ELSE "native"
    /\ w.session = session /\ w.role = role
    /\ w.patient = q.patient /\ w.result = q.result
    /\ w.ran = q.ran /\ w.unsure = q.unsure
    /\ \A s \in Shards :
         /\ w.task[s] = IF s \notin S THEN "none" ELSE IF HubReady THEN "call"
                        ELSE IF q.offer.target \in Pools THEN "native" ELSE "connect"
         /\ w.sent[s] = IF s \in S /\ HubReady THEN 1 ELSE 0

\* A query that is sent becomes a query at work on those shards.
LEMMA StartedFacts ==
    ASSUME NEW q \in Request, NEW S, S \in SUBSET Shards,
           NEW session, session \in BOOLEAN, NEW role, role \in {"write", "read"},
           NEW w, w = Started(q, S, session, role)
    PROVE  StartedAs(w, q, S, session, role)
<1> DEFINE task == [s \in Shards |->
                      IF s \notin S THEN "none" ELSE IF HubReady THEN "call"
                      ELSE IF q.offer.target \in Pools THEN "native" ELSE "connect"]
           sent == [s \in Shards |-> IF s \in S /\ HubReady THEN 1 ELSE 0]
<1>1. task \in [Shards -> TaskState]
  BY DEF TaskState
<1>2. sent \in [Shards -> 0..MaxRetries + 1]
  BY Bounds
<1>3. w = [q EXCEPT !.pc = "run", !.via = IF HubReady THEN "grpc" ELSE "native",
                    !.session = session, !.role = role, !.task = task, !.sent = sent]
  BY DEF Started
<1>4. /\ \A s \in Shards : task[s] = IF s \notin S THEN "none" ELSE IF HubReady THEN "call"
                               ELSE IF q.offer.target \in Pools THEN "native" ELSE "connect"
      /\ \A s \in Shards : sent[s] = IF s \in S /\ HubReady THEN 1 ELSE 0
  OBVIOUS
<1> HIDE DEF task, sent
<1>5. /\ w \in Request
      /\ w.pc = "run" /\ w.offer = q.offer /\ w.host = q.host
      /\ w.via = IF HubReady THEN "grpc" ELSE "native"
      /\ w.session = session /\ w.role = role
      /\ w.patient = q.patient /\ w.result = q.result
      /\ w.ran = q.ran /\ w.unsure = q.unsure /\ w.task = task /\ w.sent = sent
  <2> DEFINE via == IF HubReady THEN "grpc" ELSE "native"
  <2>1. via \in {"grpc", "native"}
    OBVIOUS
  <2>2. w = [q EXCEPT !.pc = "run", !.via = via, !.session = session, !.role = role,
                      !.task = task, !.sent = sent]
    BY <1>3
  <2> HIDE DEF via
  <2>3. w \in Request
    <3> DEFINE v == [q EXCEPT !.pc = "run", !.via = via, !.session = session, !.role = role]
    <3>1. v \in Request
      BY <2>1 DEF Request
    <3>2. w = [v EXCEPT !.task = task, !.sent = sent]
      BY <2>2 DEF Request
    <3> HIDE DEF v
    <3> QED
      BY <1>1, <1>2, <3>1, <3>2 DEF Request
  <2>4. /\ w.pc = "run" /\ w.via = via /\ w.session = session /\ w.role = role
        /\ w.task = task /\ w.sent = sent
    BY <2>2 DEF Request
  <2>5. /\ w.offer = q.offer /\ w.host = q.host /\ w.patient = q.patient
        /\ w.result = q.result /\ w.ran = q.ran /\ w.unsure = q.unsure
    BY <2>2 DEF Request
  <2> QED
    BY <2>3, <2>4, <2>5 DEF via
<1> QED
  BY <1>4, <1>5 DEF StartedAs

\* Answering a query changes nothing of what was sent for it.
LEMMA SettledFields ==
    ASSUME NEW q \in Request
    PROVE  LET w == Settled(q) IN
           /\ w \in Request
           /\ w.offer = q.offer /\ w.host = q.host /\ w.via = q.via
           /\ w.session = q.session /\ w.role = q.role /\ w.patient = q.patient
           /\ w.task = q.task /\ w.sent = q.sent /\ w.ran = q.ran /\ w.unsure = q.unsure
           /\ \/ w.pc = q.pc /\ w.result = q.result
              \/ /\ q.pc = "run" /\ w.pc = "done"
                 /\ ~q.patient => \/ \E s \in Shards : q.task[s] = "failed"
                                  \/ \A s \in Shards : q.task[s] \in {"none", "ok", "failed"}
                 /\ q.patient => \A s \in Shards : q.task[s] \in {"none", "ok", "failed"}
                 /\ w.result = IF \E s \in Shards : q.task[s] = "failed" THEN "error" ELSE "ok"
<1>1. CASE /\ q.pc = "run"
           /\ \/ \A s \in Shards : q.task[s] \in {"none", "ok", "failed"}
              \/ (\E s \in Shards : q.task[s] = "failed") /\ ~q.patient
  <2> DEFINE failed == \E s \in Shards : q.task[s] = "failed"
             w == [q EXCEPT !.pc = "done", !.result = IF failed THEN "error" ELSE "ok"]
  <2>1. Settled(q) = w
    BY <1>1 DEF Settled
  <2> DEFINE result == IF failed THEN "error" ELSE "ok"
  <2> HIDE DEF failed
  <2>2. result \in {"error", "ok"} /\ w = [q EXCEPT !.pc = "done", !.result = result]
    OBVIOUS
  <2> HIDE DEF w, result
  <2>3. w \in Request
    BY <2>2 DEF Request
  <2>4. /\ w.offer = q.offer /\ w.host = q.host /\ w.via = q.via
        /\ w.session = q.session /\ w.role = q.role /\ w.patient = q.patient
        /\ w.task = q.task /\ w.sent = q.sent /\ w.ran = q.ran /\ w.unsure = q.unsure
    BY <2>2 DEF Request
  <2>5. w.pc = "done" /\ w.result = IF failed THEN "error" ELSE "ok"
    BY <2>2 DEF Request, result
  <2> QED
    BY <1>1, <2>1, <2>3, <2>4, <2>5 DEF failed
<1>2. CASE ~ /\ q.pc = "run"
             /\ \/ \A s \in Shards : q.task[s] \in {"none", "ok", "failed"}
                \/ (\E s \in Shards : q.task[s] = "failed") /\ ~q.patient
  <2>1. Settled(q) = q
    BY <1>2 DEF Settled
  <2> QED
    BY <2>1
<1> QED
  BY <1>1, <1>2

\* w is the query q after a step of shard s, where a statement was under way.
Worked(q, w, s) ==
    /\ w \in Request
    /\ w.pc = q.pc /\ w.offer = q.offer /\ w.host = q.host /\ w.via = q.via
    /\ w.session = q.session /\ w.role = q.role /\ w.patient = q.patient
    /\ w.result = q.result
    /\ q.task[s] \in AtWork /\ w.task[s] # "none"
    /\ \A t \in Shards \ {s} : /\ w.task[t] = q.task[t] /\ w.sent[t] = q.sent[t]
                               /\ w.ran[t] = q.ran[t] /\ w.unsure[t] = q.unsure[t]
    /\ ShardInv(w, s)

\* While a statement is under way a query is not answered with success, nor at all when
\* it waits for all its shards.
LEMMA WorkingFacts ==
    ASSUME NEW q \in Request, RequestInv(q), NEW s \in Shards, q.task[s] \in AtWork
    PROVE  /\ q.pc \in {"run", "done"}
           /\ q.pc = "done" => /\ q.result = "error" /\ ~q.patient
                               /\ \E t \in Shards \ {s} : q.task[t] = "failed"
<1>1. q.task[s] \notin {"none", "ok", "failed"}
  BY DEF AtWork
<1>2. q.pc \in {"run", "done"}
  BY <1>1 DEF RequestInv, Unsent, Request
<1>3. ASSUME q.pc = "done" PROVE q.result = "error" /\ ~q.patient
  BY <1>1, <1>3 DEF RequestInv, Request, Over
<1>4. ASSUME q.pc = "done" PROVE \E t \in Shards \ {s} : q.task[t] = "failed"
  BY <1>1, <1>3, <1>4 DEF RequestInv
<1> QED
  BY <1>2, <1>3, <1>4

\* A step of one statement keeps what is true of its query.
LEMMA WorkedKeeps ==
    ASSUME NEW q \in Request, RequestInv(q), NEW s \in Shards, NEW w, Worked(q, w, s)
    PROVE  RequestInv(w)
<1>1. /\ w.pc = q.pc /\ w.via = q.via /\ w.session = q.session /\ w.patient = q.patient
      /\ w.result = q.result /\ q.task[s] \in AtWork
      /\ \A t \in Shards \ {s} : /\ w.task[t] = q.task[t] /\ w.sent[t] = q.sent[t]
                                 /\ w.ran[t] = q.ran[t] /\ w.unsure[t] = q.unsure[t]
      /\ ShardInv(w, s)
  BY DEF Worked
<1>2. /\ q.pc \in {"run", "done"}
      /\ q.pc = "done" => /\ q.result = "error" /\ ~q.patient
                          /\ \E t \in Shards \ {s} : q.task[t] = "failed"
  BY <1>1, WorkingFacts
<1>3. \A t \in Shards : ShardInv(w, t)
  <2> TAKE t \in Shards
  <2>1. CASE t = s
    BY <1>1, <2>1
  <2>2. CASE t # s
    BY <1>1, <2>2 DEF RequestInv, ShardInv
  <2> QED
    BY <2>1, <2>2
<1>4. q.pc = "run" => q.result = "none"
  BY DEF RequestInv
<1>5. w.pc = "done" => \E t \in Shards : w.task[t] = "failed"
  BY <1>1, <1>2
<1> QED
  BY <1>1, <1>2, <1>3, <1>4, <1>5 DEF RequestInv

\* A query is answered with success when all its statements have succeeded, with an
\* error when one has failed, and waits for all when it is to.
LEMMA SettledKeeps ==
    ASSUME NEW q \in Request, RequestInv(q)
    PROVE  RequestInv(Settled(q))
<1> DEFINE w == Settled(q)
<1> SUFFICES RequestInv(w)
  OBVIOUS
<1>1. /\ w.via = q.via /\ w.session = q.session /\ w.patient = q.patient
      /\ w.task = q.task /\ w.sent = q.sent /\ w.ran = q.ran /\ w.unsure = q.unsure
  BY SettledFields
<1>2. \/ w.pc = q.pc /\ w.result = q.result
      \/ /\ q.pc = "run" /\ w.pc = "done"
         /\ ~q.patient => \/ \E s \in Shards : q.task[s] = "failed"
                          \/ \A s \in Shards : q.task[s] \in {"none", "ok", "failed"}
         /\ q.patient => \A s \in Shards : q.task[s] \in {"none", "ok", "failed"}
         /\ w.result = IF \E s \in Shards : q.task[s] = "failed" THEN "error" ELSE "ok"
  BY SettledFields
<1> HIDE DEF w
<1>3. \A s \in Shards : ShardInv(w, s)
  BY <1>1 DEF RequestInv, ShardInv
<1>4. CASE w.pc = q.pc /\ w.result = q.result
  BY <1>1, <1>3, <1>4 DEF RequestInv, Unsent, Over
<1>5. CASE /\ q.pc = "run" /\ w.pc = "done"
           /\ ~q.patient => \/ \E s \in Shards : q.task[s] = "failed"
                            \/ \A s \in Shards : q.task[s] \in {"none", "ok", "failed"}
           /\ q.patient => \A s \in Shards : q.task[s] \in {"none", "ok", "failed"}
           /\ w.result = IF \E s \in Shards : q.task[s] = "failed" THEN "error" ELSE "ok"
  <2>1. w.patient => Over(w)
    BY <1>1, <1>5 DEF Over, AtWork
  <2>2. CASE \E s \in Shards : q.task[s] = "failed"
    BY <1>1, <1>3, <1>5, <2>1, <2>2 DEF RequestInv
  <2>3. CASE ~ \E s \in Shards : q.task[s] = "failed"
    <3>1. \A s \in Shards : w.task[s] \in {"none", "ok"}
      BY <1>1, <1>5, <2>3
    <3> QED
      BY <1>1, <1>3, <1>5, <2>1, <2>3, <3>1 DEF RequestInv
  <2> QED
    BY <2>2, <2>3
<1> QED
  BY <1>2, <1>4, <1>5

\* A query is sent by calls, or by queries of sub-pools.
LEMMA SentKeeps ==
    ASSUME NEW q \in Request, RequestInv(q), q.pc \in {"classify", "host"},
           NEW w \in Request, w.pc = "run", w.result = q.result,
           w.ran = q.ran, w.unsure = q.unsure,
           \A s \in Shards :
              \/ w.task[s] = "none" /\ w.sent[s] = 0
              \/ w.task[s] = "call" /\ w.sent[s] = 1 /\ w.via = "grpc"
              \/ w.task[s] \in {"connect", "native"} /\ w.sent[s] = 0 /\ w.via = "native"
    PROVE  RequestInv(w)
<1>1. /\ q.result = "none"
      /\ \A s \in Shards : q.task[s] = "none" /\ q.ran[s] = 0 /\ q.unsure[s] = 0
  BY DEF RequestInv, Unsent, ShardInv
<1>2. \A s \in Shards : ShardInv(w, s)
  BY <1>1 DEF ShardInv
<1> QED
  BY <1>1, <1>2 DEF RequestInv
---------------------------------------------------------------------------
(***************************************************************************)
(* One query's step beside the others.                                     *)
(***************************************************************************)
RequestsInv == \A r \in 1..MaxRequests : RequestInv(req[r])

Inv ==
    /\ TypeOK
    /\ RequestsInv
    /\ TurnInv
    /\ PinInv
    /\ SessionInv
    /\ HoldInv

Pins == [host : Shards, grpc : BOOLEAN]

\* The queries issued have a record, an offer and a target.
LEMMA Issued ==
    ASSUME TypeOK, TurnInv, NEW r \in 1..issued
    PROVE  /\ issued \in Nat /\ r \in 1..MaxRequests
           /\ req[r] \in Request /\ req[r].offer \in Offers /\ req[r].pc # "none"
           /\ Target(r) \in Pools \cup Checkouts
           /\ Kind(r) \in Kinds /\ Tid(r) \in Tids \cup {Undef, All}
           /\ Target(r) \in Checkouts => PinOf(r) = pin[Target(r)]
           /\ PinOf(r) \in Pins \cup {Null}
<1>1. issued \in 0..MaxRequests /\ MaxRequests \in Nat
  BY Bounds DEF TypeOK
<1>2. r \in 1..MaxRequests /\ ~(r > issued) /\ issued \in Nat
  BY <1>1
<1>3. req[r] \in Request /\ req[r].offer \in Offers /\ req[r].pc # "none"
  BY <1>2 DEF TypeOK, TurnInv
<1>4. req[r].offer \in [target : Targets, kind : Kinds, tid : Tids \cup {Undef, All}]
  BY <1>3, ConstantsAssumption
<1>5. /\ Target(r) \in Pools \cup Checkouts
      /\ Kind(r) \in Kinds /\ Tid(r) \in Tids \cup {Undef, All}
  BY <1>4 DEF Target, Kind, Tid, Targets
<1>6. PinOf(r) \in Pins \cup {Null}
  BY <1>5 DEF PinOf, TypeOK, Pins
<1> QED
  BY <1>2, <1>3, <1>5, <1>6 DEF PinOf

\* A query that is not over takes a step: at most its own client gets a pin, and had none.
LEMMA QueryStep ==
    ASSUME TypeOK, RequestsInv, TurnInv, PinInv, SessionInv,
           NEW r \in 1..issued, ~Over(req[r]),
           UNCHANGED <<released, issued>>,
           NEW w \in Request, req' = [req EXCEPT ![r] = w],
           RequestInv(w), w.pc # "none", w.offer = req[r].offer,
           \/ pin' = pin
           \/ /\ Target(r) \in Checkouts /\ PinOf(r) = Null
              /\ \E p \in Pins : pin' = [pin EXCEPT ![Target(r)] = p],
           Unpinned(w, PinOf(r)'), Sessional(w, PinOf(r)'),
           \A i \in 1..issued : i < r /\ Target(i) = Target(r) /\ req[i].session
                                  => Follows(w, PinOf(r))
    PROVE  /\ req' \in [1..MaxRequests -> Request]
           /\ pin' \in [Checkouts -> Pins \cup {Null}]
           /\ RequestsInv' /\ TurnInv' /\ PinInv' /\ SessionInv'
<1>1. /\ r \in 1..MaxRequests /\ req \in [1..MaxRequests -> Request]
      /\ issued \in Nat /\ issued' = issued
  BY Issued DEF TypeOK
<1>2. /\ req' \in [1..MaxRequests -> Request] /\ req'[r] = w
      /\ \A k \in 1..MaxRequests : k # r => req'[k] = req[k]
  BY <1>1
<1>3. \A k \in 1..issued : k \in 1..MaxRequests
  BY Bounds DEF TypeOK
<1>4. \A k \in 1..issued : req'[k].offer = req[k].offer
  BY <1>2, <1>3
<1>5. pin' \in [Checkouts -> Pins \cup {Null}]
  BY DEF TypeOK, Pins
<1>6. \A k \in 1..issued : Target(k)' = Target(k)
  BY <1>4 DEF Target
<1>7. \A k \in 1..issued :
         \/ PinOf(k)' = PinOf(k)
         \/ Target(k) = Target(r) /\ Target(k) \in Checkouts /\ PinOf(k) = Null
  <2> TAKE k \in 1..issued
  <2>1. CASE pin' = pin
    BY <1>6, <2>1 DEF PinOf
  <2>2. CASE /\ Target(r) \in Checkouts /\ PinOf(r) = Null
             /\ \E p \in Pins : pin' = [pin EXCEPT ![Target(r)] = p]
    <3>1. CASE Target(k) = Target(r)
      BY <2>2, <3>1 DEF PinOf
    <3>2. CASE Target(k) # Target(r)
      <4>1. \A c \in Checkouts : c # Target(r) => pin'[c] = pin[c]
        BY <2>2 DEF TypeOK
      <4> QED
        BY <1>6, <3>2, <4>1 DEF PinOf
    <3> QED
      BY <3>1, <3>2
  <2> QED
    BY <2>1, <2>2
<1>8. RequestsInv'
  BY <1>2 DEF RequestsInv
<1>9. \A k \in 1..issued : k # r /\ Target(k) = Target(r) /\ Target(r) \in Checkouts
                            => k < r /\ Over(req[k])
  BY <1>1 DEF TurnInv
<1>10. TurnInv'
  <2>1. \A k \in 1..issued : Over(req[k]) => Over(req'[k])
    BY <1>2, <1>3
  <2>2. \A k \in 1..MaxRequests :
          IF k > issued' THEN req'[k] = NoRequest
          ELSE req'[k].pc # "none" /\ req'[k].offer \in Offers
    <3> TAKE k \in 1..MaxRequests
    <3>1. CASE k = r
      <4>1. req[r].offer \in Offers /\ ~(r > issued)
        BY <1>1, Issued
      <4> QED
        BY <1>1, <1>2, <3>1, <4>1
    <3>2. CASE k # r
      BY <1>1, <1>2, <3>2 DEF TurnInv
    <3> QED
      BY <3>1, <3>2
  <2>3. \A i, j \in 1..issued' :
          i < j /\ Target(i)' = Target(j)' /\ Target(i)' \in Checkouts => Over(req'[i])
    BY <1>1, <1>6, <2>1 DEF TurnInv
  <2>4. \A k \in 1..issued' : Target(k)' \in released' => Over(req'[k])
    BY <1>1, <1>6, <2>1 DEF TurnInv
  <2> QED
    BY <2>2, <2>3, <2>4 DEF TurnInv, Over
<1>11. PinInv'
  <2> SUFFICES ASSUME NEW k \in 1..issued
               PROVE  Unpinned(req'[k], PinOf(k)')
    BY <1>1 DEF PinInv, Unpinned
  <2>1. CASE k = r
    BY <1>2, <2>1
  <2>2. CASE k # r
    <3>1. req'[k] = req[k] /\ Unpinned(req[k], PinOf(k))
      BY <1>2, <1>3, <2>2 DEF PinInv
    <3>2. CASE PinOf(k)' = PinOf(k)
      BY <3>1, <3>2
    <3>3. CASE Target(k) = Target(r) /\ Target(k) \in Checkouts
      <4>1. req[k].pc = "done" /\ \A s \in Shards : req[k].task[s] # "connect"
        BY <1>9, <2>2, <3>3 DEF Over, AtWork
      <4> QED
        BY <3>1, <4>1 DEF Unpinned
    <3> QED
      BY <1>7, <3>2, <3>3
  <2> QED
    BY <2>1, <2>2
<1>12. \A k \in 1..issued : req[k].session => Target(k) \in Checkouts /\ PinOf(k) # Null
  BY DEF SessionInv, Sessional, Target
<1>13. \A k \in 1..issued : Sessional(req'[k], PinOf(k)')
  <2> TAKE k \in 1..issued
  <2>1. CASE k = r
    BY <1>2, <2>1
  <2>2. CASE k # r
    <3>1. req'[k] = req[k] /\ Sessional(req[k], PinOf(k))
      BY <1>2, <1>3, <2>2 DEF SessionInv
    <3>2. CASE PinOf(k)' = PinOf(k)
      BY <3>1, <3>2
    <3>3. CASE PinOf(k) = Null
      BY <1>12, <3>1, <3>3 DEF Sessional
    <3> QED
      BY <1>7, <3>2, <3>3
  <2> QED
    BY <2>1, <2>2
<1>14. ASSUME NEW i \in 1..issued, NEW j \in 1..issued,
              i < j, Target(i) = Target(j), req'[i].session
       PROVE  Follows(req'[j], PinOf(j)')
  <2>1. i # r
    <3>1. ASSUME i = r PROVE FALSE
      <4>1. Target(r) \in Checkouts
        BY <1>2, <1>14, <3>1 DEF Sessional, Target
      <4>2. ~(j < r)
        BY <1>1, <1>14, <3>1
      <4> QED
        BY <1>9, <1>14, <3>1, <4>1, <4>2
    <3> QED
      BY <3>1
  <2>2. req[i].session /\ Target(i) \in Checkouts /\ PinOf(i) # Null
    BY <1>2, <1>3, <1>12, <1>14, <2>1
  <2>3. PinOf(j) # Null /\ PinOf(j)' = PinOf(j)
    <3>1. PinOf(j) = PinOf(i)
      BY <1>14 DEF PinOf
    <3> QED
      BY <1>7, <2>2, <3>1
  <2>4. CASE j = r
    BY <1>2, <1>14, <2>2, <2>3, <2>4
  <2>5. CASE j # r
    <3>1. req'[j] = req[j]
      BY <1>2, <1>3, <2>5
    <3> QED
      BY <1>14, <2>2, <2>3, <3>1 DEF SessionInv
  <2> QED
    BY <2>4, <2>5
<1>15. SessionInv'
  BY <1>1, <1>6, <1>13, <1>14 DEF SessionInv, Sessional, Follows, InSession, Unsent
<1> QED
  BY <1>2, <1>5, <1>8, <1>10, <1>11, <1>15

\* A client that fanned out natively has done so for ever.
LEMMA FannedOutKeeps ==
    ASSUME TypeOK, NEW r \in 1..issued, NEW w, req' = [req EXCEPT ![r] = w],
           w.offer = req[r].offer, req[r].via = "native" => w.via = "native",
           UNCHANGED issued, NEW c, FannedOut(c)
    PROVE  FannedOut(c)'
<1>1. PICK k \in 1..issued : Target(k) = c /\ Tid(k) = All /\ req[k].via = "native"
  BY DEF FannedOut
<1>2. k \in 1..MaxRequests /\ r \in 1..MaxRequests /\ req \in [1..MaxRequests -> Request]
  BY Bounds DEF TypeOK
<1>3. req'[k].offer = req[k].offer /\ req'[k].via = "native"
  BY <1>1, <1>2
<1>4. Target(k)' = c /\ Tid(k)' = All
  BY <1>1, <1>3 DEF Target, Tid
<1> QED
  BY <1>1, <1>3, <1>4 DEF FannedOut

\* A step of a query that leaves the clients as they are.
LEMMA ClientsKeep ==
    ASSUME Inv, NEW r \in 1..issued, ~Over(req[r]),
           UNCHANGED <<hub, clients, issued>>, faults' \in 0..MaxFaults,
           NEW w \in Request, req' = [req EXCEPT ![r] = w],
           RequestInv(w), w.pc # "none", w.offer = req[r].offer,
           req[r].via = "native" => w.via = "native",
           Unpinned(w, PinOf(r)), Sessional(w, PinOf(r)),
           \A i \in 1..issued : i < r /\ Target(i) = Target(r) /\ req[i].session
                                  => Follows(w, PinOf(r))
    PROVE  Inv'
<1>1. PinOf(r)' = PinOf(r)
  <2>1. r \in 1..MaxRequests /\ req \in [1..MaxRequests -> Request]
    BY Bounds DEF Inv, TypeOK
  <2>2. req'[r].offer = req[r].offer
    BY <2>1
  <2> QED
    BY <2>2 DEF PinOf, Target, clients
<1>2. /\ req' \in [1..MaxRequests -> Request]
      /\ RequestsInv' /\ TurnInv' /\ PinInv' /\ SessionInv'
  BY <1>1, QueryStep DEF Inv, clients
<1>3. HoldInv'
  <2>1. \A c \in Checkouts : Held(c)' = Held(c) /\ (FannedOut(c) => FannedOut(c)')
    BY FannedOutKeeps DEF Held, clients, Inv
  <2> QED
    BY <2>1 DEF HoldInv, Inv, clients
<1>4. TypeOK'
  BY <1>2 DEF TypeOK, Inv, clients
<1> QED
  BY <1>2, <1>3, <1>4 DEF Inv

\* A query that has not been sent needs no pin.
LEMMA UnsentFacts ==
    ASSUME NEW w, w.pc \in {"classify", "done"}, Unsent(w), NEW p
    PROVE  Unpinned(w, p) /\ Sessional(w, p) /\ Follows(w, p)
BY DEF Unsent, Unpinned, Sessional, Follows

\* Before a client has a pin none of its queries had a session.
LEMMA NoSession ==
    ASSUME Inv, NEW r \in 1..issued, PinOf(r) = Null \/ ~PinOf(r).grpc
    PROVE  \A i \in 1..issued : ~(Target(i) = Target(r) /\ req[i].session)
<1> SUFFICES ASSUME NEW i \in 1..issued, Target(i) = Target(r), req[i].session
             PROVE  FALSE
  OBVIOUS
<1>1. PinOf(i) # Null /\ PinOf(i).grpc
  BY DEF Inv, SessionInv, Sessional
<1>2. PinOf(i) = PinOf(r)
  BY DEF PinOf
<1> QED
  BY <1>1, <1>2
---------------------------------------------------------------------------
(***************************************************************************)
(* Routing.                                                                *)
(***************************************************************************)
\* A query fails before it was sent.
LEMMA FailStep ==
    ASSUME Inv, NEW r \in 1..issued, req[r].pc \in {"classify", "lookup"},
           UNCHANGED <<hub, clients, issued>>, faults' \in 0..MaxFaults,
           req' = [req EXCEPT ![r] = Failed(@)]
    PROVE  Inv'
<1> DEFINE w == Failed(req[r])
<1>1. /\ r \in 1..MaxRequests /\ req[r] \in Request /\ req' = [req EXCEPT ![r] = w]
      /\ RequestInv(req[r])
  <2>1. r \in 1..MaxRequests /\ req[r] \in Request
    BY Issued DEF Inv
  <2> QED
    BY <2>1 DEF Inv, TypeOK, RequestsInv
<1>2. /\ w \in Request /\ RequestInv(w) /\ w.pc = "done" /\ Unsent(w)
      /\ w.offer = req[r].offer
  BY <1>1, FailedFacts
<1> HIDE DEF w
<1>3. ~Over(req[r]) /\ req[r].via # "native"
  BY <1>1 DEF Over, RequestInv, Unsent
<1>4. Unpinned(w, PinOf(r)) /\ Sessional(w, PinOf(r)) /\ Follows(w, PinOf(r))
  BY <1>2, UnsentFacts
<1> QED
  BY <1>1, <1>2, <1>3, <1>4, ClientsKeep

\* A lookup begins and gives a shard.
LEMMA LookupStep ==
    ASSUME Inv, NEW r \in 1..issued, Lookup(r) \/ LookupReturns(r)
    PROVE  Inv'
<1> DEFINE q == req[r]
<1>1. r \in 1..MaxRequests /\ q \in Request /\ RequestInv(q)
  <2>1. r \in 1..MaxRequests /\ q \in Request
    BY Issued DEF Inv
  <2> QED
    BY <2>1 DEF Inv, RequestsInv
<1>2. PICK w : /\ req' = [req EXCEPT ![r] = w] /\ w \in Request
               /\ w.pc \in {"lookup", "host"} /\ (w.pc = "host" => w.host \in Shards)
               /\ w.offer = q.offer /\ w.via = q.via /\ w.session = q.session
               /\ w.patient = q.patient /\ w.task = q.task /\ w.sent = q.sent
               /\ w.ran = q.ran /\ w.unsure = q.unsure /\ w.result = q.result
  <2>1. CASE Lookup(r)
    <3> DEFINE w == [q EXCEPT !.pc = "lookup"]
    <3>1. req' = [req EXCEPT ![r] = w]
      BY <2>1, <1>1 DEF Lookup, Inv, TypeOK
    <3>2. /\ w \in Request /\ w.pc = "lookup"
          /\ w.offer = q.offer /\ w.via = q.via /\ w.session = q.session
          /\ w.patient = q.patient /\ w.task = q.task /\ w.sent = q.sent
          /\ w.ran = q.ran /\ w.unsure = q.unsure /\ w.result = q.result
      BY <1>1 DEF Request
    <3> HIDE DEF w
    <3> QED
      BY <3>1, <3>2
  <2>2. CASE LookupReturns(r)
    <3>1. PICK s \in Shards : req' = [req EXCEPT ![r] = [@ EXCEPT !.pc = "host", !.host = s]]
      BY <2>2 DEF LookupReturns
    <3> DEFINE w == [q EXCEPT !.pc = "host", !.host = s]
    <3>2. req' = [req EXCEPT ![r] = w]
      BY <3>1, <1>1 DEF Inv, TypeOK
    <3>3. /\ w \in Request /\ w.pc = "host" /\ w.host = s
          /\ w.offer = q.offer /\ w.via = q.via /\ w.session = q.session
          /\ w.patient = q.patient /\ w.task = q.task /\ w.sent = q.sent
          /\ w.ran = q.ran /\ w.unsure = q.unsure /\ w.result = q.result
      BY <1>1 DEF Request
    <3> HIDE DEF w
    <3> QED
      BY <3>1, <3>2, <3>3
  <2> QED
    BY <2>1, <2>2
<1>3. /\ q.pc \in {"classify", "lookup"} /\ PinOf(r) = Null /\ Tid(r) \in Tids
      /\ UNCHANGED <<hub, clients, issued, faults>>
  <2>1. CASE Lookup(r)
    BY <2>1 DEF Lookup, Classified
  <2>2. CASE LookupReturns(r)
    BY <2>2 DEF LookupReturns, Inv, PinInv, Unpinned, Tid
  <2> QED
    BY <2>1, <2>2
<1>4. Unsent(q) /\ q.result = "none" /\ q.pc # "done"
  BY <1>1, <1>3 DEF RequestInv
<1> HIDE DEF q
<1>5. RequestInv(w) /\ Unsent(w)
  BY <1>1, <1>2, <1>4 DEF RequestInv, ShardInv, Unsent
<1>6. Unpinned(w, PinOf(r))
  BY <1>2, <1>3, <1>5 DEF Unpinned, Unsent, Tid, q
<1>7. Sessional(w, PinOf(r))
  BY <1>5 DEF Sessional, Unsent
<1>8. ~Over(req[r]) /\ req[r].via # "native"
  BY <1>4 DEF Over, Unsent, q
<1>9. \A i \in 1..issued : ~(Target(i) = Target(r) /\ req[i].session)
  BY <1>3, NoSession
<1>10. faults' \in 0..MaxFaults
  BY <1>3 DEF Inv, TypeOK
<1> QED
  BY <1>2, <1>3, <1>5, <1>6, <1>7, <1>8, <1>9, <1>10, ClientsKeep DEF q

\* What is known of a query that is being routed.
LEMMA RoutedFacts ==
    ASSUME Inv, NEW r \in 1..issued, req[r].pc \in {"classify", "host"}
    PROVE  /\ r \in 1..MaxRequests /\ req[r] \in Request /\ RequestInv(req[r])
           /\ Unsent(req[r]) /\ ~Over(req[r]) /\ req[r].via # "native"
           /\ req[r].result = "none"
           /\ hub \in {"connecting", "ready", "closing", "null"}
           /\ faults \in 0..MaxFaults
<1>1. r \in 1..MaxRequests /\ req[r] \in Request
  BY Issued DEF Inv
<1>2. RequestInv(req[r])
  BY <1>1 DEF Inv, RequestsInv
<1>3. Unsent(req[r]) /\ req[r].result = "none" /\ req[r].pc # "done"
  BY <1>2 DEF RequestInv
<1> QED
  BY <1>1, <1>2, <1>3 DEF Over, Unsent, Inv, TypeOK

\* A query without a tid of its own is sent to all shards, without a session.
LEMMA SendAllStep ==
    ASSUME Inv, NEW r \in 1..issued, Broadcast(r) \/ FanOut(r)
    PROVE  Inv'
<1> DEFINE q == req[r]
           v == Started(q, Shards, FALSE, Role(r))
<1>1. /\ q.pc = "classify" /\ ~Rejected(r) /\ PinOf(r) = Null /\ Tid(r) \notin Tids
      /\ UNCHANGED <<hub, clients, issued, faults>>
  <2>1. CASE Broadcast(r)
    <3>1. Tid(r) = All /\ Kind(r) = "call" /\ ~Rejected(r)
      BY <2>1 DEF Broadcast
    <3>2. PinOf(r) = Null
      BY <3>1 DEF Rejected
    <3> QED
      BY <2>1, <3>1, <3>2, NullApart DEF Broadcast, Classified
  <2>2. CASE FanOut(r)
    BY <2>2 DEF FanOut, Classified
  <2> QED
    BY <2>1, <2>2
<1>2. /\ r \in 1..MaxRequests /\ q \in Request /\ RequestInv(q)
      /\ Unsent(q) /\ ~Over(q) /\ q.via # "native" /\ q.result = "none"
      /\ hub \in {"connecting", "ready", "closing", "null"}
      /\ faults' \in 0..MaxFaults
  BY <1>1, RoutedFacts
<1>3. Role(r) \in {"write", "read"}
  BY DEF Role
<1>4. /\ v \in Request
      /\ v.pc = "run" /\ v.offer = q.offer /\ v.result = q.result /\ ~v.session
      /\ v.via = IF HubReady THEN "grpc" ELSE "native"
      /\ v.ran = q.ran /\ v.unsure = q.unsure
      /\ \A s \in Shards :
           /\ v.task[s] = IF HubReady THEN "call"
                          ELSE IF q.offer.target \in Pools THEN "native" ELSE "connect"
           /\ v.sent[s] = IF HubReady THEN 1 ELSE 0
  <2> DEFINE session == FALSE
             role == Role(r)
  <2>1. /\ q \in Request /\ Shards \in SUBSET Shards /\ session \in BOOLEAN
        /\ role \in {"write", "read"}
    BY <1>2, <1>3
  <2>2. v = Started(q, Shards, session, role)
    OBVIOUS
  <2> HIDE DEF q, v, session, role
  <2>3. StartedAs(v, q, Shards, session, role)
    BY <2>1, <2>2, StartedFacts
  <2> QED
    BY <2>3 DEF session, StartedAs
<1>5. PICK w \in Request :
        /\ req' = [req EXCEPT ![r] = w]
        /\ w.pc = v.pc /\ w.offer = v.offer /\ w.result = v.result /\ w.session = v.session
        /\ w.via = v.via /\ w.ran = v.ran /\ w.unsure = v.unsure
        /\ w.task = v.task /\ w.sent = v.sent
  <2>1. CASE Broadcast(r)
    <3>1. req' = [req EXCEPT ![r] = v]
      BY <1>2, <2>1 DEF Broadcast, Inv, TypeOK
    <3> HIDE DEF v
    <3> QED
      BY <1>4, <3>1
  <2>2. CASE FanOut(r)
    <3>1. PICK policy \in Policies :
             req' = [req EXCEPT ![r] = [Started(@, Shards, FALSE, Role(r))
                                          EXCEPT !.patient = (policy = "best_effort")]]
      BY <2>2 DEF FanOut
    <3> DEFINE w == [v EXCEPT !.patient = (policy = "best_effort")]
    <3>2. req' = [req EXCEPT ![r] = w]
      BY <1>2, <3>1 DEF Inv, TypeOK
    <3> HIDE DEF v
    <3>3. /\ w \in Request
          /\ w.pc = v.pc /\ w.offer = v.offer /\ w.result = v.result /\ w.session = v.session
          /\ w.via = v.via /\ w.ran = v.ran /\ w.unsure = v.unsure
          /\ w.task = v.task /\ w.sent = v.sent
      BY <1>4 DEF Request
    <3> HIDE DEF w
    <3> QED
      BY <3>2, <3>3
  <2> QED
    BY <2>1, <2>2
<1> HIDE DEF v
<1>6. RequestInv(w)
  <2>1. \A s \in Shards :
          \/ w.task[s] = "call" /\ w.sent[s] = 1 /\ w.via = "grpc"
          \/ w.task[s] \in {"connect", "native"} /\ w.sent[s] = 0 /\ w.via = "native"
    BY <1>4, <1>5
  <2>2. /\ q \in Request /\ RequestInv(q) /\ q.pc \in {"classify", "host"}
        /\ w.pc = "run" /\ w.result = q.result /\ w.ran = q.ran /\ w.unsure = q.unsure
    BY <1>1, <1>2, <1>4, <1>5
  <2> HIDE DEF q
  <2> QED
    BY <2>1, <2>2, SentKeeps
<1>7. Unpinned(w, PinOf(r))
  <2>1. Target(r) \notin Pools => Target(r) \in Checkouts /\ Tid(r) = All
    <3>1. Target(r) \in Pools \cup Checkouts /\ Tid(r) \in Tids \cup {Undef, All}
      BY Issued DEF Inv
    <3>2. Target(r) \in Checkouts => Tid(r) # Undef
      BY <1>1 DEF Rejected
    <3> QED
      BY <1>1, <3>1, <3>2
  <2>2. \A s \in Shards : w.task[s] = "connect" => Target(r) \notin Pools
    BY <1>4, <1>5 DEF Target
  <2> QED
    BY <1>1, <1>4, <1>5, <2>1, <2>2 DEF Unpinned, Target, Tid
<1>8. Sessional(w, PinOf(r))
  BY <1>4, <1>5 DEF Sessional
<1>9. \A i \in 1..issued : ~(Target(i) = Target(r) /\ req[i].session)
  BY <1>1, NoSession
<1>10. w.pc # "none" /\ w.offer = req[r].offer
  BY <1>4, <1>5
<1> QED
  BY <1>1, <1>2, <1>5, <1>6, <1>7, <1>8, <1>9, <1>10, ClientsKeep

\* A query of a pinned client goes to the shard of the pin, in its session if it has one.
LEMMA PinnedStep ==
    ASSUME Inv, NEW r \in 1..issued, RunPinned(r)
    PROVE  Inv'
<1> DEFINE q == req[r]
           p == PinOf(r)
           session == IF HubReady THEN p.grpc ELSE FALSE
           v == Started(q, {p.host}, session, "write")
<1>1. /\ q.pc = "classify" /\ PinOf(r) # Null
      /\ UNCHANGED <<hub, clients, issued, faults>>
  BY DEF RunPinned, Classified
<1>2. /\ r \in 1..MaxRequests /\ q \in Request /\ RequestInv(q)
      /\ Unsent(q) /\ ~Over(q) /\ q.via # "native" /\ q.result = "none"
      /\ hub \in {"connecting", "ready", "closing", "null"}
      /\ faults' \in 0..MaxFaults /\ req \in [1..MaxRequests -> Request]
  BY <1>1, RoutedFacts DEF Inv, TypeOK
<1>3. p \in Pins /\ Target(r) \in Checkouts
  BY <1>1, Issued DEF Inv, PinOf
<1>4. CASE ~HubReady /\ p.grpc
  <2>1. req' = [req EXCEPT ![r] = Failed(@)]
    BY <1>4 DEF RunPinned
  <2> QED
    BY <1>1, <1>2, <2>1, FailStep
<1>5. CASE HubReady \/ ~p.grpc
  <2>1. session \in BOOLEAN /\ {p.host} \in SUBSET Shards
    BY <1>3 DEF Pins
  <2>2. /\ v \in Request
        /\ v.pc = "run" /\ v.offer = q.offer /\ v.result = q.result
        /\ v.session = session /\ v.role = "write"
        /\ v.via = IF HubReady THEN "grpc" ELSE "native"
        /\ v.ran = q.ran /\ v.unsure = q.unsure
        /\ \A s \in Shards :
             /\ v.task[s] = IF s \notin {p.host} THEN "none" ELSE IF HubReady THEN "call"
                            ELSE IF q.offer.target \in Pools THEN "native" ELSE "connect"
             /\ v.sent[s] = IF s \in {p.host} /\ HubReady THEN 1 ELSE 0
    <3>1. q \in Request /\ "write" \in {"write", "read"}
      BY <1>2
    <3>2. v = Started(q, {p.host}, session, "write")
      OBVIOUS
    <3> DEFINE S == {p.host}
               role == "write"
    <3> HIDE DEF q, p, session, v, S, role
    <3>3. /\ S \in SUBSET Shards /\ role \in {"write", "read"}
          /\ v = Started(q, S, session, role)
      BY <2>1, <3>1, <3>2 DEF S, role
    <3>4. StartedAs(v, q, S, session, role)
      BY <2>1, <3>1, <3>3, StartedFacts
    <3> QED
      BY <3>4 DEF S, role, StartedAs
  <2>3. PICK w \in Request :
          /\ req' = [req EXCEPT ![r] = w]
          /\ w.pc = v.pc /\ w.offer = v.offer /\ w.result = v.result
          /\ w.session = v.session /\ w.role = v.role
          /\ w.via = v.via /\ w.ran = v.ran /\ w.unsure = v.unsure
          /\ w.sent = v.sent
          /\ \A s \in Shards : w.task[s] = IF s # p.host THEN "none"
                                           ELSE IF HubReady THEN "call" ELSE "native"
    <3>1. CASE HubReady
      <4>1. req' = [req EXCEPT ![r] = v]
        BY <1>2, <3>1 DEF RunPinned
      <4> HIDE DEF v
      <4> QED
        BY <2>2, <3>1, <4>1
    <3>2. CASE ~HubReady /\ ~p.grpc
      <4> DEFINE w == [v EXCEPT !.task[p.host] = "native"]
      <4>1. req' = [req EXCEPT ![r] = [Started(@, {p.host}, FALSE, "write")
                                         EXCEPT !.task[p.host] = "native"]]
        BY <3>2 DEF RunPinned
      <4>2. req' = [req EXCEPT ![r] = w]
        BY <1>2, <3>2, <4>1
      <4> HIDE DEF v
      <4>3. p.host \in Shards
        BY <1>3 DEF Pins
      <4>4. /\ w \in Request
            /\ w.pc = v.pc /\ w.offer = v.offer /\ w.result = v.result
            /\ w.session = v.session /\ w.role = v.role
            /\ w.via = v.via /\ w.ran = v.ran /\ w.unsure = v.unsure
            /\ w.sent = v.sent
            /\ \A s \in Shards : w.task[s] = IF s = p.host THEN "native" ELSE v.task[s]
        BY <2>2, <4>3 DEF Request, TaskState
      <4>5. \A s \in Shards : w.task[s] = IF s # p.host THEN "none" ELSE "native"
        BY <2>2, <4>4
      <4> HIDE DEF w
      <4> QED
        BY <3>2, <4>2, <4>4, <4>5
    <3> QED
      BY <1>5, <3>1, <3>2
  <2> HIDE DEF v
  <2>4. RequestInv(w)
    <3>1. \A s \in Shards :
            \/ w.task[s] = "none" /\ w.sent[s] = 0
            \/ w.task[s] = "call" /\ w.sent[s] = 1 /\ w.via = "grpc"
            \/ w.task[s] \in {"connect", "native"} /\ w.sent[s] = 0 /\ w.via = "native"
      BY <2>2, <2>3
    <3>2. /\ q \in Request /\ RequestInv(q) /\ q.pc \in {"classify", "host"}
          /\ w.pc = "run" /\ w.result = q.result /\ w.ran = q.ran /\ w.unsure = q.unsure
      BY <1>1, <1>2, <2>2, <2>3
    <3> HIDE DEF q
    <3> QED
      BY <3>1, <3>2, SentKeeps
  <2>5. Unpinned(w, PinOf(r))
    BY <2>2, <2>3 DEF Unpinned
  <2>6. w.session => InSession(w, PinOf(r)) /\ w.role = "write" /\ p.grpc
    BY <2>2, <2>3 DEF InSession
  <2>7. Sessional(w, PinOf(r))
    BY <1>1, <1>3, <2>2, <2>3, <2>6 DEF Sessional, Target
  <2>8. \A i \in 1..issued : i < r /\ Target(i) = Target(r) /\ req[i].session
                               => Follows(w, PinOf(r))
    <3>1. CASE p.grpc
      <4>1. w.session
        BY <1>5, <2>2, <2>3, <3>1
      <4> QED
        BY <2>6, <4>1 DEF Follows
    <3>2. CASE ~p.grpc
      BY <3>2, NoSession
    <3> QED
      BY <3>1, <3>2
  <2>9. w.pc # "none" /\ w.offer = req[r].offer
    BY <2>2, <2>3
  <2> QED
    BY <1>1, <1>2, <2>3, <2>4, <2>5, <2>7, <2>8, <2>9, ClientsKeep
<1> QED
  BY <1>4, <1>5

\* A client that gets a pin p finds its query pinned by it.
LEMMA PinnedNow ==
    ASSUME TypeOK, TurnInv, NEW r \in 1..issued, Target(r) \in Checkouts, NEW p,
           pin' = [pin EXCEPT ![Target(r)] = p],
           NEW w, req' = [req EXCEPT ![r] = w], w.offer = req[r].offer
    PROVE  PinOf(r)' = p /\ \A c \in Checkouts : c # Target(r) => pin'[c] = pin[c]
<1>1. r \in 1..MaxRequests /\ req \in [1..MaxRequests -> Request]
  BY Issued DEF TypeOK
<1>2. req'[r].offer = req[r].offer
  BY <1>1
<1>3. Target(r)' = Target(r)
  BY <1>2 DEF Target
<1>4. pin \in [Checkouts -> Pins \cup {Null}]
  BY DEF TypeOK, Pins
<1>5. pin'[Target(r)] = p /\ \A c \in Checkouts : c # Target(r) => pin'[c] = pin[c]
  BY <1>4
<1> QED
  BY <1>3, <1>5 DEF PinOf

\* A query whose shard was looked up is sent to it; a client gets its session there.
LEMMA ExecuteStep ==
    ASSUME Inv, NEW r \in 1..issued, Execute(r)
    PROVE  Inv'
<1> DEFINE q == req[r]
           h == q.host
           session == HubReady /\ Target(r) \in Checkouts
           v == Started(q, {h}, session, Role(r))
           w == [v EXCEPT !.host = Null]
<1>1. /\ q.pc = "host" /\ pin' = PinAfter(r, h)
      /\ UNCHANGED <<hub, native, released, issued, faults>>
      /\ req' = [req EXCEPT ![r] = [Started(@, {h}, session, Role(r)) EXCEPT !.host = Null]]
  BY DEF Execute
<1>2. /\ r \in 1..MaxRequests /\ q \in Request /\ RequestInv(q)
      /\ Unsent(q) /\ ~Over(q) /\ q.via # "native" /\ q.result = "none"
      /\ hub \in {"connecting", "ready", "closing", "null"}
      /\ req \in [1..MaxRequests -> Request]
  BY <1>1, RoutedFacts DEF Inv, TypeOK
<1>3. PinOf(r) = Null /\ h \in Shards /\ Tid(r) \in Tids
  BY <1>1 DEF Inv, PinInv, Unpinned, Tid
<1>4. req' = [req EXCEPT ![r] = w]
  BY <1>1, <1>2
<1>5. /\ v \in Request
      /\ v.pc = "run" /\ v.offer = q.offer /\ v.result = q.result
      /\ v.session = session /\ v.role = Role(r)
      /\ v.via = IF HubReady THEN "grpc" ELSE "native"
      /\ v.ran = q.ran /\ v.unsure = q.unsure
      /\ \A s \in Shards :
           /\ v.task[s] = IF s \notin {h} THEN "none" ELSE IF HubReady THEN "call"
                          ELSE IF q.offer.target \in Pools THEN "native" ELSE "connect"
           /\ v.sent[s] = IF s \in {h} /\ HubReady THEN 1 ELSE 0
  <2> DEFINE S == {h}
             role == Role(r)
  <2>1. q \in Request /\ S \in SUBSET Shards /\ session \in BOOLEAN
    BY <1>2, <1>3
  <2>2. role \in {"write", "read"}
    BY DEF Role
  <2>3. v = Started(q, S, session, role)
    OBVIOUS
  <2> HIDE DEF q, session, v, S, role
  <2>4. StartedAs(v, q, S, session, role)
    BY <2>1, <2>2, <2>3, StartedFacts
  <2> QED
    BY <2>4 DEF S, role, StartedAs
<1> HIDE DEF v
<1>6. /\ w \in Request
      /\ w.pc = v.pc /\ w.offer = v.offer /\ w.result = v.result
      /\ w.session = v.session /\ w.role = v.role /\ w.via = v.via
      /\ w.ran = v.ran /\ w.unsure = v.unsure /\ w.task = v.task /\ w.sent = v.sent
  BY <1>5 DEF Request
<1> HIDE DEF w
<1>7. RequestInv(w)
  <2>1. \A s \in Shards :
          \/ w.task[s] = "none" /\ w.sent[s] = 0
          \/ w.task[s] = "call" /\ w.sent[s] = 1 /\ w.via = "grpc"
          \/ w.task[s] \in {"connect", "native"} /\ w.sent[s] = 0 /\ w.via = "native"
    BY <1>5, <1>6
  <2>2. /\ q \in Request /\ RequestInv(q) /\ q.pc \in {"classify", "host"}
        /\ w.pc = "run" /\ w.result = q.result /\ w.ran = q.ran /\ w.unsure = q.unsure
    BY <1>1, <1>2, <1>5, <1>6
  <2> HIDE DEF q
  <2> QED
    BY <1>6, <2>1, <2>2, SentKeeps
<1>8. w.pc = "run" /\ w.offer = req[r].offer
  BY <1>5, <1>6
<1>9. \A i \in 1..issued : ~(Target(i) = Target(r) /\ req[i].session)
  BY <1>3, NoSession
<1>10. \A c \in Checkouts : FannedOut(c) => FannedOut(c)'
  BY <1>1, <1>2, <1>4, <1>8, FannedOutKeeps DEF Inv
<1>11. CASE session
  <2> DEFINE p == [host |-> h, grpc |-> TRUE]
  <2>1. p \in Pins /\ p.grpc /\ p.host = h /\ p # Null
    <3>1. p \in Pins
      BY <1>3 DEF Pins
    <3> QED
      BY <3>1, NullNoPin DEF Pins
  <2>2. pin' = [pin EXCEPT ![Target(r)] = p]
    BY <1>1, <1>3, <1>11 DEF PinAfter
  <2> HIDE DEF p
  <2>3. PinOf(r)' = p /\ \A c \in Checkouts : c # Target(r) => pin'[c] = pin[c]
    BY <1>4, <1>8, <1>11, <2>2, PinnedNow DEF Inv
  <2>4. Unpinned(w, p)
    BY <1>5, <1>6, <1>8, <1>11 DEF Unpinned
  <2>5. Sessional(w, p)
    <3>1. InSession(w, p)
      <4>1. HubReady /\ w.session = session
        BY <1>5, <1>6, <1>11
      <4>2. w.via = "grpc"
        BY <1>5, <1>6, <4>1
      <4>3. \A s \in Shards : w.task[s] = IF s \notin {h} THEN "none" ELSE "call"
        BY <1>5, <1>6, <4>1
      <4>4. p.host = h
        BY <2>1
      <4> QED
        BY <1>11, <4>1, <4>2, <4>3, <4>4 DEF InSession
    <3>2. w.offer.kind # "select" => w.role = "write"
      BY <1>5, <1>6 DEF Role, Kind
    <3> QED
      BY <1>8, <1>11, <2>1, <3>1, <3>2 DEF Sessional, Target
  <2>6. Target(r) \in Checkouts /\ \E x \in Pins : pin' = [pin EXCEPT ![Target(r)] = x]
    BY <1>11, <2>1, <2>2
  <2>7. /\ req' \in [1..MaxRequests -> Request]
        /\ pin' \in [Checkouts -> Pins \cup {Null}]
        /\ RequestsInv' /\ TurnInv' /\ PinInv' /\ SessionInv'
    BY <1>1, <1>2, <1>3, <1>4, <1>6, <1>7, <1>8, <1>9, <2>3, <2>4, <2>5, <2>6, QueryStep DEF Inv
  <2>8. \A c \in Checkouts : Held(c)' = Held(c)
    <3> TAKE c \in Checkouts
    <3>1. CASE c = Target(r)
      <4>1. pin[c] = Null /\ pin'[c] = p
        BY <1>3, <2>2, <3>1, <1>11 DEF PinOf, Inv, TypeOK
      <4> QED
        BY <2>1, <4>1 DEF Held
    <3>2. CASE c # Target(r)
      BY <1>1, <2>3, <3>2 DEF Held
    <3> QED
      BY <3>1, <3>2
  <2>9. HoldInv'
    BY <1>1, <1>10, <2>8 DEF HoldInv, Inv
  <2>10. TypeOK'
    BY <1>1, <2>7 DEF TypeOK, Inv, Pins
  <2> QED
    BY <2>7, <2>9, <2>10 DEF Inv
<1>12. CASE ~session
  <2>1. pin' = pin /\ UNCHANGED <<hub, clients, issued>> /\ faults' \in 0..MaxFaults
    BY <1>1, <1>12 DEF PinAfter, clients, Inv, TypeOK
  <2>2. Unpinned(w, PinOf(r))
    <3>1. Target(r) \in Pools \cup Checkouts
      BY Issued DEF Inv
    <3> QED
      BY <1>3, <1>5, <1>6, <1>8, <1>12, <3>1 DEF Unpinned, Target, Tid
  <2>3. Sessional(w, PinOf(r))
    BY <1>5, <1>6, <1>12 DEF Sessional
  <2> QED
    BY <1>2, <1>4, <1>6, <1>7, <1>8, <1>9, <2>1, <2>2, <2>3, ClientsKeep
<1> QED
  BY <1>11, <1>12
---------------------------------------------------------------------------
(***************************************************************************)
(* The statements on the shards.                                           *)
(***************************************************************************)
\* A step of a statement leaves its query in the session it is in.
LEMMA WorkedFacts ==
    ASSUME NEW q \in Request, RequestInv(q), NEW s \in Shards, NEW w, Worked(q, w, s),
           NEW u, u = w \/ u = Settled(w)
    PROVE  /\ u \in Request /\ RequestInv(u) /\ ~Over(q)
           /\ u.pc \in {"run", "done"} /\ u.offer = q.offer /\ u.via = q.via
           /\ u.task = w.task
           /\ \A p : /\ Sessional(q, p) => Sessional(u, p)
                     /\ Follows(q, p) => Follows(u, p)
                     /\ Unpinned(q, p) /\ w.task[s] # "connect" => Unpinned(u, p)
<1>1. /\ w \in Request
      /\ w.pc = q.pc /\ w.offer = q.offer /\ w.via = q.via
      /\ w.session = q.session /\ w.role = q.role
      /\ q.task[s] \in AtWork /\ w.task[s] # "none"
      /\ \A t \in Shards \ {s} : w.task[t] = q.task[t]
  BY DEF Worked
<1>2. RequestInv(w)
  BY WorkedKeeps
<1>3. q.pc \in {"run", "done"}
  BY <1>1, WorkingFacts
<1>4. /\ u \in Request /\ RequestInv(u)
      /\ u.offer = w.offer /\ u.via = w.via /\ u.session = w.session /\ u.role = w.role
      /\ u.task = w.task /\ u.pc \in {w.pc, "done"}
  <2>1. CASE u = w
    BY <1>1, <1>2, <2>1
  <2>2. CASE u = Settled(w)
    <3> DEFINE z == Settled(w)
    <3>1. /\ z \in Request
          /\ z.offer = w.offer /\ z.via = w.via /\ z.session = w.session
          /\ z.role = w.role /\ z.task = w.task /\ z.pc \in {w.pc, "done"}
      BY <1>1, SettledFields
    <3>2. RequestInv(z)
      BY <1>1, <1>2, SettledKeeps
    <3> HIDE DEF z
    <3>3. u = z
      BY <2>2 DEF z
    <3> QED
      BY <3>1, <3>2, <3>3
  <2> QED
    BY <2>1, <2>2
<1>5. q.task[s] # "none" /\ ~Over(q)
  BY <1>1 DEF AtWork, Over
<1>6. \A t \in Shards : u.task[t] # "none" <=> q.task[t] # "none"
  BY <1>1, <1>4, <1>5
<1>7. ASSUME NEW p PROVE InSession(q, p) => InSession(u, p)
  BY <1>1, <1>4, <1>6 DEF InSession
<1>8. ASSUME NEW p, Sessional(q, p) PROVE Sessional(u, p)
  BY <1>1, <1>4, <1>7, <1>8 DEF Sessional
<1>9. ASSUME NEW p, Follows(q, p) PROVE Follows(u, p)
  <2>1. InSession(q, p) /\ q.role = "write"
    BY <1>5, <1>9 DEF Follows, Unsent
  <2> QED
    BY <1>1, <1>4, <1>7, <2>1 DEF Follows
<1>10. ASSUME NEW p, Unpinned(q, p), w.task[s] # "connect" PROVE Unpinned(u, p)
  <2>1. \A t \in Shards : u.task[t] = "connect" => q.task[t] = "connect" /\ t # s
    BY <1>1, <1>4, <1>10
  <2>2. u.pc \notin {"lookup", "host"}
    BY <1>1, <1>3, <1>4
  <2> QED
    BY <1>1, <1>4, <1>6, <1>10, <2>1, <2>2 DEF Unpinned
<1> QED
  BY <1>1, <1>3, <1>4, <1>5, <1>8, <1>9, <1>10

\* A statement's step that leaves the clients as they are.
LEMMA WorkStep ==
    ASSUME Inv, NEW r \in 1..issued, NEW s \in Shards,
           NEW w, Worked(req[r], w, s), w.task[s] # "connect",
           NEW u, u = w \/ u = Settled(w), req' = [req EXCEPT ![r] = u],
           UNCHANGED <<hub, clients, issued>>, faults' \in 0..MaxFaults
    PROVE  Inv'
<1> DEFINE q == req[r]
           p == PinOf(r)
<1>1. /\ r \in 1..MaxRequests /\ q \in Request /\ RequestInv(q)
  <2>1. r \in 1..MaxRequests /\ q \in Request
    BY Issued DEF Inv
  <2> QED
    BY <2>1 DEF Inv, RequestsInv
<1>2. Unpinned(q, p) /\ Sessional(q, p)
  BY DEF Inv, PinInv, SessionInv
<1>3. \A i \in 1..issued : i < r /\ Target(i) = Target(r) /\ req[i].session
                             => Follows(q, p)
  BY DEF Inv, SessionInv
<1>4. Worked(q, w, s)
  OBVIOUS
<1> HIDE DEF q, p
<1>5. /\ u \in Request /\ RequestInv(u) /\ ~Over(q)
      /\ u.pc \in {"run", "done"} /\ u.offer = q.offer /\ u.via = q.via
      /\ Sessional(u, p) /\ Unpinned(u, p)
      /\ Follows(q, p) => Follows(u, p)
  BY <1>1, <1>2, <1>4, WorkedFacts
<1> QED
  BY <1>1, <1>3, <1>5, ClientsKeep DEF q, p

\* What a query at work on a shard is like.
LEMMA AtWorkFacts ==
    ASSUME Inv, NEW r \in 1..issued, NEW s \in Shards, req[r].task[s] \in AtWork
    PROVE  /\ r \in 1..MaxRequests /\ req \in [1..MaxRequests -> Request]
           /\ req[r] \in Request /\ RequestInv(req[r]) /\ ShardInv(req[r], s)
           /\ req[r].sent[s] \in 0..MaxRetries + 1
           /\ req[r].ran[s] = req[r].unsure[s] /\ req[r].unsure[s] \in Nat
<1>1. r \in 1..MaxRequests /\ req[r] \in Request
  BY Issued DEF Inv
<1>2. RequestInv(req[r]) /\ req \in [1..MaxRequests -> Request]
  BY <1>1 DEF Inv, RequestsInv, TypeOK
<1>3. ShardInv(req[r], s)
  BY <1>2 DEF RequestInv
<1>4. req[r].ran[s] = req[r].unsure[s]
  BY <1>3 DEF ShardInv, AtWork
<1>5. req[r].sent[s] \in 0..MaxRetries + 1 /\ req[r].unsure[s] \in Nat
  BY <1>1 DEF Request
<1> QED
  BY <1>1, <1>2, <1>3, <1>4, <1>5

\* A step that changes the state of a statement only.
LEMMA TaskSet ==
    ASSUME NEW q \in Request, NEW s \in Shards, q.task[s] \in AtWork, ShardInv(q, s),
           NEW x, x \in {"failed", "backoff", "native"},
           x = "backoff" => q.via = "grpc" /\ q.sent[s] <= MaxRetries,
           x = "native" => q.via = "native",
           NEW w, w = [q EXCEPT !.task[s] = x]
    PROVE  Worked(q, w, s) /\ w.task[s] = x
<1>1. /\ q.task \in [Shards -> TaskState] /\ q.sent[s] \in 0..MaxRetries + 1
      /\ q.ran[s] = q.unsure[s] /\ (q.via = "grpc" => q.sent[s] > 0)
  BY DEF Request, ShardInv, AtWork
<1>2. /\ w \in Request
      /\ w.pc = q.pc /\ w.offer = q.offer /\ w.host = q.host /\ w.via = q.via
      /\ w.session = q.session /\ w.role = q.role /\ w.patient = q.patient
      /\ w.result = q.result /\ w.task = [q.task EXCEPT ![s] = x]
      /\ w.sent = q.sent /\ w.ran = q.ran /\ w.unsure = q.unsure
  BY DEF Request, TaskState
<1>3. w.task[s] = x /\ \A t \in Shards \ {s} : w.task[t] = q.task[t]
  BY <1>1, <1>2
<1>4. ShardInv(w, s)
  BY <1>1, <1>2, <1>3 DEF ShardInv
<1> QED
  BY <1>2, <1>3, <1>4 DEF Worked

\* A statement ends on a shard, executed or not, answered or not.
LEMMA EndedSet ==
    ASSUME NEW q \in Request, NEW s \in Shards, q.task[s] \in AtWork, ShardInv(q, s),
           NEW x, x \in {"ok", "failed", "backoff"}, NEW executed \in BOOLEAN,
           x = "ok" => executed,
           x = "backoff" => q.via = "grpc" /\ q.sent[s] <= MaxRetries
    PROVE  \E w : /\ TaskEnds(q, s, x, executed) = Settled(w)
                  /\ Worked(q, w, s) /\ w.task[s] # "connect"
<1> DEFINE m == IF executed THEN q.ran[s] + 1 ELSE q.ran[s]
           k == IF executed /\ x # "ok" THEN q.unsure[s] + 1 ELSE q.unsure[s]
           task == [q.task EXCEPT ![s] = x]
           ran == [q.ran EXCEPT ![s] = m]
           unsure == [q.unsure EXCEPT ![s] = k]
           w == [q EXCEPT !.task = task, !.ran = ran, !.unsure = unsure]
<1>1. /\ q.task \in [Shards -> TaskState] /\ q.sent[s] \in 0..MaxRetries + 1
      /\ q.ran \in [Shards -> Nat] /\ q.unsure \in [Shards -> Nat]
      /\ q.ran[s] \in Nat /\ q.unsure[s] \in Nat
      /\ q.ran[s] = q.unsure[s] /\ (q.via = "grpc" => q.sent[s] > 0)
  BY DEF Request, ShardInv, AtWork
<1>2. TaskEnds(q, s, x, executed) = Settled(w)
  BY DEF TaskEnds
<1>3. k \in Nat /\ m \in Nat /\ m = IF x = "ok" THEN k + 1 ELSE k
  BY <1>1
<1> HIDE DEF m, k
<1>4. /\ task \in [Shards -> TaskState] /\ ran \in [Shards -> Nat]
      /\ unsure \in [Shards -> Nat]
      /\ task[s] = x /\ ran[s] = m /\ unsure[s] = k
      /\ \A t \in Shards \ {s} : /\ task[t] = q.task[t] /\ ran[t] = q.ran[t]
                                 /\ unsure[t] = q.unsure[t]
  BY <1>1, <1>3 DEF TaskState
<1> HIDE DEF task, ran, unsure
<1>5. /\ w \in Request
      /\ w.pc = q.pc /\ w.offer = q.offer /\ w.host = q.host /\ w.via = q.via
      /\ w.session = q.session /\ w.role = q.role /\ w.patient = q.patient
      /\ w.result = q.result /\ w.task = task
      /\ w.sent = q.sent /\ w.ran = ran /\ w.unsure = unsure
  BY <1>4 DEF Request
<1> HIDE DEF w
<1>6. ShardInv(w, s)
  BY <1>1, <1>3, <1>4, <1>5 DEF ShardInv
<1>7. Worked(q, w, s) /\ w.task[s] # "connect"
  BY <1>4, <1>5, <1>6 DEF Worked
<1> QED
  BY <1>2, <1>7

\* A call ends.
LEMMA CallEndsStep ==
    ASSUME Inv, NEW r \in 1..issued, NEW s \in Shards, CallEnds(r, s)
    PROVE  Inv'
<1> DEFINE q == req[r]
<1>1. q.task[s] = "call" /\ UNCHANGED <<hub, clients, issued>>
  BY DEF CallEnds
<1>2. /\ q \in Request /\ ShardInv(q, s)
      /\ q.via = "grpc" /\ q.task[s] \in AtWork
  <2>1. q.task[s] \in AtWork
    BY <1>1 DEF AtWork
  <2>2. q \in Request /\ ShardInv(q, s)
    BY <2>1, AtWorkFacts
  <2> QED
    BY <1>1, <2>1, <2>2 DEF ShardInv
<1>3. faults' \in 0..MaxFaults
  BY Bounds DEF CallEnds, Fault, Inv, TypeOK
<1>4. PICK executed \in BOOLEAN, x \in {"ok", "failed", "backoff"} :
         /\ x = "ok" => executed
         /\ x = "backoff" => q.sent[s] <= MaxRetries
         /\ req' = [req EXCEPT ![r] = TaskEnds(q, s, x, executed)]
  BY DEF CallEnds, MayRetry
<1>5. PICK w : /\ TaskEnds(q, s, x, executed) = Settled(w)
               /\ Worked(q, w, s) /\ w.task[s] # "connect"
  <2> HIDE DEF q
  <2> QED
    BY <1>2, <1>4, EndedSet
<1>6. req' = [req EXCEPT ![r] = Settled(w)] /\ Worked(req[r], w, s)
  BY <1>4, <1>5
<1> HIDE DEF q
<1> QED
  BY <1>1, <1>3, <1>5, <1>6, WorkStep

\* A call is made again.
LEMMA CallAgainStep ==
    ASSUME Inv, NEW r \in 1..issued, NEW s \in Shards, CallAgain(r, s)
    PROVE  Inv'
<1> DEFINE q == req[r]
           task == [q.task EXCEPT ![s] = "call"]
           sent == [q.sent EXCEPT ![s] = q.sent[s] + 1]
           w == [q EXCEPT !.task = task, !.sent = sent]
<1>1. q.task[s] = "backoff" /\ UNCHANGED <<hub, clients, issued, faults>>
  BY DEF CallAgain
<1>2. q \in Request /\ ShardInv(q, s) /\ q.task[s] \in AtWork
  <2>1. q.task[s] \in AtWork
    BY <1>1 DEF AtWork
  <2> QED
    BY <2>1, AtWorkFacts
<1>3. q.via = "grpc" /\ q.sent[s] <= MaxRetries /\ q.ran[s] = q.unsure[s]
  BY <1>1, <1>2 DEF ShardInv
<1>4. req' = [req EXCEPT ![r] = w]
  BY DEF CallAgain
<1>5. /\ q.task \in [Shards -> TaskState]
      /\ q.sent \in [Shards -> 0..MaxRetries + 1] /\ q.sent[s] \in 0..MaxRetries + 1
  BY <1>2 DEF Request
<1> HIDE DEF q
<1>6. /\ task \in [Shards -> TaskState] /\ sent \in [Shards -> 0..MaxRetries + 1]
      /\ task[s] = "call" /\ sent[s] = q.sent[s] + 1 /\ sent[s] > 0
      /\ \A t \in Shards \ {s} : task[t] = q.task[t] /\ sent[t] = q.sent[t]
  BY <1>3, <1>5, Bounds DEF TaskState
<1> HIDE DEF task, sent
<1>7. /\ w \in Request
      /\ w.pc = q.pc /\ w.offer = q.offer /\ w.host = q.host /\ w.via = q.via
      /\ w.session = q.session /\ w.role = q.role /\ w.patient = q.patient
      /\ w.result = q.result /\ w.task = task /\ w.sent = sent
      /\ w.ran = q.ran /\ w.unsure = q.unsure
  BY <1>2, <1>6 DEF Request
<1> HIDE DEF w
<1>8. ShardInv(w, s)
  BY <1>3, <1>6, <1>7 DEF ShardInv
<1>9. Worked(q, w, s) /\ w.task[s] # "connect"
  BY <1>2, <1>6, <1>7, <1>8 DEF Worked
<1>10. faults' \in 0..MaxFaults
  BY <1>1 DEF Inv, TypeOK
<1> QED
  BY <1>1, <1>4, <1>9, <1>10, WorkStep DEF q

\* A query of a sub-pool ends.
LEMMA NativeEndsStep ==
    ASSUME Inv, NEW r \in 1..issued, NEW s \in Shards, NativeEnds(r, s)
    PROVE  Inv'
<1> DEFINE q == req[r]
<1>1. q.task[s] = "native" /\ UNCHANGED <<hub, clients, issued>>
  BY DEF NativeEnds
<1>2. q \in Request /\ ShardInv(q, s) /\ q.task[s] \in AtWork
  <2>1. q.task[s] \in AtWork
    BY <1>1 DEF AtWork
  <2> QED
    BY <2>1, AtWorkFacts
<1>3. faults' \in 0..MaxFaults
  BY Bounds DEF NativeEnds, Fault, Inv, TypeOK
<1>4. PICK executed \in BOOLEAN, x \in {"ok", "failed"} :
         /\ x = "ok" => executed
         /\ req' = [req EXCEPT ![r] = TaskEnds(q, s, x, executed)]
  BY DEF NativeEnds
<1>5. PICK w : /\ TaskEnds(q, s, x, executed) = Settled(w)
               /\ Worked(q, w, s) /\ w.task[s] # "connect"
  <2> HIDE DEF q
  <2> QED
    BY <1>2, <1>4, EndedSet
<1>6. req' = [req EXCEPT ![r] = Settled(w)] /\ Worked(req[r], w, s)
  BY <1>4, <1>5
<1> HIDE DEF q
<1> QED
  BY <1>1, <1>3, <1>5, <1>6, WorkStep

\* A client connects to a shard, or fails to: then nothing is pinned and nothing held.
LEMMA ConnectStep ==
    ASSUME Inv, NEW r \in 1..issued, NEW s \in Shards, Connect(r, s)
    PROVE  Inv'
<1> DEFINE q == req[r]
           c == Target(r)
           single == Tid(r) \in Tids
           to(x) == [q EXCEPT !.task[s] = x]
<1>1. q.task[s] = "connect" /\ UNCHANGED <<hub, released, issued>>
  BY DEF Connect
<1>2. /\ r \in 1..MaxRequests /\ req \in [1..MaxRequests -> Request]
      /\ q \in Request /\ RequestInv(q) /\ ShardInv(q, s) /\ q.task[s] \in AtWork
      /\ q.via = "native"
  <2>1. q.task[s] \in AtWork
    BY <1>1 DEF AtWork
  <2>2. /\ r \in 1..MaxRequests /\ req \in [1..MaxRequests -> Request]
        /\ q \in Request /\ RequestInv(q) /\ ShardInv(q, s)
    BY <2>1, AtWorkFacts
  <2> QED
    BY <1>1, <2>1, <2>2 DEF ShardInv
<1>3. /\ c \in Checkouts /\ Unpinned(q, PinOf(r)) /\ Sessional(q, PinOf(r))
      /\ single => /\ PinOf(r) = Null
                   /\ \A t \in Shards \ {s} : q.task[t] = "none"
      /\ ~single => Tid(r) = All
  BY <1>1 DEF Inv, PinInv, SessionInv, Unpinned, Target, Tid
<1>4. Worked(q, to("native"), s) /\ to("native").task[s] = "native"
  <2> DEFINE w == to("native")
  <2>1. w = [q EXCEPT !.task[s] = "native"]
    OBVIOUS
  <2> HIDE DEF q, w
  <2>2. Worked(q, w, s) /\ w.task[s] = "native"
    BY <1>2, <2>1, TaskSet
  <2> QED
    BY <2>2 DEF w
<1>5. Worked(q, to("failed"), s) /\ to("failed").task[s] = "failed"
  <2> DEFINE w == to("failed")
  <2>1. w = [q EXCEPT !.task[s] = "failed"]
    OBVIOUS
  <2> HIDE DEF q, w
  <2>2. Worked(q, w, s) /\ w.task[s] = "failed"
    BY <1>2, <2>1, TaskSet
  <2> QED
    BY <2>2 DEF w
<1>6. \/ /\ native' = [native EXCEPT ![c] = @ + 1] /\ single /\ pin' = PinNative(c, s)
         /\ req' = [req EXCEPT ![r] = Settled(to("native"))] /\ faults' = faults
      \/ /\ native' = [native EXCEPT ![c] = @ + 1] /\ ~single /\ pin' = pin
         /\ req' = [req EXCEPT ![r] = Settled(to("failed"))] /\ faults' = faults
      \/ /\ Fault /\ UNCHANGED <<pin, native>>
         /\ req' = [req EXCEPT ![r] = Settled(to("failed"))]
  BY DEF Connect
<1>7. faults' \in 0..MaxFaults
  BY <1>6, Bounds DEF Fault, Inv, TypeOK
<1>8. ~Over(q) /\ c \notin released
  BY <1>2 DEF Over, Inv, TurnInv
<1>9. native \in [Checkouts -> Nat]
  BY DEF Inv, TypeOK
<1> HIDE DEF to
<1>10. CASE /\ Fault /\ UNCHANGED <<pin, native>>
            /\ req' = [req EXCEPT ![r] = Settled(to("failed"))]
  <2> DEFINE w == to("failed")
             u == Settled(w)
  <2>1. Worked(req[r], w, s) /\ w.task[s] # "connect"
    BY <1>5
  <2>2. req' = [req EXCEPT ![r] = u] /\ u = Settled(w)
    BY <1>10
  <2>3. UNCHANGED <<hub, clients, issued>>
    BY <1>1, <1>10 DEF clients
  <2> HIDE DEF w, u
  <2> QED
    BY <1>7, <2>1, <2>2, <2>3, WorkStep
<1>11. CASE /\ native' = [native EXCEPT ![c] = @ + 1] /\ single /\ pin' = PinNative(c, s)
            /\ req' = [req EXCEPT ![r] = Settled(to("native"))]
  <2> DEFINE w == to("native")
             u == Settled(w)
             p == [host |-> s, grpc |-> FALSE]
  <2>1. Worked(q, w, s) /\ w.task[s] = "native"
    BY <1>4
  <2>2. u = Settled(w) /\ req' = [req EXCEPT ![r] = u]
    BY <1>11
  <2>3. p \in Pins /\ p.grpc = FALSE /\ p # Null
    <3>1. p \in Pins
      BY DEF Pins
    <3> QED
      BY <3>1, NullNoPin DEF Pins
  <2>4. pin' = [pin EXCEPT ![Target(r)] = p]
    BY <1>11 DEF PinNative
  <2> HIDE DEF q, w, u, p
  <2>5. /\ u \in Request /\ RequestInv(u) /\ u.pc \in {"run", "done"}
        /\ u.offer = q.offer /\ u.via = q.via /\ u.task = w.task
        /\ Sessional(q, Null) => Sessional(u, Null)
    BY <1>2, <2>1, <2>2, WorkedFacts
  <2>6. ~u.session
    BY <1>3, <1>11, <2>5 DEF Sessional
  <2>7. PinOf(r)' = p /\ \A d \in Checkouts : d # c => pin'[d] = pin[d]
    BY <1>3, <2>2, <2>4, <2>5, PinnedNow DEF Inv, q
  <2>8. Unpinned(u, p)
    <3>1. \A t \in Shards : u.task[t] # "connect"
      BY <1>3, <1>11, <2>1, <2>5 DEF Worked
    <3> QED
      BY <2>5, <3>1 DEF Unpinned
  <2>9. Sessional(u, p)
    BY <2>6 DEF Sessional
  <2>10. \A i \in 1..issued : ~(Target(i) = Target(r) /\ req[i].session)
    BY <1>3, <1>11, NoSession
  <2>11. Target(r) \in Checkouts /\ \E x \in Pins : pin' = [pin EXCEPT ![Target(r)] = x]
    BY <1>3, <2>3, <2>4
  <2>12. u.pc # "none" /\ u.offer = req[r].offer /\ ~Over(req[r])
    BY <1>8, <2>5 DEF q
  <2>13. /\ req' \in [1..MaxRequests -> Request]
         /\ pin' \in [Checkouts -> Pins \cup {Null}]
         /\ RequestsInv' /\ TurnInv' /\ PinInv' /\ SessionInv'
    BY <1>1, <1>3, <1>11, <2>2, <2>5, <2>7, <2>8, <2>9, <2>10, <2>11, <2>12, QueryStep DEF Inv
  <2>14. native' \in [Checkouts -> Nat]
    BY <1>3, <1>9, <1>11
  <2>15. \A d \in Checkouts : FannedOut(d) => FannedOut(d)'
    BY <1>1, <2>2, <2>5, FannedOutKeeps DEF Inv, q
  <2>16. HoldInv'
    <3> SUFFICES ASSUME NEW d \in Checkouts
                 PROVE  native'[d] >= Held(d)' /\ (FannedOut(d)' \/ native'[d] = Held(d)')
      BY DEF HoldInv
    <3>1. native[d] \in Nat /\ native[d] >= Held(d) /\ (FannedOut(d) \/ native[d] = Held(d))
      BY <1>9 DEF HoldInv, Inv
    <3>2. CASE d = c
      <4>1. pin[d] = Null /\ pin'[d] = p
        BY <1>3, <1>11, <2>4, <3>2 DEF PinOf, Inv, TypeOK
      <4>2. Held(d) = 0 /\ Held(d)' = 1
        BY <1>1, <1>8, <2>3, <3>2, <4>1 DEF Held
      <4>3. native'[d] = native[d] + 1
        BY <1>3, <1>9, <1>11, <3>2
      <4> QED
        BY <2>15, <3>1, <4>2, <4>3
    <3>3. CASE d # c
      <4>1. Held(d)' = Held(d) /\ native'[d] = native[d]
        BY <1>1, <1>9, <1>11, <2>7, <3>3 DEF Held
      <4> QED
        BY <2>15, <3>1, <4>1
    <3> QED
      BY <3>2, <3>3
  <2>17. TypeOK'
    BY <1>1, <1>7, <2>13, <2>14 DEF TypeOK, Inv, Pins
  <2> QED
    BY <2>13, <2>16, <2>17 DEF Inv
<1>12. CASE /\ native' = [native EXCEPT ![c] = @ + 1] /\ ~single /\ pin' = pin
            /\ req' = [req EXCEPT ![r] = Settled(to("failed"))]
  <2> DEFINE w == to("failed")
             u == Settled(w)
             p == PinOf(r)
  <2>1. Worked(q, w, s) /\ w.task[s] # "connect"
    BY <1>5
  <2>2. u = Settled(w) /\ req' = [req EXCEPT ![r] = u]
    BY <1>12
  <2>3. \A i \in 1..issued : i < r /\ Target(i) = Target(r) /\ req[i].session
                               => Follows(q, p)
    BY DEF Inv, SessionInv
  <2> HIDE DEF q, w, u
  <2>4. /\ u \in Request /\ RequestInv(u) /\ u.pc \in {"run", "done"}
        /\ u.offer = q.offer /\ u.via = q.via
        /\ Unpinned(q, p) => Unpinned(u, p)
        /\ Sessional(q, p) => Sessional(u, p)
        /\ Follows(q, p) => Follows(u, p)
    <3> HIDE DEF p
    <3> QED
      BY <1>2, <2>1, <2>2, WorkedFacts
  <2>5. PinOf(r)' = PinOf(r)
    <3>1. req'[r].offer = req[r].offer
      BY <1>2, <2>2, <2>4 DEF q
    <3> QED
      BY <1>12, <3>1 DEF PinOf, Target
  <2>6. u.pc # "none" /\ u.offer = req[r].offer /\ ~Over(req[r])
    BY <1>8, <2>4 DEF q
  <2>7. /\ req' \in [1..MaxRequests -> Request]
        /\ pin' \in [Checkouts -> Pins \cup {Null}]
        /\ RequestsInv' /\ TurnInv' /\ PinInv' /\ SessionInv'
    BY <1>1, <1>3, <1>12, <2>2, <2>3, <2>4, <2>5, <2>6, QueryStep DEF Inv
  <2>8. native' \in [Checkouts -> Nat]
    BY <1>3, <1>9, <1>12
  <2>9. \A d \in Checkouts : FannedOut(d) => FannedOut(d)'
    BY <1>1, <2>2, <2>4, FannedOutKeeps DEF Inv, q
  <2>10. FannedOut(c)
    BY <1>2, <1>3, <1>12 DEF FannedOut, q
  <2>11. HoldInv'
    <3> SUFFICES ASSUME NEW d \in Checkouts
                 PROVE  native'[d] >= Held(d)' /\ (FannedOut(d)' \/ native'[d] = Held(d)')
      BY DEF HoldInv
    <3>1. native[d] \in Nat /\ native[d] >= Held(d) /\ (FannedOut(d) \/ native[d] = Held(d))
      BY <1>9 DEF HoldInv, Inv
    <3>2. Held(d)' = Held(d) /\ Held(d) \in Nat
      BY <1>1, <1>12 DEF Held
    <3>3. CASE d = c
      <4>1. native'[d] = native[d] + 1
        BY <1>3, <1>9, <1>12, <3>3
      <4> QED
        BY <2>9, <2>10, <3>1, <3>2, <3>3, <4>1
    <3>4. CASE d # c
      <4>1. native'[d] = native[d]
        BY <1>9, <1>12, <3>4
      <4> QED
        BY <2>9, <3>1, <3>2, <4>1
    <3> QED
      BY <3>3, <3>4
  <2>12. TypeOK'
    BY <1>1, <1>7, <2>7, <2>8 DEF TypeOK, Inv, Pins
  <2> QED
    BY <2>7, <2>11, <2>12 DEF Inv
<1> QED
  BY <1>6, <1>10, <1>11, <1>12
---------------------------------------------------------------------------
(***************************************************************************)
(* The application and the hub.                                            *)
(***************************************************************************)
\* A query that has not been issued.
LEMMA NoRequestFacts ==
    /\ NoRequest \in Request /\ NoRequest.pc = "none" /\ NoRequest.result = "none"
    /\ Unsent(NoRequest)
    /\ \A s \in Shards : /\ NoRequest.sent[s] = 0 /\ NoRequest.ran[s] = 0
                         /\ NoRequest.unsure[s] = 0
BY Bounds DEF NoRequest, Each, Request, TaskState, Unsent

\* A query is issued: those of its checked-out client before it are over.
LEMMA IssueStep ==
    ASSUME Inv, Issue
    PROVE  Inv'
<1>0. PICK n : n = issued + 1
  OBVIOUS
<1>1. /\ issued \in Nat /\ n \in 1..MaxRequests /\ issued' = n
      /\ 1..issued' = 1..issued \cup {n} /\ n \notin 1..issued
      /\ \A r \in 1..issued : r \in 1..MaxRequests
      /\ UNCHANGED <<hub, clients, faults>>
  BY <1>0, Bounds DEF Issue, Inv, TypeOK
<1>2. PICK o \in Offers :
        /\ o.target \in Checkouts => Quiet(o.target) /\ o.target \notin released
        /\ req' = [req EXCEPT ![n] = [@ EXCEPT !.pc = "classify", !.offer = o]]
  BY <1>0 DEF Issue
<1>3. req \in [1..MaxRequests -> Request] /\ released \subseteq Checkouts
  BY DEF Inv, TypeOK
<1>4. req[n] = NoRequest
  BY <1>0, <1>1 DEF Inv, TurnInv
<1> DEFINE w == [NoRequest EXCEPT !.pc = "classify", !.offer = o]
<1>5. req' = [req EXCEPT ![n] = w]
  BY <1>1, <1>2, <1>3, <1>4
<1>6. /\ w \in Request /\ w.pc = "classify" /\ w.offer = o /\ w.result = "none"
      /\ Unsent(w)
      /\ \A s \in Shards : w.sent[s] = 0 /\ w.ran[s] = 0 /\ w.unsure[s] = 0
  BY NoRequestFacts DEF Request, Unsent
<1> HIDE DEF w
<1>7. /\ req' \in [1..MaxRequests -> Request] /\ req'[n] = w
      /\ \A r \in 1..MaxRequests : r # n => req'[r] = req[r]
  BY <1>1, <1>3, <1>5, <1>6
<1>8. \A r \in 1..issued : /\ r # n /\ r < n /\ req'[r] = req[r] /\ Target(r)' = Target(r)
                           /\ PinOf(r)' = PinOf(r)
  <2>1. \A r \in 1..issued : r # n /\ r < n /\ req'[r] = req[r]
    BY <1>0, <1>1, <1>7
  <2> QED
    BY <1>1, <2>1 DEF Target, PinOf, clients
<1>9. RequestInv(w)
  BY <1>6 DEF RequestInv, ShardInv, Unsent
<1>10. RequestsInv'
  BY <1>7, <1>9, Bounds DEF RequestsInv, Inv
<1>11. Target(n)' = o.target
  BY <1>6, <1>7 DEF Target
<1>12. \A r \in 1..issued : Target(r) = o.target /\ o.target \in Checkouts => Over(req[r])
  BY <1>2 DEF Quiet, Over, AtWork
<1>13. TurnInv'
  <2>1. \A r \in 1..MaxRequests : IF r > issued' THEN req'[r] = NoRequest
                                  ELSE req'[r].pc # "none" /\ req'[r].offer \in Offers
    <3> TAKE r \in 1..MaxRequests
    <3>1. CASE r = n
      BY <1>1, <1>6, <1>7, <3>1
    <3>2. CASE r # n
      BY <1>0, <1>1, <1>7, <3>2 DEF Inv, TurnInv
    <3> QED
      BY <3>1, <3>2
  <2>2. ASSUME NEW i \in 1..issued', NEW j \in 1..issued',
               i < j, Target(i)' = Target(j)', Target(i)' \in Checkouts
        PROVE  Over(req'[i])
    <3>1. i \in 1..issued
      BY <1>0, <1>1, <2>2
    <3>2. CASE j = n
      BY <1>8, <1>11, <1>12, <2>2, <3>1, <3>2
    <3>3. CASE j # n
      <4>1. j \in 1..issued
        BY <1>1, <3>3
      <4> QED
        BY <1>8, <2>2, <3>1, <4>1 DEF Inv, TurnInv
    <3> QED
      BY <3>2, <3>3
  <2>3. ASSUME NEW r \in 1..issued', Target(r)' \in released'
        PROVE  Over(req'[r])
    <3>1. Target(r)' \in released
      BY <1>1, <2>3 DEF clients
    <3>2. r # n
      BY <1>2, <1>3, <1>11, <3>1
    <3>3. r \in 1..issued
      BY <1>1, <3>2
    <3> QED
      BY <1>8, <3>1, <3>3 DEF Inv, TurnInv
  <2> QED
    BY <2>1, <2>2, <2>3 DEF TurnInv, Over
<1>14. \A p : Unpinned(w, p) /\ Sessional(w, p) /\ Follows(w, p)
  BY <1>6, UnsentFacts
<1>15. PinInv'
  <2> SUFFICES ASSUME NEW r \in 1..issued' PROVE Unpinned(req'[r], PinOf(r)')
    BY DEF PinInv, Unpinned
  <2>1. CASE r = n
    BY <1>7, <1>14, <2>1
  <2>2. CASE r # n
    <3>1. r \in 1..issued
      BY <1>1, <2>2
    <3> QED
      BY <1>8, <3>1 DEF Inv, PinInv
  <2> QED
    BY <2>1, <2>2
<1>16. SessionInv'
  <2>1. ASSUME NEW r \in 1..issued' PROVE Sessional(req'[r], PinOf(r)')
    <3>1. CASE r = n
      BY <1>7, <1>14, <3>1
    <3>2. CASE r # n
      <4>1. r \in 1..issued
        BY <1>1, <3>2
      <4> QED
        BY <1>8, <4>1 DEF Inv, SessionInv
    <3> QED
      BY <3>1, <3>2
  <2>2. ASSUME NEW i \in 1..issued', NEW j \in 1..issued',
               i < j, Target(i)' = Target(j)', req'[i].session
        PROVE  Follows(req'[j], PinOf(j)')
    <3>1. i \in 1..issued
      BY <1>0, <1>1, <2>2
    <3>2. CASE j = n
      BY <1>7, <1>14, <3>2
    <3>3. CASE j # n
      <4>1. j \in 1..issued
        BY <1>1, <3>3
      <4> QED
        BY <1>8, <2>2, <3>1, <4>1 DEF Inv, SessionInv
    <3> QED
      BY <3>2, <3>3
  <2> QED
    BY <2>1, <2>2 DEF SessionInv, Sessional, Follows, InSession, Unsent
<1>17. HoldInv'
  <2>1. \A c \in Checkouts : Held(c)' = Held(c) /\ native'[c] = native[c]
    BY <1>1 DEF Held, clients
  <2>2. ASSUME NEW c \in Checkouts, FannedOut(c) PROVE FannedOut(c)'
    <3>1. PICK k \in 1..issued : Target(k) = c /\ Tid(k) = All /\ req[k].via = "native"
      BY <2>2 DEF FannedOut
    <3>2. k \in 1..issued' /\ req'[k] = req[k]
      BY <1>1, <1>8
    <3>3. Target(k)' = c /\ Tid(k)' = All /\ req'[k].via = "native"
      BY <3>1, <3>2 DEF Target, Tid
    <3> QED
      BY <3>2, <3>3 DEF FannedOut
  <2> QED
    BY <2>1, <2>2 DEF HoldInv, Inv
<1>18. TypeOK'
  BY <1>1, <1>7, Bounds DEF TypeOK, Inv, clients
<1> QED
  BY <1>10, <1>13, <1>15, <1>16, <1>17, <1>18 DEF Inv

\* A client is released when its queries are over; a native pin gives its client back.
LEMMA ReleaseStep ==
    ASSUME Inv, NEW c \in Checkouts, Release(c)
    PROVE  Inv'
<1>1. /\ c \notin released /\ Quiet(c) /\ released' = released \cup {c}
      /\ native' = IF pin[c] # Null /\ ~pin[c].grpc THEN [native EXCEPT ![c] = @ - 1]
                   ELSE native
      /\ UNCHANGED <<hub, pin, req, issued, faults>>
  BY DEF Release
<1>2. native \in [Checkouts -> Nat] /\ native[c] \in Nat
  BY DEF Inv, TypeOK
<1>3. native[c] >= Held(c) /\ Held(c) = IF pin[c] # Null /\ ~pin[c].grpc THEN 1 ELSE 0
  BY <1>1 DEF Inv, HoldInv, Held
<1>4. /\ native' \in [Checkouts -> Nat] /\ native'[c] = native[c] - Held(c)
      /\ \A d \in Checkouts : d # c => native'[d] = native[d]
  BY <1>1, <1>2, <1>3
<1>5. TypeOK'
  BY <1>1, <1>4 DEF TypeOK, Inv
<1>6. RequestsInv' /\ PinInv' /\ SessionInv'
  BY <1>1 DEF Inv, RequestsInv, RequestInv, ShardInv, Unsent, Over, PinInv, Unpinned,
              PinOf, Target, SessionInv, Sessional, Follows, InSession
<1>7. TurnInv'
  <2>1. \A r \in 1..issued : Target(r) = c => Over(req[r])
    BY <1>1 DEF Quiet, Over, AtWork
  <2> QED
    BY <1>1, <2>1 DEF Inv, TurnInv, Target, Over
<1>8. HoldInv'
  <2> SUFFICES ASSUME NEW d \in Checkouts
               PROVE  native'[d] >= Held(d)' /\ (FannedOut(d)' \/ native'[d] = Held(d)')
    BY DEF HoldInv
  <2>1. FannedOut(d)' <=> FannedOut(d)
    BY <1>1 DEF FannedOut, Target, Tid
  <2>2. native[d] >= Held(d) /\ (FannedOut(d) \/ native[d] = Held(d))
    BY DEF Inv, HoldInv
  <2>3. CASE d = c
    <3>1. Held(d)' = 0
      BY <1>1, <2>3 DEF Held
    <3>2. Held(d) \in Nat
      BY DEF Held
    <3> QED
      BY <1>2, <1>4, <2>1, <2>2, <2>3, <3>1, <3>2
  <2>4. CASE d # c
    <3>1. Held(d)' = Held(d)
      BY <1>1, <2>4 DEF Held
    <3> QED
      BY <1>4, <2>1, <2>2, <2>4, <3>1
  <2> QED
    BY <2>3, <2>4
<1> QED
  BY <1>5, <1>6, <1>7, <1>8 DEF Inv

\* A step that changes the hub only.
LEMMA HubStep ==
    ASSUME Inv, UNCHANGED <<clients, req, issued>>, faults' \in 0..MaxFaults,
           hub' \in {"connecting", "ready", "closing", "null"}
    PROVE  Inv'
<1>1. TypeOK'
  BY DEF TypeOK, Inv, clients
<1>2. RequestsInv' /\ PinInv' /\ SessionInv' /\ TurnInv'
  BY DEF Inv, RequestsInv, RequestInv, ShardInv, Unsent, Over, PinInv, Unpinned, PinOf,
         Target, SessionInv, Sessional, Follows, InSession, TurnInv, clients
<1>3. HoldInv'
  BY DEF Inv, HoldInv, Held, FannedOut, Target, Tid, clients
<1> QED
  BY <1>1, <1>2, <1>3 DEF Inv

\* It holds before any query.
LEMMA InitInv == Init => Inv
<1> SUFFICES ASSUME Init PROVE Inv
  OBVIOUS
<1>2. RequestInv(NoRequest)
  BY NoRequestFacts DEF RequestInv, ShardInv, Unsent
<1>3. \A r \in 1..MaxRequests : req[r] = NoRequest
  BY DEF Init
<1>4. 1..issued = {} /\ issued = 0
  BY DEF Init
<1>5. TypeOK
  BY <1>4, NoRequestFacts, Bounds DEF Init, TypeOK
<1>6. RequestsInv
  BY <1>2, <1>3 DEF RequestsInv
<1>7. TurnInv
  BY <1>3, <1>4 DEF TurnInv
<1>8. PinInv /\ SessionInv
  BY <1>4 DEF PinInv, SessionInv
<1>9. HoldInv
  BY DEF Init, HoldInv, Held
<1> QED
  BY <1>5, <1>6, <1>7, <1>8, <1>9 DEF Inv

\* Every step of the path keeps the invariant.
LEMMA NextInv == Inv /\ [Next]_vars => Inv'
<1> SUFFICES ASSUME Inv, [Next]_vars PROVE Inv'
  OBVIOUS
<1>1. CASE Issue
  BY <1>1, IssueStep
<1>2. CASE \E c \in Checkouts : Release(c)
  BY <1>2, ReleaseStep
<1>3. ASSUME NEW r \in 1..issued, Step(r) PROVE Inv'
  <2>1. CASE Reject(r) \/ LookupFails(r)
    <3>1. /\ req[r].pc \in {"classify", "lookup"} /\ UNCHANGED <<hub, clients, issued>>
          /\ req' = [req EXCEPT ![r] = Failed(@)]
      BY <2>1 DEF Reject, Classified, LookupFails
    <3>2. faults' \in 0..MaxFaults
      BY <2>1, Bounds DEF Reject, Classified, LookupFails, Fault, Inv, TypeOK
    <3> QED
      BY <3>1, <3>2, FailStep
  <2>2. CASE Broadcast(r) \/ FanOut(r)
    BY <2>2, SendAllStep
  <2>3. CASE RunPinned(r)
    BY <2>3, PinnedStep
  <2>4. CASE Lookup(r) \/ LookupReturns(r)
    BY <2>4, LookupStep
  <2>5. CASE Execute(r)
    BY <2>5, ExecuteStep
  <2>6. ASSUME NEW s \in Shards,
               CallEnds(r, s) \/ CallAgain(r, s) \/ Connect(r, s) \/ NativeEnds(r, s)
        PROVE  Inv'
    BY <2>6, CallEndsStep, CallAgainStep, ConnectStep, NativeEndsStep
  <2> QED
    BY <1>3, <2>1, <2>2, <2>3, <2>4, <2>5, <2>6 DEF Step
<1>4. CASE HubConnected \/ HubFails \/ CloseHub
  <2>1. /\ UNCHANGED <<clients, req, issued>>
        /\ hub' \in {"connecting", "ready", "closing", "null"}
    BY <1>4 DEF HubConnected, HubFails, CloseHub
  <2>2. faults' \in 0..MaxFaults
    BY <1>4, Bounds DEF HubConnected, HubFails, CloseHub, Fault, Inv, TypeOK
  <2> QED
    BY <2>1, <2>2, HubStep
<1>5. CASE UNCHANGED vars
  <2>1. UNCHANGED <<clients, req, issued>> /\ hub' = hub /\ faults' = faults
    BY <1>5 DEF vars
  <2> QED
    BY <2>1, HubStep DEF Inv, TypeOK
<1> QED
  BY <1>1, <1>2, <1>3, <1>4, <1>5 DEF Next

\* The invariant holds in every behaviour of the in-process path.
THEOREM RoutingInv == Spec => []Inv
BY InitInv, NextInv, PTL DEF Spec

\* No call is sent more often than MTDD_GRPC_MAX_RETRIES allows, and every variable has
\* its type.
THEOREM TypeCorrect == Spec => []TypeOK
<1>1. Inv => TypeOK
  BY DEF Inv
<1> QED
  BY <1>1, RoutingInv, PTL

\* Both queries ran in the session of the shard their client is pinned to.
LEMMA OneConnection == Inv => TxOneConnection
<1> SUFFICES ASSUME Inv, NEW i \in 1..issued, NEW j \in 1..issued,
                    i < j, Target(i) = Target(j), Target(i) \in Checkouts,
                    Kind(i) = "begin", req[i].session,
                    NEW z \in Shards, req[j].ran[z] > 0
             PROVE  Connection(req[j]) = Connection(req[i])
  BY DEF TxOneConnection
<1> DEFINE p == PinOf(j)
<1>1. PinOf(i) = p
  BY DEF PinOf
<1>2. \A k \in {i, j} : req[k] \in Request /\ RequestInv(req[k])
  <2> TAKE k \in {i, j}
  <2>1. k \in 1..MaxRequests /\ req[k] \in Request
    BY Issued DEF Inv
  <2> QED
    BY <2>1 DEF Inv, RequestsInv
<1>3. Sessional(req[i], p) /\ Follows(req[j], p)
  BY <1>1 DEF Inv, SessionInv
<1>4. InSession(req[i], p) /\ req[i].role = "write"
  BY <1>3 DEF Sessional, Kind
<1>5. InSession(req[j], p) /\ req[j].role = "write"
  <2>1. ~Unsent(req[j])
    <3>1. ASSUME Unsent(req[j]) PROVE FALSE
      <4>1. req[j].ran[z] = 0
        BY <1>2, <3>1 DEF RequestInv, ShardInv, Unsent
      <4> QED
        BY <4>1
    <3> QED
      BY <3>1
  <2> QED
    BY <1>3, <2>1 DEF Follows
<1> HIDE DEF p
<1>6. ASSUME NEW k \in {i, j}
      PROVE  {s \in Shards : req[k].sent[s] > 0 \/ req[k].ran[s] > 0}
               = {s \in Shards : s = p.host}
  <2> SUFFICES ASSUME NEW s \in Shards
               PROVE  req[k].sent[s] > 0 \/ req[k].ran[s] > 0 <=> s = p.host
    OBVIOUS
  <2>1. InSession(req[k], p) /\ ShardInv(req[k], s)
    BY <1>2, <1>4, <1>5 DEF RequestInv
  <2>2. CASE s = p.host
    BY <2>1, <2>2 DEF InSession, ShardInv
  <2>3. CASE s # p.host
    <3>1. req[k].task[s] = "none"
      BY <2>1, <2>3 DEF InSession
    <3>2. req[k].sent[s] = 0 /\ req[k].ran[s] = 0
      BY <2>1, <3>1 DEF ShardInv
    <3> QED
      BY <2>3, <3>2
  <2> QED
    BY <2>2, <2>3
<1>7. req[i].session \in BOOLEAN /\ req[j].session \in BOOLEAN
  BY <1>2 DEF Request
<1>8. /\ req[i].via = req[j].via /\ req[i].role = req[j].role
      /\ req[i].session = req[j].session
  BY <1>4, <1>5, <1>7 DEF InSession
<1> QED
  BY <1>6, <1>8 DEF Connection

\* A transaction that a checked-out client begins in a session of the hub stays on one
\* connection: query by query on the same shard's write endpoint in that session.
THEOREM TransactionsStay == Spec => []TxOneConnection
BY RoutingInv, OneConnection, PTL

\* The answer follows from what the statements of the query have come to.
LEMMA AnswersHonest == Inv => HonestAnswer
<1> SUFFICES ASSUME Inv, NEW r \in 1..issued
             PROVE  LET q == req[r]
                        asked == {s \in Shards : q.task[s] # "none"}
                    IN /\ q.result = "ok" => \A s \in asked : q.ran[s] = q.unsure[s] + 1
                       /\ q.pc = "done" /\ q.patient
                            => \A s \in asked : q.task[s] \in {"ok", "failed"}
  BY DEF HonestAnswer
<1> DEFINE q == req[r]
           asked == {s \in Shards : q.task[s] # "none"}
<1>1. q \in Request /\ RequestInv(q)
  <2>1. r \in 1..MaxRequests /\ q \in Request
    BY Issued DEF Inv
  <2> QED
    BY <2>1 DEF Inv, RequestsInv
<1> HIDE DEF q
<1>2. \A s \in Shards : ShardInv(q, s) /\ q.task[s] \in TaskState
  BY <1>1 DEF RequestInv, Request
<1>3. q.result = "ok" => \A s \in asked : q.ran[s] = q.unsure[s] + 1
  <2> SUFFICES ASSUME q.result = "ok", NEW s \in asked PROVE q.ran[s] = q.unsure[s] + 1
    OBVIOUS
  <2>1. q.task[s] = "ok"
    BY <1>1 DEF RequestInv
  <2> QED
    BY <1>2, <2>1 DEF ShardInv
<1>4. q.pc = "done" /\ q.patient => \A s \in asked : q.task[s] \in {"ok", "failed"}
  BY <1>1, <1>2 DEF RequestInv, Over, AtWork, TaskState
<1> QED
  BY <1>3, <1>4 DEF q

\* A query answered with success was executed by each shard asked once, and once more
\* for each lost answer; "best_effort" answers when no shard is at work.
THEOREM AnswersTrue == Spec => []HonestAnswer
BY RoutingInv, AnswersHonest, PTL

\* A released client holds only what it took in a fan-out.
LEMMA ReleasedClean == Inv => NoLeakedClient
<1> SUFFICES ASSUME Inv, NEW c \in released
             PROVE  native[c] = 0 \/ FannedOut(c)
  BY DEF NoLeakedClient, FannedOut
<1>1. c \in Checkouts
  BY DEF Inv, TypeOK
<1>2. Held(c) = 0
  BY DEF Held
<1> QED
  BY <1>1, <1>2 DEF Inv, HoldInv

\* A released client has given back every client of a sub-pool that it took for itself.
THEOREM NothingLeaks == Spec => []NoLeakedClient
BY RoutingInv, ReleasedClean, PTL
=============================================================================
