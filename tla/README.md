# Verification of mtdd

TLA+ models of mtdd's tenant routing, checked with TLC, and theorems about them
checked with TLAPS. Paths are relative to the repository (`src/proxy/session.ts`
is the file of that name); `PROJECT.json` maps every definition to its lines.

## The system

mtdd sends each SQL statement to the Postgres shard of the tenant (tid) it is
issued for. An external Lookup service maps a tid to a `hostIndex`. There are two
paths: the **routing proxy** (`src/proxy/`), which is the production one, and the
older **in-process path** (`MTDD_LEGACY_INSTALL=1`), which patches node-postgres and
talks to shard agents over gRPC. LISTEN/NOTIFY goes through a coordinator over gRPC.

| Component | State | Operations | Talks to |
| --- | --- | --- | --- |
| Proxy session, `proxy/session.ts` | `pendingTid`, `inTx`, `pinnedIndex`, `txClient`, `backendInTx`, `txStatus`, `buf`, `phase`, the unnamed statement | `pump` and the handlers it awaits, `cleanup` | socket callbacks, Lookup, pools |
| Backend pools, `proxy/backend-pool.ts` | one `pg.Pool` per shard, counters | `query`, `connect`, `end` | Postgres |
| Proxy Lookup, `proxy/lookup.ts` | none | `lookupHostIndex` | Lookup service |
| Statement splitter, `proxy/tid-sql.ts` | none | `splitStatements`, `classifyStatement` | session |
| Wire encoding, `proxy/pg-wire.ts` | none | encoders, `readCString` | session |
| Server and configuration, `proxy/server.ts`, `config.ts`, `main.ts` | the listeners | `listen`, `close` | sessions |
| Notify transport, `grpc-notify-client.ts`, `mtdd-notify-transport.ts` | `watchCalls`, `watchReconnectAttempts`, `closed`, the active transport | subscribe, unsubscribe, unsubscribeAll, publish, close; stream and timer callbacks | coordinator, registry |
| Notification registry and handlers, `notification-registry.ts`, `listen-notify-*.ts` | the logical id and the channels of each target | LISTEN, UNLISTEN, NOTIFY, teardown | transport |
| Pool facade, `pool-facade.ts` | pins, sub-pools, `released` | connect, release | executor, registry |
| Query executor, `query-executor.ts` and the classifiers | none of its own | route, pin, broadcast, fan out | Lookup client, hub, merge |
| gRPC hub, `grpc-hub.ts` | `shardState`, read counters | init, query with retries, close | shard agents |
| Lookup client, `lookup-client.ts`, `lookup-cache.ts` | TTL cache | lookup with retries | Lookup service |
| Classification cache, `ast-classify-cache.ts`, `sql-parse.ts` | LRU map, Redis client and its connect promise | classify, get, set, close | Redis, executor |
| Result merging, `select-local-fanout.ts`, `postgres-select-merge.ts`, `merge-results.ts`, ... | a local Postgres pool | split a SELECT, merge | executor, local Postgres |
| Codecs, logging, telemetry, types | – | – | – |

What is hard: everything runs on one event loop, so code between two awaits is
atomic, but **callbacks run at every await**. A session's `cleanup()` runs beside a
pump suspended in Lookup, in a connect or in a query; sessions contend for the
clients of a pool; a lost backend ends the process; Watch streams break while
commands, timers and resubscriptions of the same target are under way; unary calls
and queries time out after they were executed. `PROJECT.json` lists each such hazard
with the line where it bites and the properties that watch it.

What makes each part correct:

- *session and pools*: a statement only ever runs on its tid's shard; a transaction
  stays on one shard and is atomic; its client is given back once, clean; a tid is
  spent when it is used; every message is answered.
- *notify*: what the registry lists is subscribed again after a lost stream; no
  duplicate delivery; a released client or a closed transport holds no stream.
- *executor, hub*: a transaction keeps its connection, a success means that the
  statement ran on every shard asked, no connection is left behind, every query is answered.
- *Lookup client and cache*: bounded staleness, and every lookup ends.
- *classification*: a cached type is the type the parser gives, whoever stored it.
- *fan-out and merge*: the answer is the one Postgres would give if one table held the
  rows of all shards, or an error; the local pool's clients come back clean.
- *splitter* (planned): equality with a reference definition.

## Modules

| Module | What it is |
| --- | --- |
| `ProxySession` | sessions over the pools and Postgres, one action per callback |
| `RoutedTransactions` | the abstract promise: two variables, five actions |
| `MCProxySession` | TLC instances of `ProxySession`; the refinement of the promise |
| `ProxySessionProofs` | proofs about `ProxySession`: types, routing by tid |
| `ProxySessionTxProofs` | ... its transactions, pooled clients and tids; that it refines the promise |
| `ProxySessionSocketProofs` | ... and what holds of it when sockets break |
| `ProxyWire` | the wire side of one session: chunks, the pump's flags, startup, password, extended protocol |
| `ProxyWireProofs` | proofs about `ProxyWire` |
| `NotifyTransport` | LISTEN/NOTIFY: handlers, registry, transport and coordinator |
| `MCNotifyTransport` | TLC instances of `NotifyTransport` |
| `NotifyTransportProofs` | proofs about `NotifyTransport` |
| `LookupCache` | the in-process Lookup client: retries, timeout, TTL cache, time, moving tenants |
| `LookupCacheProofs` | proofs about `LookupCache` |
| `ShardRouting` | the in-process path: checks, pins, Lookup, fan-out, calls with retries, native queries, the hub |
| `MCShardRouting` | a TLC instance of `ShardRouting` |
| `ShardRoutingProofs` | proofs about `ShardRouting` |
| `Classification` | the type of an SQL text: parser, LRU map, shared Redis |
| `SelectFanOut` | pure part of a fan-out: the split of a SELECT, a shard's stream, concatenation, the temporary table; and, external, what Postgres answers |
| `FanOut` | composes the two: a query without a tid from its text to its answer, local merges, failures |
| `MCFanOut` | a TLC instance of `FanOut`: the statements and tables |
| `FanOutProofs` | proofs about `FanOut` |

Definitions named `X_Something` with a comment "Mutant" are faulty variants of `X`
that no specification uses; each shows that some property can fail.

### ProxySession

One action is one run of the event loop: from the resumption of an await to the next
await or to the answer. `pump[s].pc` names the await: `setLookup`, `pinLookup`,
`autoLookup`, `pinConnect`, `autoConnect`, `pinBegin`, `txQuery`, `endQuery`,
`autoQuery`; `run` is the head of the loop over the statements of a message and
`idle` the wait for the next message. `sess[s]` has the fields of the JavaScript object. A simple
Query is a sequence of classified statements. `cleanup()` runs from the socket's
`error` and `close` at any await; it and the pump share `txClient`, and their requests
share the client's queue (`conn[c].queue`).

Postgres is external: a client executes its queue in order, a transaction collects
rows that COMMIT makes durable, an error aborts it. A *row* stands for the effect of a
data statement and carries the tid and the client's unit of work; `hist`, `durable`,
`acked` and `ended` are ghosts. Execution and the resumption of the awaiting coroutine
are one step (`Serve`): nobody but the coroutine can see the difference, because a
backend is owned by one session. A backend lost during an autocommit statement may have
executed it or not. One lost otherwise ends the process, since no `error` listener is
installed (`BackendLost`, `Crash`).

Left out: what `ProxyWire` models, several
placements of a tid over time (Lookup is a function), a backend that dies with the
requests of a cleanup and of a pump both queued behind an autocommit statement.
Consequences of the code that the model shows and no document contradicts: a failed
Lookup of an autocommit statement leaves its tid bound; a COMMIT that fails leaves the
session in its transaction until a ROLLBACK; `error` followed by `close` queues
two ROLLBACKs, and the second call of `release()`, on null, ends the process.

### ProxyWire

Here the statements are opaque and the wire is not. `buf` holds the complete messages,
`partial` the one whose first bytes are buffered; `Chunk` is the socket's `data`
event, `EnqueuePump` and `PumpEnds` the two flags, `looping` says that a pump is at the
head of its loop and `pending` holds what pumps await in `runSql()`. That only
one is ever pending is a property, not an assumption. The other actions are the
branches of `pump()`. The two modules meet at `Run` and `Resume`: `ProxySession` is what
happens between them. After its startup message the client sends any message at any time,
before its password too: `Drop` is what becomes of those that come while the proxy waits for
it. `owed`, `ready`, `executed`, `group`, `portal` and `password` record what client and
server have said to each other; `portal` is what Postgres would run at an Execute, the text
and the values of the last Bind.

Left out: malformed messages (the exception path of `enqueuePump()`), GSS and cancel
requests, disconnects.

### NotifyTransport

A target is a pool or a checked-out client. `cmd` has the unary call of each caller,
`resub` the loops of `resubscribeAll()`, `watching` is `watchCalls`, `call[t]` the
state of the Watch calls themselves: a call that broke or was cancelled is `ending`
until its event has been handled. The coordinator keeps `subs` and may refuse a call,
or execute it and miss its deadline (`late`); a restart empties `subs`, breaks every
stream and fails the calls under way. `skipped` and `cancelled` are ghosts. `MaxPublished`
bounds what is published together with the NOTIFYs in flight (`Notifying`).

Left out: the in-memory transport, the reconnect's back-off (a delay ends at some
time), the payload, the replacement of a closed transport by a new one, commands on
a client after its release().

### LookupCache

A query's `pc` is the await it is in: `sent` and `served` are `fetch()` before and after
the service has read the placement, `body` is the read of the answer, `delay` the wait
between attempts. Instead of clocks there are ages (`cache[t].age`, `query[q].waited`),
and `gone[t][s]` says how long ago tid `t` was last placed on `s`, 0 if it is there now;
`Tick` is one unit of time. `httpLookup()` clears its timer when `fetch()` resolves
(line 36), so the code does not bound the time of the body; `BodyTime` is the
environment's bound, and without one an answer of any age may be cached. `Finish`,
`Move` and `Serve` are the environment. A query that failed keeps no data.

### ShardRouting

`req[r]` is one run of `executeRoutedQuery()`: `pc` its await, `task[s]` what it does on
shard `s` (a call, the delay before the next, a native connect or query), `sent`, `ran`
and `unsure` how often the call was sent, executed, and executed with its answer lost.
`session` says whether the calls carry the client's session id. Lookup may give any
shard each time: `LookupCache` says how wrong that can be. `hub` is `shardState`;
`closing` is the time between the disconnects and its reset, when it is still used.
The preload's `settlePromiseSync()` looks at its promise once and does not wait for it, so
queries run while the hub connects, and a failure to connect is swallowed.

Left out: LISTEN and NOTIFY, standalone clients, pools of one host, `fanOutOnly()`, the
choice among read endpoints, clients that issue queries without awaiting the one before.
The queries are classified and a fan-out's result is opaque: `FanOut` has both, also the
stream that an ERROR without metadata ends. Consequences of the code that the model shows:

- a client pinned natively before the hub was ready sends its later statements as
  calls without a session id, so its transaction is torn, also when its BEGIN was one of
  these calls and a later query is native again; `TxOneConnection` speaks of transactions
  begun in a session over gRPC. `test/transaction.test.ts` line 60 expects a session id on
  every call;
- `BEGIN` with `tid: null` is fanned out to every shard, though without a tid it is
  refused;
- a natively fanned-out query of a checked-out client connects a client on each shard
  and then throws: the clients are lost (`NoLeakedClient` names the case);
- an error says nothing about execution: a shard may have executed the statement before the
  call failed, or its answer could not be decoded (`grpc-hub.ts` line 76);
- a call whose outcome is unknown is sent again, an INSERT too;
  `docs/MULTI-TENANT-PLATFORM-REVIEW.md` line 217 knows it and plans to forbid it, so
  there is no property that says "at most once".

Read off the code but not modelled: two concurrent first queries of one client share a
session id on two shards (`query-executor.ts` lines 329 and 154); `initGrpcHub()` called
twice at once connects twice, and `closeGrpcHub()` while it connects does nothing.

### Classification

`memory` is the `Map` in its insertion order, `redis` what the shared Redis holds,
`link` the client and its connect promise (`dead`: the promise was rejected and is kept),
`posted` the fire-and-forget writes. `asked[q].pc` is the await a query is in: `client`
(the connect promise), `get`, `expire` (the reply of GET is only looked at after the answer
of EXPIRE), `set`. A text is a record of what parsing it gives; the same operator
`Computed` stands for `computeClassification()` wherever the code calls it. Redis may
fail at every command, lose a key, or get a value from another process or program; that
other mtdd processes parse as this one does is assumed.

### SelectFanOut

No state. A statement is a record with the clauses the code looks at; an expression is
a column, one call, or a call inside a cast, where the code's walks do not look; a field has
a type when the local Postgres does not keep it. `Split` is `splitSelectForLocalFanOut()` with all its refusals,
`RowLevelColumns` the columns that shards are asked for when the local Postgres
aggregates. `Decoded` reads a stream of chunks, which an ERROR without metadata ends as a
success; `Merged` and `Loaded` are the two ways
to combine the shards' results. `Executed` is the reference: it defines, for tables of
a few rows, the set of results Postgres may give, with its rules for names (an output
before a column in ORDER BY, after it in GROUP BY), groups, NULLs and ties. It is used
three times: for what a shard answers, for what the local Postgres answers from the
temporary table, and in `AnswerExact` for what one table with all rows would answer.

### FanOut

`work[q].pc` is the await of `fanOutQuery()` or of the merge: `classify` (then `Classify`
runs), `shards`, `connect`, `begin`, `create`, `load`, `run`, `commit`, `rollback`. `local[c]`
is a client of the local pool: its holder, its transaction and its temporary table. A
shard answers once, with a stream that may break after any number of rows; retries and
policies are in `ShardRouting`. A wait for a client of the pool ends by a time-out when
all are in use (`TimedOut`).

Left out: expressions that nest deeper than a call in a cast, dates, jsonb and other values
that are objects, the best-effort policy (which waits for every shard before it fails), a
ROLLBACK that itself fails, a lost local connection: nothing listens for `error` on that pool
or its clients, so it ends the process with all of this state.

`AnswerExact` says that an answer which is no error is the one of one table. The code gives another
one, as a success, in six cases, each a definition or a ghost that the property names; without any
one of them TLC finds a counterexample:

- `PerShard`: results that are only concatenated apply LIMIT, OFFSET, DISTINCT, GROUP BY, and
  the aggregates the walk does not see, per shard: with `LIMIT 10` a client may get 20 rows, with
  `DISTINCT` duplicates, with `COUNT(*)::int` one count per shard;
- `ReducedRows`: DISTINCT stays on the shards when the local Postgres is to aggregate, and
  aggregates in ORDER BY only, or in a cast, are not seen, so that the local Postgres counts
  groups instead of rows;
- `ChangedByCopy`: from `MTDD_LOCAL_MERGE_COPY_THRESHOLD` rows on, an empty text becomes NULL and
  a Buffer its JSON, because of `formatCsvCell()`;
- `CutByUnnest`: between the two thresholds, the cast to `char[]` cuts char(n) to one character;
  below and above, the same value is refused;
- `Retyped`: a type that `OID_TO_PG_TYPE` does not list is a text in the local Postgres and
  is sorted and compared as one;
- `cut`: an ERROR chunk without metadata ends the stream, and the rows so far are the result.

No property says which SELECTs the merge can serve: one whose WHERE or ORDER BY is on a column that is
not selected, of a table with a schema, with columns qualified with the table, with a parameter in
LIMIT, or with a column selected twice is answered with the error of the local Postgres.

## Runs

| Run | Instance | Shows |
| --- | --- | --- |
| `session_tx` | 2 sessions (3 and 2 messages), 2 shards with one connection each, 3 tids of which two share a shard; faults of Lookup, connect, statements and backends | type, routing, one shard per transaction, exclusive and clean clients, atomicity, tid spent, pin held |
| `session_promise` | the same messages, 2 per session, faults of connect, statements and backends, fairness | refinement of `RoutedTransactions`; every message is answered unless idle transactions of others hold the pool |
| `session_disconnect` | 2 sessions (3 and 2 messages), sockets break at any await, connects and statements fail | what clients that are still connected can rely on while `cleanup()` runs beside the pumps of others; commits are kept (2 846 692 states) |
| `session_abandoned` | 1 session, single statements, pipelined; sockets break | **violation** of `CommittedOnly` |
| `session_misrouted` | as before, connects fail | **violation** of `RoutedByTid` |
| `proxy_wire` | 1 session, 5 messages of any type at any time, whole or in two chunks, with and without a password, failing statements, fairness | one answer per message in order, honest status, what the last Bind bound, nothing served from before the password, no input left lying |
| `notify` | 1 client with 2 callers, 2 channels, 3 commands, 1 published notification, 1 broken stream or restart, late calls, close(), fairness | single delivery, shutdown, reconnection, what the registry lists is subscribed again after a lost stream (530 000 states) |
| `notify_released` | LISTEN then release(), no faults | **violation** of `ReleasedStopsWatching` |
| `notify_lost` | 2 LISTENs, one restart | **violation** of `Resubscribed` |
| `lookup` | 2 overlapping lookups of one tid, again and again, 2 shards, 2 moves, 2 failures, one retry, TTL 0 (no cache) and 2 ticks, fairness | no answer and no entry older than the code's times allow; every lookup ends |
| `shards` | a pool and a checked-out client, 2 queries of 5 kinds, 2 shards, one retry, 2 faults, both fan-out policies, the hub connects, fails or closes, fairness | one connection per transaction, honest answers, no client lost, every query answered |
| `fanout` | 1 or 2 queries; statements of every shape on 4 tables of numbers over 2 shards, those that sort, compare or load values on 4 more whose column has a type the local Postgres does not keep; a map of one entry, one local client, COPY from 3 rows and UNNEST from 2, one failure anywhere, with and without Redis, fairness | sound caches, exact answers but for six named cases, clean local clients, every query answered unless Redis never lets it connect (97 000 states) |

Bounds. One connection per shard makes sessions contend at once, and a
connection is handed from one session to another within two messages each; three tids
over two shards are the least that has both a tid change that must be accepted and one
that must be refused. The messages of `TxBatches` combine the
statements so that a transaction can be opened, moved, continued, failed and ended in
two messages; `MaxBuffer` gives pipelining of one message, which is what lets a message
arrive behind an unanswered one. Five messages are startup,
password, and three more, enough for Parse, Bind, Execute without a password, and for
two Queries that compete.
In `notify`, two callers let answers overtake one another, two channels let a resubscription
loop be interrupted, three commands give LISTEN, UNLISTEN and LISTEN again, four names
of Watch calls are never all in use.
In `lookup` a TTL of 2 ticks, a timeout and a body of one each let an entry outlive the
request that overtook it, and two moves put a tid back where it was. In `shards` two
queries are the least in which a transaction's second statement can go astray, and two
faults exhaust the one retry. In `fanout` every statement runs alone on
every table (groups on both shards, an empty text, an empty shard, one shard with more
rows), one of each class with Redis, and pairs are chosen to collide: one text twice,
two texts in a map of one entry, two merges on one client. Deadlock is not checked: clients may stop
sending at any time.

Fairness (`FairSpec`). Weak fairness of a session's steps and of the backends: the
event loop runs each ready callback, `fetch` answers or fails, Postgres answers.
Strong fairness of a connect stands for the first-come queue of `pg.Pool`. Nothing is
assumed of clients. `ProxyWire`: weak fairness of the pump, which includes the answer of a statement.
`LookupCache` and `ShardRouting`: weak fairness of each query's steps, that is of
`fetch`, calls with their deadlines, `pg`, and timers; the hub may stay as it is.
`FanOut`: whenever a query has a step to take, it takes one: callbacks run, shards, a connected
Redis and the local Postgres answer or fail. Nothing is assumed of Redis' connect promise: with
the default strategy of its client, `connect()` tries without end. `Runnable` spells out when a
query has a step, because TLC evaluates ENABLED of so large an action too slowly.
For `NotifyTransport`: unary calls have a deadline, timers fire,
events of streams are delivered; nothing is assumed of streams staying up.

## What the violations show

1. `session_abandoned`: BEGIN has set the tid's pin and awaits a connection; the
   client disconnects; `cleanup()` finds no `txClient` and resets `inTx`; the
   connection arrives, BEGIN is skipped (line 342) and the pipelined data statement
   runs outside any transaction, durable without a COMMIT.
2. `session_misrouted`: the client obtained so stays in `txClient` with no pin. A later
   BEGIN pins another shard (line 340) and its connect fails (line 341); the next statement
   passes the check of the pin and runs on the old client.
3. `notify_released`: `unsubscribeAll()` cancels the Watch; its own error event
   reopens it, for the released client. The same event, when the target has LISTENed
   again by then, takes the newer call out of `watchCalls`; this is why `AtMostOnce` and
   `ClosedStops` except targets whose call was `cancelled`.
4. `notify_lost`: a LISTEN during the reconnect delay opens the stream without
   resubscribing, and the reconnect then finds a stream and resubscribes nothing.

The first two have a third effect, which is on *other* clients and no document speaks of.
The session of 1 has `a1` in `txClient`, no pin, and BEGIN, SET to a tid of another shard
and a write still to run. `cleanup()`, called again by the socket's `close`, queues ROLLBACK on `a1` and
awaits it (`session.ts` line 71); the pump pins the other shard and overwrites
`txClient` with `b1` (line 341), where it begins the transaction; `cleanup()` resumes and
releases what `this.txClient` is now (line 75). So `a1` is lost to its pool, and `b1` is
back in its own with an open transaction. A connected client whose autocommit statement
gets `b1` is answered with success, and its row is in that transaction, not durable. TLC
finds this with two sessions of at most three and two messages
and `Faults = {"socket"}`. It is why
`TxOwnsClient`, `ReturnedClean` and `NoOrphanClient` are not claimed where sockets break;
`ConnectedRowsRight` says what is left.

## Where code and documents disagree

The four runs above contradict what the repository says of itself. These are smaller
disagreements without a run. The properties state what the code does, and their comments name
the line that says otherwise:

- `SET mtdd.tid = ''` throws before `pendingTid` is assigned (`session.ts` line 279), so the tid
  bound before stays in effect, where
  `openspec/changes/ha-proxy-sp-tid-no-preload/specs/sp-first-param-tid/spec.md` line 33
  says that a following data statement must not be forwarded.
- An autocommit statement whose Lookup fails leaves its tid to the next one (`session.ts`
  line 364 throws before 369), where `INTEGRATION.md` line 63 says that the next statement
  consumes it; and the first statement of a simple Query consumes it for the whole
  batch, where line 54 of the same spec gives it to "the statements in the same simple-Query
  batch" (`TidSpent`).
- A Parse after a Bind replaces the text that the Execute runs (`session.ts` line 204 keeps one),
  where Postgres runs what was bound; `openspec/changes/ha-proxy-sp-tid-no-preload/specs/pg-wire-proxy/spec.md`
  line 44 leaves named statements out, not this order of the unnamed one (`ExecutesBound`).
- An UNLISTEN that the coordinator executed and that is reported as failed leaves the channel in
  the registry; it is lost until the next reconnect subscribes it again (`Restored`). Two callers
  whose answers come in the other order have the same effect (`listen-notify-handler.ts` line 36).
- `select-local-fanout.ts` line 489 says that shards run row-level SQL; with DISTINCT, and with
  aggregates in ORDER BY or in a cast, they do not (`ReducedRows`).
- `test/select-order-routing.test.ts` lines 96-113 expect rows for a WHERE on a column that is not
  selected. Its local Postgres is a mock; a real temporary table lacks the column and the
  query fails.
- `ast-classify-cache.ts` line 171 says that without Redis a query falls through to the parser; while
  Redis' client goes on trying to connect, every query that misses the map waits for it
  (`Answered` of `FanOut`).

## What is proved

Every theorem holds for all values of the constants that meet the module's assumption
(`ConstantsAssumption`, `ClassificationAssumption`, `FanOutAssumption`): numbers are
natural, placement and connections are functions into the shards, a message is a non-empty
sequence, and `Null` is none of the things it is the absence of. No theorem assumes a
bound: queries, messages, faults and retries are as many as the constants say. Each
invariant was checked by TLC on an instance before it was proved.

The proofs have one shape: an invariant, a lemma for each action (or for each way in which
actions end) that it keeps it, `NextX` for the step, and PTL for the theorem. The
invariants, and why the property alone would not do:

**ProxySession** (`ProxySessionProofs`, `ProxySessionTxProofs`).

- `TypeCorrect`. A statement in a Lookup or connect must still have its tid and its
  message: `TypeInv == TypeOK /\ PumpInv`.
- `RoutingCorrect`: `[]RoutedByTid`, where sockets do not break or connects do not fail; the
  run `session_misrouted` needs both. `RouteInv == Pins /\ Placed(conn) /\ DurablePlaced`
  relates the pin, the transaction's client and the tid of a suspended statement, so
  that what is queued on a client belongs on its shard.
- `OneShardPerTransaction`, `OwnTransactions`, `PoolsAreClean`, `NoClientIsLost`,
  `NothingCommittedEarly`, all from
  `TxInv == UnitInv /\ ClientsInv /\ LedgerInv`. `UnitInv` says that the session's flags
  (`inTx`, `backendInTx`, `txClient`) agree with the transaction its client sees and
  with the await its pump is in. `ClientsInv` says of each pooled client that it is
  clean in its pool, or holds exactly one request of the pump that has it, with a
  transaction of that unit of work. `LedgerInv` relates what clients were told to
  what is durable: a statement acknowledged in a transaction without an error is still in its
  backend, or durable, or the unit is over.
- `TidsAreSpent` is an action property, of statements that were placed on a shard and, with
  the opposite result, of those whose Lookup failed; `TidInv` (no tid is pending while an
  autocommit statement waits for its client) makes it inductive.
- Hypotheses. These theorems assume that no socket breaks, except `TidsAreSpent`.
  The hypothesis is needed: with `Faults = {"socket"}`, one session and the statements of
  `SingleStatements` one at a time, TLC violates `TxOnOneShard`, `TxOwnsClient`,
  `ReturnedClean`, `NoOrphanClient` and `CommittedOnly`. `NothingCommittedEarly` also
  assumes that no COMMIT fails: the backend is idle after one that does, the
  session still in its transaction, and each further statement is durable by itself.
- `TxInv` was checked on the instance of `session_tx` (1 495 046 states) and with COMMITs that
  fail (1 540 557).

**When sockets break** (`ProxySessionSocketProofs`). `DisconnectsMoveNoRows`
(`ConnectedRowsRight`), `CommitsAreKept` and `PinsHold` assume nothing about faults: sockets
break at any await, in any session, while lookups, connects, statements, COMMITs and backends
fail. A client may be in a pool with a transaction and with requests of two sessions
in its queue, so nothing that `TxInv` says of pooled clients is left. What is left is
about who queues (`InPlace`): the txClient of a session is checked out by it (`Keeps`); a
session awaits one request at most (`SentOnce`), which is the one its pump is suspended in
(`SentRight`) and, while it is connected, the last in the queue; a connected session has no
request of a cleanup (`NoCleanups`); and from its BEGIN on it shares the queue of its
client with nobody (`OnlyOwn`). What others have left is therefore executed before the
BEGIN, which begins a transaction or joins the one it finds. `Live` carries the transaction of a
connected session through this: the client's transaction may hold rows of others, but the
session's are there, or nowhere before its COMMIT. `CommitKept` keeps what was
committed when the session is no longer connected. With `EndedPast` (a unit of work
whose COMMIT was answered is over) and `NoLostWork` (only an open transaction has rows) they make
`ConnectedInv`, inductive with `TypeInv`; TLC checked it first, on the messages of
`session_disconnect` with sockets (1 420 742 states), on two messages of each session with
every fault (961 185), and on one session with five single statements and every
fault but lost backends (89 355).

**The promise** (end of `ProxySessionTxProofs`). `PromiseKept`: `Spec => Promise!Spec` with the
mapping `open <- [s \in Session |-> OpenRows(s)]`, the rows of the session in any client's
transaction. Every step maps to one action or a stutter: `Serve` of a data statement
to `Write` or `Autocommit`, of a COMMIT to `Commit`, of a ROLLBACK and of a failure to
`Abort`, the end of the process to `Crash`. The step needs `TxInv`: only because a
transaction is on one client, and its client on one shard, is `open` what COMMIT makes durable.
It assumes that no socket breaks and no COMMIT fails. With backends lost
too, `session_promise` checks the same on 140 651 states.

**ProxyWire** (`ProxyWireProofs`). One invariant, `WireInv`, gives `TypeCorrect`,
`AnswersInOrder`, `StatusTrue`, `ExecutesWhatWasBound` and `AuthenticatedFirst`. `PumpInv`: one
pump at most is in its loop or awaits a statement, which is what `pumping` is for.
`PasswordInv` and `PhaseInv`: the right password is still in the buffer while the session is not
ready, and once it is, everything left in the buffer was sent after it. `StatusInv`: `txStatus`
agrees with `inTx` unless a BEGIN runs or has failed. `NumberInv` and `OwedInv`: messages are
taken in the order of their numbers, and an answer is outstanding exactly for a message
in the buffer or at work that follows the right password, which with `PumpInv` gives order and
uniqueness. `TextInv`: of the messages that are heeded, an Execute still in the buffer names
the Parse and the Bind that will be the last when it is taken.

**ShardRouting** (`ShardRoutingProofs`). `TypeCorrect`, `TransactionsStay`, `AnswersTrue` and
`NothingLeaks` from `Inv`. `RequestsInv` is about one query: how often it was sent,
executed, and executed unheard on each shard, by its await and its result. `TurnInv`: the
queries of a checked-out client follow one another. `PinInv`: a query that looks up its shard
finds its client still unpinned. `SessionInv`: after a query in a session, every query of the
same client is in that session, or was not sent; `HoldInv`: a native pin is worth one
native client. The attempt corrected the property: `TxOneConnection` had spoken of all
transactions begun over gRPC, which holds with the run's two queries and fails with
three (the native pin above). `HonestAnswer` speaks of successes: whatever an error leaves
behind, of a call that was executed and failed, is counted by `ran` and `unsure` and promised
by nothing.

**NotifyTransport** (`NotifyTransportProofs`).

- `TypeCorrect`: `TypeInv` adds that a command that needs a channel has one, and `RoomInv`,
  that the NOTIFYs in flight fit the bound. The attempt corrected that bound, which
  counted targets where it must count callers.
- `StopsWhenClosed` from `WatchInv`: unless `unsubscribeAll()` has cancelled a call of the
  target, its only call is the one in `watchCalls`, or has ended with `close()`.
- `EmittedOnce` from `DeliveryInv`: what is on its way comes down an open stream, once, and
  has not been emitted; with `WatchInv` there is one stream.

**LookupCache** (`LookupCacheProofs`). `TypeCorrect`, `StalenessBounded`, `CacheStaysFresh`. An answer
is as old as the entry it comes from, and an entry as old as the request that filled
it. `Inv` adds `InTime` (no request outlives its limit), `Current` (the placement has age 0)
and `AnswerFresh`, which bounds what a request has read by the time it has been under way.
`TickKeeps` is the step in which everything ages at once, where ages are capped and the
invariant must not need more than the cap.

**FanOut** (`FanOutProofs`).

- `CachesSound`. `CacheInv` adds what the awaits carry: the text whose classification a query
  holds while it tells Redis, and that Redis holds for a text its classification,
  nothing, or garbage.
- `LocalClientsClean`. `LocalInv` says which client a query in a local transaction holds, and
  that it is as new before BEGIN, which is outside the `try`.
- `TypeCorrect` needs both. That what is cached is a class at all is because no text that
  the parser refuses gets into a cache, into Redis or into a query's hands (`AcceptedInv`);
  the executor classifies a text again, without catching, only after it was `ready`
  (`WorkInv`).

**Only model-checked**, and why:

- liveness (`Answered` of three modules, `MessageAnswered`, `Ends`, `WatchRestored`, `Restored`): fairness and
  ENABLED are beyond the prover;
- `FanOut`'s `AnswerExact`: it compares merged rows with a definition of SQL, by folds over rows, sorting and flattening; that is induction over data, which the
  prover cannot do.

## Plan

1. The splitter over tokens against a reference definition.
2. The in-memory notify transport and malformed messages of the wire protocol.

## Not modelled

- The bytes of values and rows (`pg-binary-*.ts`, `grpc-arrow-codec.ts`, `flatbuffers/`): pure
  conversions.
- Proxy server, configuration and entry points; startup and shutdown of the preload except
  for the hub, the caches and the transport: one-shot plumbing of sockets, environment
  variables and Node's module loader.
- Logging, telemetry, types, TLS, credentials: nothing else depends on what they do.
- Standalone clients, sub-pools, pools of one host and `fanOutOnly()`: variants of the
  modelled paths.
