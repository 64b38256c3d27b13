-------------------------------- MODULE FanOut --------------------------------
(***************************************************************************)
(* A query of a pool without a tid, from its text to its answer: it is     *)
(* classified (Classification), refused or sent to every shard             *)
(* (SelectFanOut), and the shards' results are merged, in memory or by     *)
(* running the whole SELECT on a temporary table of a local Postgres,      *)
(* whose clients the queries share.                                        *)
(*                                                                         *)
(* One action is one run of the event loop between two awaits.  Retries,   *)
(* fan-out policies, pins and the hub are in ShardRouting: here a shard    *)
(* answers with a stream of chunks, once, or fails.                        *)
(***************************************************************************)
EXTENDS Classification, SelectFanOut

CONSTANTS
    Shards,         \* a sequence of hosts
    Workloads,      \* bound: what the application asks, a text or Null for each query; the
                    \* fields of the table and its rows on each shard; whether a Redis is
                    \* configured
    LocalClients    \* the clients of the pool of the local Postgres

ASSUME FanOutAssumption ==
    /\ \A w \in Workloads : w.ask \in [Queries -> Texts \cup {Null}] /\ w.redis \in BOOLEAN
    /\ \E t \in Texts : t.word = "blank"
    /\ Shards # <<>>
    /\ Nothing # Null
    /\ Null \notin Queries /\ Null \notin LocalClients

VARIABLES
    tables,     \* the fields of the table and its rows on each shard
    work,       \* of each query: what it does once it is classified
    local       \* of each client of the local pool: its holder and its session

vars == <<classifying, faults, tables, work, local>>

Working ==
    {"idle", "classify", "shards", "connect", "begin", "create", "load", "run",
     "commit", "rollback", "done"}

Idle == [holder |-> Null, tx |-> "none", temp |-> Null]

Tables == {w.tables : w \in Workloads}

\* Every variable has its type; a client has a holder while a query uses it.
TypeOK ==
    /\ ClassificationTypeOK
    /\ tables \in Tables
    /\ \A q \in Queries :
         /\ work[q].pc \in Working
         /\ work[q].client \in LocalClients \cup {Null}
         /\ work[q].pc \in {"begin", "create", "load", "run", "commit", "rollback"}
              <=> work[q].client # Null
         /\ work[q].client # Null => local[work[q].client].holder = q
    /\ \A c \in LocalClients :
         /\ local[c].holder \in Queries \cup {Null}
         /\ local[c].tx \in {"none", "open", "aborted"}

ShardIndex == DOMAIN Shards

\* kind, sent: see Split.  values: the bound values.  answers: the shards' results.
\* cut: ghost, a stream among them was ended by an ERROR without meta.
NoWork ==
    [pc |-> "idle", kind |-> "plain", sent |-> Null, values |-> 0,
     answers |-> [i \in ShardIndex |-> Null], cut |-> FALSE, answer |-> Null, client |-> Null]

NoText == CHOOSE t \in Texts : t.word = "blank"

Init ==
    /\ ClassificationInit
    /\ \E w \in Workloads :
         /\ link = IF w.redis THEN "none" ELSE "off"
         /\ tables = w.tables
         /\ asked = [q \in Queries |-> NewQuestion(IF w.ask[q] = Null THEN NoText ELSE w.ask[q])]
         /\ work = [q \in Queries |-> [NoWork EXCEPT !.pc = IF w.ask[q] = Null THEN "done"
                                                              ELSE "idle"]]
    /\ local = [c \in LocalClients |-> Idle]

EveryRow == FlattenSeq([i \in ShardIndex |-> tables.rows[i]])
Table(rows) == [fields |-> tables.fields, rows |-> rows]

Text(q) == asked[q].text

\* A blank text is sent as it is and does nothing.
Blank == [type |-> "other", param |-> "none"]

Statement(q) == IF Text(q).stmts = <<>> THEN Blank ELSE Text(q).stmts[1]
---------------------------------------------------------------------------
(***************************************************************************)
(* query-executor.ts.                                                      *)
(***************************************************************************)
\* The application issues the query.
Issue(q) ==
    /\ work[q].pc = "idle"
    /\ work' = [work EXCEPT ![q].pc = "classify"]
    /\ UNCHANGED <<classifying, faults, tables, local>>

\* attachQueryClassification()
ClassifyQuery(q) ==
    /\ work[q].pc = "classify"
    /\ Classify(q)
    /\ UNCHANGED <<tables, work, local>>

Finished(w, answer) == [w EXCEPT !.pc = "done", !.answer = answer, !.client = Null]

\* The parser refused the text.
Unclassified(q) ==
    /\ work[q].pc = "classify"
    /\ asked[q].pc = "thrown"
    /\ work' = [work EXCEPT ![q] = Finished(@, Error)]
    /\ UNCHANGED <<classifying, faults, tables, local>>

NotifyTypes == {"LISTEN", "UNLISTEN", "NOTIFY"}

\* classifyQuery() of a text that has a classification.
ReclassifyQuery(q) ==
    IF Text(q).word = "blank" THEN UNCHANGED cache ELSE Reclassify(Text(q))

\* LISTEN, UNLISTEN and NOTIFY go to their handler (NotifyTransport).
Handed(q) ==
    /\ work[q].pc = "classify"
    /\ asked[q].pc = "ready"
    /\ asked[q].class.commandType \in NotifyTypes
    /\ work' = [work EXCEPT ![q] = Finished(@, Null)]
    /\ UNCHANGED <<classifying, faults, tables, local>>

\* What is sent to the shards: fanOutQuery() refuses INSERT, CALL and FUNCTION, as the
\* checks before it do, and splits a SELECT.
Plan(q) ==
    CASE asked[q].class.commandType \in {"INSERT", "CALL", "FUNCTION"} ->
           [kind |-> "refused", shard |-> Statement(q)]
      [] asked[q].class.commandType = "SELECT" -> Split(Statement(q))
      [] OTHER -> [kind |-> "plain", shard |-> Statement(q)]

\* executeRoutedQuery() and fanOutQuery() up to the await of the shards.  The checks
\* classify again what is no INSERT, and the second attachQueryClassification() finds
\* what they stored.
FanOutQuery(q) ==
    /\ work[q].pc = "classify"
    /\ asked[q].pc = "ready"
    /\ asked[q].class.commandType \notin NotifyTypes
    /\ LET plan == Plan(q) IN
         work' = [work EXCEPT ![q] =
            IF plan.kind = "refused" THEN Finished(@, Error)
            ELSE [@ EXCEPT !.pc = "shards", !.kind = plan.kind, !.sent = plan.shard,
                           !.values = IF Statement(q).param = "none" THEN 0 ELSE 1]]
    /\ IF asked[q].class.commandType = "INSERT" THEN UNCHANGED cache ELSE ReclassifyQuery(q)
    /\ UNCHANGED <<asked, faults, tables, local>>

\* fanOutQuery() and fanOutSelectWithLocalMerge() once every shard has answered.
AllAnswered(q, w) ==
    IF w.kind = "plain"
    THEN /\ work' = [work EXCEPT ![q] =
                       Finished(w, Merged([Known(Text(q)) EXCEPT
                                              !.hasReturning = asked[q].class.hasReturning],
                                          w.answers))]
         /\ ReclassifyQuery(q)
    ELSE /\ work' = [work EXCEPT ![q] =
                       IF FirstFields(w.answers) = <<>> THEN Finished(w, Result(<<>>, <<>>))
                       ELSE [w EXCEPT !.pc = "connect"]]
         /\ UNCHANGED cache

\* Mutant: an error is kept as that shard's result.
Received_Swallows(q, i, chunks) ==
    LET answer == Decoded(chunks)
        w == [work[q] EXCEPT !.answers[i] = answer, !.cut = @ \/ Bare(chunks) # {}]
    IN IF answer # Error /\ Null \notin ToSet(w.answers) THEN AllAnswered(q, w)
       ELSE work' = [work EXCEPT ![q] = w] /\ UNCHANGED cache

\* The stream of a shard has come; the first error answers the query.
Received(q, i, chunks) ==
    LET answer == Decoded(chunks)
        w == [work[q] EXCEPT !.answers[i] = answer, !.cut = @ \/ Bare(chunks) # {}]
    IN IF answer # Error /\ Null \notin ToSet(w.answers) THEN AllAnswered(q, w)
       ELSE /\ work' = [work EXCEPT ![q] = IF answer = Error THEN Finished(w, Error) ELSE w]
            /\ UNCHANGED cache

\* The stream of a shard ends: promisifyQueryStream().  With a fault the statement fails
\* while its rows are sent, or the call does, which is one more error.
ShardAnswers(q, i) ==
    /\ work[q].pc = "shards"
    /\ work[q].answers[i] = Null
    /\ \E r \in Executed(work[q].sent, work[q].values, Table(tables.rows[i])) :
         \/ /\ \E chunks \in Streams(r) : Received(q, i, chunks)
            /\ UNCHANGED faults
         \/ /\ Fault
            /\ \E chunks \in BrokenStreams(r) : Received(q, i, chunks)
    /\ UNCHANGED <<asked, tables, local>>
---------------------------------------------------------------------------
(***************************************************************************)
(* postgres-select-merge.ts and postgres-local.ts.                         *)
(***************************************************************************)
\* The answer of a query that has waited too long for a client of the pool.
TimedOut == [Error EXCEPT !.rowCount = -2]

\* pool.connect(): the pool has a client free, or opens one, which may fail; or all are
\* in use for longer than MTDD_LOCAL_PG_CONNECT_TIMEOUT_MS.
Connect(q) ==
    /\ work[q].pc = "connect"
    /\ \/ \E c \in LocalClients :
            /\ local[c].holder = Null
            /\ local' = [local EXCEPT ![c].holder = q]
            /\ work' = [work EXCEPT ![q].pc = "begin", ![q].client = c]
            /\ UNCHANGED faults
       \/ /\ Fault
          /\ work' = [work EXCEPT ![q] = Finished(@, Error)]
          /\ UNCHANGED local
       \/ /\ \A c \in LocalClients : local[c].holder # Null
          /\ work' = [work EXCEPT ![q] = Finished(@, TimedOut)]
          /\ UNCHANGED <<faults, local>>
    /\ UNCHANGED <<classifying, tables>>

\* Mutant: a client is released as it is when the transaction fails.
Rollback_Never(c) == c

\* ROLLBACK ends the transaction and drops its temporary table.
Rollback(c) == [c EXCEPT !.tx = "none", !.temp = Null]

\* client.release() after the callback has returned or thrown.
Released(c) == [c EXCEPT !.holder = Null]

\* A statement on the query's client ends well and leads to the await next, with the
\* session as given; or fails, and ROLLBACK is next.  A connection that is lost is left
\* out: nothing listens for its 'error' event, which ends the process.
LocalStep(q, at, next, session) ==
    LET c == work[q].client IN
    /\ work[q].pc = at
    /\ \/ /\ local' = [local EXCEPT ![c] = session]
          /\ work' = [work EXCEPT ![q].pc = next]
          /\ UNCHANGED faults
       \/ /\ Fault
          /\ local' = [local EXCEPT ![c].tx = "aborted"]
          /\ work' = [work EXCEPT ![q].pc = "rollback"]
    /\ UNCHANGED <<classifying, tables>>

\* The statement is refused by Postgres.
LocalRefused(q) ==
    /\ local' = [local EXCEPT ![work[q].client].tx = "aborted"]
    /\ work' = [work EXCEPT ![q].pc = "rollback"]
    /\ UNCHANGED <<classifying, faults, tables>>

\* BEGIN is outside the try: when it fails the client is released without a ROLLBACK.
LocalBegin(q) ==
    /\ work[q].pc = "begin"
    /\ LET c == work[q].client IN
       \/ /\ local' = [local EXCEPT ![c].tx = "open"]
          /\ work' = [work EXCEPT ![q].pc = "create"]
          /\ UNCHANGED faults
       \/ /\ Fault
          /\ local' = [local EXCEPT ![c] = Released(@)]
          /\ work' = [work EXCEPT ![q] = Finished(@, Error)]
    /\ UNCHANGED <<classifying, tables>>

\* CREATE TEMP TABLE ... ON COMMIT DROP
LocalCreate(q) ==
    LET fields == FirstFields(work[q].answers) IN
    IF work[q].pc = "create" /\ ~Distinct(Names(fields)) THEN LocalRefused(q)
    ELSE LocalStep(q, "create", "load",
                   [local[work[q].client] EXCEPT !.temp = [fields |-> fields, rows |-> <<>>]])

\* loadRowsIntoTempTable(), and the index, which does not change any result.
LocalLoad(q) ==
    IF work[q].pc = "load" /\ LoadRefused(work[q].answers) THEN LocalRefused(q)
    ELSE LocalStep(q, "load", "run",
                   [local[work[q].client] EXCEPT !.temp = Loaded(work[q].answers)])

\* The whole statement, with its values.
LocalRun(q) ==
    /\ work[q].pc = "run"
    /\ LET c == work[q].client IN
       \/ \E r \in LocalResults(Statement(q), work[q].values, local[c].temp) :
            IF r = Error THEN LocalRefused(q)
            ELSE /\ work' = [work EXCEPT ![q].pc = "commit", ![q].answer = r]
                 /\ UNCHANGED <<classifying, faults, tables, local>>
       \/ /\ Fault
          /\ local' = [local EXCEPT ![c].tx = "aborted"]
          /\ work' = [work EXCEPT ![q].pc = "rollback"]
          /\ UNCHANGED <<classifying, tables>>

\* COMMIT drops the table and the query is answered; a COMMIT that fails rolls back.
LocalCommit(q) ==
    /\ work[q].pc = "commit"
    /\ LET c == work[q].client IN
       \/ /\ local' = [local EXCEPT ![c] = Released([@ EXCEPT !.tx = "none", !.temp = Null])]
          /\ work' = [work EXCEPT ![q] = Finished(@, work[q].answer)]
          /\ UNCHANGED faults
       \/ /\ Fault
          /\ local' = [local EXCEPT ![c] = Rollback(@)]
          /\ work' = [work EXCEPT ![q].pc = "rollback"]
    /\ UNCHANGED <<classifying, tables>>

LocalRollback(q) ==
    /\ work[q].pc = "rollback"
    /\ LET c == work[q].client IN
       local' = [local EXCEPT ![c] = Released(Rollback(@))]
    /\ work' = [work EXCEPT ![q] = Finished(@, Error)]
    /\ UNCHANGED <<classifying, faults, tables>>
---------------------------------------------------------------------------
Merge(q) ==
    \/ Connect(q) \/ LocalBegin(q) \/ LocalCreate(q) \/ LocalLoad(q) \/ LocalRun(q)
    \/ LocalCommit(q) \/ LocalRollback(q)

Step(q) ==
    \/ ClassifyQuery(q) \/ Unclassified(q) \/ Handed(q) \/ FanOutQuery(q)
    \/ \E i \in ShardIndex : ShardAnswers(q, i)
    \/ Merge(q)

Environment == RedisEnvironment /\ UNCHANGED <<tables, work, local>>

Next ==
    \/ \E q \in Queries : Issue(q) \/ Step(q)
    \/ Environment

Spec == Init /\ [][Next]_vars

AwaitsConnect(q) ==
    work[q].pc = "classify" /\ asked[q].pc = "client" /\ link = "connecting"

\* The query has a step to take: ENABLED Step(q), spelled out.
Runnable(q) ==
    \/ work[q].pc = "classify" /\ ~AwaitsConnect(q)
    \/ work[q].pc = "shards" /\ \E i \in ShardIndex : work[q].answers[i] = Null
    \/ work[q].pc \notin {"idle", "classify", "shards", "done"}

\* Weak fairness of the steps of each query, which alone change its record: callbacks
\* run, shards and the local Postgres answer or fail, a connected Redis replies or fails.
\* Not that the connect promise of Redis settles: with the reconnect strategy of the
\* client, which is the default, connect() tries without end while Redis is unreachable.
Fairness == \A q \in Queries : []<>~Runnable(q) \/ []<><<TRUE>>_<<work[q], asked[q]>>

FairSpec == Spec /\ Fairness
---------------------------------------------------------------------------
(***************************************************************************)
(* What a fan-out promises: the answer Postgres would give if one table    *)
(* held the rows of all shards.  The definitions that follow name the      *)
(* cases in which the code gives another answer, as a success.             *)
(***************************************************************************)
\* Results that are only concatenated: LIMIT, OFFSET, DISTINCT, GROUP BY and the aggregates
\* that the walk over the columns misses, inside a cast or a CASE, apply per shard.
PerShard(s) ==
    /\ Split(s).kind = "plain"
    /\ s.limit # Nothing \/ s.offset \/ s.distinct \/ Grouped(s)

\* The shards reduce the rows that the local Postgres is to aggregate, by DISTINCT, or by
\* aggregates and GROUP BY when the only aggregate that is seen is in ORDER BY, or one
\* inside a cast is taken for a column.  The code's comment (select-local-fanout.ts:489)
\* says that the shards run row-level SQL.
ReducedRows(s) ==
    /\ Split(s).kind = "merge"
    /\ \E e \in ExprsOf(s.columns) \cup Having(s) \cup ToSet(s.orderBy) : Aggregates(e)
    /\ s.distinct \/ Grouped(Split(s).shard)

RowsLoaded(q, strategy) ==
    IF work[q].kind = "merge" /\ LoadStrategy(AllRows(work[q].answers)) = strategy
    THEN ToSet(AllRows(work[q].answers)) ELSE {}

FieldsLoaded(q) ==
    IF work[q].kind = "merge" THEN ToSet(FirstFields(work[q].answers)) ELSE {}

\* COPY reads an empty text as NULL, and the JSON of a Buffer for its bytes.
ChangedByCopy(q) ==
    \E r \in RowsLoaded(q, "copy"), f \in FieldsLoaded(q) :
        r[f.name] = Empty \/ (f.type = "bytes" /\ r[f.name] # SqlNull)

\* UNNEST cuts the values of char(n) to one character.
CutByUnnest(q) ==
    \E r \in RowsLoaded(q, "unnest"), f \in FieldsLoaded(q) : TooLong(f.type, r[f.name])

\* A column is a text in the local Postgres: it comes back, is sorted and compared as one.
Retyped(q) == \E f \in FieldsLoaded(q) : LoadedType(f.type) # f.type

AnsweredWithRows(q) ==
    work[q].pc = "done" /\ work[q].answer \notin {Null, Error, TimedOut} /\ Text(q).stmts # <<>>

\* A query that is answered has the answer of one table with the rows of all shards, for
\* a SELECT, UPDATE or DELETE: however the shards order their rows, batch their streams
\* and fail, and whatever the caches have evicted since the query was classified.  Where
\* the code does otherwise, the case is named: the definitions above, and a stream that
\* an ERROR without meta has ended, whose rows so far are taken for all.
AnswerExact ==
    \A q \in Queries :
        LET s == Statement(q) IN
        AnsweredWithRows(q) =>
            \/ work[q].cut
            \/ /\ s.type = "select"
               /\ \/ PerShard(s) \/ ReducedRows(s)
                  \/ ChangedByCopy(q) \/ CutByUnnest(q) \/ Retyped(q)
            \/ work[q].answer \in Executed(s, work[q].values, Table(EveryRow))

\* Whatever fails, a client that the local pool may hand to the next query has no open or
\* aborted transaction and no temporary table of an earlier one.
LocalClean == \A c \in LocalClients : local[c].holder = Null => local[c] = Idle

\* A query that is issued is answered: it comes to rest nowhere but at its answer, or at the
\* connect promise of Redis, for as long as Redis is unreachable.  Nothing else waits
\* forever, for a classification, a reply of Redis, or a client of the local pool.  The
\* comment at ast-classify-cache.ts:171, "fall through to parse without failing routing",
\* is that of a catch block: a connect that goes on trying throws nothing.
Answered ==
    \A q \in Queries : []<>(work[q].pc \in {"idle", "done"} \/ AwaitsConnect(q))
=============================================================================
