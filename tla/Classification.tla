---------------------------- MODULE Classification ----------------------------
(***************************************************************************)
(* The classification of SQL texts: classifyQueryAsync() looks a text up   *)
(* in a bounded in-memory map with least-recently-used order, then in a    *)
(* Redis that the processes of an installation share, and parses the text  *)
(* when neither has it.                                                    *)
(*                                                                         *)
(* One action is one run of the event loop, from the resumption of an      *)
(* await to the next.  Redis and its client library are the environment:   *)
(* a command may fail, a key may expire or be written by another process,  *)
(* a connect may fail.  What a text parses to is a part of the text:       *)
(* word is its leading keyword when the text is taken apart without the    *)
(* parser, and stmts the statements the parser returns.                    *)
(***************************************************************************)
EXTENDS Naturals, Sequences

CONSTANTS
    Null,
    Queries,
    Texts,          \* the SQL texts
    CacheMax,       \* CACHE_MAX
    MaxFaults       \* bound: failures of Redis, of shards and of the local Postgres

\* "garbage" does not parse, and "blank" is an empty text or one of spaces.
Words == {"blank", "LISTEN", "UNLISTEN", "NOTIFY", "CALL", "SQL", "garbage"}

CommandTypes ==
    {"SELECT", "FUNCTION", "INSERT", "UPDATE", "DELETE", "CALL",
     "LISTEN", "UNLISTEN", "NOTIFY", "UNKNOWN"}

Classes == [commandType : CommandTypes, hasReturning : BOOLEAN]

Refused == [commandType |-> "refused", hasReturning |-> FALSE]   \* MtddSqlParseError
Garbage == [commandType |-> "garbage", hasReturning |-> FALSE]   \* no classification

ASSUME ClassificationAssumption ==
    /\ CacheMax \in Nat \ {0}
    /\ MaxFaults \in Nat
    /\ Null \notin Classes \cup {Garbage, Refused}
    /\ \A t \in Texts :
         /\ t.word \in Words
         /\ t.word = "blank" => t.stmts = <<>>
         /\ t.stmts # <<>> => t.stmts[1].returning \in BOOLEAN

VARIABLES
    memory,     \* memoryCache, oldest use first
    redis,      \* what the shared Redis holds for each text
    link,       \* redisClient and its connect promise
    posted,     \* texts whose classification is on its way to Redis, nobody waiting
    asked,      \* of each query: what it awaits and what it was told
    faults

cache == <<memory, redis, link, posted>>
classifying == <<cache, asked>>

Asked ==
    [pc : {"new", "client", "get", "expire", "set", "ready", "thrown"},
     text : Texts,
     goal : {"get", "set"},         \* what the client is awaited for
     read : Classes \cup {Garbage, Null},   \* the reply of GET
     class : Classes \cup {Null}]

Entry == [text : Texts, class : Classes]

ClassificationTypeOK ==
    /\ memory \in Seq(Entry)
    /\ redis \in [Texts -> Classes \cup {Garbage, Null}]
    /\ link \in {"off", "none", "connecting", "up", "dead", "closing"}
    /\ posted \subseteq Texts
    /\ asked \in [Queries -> Asked]
    /\ faults \in 0..MaxFaults
---------------------------------------------------------------------------
(***************************************************************************)
(* sql-parse.ts: what a text is.                                           *)
(***************************************************************************)
Class(type, returning) == [commandType |-> type, hasReturning |-> returning]

\* classifySelectStatement(): a function in FROM, or calls only and no FROM.
SelectType(s) ==
    IF \/ s.from = "call"
       \/ /\ s.from = "none"
          /\ s.columns # <<>>
          /\ \A i \in DOMAIN s.columns : s.columns[i].expr.type = "call"
    THEN "FUNCTION" ELSE "SELECT"

\* classifyFromStatement(); WITH is looked through, so a statement is its body.
StatementClass(s) ==
    CASE s.type = "select" -> Class(SelectType(s), FALSE)
      [] s.type = "insert" -> Class("INSERT", s.returning)
      [] s.type = "update" -> Class("UPDATE", s.returning)
      [] s.type = "delete" -> Class("DELETE", s.returning)
      [] OTHER -> Class("UNKNOWN", FALSE)

\* computeClassification() and classifyFromAst().
Computed(t) ==
    IF t.word \in {"LISTEN", "UNLISTEN", "NOTIFY", "CALL"} THEN Class(t.word, FALSE)
    ELSE IF t.word = "garbage" \/ Len(t.stmts) > 1 THEN Refused
    ELSE IF t.stmts = <<>> THEN Class("UNKNOWN", FALSE)
    ELSE StatementClass(t.stmts[1])
---------------------------------------------------------------------------
(***************************************************************************)
(* ast-classify-cache.ts.                                                  *)
(***************************************************************************)
\* m without its i-th entry.
Drop(m, i) == [j \in 1..Len(m) - 1 |-> IF j < i THEN m[j] ELSE m[j + 1]]

Position(m, t) == {i \in 1..Len(m) : m[i].text = t}

\* getFromMemory(): a hit becomes the entry used last.
Used(m, i) == Append(Drop(m, i), m[i])

\* Mutant: nothing is evicted before the map holds more than CACHE_MAX entries.
Room_Late(m) == IF Len(m) > CacheMax THEN Drop(m, 1) ELSE m

\* The oldest entry makes room, also for a text that is cached already.
Room(m) == IF Len(m) >= CacheMax THEN Drop(m, 1) ELSE m

\* setInMemory(): the new value of a text that is cached stays where the old one was.
Stored(m, t, class) ==
    LET r == Room(m) IN
    IF Position(r, t) = {} THEN Append(r, [text |-> t, class |-> class])
    ELSE [i \in 1..Len(r) |-> IF r[i].text = t THEN [text |-> t, class |-> class] ELSE r[i]]

\* isRedisConfigured()
Configured == link # "off"

\* getRedisClient() up to its await: the first use creates the client and connects it.
Opened == IF link = "none" THEN "connecting" ELSE link

Fault == faults < MaxFaults /\ faults' = faults + 1

\* The classification is known and cached; Redis has still to be told, if there is one.
Parsed(q, class) ==
    /\ memory' = Stored(memory, asked[q].text, class)
    /\ link' = Opened
    /\ asked' = [asked EXCEPT ![q].pc = IF Configured THEN "client" ELSE "ready",
                              ![q].goal = "set", ![q].read = Null, ![q].class = class]

\* classifyQueryAsync() when no cache has the text: a text that is refused is not cached.
Parse(q) ==
    LET class == Computed(asked[q].text) IN
    IF class = Refused
    THEN /\ asked' = [asked EXCEPT ![q].pc = "thrown", ![q].read = Null]
         /\ UNCHANGED <<memory, link>>
    ELSE Parsed(q, class)

Answer(q, class) ==
    asked' = [asked EXCEPT ![q].pc = "ready", ![q].read = Null, ![q].class = class]

\* A blank text is not looked up.
AskBlank(q) ==
    /\ asked[q].pc = "new"
    /\ asked[q].text.word = "blank"
    /\ Answer(q, Class("UNKNOWN", FALSE))
    /\ UNCHANGED <<cache, faults>>

\* A hit in memory refreshes the entry's time to live in Redis and does not wait for it.
AskHit(q) ==
    /\ asked[q].pc = "new"
    /\ asked[q].text.word # "blank"
    /\ \E i \in Position(memory, asked[q].text) :
         /\ memory' = Used(memory, i)
         /\ Answer(q, memory[i].class)
    /\ link' = Opened
    /\ UNCHANGED <<redis, posted, faults>>

AskMiss(q) ==
    /\ asked[q].pc = "new"
    /\ asked[q].text.word # "blank"
    /\ Position(memory, asked[q].text) = {}
    /\ IF Configured
       THEN /\ asked' = [asked EXCEPT ![q].pc = "client", ![q].goal = "get"]
            /\ link' = Opened
            /\ UNCHANGED memory
       ELSE Parse(q)
    /\ UNCHANGED <<redis, posted, faults>>

\* The await of redisConnectPromise ends.  Whether it failed or the cache was closed
\* meanwhile, a lookup goes on to parse and a store is given up.
ClientAwaited(q) ==
    /\ asked[q].pc = "client"
    /\ link # "connecting"
    /\ IF link = "up"
       THEN asked' = [asked EXCEPT ![q].pc = asked[q].goal] /\ UNCHANGED <<memory, link>>
       ELSE IF asked[q].goal = "get" THEN Parse(q)
       ELSE asked' = [asked EXCEPT ![q].pc = "ready"] /\ UNCHANGED <<memory, link>>
    /\ UNCHANGED <<redis, posted, faults>>

\* A command fails by itself, or because the client is closed.
CommandFails == IF link = "up" THEN Fault ELSE UNCHANGED faults

\* GET, and EXPIRE when it finds something.
RedisGet(q) ==
    /\ asked[q].pc = "get"
    /\ \/ /\ link = "up"
          /\ IF redis[asked[q].text] = Null THEN Parse(q)
             ELSE /\ asked' = [asked EXCEPT ![q].pc = "expire",
                                            ![q].read = redis[asked[q].text]]
                  /\ UNCHANGED <<memory, link>>
          /\ UNCHANGED faults
       \/ CommandFails /\ Parse(q)
    /\ UNCHANGED <<redis, posted>>

\* Mutant: what Redis replied is taken as it is.
Deserialized_Any(read) == TRUE

\* deserializeClassification() accepts the reply.
Deserialized(read) == read # Garbage

\* EXPIRE is answered; only then the reply of GET is looked at.
RedisExpire(q) ==
    /\ asked[q].pc = "expire"
    /\ \/ /\ link = "up"
          /\ IF Deserialized(asked[q].read)
             THEN /\ memory' = Stored(memory, asked[q].text, asked[q].read)
                  /\ Answer(q, asked[q].read)
                  /\ UNCHANGED link
             ELSE Parse(q)
          /\ UNCHANGED faults
       \/ CommandFails /\ Parse(q)
    /\ UNCHANGED <<redis, posted>>

\* setInRedis() after its awaits; a failure is ignored.
RedisSet(q) ==
    /\ asked[q].pc = "set"
    /\ \/ /\ link = "up"
          /\ redis' = [redis EXCEPT ![asked[q].text] = asked[q].class]
          /\ UNCHANGED faults
       \/ CommandFails /\ UNCHANGED redis
    /\ asked' = [asked EXCEPT ![q].pc = "ready"]
    /\ UNCHANGED <<memory, link, posted>>

Classify(q) ==
    \/ AskBlank(q) \/ AskHit(q) \/ AskMiss(q) \/ ClientAwaited(q)
    \/ RedisGet(q) \/ RedisExpire(q) \/ RedisSet(q)

\* What classifyQuery() returns for a text that is not refused.
Known(t) ==
    IF Position(memory, t) = {} THEN Computed(t)
    ELSE memory[CHOOSE i \in Position(memory, t) : TRUE].class

\* classifyQuery(), which the checks and the merge call again on a classified text:
\* Redis is told, or refreshed, without waiting.
Reclassify(t) ==
    LET hit == Position(memory, t) IN
    /\ memory' = IF hit # {} THEN Used(memory, CHOOSE i \in hit : TRUE)
                 ELSE Stored(memory, t, Computed(t))
    /\ link' = Opened
    /\ posted' = IF hit = {} /\ Configured THEN posted \cup {t} ELSE posted
    /\ UNCHANGED redis

\* setRedisFireAndForget() after its awaits.
Posted(t) ==
    /\ t \in posted
    /\ link # "connecting"
    /\ posted' = posted \ {t}
    /\ \/ link = "up" /\ redis' = [redis EXCEPT ![t] = Computed(t)] /\ UNCHANGED faults
       \/ CommandFails /\ UNCHANGED redis
    /\ UNCHANGED <<memory, link, asked>>

\* The connect promise settles.  A rejected one is kept: every later await of it throws.
Connected ==
    /\ link = "connecting"
    /\ \/ link' = "up" /\ UNCHANGED faults
       \/ link' = "dead" /\ Fault
    /\ UNCHANGED <<memory, redis, posted, asked>>

\* closeAstClassifyCache() up to the await of quit(); a close while the client still
\* connects is left out.
CloseCache ==
    /\ link = "up"
    /\ link' = "closing"
    /\ UNCHANGED <<memory, redis, posted, asked, faults>>

\* ... and after it, or at once when the client is not open.
CacheClosed ==
    /\ link \in {"off", "none", "closing", "dead"}
    /\ link' = IF Configured THEN "none" ELSE "off"
    /\ memory' = <<>>
    /\ UNCHANGED <<redis, posted, asked, faults>>

\* Another process stores the text, or another program a value under its key; or the
\* key expires or is evicted.
Elsewhere(t) ==
    /\ Configured
    /\ redis[t] = Null
    /\ Fault
    /\ \/ Computed(t) # Refused /\ redis' = [redis EXCEPT ![t] = Computed(t)]
       \/ redis' = [redis EXCEPT ![t] = Garbage]
    /\ UNCHANGED <<memory, link, posted, asked>>

Expired(t) ==
    /\ redis[t] # Null
    /\ redis' = [redis EXCEPT ![t] = Null]
    /\ UNCHANGED <<memory, link, posted, asked, faults>>

\* Bound: Redis holds nothing that no query asks for.
Asking == {t \in {asked[q].text : q \in Queries} : t.word # "blank"}

RedisEnvironment ==
    \/ Connected \/ CloseCache \/ CacheClosed
    \/ \E t \in Asking : Posted(t) \/ Elsewhere(t) \/ Expired(t)

ClassificationInit ==
    /\ memory = <<>>
    /\ redis = [t \in Texts |-> Null]
    /\ posted = {}
    /\ link \in {"off", "none"}
    /\ faults = 0

NewQuestion(t) == [pc |-> "new", text |-> t, goal |-> "get", read |-> Null, class |-> Null]
---------------------------------------------------------------------------
\* At any time, whoever evicts, expires, stores or fails, the caches are sound: the map
\* is no larger than CACHE_MAX, has no text twice, and what it holds for a text, and what
\* a query is told, is what the parser says of that text.  (A wrong type routes a
\* statement to the wrong shards or merges its results the wrong way.)
CacheSound ==
    /\ Len(memory) <= CacheMax
    /\ \A i, j \in 1..Len(memory) : memory[i].text = memory[j].text => i = j
    /\ \A i \in 1..Len(memory) : memory[i].class = Computed(memory[i].text)
    /\ \A q \in Queries :
         asked[q].pc = "ready" => asked[q].class = Computed(asked[q].text)
============================================================================
