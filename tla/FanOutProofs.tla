----------------------------- MODULE FanOutProofs -----------------------------
(***************************************************************************)
(* Proofs about FanOut, for all texts, sizes of the cache and clients of   *)
(* the local pool: every variable has its type, the caches never hold a    *)
(* wrong classification, and no client goes back to the local pool with    *)
(* something of a query left.                                              *)
(***************************************************************************)
EXTENDS FanOut, TLAPS

Parses == {Computed(t) : t \in Texts}
Cells == [text : Texts, class : Parses]

\* What the map in memory is: small enough, no text twice, every class the parser's.
Sound(m) ==
    /\ m \in Seq(Cells)
    /\ Len(m) <= CacheMax
    /\ \A i, j \in 1..Len(m) : m[i].text = m[j].text => i = j
    /\ \A i \in 1..Len(m) : m[i].class = Computed(m[i].text)

\* What Redis holds for a text, or replied, is the parser's class or no class at all.
Trusted(t, read) == read \in {Computed(t), Garbage, Null}

RedisSound ==
    /\ redis = [t \in Texts |-> redis[t]]
    /\ \A t \in Texts : Trusted(t, redis[t])

Questions ==
    [pc : {"new", "client", "get", "expire", "set", "ready", "thrown"}, text : Texts,
     goal : {"get", "set"}, read : Parses \cup {Garbage, Null}, class : Parses \cup {Null}]

\* A query has been told the class of its text, or has the reply of Redis to look at.
QuestionSound(a) ==
    /\ a \in Questions
    /\ a.pc \in {"set", "ready"} \/ (a.pc = "client" /\ a.goal = "set")
         => a.class = Computed(a.text)
    /\ a.pc = "expire" => a.read \in {Computed(a.text), Garbage}

AskedSound ==
    /\ asked = [q \in Queries |-> asked[q]]
    /\ \A q \in Queries : QuestionSound(asked[q])

CacheInv ==
    /\ Sound(memory)
    /\ RedisSound
    /\ AskedSound
---------------------------------------------------------------------------
(***************************************************************************)
(* The map with the least recently used entry first.                       *)
(***************************************************************************)
\* CACHE_MAX is a positive number.
LEMMA CacheMaxNat == CacheMax \in Nat /\ CacheMax >= 1
<1>1. CacheMax \in Nat \ {0}
  BY ClassificationAssumption
<1> QED
  BY <1>1

\* Taking an entry out keeps the map sound and makes room for one.
LEMMA DropSound ==
    ASSUME NEW m, Sound(m), NEW i \in 1..Len(m)
    PROVE  /\ Sound(Drop(m, i))
           /\ Len(Drop(m, i)) = Len(m) - 1
           /\ \A j \in 1..Len(Drop(m, i)) : Drop(m, i)[j].text # m[i].text
<1> DEFINE n == Len(m)
           d == Drop(m, i)
<1>1. n \in Nat /\ \A j \in 1..n : m[j] \in Cells
  BY DEF Sound
<1>2. /\ d \in Seq(Cells)
      /\ Len(d) = n - 1
      /\ \A j \in 1..n - 1 : d[j] = IF j < i THEN m[j] ELSE m[j + 1]
  <2>1. d = [j \in 1..n - 1 |-> IF j < i THEN m[j] ELSE m[j + 1]]
    BY DEF Drop
  <2>2. \A j \in 1..n - 1 : (IF j < i THEN m[j] ELSE m[j + 1]) \in Cells
    BY <1>1
  <2> QED
    BY <1>1, <2>1, <2>2
<1> HIDE DEF d
<1>3. \A j \in 1..n - 1 : \E k \in 1..n : k # i /\ d[j] = m[k] /\ k = IF j < i THEN j ELSE j + 1
  BY <1>1, <1>2
<1>4. \A j, k \in 1..n - 1 : d[j].text = d[k].text => j = k
  BY <1>1, <1>3 DEF Sound
<1>5. \A j \in 1..n - 1 : d[j].class = Computed(d[j].text) /\ d[j].text # m[i].text
  BY <1>1, <1>3 DEF Sound
<1>6. n - 1 <= CacheMax
  BY <1>1, CacheMaxNat DEF Sound
<1> QED
  BY <1>2, <1>4, <1>5, <1>6 DEF Sound, d

\* An entry of a text the map does not have can be added when there is room.
LEMMA AppendSound ==
    ASSUME NEW m, Sound(m), Len(m) < CacheMax, NEW e \in Cells, e.class = Computed(e.text),
           \A j \in 1..Len(m) : m[j].text # e.text
    PROVE  Sound(Append(m, e))
<1>1. /\ Append(m, e) \in Seq(Cells)
      /\ Len(Append(m, e)) = Len(m) + 1
      /\ Len(m) \in Nat
      /\ \A j \in 1..Len(m) + 1 : Append(m, e)[j] = IF j = Len(m) + 1 THEN e ELSE m[j]
  BY DEF Sound
<1>2. \A i, j \in 1..Len(m) + 1 : Append(m, e)[i].text = Append(m, e)[j].text => i = j
  BY <1>1 DEF Sound
<1>3. \A i \in 1..Len(m) + 1 : Append(m, e)[i].class = Computed(Append(m, e)[i].text)
  BY <1>1 DEF Sound
<1>4. Len(m) + 1 <= CacheMax
  BY <1>1, CacheMaxNat DEF Sound
<1> QED
  BY <1>1, <1>2, <1>3, <1>4 DEF Sound

\* A hit keeps the map sound.
LEMMA UsedSound ==
    ASSUME NEW m, Sound(m), NEW i \in 1..Len(m)
    PROVE  Sound(Used(m, i))
<1>1. /\ m[i] \in Cells
      /\ m[i].class = Computed(m[i].text)
      /\ Len(m) \in Nat
      /\ Len(m) <= CacheMax
      /\ CacheMax \in Nat
  BY CacheMaxNat DEF Sound
<1>2. /\ Sound(Drop(m, i))
      /\ Len(Drop(m, i)) = Len(m) - 1
      /\ \A j \in 1..Len(Drop(m, i)) : Drop(m, i)[j].text # m[i].text
  BY DropSound
<1>3. Len(Drop(m, i)) < CacheMax
  BY <1>1, <1>2
<1> QED
  BY <1>1, <1>2, <1>3, AppendSound DEF Used

\* Storing the class of a text keeps the map sound, whether it has the text or not.
LEMMA StoredSound ==
    ASSUME NEW m, Sound(m), NEW t \in Texts
    PROVE  Sound(Stored(m, t, Computed(t)))
<1> DEFINE r == Room(m)
           e == [text |-> t, class |-> Computed(t)]
<1>1. Sound(r) /\ Len(r) < CacheMax
  <2>1. Len(m) \in Nat /\ CacheMax \in Nat /\ CacheMax >= 1 /\ Len(m) <= CacheMax
    BY CacheMaxNat DEF Sound
  <2>2. CASE Len(m) >= CacheMax
    <3>1. 1 \in 1..Len(m)
      BY <2>1, <2>2
    <3>2. Sound(Drop(m, 1)) /\ Len(Drop(m, 1)) = Len(m) - 1
      BY <3>1, DropSound
    <3> QED
      BY <2>1, <2>2, <3>2 DEF Room
  <2>3. CASE ~(Len(m) >= CacheMax)
    BY <2>1, <2>3 DEF Room
  <2> QED
    BY <2>2, <2>3
<1>2. e \in Cells /\ e.class = Computed(e.text) /\ e.text = t
  BY DEF Cells, Parses
<1> HIDE DEF r
<1>3. CASE Position(r, t) = {}
  <2>1. \A j \in 1..Len(r) : r[j].text # e.text
    BY <1>2, <1>3 DEF Position
  <2>2. Sound(Append(r, e))
    BY <1>1, <1>2, <2>1, AppendSound
  <2> QED
    BY <1>3, <2>2 DEF Stored, r
<1>4. CASE Position(r, t) # {}
  <2> DEFINE s == [i \in 1..Len(r) |-> IF r[i].text = t THEN e ELSE r[i]]
  <2>1. Len(r) \in Nat /\ \A i \in 1..Len(r) : r[i] \in Cells
    BY <1>1 DEF Sound
  <2>2. s \in Seq(Cells) /\ Len(s) = Len(r)
    BY <1>2, <2>1
  <2>3. \A i \in 1..Len(r) : s[i].text = r[i].text /\ s[i].class = Computed(s[i].text)
    BY <1>1, <1>2, <2>1 DEF Sound
  <2>4. Stored(m, t, Computed(t)) = s
    BY <1>4 DEF Stored, r
  <2> HIDE DEF s
  <2> QED
    BY <1>1, <2>1, <2>2, <2>3, <2>4 DEF Sound
<1> QED
  BY <1>3, <1>4
---------------------------------------------------------------------------
(***************************************************************************)
(* The steps of a classification.                                          *)
(***************************************************************************)
\* A step that gives one query something sound, and keeps the caches so.
LEMMA OneQuestion ==
    ASSUME CacheInv, NEW q \in Queries, NEW a, QuestionSound(a),
           asked' = [asked EXCEPT ![q] = a]
    PROVE  AskedSound'
<1>1. asked' = [r \in Queries |-> IF r = q THEN a ELSE asked[r]]
  BY DEF CacheInv, AskedSound
<1>2. \A r \in Queries : asked'[r] = IF r = q THEN a ELSE asked[r]
  BY <1>1
<1>3. asked' = [r \in Queries |-> asked'[r]]
  BY <1>1
<1>4. \A r \in Queries : QuestionSound(asked'[r])
  BY <1>2 DEF CacheInv, AskedSound
<1> QED
  BY <1>3, <1>4 DEF AskedSound, QuestionSound

\* A query is in order before it takes a step.
LEMMA QuestionInv ==
    ASSUME CacheInv, NEW q \in Queries
    PROVE  /\ QuestionSound(asked[q])
           /\ asked[q].text \in Texts
           /\ Computed(asked[q].text) \in Parses
  BY DEF CacheInv, AskedSound, QuestionSound, Questions, Parses

\* Telling a query the class of its text.
LEMMA AnswerSound ==
    ASSUME CacheInv, NEW q \in Queries, NEW class, class = Computed(asked[q].text),
           Answer(q, class)
    PROVE  AskedSound'
<1> DEFINE a == [asked[q] EXCEPT !.pc = "ready", !.read = Null, !.class = class]
<1>1. asked' = [asked EXCEPT ![q] = a]
  BY DEF Answer
<1>2. QuestionSound(a)
  BY QuestionInv DEF QuestionSound, Questions
<1> HIDE DEF a
<1> QED
  BY <1>1, <1>2, OneQuestion

\* Parsing the text and storing its class.
LEMMA ParseSound ==
    ASSUME CacheInv, NEW q \in Queries, Parse(q)
    PROVE  Sound(memory') /\ AskedSound'
<1> DEFINE class == Computed(asked[q].text)
<1>1. CASE class = Refused
  <2> DEFINE a == [asked[q] EXCEPT !.pc = "thrown", !.read = Null]
  <2>1. asked' = [asked EXCEPT ![q] = a] /\ UNCHANGED memory
    BY <1>1 DEF Parse
  <2>2. QuestionSound(a)
    BY QuestionInv DEF QuestionSound, Questions
  <2> HIDE DEF a
  <2> QED
    BY <2>1, <2>2, OneQuestion DEF CacheInv
<1>2. CASE class # Refused
  <2> DEFINE a == [asked[q] EXCEPT !.pc = IF Configured THEN "client" ELSE "ready",
                                   !.goal = "set", !.read = Null, !.class = class]
  <2>1. asked' = [asked EXCEPT ![q] = a] /\ memory' = Stored(memory, asked[q].text, class)
    BY <1>2 DEF Parse, Parsed
  <2>2. QuestionSound(a)
    BY QuestionInv DEF QuestionSound, Questions
  <2>3. Sound(memory')
    BY <2>1, QuestionInv, StoredSound DEF CacheInv
  <2> HIDE DEF a
  <2> QED
    BY <2>1, <2>2, <2>3, OneQuestion
<1> QED
  BY <1>1, <1>2

\* A blank text is of no known type.
LEMMA BlankClass ==
    ASSUME NEW t \in Texts, t.word = "blank"
    PROVE  Computed(t) = Class("UNKNOWN", FALSE)
<1>1. t.stmts = <<>>
  BY ClassificationAssumption
<1>2. Len(<<>>) = 0
  OBVIOUS
<1>3. ~(Len(t.stmts) > 1)
  <2>1. ~(0 > 1)
    OBVIOUS
  <2> QED
    BY <1>1, <1>2, <2>1, Zenon
<1>4. t.word \notin {"LISTEN", "UNLISTEN", "NOTIFY", "CALL"} /\ t.word # "garbage"
  OBVIOUS
<1> QED
  BY <1>1, <1>3, <1>4, Zenon DEF Computed

\* Every step of classifyQueryAsync() keeps the caches sound.
LEMMA ClassifySound ==
    ASSUME CacheInv, NEW q \in Queries, Classify(q)
    PROVE  CacheInv'
<1> USE QuestionInv
<1>1. CASE AskBlank(q)
  <2>1. Computed(asked[q].text) = Class("UNKNOWN", FALSE)
    BY <1>1, BlankClass DEF AskBlank
  <2> QED
    BY <1>1, <2>1, AnswerSound DEF AskBlank, cache, CacheInv, RedisSound
<1>2. CASE AskHit(q)
  <2>1. PICK i \in Position(memory, asked[q].text) :
           memory' = Used(memory, i) /\ Answer(q, memory[i].class)
    BY <1>2 DEF AskHit
  <2>2. i \in 1..Len(memory) /\ memory[i].class = Computed(asked[q].text)
    BY <2>1 DEF Position, CacheInv, Sound
  <2>3. Sound(memory') /\ AskedSound'
    BY <2>1, <2>2, UsedSound, AnswerSound DEF CacheInv
  <2> QED
    BY <1>2, <2>3 DEF AskHit, CacheInv, RedisSound
<1>3. CASE AskMiss(q)
  <2>1. CASE Configured
    <3> DEFINE a == [asked[q] EXCEPT !.pc = "client", !.goal = "get"]
    <3>1. asked' = [asked EXCEPT ![q] = a]
      BY <1>3, <2>1 DEF AskMiss
    <3>2. QuestionSound(a)
      BY DEF QuestionSound, Questions
    <3> HIDE DEF a
    <3> QED
      BY <1>3, <2>1, <3>1, <3>2, OneQuestion DEF AskMiss, CacheInv, RedisSound
  <2>2. CASE ~Configured
    BY <1>3, <2>2, ParseSound DEF AskMiss, CacheInv, RedisSound
  <2> QED
    BY <2>1, <2>2
<1>4. CASE ClientAwaited(q)
  <2>1. UNCHANGED redis
    BY <1>4 DEF ClientAwaited
  <2>2. CASE link # "up" /\ asked[q].goal = "get"
    BY <1>4, <2>1, <2>2, ParseSound DEF ClientAwaited, CacheInv, RedisSound
  <2>3. CASE link = "up" \/ asked[q].goal # "get"
    <3> DEFINE a == [asked[q] EXCEPT !.pc = IF link = "up" THEN asked[q].goal ELSE "ready"]
    <3>1. asked' = [asked EXCEPT ![q] = a] /\ UNCHANGED memory
      BY <1>4, <2>3 DEF ClientAwaited
    <3>2. QuestionSound(a)
      BY <1>4, <2>3 DEF ClientAwaited, QuestionSound, Questions
    <3> HIDE DEF a
    <3> QED
      BY <2>1, <3>1, <3>2, OneQuestion DEF CacheInv, RedisSound
  <2> QED
    BY <2>2, <2>3
<1>5. CASE RedisGet(q)
  <2>1. CASE Parse(q)
    BY <1>5, <2>1, ParseSound DEF RedisGet, CacheInv, RedisSound
  <2>2. CASE ~Parse(q)
    <3> DEFINE a == [asked[q] EXCEPT !.pc = "expire", !.read = redis[asked[q].text]]
    <3>1. /\ asked' = [asked EXCEPT ![q] = a]
          /\ redis[asked[q].text] # Null
          /\ UNCHANGED <<memory, redis>>
      BY <1>5, <2>2 DEF RedisGet
    <3>2. QuestionSound(a)
      BY <3>1 DEF QuestionSound, Questions, CacheInv, RedisSound, Trusted
    <3> HIDE DEF a
    <3> QED
      BY <3>1, <3>2, OneQuestion DEF CacheInv, RedisSound
  <2> QED
    BY <2>1, <2>2
<1>6. CASE RedisExpire(q)
  <2>1. CASE Parse(q)
    BY <1>6, <2>1, ParseSound DEF RedisExpire, CacheInv, RedisSound
  <2>2. CASE ~Parse(q)
    <3>1. /\ asked[q].read = Computed(asked[q].text)
          /\ memory' = Stored(memory, asked[q].text, asked[q].read)
          /\ Answer(q, asked[q].read)
          /\ UNCHANGED redis
      BY <1>6, <2>2 DEF RedisExpire, Deserialized, QuestionSound
    <3> QED
      BY <3>1, StoredSound, AnswerSound DEF CacheInv, RedisSound
  <2> QED
    BY <2>1, <2>2
<1>7. CASE RedisSet(q)
  <2> DEFINE a == [asked[q] EXCEPT !.pc = "ready"]
  <2>1. asked' = [asked EXCEPT ![q] = a] /\ UNCHANGED memory
    BY <1>7 DEF RedisSet
  <2>2. asked[q].pc = "set" /\ asked[q].class = Computed(asked[q].text)
    BY <1>7 DEF RedisSet, QuestionSound
  <2>3. QuestionSound(a)
    BY <2>2 DEF QuestionSound, Questions
  <2>4. RedisSound'
    BY <1>7, <2>2 DEF RedisSet, CacheInv, RedisSound, Trusted
  <2> HIDE DEF a
  <2> QED
    BY <2>1, <2>3, <2>4, OneQuestion DEF CacheInv
<1> QED
  BY <1>1, <1>2, <1>3, <1>4, <1>5, <1>6, <1>7 DEF Classify

\* So does classifying a text again without waiting for Redis.
LEMMA ReclassifySound ==
    ASSUME CacheInv, NEW t \in Texts, Reclassify(t), UNCHANGED asked
    PROVE  CacheInv'
<1>1. Sound(memory')
  <2>1. CASE Position(memory, t) # {}
    <3>1. PICK i \in 1..Len(memory) : memory' = Used(memory, i)
      BY <2>1 DEF Reclassify, Position
    <3> QED
      BY <3>1, UsedSound DEF CacheInv
  <2>2. CASE Position(memory, t) = {}
    BY <2>2, StoredSound DEF Reclassify, CacheInv
  <2> QED
    BY <2>1, <2>2
<1> QED
  BY <1>1 DEF Reclassify, CacheInv, RedisSound, AskedSound, QuestionSound

\* And whatever Redis and other processes do.
LEMMA EnvironmentSound ==
    ASSUME CacheInv, RedisEnvironment
    PROVE  CacheInv'
<1>1. Asking \subseteq Texts
  BY QuestionInv DEF Asking
<1>2. CASE Connected \/ CloseCache
  BY <1>2 DEF Connected, CloseCache, CacheInv, RedisSound, AskedSound
<1>3. CASE CacheClosed
  <2>1. Sound(<<>>)
    BY CacheMaxNat DEF Sound
  <2> QED
    BY <1>3, <2>1 DEF CacheClosed, CacheInv, RedisSound, AskedSound
<1>4. ASSUME NEW t \in Asking, Posted(t) \/ Elsewhere(t) \/ Expired(t)
      PROVE  CacheInv'
  <2>1. UNCHANGED <<memory, asked>>
    BY <1>4 DEF Posted, Elsewhere, Expired
  <2>2. PICK v \in {Computed(t), Garbage, Null} :
           redis' = [redis EXCEPT ![t] = v] \/ UNCHANGED redis
    BY <1>4 DEF Posted, Elsewhere, Expired
  <2>3. RedisSound'
    BY <1>1, <2>2 DEF CacheInv, RedisSound, Trusted
  <2> QED
    BY <2>1, <2>3 DEF CacheInv, AskedSound
<1> QED
  BY <1>2, <1>3, <1>4 DEF RedisEnvironment
---------------------------------------------------------------------------
(***************************************************************************)
(* The caches are sound in every reachable state.                          *)
(***************************************************************************)
\* Initially the caches are empty and every query has its text.
LEMMA InitCache == Init => CacheInv
<1> SUFFICES ASSUME Init PROVE CacheInv
  OBVIOUS
<1>1. Sound(memory)
  BY CacheMaxNat DEF Init, ClassificationInit, Sound
<1>2. RedisSound
  BY DEF Init, ClassificationInit, RedisSound, Trusted
<1>3. PICK w \in Workloads :
         asked = [q \in Queries |-> NewQuestion(IF w.ask[q] = Null THEN NoText ELSE w.ask[q])]
  BY DEF Init
<1>4. NoText \in Texts
  BY FanOutAssumption DEF NoText
<1>5. \A q \in Queries : (IF w.ask[q] = Null THEN NoText ELSE w.ask[q]) \in Texts
  BY <1>4, FanOutAssumption
<1>6. \A t \in Texts : QuestionSound(NewQuestion(t))
  BY DEF QuestionSound, Questions, NewQuestion
<1>7. \A q \in Queries : QuestionSound(asked[q])
  BY <1>3, <1>5, <1>6
<1> QED
  BY <1>1, <1>2, <1>3, <1>7 DEF CacheInv, AskedSound

\* What changes no part of the classification keeps it in order.
LEMMA CacheUnchanged ==
    ASSUME CacheInv, UNCHANGED <<memory, redis, asked>>
    PROVE  CacheInv'
  BY DEF CacheInv, RedisSound, AskedSound

\* The executor's second classification of a text.
LEMMA ReclassifyQuerySound ==
    ASSUME CacheInv, NEW q \in Queries, ReclassifyQuery(q), UNCHANGED asked
    PROVE  CacheInv'
<1>1. CASE Text(q).word = "blank"
  BY <1>1, CacheUnchanged DEF ReclassifyQuery, cache
<1>2. CASE Text(q).word # "blank"
  BY <1>2, QuestionInv, ReclassifySound DEF ReclassifyQuery, Text
<1> QED
  BY <1>1, <1>2

\* A result of a shard, which may be the last and have the text classified again.
LEMMA ReceivedSound ==
    ASSUME CacheInv, NEW q \in Queries, NEW i, NEW chunks, Received(q, i, chunks),
           UNCHANGED asked
    PROVE  CacheInv'
<1>1. ReclassifyQuery(q) \/ UNCHANGED cache
  BY DEF Received, AllAnswered
<1> QED
  BY <1>1, ReclassifyQuerySound, CacheUnchanged DEF cache

\* No step of the system breaks the caches.
LEMMA NextCache == CacheInv /\ [Next]_vars => CacheInv'
<1> SUFFICES ASSUME CacheInv, [Next]_vars PROVE CacheInv'
  OBVIOUS
<1>1. ASSUME NEW q \in Queries, Issue(q) \/ Unclassified(q) \/ Handed(q) \/ Merge(q)
      PROVE  CacheInv'
  <2>1. UNCHANGED classifying
    BY <1>1 DEF Issue, Unclassified, Handed, Merge, Connect, LocalBegin, LocalCreate,
                LocalLoad, LocalRun, LocalCommit, LocalRollback, LocalStep, LocalRefused
  <2> QED
    BY <2>1, CacheUnchanged DEF classifying, cache
<1>2. ASSUME NEW q \in Queries, ClassifyQuery(q)
      PROVE  CacheInv'
  BY <1>2, ClassifySound DEF ClassifyQuery
<1>3. ASSUME NEW q \in Queries, FanOutQuery(q)
      PROVE  CacheInv'
  <2>1. UNCHANGED asked /\ (ReclassifyQuery(q) \/ UNCHANGED cache)
    BY <1>3 DEF FanOutQuery
  <2> QED
    BY <2>1, ReclassifyQuerySound, CacheUnchanged DEF cache
<1>4. ASSUME NEW q \in Queries, NEW i \in ShardIndex, ShardAnswers(q, i)
      PROVE  CacheInv'
  <2>1. UNCHANGED asked /\ \E answer : Received(q, i, answer)
    BY <1>4 DEF ShardAnswers
  <2> QED
    BY <2>1, ReceivedSound
<1>5. CASE Environment
  BY <1>5, EnvironmentSound DEF Environment
<1>6. CASE UNCHANGED vars
  BY <1>6, CacheUnchanged DEF vars, classifying, cache
<1> QED
  BY <1>1, <1>2, <1>3, <1>4, <1>5, <1>6 DEF Next, Step

\* The invariant says more than the property.
LEMMA CacheImplied == CacheInv => CacheSound
  BY DEF CacheInv, CacheSound, Sound, AskedSound, QuestionSound

\* Whatever Redis, other processes and the application do, the classification that a
\* query is given and those that are cached are what the parser says of the text.
THEOREM CachesSound == Spec => []CacheSound
<1>1. Init => CacheInv
  BY InitCache
<1>2. CacheInv /\ [Next]_vars => CacheInv'
  BY NextCache
<1>3. CacheInv => CacheSound
  BY CacheImplied
<1> QED
  BY <1>1, <1>2, <1>3, PTL DEF Spec
---------------------------------------------------------------------------
(***************************************************************************)
(* The clients of the local pool.                                          *)
(***************************************************************************)
Holding == {"begin", "create", "load", "run", "commit", "rollback"}

\* The fields of a session and of a query's record.
Session(s) ==
    s \in [holder : {s.holder}, tx : {s.tx}, temp : {s.temp}]

Record(w) ==
    w \in [pc : {w.pc}, kind : {w.kind}, sent : {w.sent}, values : {w.values},
           answers : {w.answers}, cut : {w.cut}, answer : {w.answer}, client : {w.client}]

\* A query in a local transaction holds its client, which is as new before BEGIN.
Held(q) ==
    work[q].pc \in Holding =>
        /\ work[q].client \in LocalClients
        /\ local[work[q].client].holder = q
        /\ work[q].pc = "begin" => local[work[q].client] = [Idle EXCEPT !.holder = q]

LocalInv ==
    /\ local = [c \in LocalClients |-> local[c]]
    /\ work = [q \in Queries |-> work[q]]
    /\ \A c \in LocalClients : Session(local[c])
    /\ \A q \in Queries : Record(work[q]) /\ Held(q)
    /\ LocalClean

\* A step of one query that touches no client, after which it holds none.
LEMMA NoClient ==
    ASSUME LocalInv, NEW q \in Queries, NEW w, Record(w), w.pc \notin Holding,
           work' = [work EXCEPT ![q] = w], UNCHANGED local
    PROVE  LocalInv'
<1>1. work' = [r \in Queries |-> IF r = q THEN w ELSE work[r]]
  BY DEF LocalInv
<1>2. \A r \in Queries : work'[r] = IF r = q THEN w ELSE work[r]
  BY <1>1
<1>3. \A r \in Queries : Record(work'[r]) /\ Held(r)'
  BY <1>2 DEF LocalInv, Held
<1>4. work' = [r \in Queries |-> work'[r]]
  BY <1>1
<1> QED
  BY <1>3, <1>4 DEF LocalInv, LocalClean, Session, Record

\* A step of one query on its client, which it keeps or gives back as new.
LEMMA OneClient ==
    ASSUME LocalInv, NEW q \in Queries, work[q].pc \in Holding,
           NEW w, Record(w), NEW s, Session(s),
           work' = [work EXCEPT ![q] = w],
           local' = [local EXCEPT ![work[q].client] = s],
           \/ s.holder = q /\ w.pc \in Holding \ {"begin"} /\ w.client = work[q].client
           \/ s = Idle /\ w.pc \notin Holding
    PROVE  LocalInv'
<1> DEFINE c == work[q].client
<1>0. c \in LocalClients /\ local[c].holder = q /\ q # Null
  BY FanOutAssumption DEF LocalInv, Held
<1>1. /\ work' = [r \in Queries |-> IF r = q THEN w ELSE work[r]]
      /\ local' = [d \in LocalClients |-> IF d = c THEN s ELSE local[d]]
  BY DEF LocalInv
<1>2. /\ \A r \in Queries : work'[r] = IF r = q THEN w ELSE work[r]
      /\ \A d \in LocalClients : local'[d] = IF d = c THEN s ELSE local[d]
  BY <1>1
<1>3. ASSUME NEW r \in Queries
      PROVE  Held(r)'
  <2>1. CASE r = q
    BY <1>0, <1>2, <2>1 DEF Held, Holding
  <2>2. CASE r # q
    <3>1. work[r].pc \in Holding => work[r].client # c
      BY <1>0, <2>2 DEF LocalInv, Held
    <3> QED
      BY <1>2, <2>2, <3>1 DEF LocalInv, Held
  <2> QED
    BY <2>1, <2>2
<1>4. \A r \in Queries : Record(work'[r])
  BY <1>2 DEF LocalInv
<1>5. \A d \in LocalClients : Session(local'[d])
  BY <1>2 DEF LocalInv
<1>6. LocalClean'
  BY <1>0, <1>2 DEF LocalInv, LocalClean, Idle
<1>7. /\ work' = [r \in Queries |-> work'[r]]
      /\ local' = [d \in LocalClients |-> local'[d]]
  BY <1>1
<1> QED
  BY <1>3, <1>4, <1>5, <1>6, <1>7 DEF LocalInv, Session, Record

\* A query that fails or ends: its record stays one and it holds no client.
LEMMA FinishedRecord ==
    ASSUME NEW w, Record(w), NEW answer
    PROVE  Record(Finished(w, answer)) /\ Finished(w, answer).pc \notin Holding
  BY DEF Record, Finished, Holding

\* A client outside a transaction is as new once it is released.
LEMMA ReleasedIdle ==
    ASSUME NEW c, Session(c), c.tx = "none", c.temp = Null
    PROVE  Released(c) = Idle
<1> DEFINE d == [c EXCEPT !.holder = Null]
<1>1. d \in [holder : {Null}, tx : {"none"}, temp : {Null}]
  BY DEF Session
<1> HIDE DEF d
<1>2. d = Idle
  BY <1>1 DEF Idle
<1> QED
  BY <1>2 DEF Released, d

\* A query takes a client that nobody holds.
LEMMA ConnectKeeps ==
    ASSUME LocalInv, NEW q \in Queries, Connect(q)
    PROVE  LocalInv'
<1>1. CASE UNCHANGED local
  <2>1. \E a : work' = [work EXCEPT ![q] = Finished(work[q], a)]
    <3>1. ASSUME NEW c \in LocalClients, local[c].holder = Null,
                 local' = [local EXCEPT ![c].holder = q]
          PROVE  FALSE
      <4>1. local'[c].holder = q
        BY <3>1 DEF LocalInv, Session
      <4> QED
        BY <1>1, <3>1, <4>1, FanOutAssumption
    <3> QED
      BY <1>1, <3>1 DEF Connect
  <2>2. Record(work[q])
    BY DEF LocalInv
  <2> QED
    BY <1>1, <2>1, <2>2, FinishedRecord, NoClient
<1>2. CASE ~UNCHANGED local
  <2>1. PICK c \in LocalClients :
           /\ local[c].holder = Null
           /\ local' = [local EXCEPT ![c].holder = q]
           /\ work' = [work EXCEPT ![q].pc = "begin", ![q].client = c]
    BY <1>2 DEF Connect
  <2> DEFINE w == [work[q] EXCEPT !.pc = "begin", !.client = c]
             s == [Idle EXCEPT !.holder = q]
  <2>2. local[c] = Idle
    BY <2>1 DEF LocalInv, LocalClean
  <2>3. Record(w) /\ w.pc = "begin" /\ w.client = c
    BY DEF LocalInv, Record
  <2>4. Session(s) /\ s.holder = q /\ q # Null
    BY FanOutAssumption DEF Session, Idle
  <2>5. /\ work' = [r \in Queries |-> IF r = q THEN w ELSE work[r]]
        /\ local' = [d \in LocalClients |-> IF d = c THEN s ELSE local[d]]
    BY <2>1, <2>2 DEF LocalInv
  <2>6. s = [Idle EXCEPT !.holder = q]
    OBVIOUS
  <2> HIDE DEF w, s
  <2>7. /\ \A r \in Queries : work'[r] = IF r = q THEN w ELSE work[r]
        /\ \A d \in LocalClients : local'[d] = IF d = c THEN s ELSE local[d]
    BY <2>5
  <2>8. ASSUME NEW r \in Queries
        PROVE  Held(r)'
    <3>1. CASE r = q
      <4>1. work'[q] = w /\ local'[c] = s
        BY <2>1, <2>7
      <4> QED
        BY <2>3, <2>4, <2>6, <3>1, <4>1 DEF Held
    <3>2. CASE r # q
      <4>0. r # Null
        BY FanOutAssumption
      <4>1. work[r].pc \in Holding => work[r].client # c
        BY <2>1, <4>0 DEF LocalInv, Held
      <4> QED
        BY <2>7, <3>2, <4>1 DEF LocalInv, Held
    <3> QED
      BY <3>1, <3>2
  <2>9. \A r \in Queries : Record(work'[r])
    BY <2>3, <2>7 DEF LocalInv
  <2>10. \A d \in LocalClients : Session(local'[d])
    BY <2>4, <2>7 DEF LocalInv
  <2>11. LocalClean'
    BY <2>4, <2>7 DEF LocalInv, LocalClean, Idle
  <2>12. /\ work' = [r \in Queries |-> work'[r]]
         /\ local' = [d \in LocalClients |-> local'[d]]
    BY <2>5
  <2> QED
    BY <2>8, <2>9, <2>10, <2>11, <2>12 DEF LocalInv, Session, Record
<1> QED
  BY <1>1, <1>2

\* A statement on a client: what it does to the session keeps the holder.
LEMMA StatementKeeps ==
    ASSUME LocalInv, NEW q \in Queries, work[q].pc \in Holding,
           NEW s, Session(s), s.holder = q, NEW next \in Holding \ {"begin"},
           work' = [work EXCEPT ![q].pc = next],
           local' = [local EXCEPT ![work[q].client] = s]
    PROVE  LocalInv'
<1> DEFINE w == [work[q] EXCEPT !.pc = next]
<1>1. Record(w) /\ w.pc = next /\ w.client = work[q].client
  BY DEF LocalInv, Record
<1>2. work' = [work EXCEPT ![q] = w]
  OBVIOUS
<1> HIDE DEF w
<1> QED
  BY <1>1, <1>2, OneClient

\* The session of a query, and what may become of it before it is released.
LEMMA SessionOf ==
    ASSUME LocalInv, NEW q \in Queries, work[q].pc \in Holding
    PROVE  LET s == local[work[q].client] IN
           /\ Session(s) /\ s.holder = q
           /\ \A x : LET a == [s EXCEPT !.tx = x] IN Session(a) /\ a.holder = q
           /\ \A x : LET a == [s EXCEPT !.temp = x] IN Session(a) /\ a.holder = q
           /\ LET a == [s EXCEPT !.tx = "none", !.temp = Null] IN
              Session(a) /\ a.holder = q /\ a.tx = "none" /\ a.temp = Null
<1> DEFINE s == local[work[q].client]
<1>1. Session(s) /\ s.holder = q
  BY DEF LocalInv, Held
<1> HIDE DEF s
<1>2. \A x : LET a == [s EXCEPT !.tx = x] IN Session(a) /\ a.holder = q
  BY <1>1 DEF Session
<1>3. \A x : LET a == [s EXCEPT !.temp = x] IN Session(a) /\ a.holder = q
  BY <1>1 DEF Session
<1>4. LET a == [s EXCEPT !.tx = "none", !.temp = Null] IN
      Session(a) /\ a.holder = q /\ a.tx = "none" /\ a.temp = Null
  BY <1>1 DEF Session
<1> QED
  BY <1>1, <1>2, <1>3, <1>4 DEF s

\* Every statement of the local transaction, and its end, keeps the invariant.
LEMMA TransactionKeeps ==
    ASSUME LocalInv, NEW q \in Queries,
           \/ LocalBegin(q) \/ LocalCreate(q) \/ LocalLoad(q) \/ LocalRun(q)
           \/ LocalCommit(q) \/ LocalRollback(q)
    PROVE  LocalInv'
<1> DEFINE c == work[q].client
           s == local[c]
<1>0. work[q].pc \in Holding
  BY DEF LocalBegin, LocalCreate, LocalLoad, LocalRun, LocalCommit, LocalRollback, LocalStep,
         Holding
<1>1. /\ Session(s) /\ s.holder = q
      /\ \A x : LET a == [s EXCEPT !.tx = x] IN Session(a) /\ a.holder = q
      /\ \A x : LET a == [s EXCEPT !.temp = x] IN Session(a) /\ a.holder = q
      /\ LET a == [s EXCEPT !.tx = "none", !.temp = Null] IN
         Session(a) /\ a.holder = q /\ a.tx = "none" /\ a.temp = Null
  BY <1>0, SessionOf
<1>2. Session(Idle)
  BY DEF Session, Idle
<1>3. Record(work[q])
  BY DEF LocalInv
\* The query goes on to a statement with its session changed ...
<1>4. ASSUME NEW x, NEW next \in Holding \ {"begin"}, work' = [work EXCEPT ![q].pc = next],
             \/ local' = [local EXCEPT ![c].tx = x]
             \/ local' = [local EXCEPT ![c].temp = x]
             \/ local' = [local EXCEPT ![c] = Rollback(s)]
      PROVE  LocalInv'
  <2>1. CASE local' = [local EXCEPT ![c].tx = x]
    BY <1>0, <1>1, <1>4, <2>1, StatementKeeps
  <2>2. CASE local' = [local EXCEPT ![c].temp = x]
    BY <1>0, <1>1, <1>4, <2>2, StatementKeeps
  <2>3. CASE local' = [local EXCEPT ![c] = Rollback(s)]
    <3>1. Session(Rollback(s)) /\ Rollback(s).holder = q
      BY <1>1 DEF Rollback
    <3> QED
      BY <1>0, <1>4, <2>3, <3>1, StatementKeeps
  <2> QED
    BY <1>4, <2>1, <2>2, <2>3
\* ... or ends and gives the client back as new.
<1>5. ASSUME NEW w, Record(w), w.pc \notin Holding, work' = [work EXCEPT ![q] = w],
             local' = [local EXCEPT ![c] = Idle]
      PROVE  LocalInv'
  BY <1>0, <1>2, <1>5, OneClient
<1>6. \A answer : /\ Record(Finished(work[q], answer))
                  /\ Finished(work[q], answer).pc \notin Holding
  BY <1>3, FinishedRecord
<1>7. CASE LocalBegin(q)
  <2>1. s = [Idle EXCEPT !.holder = q]
    BY <1>7 DEF LocalBegin, LocalInv, Held, Holding
  <2>3. s.tx = "none" /\ s.temp = Null
    BY <2>1 DEF Idle
  <2>4. Released(s) = Idle
    BY <1>1, <2>3, ReleasedIdle
  <2>5. CASE work' = [work EXCEPT ![q].pc = "create"] /\ local' = [local EXCEPT ![c].tx = "open"]
    BY <1>4, <2>5 DEF Holding
  <2>6. CASE work' = [work EXCEPT ![q] = Finished(work[q], Error)]
             /\ local' = [local EXCEPT ![c] = Idle]
    BY <1>5, <1>6, <2>6
  <2> QED
    BY <1>7, <2>4, <2>5, <2>6 DEF LocalBegin
<1>8. ASSUME LocalRefused(q)
      PROVE  LocalInv'
  BY <1>4, <1>8 DEF LocalRefused, Holding
<1>9. CASE LocalCreate(q)
  <2>1. CASE LocalRefused(q)
    BY <1>8, <2>1
  <2>2. CASE ~LocalRefused(q)
    <3>1. PICK x : LocalStep(q, "create", "load", [s EXCEPT !.temp = x])
      BY <1>9, <2>2 DEF LocalCreate
    <3> QED
      BY <1>4, <3>1 DEF LocalStep, Holding
  <2> QED
    BY <2>1, <2>2
<1>10. CASE LocalLoad(q)
  <2>1. CASE LocalRefused(q)
    BY <1>8, <2>1
  <2>2. CASE ~LocalRefused(q)
    <3>1. PICK x : LocalStep(q, "load", "run", [s EXCEPT !.temp = x])
      BY <1>10, <2>2 DEF LocalLoad
    <3> QED
      BY <1>4, <3>1 DEF LocalStep, Holding
  <2> QED
    BY <2>1, <2>2
<1>11. CASE LocalRun(q)
  <2>1. CASE LocalRefused(q)
    BY <1>8, <2>1
  <2>2. CASE work' = [work EXCEPT ![q].pc = "rollback"]
             /\ local' = [local EXCEPT ![c].tx = "aborted"]
    BY <1>4, <2>2 DEF Holding
  <2>3. CASE UNCHANGED local /\ \E r : work' = [work EXCEPT ![q].pc = "commit", ![q].answer = r]
    <3>1. PICK r : work' = [work EXCEPT ![q].pc = "commit", ![q].answer = r]
      BY <2>3
    <3> DEFINE w == [work[q] EXCEPT !.pc = "commit", !.answer = r]
    <3>2. Record(w) /\ w.pc = "commit" /\ w.client = c
      BY <1>3 DEF Record
    <3>3. work' = [work EXCEPT ![q] = w] /\ local' = [local EXCEPT ![c] = s]
      BY <2>3, <3>1 DEF LocalInv
    <3> HIDE DEF w
    <3> QED
      BY <1>0, <1>1, <3>2, <3>3, OneClient DEF Holding
  <2> QED
    BY <1>11, <2>1, <2>2, <2>3 DEF LocalRun
<1>12. CASE LocalCommit(q)
  <2> DEFINE d == [s EXCEPT !.tx = "none", !.temp = Null]
  <2>1. Session(d) /\ d.tx = "none" /\ d.temp = Null
    BY <1>1 DEF Session
  <2> HIDE DEF d
  <2>2. Released(d) = Idle
    BY <2>1, ReleasedIdle
  <2>3. CASE work' = [work EXCEPT ![q] = Finished(work[q], work[q].answer)]
             /\ local' = [local EXCEPT ![c] = Released(d)]
    BY <1>5, <1>6, <2>2, <2>3
  <2>4. CASE work' = [work EXCEPT ![q].pc = "rollback"]
             /\ local' = [local EXCEPT ![c] = Rollback(s)]
    BY <1>4, <2>4 DEF Holding
  <2> QED
    BY <1>12, <2>3, <2>4 DEF LocalCommit, d
<1>13. CASE LocalRollback(q)
  <2>1. Released(Rollback(s)) = Idle
    BY <1>1, ReleasedIdle DEF Rollback
  <2>2. /\ work' = [work EXCEPT ![q] = Finished(work[q], Error)]
        /\ local' = [local EXCEPT ![c] = Idle]
    BY <1>13, <2>1 DEF LocalRollback
  <2> QED
    BY <1>5, <1>6, <2>2
<1> QED
  BY <1>7, <1>9, <1>10, <1>11, <1>12, <1>13

\* Initially no query has a client.
LEMMA InitLocal == Init => LocalInv
<1> SUFFICES ASSUME Init PROVE LocalInv
  OBVIOUS
<1>1. PICK f : /\ f \in [Queries -> {"done", "idle"}]
               /\ work = [q \in Queries |-> [NoWork EXCEPT !.pc = f[q]]]
  <2>1. PICK w \in Workloads :
           work = [q \in Queries |-> [NoWork EXCEPT !.pc = IF w.ask[q] = Null THEN "done"
                                                            ELSE "idle"]]
    BY DEF Init
  <2> DEFINE f == [q \in Queries |-> IF w.ask[q] = Null THEN "done" ELSE "idle"]
  <2>2. f \in [Queries -> {"done", "idle"}]
    OBVIOUS
  <2>3. work = [q \in Queries |-> [NoWork EXCEPT !.pc = f[q]]]
    BY <2>1
  <2> QED
    BY <2>2, <2>3
<1>2. \A x : LET w == [NoWork EXCEPT !.pc = x] IN Record(w) /\ w.pc = x
  BY DEF Record, NoWork
<1>3. \A q \in Queries : Record(work[q]) /\ work[q].pc \notin Holding
  BY <1>1, <1>2 DEF Holding
<1>4. Session(Idle)
  BY DEF Session, Idle
<1>5. local = [c \in LocalClients |-> Idle]
  BY DEF Init
<1> QED
  BY <1>1, <1>3, <1>4, <1>5 DEF LocalInv, LocalClean, Held

\* What changes no client and no query's record keeps the invariant.
LEMMA LocalUnchanged ==
    ASSUME LocalInv, UNCHANGED <<work, local>>
    PROVE  LocalInv'
  BY DEF LocalInv, LocalClean, Held, Session, Record

\* A result of a shard: the query goes on without a client.
LEMMA ReceivedKeeps ==
    ASSUME LocalInv, NEW q \in Queries, NEW i, NEW chunks, Received(q, i, chunks),
           work[q].pc = "shards", UNCHANGED local
    PROVE  LocalInv'
<1> DEFINE answer == Decoded(chunks)
           w == [work[q] EXCEPT !.answers[i] = answer, !.cut = @ \/ Bare(chunks) # {}]
<1>1. Record(w) /\ w.pc = "shards"
  BY DEF LocalInv, Record
<1>2. \A a : Record(Finished(w, a)) /\ Finished(w, a).pc \notin Holding
  BY <1>1, FinishedRecord
<1>3. LET x == [w EXCEPT !.pc = "connect"] IN Record(x) /\ x.pc = "connect"
  BY <1>1 DEF Record
<1>4. \E x : Record(x) /\ x.pc \notin Holding /\ work' = [work EXCEPT ![q] = x]
  <2>1. CASE answer # Error /\ Null \notin ToSet(w.answers)
    <3>1. AllAnswered(q, w)
      BY <2>1 DEF Received
    <3> HIDE DEF w
    <3>2. \/ \E a : work' = [work EXCEPT ![q] = Finished(w, a)]
          \/ work' = [work EXCEPT ![q] = [w EXCEPT !.pc = "connect"]]
      BY <3>1 DEF AllAnswered
    <3> QED
      BY <1>2, <1>3, <3>2 DEF Holding
  <2>2. CASE ~(answer # Error /\ Null \notin ToSet(w.answers))
    <3>1. work' = [work EXCEPT ![q] = IF answer = Error THEN Finished(w, Error) ELSE w]
      BY <2>2 DEF Received
    <3> HIDE DEF w
    <3> QED
      BY <1>1, <1>2, <3>1 DEF Holding
  <2> QED
    BY <2>1, <2>2
<1> QED
  BY <1>4, NoClient

\* The record of a query whose statement is sent.
LEMMA SentRecord ==
    ASSUME NEW w, Record(w), NEW k, NEW s, NEW v
    PROVE  LET x == [w EXCEPT !.pc = "shards", !.kind = k, !.sent = s, !.values = v] IN
           Record(x) /\ x.pc = "shards" /\ x.client = w.client
<1> DEFINE x == [w EXCEPT !.pc = "shards", !.kind = k, !.sent = s, !.values = v]
<1>1. x.pc = "shards" /\ x.client = w.client
  BY DEF Record
<1>2. Record(x)
  BY DEF Record
<1> QED
  BY <1>1, <1>2

\* The steps before the local merge hold no client.
LEMMA RequestKeeps ==
    ASSUME LocalInv, NEW q \in Queries,
           Issue(q) \/ Unclassified(q) \/ Handed(q) \/ FanOutQuery(q)
    PROVE  LocalInv'
<1>1. Record(work[q])
  BY DEF LocalInv
<1>2. \A a : Record(Finished(work[q], a)) /\ Finished(work[q], a).pc \notin Holding
  BY <1>1, FinishedRecord
<1>3. UNCHANGED local
  BY DEF Issue, Unclassified, Handed, FanOutQuery
<1>4. CASE Issue(q)
  <2> DEFINE w == [work[q] EXCEPT !.pc = "classify"]
  <2>1. Record(w) /\ w.pc = "classify"
    BY <1>1 DEF Record
  <2>2. work' = [work EXCEPT ![q] = w]
    BY <1>4 DEF Issue
  <2> HIDE DEF w
  <2> QED
    BY <1>3, <2>1, <2>2, NoClient DEF Holding
<1>5. CASE Unclassified(q) \/ Handed(q)
  <2>1. \E a : work' = [work EXCEPT ![q] = Finished(work[q], a)]
    BY <1>5 DEF Unclassified, Handed
  <2> QED
    BY <1>2, <1>3, <2>1, NoClient
<1>6. CASE FanOutQuery(q)
  <2> DEFINE x(k, s, v) ==
        [work[q] EXCEPT !.pc = "shards", !.kind = k, !.sent = s, !.values = v]
  <2>1. \A k, s, v : /\ Record(x(k, s, v)) /\ x(k, s, v).pc = "shards"
                     /\ x(k, s, v).client = work[q].client
    BY <1>1, SentRecord
  <2>2. \/ work' = [work EXCEPT ![q] = Finished(work[q], Error)]
        \/ \E k, s, v : work' = [work EXCEPT ![q] = x(k, s, v)]
    BY <1>6 DEF FanOutQuery
  <2> HIDE DEF x
  <2> QED
    BY <1>2, <1>3, <2>1, <2>2, NoClient DEF Holding
<1> QED
  BY <1>4, <1>5, <1>6

\* No step of the system breaks the invariant.
LEMMA NextLocal == LocalInv /\ [Next]_vars => LocalInv'
<1> SUFFICES ASSUME LocalInv, [Next]_vars PROVE LocalInv'
  OBVIOUS
<1>1. ASSUME NEW q \in Queries,
             Issue(q) \/ Unclassified(q) \/ Handed(q) \/ FanOutQuery(q)
      PROVE  LocalInv'
  BY <1>1, RequestKeeps
<1>2. ASSUME NEW q \in Queries, ClassifyQuery(q)
      PROVE  LocalInv'
  BY <1>2, LocalUnchanged DEF ClassifyQuery
<1>3. ASSUME NEW q \in Queries, NEW i \in ShardIndex, ShardAnswers(q, i)
      PROVE  LocalInv'
  <2>1. /\ work[q].pc = "shards" /\ UNCHANGED local
        /\ \E answer : Received(q, i, answer)
    BY <1>3 DEF ShardAnswers
  <2> QED
    BY <2>1, ReceivedKeeps
<1>4. ASSUME NEW q \in Queries, Merge(q)
      PROVE  LocalInv'
  BY <1>4, ConnectKeeps, TransactionKeeps DEF Merge
<1>5. CASE Environment \/ UNCHANGED vars
  BY <1>5, LocalUnchanged DEF Environment, vars
<1> QED
  BY <1>1, <1>2, <1>3, <1>4, <1>5 DEF Next, Step

\* Whatever fails and whichever queries share the pool, a client that may be handed out
\* has no transaction and no temporary table of another query.
THEOREM LocalClientsClean == Spec => []LocalClean
<1>1. Init => LocalInv
  BY InitLocal
<1>2. LocalInv /\ [Next]_vars => LocalInv'
  BY NextLocal
<1>3. LocalInv => LocalClean
  BY DEF LocalInv
<1> QED
  BY <1>1, <1>2, <1>3, PTL DEF Spec
---------------------------------------------------------------------------
(***************************************************************************)
(* Types.  A class is never that of a text the parser refuses: such a text *)
(* is not cached, not sent to Redis and not told to a query.               *)
(***************************************************************************)
Links == {"off", "none", "connecting", "up", "dead", "closing"}

Accepted(m) == \A i \in 1..Len(m) : m[i].class # Refused

Told(a) == a.class # Refused /\ a.read # Refused

AcceptedInv ==
    /\ Accepted(memory)
    /\ \A t \in Texts : redis[t] # Refused
    /\ link \in Links
    /\ posted \subseteq {t \in Texts : Computed(t) # Refused}
    /\ \A q \in Queries : Told(asked[q])
    /\ faults \in 0..MaxFaults

\* A query is sent when it is classified, and holds a client while it is merged.
WorkInv ==
    /\ tables \in {w.tables : w \in Workloads}
    /\ \A q \in Queries :
         /\ work[q].pc \in Working
         /\ work[q].pc \notin Holding => work[q].client = Null
         /\ work[q].pc \notin {"idle", "classify", "done"} => asked[q].pc = "ready"
    /\ \A c \in LocalClients :
         /\ local[c].holder \in Queries \cup {Null}
         /\ local[c].tx \in {"none", "open", "aborted"}

\* What the parser does not refuse has a class.
LEMMA ComputedClass ==
    ASSUME NEW t \in Texts, Computed(t) # Refused
    PROVE  Computed(t) \in Classes
<1>1. CASE t.word \in {"LISTEN", "UNLISTEN", "NOTIFY", "CALL"}
  BY <1>1 DEF Computed, Class, Classes, CommandTypes
<1>2. CASE t.word \notin {"LISTEN", "UNLISTEN", "NOTIFY", "CALL"} /\ t.stmts = <<>>
  <2>1. Computed(t) = Class("UNKNOWN", FALSE)
    BY <1>2, Zenon DEF Computed
  <2> QED
    BY <2>1 DEF Class, Classes, CommandTypes
<1>3. CASE t.word \notin {"LISTEN", "UNLISTEN", "NOTIFY", "CALL"} /\ t.stmts # <<>>
  <2> DEFINE s == t.stmts[1]
  <2>1. Computed(t) = StatementClass(s)
    BY <1>3, Zenon DEF Computed
  <2>2. CASE s.type \in {"insert", "update", "delete"}
    <3>1. s.returning \in BOOLEAN
      BY <1>3, ClassificationAssumption
    <3> QED
      BY <2>1, <2>2, <3>1 DEF StatementClass, Class, Classes, CommandTypes
  <2>3. CASE s.type \notin {"insert", "update", "delete"}
    <3>1. StatementClass(s) = (IF s.type = "select" THEN Class(SelectType(s), FALSE)
                               ELSE Class("UNKNOWN", FALSE))
      BY <2>3, Zenon DEF StatementClass
    <3>2. SelectType(s) \in {"SELECT", "FUNCTION"}
      BY DEF SelectType
    <3> QED
      BY <2>1, <3>1, <3>2 DEF Class, Classes, CommandTypes
  <2> QED
    BY <2>2, <2>3
<1> QED
  BY <1>1, <1>2, <1>3

\* What stands for no class, and the class of a blank text, are not that of a
\* refused one.
LEMMA NotRefused ==
    /\ Garbage # Refused /\ Null # Refused
    /\ Class("UNKNOWN", FALSE) # Refused
  BY ClassificationAssumption DEF Garbage, Refused, Class

\* Taking an entry out leaves accepted ones.
LEMMA DropAccepted ==
    ASSUME NEW m, Sound(m), Accepted(m), NEW i \in 1..Len(m)
    PROVE  Accepted(Drop(m, i))
<1>1. Len(m) \in Nat
  BY DEF Sound
<1>2. Len(Drop(m, i)) = Len(m) - 1
  BY DropSound
<1>3. \A j \in 1..Len(m) - 1 : Drop(m, i)[j] = IF j < i THEN m[j] ELSE m[j + 1]
  BY DEF Drop
<1> QED
  BY <1>1, <1>2, <1>3 DEF Accepted

\* So does a hit.
LEMMA UsedAccepted ==
    ASSUME NEW m, Sound(m), Accepted(m), NEW i \in 1..Len(m)
    PROVE  Accepted(Used(m, i))
<1>1. /\ Drop(m, i) \in Seq(Cells) /\ m[i] \in Cells
      /\ Accepted(Drop(m, i)) /\ m[i].class # Refused
  BY DropSound, DropAccepted DEF Sound, Accepted
<1> DEFINE d == Drop(m, i)
<1>2. /\ Len(Append(d, m[i])) = Len(d) + 1 /\ Len(d) \in Nat
      /\ \A j \in 1..Len(d) + 1 : Append(d, m[i])[j] = IF j = Len(d) + 1 THEN m[i] ELSE d[j]
  BY <1>1
<1> HIDE DEF d
<1>3. \A j \in 1..Len(d) : d[j].class # Refused
  BY <1>1 DEF Accepted, d
<1>4. Accepted(Append(d, m[i]))
  BY <1>1, <1>2, <1>3 DEF Accepted
<1> QED
  BY <1>4 DEF Used, d

\* And storing the class of a text that is not refused.
LEMMA StoredAccepted ==
    ASSUME NEW m, Sound(m), Accepted(m), NEW t \in Texts, Computed(t) # Refused
    PROVE  Accepted(Stored(m, t, Computed(t)))
<1> DEFINE r == Room(m)
           e == [text |-> t, class |-> Computed(t)]
<1>1. r \in Seq(Cells) /\ Accepted(r)
  <2>1. CASE Len(m) >= CacheMax
    <3>1. 1 \in 1..Len(m)
      <4>1. Len(m) \in Nat
        BY DEF Sound
      <4> QED
        BY <2>1, <4>1, CacheMaxNat
    <3> QED
      BY <2>1, <3>1, DropSound, DropAccepted DEF Room, Sound
  <2>2. CASE ~(Len(m) >= CacheMax)
    BY <2>2 DEF Room, Sound
  <2> QED
    BY <2>1, <2>2
<1>2. e \in Cells /\ e.class # Refused
  BY DEF Cells, Parses
<1>3. Stored(m, t, Computed(t)) = IF Position(r, t) = {} THEN Append(r, e)
                                  ELSE [i \in 1..Len(r) |-> IF r[i].text = t THEN e ELSE r[i]]
  BY DEF Stored
<1> HIDE DEF r, e
<1>4. CASE Position(r, t) = {}
  <2>1. /\ Len(Append(r, e)) = Len(r) + 1 /\ Len(r) \in Nat
        /\ \A j \in 1..Len(r) + 1 : Append(r, e)[j] = IF j = Len(r) + 1 THEN e ELSE r[j]
    BY <1>1, <1>2
  <2>2. Accepted(Append(r, e))
    BY <1>1, <1>2, <2>1 DEF Accepted
  <2> QED
    BY <1>3, <1>4, <2>2
<1>5. CASE Position(r, t) # {}
  <2> DEFINE s == [i \in 1..Len(r) |-> IF r[i].text = t THEN e ELSE r[i]]
  <2>1. Len(r) \in Nat /\ \A i \in 1..Len(r) : r[i] \in Cells
    BY <1>1
  <2>2. Len(s) = Len(r) /\ \A i \in 1..Len(r) : s[i] = IF r[i].text = t THEN e ELSE r[i]
    <3>1. s \in Seq(Cells)
      BY <1>2, <2>1
    <3> QED
      BY <2>1, <3>1
  <2> HIDE DEF s
  <2>3. Accepted(s)
    BY <1>1, <1>2, <2>2 DEF Accepted
  <2> QED
    BY <1>3, <1>5, <2>3 DEF s
<1> QED
  BY <1>4, <1>5

\* A step that changes the question of one query.
LEMMA OneTold ==
    ASSUME CacheInv, AcceptedInv, NEW q \in Queries, NEW a, Told(a),
           asked' = [asked EXCEPT ![q] = a]
    PROVE  \A p \in Queries : Told(asked'[p])
<1>1. asked' = [r \in Queries |-> IF r = q THEN a ELSE asked[r]]
  BY DEF CacheInv, AskedSound
<1>2. \A r \in Queries : asked'[r] = IF r = q THEN a ELSE asked[r]
  BY <1>1
<1> QED
  BY <1>2 DEF AcceptedInv

\* A query is told the class of a text.
LEMMA AnswerTold ==
    ASSUME CacheInv, AcceptedInv, NEW q \in Queries, NEW class, class # Refused, Answer(q, class)
    PROVE  \A p \in Queries : Told(asked'[p])
<1> DEFINE a == [asked[q] EXCEPT !.pc = "ready", !.read = Null, !.class = class]
<1>1. asked' = [asked EXCEPT ![q] = a]
  BY DEF Answer
<1>2. a.class = class /\ a.read = Null
  BY QuestionInv DEF QuestionSound, Questions
<1> HIDE DEF a
<1> QED
  BY <1>1, <1>2, NotRefused, OneTold DEF Told

\* Parsing a text keeps out what is refused.
LEMMA ParseAccepted ==
    ASSUME CacheInv, AcceptedInv, NEW q \in Queries, Parse(q)
    PROVE  /\ Accepted(memory')
           /\ link' \in Links
           /\ \A p \in Queries : Told(asked'[p])
<1> DEFINE class == Computed(asked[q].text)
<1>1. asked[q] \in Questions /\ asked[q].text \in Texts /\ Told(asked[q])
  BY QuestionInv DEF QuestionSound, AcceptedInv
<1>2. CASE class = Refused
  <2> DEFINE a == [asked[q] EXCEPT !.pc = "thrown", !.read = Null]
  <2>1. asked' = [asked EXCEPT ![q] = a] /\ UNCHANGED <<memory, link>>
    BY <1>2 DEF Parse
  <2>2. Told(a)
    BY <1>1, NotRefused DEF Told, Questions
  <2> HIDE DEF a
  <2> QED
    BY <2>1, <2>2, OneTold DEF AcceptedInv
<1>3. CASE class # Refused
  <2> DEFINE a == [asked[q] EXCEPT !.pc = IF Configured THEN "client" ELSE "ready",
                                   !.goal = "set", !.read = Null, !.class = class]
  <2>1. /\ asked' = [asked EXCEPT ![q] = a]
        /\ memory' = Stored(memory, asked[q].text, class)
        /\ link' = Opened
    BY <1>3 DEF Parse, Parsed
  <2>2. Told(a)
    BY <1>1, <1>3, NotRefused DEF Told, Questions
  <2>3. Accepted(memory')
    BY <1>1, <1>3, <2>1, StoredAccepted DEF CacheInv, AcceptedInv
  <2>4. link' \in Links
    BY <2>1 DEF Opened, Links, AcceptedInv
  <2> HIDE DEF a
  <2> QED
    BY <2>1, <2>2, <2>3, <2>4, OneTold
<1> QED
  BY <1>2, <1>3

\* A fault is counted up to the bound.
LEMMA FaultCounted ==
    ASSUME faults \in 0..MaxFaults, Fault
    PROVE  faults' \in 0..MaxFaults
<1>1. MaxFaults \in Nat
  BY ClassificationAssumption
<1> QED
  BY <1>1 DEF Fault

\* Every step of classifyQueryAsync() keeps out what is refused.
LEMMA ClassifyAccepted ==
    ASSUME CacheInv, AcceptedInv, NEW q \in Queries, Classify(q)
    PROVE  AcceptedInv'
<1>0. /\ asked[q] \in Questions /\ asked[q].text \in Texts /\ Told(asked[q])
      /\ faults \in 0..MaxFaults
  BY QuestionInv DEF QuestionSound, AcceptedInv
<1>f. CommandFails => faults' \in 0..MaxFaults
  BY <1>0, FaultCounted DEF CommandFails
<1>1. CASE AskBlank(q)
  <2>1. \A p \in Queries : Told(asked'[p])
    BY <1>1, NotRefused, AnswerTold DEF AskBlank
  <2> QED
    BY <1>1, <2>1 DEF AskBlank, AcceptedInv, cache
<1>2. CASE AskHit(q)
  <2>1. PICK i \in Position(memory, asked[q].text) :
           memory' = Used(memory, i) /\ Answer(q, memory[i].class)
    BY <1>2 DEF AskHit
  <2>2. i \in 1..Len(memory) /\ memory[i].class # Refused
    BY DEF Position, AcceptedInv, Accepted
  <2>3. \A p \in Queries : Told(asked'[p])
    BY <2>1, <2>2, AnswerTold
  <2>4. Accepted(memory')
    BY <2>1, <2>2, UsedAccepted DEF CacheInv, AcceptedInv
  <2>5. link' \in Links
    BY <1>2 DEF AskHit, Opened, Links, AcceptedInv
  <2> QED
    BY <1>2, <2>3, <2>4, <2>5 DEF AskHit, AcceptedInv
<1>3. CASE AskMiss(q)
  <2>1. UNCHANGED <<redis, posted, faults>>
    BY <1>3 DEF AskMiss
  <2>2. CASE Parse(q)
    BY <2>1, <2>2, ParseAccepted DEF AcceptedInv
  <2>3. CASE ~Parse(q)
    <3> DEFINE a == [asked[q] EXCEPT !.pc = "client", !.goal = "get"]
    <3>1. asked' = [asked EXCEPT ![q] = a] /\ UNCHANGED memory /\ link' = Opened
      BY <1>3, <2>3 DEF AskMiss
    <3>2. Told(a)
      BY <1>0 DEF Told, Questions
    <3>3. link' \in Links
      BY <3>1 DEF Opened, Links, AcceptedInv
    <3> HIDE DEF a
    <3>4. \A p \in Queries : Told(asked'[p])
      BY <3>1, <3>2, OneTold
    <3> QED
      BY <2>1, <3>1, <3>3, <3>4 DEF AcceptedInv
  <2> QED
    BY <2>2, <2>3
<1>4. CASE ClientAwaited(q)
  <2>1. UNCHANGED <<redis, posted, faults>>
    BY <1>4 DEF ClientAwaited
  <2>2. CASE Parse(q)
    BY <2>1, <2>2, ParseAccepted DEF AcceptedInv
  <2>3. CASE ~Parse(q)
    <3>1. /\ \E x : asked' = [asked EXCEPT ![q].pc = x]
          /\ UNCHANGED <<memory, link>>
      BY <1>4, <2>3 DEF ClientAwaited
    <3>2. PICK x : asked' = [asked EXCEPT ![q].pc = x]
      BY <3>1
    <3> DEFINE a == [asked[q] EXCEPT !.pc = x]
    <3>3. asked' = [asked EXCEPT ![q] = a] /\ Told(a)
      BY <1>0, <3>2 DEF Told, Questions
    <3> HIDE DEF a
    <3>4. \A p \in Queries : Told(asked'[p])
      BY <3>3, OneTold
    <3> QED
      BY <2>1, <3>1, <3>4 DEF AcceptedInv
  <2> QED
    BY <2>2, <2>3
<1>5. CASE RedisGet(q)
  <2>1. UNCHANGED <<redis, posted>> /\ faults' \in 0..MaxFaults
    BY <1>0, <1>5, <1>f DEF RedisGet
  <2>2. CASE Parse(q)
    BY <2>1, <2>2, ParseAccepted DEF AcceptedInv
  <2>3. CASE ~Parse(q)
    <3> DEFINE a == [asked[q] EXCEPT !.pc = "expire", !.read = redis[asked[q].text]]
    <3>1. asked' = [asked EXCEPT ![q] = a] /\ UNCHANGED <<memory, link>>
      BY <1>5, <2>3 DEF RedisGet
    <3>2. Told(a)
      BY <1>0 DEF Told, Questions, AcceptedInv
    <3> HIDE DEF a
    <3>3. \A p \in Queries : Told(asked'[p])
      BY <3>1, <3>2, OneTold
    <3> QED
      BY <2>1, <3>1, <3>3 DEF AcceptedInv
  <2> QED
    BY <2>2, <2>3
<1>6. CASE RedisExpire(q)
  <2>1. UNCHANGED <<redis, posted>> /\ faults' \in 0..MaxFaults
    BY <1>0, <1>6, <1>f DEF RedisExpire
  <2>2. CASE Parse(q)
    BY <2>1, <2>2, ParseAccepted DEF AcceptedInv
  <2>3. CASE ~Parse(q)
    <3>1. /\ asked[q].read = Computed(asked[q].text)
          /\ memory' = Stored(memory, asked[q].text, asked[q].read)
          /\ Answer(q, asked[q].read)
          /\ UNCHANGED link
      BY <1>6, <2>3, QuestionInv DEF RedisExpire, Deserialized, QuestionSound
    <3>2. Computed(asked[q].text) # Refused
      BY <1>0, <3>1 DEF Told
    <3>3. Accepted(memory')
      BY <1>0, <3>1, <3>2, StoredAccepted DEF CacheInv, AcceptedInv
    <3>4. \A p \in Queries : Told(asked'[p])
      BY <3>1, <3>2, AnswerTold
    <3> QED
      BY <2>1, <3>1, <3>3, <3>4 DEF AcceptedInv
  <2> QED
    BY <2>2, <2>3
<1>7. CASE RedisSet(q)
  <2> DEFINE a == [asked[q] EXCEPT !.pc = "ready"]
  <2>1. asked' = [asked EXCEPT ![q] = a] /\ UNCHANGED <<memory, link, posted>>
    BY <1>7 DEF RedisSet
  <2>2. Told(a)
    BY <1>0 DEF Told, Questions
  <2>3. \A t \in Texts : redis'[t] # Refused
    BY <1>0, <1>7 DEF RedisSet, Told, AcceptedInv, CacheInv, RedisSound
  <2>4. faults' \in 0..MaxFaults
    BY <1>0, <1>7, <1>f DEF RedisSet
  <2> HIDE DEF a
  <2>5. \A p \in Queries : Told(asked'[p])
    BY <2>1, <2>2, OneTold
  <2> QED
    BY <2>1, <2>3, <2>4, <2>5 DEF AcceptedInv
<1> QED
  BY <1>1, <1>2, <1>3, <1>4, <1>5, <1>6, <1>7 DEF Classify

\* So does classifying a text again, which was told a class before.
LEMMA ReclassifyAccepted ==
    ASSUME CacheInv, AcceptedInv, NEW t \in Texts, Computed(t) # Refused, Reclassify(t),
           UNCHANGED asked, faults' \in 0..MaxFaults
    PROVE  AcceptedInv'
<1>1. Accepted(memory')
  <2>1. CASE Position(memory, t) # {}
    <3>1. PICK i \in 1..Len(memory) : memory' = Used(memory, i)
      BY <2>1 DEF Reclassify, Position
    <3> QED
      BY <3>1, UsedAccepted DEF CacheInv, AcceptedInv
  <2>2. CASE Position(memory, t) = {}
    BY <2>2, StoredAccepted DEF Reclassify, CacheInv, AcceptedInv
  <2> QED
    BY <2>1, <2>2
<1>2. link' \in Links
  BY DEF Reclassify, Opened, Links, AcceptedInv
<1>3. posted' \subseteq {x \in Texts : Computed(x) # Refused}
  BY DEF Reclassify, AcceptedInv
<1>4. UNCHANGED redis
  BY DEF Reclassify
<1> QED
  BY <1>1, <1>2, <1>3, <1>4 DEF AcceptedInv

\* A query that is ready has been told a class, so that its text is not refused.
LEMMA ReadyAccepted ==
    ASSUME CacheInv, AcceptedInv, NEW q \in Queries, asked[q].pc = "ready"
    PROVE  Computed(Text(q)) # Refused /\ Text(q) \in Texts
  BY QuestionInv DEF QuestionSound, AcceptedInv, Told, Text

\* The executor's second classification of a text that is ready.
LEMMA ReclassifyQueryAccepted ==
    ASSUME CacheInv, AcceptedInv, NEW q \in Queries, asked[q].pc = "ready", ReclassifyQuery(q),
           UNCHANGED asked, faults' \in 0..MaxFaults
    PROVE  AcceptedInv'
<1>1. CASE Text(q).word = "blank"
  BY <1>1 DEF ReclassifyQuery, cache, AcceptedInv
<1>2. CASE Text(q).word # "blank"
  <2>1. Reclassify(Text(q)) /\ Computed(Text(q)) # Refused /\ Text(q) \in Texts
    BY <1>2, ReadyAccepted DEF ReclassifyQuery
  <2> QED
    BY <2>1, ReclassifyAccepted
<1> QED
  BY <1>1, <1>2

\* And whatever Redis and other processes do.
LEMMA EnvironmentAccepted ==
    ASSUME CacheInv, AcceptedInv, RedisEnvironment
    PROVE  AcceptedInv'
<1>0. faults \in 0..MaxFaults /\ (Fault => faults' \in 0..MaxFaults)
  BY FaultCounted DEF AcceptedInv
<1>1. CASE Connected
  <2>1. link' \in Links /\ faults' \in 0..MaxFaults
    BY <1>0, <1>1 DEF Connected, Links
  <2> QED
    BY <1>1, <2>1 DEF Connected, AcceptedInv
<1>2. CASE CloseCache
  BY <1>2 DEF CloseCache, AcceptedInv, Links
<1>3. CASE CacheClosed
  <2>1. Accepted(<<>>)
    BY DEF Accepted
  <2>2. link' \in Links
    BY <1>3 DEF CacheClosed, Links
  <2> QED
    BY <1>3, <2>1, <2>2 DEF CacheClosed, AcceptedInv
<1>4. ASSUME NEW t \in Asking, Posted(t) \/ Elsewhere(t) \/ Expired(t)
      PROVE  AcceptedInv'
  <2>1. UNCHANGED <<memory, link, asked>>
    BY <1>4 DEF Posted, Elsewhere, Expired
  <2>2. posted' \subseteq posted /\ faults' \in 0..MaxFaults
    BY <1>0, <1>4 DEF Posted, Elsewhere, Expired, CommandFails
  <2>3. PICK v : v # Refused /\ (redis' = [redis EXCEPT ![t] = v] \/ UNCHANGED redis)
    <3>1. CASE Posted(t)
      BY <3>1 DEF Posted, AcceptedInv
    <3>2. CASE Elsewhere(t)
      BY <3>2, NotRefused DEF Elsewhere
    <3>3. CASE Expired(t)
      BY <3>3, NotRefused DEF Expired
    <3> QED
      BY <1>4, <3>1, <3>2, <3>3
  <2>4. \A x \in Texts : redis'[x] # Refused
    BY <2>3 DEF AcceptedInv, CacheInv, RedisSound
  <2> QED
    BY <2>1, <2>2, <2>4 DEF AcceptedInv
<1> QED
  BY <1>1, <1>2, <1>3, <1>4 DEF RedisEnvironment

\* No step of the system lets a refused text in.
LEMMA NextAccepted == CacheInv /\ AcceptedInv /\ WorkInv /\ [Next]_vars => AcceptedInv'
<1> SUFFICES ASSUME CacheInv, AcceptedInv, WorkInv, [Next]_vars PROVE AcceptedInv'
  OBVIOUS
<1>0. Fault => faults' \in 0..MaxFaults
  BY FaultCounted DEF AcceptedInv
<1>1. CASE UNCHANGED vars
  BY <1>1 DEF vars, classifying, cache, AcceptedInv
<1>2. ASSUME NEW q \in Queries, Issue(q) \/ Unclassified(q) \/ Handed(q) \/ Merge(q)
      PROVE  AcceptedInv'
  <2>1. UNCHANGED classifying
    BY <1>2 DEF Issue, Unclassified, Handed, Merge, Connect, LocalBegin, LocalCreate,
                LocalLoad, LocalRun, LocalCommit, LocalRollback, LocalStep, LocalRefused
  <2>2. UNCHANGED faults \/ Fault
    BY <1>2 DEF Issue, Unclassified, Handed, Merge, Connect, LocalBegin, LocalCreate,
                LocalLoad, LocalRun, LocalCommit, LocalRollback, LocalStep, LocalRefused
  <2> QED
    BY <1>0, <2>1, <2>2 DEF classifying, cache, AcceptedInv
<1>3. ASSUME NEW q \in Queries, ClassifyQuery(q) PROVE AcceptedInv'
  BY <1>3, ClassifyAccepted DEF ClassifyQuery
<1>4. ASSUME NEW q \in Queries, FanOutQuery(q) PROVE AcceptedInv'
  <2>1. /\ asked[q].pc = "ready" /\ UNCHANGED <<asked, faults>>
        /\ ReclassifyQuery(q) \/ UNCHANGED cache
    BY <1>4 DEF FanOutQuery
  <2>2. faults' \in 0..MaxFaults
    BY <2>1 DEF AcceptedInv
  <2>3. CASE ReclassifyQuery(q)
    BY <2>1, <2>2, <2>3, ReclassifyQueryAccepted
  <2>4. CASE UNCHANGED cache
    BY <2>1, <2>4 DEF cache, AcceptedInv
  <2> QED
    BY <2>1, <2>3, <2>4
<1>5. ASSUME NEW q \in Queries, NEW i \in ShardIndex, ShardAnswers(q, i) PROVE AcceptedInv'
  <2>1. work[q].pc = "shards" /\ UNCHANGED asked
    BY <1>5 DEF ShardAnswers
  <2>2. asked[q].pc = "ready"
    BY <2>1 DEF WorkInv
  <2>3. faults' \in 0..MaxFaults
    BY <1>0, <1>5 DEF ShardAnswers, AcceptedInv
  <2>4. ReclassifyQuery(q) \/ UNCHANGED cache
    <3>1. PICK chunks : Received(q, i, chunks)
      BY <1>5 DEF ShardAnswers
    <3> QED
      BY <3>1 DEF Received, AllAnswered
  <2>5. CASE ReclassifyQuery(q)
    BY <2>1, <2>2, <2>3, <2>5, ReclassifyQueryAccepted
  <2>6. CASE UNCHANGED cache
    BY <2>1, <2>3, <2>6 DEF cache, AcceptedInv
  <2> QED
    BY <2>4, <2>5, <2>6
<1>6. CASE Environment
  BY <1>6, EnvironmentAccepted DEF Environment
<1> QED
  BY <1>1, <1>2, <1>3, <1>4, <1>5, <1>6 DEF Next, Step

\* A step of one query, whose record after it is in order, keeps WorkInv.
LEMMA OneWork ==
    ASSUME LocalInv, WorkInv, NEW q \in Queries, NEW w, Record(w), w.pc \in Working,
           w.pc \notin Holding => w.client = Null,
           w.pc \notin {"idle", "classify", "done"} => asked[q].pc = "ready",
           work' = [work EXCEPT ![q] = w], UNCHANGED <<asked, tables>>,
           \A c \in LocalClients : /\ local'[c].holder \in Queries \cup {Null}
                                   /\ local'[c].tx \in {"none", "open", "aborted"}
    PROVE  WorkInv'
<1>1. work' = [r \in Queries |-> IF r = q THEN w ELSE work[r]]
  BY DEF LocalInv
<1>2. \A r \in Queries : work'[r] = IF r = q THEN w ELSE work[r]
  BY <1>1
<1> QED
  BY <1>2 DEF WorkInv

\* A query that is done holds no client.
LEMMA FinishedWork ==
    ASSUME NEW w, Record(w), NEW answer
    PROVE  LET f == Finished(w, answer) IN
           Record(f) /\ f.pc = "done" /\ f.client = Null /\ f.pc \in Working
  BY DEF Record, Finished, Working

\* Sessions that are left alone keep their types.
LEMMA SameSessions ==
    ASSUME WorkInv, UNCHANGED local
    PROVE  \A c \in LocalClients : /\ local'[c].holder \in Queries \cup {Null}
                                   /\ local'[c].tx \in {"none", "open", "aborted"}
  BY DEF WorkInv

\* The steps before the merge.
LEMMA RequestTypes ==
    ASSUME LocalInv, WorkInv, NEW q \in Queries,
           Issue(q) \/ Unclassified(q) \/ Handed(q) \/ FanOutQuery(q)
    PROVE  WorkInv'
<1>1. Record(work[q])
  BY DEF LocalInv
<1>2. UNCHANGED <<asked, tables, local>>
  BY DEF Issue, Unclassified, Handed, FanOutQuery, classifying
<1>3. \A a : LET f == Finished(work[q], a) IN
             Record(f) /\ f.pc = "done" /\ f.client = Null /\ f.pc \in Working
  BY <1>1, FinishedWork
<1>4. ASSUME NEW a, work' = [work EXCEPT ![q] = Finished(work[q], a)] PROVE WorkInv'
  <2> DEFINE w == Finished(work[q], a)
  <2>1. Record(w) /\ w.pc = "done" /\ w.client = Null /\ w.pc \in Working
    BY <1>3
  <2>2. work' = [work EXCEPT ![q] = w]
    BY <1>4
  <2> HIDE DEF w
  <2> QED
    BY <1>2, <2>1, <2>2, SameSessions, OneWork
<1>5. CASE Issue(q)
  <2> DEFINE w == [work[q] EXCEPT !.pc = "classify"]
  <2>1. Record(w) /\ w.pc = "classify" /\ w.client = work[q].client
    BY <1>1 DEF Record
  <2>2. work' = [work EXCEPT ![q] = w] /\ work[q].client = Null
    BY <1>5 DEF Issue, WorkInv, Holding
  <2>3. w.pc \in Working
    BY <2>1 DEF Working
  <2> HIDE DEF w
  <2> QED
    BY <1>2, <2>1, <2>2, <2>3, SameSessions, OneWork
<1>6. CASE Unclassified(q) \/ Handed(q)
  BY <1>4, <1>6 DEF Unclassified, Handed
<1>7. CASE FanOutQuery(q)
  <2> DEFINE x(k, s, v) ==
        [work[q] EXCEPT !.pc = "shards", !.kind = k, !.sent = s, !.values = v]
  <2>1. \A k, s, v : /\ Record(x(k, s, v)) /\ x(k, s, v).pc = "shards"
                     /\ x(k, s, v).client = work[q].client
    BY <1>1, SentRecord
  <2>2. \/ work' = [work EXCEPT ![q] = Finished(work[q], Error)]
        \/ \E k, s, v : work' = [work EXCEPT ![q] = x(k, s, v)]
    BY <1>7 DEF FanOutQuery
  <2>3. work[q].client = Null /\ asked[q].pc = "ready" /\ "shards" \in Working
    BY <1>7 DEF FanOutQuery, WorkInv, Holding, Working
  <2> HIDE DEF x
  <2>4. ASSUME NEW k, NEW s, NEW v, work' = [work EXCEPT ![q] = x(k, s, v)] PROVE WorkInv'
    <3> DEFINE w == x(k, s, v)
    <3>1. Record(w) /\ w.pc = "shards" /\ w.client = work[q].client
      BY <2>1
    <3>2. work' = [work EXCEPT ![q] = w]
      BY <2>4
    <3> HIDE DEF w
    <3> QED
      BY <1>2, <2>3, <3>1, <3>2, SameSessions, OneWork
  <2> QED
    BY <1>4, <2>2, <2>4
<1> QED
  BY <1>5, <1>6, <1>7

\* A result of a shard.
LEMMA ReceivedTypes ==
    ASSUME LocalInv, WorkInv, NEW q \in Queries, NEW i, NEW chunks, Received(q, i, chunks),
           work[q].pc = "shards", UNCHANGED <<asked, tables, local>>
    PROVE  WorkInv'
<1> DEFINE answer == Decoded(chunks)
           w == [work[q] EXCEPT !.answers[i] = answer, !.cut = @ \/ Bare(chunks) # {}]
<1>1. Record(w) /\ w.pc = "shards" /\ w.client = work[q].client
  BY DEF LocalInv, Record
<1>2. work[q].client = Null /\ asked[q].pc = "ready" /\ {"shards", "connect"} \subseteq Working
  BY DEF WorkInv, Holding, Working
<1>3. \A a : LET f == Finished(w, a) IN
             Record(f) /\ f.pc = "done" /\ f.client = Null /\ f.pc \in Working
  BY <1>1, FinishedWork
<1>4. LET x == [w EXCEPT !.pc = "connect"] IN
      Record(x) /\ x.pc = "connect" /\ x.client = w.client
  BY <1>1 DEF Record
<1>5. \E x : /\ Record(x) /\ x.pc \in Working \ Holding /\ x.client = Null
             /\ work' = [work EXCEPT ![q] = x]
  <2>1. CASE answer # Error /\ Null \notin ToSet(w.answers)
    <3>1. AllAnswered(q, w)
      BY <2>1 DEF Received
    <3> HIDE DEF w
    <3>2. \/ \E a : work' = [work EXCEPT ![q] = Finished(w, a)]
          \/ work' = [work EXCEPT ![q] = [w EXCEPT !.pc = "connect"]]
      BY <3>1 DEF AllAnswered
    <3>3. CASE \E a : work' = [work EXCEPT ![q] = Finished(w, a)]
      BY <1>3, <3>3 DEF Holding
    <3>4. CASE work' = [work EXCEPT ![q] = [w EXCEPT !.pc = "connect"]]
      <4> DEFINE x == [w EXCEPT !.pc = "connect"]
      <4>1. Record(x) /\ x.pc = "connect" /\ x.client = Null
        BY <1>1, <1>2, <1>4
      <4>2. work' = [work EXCEPT ![q] = x]
        BY <3>4
      <4> HIDE DEF x
      <4> QED
        BY <1>2, <4>1, <4>2 DEF Holding
    <3> QED
      BY <3>2, <3>3, <3>4
  <2>2. CASE ~(answer # Error /\ Null \notin ToSet(w.answers))
    <3>1. work' = [work EXCEPT ![q] = IF answer = Error THEN Finished(w, Error) ELSE w]
      BY <2>2 DEF Received
    <3> HIDE DEF w
    <3> QED
      BY <1>1, <1>2, <1>3, <3>1 DEF Holding
  <2> QED
    BY <2>1, <2>2
<1>6. PICK x : /\ Record(x) /\ x.pc \in Working \ Holding /\ x.client = Null
               /\ work' = [work EXCEPT ![q] = x]
  BY <1>5
<1> QED
  BY <1>2, <1>6, SameSessions, OneWork

\* The query takes a client, or gives up.
LEMMA ConnectTypes ==
    ASSUME LocalInv, WorkInv, NEW q \in Queries, Connect(q)
    PROVE  WorkInv'
<1>1. Record(work[q]) /\ UNCHANGED <<asked, tables>> /\ asked[q].pc = "ready"
  BY DEF LocalInv, WorkInv, Connect, classifying
<1>2. ASSUME NEW a, work' = [work EXCEPT ![q] = Finished(work[q], a)], UNCHANGED local
      PROVE  WorkInv'
  <2> DEFINE w == Finished(work[q], a)
  <2>1. Record(w) /\ w.pc = "done" /\ w.client = Null /\ w.pc \in Working
    BY <1>1, FinishedWork
  <2>2. work' = [work EXCEPT ![q] = w]
    BY <1>2
  <2> HIDE DEF w
  <2> QED
    BY <1>1, <1>2, <2>1, <2>2, SameSessions, OneWork
<1>3. ASSUME NEW c \in LocalClients, local' = [local EXCEPT ![c].holder = q],
             work' = [work EXCEPT ![q].pc = "begin", ![q].client = c]
      PROVE  WorkInv'
  <2> DEFINE w == [work[q] EXCEPT !.pc = "begin", !.client = c]
             s == [local[c] EXCEPT !.holder = q]
  <2>1. Record(w) /\ w.pc = "begin"
    BY <1>1 DEF Record
  <2>2. work' = [work EXCEPT ![q] = w] /\ "begin" \in Working \cap Holding
    BY <1>3 DEF Working, Holding
  <2>3. s.holder = q /\ s.tx = local[c].tx
    BY DEF LocalInv, Session
  <2>4. local' = [d \in LocalClients |-> IF d = c THEN s ELSE local[d]]
    BY <1>3 DEF LocalInv
  <2> HIDE DEF w, s
  <2>5. \A d \in LocalClients : /\ local'[d].holder \in Queries \cup {Null}
                                /\ local'[d].tx \in {"none", "open", "aborted"}
    BY <2>3, <2>4 DEF WorkInv
  <2> QED
    BY <1>1, <2>1, <2>2, <2>5, OneWork
<1> QED
  BY <1>2, <1>3 DEF Connect

\* The statements on its client, and the end of the transaction.
LEMMA TransactionTypes ==
    ASSUME LocalInv, WorkInv, NEW q \in Queries,
           \/ LocalBegin(q) \/ LocalCreate(q) \/ LocalLoad(q) \/ LocalRun(q)
           \/ LocalCommit(q) \/ LocalRollback(q)
    PROVE  WorkInv'
<1> DEFINE c == work[q].client
           s == local[c]
<1>0. work[q].pc \in Holding
  BY DEF LocalBegin, LocalCreate, LocalLoad, LocalRun, LocalCommit, LocalRollback, LocalStep,
         Holding
<1>1. /\ Record(work[q]) /\ UNCHANGED <<asked, tables>>
      /\ asked[q].pc = "ready" /\ c \in LocalClients
      /\ Session(s) /\ s.holder = q /\ s.tx \in {"none", "open", "aborted"}
  <2>1. c \in LocalClients /\ local[c].holder = q
    BY <1>0 DEF LocalInv, Held
  <2>2. Record(work[q]) /\ Session(s)
    BY <2>1 DEF LocalInv
  <2>3. asked[q].pc = "ready" /\ s.tx \in {"none", "open", "aborted"}
    BY <1>0, <2>1 DEF WorkInv, Holding
  <2>4. UNCHANGED <<asked, tables>>
    BY DEF LocalBegin, LocalCreate, LocalLoad, LocalRun, LocalCommit, LocalRollback,
           LocalStep, LocalRefused, classifying
  <2> QED
    BY <2>1, <2>2, <2>3, <2>4
\* The session may become any that keeps its types.
<1>2. ASSUME NEW d, local' = [local EXCEPT ![c] = d],
             d.holder \in {q, Null}, d.tx \in {"none", "open", "aborted"}
      PROVE  \A e \in LocalClients : /\ local'[e].holder \in Queries \cup {Null}
                                     /\ local'[e].tx \in {"none", "open", "aborted"}
  <2>1. local' = [e \in LocalClients |-> IF e = c THEN d ELSE local[e]]
    BY <1>2 DEF LocalInv
  <2>2. \A e \in LocalClients : local'[e] = IF e = c THEN d ELSE local[e]
    BY <2>1
  <2> QED
    BY <1>2, <2>2 DEF WorkInv
\* The query goes on ...
<1>3. ASSUME NEW next \in Holding, NEW d, local' = [local EXCEPT ![c] = d],
             d.holder \in {q, Null}, d.tx \in {"none", "open", "aborted"},
             \/ work' = [work EXCEPT ![q].pc = next]
             \/ \E r : work' = [work EXCEPT ![q].pc = next, ![q].answer = r]
      PROVE  WorkInv'
  <2>1. \A r : /\ LET w == [work[q] EXCEPT !.pc = next] IN Record(w) /\ w.pc = next
               /\ LET w == [work[q] EXCEPT !.pc = next, !.answer = r] IN Record(w) /\ w.pc = next
    BY <1>1 DEF Record
  <2>2. \E w : Record(w) /\ w.pc = next /\ work' = [work EXCEPT ![q] = w]
    <3>1. CASE work' = [work EXCEPT ![q].pc = next]
      <4> DEFINE w == [work[q] EXCEPT !.pc = next]
      <4>1. Record(w) /\ w.pc = next
        BY <2>1
      <4>2. work' = [work EXCEPT ![q] = w]
        BY <3>1
      <4> QED
        BY <4>1, <4>2
    <3>2. CASE \E r : work' = [work EXCEPT ![q].pc = next, ![q].answer = r]
      <4>1. PICK r : work' = [work EXCEPT ![q].pc = next, ![q].answer = r]
        BY <3>2
      <4> DEFINE w == [work[q] EXCEPT !.pc = next, !.answer = r]
      <4>2. Record(w) /\ w.pc = next
        BY <2>1
      <4>3. work' = [work EXCEPT ![q] = w]
        BY <4>1
      <4> QED
        BY <4>2, <4>3
    <3> QED
      BY <1>3, <3>1, <3>2
  <2>3. PICK w : Record(w) /\ w.pc = next /\ work' = [work EXCEPT ![q] = w]
    BY <2>2
  <2>4. w.pc \in Working
    BY <2>3 DEF Working, Holding
  <2>5. \A e \in LocalClients : /\ local'[e].holder \in Queries \cup {Null}
                                /\ local'[e].tx \in {"none", "open", "aborted"}
    BY <1>2, <1>3
  <2> QED
    BY <1>1, <1>3, <2>3, <2>4, <2>5, OneWork
\* ... or is done.
<1>4. ASSUME NEW a, work' = [work EXCEPT ![q] = Finished(work[q], a)],
             NEW d, local' = [local EXCEPT ![c] = d],
             d.holder \in {q, Null}, d.tx \in {"none", "open", "aborted"}
      PROVE  WorkInv'
  <2> DEFINE w == Finished(work[q], a)
  <2>1. Record(w) /\ w.pc = "done" /\ w.client = Null /\ w.pc \in Working
    BY <1>1, FinishedWork
  <2>2. work' = [work EXCEPT ![q] = w]
    BY <1>4
  <2>3. \A e \in LocalClients : /\ local'[e].holder \in Queries \cup {Null}
                                /\ local'[e].tx \in {"none", "open", "aborted"}
    BY <1>2, <1>4
  <2> HIDE DEF w
  <2> QED
    BY <1>1, <2>1, <2>2, <2>3, OneWork
<1>5. /\ \A x : LET d == [s EXCEPT !.tx = x] IN d.holder = q /\ d.tx = x
      /\ \A x : LET d == [s EXCEPT !.temp = x] IN d.holder = q /\ d.tx = s.tx
      /\ Released(s).holder = Null /\ Released(s).tx = s.tx
      /\ Rollback(s).holder = q /\ Rollback(s).tx = "none"
      /\ Released(Rollback(s)).holder = Null /\ Released(Rollback(s)).tx = "none"
  BY <1>1 DEF Session, Released, Rollback
<1> DEFINE to(x) == [s EXCEPT !.tx = x]
           with(x) == [s EXCEPT !.temp = x]
<1>b. /\ \A x : to(x).holder = q /\ to(x).tx = x
      /\ \A x : with(x).holder = q /\ with(x).tx = s.tx
  BY <1>5
<1> HIDE DEF s
<1>a. /\ \A x : [local EXCEPT ![c].tx = x] = [local EXCEPT ![c] = [s EXCEPT !.tx = x]]
      /\ [local EXCEPT ![c] = s] = local
  BY DEF s, LocalInv
<1>c. {"create", "load", "run", "commit", "rollback"} \subseteq Holding
  BY DEF Holding
<1> HIDE DEF to, with
<1>d. ASSUME local' = [local EXCEPT ![c] = to("aborted")],
             work' = [work EXCEPT ![q].pc = "rollback"]
      PROVE  WorkInv'
  <2> DEFINE d == to("aborted")
  <2>1. d.holder \in {q, Null} /\ d.tx \in {"none", "open", "aborted"}
    BY <1>b
  <2>2. local' = [local EXCEPT ![c] = d]
    BY <1>d
  <2> HIDE DEF d
  <2> QED
    BY <1>3, <1>c, <1>d, <2>1, <2>2
<1>6. CASE LocalBegin(q)
  <2>1. \/ /\ local' = [local EXCEPT ![c] = to("open")]
           /\ work' = [work EXCEPT ![q].pc = "create"]
        \/ /\ local' = [local EXCEPT ![c] = Released(s)]
           /\ work' = [work EXCEPT ![q] = Finished(work[q], Error)]
    BY <1>6, <1>a DEF LocalBegin, s, to
  <2>2. CASE /\ local' = [local EXCEPT ![c] = to("open")]
             /\ work' = [work EXCEPT ![q].pc = "create"]
    <3> DEFINE d == to("open")
    <3>1. d.holder \in {q, Null} /\ d.tx \in {"none", "open", "aborted"}
      BY <1>b
    <3> HIDE DEF d
    <3> QED
      BY <1>3, <1>c, <2>2, <3>1 DEF d
  <2>3. CASE /\ local' = [local EXCEPT ![c] = Released(s)]
             /\ work' = [work EXCEPT ![q] = Finished(work[q], Error)]
    BY <1>1, <1>4, <1>5, <2>3
  <2> QED
    BY <2>1, <2>2, <2>3
<1>7. ASSUME LocalRefused(q) PROVE WorkInv'
  <2>1. /\ local' = [local EXCEPT ![c] = to("aborted")]
        /\ work' = [work EXCEPT ![q].pc = "rollback"]
    BY <1>7, <1>a DEF LocalRefused, to
  <2> QED
    BY <1>d, <2>1
<1>8. ASSUME NEW at, NEW next \in Holding, NEW x, LocalStep(q, at, next, [s EXCEPT !.temp = x])
      PROVE  WorkInv'
  <2> DEFINE d == with(x)
  <2>1. \/ /\ local' = [local EXCEPT ![c] = d]
           /\ work' = [work EXCEPT ![q].pc = next]
        \/ /\ local' = [local EXCEPT ![c] = to("aborted")]
           /\ work' = [work EXCEPT ![q].pc = "rollback"]
    BY <1>8, <1>a DEF LocalStep, to, with
  <2>2. d.holder \in {q, Null} /\ d.tx \in {"none", "open", "aborted"}
    BY <1>1, <1>b
  <2> HIDE DEF d
  <2>3. CASE /\ local' = [local EXCEPT ![c] = d]
             /\ work' = [work EXCEPT ![q].pc = next]
    BY <1>3, <1>8, <2>2, <2>3
  <2> QED
    BY <1>d, <2>1, <2>3
<1>9. CASE LocalCreate(q)
  <2>1. CASE LocalRefused(q)
    BY <1>7, <2>1
  <2>2. CASE ~LocalRefused(q)
    <3>1. PICK x : LocalStep(q, "create", "load", [s EXCEPT !.temp = x])
      BY <1>9, <2>2 DEF LocalCreate, s
    <3> QED
      BY <1>8, <3>1 DEF Holding
  <2> QED
    BY <2>1, <2>2
<1>10. CASE LocalLoad(q)
  <2>1. CASE LocalRefused(q)
    BY <1>7, <2>1
  <2>2. CASE ~LocalRefused(q)
    <3>1. PICK x : LocalStep(q, "load", "run", [s EXCEPT !.temp = x])
      BY <1>10, <2>2 DEF LocalLoad, s
    <3> QED
      BY <1>8, <3>1 DEF Holding
  <2> QED
    BY <2>1, <2>2
<1>11. CASE LocalRun(q)
  <2>1. CASE LocalRefused(q)
    BY <1>7, <2>1
  <2>2. CASE work' = [work EXCEPT ![q].pc = "rollback"]
             /\ local' = [local EXCEPT ![c] = to("aborted")]
    BY <1>d, <2>2
  <2>3. CASE UNCHANGED local /\ \E r : work' = [work EXCEPT ![q].pc = "commit", ![q].answer = r]
    <3>1. local' = [local EXCEPT ![c] = s] /\ s.holder = q
      BY <1>1, <1>a, <2>3
    <3> QED
      BY <1>1, <1>3, <2>3, <3>1 DEF Holding
  <2> QED
    BY <1>11, <1>a, <2>1, <2>2, <2>3 DEF LocalRun, to
<1>12. CASE LocalCommit(q)
  <2> DEFINE d == Released([s EXCEPT !.tx = "none", !.temp = Null])
  <2>1. d.holder = Null /\ d.tx = "none"
    BY <1>1 DEF Session, Released
  <2> HIDE DEF d
  <2>2. \/ /\ local' = [local EXCEPT ![c] = d]
           /\ work' = [work EXCEPT ![q] = Finished(work[q], work[q].answer)]
        \/ /\ local' = [local EXCEPT ![c] = Rollback(s)]
           /\ work' = [work EXCEPT ![q].pc = "rollback"]
    BY <1>12 DEF LocalCommit, d, s
  <2> QED
    BY <1>3, <1>4, <1>5, <2>1, <2>2 DEF Holding
<1>13. CASE LocalRollback(q)
  <2>1. /\ work' = [work EXCEPT ![q] = Finished(work[q], Error)]
        /\ local' = [local EXCEPT ![c] = Released(Rollback(s))]
    BY <1>13 DEF LocalRollback, s
  <2> QED
    BY <1>4, <1>5, <2>1
<1> QED
  BY <1>6, <1>9, <1>10, <1>11, <1>12, <1>13

\* A classification concerns its query alone, which waits for it.
LEMMA ClassifyTypes ==
    ASSUME CacheInv, WorkInv, NEW q \in Queries, ClassifyQuery(q)
    PROVE  WorkInv'
<1>1. asked = [r \in Queries |-> asked[r]]
  BY DEF CacheInv, AskedSound
<1>2. ASSUME NEW class, Answer(q, class)
      PROVE  \A r \in Queries : r # q => asked'[r] = asked[r]
  BY <1>1, <1>2 DEF Answer
<1>3. ASSUME Parse(q)
      PROVE  \A r \in Queries : r # q => asked'[r] = asked[r]
  BY <1>1, <1>3 DEF Parse, Parsed
<1>4. \A r \in Queries : r # q => asked'[r] = asked[r]
  <2>1. CASE AskBlank(q)
    BY <1>2, <2>1 DEF AskBlank
  <2>2. CASE AskHit(q)
    BY <1>2, <2>2 DEF AskHit
  <2>3. CASE AskMiss(q)
    <3>1. CASE Parse(q)
      BY <1>3, <3>1
    <3>2. CASE ~Parse(q)
      BY <1>1, <2>3, <3>2 DEF AskMiss
    <3> QED
      BY <3>1, <3>2
  <2>4. CASE ClientAwaited(q)
    <3>1. CASE Parse(q)
      BY <1>3, <3>1
    <3>2. CASE ~Parse(q)
      BY <1>1, <2>4, <3>2 DEF ClientAwaited
    <3> QED
      BY <3>1, <3>2
  <2>5. CASE RedisGet(q)
    <3>1. CASE Parse(q)
      BY <1>3, <3>1
    <3>2. CASE ~Parse(q)
      BY <1>1, <2>5, <3>2 DEF RedisGet
    <3> QED
      BY <3>1, <3>2
  <2>6. CASE RedisExpire(q)
    <3>1. Parse(q) \/ \E class : Answer(q, class)
      BY <2>6 DEF RedisExpire
    <3> QED
      BY <1>2, <1>3, <3>1
  <2>7. CASE RedisSet(q)
    BY <1>1, <2>7 DEF RedisSet
  <2> QED
    BY <2>1, <2>2, <2>3, <2>4, <2>5, <2>6, <2>7 DEF ClassifyQuery, Classify
<1>5. work[q].pc = "classify" /\ UNCHANGED <<tables, work, local>>
  BY DEF ClassifyQuery
<1> QED
  BY <1>4, <1>5 DEF WorkInv

\* No step of the system breaks the types of the queries and of the local clients.
LEMMA NextWork == CacheInv /\ LocalInv /\ WorkInv /\ [Next]_vars => WorkInv'
<1> SUFFICES ASSUME CacheInv, LocalInv, WorkInv, [Next]_vars PROVE WorkInv'
  OBVIOUS
<1>1. ASSUME UNCHANGED <<asked, tables, work, local>> PROVE WorkInv'
  BY <1>1 DEF WorkInv
<1>2. ASSUME NEW q \in Queries, Issue(q) \/ Unclassified(q) \/ Handed(q) \/ FanOutQuery(q)
      PROVE  WorkInv'
  BY <1>2, RequestTypes
<1>3. ASSUME NEW q \in Queries, ClassifyQuery(q) PROVE WorkInv'
  BY <1>3, ClassifyTypes
<1>4. ASSUME NEW q \in Queries, NEW i \in ShardIndex, ShardAnswers(q, i) PROVE WorkInv'
  <2>1. /\ work[q].pc = "shards" /\ UNCHANGED <<asked, tables, local>>
        /\ \E answer : Received(q, i, answer)
    BY <1>4 DEF ShardAnswers
  <2> QED
    BY <2>1, ReceivedTypes
<1>5. ASSUME NEW q \in Queries, Merge(q) PROVE WorkInv'
  BY <1>5, ConnectTypes, TransactionTypes DEF Merge
<1>6. CASE Environment
  <2>1. UNCHANGED asked
    BY <1>6 DEF Environment, RedisEnvironment, Connected, CloseCache, CacheClosed, Posted,
                Elsewhere, Expired
  <2> QED
    BY <1>1, <1>6, <2>1 DEF Environment
<1>7. CASE UNCHANGED vars
  BY <1>1, <1>7 DEF vars, classifying
<1> QED
  BY <1>2, <1>3, <1>4, <1>5, <1>6, <1>7 DEF Next, Step

\* Initially nothing is cached and no query runs.
LEMMA InitTypes == Init => AcceptedInv /\ WorkInv
<1> SUFFICES ASSUME Init PROVE AcceptedInv /\ WorkInv
  OBVIOUS
<1>1. PICK w \in Workloads :
         /\ link = IF w.redis THEN "none" ELSE "off"
         /\ tables = w.tables
         /\ asked = [q \in Queries |-> NewQuestion(IF w.ask[q] = Null THEN NoText ELSE w.ask[q])]
         /\ work = [q \in Queries |-> [NoWork EXCEPT !.pc = IF w.ask[q] = Null THEN "done"
                                                              ELSE "idle"]]
  BY DEF Init
<1>2. AcceptedInv
  <2>1. \A t : Told(NewQuestion(t))
    BY NotRefused DEF Told, NewQuestion
  <2>2. \A q \in Queries : Told(asked[q])
    BY <1>1, <2>1
  <2>3. memory = <<>> /\ posted = {} /\ faults \in 0..MaxFaults
    BY ClassificationAssumption DEF Init, ClassificationInit
  <2>4. \A t \in Texts : redis[t] # Refused
    BY NotRefused DEF Init, ClassificationInit
  <2>5. link \in Links
    BY <1>1 DEF Links
  <2>6. Accepted(memory)
    BY <2>3 DEF Accepted
  <2> QED
    BY <2>2, <2>3, <2>4, <2>5, <2>6 DEF AcceptedInv
<1>3. WorkInv
  <2>1. \A x : LET f == [NoWork EXCEPT !.pc = x] IN f.pc = x /\ f.client = Null
    BY DEF NoWork
  <2>2. \A q \in Queries : work[q].pc \in {"idle", "done"} /\ work[q].client = Null
    BY <1>1, <2>1
  <2>3. local = [c \in LocalClients |-> Idle]
    BY DEF Init
  <2>4. \A c \in LocalClients : local[c].holder = Null /\ local[c].tx = "none"
    BY <2>3 DEF Idle
  <2> QED
    BY <1>1, <2>2, <2>4 DEF WorkInv, Working, Holding
<1> QED
  BY <1>2, <1>3

\* Together the invariants give every variable its type: what is cached, kept in Redis or
\* told to a query is a class, because it is the parser's of a text that is not refused.
LEMMA TypesImplied == CacheInv /\ LocalInv /\ AcceptedInv /\ WorkInv => TypeOK
<1> SUFFICES ASSUME CacheInv, LocalInv, AcceptedInv, WorkInv PROVE TypeOK
  OBVIOUS
<1>0. \A c : c \in Parses /\ c # Refused => c \in Classes
  BY ComputedClass DEF Parses
<1>1. memory \in Seq(Entry)
  <2>1. memory \in Seq(Cells) /\ Len(memory) \in Nat
    BY DEF CacheInv, Sound
  <2>2. \A i \in 1..Len(memory) : memory[i] \in Cells
    BY <2>1
  <2>3. \A i \in 1..Len(memory) : memory[i] \in Entry
    BY <1>0, <2>2 DEF Cells, Entry, AcceptedInv, Accepted
  <2>4. memory = [i \in 1..Len(memory) |-> memory[i]]
    BY <2>1
  <2> QED
    BY <2>1, <2>3, <2>4
<1>2. redis \in [Texts -> Classes \cup {Garbage, Null}]
  <2>1. ASSUME NEW t \in Texts PROVE redis[t] \in Classes \cup {Garbage, Null}
    <3>1. redis[t] \in {Computed(t), Garbage, Null} /\ redis[t] # Refused
      BY DEF CacheInv, RedisSound, Trusted, AcceptedInv
    <3> QED
      BY <3>1, ComputedClass
  <2>2. redis = [t \in Texts |-> redis[t]]
    BY DEF CacheInv, RedisSound
  <2> QED
    BY <2>1, <2>2
<1>3. asked \in [Queries -> Asked]
  <2>1. ASSUME NEW q \in Queries PROVE asked[q] \in Asked
    <3>1. asked[q] \in Questions /\ Told(asked[q])
      BY QuestionInv DEF QuestionSound, AcceptedInv
    <3> QED
      BY <1>0, <3>1 DEF Questions, Asked, Told
  <2>2. asked = [q \in Queries |-> asked[q]]
    BY DEF CacheInv, AskedSound
  <2> QED
    BY <2>1, <2>2
<1>4. ClassificationTypeOK
  BY <1>1, <1>2, <1>3 DEF ClassificationTypeOK, AcceptedInv, Links
<1>5. \A q \in Queries :
         /\ work[q].pc \in Working
         /\ work[q].client \in LocalClients \cup {Null}
         /\ work[q].pc \in Holding <=> work[q].client # Null
         /\ work[q].client # Null => local[work[q].client].holder = q
  BY FanOutAssumption DEF LocalInv, Held, WorkInv
<1> QED
  BY <1>4, <1>5 DEF TypeOK, WorkInv, Holding, Tables

\* Every variable has its type, for all texts, workloads, sizes of the cache and local
\* clients; a query has a client while it uses one, which knows it as its holder.
THEOREM TypeCorrect == Spec => []TypeOK
<1> DEFINE IInv == CacheInv /\ LocalInv /\ AcceptedInv /\ WorkInv
<1>1. Init => IInv
  BY InitCache, InitLocal, InitTypes
<1>2. IInv /\ [Next]_vars => IInv'
  BY NextCache, NextLocal, NextAccepted, NextWork
<1>3. IInv => TypeOK
  BY TypesImplied
<1> QED
  BY <1>1, <1>2, <1>3, PTL DEF Spec
==============================================================================
