----------------------------- MODULE ProxyWire -----------------------------
(***************************************************************************)
(* The wire side of a proxy session (src/proxy/session.ts): bytes arrive   *)
(* in chunks, enqueuePump() starts the pump unless it is running, and the  *)
(* pump takes the complete messages one by one through the phases of a     *)
(* connection: startup, password, then simple queries and the extended     *)
(* protocol (Parse, Bind, Execute, Sync).  The pump is suspended only      *)
(* while a Query or an Execute runs its statement, which ProxySession      *)
(* models; here a message has one statement, which succeeds or fails.      *)
(*                                                                         *)
(* The client sends a startup message first, at most one password, and     *)
(* nothing after Terminate; otherwise it pipelines what it likes, also     *)
(* before it was asked for the password and before its password was read.  *)
(***************************************************************************)
EXTENDS Naturals, Sequences, SequencesExt

CONSTANTS
    Null,
    Passwords,  \* config.password is set: TRUE, FALSE
    MaxSent,    \* bound: messages the client sends
    Faults      \* the kinds of statement that may fail

Stmt == {"none", "begin", "commit", "data"}

ASSUME ConstantsAssumption ==
    /\ Passwords \subseteq BOOLEAN /\ Passwords # {}
    /\ MaxSent \in Nat
    /\ Faults \subseteq Stmt \ {"none"}

VARIABLES
    secret,     \* config.password is set
    phase,      \* "first", "auth" or "ready"
    buf,        \* the complete messages in this.buf
    partial,    \* the message whose first bytes are at the end of this.buf
    pumping,    \* the flag of enqueuePump()
    needPump,   \* data came while the pump was running
    looping,    \* a pump is at the head of its loop
    pending,    \* the messages whose statement a pump awaits
    unnamed,    \* unnamedSql, and the number of the Parse it came with
    values,     \* the number of the Bind that unnamedValues came with
    inTx,
    txStatus,
    ended,      \* socket.end() was called
    sent,       \* the number of messages the client sent
    group,      \* the client's last Parse
    portal,     \* the client's last Bind, and the Parse it bound
    password,   \* the password message the client sent, or Null
    quit,       \* the client sent Terminate
    owed,       \* the messages sent that ReadyForQuery answers, by number
    ready,      \* the ReadyForQuery messages received, with what was true then
    executed,   \* the Execute messages run: what was run, what was meant
    beginFailed \* a BEGIN failed, and its transaction was not ended since

conf == <<secret, phase, ended>>
flow == <<buf, partial, pumping, needPump, looping, pending>>
state == <<unnamed, values, inTx, txStatus>>
client == <<sent, group, portal, password, quit, owed>>
seen == <<ready, executed, beginFailed>>
vars == <<conf, flow, state, client, seen>>

Simple == {"S", "B", "D", "H", "C", "X", "F"}

\* n numbers the client's messages.  An Execute carries what its client means: the
\* portal of its last Bind, and the Parse it sent last.
Message ==
    [type : {"ssl", "startup"} \cup Simple, n : 1..MaxSent]
      \cup [type : {"p"}, n : 1..MaxSent, right : BOOLEAN]
      \cup [type : {"Q", "P"}, n : 1..MaxSent, stmt : Stmt]
      \cup [type : {"E"}, n : 1..MaxSent, of : 0..MaxSent, with : 0..MaxSent,
           last : 0..MaxSent]

ASSUME NullAssumption == Null \notin Message

Statement == [n : 0..MaxSent, stmt : Stmt]

\* What an Execute runs: the Parse of the text, the Bind of the values.
Execution == [of : 0..MaxSent, with : 0..MaxSent]

\* A message that a pump awaits, with the statement it runs.
Awaited == [m : Message, run : Statement]

\* A ReadyForQuery, and what was true when it was sent.
Answer == [n : 1..MaxSent, status : {"I", "T", "E"}, tx : BOOLEAN, excused : BOOLEAN]

\* An Execute that was run: what it ran, what the client meant, and the client's last
\* Parse before it.
Executed == [ran : Execution, meant : Execution, last : 0..MaxSent]

\* Every variable has its type; ReadyForQuery's stored status is never "E".
TypeOK ==
    /\ secret \in Passwords
    /\ phase \in {"first", "auth", "ready"}
    /\ buf \in Seq(Message)
    /\ partial \in Message \cup {Null}
    /\ pumping \in BOOLEAN /\ needPump \in BOOLEAN /\ looping \in BOOLEAN
    /\ pending \in Seq(Awaited)
    /\ unnamed \in Statement
    /\ values \in 0..MaxSent
    /\ inTx \in BOOLEAN
    /\ txStatus \in {"I", "T"}
    /\ ended \in BOOLEAN /\ quit \in BOOLEAN /\ beginFailed \in BOOLEAN
    /\ sent \in 0..MaxSent
    /\ group \in Statement
    /\ portal \in Execution
    /\ password \in Message \cup {Null}
    /\ owed \in Seq(1..MaxSent)
    /\ ready \in Seq(Answer)
    /\ executed \in Seq(Executed)

Init ==
    /\ secret \in Passwords
    /\ phase = "first"
    /\ buf = << >>
    /\ partial = Null
    /\ pumping = FALSE /\ needPump = FALSE /\ looping = FALSE
    /\ pending = << >>
    /\ unnamed = [n |-> 0, stmt |-> "none"]
    /\ values = 0
    /\ inTx = FALSE
    /\ txStatus = "I"
    /\ ended = FALSE /\ quit = FALSE /\ beginFailed = FALSE
    /\ sent = 0
    /\ group = [n |-> 0, stmt |-> "none"]
    /\ portal = [of |-> 0, with |-> 0]
    /\ password = Null
    /\ owed = << >>
    /\ ready = << >>
    /\ executed = << >>
---------------------------------------------------------------------------
(***************************************************************************)
(* Chunks and the pump's flags.                                            *)
(***************************************************************************)
\* Mutant: every chunk starts a pump.
EnqueuePump_Always == looping' = TRUE /\ pumping' = TRUE /\ UNCHANGED needPump

EnqueuePump ==
    IF pumping THEN needPump' = TRUE /\ UNCHANGED <<pumping, looping>>
    ELSE pumping' = TRUE /\ looping' = TRUE /\ UNCHANGED needPump

\* The startup message was sent.
Started == phase # "first" \/ \E i \in 1..Len(buf) : buf[i].type = "startup"

\* What the client sends now is for an authenticated session, once it is read.
Served == secret => password # Null /\ password.right

\* What the client may send as message n.
Sendable(n) ==
    IF ~Started THEN [type : {"ssl", "startup"}, n : {n}]
    ELSE [type : Simple, n : {n}]
           \cup [type : {"p"}, n : {n}, right : IF password = Null THEN BOOLEAN ELSE {}]
           \cup [type : {"Q", "P"}, n : {n}, stmt : Stmt]
           \cup [type : {"E"}, n : {n}, of : {portal.of}, with : {portal.with},
                 last : {group.n}]

\* The client's view once it has sent m: in Postgres a Bind binds the text of the
\* Parse before it for good, and what comes before authentication is not served.
Sent(m) ==
    /\ sent' = m.n
    /\ group' = IF Served /\ m.type = "P" THEN [n |-> m.n, stmt |-> m.stmt] ELSE group
    /\ portal' = IF Served /\ m.type = "B" THEN [of |-> group.n, with |-> m.n] ELSE portal
    /\ password' = IF m.type = "p" THEN m ELSE password
    /\ quit' = (m.type = "X")
    /\ owed' = IF Served /\ m.type \in {"Q", "S", "F", "p"} THEN Append(owed, m.n) ELSE owed

\* 'data': a message, its first bytes, or the rest of the one begun.
Chunk ==
    /\ ~looping
    /\ \/ /\ partial # Null
          /\ buf' = Append(buf, partial)
          /\ partial' = Null
          /\ UNCHANGED client
       \/ /\ partial = Null
          /\ sent < MaxSent
          /\ ~quit
          /\ \E m \in Sendable(sent + 1) :
               /\ \/ buf' = Append(buf, m) /\ UNCHANGED partial
                  \/ partial' = m /\ UNCHANGED buf
               /\ Sent(m)
    /\ EnqueuePump
    /\ UNCHANGED <<conf, pending, state, seen>>

\* Mutant: the flag is not reset when the pump has ended.
PumpEnds_StaysPumping == IF needPump THEN needPump' = FALSE /\ UNCHANGED <<looping, pumping>>
                         ELSE looping' = FALSE /\ UNCHANGED <<pumping, needPump>>

\* pump() has returned: again, if data came meanwhile.
PumpEnds ==
    IF needPump THEN needPump' = FALSE /\ UNCHANGED <<looping, pumping>>
    ELSE looping' = FALSE /\ pumping' = FALSE /\ UNCHANGED needPump

PumpEmpty ==
    /\ looping
    /\ buf = << >>
    /\ PumpEnds
    /\ UNCHANGED <<conf, buf, partial, pending, state, client, seen>>
---------------------------------------------------------------------------
(***************************************************************************)
(* The messages.                                                           *)
(***************************************************************************)
\* The pump takes the message at the head of the buffer.
Take(types) ==
    /\ looping
    /\ buf # << >>
    /\ Head(buf).type \in types
    /\ buf' = Tail(buf)
    /\ UNCHANGED <<secret, partial, client>>

\* And goes on with its loop.
Continue == UNCHANGED <<pumping, needPump, looping, pending>>

\* ReadyForQuery, in answer to message n.
Ready(n, status) ==
    ready' = Append(ready, [n |-> n, status |-> status, tx |-> inTx',
                            excused |-> beginFailed'])

SSLRequest ==
    /\ phase = "first"
    /\ Take({"ssl"})
    /\ Continue
    /\ UNCHANGED <<phase, ended, state, seen>>

\* handleStartup(), then sendReady() or the request for a password.
Startup ==
    /\ phase = "first"
    /\ Take({"startup"})
    /\ Continue
    /\ phase' = IF secret THEN "auth" ELSE "ready"
    /\ txStatus' = IF secret THEN txStatus ELSE "I"
    /\ UNCHANGED <<ended, unnamed, values, inTx, seen>>

\* Mutant: the password is not compared.
Accepts_Any(m) == TRUE

Accepts(m) == m.right

Password ==
    /\ phase = "auth"
    /\ Take({"p"})
    /\ \/ /\ Accepts(Head(buf))
          /\ phase' = "ready"
          /\ txStatus' = "I"
          /\ Continue
          /\ UNCHANGED ended
       \/ /\ ~Accepts(Head(buf))
          /\ ended' = TRUE
          /\ PumpEnds
          /\ UNCHANGED <<phase, txStatus, pending>>
    /\ UNCHANGED <<unnamed, values, inTx, seen>>

\* Until the right password has come, every other message is dropped unanswered.
Drop ==
    /\ phase = "auth"
    /\ Take(Simple \cup {"Q", "P", "E"})
    /\ Continue
    /\ UNCHANGED <<phase, ended, state, seen>>

\* Terminate: the pump returns with what is left in the buffer.
Terminate ==
    /\ phase = "ready"
    /\ Take({"X"})
    /\ ended' = TRUE
    /\ PumpEnds
    /\ UNCHANGED <<phase, pending, state, seen>>

\* Mutant: a text already there is kept.
Prepared_First(m) == IF unnamed.n = 0 THEN [n |-> m.n, stmt |-> m.stmt] ELSE unnamed

Prepared(m) == [n |-> m.n, stmt |-> m.stmt]

\* handleParse(): whatever the name, one statement is kept.
Parse ==
    /\ phase = "ready"
    /\ Take({"P"})
    /\ Continue
    /\ unnamed' = Prepared(Head(buf))
    /\ UNCHANGED <<phase, ended, values, inTx, txStatus, seen>>

\* handleBind().
Bind ==
    /\ phase = "ready"
    /\ Take({"B"})
    /\ Continue
    /\ values' = Head(buf).n
    /\ UNCHANGED <<phase, ended, unnamed, inTx, txStatus, seen>>

\* Describe, Flush and Close are skipped.
Skip ==
    /\ phase = "ready"
    /\ Take({"D", "H", "C"})
    /\ Continue
    /\ UNCHANGED <<phase, ended, state, seen>>

Sync ==
    /\ phase = "ready"
    /\ Take({"S"})
    /\ Continue
    /\ UNCHANGED <<phase, ended, state, executed, beginFailed>>
    /\ Ready(Head(buf).n, txStatus)

\* A type the proxy does not know: an error, and ReadyForQuery.
Unsupported ==
    /\ phase = "ready"
    /\ Take({"F", "p"})
    /\ Continue
    /\ UNCHANGED <<phase, ended, state, executed, beginFailed>>
    /\ Ready(Head(buf).n, txStatus)

\* Query and Execute, up to the await of runSql(): BEGIN sets inTx before it.
Run ==
    /\ phase = "ready"
    /\ Take({"Q", "E"})
    /\ LET m == Head(buf)
           run == IF m.type = "Q" THEN [n |-> m.n, stmt |-> m.stmt] ELSE unnamed
       IN /\ pending' = Append(pending, [m |-> m, run |-> run])
          /\ inTx' = (inTx \/ run.stmt = "begin")
          /\ executed' = IF m.type = "Q" THEN executed
                         ELSE Append(executed, [ran |-> [of |-> unnamed.n, with |-> values],
                                            meant |-> [of |-> m.of, with |-> m.with],
                                            last |-> m.last])
    /\ looping' = FALSE
    /\ UNCHANGED <<phase, ended, pumping, needPump, unnamed, values, txStatus,
                   ready, beginFailed>>

\* Mutant: a failed statement marks the stored status.
StatusAfter_Failed(stmt, ok) ==
    IF ~ok THEN "E" ELSE IF stmt = "none" THEN txStatus
    ELSE IF inTx' THEN "T" ELSE "I"

\* Mutant: runSql() leaves the status to COMMIT and ROLLBACK.
StatusAfter_Stale(stmt, ok) == IF ok /\ stmt = "commit" THEN "I" ELSE txStatus

\* txStatus after runSql(): a failure, and a message without a statement, leave
\* it as it was.
StatusAfter(stmt, ok) ==
    IF ~ok \/ stmt = "none" THEN txStatus ELSE IF inTx' THEN "T" ELSE "I"

\* runSql() is over: handleQuery() and handleExecute() after their await.
Resume(i) ==
    LET p == pending[i]
        stmt == p.run.stmt
    IN /\ ~looping
       /\ pending' = RemoveAt(pending, i)
       /\ looping' = TRUE
       /\ \E ok \in IF stmt \in Faults THEN BOOLEAN ELSE {TRUE} :
            /\ inTx' = (inTx /\ ~(ok /\ stmt = "commit"))
            /\ beginFailed' = IF stmt = "begin" /\ ~ok THEN TRUE
                              ELSE beginFailed /\ inTx'
            /\ txStatus' = StatusAfter(stmt, ok)
            /\ IF p.m.type = "Q"
               THEN Ready(p.m.n, IF ok THEN txStatus' ELSE IF inTx' THEN "E" ELSE "I")
               ELSE UNCHANGED ready
       /\ UNCHANGED <<conf, buf, partial, pumping, needPump, unnamed, values, client,
                      executed>>

Pump ==
    \/ PumpEmpty \/ SSLRequest \/ Startup \/ Password \/ Drop \/ Terminate
    \/ Parse \/ Bind \/ Skip \/ Sync \/ Unsupported \/ Run
    \/ \E i \in 1..Len(pending) : Resume(i)

Next == Chunk \/ Pump

Spec == Init /\ [][Next]_vars

\* The event loop goes on, and a statement is answered.
Fairness == WF_vars(Pump)

FairSpec == Spec /\ Fairness
---------------------------------------------------------------------------
\* However its bytes are cut and however much is pipelined, what the client sends
\* from its right password on gets one ReadyForQuery for each Query, Sync and
\* unsupported message, in the order they were sent, and one statement of the
\* session runs at a time.
ReadyInOrder ==
    /\ Len(pending) <= 1
    /\ Len(ready) <= Len(owed)
    /\ \A i \in 1..Len(ready) : ready[i].n = owed[i]

\* The status of ReadyForQuery says whether the session is in a transaction,
\* unless a BEGIN has failed: it leaves inTx set and the stored status alone.
StatusHonest ==
    \A i \in 1..Len(ready) :
        ready[i].excused \/ (ready[i].status = "I" <=> ~ready[i].tx)

\* An Execute runs what Postgres would run, the text and the values of the client's
\* last Bind, whatever has been pipelined and is being awaited.  (Only the values when
\* the client sent another Parse after that Bind: session.ts:204 keeps one text, and
\* the later one is run.)
ExecutesBound ==
    \A i \in 1..Len(executed) : LET e == executed[i] IN
        /\ e.ran.with = e.meant.with
        /\ e.last = e.meant.of => e.ran.of = e.meant.of

\* Message n was sent after the right password, where one is required.
Proven(n) == secret => password # Null /\ password.right /\ password.n < n

\* Whatever a client pipelines before and after its password, only what it sent
\* after the right one is ever run or answered.
Authenticated ==
    /\ \A i \in 1..Len(pending) : Proven(pending[i].m.n)
    /\ \A i \in 1..Len(ready) : Proven(ready[i].n)

\* Every Query and Sync sent from the right password on, and every message of an
\* unsupported type, is answered once all of its bytes have come.
Answered ==
    \A n \in 1..MaxSent :
        (\E i \in 1..Len(owed) : owed[i] = n) /\ (partial = Null \/ partial.n # n)
          ~> \E i \in 1..Len(ready) : ready[i].n = n
============================================================================
