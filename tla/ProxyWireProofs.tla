-------------------------- MODULE ProxyWireProofs --------------------------
(***************************************************************************)
(* Proofs about ProxyWire, for any number of messages: the answers come in *)
(* order, their status is honest, an Execute runs what its client bound,   *)
(* and nothing is run that was not sent after the right password.          *)
(***************************************************************************)
EXTENDS ProxyWire, SequenceTheorems, TLAPS

\* The messages that have come or begun to come and are not taken, in their order.
Queue == IF partial = Null THEN buf ELSE Append(buf, partial)

\* The messages that a ReadyForQuery answers, and the Parse and Bind messages that are
\* heeded: those that follow the right password.
Owing == {m \in Message : m.type \in {"Q", "S", "F", "p"} /\ Proven(m.n)}
Texts == {m \in Message : m.type = "P" /\ Proven(m.n)}
Binds == {m \in Message : m.type = "B" /\ Proven(m.n)}

\* One pump at most is at the head of its loop or awaits a statement.
PumpInv ==
    /\ Len(pending) <= 1
    /\ pending # << >> => pumping /\ ~looping
    /\ looping => pumping

\* A client sends one password at most, which "password" remembers.
PasswordInv ==
    /\ password # Null => password.type = "p" /\ password.n <= sent
    /\ \A i \in 1..Len(Queue) : Queue[i].type = "p" => Queue[i] = password

\* What a client's phase says of it: what a session is ready for follows the right
\* password, which is not yet taken while the session is not ready.
PhaseInv ==
    /\ phase = "auth" => secret
    /\ phase = "ready" /\ secret =>
         /\ password # Null /\ password.right
         /\ \A i \in 1..Len(Queue) : password.n < Queue[i].n
    /\ phase # "ready" /\ secret /\ password # Null /\ password.right =>
         \E i \in 1..Len(Queue) : Queue[i] = password
    /\ phase # "ready" => pending = << >> /\ ready = << >> /\ ~inTx /\ txStatus = "I"
    /\ Authenticated

\* The stored status is right unless a BEGIN has failed, or runs.
StatusInv ==
    /\ beginFailed => inTx
    /\ \A i \in 1..Len(pending) : pending[i].run.stmt = "begin" => inTx
    /\ (\A i \in 1..Len(pending) : pending[i].run.stmt # "begin")
         => beginFailed \/ (txStatus = "I" <=> ~inTx)
    /\ StatusHonest

\* Message n will have a ReadyForQuery: it is not taken, or its statement runs.
Queued(n) == \E i \in 1..Len(Queue) : Queue[i] \in Owing /\ Queue[i].n = n
AtWork(n) == \E i \in 1..Len(pending) : pending[i].m.type = "Q" /\ pending[i].m.n = n
Outstanding(n) == AtWork(n) \/ Queued(n)

\* Messages are numbered in the order in which they are sent and taken.
NumberInv ==
    /\ \A i \in 1..Len(Queue) : Queue[i].n <= sent
    /\ \A i, j \in 1..Len(Queue) : i < j => Queue[i].n < Queue[j].n
    /\ \A i \in 1..Len(pending), j \in 1..Len(Queue) : pending[i].m.n < Queue[j].n
    /\ \A i \in 1..Len(pending) : pending[i].m.n <= sent
    /\ \A i \in 1..Len(owed) : owed[i] <= sent
    /\ \A i, j \in 1..Len(owed) : i < j => owed[i] < owed[j]

\* What is owed and not answered is what is outstanding.
OwedInv ==
    /\ Len(ready) <= Len(owed)
    /\ \A i \in 1..Len(ready) : ready[i].n = owed[i]
    /\ \A i \in 1..Len(owed) : Len(ready) < i => Outstanding(owed[i])
    /\ \A n \in 1..MaxSent :
         Outstanding(n) => \E i \in 1..Len(owed) : Len(ready) < i /\ owed[i] = n

\* n is the number of the last of the messages S among the first k of q, or first if
\* there is none.
LastOf(S, q, k, first, n) ==
    \/ n = first /\ \A i \in 1..k : q[i] \notin S
    \/ \E i \in 1..k : /\ q[i] \in S /\ q[i].n = n
                       /\ \A j \in 1..k : i < j => q[j] \notin S

\* What was run is the last text and the last values that came before it.
RanLast ==
    \A i \in 1..Len(executed) : /\ executed[i].ran.of = executed[i].last
                                 /\ executed[i].ran.with = executed[i].meant.with

\* An Execute not yet taken names the Parse and the Bind that will be the last when it
\* is taken.
TextInv ==
    /\ LastOf(Texts, Queue, Len(Queue), unnamed.n, group.n)
    /\ LastOf(Binds, Queue, Len(Queue), values, portal.with)
    /\ \A k \in 1..Len(Queue) :
         Queue[k].type = "E" /\ Proven(Queue[k].n) =>
           /\ LastOf(Texts, Queue, k - 1, unnamed.n, Queue[k].last)
           /\ LastOf(Binds, Queue, k - 1, values, Queue[k].with)
    /\ RanLast
---------------------------------------------------------------------------
(***************************************************************************)
(* Types.                                                                  *)
(***************************************************************************)
LEMMA MaxSentNat == MaxSent \in Nat
BY ConstantsAssumption

\* What the kinds of messages carry.
LEMMA MessageFields ==
    ASSUME NEW m \in Message
    PROVE  /\ m.n \in 1..MaxSent
           /\ m.type \in {"ssl", "startup", "p", "Q", "P", "E"} \cup Simple
           /\ m.type = "p" => m.right \in BOOLEAN
           /\ m.type \in {"Q", "P"} => m.stmt \in Stmt
           /\ m.type = "E" => /\ m.of \in 0..MaxSent /\ m.with \in 0..MaxSent
                               /\ m.last \in 0..MaxSent
BY DEF Message, Simple

\* A client sends messages of the protocol, with the number it says, and one password.
LEMMA SendableFields ==
    ASSUME TypeOK, sent < MaxSent, NEW m \in Sendable(sent + 1)
    PROVE  /\ m \in Message
           /\ m.n = sent + 1
           /\ m.type = "E" => m.with = portal.with /\ m.last = group.n
           /\ m.type = "p" => password = Null
<1>1. sent + 1 \in 1..MaxSent
  BY MaxSentNat DEF TypeOK
<1>2. group.n \in 0..MaxSent /\ portal.of \in 0..MaxSent /\ portal.with \in 0..MaxSent
  BY DEF TypeOK, Statement, Execution
<1>3. CASE m \in [type : {"ssl", "startup"}, n : {sent + 1}]
  BY <1>1, <1>3 DEF Message
<1>4. CASE m \in [type : Simple, n : {sent + 1}]
  BY <1>1, <1>4 DEF Message, Simple
<1>5. CASE m \in [type : {"p"}, n : {sent + 1},
                  right : IF password = Null THEN BOOLEAN ELSE {}]
  BY <1>1, <1>5 DEF Message
<1>6. CASE m \in [type : {"Q", "P"}, n : {sent + 1}, stmt : Stmt]
  BY <1>1, <1>6 DEF Message
<1>7. CASE m \in [type : {"E"}, n : {sent + 1}, of : {portal.of}, with : {portal.with},
                  last : {group.n}]
  BY <1>1, <1>2, <1>7 DEF Message
<1> QED
  BY <1>3, <1>4, <1>5, <1>6, <1>7 DEF Sendable

\* A message taken is the first of the buffer, which is a message of the types given.
LEMMA TakeType ==
    ASSUME TypeOK, NEW types, Take(types)
    PROVE  /\ Head(buf) \in Message /\ Head(buf).type \in types
           /\ Head(buf) = buf[1] /\ Len(buf) > 0
           /\ buf' \in Seq(Message) /\ partial' = partial
BY DEF TypeOK, Take

\* One message is pending at most, so that taking it out leaves none.
LEMMA ResumeEmpties ==
    ASSUME TypeOK, Len(pending) <= 1, NEW i \in 1..Len(pending)
    PROVE  i = 1 /\ Len(pending) = 1 /\ RemoveAt(pending, i) = << >>
<1>1. pending \in Seq(Awaited)
  BY DEF TypeOK
<1>2. Len(pending) \in Nat
  BY <1>1
<1>3. i = 1 /\ Len(pending) = 1
  <2>1. \A l \in Nat : \A k \in 1..l : l <= 1 => k = 1 /\ l = 1
    OBVIOUS
  <2> QED
    BY <1>2, <2>1
<1>4. SubSeq(pending, 1, 0) = << >> /\ SubSeq(pending, 2, 1) = << >>
  BY SubSeqEmpty
<1>5. << >> \o << >> = << >>
  BY ConcatEmptySeq, EmptySeq
<1> QED
  BY <1>3, <1>4, <1>5 DEF RemoveAt

\* Every action leaves the variables in their types.
LEMMA TypeStep ==
    ASSUME TypeOK, [Next]_vars, PumpInv
    PROVE  TypeOK'
<1> USE MaxSentNat
<1>1. CASE UNCHANGED vars
  BY <1>1 DEF TypeOK, vars, conf, flow, state, client, seen
<1>2. CASE Chunk
  <2>1. UNCHANGED <<conf, pending, state, seen>>
    BY <1>2 DEF Chunk
  <2>2. pumping' \in BOOLEAN /\ needPump' \in BOOLEAN /\ looping' \in BOOLEAN
    BY <1>2 DEF TypeOK, Chunk, EnqueuePump
  <2>3. CASE partial # Null /\ buf' = Append(buf, partial) /\ partial' = Null /\ UNCHANGED client
    BY <2>1, <2>2, <2>3 DEF TypeOK, conf, state, seen, client
  <2>4. ASSUME NEW m \in Sendable(sent + 1), sent < MaxSent, partial = Null,
               \/ buf' = Append(buf, m) /\ UNCHANGED partial
               \/ partial' = m /\ UNCHANGED buf,
               Sent(m)
        PROVE  TypeOK'
    <3>1. m \in Message /\ m.n = sent + 1
      BY <2>4, SendableFields
    <3>2. /\ m.n \in 1..MaxSent
          /\ m.type = "P" => m.stmt \in Stmt
      BY <3>1, MessageFields
    <3>3. buf' \in Seq(Message) /\ partial' \in Message \cup {Null}
      <4>1. buf \in Seq(Message)
        BY DEF TypeOK
      <4>2. Append(buf, m) \in Seq(Message)
        BY <3>1, <4>1, AppendProperties
      <4> QED
        BY <2>4, <3>1, <4>1, <4>2
    <3>4. group' \in Statement /\ portal' \in Execution
      <4>1. group \in Statement /\ portal \in Execution
        BY DEF TypeOK
      <4>2. m.n \in 0..MaxSent /\ group.n \in 0..MaxSent
        BY <3>2, <4>1, MaxSentNat DEF Statement
      <4>3. m.type = "P" => [n |-> m.n, stmt |-> m.stmt] \in Statement
        BY <3>2, <4>2 DEF Statement
      <4>4. [of |-> group.n, with |-> m.n] \in Execution
        BY <4>2 DEF Execution
      <4> QED
        BY <2>4, <4>1, <4>3, <4>4 DEF Sent
    <3>5. password' \in Message \cup {Null} /\ quit' \in BOOLEAN
      BY <2>4, <3>1 DEF Sent, TypeOK
    <3>6. owed' \in Seq(1..MaxSent)
      BY <2>4, <3>2, AppendProperties DEF TypeOK, Sent
    <3>7. sent' \in 0..MaxSent
      BY <2>4, <3>2 DEF Sent
    <3> QED
      BY <2>1, <2>2, <3>3, <3>4, <3>5, <3>6, <3>7 DEF TypeOK, conf, state, seen
  <2> QED
    BY <1>2, <2>3, <2>4 DEF Chunk
<1>3. CASE PumpEmpty
  BY <1>3 DEF PumpEmpty, PumpEnds, TypeOK, conf, state, client, seen
<1>4. CASE SSLRequest
  <2>1. buf' \in Seq(Message) /\ partial' = partial
    BY <1>4, TakeType DEF SSLRequest
  <2> QED
    BY <1>4, <2>1 DEF SSLRequest, Take, Continue, TypeOK, state, client, seen
<1>5. CASE Startup
  <2>1. buf' \in Seq(Message) /\ partial' = partial
    BY <1>5, TakeType DEF Startup
  <2> QED
    BY <1>5, <2>1 DEF Startup, Take, Continue, TypeOK, client, seen
<1>6. CASE Password
  <2>1. /\ buf' \in Seq(Message) /\ partial' = partial
        /\ Head(buf).right \in BOOLEAN
    BY <1>6, TakeType, MessageFields DEF Password
  <2>2. /\ phase' \in {"first", "auth", "ready"}
        /\ txStatus' \in {"I", "T"} /\ ended' \in BOOLEAN
    BY <1>6, <2>1 DEF Password, TypeOK
  <2>3. pumping' \in BOOLEAN /\ needPump' \in BOOLEAN /\ looping' \in BOOLEAN
        /\ pending' = pending
    BY <1>6 DEF Password, PumpEnds, Continue, TypeOK
  <2> QED
    BY <1>6, <2>1, <2>2, <2>3 DEF Password, Take, TypeOK, client, seen
<1>7. CASE Terminate
  <2>1. buf' \in Seq(Message) /\ partial' = partial
    BY <1>7, TakeType DEF Terminate
  <2> QED
    BY <1>7, <2>1 DEF Terminate, PumpEnds, Take, TypeOK, state, client, seen
<1>8. CASE Parse
  <2>1. buf' \in Seq(Message) /\ partial' = partial
    BY <1>8, TakeType DEF Parse
  <2>2. unnamed' \in Statement
    BY <1>8, TakeType, MessageFields DEF Parse, Prepared, Statement
  <2> QED
    BY <1>8, <2>1, <2>2 DEF Parse, Take, Continue, TypeOK, client, seen
<1>9. CASE Bind
  <2>1. buf' \in Seq(Message) /\ partial' = partial
    BY <1>9, TakeType DEF Bind
  <2>2. values' \in 0..MaxSent
    BY <1>9, TakeType, MessageFields DEF Bind
  <2> QED
    BY <1>9, <2>1, <2>2 DEF Bind, Take, Continue, TypeOK, client, seen
<1>10. CASE Skip \/ Drop
  <2>1. buf' \in Seq(Message) /\ partial' = partial
    BY <1>10, TakeType DEF Skip, Drop
  <2> QED
    BY <1>10, <2>1 DEF Skip, Drop, Take, Continue, TypeOK, state, client, seen
<1>11. CASE Sync \/ Unsupported
  <2>1. /\ buf' \in Seq(Message) /\ partial' = partial
        /\ Head(buf).n \in 1..MaxSent
    BY <1>11, TakeType, MessageFields DEF Sync, Unsupported
  <2>2. inTx' \in BOOLEAN /\ beginFailed' \in BOOLEAN
    BY <1>11 DEF Sync, Unsupported, TypeOK, state
  <2> DEFINE a == [n |-> Head(buf).n, status |-> txStatus, tx |-> inTx',
                   excused |-> beginFailed']
  <2>3. a \in Answer
    BY <2>1, <2>2 DEF TypeOK, Answer
  <2>4. ready' = Append(ready, a)
    BY <1>11 DEF Sync, Unsupported, Ready
  <2> HIDE DEF a
  <2>5. ready' \in Seq(Answer)
    BY <2>3, <2>4, AppendProperties DEF TypeOK
  <2> QED
    BY <1>11, <2>1, <2>5
       DEF Sync, Unsupported, Take, Continue, TypeOK, state, client
<1>12. CASE Run
  <2> DEFINE m == Head(buf)
             run == IF m.type = "Q" THEN [n |-> m.n, stmt |-> m.stmt] ELSE unnamed
  <2>1. /\ buf' \in Seq(Message) /\ partial' = partial
        /\ m \in Message /\ m.type \in {"Q", "E"} /\ m.n \in 1..MaxSent
        /\ m.type = "Q" => m.stmt \in Stmt
        /\ m.type = "E" => /\ m.of \in 0..MaxSent /\ m.with \in 0..MaxSent
                            /\ m.last \in 0..MaxSent
    BY <1>12, TakeType, MessageFields DEF Run
  <2>2. /\ pending' = Append(pending, [m |-> m, run |-> run])
        /\ inTx' = (inTx \/ run.stmt = "begin")
        /\ executed' = IF m.type = "Q" THEN executed
                       ELSE Append(executed, [ran |-> [of |-> unnamed.n, with |-> values],
                                              meant |-> [of |-> m.of, with |-> m.with],
                                              last |-> m.last])
    BY <1>12 DEF Run
  <2> HIDE DEF m
  <2>3. run \in Statement
    BY <2>1 DEF Statement, TypeOK
  <2> HIDE DEF run
  <2>4. pending' \in Seq(Awaited)
    <3>1. [m |-> m, run |-> run] \in Awaited
      BY <2>1, <2>3 DEF Awaited
    <3> QED
      BY <2>2, <3>1 DEF TypeOK, Awaited
  <2>5. executed' \in Seq(Executed)
    <3>1. CASE m.type = "Q"
      BY <2>2, <3>1 DEF TypeOK
    <3>2. CASE m.type = "E"
      <4>1. [ran |-> [of |-> unnamed.n, with |-> values],
             meant |-> [of |-> m.of, with |-> m.with], last |-> m.last] \in Executed
        BY <2>1, <3>2 DEF Executed, Execution, TypeOK, Statement
      <4> QED
        BY <2>2, <3>2, <4>1 DEF TypeOK
    <3> QED
      BY <2>1, <3>1, <3>2
  <2>6. inTx' \in BOOLEAN
    BY <2>2 DEF TypeOK
  <2> QED
    BY <1>12, <2>1, <2>4, <2>5, <2>6
       DEF Run, Take, TypeOK, client
<1>13. ASSUME NEW i \in 1..Len(pending), Resume(i) PROVE TypeOK'
  <2> DEFINE p == pending[i]
  <2>1. i = 1 /\ pending' = << >>
    BY <1>13, ResumeEmpties DEF Resume, PumpInv
  <2>2. p \in Awaited
    BY DEF TypeOK
  <2>3. p.m \in Message /\ p.m.n \in 1..MaxSent
    BY <2>2, MessageFields DEF Awaited
  <2>4. PICK ok \in BOOLEAN :
            /\ inTx' = (inTx /\ ~(ok /\ p.run.stmt = "commit"))
            /\ beginFailed' = IF p.run.stmt = "begin" /\ ~ok THEN TRUE
                              ELSE beginFailed /\ inTx'
            /\ txStatus' = StatusAfter(p.run.stmt, ok)
            /\ IF p.m.type = "Q"
               THEN Ready(p.m.n, IF ok THEN txStatus' ELSE IF inTx' THEN "E" ELSE "I")
               ELSE UNCHANGED ready
    BY <1>13 DEF Resume
  <2> HIDE DEF p
  <2>5. inTx' \in BOOLEAN /\ beginFailed' \in BOOLEAN
    BY <2>4 DEF TypeOK
  <2>6. txStatus' \in {"I", "T"}
    BY <2>4 DEF TypeOK, StatusAfter
  <2>7. ready' \in Seq(Answer)
    <3> DEFINE status == IF ok THEN txStatus' ELSE IF inTx' THEN "E" ELSE "I"
               a == [n |-> p.m.n, status |-> status, tx |-> inTx', excused |-> beginFailed']
    <3>1. status \in {"I", "T", "E"}
      BY <2>6
    <3> HIDE DEF status
    <3>2. a \in Answer
      BY <2>3, <2>5, <3>1 DEF Answer
    <3>3. ready' = ready \/ ready' = Append(ready, a)
      BY <2>4 DEF Ready, status
    <3> HIDE DEF a
    <3>4. ready \in Seq(Answer)
      BY DEF TypeOK
    <3> QED
      BY <3>2, <3>3, <3>4, AppendProperties
  <2>8. pending' \in Seq(Awaited)
    BY <2>1, EmptySeq
  <2>9. /\ UNCHANGED <<conf, buf, partial, pumping, needPump, unnamed, values, client,
                       executed>>
        /\ looping' = TRUE
    BY <1>13 DEF Resume
  <2> QED
    BY <2>5, <2>6, <2>7, <2>8, <2>9 DEF TypeOK, conf, client
<1> QED
  BY <1>1, <1>2, <1>3, <1>4, <1>5, <1>6, <1>7, <1>8, <1>9, <1>10, <1>11, <1>12, <1>13
     DEF Next, Pump
---------------------------------------------------------------------------
(***************************************************************************)
(* The pump, the phases and the status.                                    *)
(***************************************************************************)
\* A chunk starts a pump only when none runs; the pump ends its loop with nothing
\* awaited, or awaits one statement.
LEMMA PumpStep ==
    ASSUME TypeOK, PumpInv, [Next]_vars
    PROVE  PumpInv'
<1> USE DEF PumpInv
<1>1. CASE UNCHANGED vars
  BY <1>1 DEF vars, flow
<1>2. CASE Chunk
  BY <1>2 DEF Chunk, EnqueuePump, TypeOK
<1>3. CASE PumpEmpty
  BY <1>3 DEF PumpEmpty, PumpEnds, TypeOK
<1>4. CASE SSLRequest \/ Startup \/ Drop \/ Parse \/ Bind \/ Skip \/ Sync \/ Unsupported
  BY <1>4 DEF SSLRequest, Startup, Drop, Parse, Bind, Skip, Sync, Unsupported, Continue
<1>5. CASE Password \/ Terminate
  BY <1>5 DEF Password, Terminate, Take, Continue, PumpEnds, TypeOK
<1>6. CASE Run
  <2>1. PICK a : pending' = Append(pending, a)
    BY <1>6 DEF Run
  <2>2. looping /\ looping' = FALSE /\ pumping' = pumping
    BY <1>6 DEF Run, Take
  <2>3. pending = << >>
    BY <2>2
  <2>4. Len(pending') = 1
    BY <2>1, <2>3
  <2> QED
    BY <2>2, <2>4
<1>7. ASSUME NEW i \in 1..Len(pending), Resume(i) PROVE PumpInv'
  <2>1. pending' = << >>
    BY <1>7, ResumeEmpties DEF Resume
  <2>2. pending # << >>
    BY ResumeEmpties
  <2> QED
    BY <1>7, <2>1, <2>2 DEF Resume
<1> QED
  BY <1>1, <1>2, <1>3, <1>4, <1>5, <1>6, <1>7 DEF Next, Pump

\* An answer is honest when its status says what inTx is.
LEMMA HonestReady ==
    ASSUME TypeOK, StatusHonest, NEW n, NEW status,
           Ready(n, status), beginFailed' \/ (status = "I" <=> ~inTx')
    PROVE  StatusHonest'
<1> DEFINE a == [n |-> n, status |-> status, tx |-> inTx', excused |-> beginFailed']
<1>1. ready' = Append(ready, a)
  BY DEF Ready
<1>2. a.excused \/ (a.status = "I" <=> ~a.tx)
  OBVIOUS
<1> HIDE DEF a
<1>3. ready \in Seq(Answer)
  BY DEF TypeOK
<1>4. /\ Len(ready') = Len(ready) + 1
      /\ \A i \in 1..Len(ready) : ready'[i] = ready[i]
      /\ ready'[Len(ready) + 1] = a
  BY <1>1, <1>3
<1> SUFFICES ASSUME NEW i \in 1..Len(ready')
             PROVE  ready'[i].excused \/ (ready'[i].status = "I" <=> ~ready'[i].tx)
  BY DEF StatusHonest
<1>5. CASE i \in 1..Len(ready)
  BY <1>4, <1>5 DEF StatusHonest
<1>6. CASE i = Len(ready) + 1
  BY <1>2, <1>4, <1>6
<1> QED
  BY <1>3, <1>4, <1>5, <1>6

\* While a BEGIN runs inTx is already set; afterwards the status agrees with it,
\* unless the BEGIN failed.
LEMMA StatusStep ==
    ASSUME TypeOK, PumpInv, PhaseInv, StatusInv, [Next]_vars
    PROVE  StatusInv'
<1>1. ASSUME UNCHANGED <<pending, inTx, txStatus, beginFailed, ready>> PROVE StatusInv'
  BY <1>1 DEF StatusInv, StatusHonest
<1>2. CASE UNCHANGED vars
  BY <1>1, <1>2 DEF vars, flow, state, seen
<1>3. CASE Chunk \/ PumpEmpty \/ SSLRequest \/ Drop \/ Terminate \/ Parse \/ Bind \/ Skip
  BY <1>1, <1>3 DEF Chunk, PumpEmpty, SSLRequest, Drop, Terminate, Parse, Bind, Skip,
                    Continue, state, seen
<1>4. CASE Startup \/ Password
  <2>1. phase # "ready" /\ UNCHANGED <<pending, inTx, beginFailed, ready>>
        /\ (txStatus' = txStatus \/ txStatus' = "I")
    BY <1>4 DEF Startup, Password, Continue, seen
  <2>2. txStatus' = txStatus
    BY <2>1 DEF PhaseInv
  <2> QED
    BY <1>1, <2>1, <2>2
<1>5. CASE Sync \/ Unsupported
  <2>1. /\ looping
        /\ UNCHANGED <<inTx, txStatus, beginFailed, pending>>
        /\ Ready(Head(buf).n, txStatus)
    BY <1>5 DEF Sync, Unsupported, Take, Continue, state
  <2>2. pending = << >>
    BY <2>1 DEF PumpInv
  <2>3. beginFailed' \/ (txStatus = "I" <=> ~inTx')
    BY <2>1, <2>2 DEF StatusInv
  <2>4. StatusHonest'
    BY <2>1, <2>3, HonestReady DEF StatusInv
  <2> QED
    BY <2>1, <2>4 DEF StatusInv
<1>6. CASE Run
  <2>1. PICK a : /\ pending' = Append(pending, a)
                 /\ inTx' = (inTx \/ a.run.stmt = "begin")
    <3> DEFINE m == Head(buf)
               run == IF m.type = "Q" THEN [n |-> m.n, stmt |-> m.stmt] ELSE unnamed
               a == [m |-> m, run |-> run]
    <3>1. /\ pending' = Append(pending, a)
          /\ inTx' = (inTx \/ run.stmt = "begin")
      BY <1>6 DEF Run
    <3>2. a.run = run
      OBVIOUS
    <3> QED
      BY <3>1, <3>2
  <2>2. looping /\ UNCHANGED <<txStatus, ready, beginFailed>>
    BY <1>6 DEF Run, Take
  <2>3. pending = << >>
    BY <2>2 DEF PumpInv
  <2>4. Len(pending') = 1 /\ pending'[1] = a
    BY <2>1, <2>3
  <2>5. beginFailed \/ (txStatus = "I" <=> ~inTx)
    BY <2>3 DEF StatusInv
  <2>6. StatusHonest'
    BY <2>2 DEF StatusInv, StatusHonest
  <2>7. inTx \in BOOLEAN /\ (beginFailed => inTx)
    BY DEF StatusInv, TypeOK
  <2>8. beginFailed' => inTx'
    BY <2>1, <2>2, <2>7
  <2>9. \A i \in 1..Len(pending') : pending'[i].run.stmt = "begin" => inTx'
    <3>1. a.run.stmt = "begin" => inTx'
      BY <2>1
    <3> QED
      BY <2>4, <3>1
  <2>10. (\A i \in 1..Len(pending') : pending'[i].run.stmt # "begin")
           => beginFailed' \/ (txStatus' = "I" <=> ~inTx')
    <3> SUFFICES ASSUME \A i \in 1..Len(pending') : pending'[i].run.stmt # "begin"
                 PROVE  beginFailed' \/ (txStatus' = "I" <=> ~inTx')
      OBVIOUS
    <3>1. a.run.stmt # "begin"
      BY <2>4
    <3>2. inTx' = inTx
      BY <2>1, <2>7, <3>1
    <3> QED
      BY <2>2, <2>5, <3>2
  <2> QED
    BY <2>6, <2>8, <2>9, <2>10 DEF StatusInv
<1>7. ASSUME NEW i \in 1..Len(pending), Resume(i) PROVE StatusInv'
  <2> DEFINE p == pending[i]
             stmt == p.run.stmt
  <2>1. i = 1 /\ Len(pending) = 1 /\ pending' = << >>
    BY <1>7, ResumeEmpties DEF Resume, PumpInv
  <2>2. PICK ok \in BOOLEAN :
            /\ inTx' = (inTx /\ ~(ok /\ stmt = "commit"))
            /\ beginFailed' = IF stmt = "begin" /\ ~ok THEN TRUE
                              ELSE beginFailed /\ inTx'
            /\ txStatus' = IF ~ok \/ stmt = "none" THEN txStatus
                           ELSE IF inTx' THEN "T" ELSE "I"
            /\ IF p.m.type = "Q"
               THEN Ready(p.m.n, IF ok THEN txStatus' ELSE IF inTx' THEN "E" ELSE "I")
               ELSE UNCHANGED ready
    BY <1>7 DEF Resume, StatusAfter
  <2>3. /\ stmt = "begin" => inTx
        /\ stmt # "begin" => beginFailed \/ (txStatus = "I" <=> ~inTx)
        /\ beginFailed => inTx
        /\ inTx \in BOOLEAN /\ txStatus \in {"I", "T"} /\ beginFailed \in BOOLEAN
    BY <2>1 DEF StatusInv, TypeOK
  <2> HIDE DEF p, stmt
  <2>4. beginFailed' => inTx'
    BY <2>2, <2>3
  <2>5. beginFailed' \/ (txStatus' = "I" <=> ~inTx')
    <3>1. CASE ok /\ stmt # "none"
      BY <2>2, <3>1
    <3>2. CASE ~ok /\ stmt = "begin"
      BY <2>2, <3>2
    <3>3. CASE (~ok \/ stmt = "none") /\ stmt # "begin"
      <4>1. txStatus' = txStatus /\ inTx' = inTx
        BY <2>2, <2>3, <3>3
      <4>2. beginFailed' = beginFailed
        BY <2>2, <2>3, <3>3, <4>1
      <4> QED
        BY <2>3, <3>3, <4>1, <4>2
    <3> QED
      BY <3>1, <3>2, <3>3
  <2>6. StatusHonest'
    <3> DEFINE status == IF ok THEN txStatus' ELSE IF inTx' THEN "E" ELSE "I"
    <3>1. CASE UNCHANGED ready
      BY <3>1 DEF StatusInv, StatusHonest
    <3>2. CASE Ready(p.m.n, status)
      <4>1. beginFailed' \/ (status = "I" <=> ~inTx')
        BY <2>5
      <4> HIDE DEF status
      <4> QED
        BY <3>2, <4>1, HonestReady DEF StatusInv
    <3> QED
      BY <2>2, <3>1, <3>2
  <2>7. \A k \in 1..Len(pending') : FALSE
    BY <2>1
  <2> QED
    BY <2>4, <2>5, <2>6, <2>7 DEF StatusInv
<1> QED
  BY <1>2, <1>3, <1>4, <1>5, <1>6, <1>7 DEF Next, Pump
---------------------------------------------------------------------------
(***************************************************************************)
(* The messages that are not taken yet.                                    *)
(***************************************************************************)
LEMMA QueueType ==
    ASSUME TypeOK
    PROVE  Queue \in Seq(Message)
<1>1. buf \in Seq(Message) /\ (partial # Null => partial \in Message)
  BY DEF TypeOK
<1> QED
  BY <1>1, AppendProperties DEF Queue

\* A chunk appends one message, which the client chose, or completes the last one.
LEMMA ChunkQueue ==
    ASSUME TypeOK, Chunk
    PROVE  \/ Queue' = Queue /\ UNCHANGED client
           \/ \E m \in Sendable(sent + 1) :
                sent < MaxSent /\ Queue' = Append(Queue, m) /\ Sent(m)
<1>1. CASE partial # Null /\ buf' = Append(buf, partial) /\ partial' = Null /\ UNCHANGED client
  BY <1>1 DEF Queue
<1>2. ASSUME NEW m \in Sendable(sent + 1), sent < MaxSent, partial = Null,
             \/ buf' = Append(buf, m) /\ UNCHANGED partial
             \/ partial' = m /\ UNCHANGED buf
      PROVE  Queue' = Append(Queue, m)
  <2>1. m # Null
    BY <1>2, SendableFields, NullAssumption
  <2> QED
    BY <1>2, <2>1 DEF Queue
<1> QED
  BY <1>1, <1>2 DEF Chunk

\* A message taken is the first of all that have come.
LEMMA TakeQueue ==
    ASSUME TypeOK, NEW types, Take(types)
    PROVE  /\ Queue # << >> /\ Head(buf) = Queue[1] /\ Queue' = Tail(Queue)
           /\ Len(Queue) \in Nat \ {0}
           /\ Len(Queue') = Len(Queue) - 1
           /\ \A i \in 1..Len(Queue') : Queue'[i] = Queue[i + 1]
<1>1. /\ buf \in Seq(Message) /\ buf # << >> /\ buf' = Tail(buf) /\ partial' = partial
      /\ Head(buf) = buf[1] /\ Len(buf) > 0
  BY TakeType DEF TypeOK, Take
<1>2. Queue \in Seq(Message)
  BY QueueType
<1>3. Queue # << >> /\ Head(buf) = Queue[1] /\ Queue' = Tail(Queue)
  <2>1. CASE partial = Null
    BY <1>1, <2>1 DEF Queue
  <2>2. CASE partial # Null
    <3>1. partial \in Message
      BY <2>2 DEF TypeOK
    <3>2. Queue = Append(buf, partial) /\ Queue' = Append(Tail(buf), partial)
      BY <1>1, <2>2 DEF Queue
    <3>3. Tail(Append(buf, partial)) = Append(Tail(buf), partial)
      BY <1>1, HeadTailAppend
    <3>4. Append(buf, partial)[1] = buf[1] /\ Append(buf, partial) # << >>
      BY <1>1, <3>1, AppendProperties, LenProperties
    <3> QED
      BY <1>1, <3>2, <3>3, <3>4
  <2> QED
    BY <2>1, <2>2
<1> QED
  BY <1>2, <1>3, HeadTailProperties, EmptySeq
---------------------------------------------------------------------------
(***************************************************************************)
(* The order of the messages and of the answers.                           *)
(***************************************************************************)
\* The lengths and the elements that the proofs compare are numbers.
LEMMA Numbers ==
    ASSUME TypeOK
    PROVE  /\ Len(Queue) \in Nat /\ Len(pending) \in Nat
           /\ Len(owed) \in Nat /\ Len(ready) \in Nat
           /\ sent \in Nat
           /\ \A i \in 1..Len(Queue) : Queue[i] \in Message /\ Queue[i].n \in 1..MaxSent
           /\ \A i \in 1..Len(pending) : pending[i].m \in Message
                                         /\ pending[i].m.n \in 1..MaxSent
           /\ \A i \in 1..Len(owed) : owed[i] \in 1..MaxSent
<1>1. /\ Queue \in Seq(Message) /\ pending \in Seq(Awaited)
      /\ owed \in Seq(1..MaxSent) /\ ready \in Seq(Answer)
  BY QueueType DEF TypeOK
<1>2. \A i \in 1..Len(pending) : pending[i] \in Awaited
  BY <1>1
<1>3. sent \in Nat
  BY MaxSentNat DEF TypeOK
<1> QED
  BY <1>1, <1>2, <1>3, MessageFields, LenProperties, ElementOfSeq DEF Awaited

\* The messages left after the first one is taken are numbered in order too.
LEMMA TakeNumbers ==
    ASSUME TypeOK, NumberInv, NEW types, Take(types)
    PROVE  /\ \A i \in 1..Len(Queue') : Queue'[i].n <= sent
           /\ \A i, j \in 1..Len(Queue') : i < j => Queue'[i].n < Queue'[j].n
           /\ \A i \in 1..Len(Queue') : Queue[1].n < Queue'[i].n
<1>1. /\ Len(Queue) \in Nat \ {0}
      /\ Len(Queue') = Len(Queue) - 1
      /\ \A i \in 1..Len(Queue') : Queue'[i] = Queue[i + 1]
  BY TakeQueue
<1>2. \A i \in 1..Len(Queue') : i + 1 \in 1..Len(Queue) /\ 1 < i + 1 /\ 1 \in 1..Len(Queue)
  BY <1>1
<1>3. \A i, j \in 1..Len(Queue') : i < j => i + 1 < j + 1
  BY <1>1
<1> QED
  BY <1>1, <1>2, <1>3 DEF NumberInv

\* A message the client sends has a number above all others; the messages taken are
\* those with the lowest numbers.
LEMMA NumberStep ==
    ASSUME TypeOK, PumpInv, NumberInv, [Next]_vars
    PROVE  NumberInv'
<1> USE Numbers
<1>1. ASSUME Queue' = Queue, UNCHANGED <<pending, owed, sent>> PROVE NumberInv'
  BY <1>1 DEF NumberInv
<1>2. ASSUME NEW types, Take(types), UNCHANGED pending PROVE NumberInv'
  <2>1. UNCHANGED <<owed, sent>>
    BY <1>2 DEF Take, client
  <2>2. \A i \in 1..Len(pending'), j \in 1..Len(Queue') : pending'[i].m.n < Queue'[j].n
    <3>1. \A i \in 1..Len(Queue') : i + 1 \in 1..Len(Queue) /\ Queue'[i] = Queue[i + 1]
      BY <1>2, TakeQueue
    <3> QED
      BY <1>2, <3>1 DEF NumberInv
  <2> QED
    BY <1>2, <2>1, <2>2, TakeNumbers DEF NumberInv
<1>3. CASE UNCHANGED vars \/ PumpEmpty
  <2>1. Queue' = Queue /\ UNCHANGED <<pending, owed, sent>>
    BY <1>3 DEF PumpEmpty, vars, flow, client, Queue
  <2> QED
    BY <1>1, <2>1
<1>4. CASE Chunk
  <2>1. UNCHANGED pending
    BY <1>4 DEF Chunk
  <2>2. CASE Queue' = Queue /\ UNCHANGED client
    BY <1>1, <2>1, <2>2 DEF client
  <2>3. ASSUME NEW m \in Sendable(sent + 1),
               sent < MaxSent, Queue' = Append(Queue, m), Sent(m)
        PROVE  NumberInv'
    <3>1. m \in Message /\ m.n = sent + 1 /\ sent' = sent + 1
      BY <2>3, SendableFields DEF Sent
    <3>2. /\ Len(Queue') = Len(Queue) + 1
          /\ \A i \in 1..Len(Queue) : Queue'[i] = Queue[i]
          /\ Queue'[Len(Queue) + 1] = m
      BY <2>3, <3>1, QueueType, AppendProperties
    <3>3. \/ owed' = owed
          \/ /\ Len(owed') = Len(owed) + 1
             /\ \A i \in 1..Len(owed) : owed'[i] = owed[i]
             /\ owed'[Len(owed) + 1] = sent + 1
      <4>1. m.n \in 1..MaxSent /\ owed \in Seq(1..MaxSent)
        BY <3>1, MessageFields DEF TypeOK
      <4> QED
        BY <2>3, <3>1, <4>1, AppendProperties DEF Sent
    <3>4. \A i \in 1..Len(Queue') : i \in 1..Len(Queue) \/ i = Len(Queue) + 1
      BY <3>2
    <3>5. \A i \in 1..Len(Queue') : Queue'[i].n <= sent'
      BY <2>3, <3>1, <3>2, <3>4 DEF NumberInv
    <3>6. \A i, j \in 1..Len(Queue') : i < j => Queue'[i].n < Queue'[j].n
      <4> SUFFICES ASSUME NEW i \in 1..Len(Queue'), NEW j \in 1..Len(Queue'), i < j
                   PROVE  Queue'[i].n < Queue'[j].n
        OBVIOUS
      <4>1. i \in 1..Len(Queue)
        BY <3>2
      <4>2. CASE j \in 1..Len(Queue)
        BY <3>2, <4>1, <4>2 DEF NumberInv
      <4>3. CASE j = Len(Queue) + 1
        <5>1. Queue[i].n <= sent /\ Queue[i].n \in Nat /\ sent \in Nat
          BY <4>1 DEF NumberInv
        <5> QED
          BY <3>1, <3>2, <4>1, <4>3, <5>1
      <4> QED
        BY <3>4, <4>2, <4>3
    <3>7. \A i \in 1..Len(pending'), j \in 1..Len(Queue') : pending'[i].m.n < Queue'[j].n
      <4> SUFFICES ASSUME NEW i \in 1..Len(pending), NEW j \in 1..Len(Queue')
                   PROVE  pending[i].m.n < Queue'[j].n
        BY <2>1
      <4>1. pending[i].m.n <= sent /\ pending[i].m.n \in Nat /\ sent \in Nat
        BY DEF NumberInv
      <4>2. CASE j \in 1..Len(Queue)
        BY <3>2, <4>2 DEF NumberInv
      <4>3. CASE j = Len(Queue) + 1
        BY <3>1, <3>2, <4>1, <4>3
      <4> QED
        BY <3>4, <4>2, <4>3
    <3>8. \A i \in 1..Len(pending') : pending'[i].m.n <= sent'
      <4> SUFFICES ASSUME NEW i \in 1..Len(pending)
                   PROVE  pending[i].m.n <= sent + 1
        BY <2>1, <3>1
      <4>1. pending[i].m.n <= sent /\ pending[i].m.n \in Nat /\ sent \in Nat
        BY DEF NumberInv
      <4> QED
        BY <4>1
    <3>9. /\ \A i \in 1..Len(owed') : owed'[i] <= sent'
          /\ \A i, j \in 1..Len(owed') : i < j => owed'[i] < owed'[j]
      <4>1. CASE owed' = owed
        BY <3>1, <4>1 DEF NumberInv
      <4>2. CASE owed' # owed
        <5>1. \A i \in 1..Len(owed') : i \in 1..Len(owed) \/ i = Len(owed) + 1
          BY <3>3, <4>2
        <5>2. /\ \A i \in 1..Len(owed) : owed[i] <= sent /\ owed[i] \in Nat
              /\ \A i, j \in 1..Len(owed) : i < j => owed[i] < owed[j]
              /\ sent \in Nat /\ sent' = sent + 1 /\ Len(owed) \in Nat
          <6>1. \A i \in 1..Len(owed) : owed[i] \in Nat
            BY MaxSentNat
          <6>2. /\ \A i \in 1..Len(owed) : owed[i] <= sent
                /\ \A i, j \in 1..Len(owed) : i < j => owed[i] < owed[j]
            BY DEF NumberInv
          <6> QED
            BY <3>1, <6>1, <6>2
        <5>3. /\ \A i \in 1..Len(owed) : owed'[i] = owed[i]
              /\ owed'[Len(owed) + 1] = sent + 1
          BY <3>3, <4>2
        <5>4. ASSUME NEW i \in 1..Len(owed') PROVE owed'[i] <= sent'
          <6>1. CASE i \in 1..Len(owed)
            <7>1. owed'[i] = owed[i] /\ owed[i] <= sent /\ owed[i] \in Nat
              BY <5>2, <5>3, <6>1
            <7> QED
              BY <5>2, <7>1
          <6>2. CASE i = Len(owed) + 1
            BY <5>2, <5>3, <6>2
          <6> QED
            BY <5>1, <6>1, <6>2
        <5>5. ASSUME NEW i \in 1..Len(owed'), NEW j \in 1..Len(owed'), i < j
              PROVE  owed'[i] < owed'[j]
          <6>1. CASE j \in 1..Len(owed)
            <7>1. i \in 1..Len(owed)
              BY <5>1, <5>2, <5>5, <6>1
            <7> QED
              BY <5>2, <5>3, <5>5, <6>1, <7>1
          <6>2. CASE j = Len(owed) + 1
            <7>1. i \in 1..Len(owed)
              BY <5>1, <5>5, <6>2
            <7> QED
              BY <5>2, <5>3, <6>2, <7>1
          <6> QED
            BY <5>1, <6>1, <6>2
        <5> QED
          BY <5>4, <5>5
      <4> QED
        BY <4>1, <4>2
    <3> QED
      BY <3>5, <3>6, <3>7, <3>8, <3>9 DEF NumberInv
  <2> QED
    BY <1>4, <2>2, <2>3, ChunkQueue
<1>5. CASE SSLRequest \/ Startup \/ Drop \/ Parse \/ Bind \/ Skip \/ Sync \/ Unsupported
  BY <1>2, <1>5 DEF SSLRequest, Startup, Drop, Parse, Bind, Skip, Sync, Unsupported, Continue
<1>6. CASE Password \/ Terminate
  BY <1>2, <1>6 DEF Password, Terminate, Continue
<1>7. CASE Run
  <2>1. PICK a : pending' = Append(pending, a) /\ a.m = Head(buf)
    BY <1>7 DEF Run
  <2>2. looping /\ Take({"Q", "E"})
    BY <1>7 DEF Run, Take
  <2>3. pending = << >>
    BY <2>2 DEF PumpInv
  <2>4. Len(pending') = 1 /\ pending'[1].m = Queue[1]
    BY <2>1, <2>2, <2>3, TakeQueue
  <2>5. 1 \in 1..Len(Queue) /\ UNCHANGED <<owed, sent>>
    <3>1. Len(Queue) \in Nat \ {0}
      BY <2>2, TakeQueue
    <3> QED
      BY <2>2, <3>1 DEF Take, client
  <2>6. \A i \in 1..Len(pending') : i = 1
    BY <2>4
  <2>7. /\ \A i \in 1..Len(pending'), j \in 1..Len(Queue') : pending'[i].m.n < Queue'[j].n
        /\ \A i \in 1..Len(pending') : pending'[i].m.n <= sent'
    BY <2>2, <2>4, <2>5, <2>6, TakeNumbers DEF NumberInv
  <2> QED
    BY <2>2, <2>5, <2>7, TakeNumbers DEF NumberInv
<1>8. ASSUME NEW i \in 1..Len(pending), Resume(i) PROVE NumberInv'
  <2>1. /\ Len(pending') = 0
        /\ Queue' = Queue /\ UNCHANGED <<owed, sent>>
    BY <1>8, ResumeEmpties DEF Resume, PumpInv, client, Queue
  <2>2. \A k \in 1..Len(pending') : FALSE
    BY <2>1
  <2>3. /\ \A k \in 1..Len(Queue') : Queue'[k].n <= sent'
        /\ \A k, j \in 1..Len(Queue') : k < j => Queue'[k].n < Queue'[j].n
        /\ \A k \in 1..Len(owed') : owed'[k] <= sent'
        /\ \A k, j \in 1..Len(owed') : k < j => owed'[k] < owed'[j]
    BY <2>1 DEF NumberInv
  <2> QED
    BY <2>2, <2>3 DEF NumberInv
<1> QED
  BY <1>3, <1>4, <1>5, <1>6, <1>7, <1>8 DEF Next, Pump

---------------------------------------------------------------------------
(***************************************************************************)
(* The password.                                                           *)
(***************************************************************************)
\* What follows the right password does so for good, and nothing sent before does: a
\* client sends one password, and what it sends next is served if it was the right one.
LEMMA SentProven ==
    ASSUME TypeOK, PasswordInv, sent < MaxSent, NEW m \in Sendable(sent + 1), Sent(m),
           UNCHANGED secret
    PROVE  /\ Proven(m.n)' <=> Served
           /\ \A n : Proven(n) => Proven(n)'
           /\ \A n \in 1..sent : Proven(n)' => Proven(n)
<1>1. /\ m.n = sent + 1 /\ sent \in Nat
      /\ m.type = "p" => password = Null
      /\ password' = IF m.type = "p" THEN m ELSE password
      /\ password # Null => password.n \in Nat /\ password.n <= sent
  <2>1. password # Null => password.n \in 1..MaxSent
    BY MessageFields DEF TypeOK
  <2> QED
    BY <2>1, SendableFields, Numbers, MaxSentNat DEF Sent, PasswordInv
<1>2. CASE m.type = "p"
  BY <1>1, <1>2 DEF Proven, Served
<1>3. CASE m.type # "p"
  BY <1>1, <1>3 DEF Proven, Served
<1> QED
  BY <1>2, <1>3

\* Only a message sent changes what follows the right password.
LEMMA SameProven ==
    ASSUME UNCHANGED <<secret, password>>
    PROVE  /\ \A n : Proven(n)' <=> Proven(n)
           /\ Owing' = Owing /\ Texts' = Texts /\ Binds' = Binds
<1>1. \A n : Proven(n)' <=> Proven(n)
  BY DEF Proven
<1> QED
  BY <1>1 DEF Owing, Texts, Binds

\* The right password is not taken before the session is ready: what is taken while it
\* is waited for was sent before it.
LEMMA HeadUnproven ==
    ASSUME TypeOK, NumberInv, PhaseInv, NEW types, Take(types), phase = "auth"
    PROVE  ~Proven(Queue[1].n)
<1> SUFFICES ASSUME Proven(Queue[1].n) PROVE FALSE
  OBVIOUS
<1>1. secret /\ password # Null /\ password.right /\ password.n < Queue[1].n
  BY DEF PhaseInv, Proven
<1>2. PICK i \in 1..Len(Queue) : Queue[i] = password
  BY <1>1 DEF PhaseInv
<1>3. 1 \in 1..Len(Queue) /\ Queue[1].n \in Nat /\ Queue[i].n \in Nat
  BY TakeQueue, Numbers, MaxSentNat
<1>4. i = 1 \/ Queue[1].n < Queue[i].n
  BY <1>3 DEF NumberInv
<1> QED
  BY <1>1, <1>2, <1>3, <1>4

\* What a ready session takes follows the right password.
LEMMA HeadProven ==
    ASSUME TypeOK, PhaseInv, NEW types, Take(types), phase = "ready"
    PROVE  Proven(Queue[1].n)
<1>1. 1 \in 1..Len(Queue)
  BY TakeQueue
<1> QED
  BY <1>1 DEF PhaseInv, Proven

\* A second password is never sent.
LEMMA PasswordStep ==
    ASSUME TypeOK, PumpInv, PasswordInv, [Next]_vars
    PROVE  PasswordInv'
<1> USE Numbers
<1>1. ASSUME Queue' = Queue, UNCHANGED <<password, sent>> PROVE PasswordInv'
  BY <1>1 DEF PasswordInv
<1>2. ASSUME NEW types, Take(types) PROVE PasswordInv'
  <2>1. UNCHANGED <<password, sent>>
    BY <1>2 DEF Take, client
  <2>2. \A i \in 1..Len(Queue') : i + 1 \in 1..Len(Queue) /\ Queue'[i] = Queue[i + 1]
    BY <1>2, TakeQueue
  <2> QED
    BY <2>1, <2>2 DEF PasswordInv
<1>3. CASE UNCHANGED vars \/ PumpEmpty
  <2>1. Queue' = Queue /\ UNCHANGED <<password, sent>>
    BY <1>3 DEF PumpEmpty, vars, flow, client, Queue
  <2> QED
    BY <1>1, <2>1
<1>4. CASE Chunk
  <2>1. CASE Queue' = Queue /\ UNCHANGED client
    BY <1>1, <2>1 DEF client
  <2>2. ASSUME NEW m \in Sendable(sent + 1), sent < MaxSent, Queue' = Append(Queue, m),
               Sent(m)
        PROVE  PasswordInv'
    <3>1. /\ m \in Message /\ m.n = sent + 1 /\ sent' = sent + 1
          /\ m.type = "p" => password = Null
          /\ password' = IF m.type = "p" THEN m ELSE password
      BY <2>2, SendableFields DEF Sent
    <3>2. /\ Len(Queue') = Len(Queue) + 1
          /\ \A i \in 1..Len(Queue) : Queue'[i] = Queue[i]
          /\ Queue'[Len(Queue) + 1] = m
      BY <2>2, <3>1, QueueType, AppendProperties
    <3>3. \A i \in 1..Len(Queue') : i \in 1..Len(Queue) \/ i = Len(Queue) + 1
      BY <3>2
    <3>4. password' # Null => password'.type = "p" /\ password'.n <= sent'
      <4>1. password # Null => password.n \in Nat
        BY MessageFields, MaxSentNat DEF TypeOK
      <4> QED
        BY <3>1, <4>1 DEF PasswordInv
    <3>5. CASE m.type = "p"
      <4>1. \A i \in 1..Len(Queue) : Queue[i] \in Message /\ Queue[i].type # "p"
        BY <3>1, <3>5, NullAssumption DEF PasswordInv
      <4> QED
        BY <3>1, <3>2, <3>3, <3>4, <3>5, <4>1 DEF PasswordInv
    <3>6. CASE m.type # "p"
      BY <3>1, <3>2, <3>3, <3>4, <3>6 DEF PasswordInv
    <3> QED
      BY <3>5, <3>6
  <2> QED
    BY <1>4, <2>1, <2>2, ChunkQueue
<1>5. CASE SSLRequest \/ Startup \/ Password \/ Drop \/ Terminate \/ Parse \/ Bind \/ Skip
           \/ Sync \/ Unsupported \/ Run
  BY <1>2, <1>5 DEF SSLRequest, Startup, Password, Drop, Terminate, Parse, Bind, Skip,
                    Sync, Unsupported, Run
<1>6. ASSUME NEW i \in 1..Len(pending), Resume(i) PROVE PasswordInv'
  <2>1. Queue' = Queue /\ UNCHANGED <<password, sent>>
    BY <1>6 DEF Resume, client, Queue
  <2> QED
    BY <1>1, <2>1
<1> QED
  BY <1>3, <1>4, <1>5, <1>6 DEF Next, Pump

\* The answers are for messages that follow the right password, if the new one is.
LEMMA ReadiesProven ==
    ASSUME TypeOK, \A i \in 1..Len(ready) : Proven(ready[i].n),
           UNCHANGED <<secret, password>>,
           NEW n, Proven(n), NEW status, Ready(n, status)
    PROVE  (\A i \in 1..Len(ready) : Proven(ready[i].n))'
<1>1. \A k : Proven(k)' <=> Proven(k)
  BY SameProven
<1>2. ready \in Seq(Answer)
  BY DEF TypeOK
<1>3. /\ Len(ready') = Len(ready) + 1
      /\ \A i \in 1..Len(ready) : ready'[i] = ready[i]
      /\ ready'[Len(ready) + 1].n = n
  <2> DEFINE a == [n |-> n, status |-> status, tx |-> inTx', excused |-> beginFailed']
  <2>1. ready' = Append(ready, a) /\ a.n = n
    BY DEF Ready
  <2> HIDE DEF a
  <2> QED
    BY <1>2, <2>1
<1>4. \A i \in 1..Len(ready') : i \in 1..Len(ready) \/ i = Len(ready) + 1
  BY <1>2, <1>3
<1>5. \A i \in 1..Len(ready') : Proven(ready'[i].n)
  BY <1>3, <1>4
<1> QED
  BY <1>1, <1>5

\* While the session waits for its password the messages taken leave the right one, if
\* it was sent, among those that have come.
LEMMA TakeBefore ==
    ASSUME TypeOK, PhaseInv, NEW types, Take(types), Queue[1].type # "p" \/ Queue[1] # password,
           phase # "ready", PasswordInv, secret, password # Null, password.right
    PROVE  \E i \in 1..Len(Queue') : Queue'[i] = password
<1>1. PICK i \in 1..Len(Queue) : Queue[i] = password
  BY DEF PhaseInv
<1>2. i # 1
  BY <1>1 DEF PasswordInv
<1>3. /\ Len(Queue) \in Nat /\ Len(Queue') = Len(Queue) - 1
      /\ \A k \in 1..Len(Queue') : Queue'[k] = Queue[k + 1]
  BY TakeQueue
<1>4. i - 1 \in 1..Len(Queue') /\ (i - 1) + 1 = i
  BY <1>2, <1>3
<1> QED
  BY <1>1, <1>3, <1>4

\* Only the right password, or a configuration without one, makes a session ready, and
\* what it runs and answers then was sent after it.
LEMMA PhaseStep ==
    ASSUME TypeOK, PumpInv, NumberInv, PasswordInv, PhaseInv, [Next]_vars
    PROVE  PhaseInv'
<1> USE Numbers
<1>1. ASSUME Queue' = Queue, UNCHANGED <<phase, secret, password, pending, ready, inTx, txStatus>>
      PROVE  PhaseInv'
  <2>1. Authenticated'
    BY <1>1, SameProven DEF PhaseInv, Authenticated
  <2> QED
    BY <1>1, <2>1 DEF PhaseInv
<1>2. CASE UNCHANGED vars \/ PumpEmpty
  <2>1. Queue' = Queue /\ UNCHANGED <<phase, secret, password, pending, ready, inTx, txStatus>>
    BY <1>2 DEF PumpEmpty, vars, conf, flow, client, state, seen, Queue
  <2> QED
    BY <1>1, <2>1
<1>3. CASE Chunk
  <2>1. UNCHANGED <<phase, secret, pending, ready, inTx, txStatus>>
    BY <1>3 DEF Chunk, conf, state, seen
  <2>2. CASE Queue' = Queue /\ UNCHANGED client
    BY <1>1, <2>1, <2>2 DEF client
  <2>3. ASSUME NEW m \in Sendable(sent + 1), sent < MaxSent, Queue' = Append(Queue, m),
               Sent(m)
        PROVE  PhaseInv'
    <3>1. /\ m \in Message /\ m.n = sent + 1 /\ sent' = sent + 1 /\ sent \in Nat
          /\ m.type = "p" => password = Null
          /\ password' = IF m.type = "p" THEN m ELSE password
      BY <2>3, SendableFields DEF Sent
    <3>2. /\ Len(Queue') = Len(Queue) + 1
          /\ \A i \in 1..Len(Queue) : Queue'[i] = Queue[i]
          /\ Queue'[Len(Queue) + 1] = m
      BY <2>3, <3>1, QueueType, AppendProperties
    <3>3. \A i \in 1..Len(Queue') : i \in 1..Len(Queue) \/ i = Len(Queue) + 1
      BY <3>2
    <3>4. Authenticated'
      <4>1. \A n : Proven(n) => Proven(n)'
        BY <2>1, <2>3, SentProven
      <4> QED
        BY <2>1, <4>1 DEF PhaseInv, Authenticated
    <3>5. ASSUME phase' = "ready", secret'
          PROVE  /\ password' # Null /\ password'.right
                 /\ \A i \in 1..Len(Queue') : password'.n < Queue'[i].n
      <4>1. /\ password # Null /\ password.right /\ password' = password
            /\ \A i \in 1..Len(Queue) : password.n < Queue[i].n
        BY <2>1, <3>1, <3>5 DEF PhaseInv
      <4>2. password.n \in Nat /\ password.n <= sent
        BY <4>1, MessageFields, MaxSentNat DEF TypeOK, PasswordInv
      <4> QED
        BY <3>1, <3>2, <3>3, <4>1, <4>2
    <3>6. ASSUME phase' # "ready", secret', password' # Null, password'.right
          PROVE  \E i \in 1..Len(Queue') : Queue'[i] = password'
      <4>1. CASE m.type = "p"
        <5>1. Len(Queue) + 1 \in 1..Len(Queue')
          BY <3>2
        <5> QED
          BY <3>1, <3>2, <4>1, <5>1
      <4>2. CASE m.type # "p"
        <5>1. PICK i \in 1..Len(Queue) : Queue[i] = password
          BY <2>1, <3>1, <3>6, <4>2 DEF PhaseInv
        <5> QED
          BY <3>1, <3>2, <4>2, <5>1
      <4> QED
        BY <4>1, <4>2
    <3> QED
      BY <2>1, <3>4, <3>5, <3>6 DEF PhaseInv
  <2> QED
    BY <1>3, <2>2, <2>3, ChunkQueue
<1>4. ASSUME NEW types, Take(types), phase = "ready", phase' = phase PROVE
         /\ phase' = "auth" => secret'
         /\ phase' = "ready" /\ secret' =>
              /\ password' # Null /\ password'.right
              /\ \A i \in 1..Len(Queue') : password'.n < Queue'[i].n
  <2>1. UNCHANGED <<secret, password>>
    BY <1>4 DEF Take, client
  <2>2. \A i \in 1..Len(Queue') : i + 1 \in 1..Len(Queue) /\ Queue'[i] = Queue[i + 1]
    BY <1>4, TakeQueue
  <2> QED
    BY <1>4, <2>1, <2>2 DEF PhaseInv
<1>5. CASE SSLRequest \/ Drop
  <2>1. /\ phase # "ready" /\ Head(buf).type # "p"
        /\ Take({"ssl"}) \/ Take(Simple \cup {"Q", "P", "E"})
        /\ UNCHANGED <<phase, secret, password, pending, ready, inTx, txStatus>>
    BY <1>5 DEF SSLRequest, Drop, Take, Continue, client, state, seen, Simple
  <2>2. Head(buf) = Queue[1]
    BY <2>1, TakeQueue
  <2>3. secret /\ password # Null /\ password.right
          => \E i \in 1..Len(Queue') : Queue'[i] = password
    BY <2>1, <2>2, TakeBefore
  <2>4. Authenticated'
    BY <2>1, SameProven DEF PhaseInv, Authenticated
  <2> QED
    BY <2>1, <2>3, <2>4 DEF PhaseInv
<1>6. CASE Startup
  <2>1. /\ phase = "first" /\ Head(buf).type = "startup" /\ Take({"startup"})
        /\ phase' = IF secret THEN "auth" ELSE "ready"
        /\ txStatus' = IF secret THEN txStatus ELSE "I"
        /\ UNCHANGED <<secret, password, pending, ready, inTx>>
    BY <1>6 DEF Startup, Take, Continue, client, seen
  <2>2. Head(buf) = Queue[1]
    BY <2>1, TakeQueue
  <2>3. secret /\ password # Null /\ password.right
          => \E i \in 1..Len(Queue') : Queue'[i] = password
    BY <2>1, <2>2, TakeBefore
  <2>4. Authenticated'
    BY <2>1, SameProven DEF PhaseInv, Authenticated
  <2> QED
    BY <2>1, <2>3, <2>4 DEF PhaseInv
<1>7. CASE Password
  <2>1. /\ phase = "auth" /\ Take({"p"}) /\ Head(buf) \in Message /\ Head(buf).type = "p"
        /\ UNCHANGED <<secret, password, pending, ready, inTx>>
    <3>1. Take({"p"})
      BY <1>7 DEF Password
    <3> QED
      BY <1>7, <3>1, TakeType DEF Password, Take, Continue, client, seen
  <2>2. Head(buf) = Queue[1] /\ Queue[1] = password /\ password # Null
    <3>1. Head(buf) = Queue[1] /\ 1 \in 1..Len(Queue)
      BY <2>1, TakeQueue
    <3> QED
      BY <2>1, <3>1, NullAssumption DEF PasswordInv
  <2>3. \/ password.right /\ phase' = "ready" /\ txStatus' = "I"
        \/ ~password.right /\ phase' = phase /\ txStatus' = txStatus
    BY <1>7, <2>2 DEF Password, Accepts
  <2>4. \A i \in 1..Len(Queue') : password.n < Queue'[i].n
    BY <2>1, <2>2, TakeNumbers
  <2>5. Authenticated'
    BY <2>1, SameProven DEF PhaseInv, Authenticated
  <2> QED
    BY <2>1, <2>2, <2>3, <2>4, <2>5 DEF PhaseInv
<1>8. CASE Terminate \/ Parse \/ Bind \/ Skip
  <2>1. /\ phase = "ready" /\ phase' = phase
        /\ Take({"X"}) \/ Take({"P"}) \/ Take({"B"}) \/ Take({"D", "H", "C"})
        /\ UNCHANGED <<secret, password, pending, ready>>
    BY <1>8 DEF Terminate, Parse, Bind, Skip, Take, Continue, client, seen
  <2>2. Authenticated'
    BY <2>1, SameProven DEF PhaseInv, Authenticated
  <2> QED
    BY <1>4, <2>1, <2>2 DEF PhaseInv
<1>9. CASE Sync \/ Unsupported
  <2>1. PICK types : Take(types)
    BY <1>9 DEF Sync, Unsupported
  <2>2. /\ phase = "ready" /\ phase' = phase
        /\ Ready(Head(buf).n, txStatus)
        /\ UNCHANGED <<secret, password, pending>>
    BY <1>9 DEF Sync, Unsupported, Take, Continue, client
  <2>3. Head(buf) = Queue[1] /\ Proven(Queue[1].n)
    BY <2>1, <2>2, TakeQueue, HeadProven
  <2>4. Authenticated'
    <3>1. (\A i \in 1..Len(ready) : Proven(ready[i].n))'
      BY <2>2, <2>3, ReadiesProven DEF PhaseInv, Authenticated
    <3>2. (\A i \in 1..Len(pending) : Proven(pending[i].m.n))'
      BY <2>2, SameProven DEF PhaseInv, Authenticated
    <3> QED
      BY <3>1, <3>2 DEF Authenticated
  <2> QED
    BY <1>4, <2>1, <2>2, <2>4 DEF PhaseInv
<1>10. CASE Run
  <2>1. /\ phase = "ready" /\ phase' = phase /\ Take({"Q", "E"}) /\ looping
        /\ UNCHANGED <<secret, password, ready>>
    BY <1>10 DEF Run, Take, client
  <2>2. pending = << >>
    BY <2>1 DEF PumpInv
  <2>3. PICK a : pending' = Append(pending, a) /\ a.m = Head(buf)
    BY <1>10 DEF Run
  <2>4. Len(pending') = 1 /\ pending'[1].m = Queue[1] /\ Proven(Queue[1].n)
    BY <2>1, <2>2, <2>3, TakeQueue, HeadProven
  <2>5. \A i \in 1..Len(pending') : i = 1
    BY <2>4
  <2>6. Authenticated'
    BY <2>1, <2>4, <2>5, SameProven DEF PhaseInv, Authenticated
  <2> QED
    BY <1>4, <2>1, <2>6 DEF PhaseInv
<1>11. ASSUME NEW i \in 1..Len(pending), Resume(i) PROVE PhaseInv'
  <2>1. /\ i = 1 /\ pending # << >> /\ pending' = << >> /\ Len(pending) = 1
        /\ Queue' = Queue /\ UNCHANGED <<phase, secret, password>>
    BY <1>11, ResumeEmpties DEF Resume, PumpInv, conf, client, Queue
  <2>2. phase = "ready" /\ Proven(pending[1].m.n) /\ \A k \in 1..Len(pending') : FALSE
    BY <2>1 DEF PhaseInv, Authenticated
  <2>3. Authenticated'
    <3> DEFINE n == pending[1].m.n
    <3>1. UNCHANGED ready \/ \E status : Ready(n, status)
      BY <1>11, <2>1 DEF Resume
    <3>2. Proven(n)
      BY <2>2
    <3> HIDE DEF n
    <3>3. (\A k \in 1..Len(ready) : Proven(ready[k].n))'
      <4>1. CASE UNCHANGED ready
        BY <2>1, <4>1, SameProven DEF PhaseInv, Authenticated
      <4>2. ASSUME NEW status, Ready(n, status) PROVE (\A k \in 1..Len(ready) : Proven(ready[k].n))'
        BY <2>1, <3>2, <4>2, ReadiesProven DEF PhaseInv, Authenticated
      <4> QED
        BY <3>1, <4>1, <4>2
    <3> QED
      BY <2>2, <3>3 DEF Authenticated
  <2> QED
    BY <2>1, <2>2, <2>3 DEF PhaseInv
<1> QED
  BY <1>2, <1>3, <1>5, <1>6, <1>7, <1>8, <1>9, <1>10, <1>11 DEF Next, Pump
---------------------------------------------------------------------------
(***************************************************************************)
(* The answers owed.                                                       *)
(***************************************************************************)
\* What is outstanding has a message's number.
LEMMA OutstandingNumber ==
    ASSUME TypeOK, NEW n, Outstanding(n)
    PROVE  n \in 1..MaxSent
BY Numbers DEF Outstanding, AtWork, Queued

\* Nothing else keeps what is owed: the outstanding messages are the same.
LEMMA SameOwed ==
    ASSUME TypeOK, OwedInv, UNCHANGED <<owed, ready>>,
           \A n \in 1..MaxSent : Outstanding(n)' <=> Outstanding(n)
    PROVE  OwedInv'
<1>1. /\ Len(ready') <= Len(owed')
      /\ \A i \in 1..Len(ready') : ready'[i].n = owed'[i]
  BY DEF OwedInv
<1>2. \A i \in 1..Len(owed') : Len(ready') < i => Outstanding(owed[i])'
  <2> SUFFICES ASSUME NEW i \in 1..Len(owed), Len(ready) < i
               PROVE  Outstanding(owed[i])'
    OBVIOUS
  <2>1. Outstanding(owed[i]) /\ owed[i] \in 1..MaxSent
    BY Numbers DEF OwedInv
  <2>2. PICK n \in 1..MaxSent : n = owed[i]
    BY <2>1
  <2>3. Outstanding(n)'
    BY <2>1, <2>2
  <2> QED
    BY <2>2, <2>3
<1>3. \A n \in 1..MaxSent :
         Outstanding(n)' => \E i \in 1..Len(owed') : Len(ready') < i /\ owed'[i] = n
  BY DEF OwedInv
<1> QED
  BY <1>1, <1>2, <1>3 DEF OwedInv

\* The outstanding message with the lowest number is answered.
LEMMA FirstAnswered ==
    ASSUME TypeOK, TypeOK', NumberInv, OwedInv, NEW n \in 1..MaxSent, NEW status,
           UNCHANGED owed, Ready(n, status), Outstanding(n),
           \A k \in 1..MaxSent : Outstanding(k) => n <= k,
           \A k \in 1..MaxSent : Outstanding(k)' <=> Outstanding(k) /\ k # n
    PROVE  OwedInv'
<1> DEFINE j == Len(ready) + 1
<1> USE Numbers, MaxSentNat
<1>1. Len(ready') = j /\ ready'[j].n = n /\ \A i \in 1..Len(ready) : ready'[i] = ready[i]
  <2> DEFINE a == [n |-> n, status |-> status, tx |-> inTx', excused |-> beginFailed']
  <2>1. ready' = Append(ready, a) /\ a.n = n
    BY DEF Ready
  <2> HIDE DEF a
  <2>2. ready \in Seq(Answer)
    BY DEF TypeOK
  <2> QED
    BY <2>1, <2>2
<1>2. Len(ready) < Len(owed) /\ owed[j] = n
  <2>1. PICK i \in 1..Len(owed) : Len(ready) < i /\ owed[i] = n
    BY DEF OwedInv
  <2>2. j \in 1..Len(owed) /\ j <= i /\ owed[j] \in 1..MaxSent
    BY <2>1
  <2>3. n <= owed[j]
    <3>1. Len(ready) < j
      OBVIOUS
    <3>2. Outstanding(owed[j])
      BY <2>2, <3>1 DEF OwedInv
    <3> QED
      BY <2>2, <3>2
  <2>4. ~(j < i)
    BY <2>1, <2>2, <2>3 DEF NumberInv
  <2> QED
    BY <2>1, <2>2, <2>4
<1>3. \A i \in 1..Len(owed') : Len(ready') < i => Outstanding(owed[i])'
  <2> SUFFICES ASSUME NEW i \in 1..Len(owed), j < i
               PROVE  Outstanding(owed[i])'
    BY <1>1
  <2>1. owed[i] \in 1..MaxSent /\ j \in 1..Len(owed)
    BY <1>2
  <2>2. Outstanding(owed[i])
    BY DEF OwedInv
  <2>3. owed[i] # n
    BY <1>2, <2>1 DEF NumberInv
  <2>4. PICK k \in 1..MaxSent : k = owed[i]
    BY <2>1
  <2>5. Outstanding(k)'
    BY <2>2, <2>3, <2>4
  <2> QED
    BY <2>4, <2>5
<1>4. \A k \in 1..MaxSent :
         Outstanding(k)' => \E i \in 1..Len(owed') : Len(ready') < i /\ owed'[i] = k
  <2> SUFFICES ASSUME NEW k \in 1..MaxSent, Outstanding(k)'
               PROVE  \E i \in 1..Len(owed) : j < i /\ owed[i] = k
    BY <1>1
  <2>1. Outstanding(k) /\ k # n
    OBVIOUS
  <2>2. PICK i \in 1..Len(owed) : Len(ready) < i /\ owed[i] = k
    BY <2>1 DEF OwedInv
  <2>3. i # j
    BY <1>2, <2>1, <2>2
  <2> QED
    BY <2>2, <2>3
<1>5. \A i \in 1..Len(ready') : ready'[i].n = owed'[i]
  <2>1. \A i \in 1..Len(ready') : i \in 1..Len(ready) \/ i = j
    BY <1>1
  <2> QED
    BY <1>1, <1>2, <2>1 DEF OwedInv
<1> QED
  BY <1>1, <1>2, <1>3, <1>4, <1>5 DEF OwedInv

\* A message that is owed an answer has been sent, after all others.
LEMMA SentOwed ==
    ASSUME TypeOK, NumberInv, OwedInv, NEW n \in 1..MaxSent,
           UNCHANGED ready, owed' = Append(owed, n),
           \A k \in 1..MaxSent : Outstanding(k)' <=> Outstanding(k) \/ k = n
    PROVE  OwedInv'
<1> USE Numbers
<1>1. /\ Len(owed') = Len(owed) + 1
      /\ \A i \in 1..Len(owed) : owed'[i] = owed[i]
      /\ owed'[Len(owed) + 1] = n
  <2>1. owed \in Seq(1..MaxSent)
    BY DEF TypeOK
  <2> QED
    BY <2>1, AppendProperties
<1>2. \A i \in 1..Len(owed') : i \in 1..Len(owed) \/ i = Len(owed) + 1
  <2>1. Len(owed) \in Nat /\ Len(owed') = Len(owed) + 1
    BY <1>1, LenProperties DEF TypeOK
  <2> QED
    BY <2>1
<1>3. \A i \in 1..Len(owed') : Len(ready') < i => Outstanding(owed[i])'
  <2> SUFFICES ASSUME NEW i \in 1..Len(owed'), Len(ready) < i
               PROVE  Outstanding(owed[i])'
    OBVIOUS
  <2>1. PICK k \in 1..MaxSent : k = owed'[i]
    BY <1>1, <1>2
  <2>2. Outstanding(k) \/ k = n
    BY <1>1, <1>2, <2>1 DEF OwedInv
  <2>3. Outstanding(k)'
    BY <2>2
  <2> QED
    BY <2>1, <2>3
<1>4. \A k \in 1..MaxSent :
         Outstanding(k)' => \E i \in 1..Len(owed') : Len(ready') < i /\ owed'[i] = k
  <2> SUFFICES ASSUME NEW k \in 1..MaxSent, Outstanding(k)'
               PROVE  \E i \in 1..Len(owed') : Len(ready) < i /\ owed'[i] = k
    OBVIOUS
  <2>1. CASE Outstanding(k)
    <3>1. PICK i \in 1..Len(owed) : Len(ready) < i /\ owed[i] = k
      BY <2>1 DEF OwedInv
    <3> QED
      BY <1>1, <3>1
  <2>2. CASE k = n
    <3>1. Len(owed) + 1 \in 1..Len(owed') /\ Len(ready) < Len(owed) + 1
      BY <1>1 DEF OwedInv
    <3> QED
      BY <1>1, <2>2, <3>1
  <2> QED
    BY <2>1, <2>2
<1>5. /\ Len(ready') <= Len(owed')
      /\ \A i \in 1..Len(ready') : ready'[i].n = owed'[i]
  BY <1>1 DEF OwedInv
<1> QED
  BY <1>3, <1>4, <1>5 DEF OwedInv

\* Taking a message leaves all others queued, and those are numbered higher.
LEMMA TakeQueued ==
    ASSUME TypeOK, NumberInv, NEW types, Take(types), NEW n
    PROVE  /\ Queued(n) <=> Queued(n)' \/ (Queue[1] \in Owing /\ Queue[1].n = n)
           /\ Queued(n)' => Queue[1].n < n
<1>0. Owing' = Owing
  BY SameProven DEF Take, client
<1>1. /\ Len(Queue) \in Nat \ {0}
      /\ Len(Queue') = Len(Queue) - 1
      /\ \A i \in 1..Len(Queue') : Queue'[i] = Queue[i + 1]
  BY TakeQueue
<1>2. Queued(n)' => Queued(n)
  <2> SUFFICES ASSUME NEW i \in 1..Len(Queue'), Queue'[i] \in Owing, Queue'[i].n = n
               PROVE  Queued(n)
    BY <1>0 DEF Queued
  <2>1. i + 1 \in 1..Len(Queue) /\ Queue'[i] = Queue[i + 1]
    BY <1>1
  <2> QED
    BY <2>1 DEF Queued
<1>3. Queue[1] \in Owing /\ Queue[1].n = n => Queued(n)
  BY <1>1 DEF Queued
<1>4. ASSUME NEW i \in 1..Len(Queue), Queue[i] \in Owing, Queue[i].n = n, i # 1
      PROVE  Queued(n)'
  <2>1. i - 1 \in 1..Len(Queue') /\ (i - 1) + 1 = i
    BY <1>1, <1>4
  <2>2. Queue'[i - 1] = Queue[i]
    BY <1>1, <2>1
  <2> QED
    BY <1>0, <1>4, <2>1, <2>2 DEF Queued
<1>5. Queued(n)' => Queue[1].n < n
  BY TakeNumbers DEF Queued
<1> QED
  BY <1>2, <1>3, <1>4, <1>5 DEF Queued

\* Every message that is owed an answer gets its turn, and its answer, in order.
LEMMA OwedStep ==
    ASSUME TypeOK, TypeOK', PumpInv, NumberInv, PasswordInv, PhaseInv, OwedInv, [Next]_vars
    PROVE  OwedInv'
<1> USE Numbers
<1>1. ASSUME Queue' = Queue, UNCHANGED <<secret, password, pending, owed, ready>>
      PROVE  OwedInv'
  <2>1. \A n \in 1..MaxSent : Outstanding(n)' <=> Outstanding(n)
    BY <1>1, SameProven DEF Outstanding, AtWork, Queued
  <2> QED
    BY <1>1, <2>1, SameOwed
<1>2. ASSUME NEW types, Take(types), Queue[1] \notin Owing, UNCHANGED <<pending, ready>>
      PROVE  OwedInv'
  <2>1. \A n \in 1..MaxSent : Queued(n)' <=> Queued(n)
    BY <1>2, TakeQueue, TakeQueued
  <2>2. \A n \in 1..MaxSent : Outstanding(n)' <=> Outstanding(n)
    BY <1>2, <2>1 DEF Outstanding, AtWork
  <2> QED
    BY <1>2, <2>2, SameOwed DEF Take, client
<1>3. CASE UNCHANGED vars \/ PumpEmpty
  <2>1. Queue' = Queue /\ UNCHANGED <<secret, password, pending, owed, ready>>
    BY <1>3 DEF PumpEmpty, vars, conf, flow, client, seen, Queue
  <2> QED
    BY <1>1, <2>1
<1>4. CASE Chunk
  <2>1. UNCHANGED <<secret, pending, ready>>
    BY <1>4 DEF Chunk, conf, seen
  <2>2. CASE Queue' = Queue /\ UNCHANGED client
    BY <1>1, <2>1, <2>2 DEF client
  <2>3. ASSUME NEW m \in Sendable(sent + 1), sent < MaxSent, Queue' = Append(Queue, m),
               Sent(m)
        PROVE  OwedInv'
    <3>1. m \in Message /\ m.n \in 1..MaxSent
      BY <2>3, SendableFields, MessageFields
    <3>2. /\ Len(Queue') = Len(Queue) + 1
          /\ \A i \in 1..Len(Queue) : Queue'[i] = Queue[i]
          /\ Queue'[Len(Queue) + 1] = m
      BY <2>3, <3>1, QueueType, AppendProperties
    <3>3. \A i \in 1..Len(Queue) : Queue[i] \in Owing' <=> Queue[i] \in Owing
      <4> TAKE i \in 1..Len(Queue)
      <4>1. Queue[i] \in Message /\ Queue[i].n \in 1..sent
        BY DEF NumberInv
      <4>2. \A n \in 1..sent : Proven(n)' <=> Proven(n)
        BY <2>1, <2>3, SentProven
      <4>3. PICK q \in Message : q = Queue[i]
        BY <4>1
      <4>4. Proven(q.n)' <=> Proven(q.n)
        BY <4>1, <4>2, <4>3
      <4>5. q \in Owing' <=> q \in Owing
        BY <4>4 DEF Owing
      <4> QED
        BY <4>3, <4>5
    <3>4. m \in Owing' <=> Served /\ m.type \in {"Q", "S", "F", "p"}
      <4>1. Proven(m.n)' <=> Served
        BY <2>1, <2>3, SentProven
      <4> QED
        BY <3>1, <4>1 DEF Owing
    <3>5. \A n \in 1..MaxSent : Queued(n)' <=> Queued(n) \/ (m \in Owing' /\ n = m.n)
      <4> TAKE n \in 1..MaxSent
      <4>1. \A i \in 1..Len(Queue') : i \in 1..Len(Queue) \/ i = Len(Queue) + 1
        BY <3>2
      <4>2. Queued(n)' => Queued(n) \/ (m \in Owing' /\ n = m.n)
        BY <3>2, <3>3, <4>1 DEF Queued
      <4>3. 1..Len(Queue) \subseteq 1..Len(Queue') /\ Len(Queue) + 1 \in 1..Len(Queue')
        BY <3>2
      <4>4. Queued(n) \/ (m \in Owing' /\ n = m.n) => Queued(n)'
        BY <3>2, <3>3, <4>3 DEF Queued
      <4> QED
        BY <4>2, <4>4
    <3>6. CASE m \in Owing'
      <4>1. \A n \in 1..MaxSent : Outstanding(n)' <=> Outstanding(n) \/ n = m.n
        BY <2>1, <3>5, <3>6 DEF Outstanding, AtWork
      <4>2. owed' = Append(owed, m.n)
        BY <2>3, <3>4, <3>6 DEF Sent
      <4> QED
        BY <2>1, <3>1, <4>1, <4>2, SentOwed
    <3>7. CASE m \notin Owing'
      <4>1. \A n \in 1..MaxSent : Outstanding(n)' <=> Outstanding(n)
        BY <2>1, <3>5, <3>7 DEF Outstanding, AtWork
      <4>2. owed' = owed
        BY <2>3, <3>4, <3>7 DEF Sent
      <4> QED
        BY <2>1, <4>1, <4>2, SameOwed
    <3> QED
      BY <3>6, <3>7
  <2> QED
    BY <1>4, <2>2, <2>3, ChunkQueue
<1>5. CASE SSLRequest \/ Startup \/ Terminate \/ Parse \/ Bind \/ Skip
  <2>1. UNCHANGED <<pending, ready>>
    BY <1>5 DEF SSLRequest, Startup, Terminate, Parse, Bind, Skip, Continue, seen
  <2>2. PICK types \in {{"ssl"}, {"startup"}, {"X"}, {"P"}, {"B"}, {"D", "H", "C"}} : Take(types)
    BY <1>5 DEF SSLRequest, Startup, Terminate, Parse, Bind, Skip
  <2>3. Queue[1] \notin Owing
    <3>1. Queue[1].type \in types
      BY <2>2, TakeType, TakeQueue
    <3> QED
      BY <2>2, <3>1 DEF Owing
  <2> QED
    BY <1>2, <2>1, <2>2, <2>3
<1>6. CASE Password \/ Drop
  <2>1. phase = "auth" /\ UNCHANGED <<pending, ready>>
    BY <1>6 DEF Password, Drop, Continue, seen
  <2>2. PICK types : Take(types)
    BY <1>6 DEF Password, Drop
  <2>3. Queue[1] \notin Owing
    BY <2>1, <2>2, HeadUnproven DEF Owing
  <2> QED
    BY <1>2, <2>1, <2>2, <2>3
<1>7. CASE Sync \/ Unsupported
  <2>1. PICK types : Take(types) /\ types \subseteq {"S", "F", "p"}
    BY <1>7 DEF Sync, Unsupported
  <2>2. /\ looping /\ UNCHANGED <<pending, owed>>
        /\ Ready(Head(buf).n, txStatus)
    BY <1>7 DEF Sync, Unsupported, Take, Continue, client
  <2>3. pending = << >>
    BY <2>2 DEF PumpInv
  <2>4. Head(buf) = Queue[1] /\ Queue[1] \in Owing /\ Queue[1].n \in 1..MaxSent
    <3>1. /\ Head(buf) = Queue[1] /\ Queue[1] \in Message
          /\ Queue[1].type \in {"Q", "S", "F", "p"}
      BY <2>1, TakeQueue, TakeType
    <3>2. Proven(Queue[1].n)
      BY <1>7, <2>1, HeadProven DEF Sync, Unsupported
    <3> QED
      BY <3>1, <3>2, MessageFields DEF Owing
  <2>5. \A k : Outstanding(k) <=> Queued(k)
    BY <2>3 DEF Outstanding, AtWork
  <2>6. \A k : Outstanding(k)' <=> Queued(k)'
    BY <2>2, <2>3 DEF Outstanding, AtWork
  <2>7. \A k \in 1..MaxSent : Outstanding(k)' <=> Outstanding(k) /\ k # Queue[1].n
    BY <2>1, <2>4, <2>5, <2>6, TakeQueued
  <2>8. Outstanding(Queue[1].n)
    BY <2>1, <2>4, <2>5, TakeQueued
  <2>9. \A k \in 1..MaxSent : Outstanding(k) => Queue[1].n <= k
    BY <2>1, <2>4, <2>5, TakeQueued
  <2> QED
    BY <2>2, <2>4, <2>7, <2>8, <2>9, FirstAnswered
<1>8. CASE Run
  <2> DEFINE m == Head(buf)
  <2>1. PICK a : pending' = Append(pending, a) /\ a.m = m
    BY <1>8 DEF Run
  <2>2. looping /\ Take({"Q", "E"}) /\ UNCHANGED <<owed, ready>>
    BY <1>8 DEF Run, Take, client
  <2>3. pending = << >>
    BY <2>2 DEF PumpInv
  <2>4. Len(pending') = 1 /\ pending'[1].m = m
    BY <2>1, <2>3
  <2>5. m = Queue[1]
    BY <2>2, TakeQueue
  <2>6. m \in Message /\ m.type \in {"Q", "E"} /\ Proven(m.n)
    BY <1>8, <2>2, <2>5, TakeType, HeadProven DEF Run
  <2> HIDE DEF m
  <2>7. \A n : AtWork(n)' <=> m \in Owing /\ m.n = n
    <3>1. 1..Len(pending') = {1} /\ (m \in Owing <=> m.type = "Q")
      BY <2>4, <2>6 DEF Owing
    <3> QED
      BY <2>4, <3>1 DEF AtWork
  <2>8. \A n : ~AtWork(n)
    BY <2>3 DEF AtWork
  <2>9. \A n : Queued(n) <=> Queued(n)' \/ (m \in Owing /\ m.n = n)
    BY <2>2, <2>5, TakeQueued
  <2>10. \A n \in 1..MaxSent : Outstanding(n)' <=> Outstanding(n)
    BY <2>7, <2>8, <2>9 DEF Outstanding
  <2> QED
    BY <2>2, <2>10, SameOwed
<1>9. ASSUME NEW i \in 1..Len(pending), Resume(i) PROVE OwedInv'
  <2>1. /\ i = 1 /\ Len(pending) = 1 /\ pending' = << >>
        /\ Queue' = Queue /\ UNCHANGED <<owed, secret, password>>
    BY <1>9, ResumeEmpties DEF Resume, PumpInv, conf, client, Queue
  <2> DEFINE m == pending[1].m
  <2>2. m.n \in 1..MaxSent
    BY <2>1
  <2>3. /\ m.type = "Q" => \E status : Ready(m.n, status)
        /\ m.type # "Q" => UNCHANGED ready
    BY <1>9, <2>1 DEF Resume
  <2>4. \A k : AtWork(k) <=> m.type = "Q" /\ m.n = k
    BY <2>1 DEF AtWork
  <2>5. \A k \in 1..MaxSent : Queued(k) => m.n < k
    BY <2>1 DEF NumberInv, Queued
  <2>6. \A k : ~AtWork(k)' /\ (Queued(k)' <=> Queued(k))
    BY <2>1, SameProven DEF AtWork, Queued
  <2> HIDE DEF m
  <2>7. CASE m.type = "Q"
    <3>1. Outstanding(m.n) /\ \A k \in 1..MaxSent : Outstanding(k) => m.n <= k
      BY <2>2, <2>4, <2>5, <2>7 DEF Outstanding
    <3>2. \A k \in 1..MaxSent : Outstanding(k)' <=> Outstanding(k) /\ k # m.n
      BY <2>2, <2>4, <2>5, <2>6, <2>7 DEF Outstanding
    <3>3. PICK status : Ready(m.n, status)
      BY <2>3, <2>7
    <3> QED
      BY <2>1, <2>2, <3>1, <3>2, <3>3, FirstAnswered
  <2>8. CASE m.type # "Q"
    <3>1. \A k \in 1..MaxSent : Outstanding(k)' <=> Outstanding(k)
      BY <2>4, <2>6, <2>8 DEF Outstanding
    <3> QED
      BY <2>1, <2>3, <2>8, <3>1, SameOwed
  <2> QED
    BY <2>7, <2>8
<1> QED
  BY <1>3, <1>4, <1>5, <1>6, <1>7, <1>8, <1>9 DEF Next, Pump
---------------------------------------------------------------------------
(***************************************************************************)
(* The text and the values of an Execute.                                  *)
(***************************************************************************)
\* The last of some messages is the one appended, or the last before it.
LEMMA LastAppend ==
    ASSUME NEW q \in Seq(Message), NEW m \in Message, NEW S, NEW first, NEW n
    PROVE  /\ m \in S
                => LastOf(S, Append(q, m), Len(q) + 1, first, m.n)
           /\ m \notin S /\ LastOf(S, q, Len(q), first, n)
                => LastOf(S, Append(q, m), Len(q) + 1, first, n)
           /\ \A k \in 0..Len(q) :
                LastOf(S, q, k, first, n) => LastOf(S, Append(q, m), k, first, n)
<1> DEFINE a == Append(q, m)
<1>1. Len(q) \in Nat /\ \A i \in 1..Len(q) : a[i] = q[i]
  BY AppendProperties
<1>2. a[Len(q) + 1] = m
  BY AppendProperties
<1> HIDE DEF a
<1>3. \A i \in 1..Len(q) + 1 : i \in 1..Len(q) \/ i = Len(q) + 1
  BY <1>1
<1>4. \A k \in 0..Len(q) : LastOf(S, q, k, first, n) => LastOf(S, a, k, first, n)
  <2> SUFFICES ASSUME NEW k \in 0..Len(q), LastOf(S, q, k, first, n)
               PROVE  LastOf(S, a, k, first, n)
    OBVIOUS
  <2>1. \A i \in 1..k : a[i] = q[i]
    BY <1>1
  <2> QED
    BY <2>1 DEF LastOf
<1>5. m \in S => LastOf(S, a, Len(q) + 1, first, m.n)
  <2> SUFFICES ASSUME m \in S
               PROVE  LastOf(S, a, Len(q) + 1, first, m.n)
    OBVIOUS
  <2>1. Len(q) + 1 \in 1..Len(q) + 1 /\ \A j \in 1..Len(q) + 1 : ~(Len(q) + 1 < j)
    BY <1>1
  <2> QED
    BY <1>2, <2>1 DEF LastOf
<1>6. m \notin S /\ LastOf(S, q, Len(q), first, n)
        => LastOf(S, a, Len(q) + 1, first, n)
  <2> SUFFICES ASSUME m \notin S, LastOf(S, q, Len(q), first, n)
               PROVE  LastOf(S, a, Len(q) + 1, first, n)
    OBVIOUS
  <2>1. 1..Len(q) \subseteq 1..Len(q) + 1
    BY <1>1
  <2> QED
    BY <1>1, <1>2, <1>3, <2>1 DEF LastOf
<1> QED
  BY <1>4, <1>5, <1>6 DEF a

\* The last of some messages among those left, when the first one has been taken.
LEMMA LastTail ==
    ASSUME NEW q, NEW t, NEW l \in Nat, \A i \in 1..l : t[i] = q[i + 1],
           NEW S, NEW first, NEW n, NEW k \in 0..l,
           LastOf(S, q, k + 1, first, n)
    PROVE  LastOf(S, t, k, IF q[1] \in S THEN q[1].n ELSE first, n)
<1>1. \A i \in 1..k : t[i] = q[i + 1] /\ i + 1 \in 1..k + 1
  OBVIOUS
<1>2. 1 \in 1..k + 1
  OBVIOUS
<1>3. CASE n = first /\ \A i \in 1..k + 1 : q[i] \notin S
  BY <1>1, <1>2, <1>3 DEF LastOf
<1>4. ASSUME NEW i \in 1..k + 1, q[i] \in S, q[i].n = n,
             \A j \in 1..k + 1 : i < j => q[j] \notin S
      PROVE  LastOf(S, t, k, IF q[1] \in S THEN q[1].n ELSE first, n)
  <2>1. CASE i = 1
    <3>1. \A j \in 1..k : t[j] \notin S
      BY <1>1, <1>4, <2>1
    <3> QED
      BY <1>4, <2>1, <3>1 DEF LastOf
  <2>2. CASE i # 1
    <3>1. i - 1 \in 1..k /\ (i - 1) + 1 = i
      BY <2>2
    <3>2. t[i - 1] = q[i]
      BY <1>1, <3>1
    <3>3. \A j \in 1..k : i - 1 < j => t[j] \notin S
      BY <1>1, <1>4, <3>1
    <3> QED
      BY <1>4, <3>1, <3>2, <3>3 DEF LastOf
  <2> QED
    BY <2>1, <2>2
<1> QED
  BY <1>3, <1>4 DEF LastOf

\* Which messages count matters only for those there are.
LEMMA LastSame ==
    ASSUME NEW q, NEW k, NEW S, NEW T, \A i \in 1..k : q[i] \in S <=> q[i] \in T,
           NEW first, NEW n, LastOf(S, q, k, first, n)
    PROVE  LastOf(T, q, k, first, n)
BY DEF LastOf

\* Taking a message: what was the last one heeded stays so, if the session keeps the one
\* taken.
LEMMA TakeText ==
    ASSUME TypeOK, TypeOK', TextInv, NEW types, Take(types),
           unnamed'.n = IF Queue[1] \in Texts THEN Queue[1].n ELSE unnamed.n,
           values' = IF Queue[1] \in Binds THEN Queue[1].n ELSE values,
           RanLast'
    PROVE  TextInv'
<1> DEFINE l == Len(Queue')
<1>1. /\ l \in Nat /\ Len(Queue) = l + 1
      /\ \A i \in 1..l : Queue'[i] = Queue[i + 1]
  BY TakeQueue
<1>2. UNCHANGED <<secret, password, group, portal>>
  BY DEF Take, client
<1>3. Texts' = Texts /\ Binds' = Binds
  BY <1>2, SameProven
<1> HIDE DEF l
<1>4. \A k \in 0..l : \A n :
         /\ LastOf(Texts, Queue, k + 1, unnamed.n, n)
              => LastOf(Texts, Queue', k, unnamed'.n, n)
         /\ LastOf(Binds, Queue, k + 1, values, n)
              => LastOf(Binds, Queue', k, values', n)
  BY <1>1, LastTail
<1>5. /\ LastOf(Texts, Queue', l, unnamed'.n, group.n)
      /\ LastOf(Binds, Queue', l, values', portal.with)
  <2>1. l \in 0..l
    BY <1>1
  <2> QED
    BY <1>1, <1>4, <2>1 DEF TextInv
<1>6. ASSUME NEW k \in 1..l, Queue'[k].type = "E", Proven(Queue[k].n)'
      PROVE  /\ LastOf(Texts, Queue', k - 1, unnamed'.n, Queue'[k].last)
             /\ LastOf(Binds, Queue', k - 1, values', Queue'[k].with)
  <2>1. k + 1 \in 1..Len(Queue) /\ Queue'[k] = Queue[k + 1]
    BY <1>1
  <2>2. Proven(Queue[k + 1].n)
    BY <1>2, <1>6, <2>1 DEF Proven
  <2>3. /\ LastOf(Texts, Queue, (k + 1) - 1, unnamed.n, Queue[k + 1].last)
        /\ LastOf(Binds, Queue, (k + 1) - 1, values, Queue[k + 1].with)
    BY <1>6, <2>1, <2>2 DEF TextInv
  <2>4. k - 1 \in 0..l /\ (k - 1) + 1 = (k + 1) - 1
    BY <1>1
  <2> QED
    BY <1>4, <2>1, <2>3, <2>4
<1> QED
  BY <1>2, <1>3, <1>5, <1>6 DEF TextInv, l

\* Parse and Bind keep the text and the values of the messages taken so far, the client
\* counts those it sent, and an Execute finds what it was sent for.
LEMMA TextStep ==
    ASSUME TypeOK, TypeOK', PumpInv, NumberInv, PasswordInv, PhaseInv, TextInv, [Next]_vars
    PROVE  TextInv'
<1>1. ASSUME Queue' = Queue,
             UNCHANGED <<secret, password, unnamed, values, group, portal, executed>>
      PROVE  TextInv'
  <2>1. \A n : Proven(n)' <=> Proven(n)
    BY <1>1, SameProven
  <2>2. Texts' = Texts /\ Binds' = Binds
    BY <1>1, SameProven
  <2>3. RanLast'
    BY <1>1 DEF TextInv, RanLast
  <2> QED
    BY <1>1, <2>1, <2>2, <2>3 DEF TextInv
<1>2. ASSUME NEW types, Take(types), Queue[1] \notin Texts, Queue[1] \notin Binds,
             UNCHANGED <<unnamed, values>>, RanLast'
      PROVE  TextInv'
  BY <1>2, TakeText
<1>3. CASE UNCHANGED vars \/ PumpEmpty
  <2>1. /\ Queue' = Queue
        /\ UNCHANGED <<secret, password, unnamed, values, group, portal, executed>>
    BY <1>3 DEF PumpEmpty, vars, conf, flow, state, client, seen, Queue
  <2> QED
    BY <1>1, <2>1
<1>4. CASE Chunk
  <2>1. UNCHANGED <<secret, unnamed, values, executed>>
    BY <1>4 DEF Chunk, conf, state, seen
  <2>2. CASE Queue' = Queue /\ UNCHANGED client
    BY <1>1, <2>1, <2>2 DEF client
  <2>3. ASSUME NEW m \in Sendable(sent + 1), sent < MaxSent, Queue' = Append(Queue, m),
               Sent(m)
        PROVE  TextInv'
    <3> DEFINE l == Len(Queue)
    <3>1. m \in Message /\ (m.type = "E" => m.with = portal.with /\ m.last = group.n)
      BY <2>3, SendableFields
    <3>2. Queue \in Seq(Message)
      BY QueueType
    <3>3. /\ l \in Nat /\ Len(Queue') = l + 1
          /\ \A i \in 1..l : Queue'[i] = Queue[i]
          /\ Queue'[l + 1] = m
      BY <2>3, <3>1, <3>2, AppendProperties
    <3>4. \A i \in 1..l : /\ Proven(Queue[i].n)' <=> Proven(Queue[i].n)
                          /\ Queue[i] \in Texts <=> Queue[i] \in Texts'
                          /\ Queue[i] \in Binds <=> Queue[i] \in Binds'
      <4> TAKE i \in 1..l
      <4>1. Queue[i] \in Message /\ Queue[i].n \in 1..sent
        BY Numbers DEF NumberInv
      <4>2. PICK q \in Message : q = Queue[i]
        BY <4>1
      <4>3. Proven(q.n)' <=> Proven(q.n)
        BY <2>1, <2>3, <4>1, <4>2, SentProven
      <4>4. Proven(Queue[i].n)' <=> Proven(Queue[i].n)
        <5>1. Queue'[i] = q /\ Queue[i] = q
          BY <3>3, <4>2
        <5> QED
          BY <4>3, <5>1 DEF Proven
      <4>5. (q \in Texts <=> q \in Texts') /\ (q \in Binds <=> q \in Binds')
        BY <4>3 DEF Texts, Binds
      <4> QED
        BY <4>2, <4>4, <4>5
    <3>5. /\ m \in Texts' <=> Served /\ m.type = "P"
          /\ m \in Binds' <=> Served /\ m.type = "B"
      <4>1. Proven(m.n)' <=> Served
        BY <2>1, <2>3, SentProven
      <4> QED
        BY <3>1, <4>1 DEF Texts, Binds
    <3>6. \A k \in 0..l : \A n :
             /\ LastOf(Texts, Queue, k, unnamed.n, n) => LastOf(Texts', Queue, k, unnamed.n, n)
             /\ LastOf(Binds, Queue, k, values, n) => LastOf(Binds', Queue, k, values, n)
      <4> TAKE k \in 0..l
      <4> TAKE n
      <4>1. \A i \in 1..k : i \in 1..l
        BY <3>3
      <4>2. \A i \in 1..k : /\ Queue[i] \in Texts <=> Queue[i] \in Texts'
                            /\ Queue[i] \in Binds <=> Queue[i] \in Binds'
        BY <3>4, <4>1
      <4> QED
        BY <4>2, LastSame
    <3>7. \A k \in 0..l : \A S, first, n :
             LastOf(S, Queue, k, first, n) => LastOf(S, Queue', k, first, n)
      BY <2>3, <3>1, <3>2, LastAppend
    <3>8. l \in 0..l
      BY <3>3
    <3>9. LastOf(Texts', Queue', l + 1, unnamed.n, group'.n)
      <4>1. CASE m \in Texts'
        <5>1. group'.n = m.n
          BY <2>3, <3>5, <4>1 DEF Sent
        <5> QED
          BY <2>3, <3>1, <3>2, <4>1, <5>1, LastAppend
      <4>2. CASE m \notin Texts'
        <5>1. group' = group
          BY <2>3, <3>5, <4>2 DEF Sent
        <5>2. LastOf(Texts', Queue, l, unnamed.n, group.n)
          BY <3>6, <3>8 DEF TextInv
        <5> QED
          BY <2>3, <3>1, <3>2, <4>2, <5>1, <5>2, LastAppend
      <4> QED
        BY <4>1, <4>2
    <3>10. LastOf(Binds', Queue', l + 1, values, portal'.with)
      <4>1. CASE m \in Binds'
        <5>1. portal'.with = m.n
          BY <2>3, <3>5, <4>1 DEF Sent
        <5> QED
          BY <2>3, <3>1, <3>2, <4>1, <5>1, LastAppend
      <4>2. CASE m \notin Binds'
        <5>1. portal' = portal
          BY <2>3, <3>5, <4>2 DEF Sent
        <5>2. LastOf(Binds', Queue, l, values, portal.with)
          BY <3>6, <3>8 DEF TextInv
        <5> QED
          BY <2>3, <3>1, <3>2, <4>2, <5>1, <5>2, LastAppend
      <4> QED
        BY <4>1, <4>2
    <3>11. ASSUME NEW k \in 1..l + 1, Queue'[k].type = "E", Proven(Queue[k].n)'
           PROVE  /\ LastOf(Texts', Queue', k - 1, unnamed.n, Queue'[k].last)
                  /\ LastOf(Binds', Queue', k - 1, values, Queue'[k].with)
      <4>1. k - 1 \in 0..l
        BY <3>3
      <4>2. /\ LastOf(Texts, Queue, k - 1, unnamed.n, Queue'[k].last)
            /\ LastOf(Binds, Queue, k - 1, values, Queue'[k].with)
        <5>1. CASE k \in 1..l
          <6>1. Queue'[k] = Queue[k]
            BY <3>3, <5>1
          <6>2. Proven(Queue[k].n)'
            BY <3>11, <6>1 DEF Proven
          <6>3. Proven(Queue[k].n)
            BY <3>4, <5>1, <6>2
          <6> QED
            BY <3>11, <5>1, <6>1, <6>3 DEF TextInv
        <5>2. CASE k = l + 1
          <6>1. m.with = portal.with /\ m.last = group.n /\ Queue'[k] = m /\ k - 1 = l
            BY <3>1, <3>3, <3>11, <5>2
          <6> QED
            BY <6>1 DEF TextInv
        <5> QED
          BY <3>3, <5>1, <5>2
      <4> QED
        BY <3>6, <3>7, <4>1, <4>2
    <3>12. RanLast'
      BY <2>1 DEF TextInv, RanLast
    <3> HIDE DEF l
    <3> QED
      BY <2>1, <3>3, <3>9, <3>10, <3>11, <3>12 DEF TextInv
  <2> QED
    BY <1>4, <2>2, <2>3, ChunkQueue
<1>5. CASE SSLRequest \/ Startup \/ Terminate \/ Skip \/ Sync \/ Unsupported
  <2>1. UNCHANGED <<unnamed, values, executed>>
    BY <1>5 DEF SSLRequest, Startup, Terminate, Skip, Sync, Unsupported, state, seen
  <2>2. RanLast'
    BY <2>1 DEF TextInv, RanLast
  <2>3. PICK types : Take(types) /\ types \cap {"P", "B"} = {}
    BY <1>5 DEF SSLRequest, Startup, Terminate, Skip, Sync, Unsupported
  <2>4. Queue[1] \notin Texts /\ Queue[1] \notin Binds
    BY <2>3, TakeType, TakeQueue DEF Texts, Binds
  <2> QED
    BY <1>2, <2>1, <2>2, <2>3, <2>4
<1>6. CASE Password \/ Drop
  <2>1. phase = "auth" /\ UNCHANGED <<unnamed, values, executed>>
    BY <1>6 DEF Password, Drop, state, seen
  <2>2. RanLast'
    BY <2>1 DEF TextInv, RanLast
  <2>3. PICK types : Take(types)
    BY <1>6 DEF Password, Drop
  <2>4. Queue[1] \notin Texts /\ Queue[1] \notin Binds
    BY <2>1, <2>3, HeadUnproven DEF Texts, Binds
  <2> QED
    BY <1>2, <2>1, <2>2, <2>3, <2>4
<1>7. CASE Parse
  <2>1. /\ phase = "ready" /\ Take({"P"}) /\ unnamed'.n = Head(buf).n
        /\ UNCHANGED <<values, executed>>
    BY <1>7 DEF Parse, Prepared, seen
  <2>2. /\ Head(buf) = Queue[1] /\ Queue[1] \in Message /\ Queue[1].type = "P"
        /\ Proven(Queue[1].n)
    BY <2>1, TakeType, TakeQueue, HeadProven
  <2>3. RanLast'
    BY <2>1 DEF TextInv, RanLast
  <2>4. Queue[1] \in Texts /\ Queue[1] \notin Binds
    BY <2>2 DEF Texts, Binds
  <2> QED
    BY <2>1, <2>2, <2>3, <2>4, TakeText
<1>8. CASE Bind
  <2>1. /\ phase = "ready" /\ Take({"B"}) /\ values' = Head(buf).n
        /\ UNCHANGED <<unnamed, executed>>
    BY <1>8 DEF Bind, seen
  <2>2. /\ Head(buf) = Queue[1] /\ Queue[1] \in Message /\ Queue[1].type = "B"
        /\ Proven(Queue[1].n)
    BY <2>1, TakeType, TakeQueue, HeadProven
  <2>3. RanLast'
    BY <2>1 DEF TextInv, RanLast
  <2>4. Queue[1] \notin Texts /\ Queue[1] \in Binds
    BY <2>2 DEF Texts, Binds
  <2> QED
    BY <2>1, <2>2, <2>3, <2>4, TakeText
<1>9. CASE Run
  <2> DEFINE m == Queue[1]
             e == [ran |-> [of |-> unnamed.n, with |-> values],
                   meant |-> [of |-> m.of, with |-> m.with], last |-> m.last]
  <2>1. phase = "ready" /\ Take({"Q", "E"}) /\ UNCHANGED <<unnamed, values>>
    BY <1>9 DEF Run
  <2>2. /\ Head(buf) = m /\ Len(Queue) \in Nat \ {0}
        /\ m.type \in {"Q", "E"} /\ Proven(m.n)
    BY <2>1, TakeType, TakeQueue, HeadProven
  <2>3. executed' = IF m.type = "Q" THEN executed ELSE Append(executed, e)
    BY <1>9, <2>2 DEF Run
  <2>4. m.type = "E" => e.ran.of = e.last /\ e.ran.with = e.meant.with
    <3> SUFFICES ASSUME m.type = "E" PROVE e.ran.of = e.last /\ e.ran.with = e.meant.with
      OBVIOUS
    <3>1. /\ LastOf(Texts, Queue, 1 - 1, unnamed.n, m.last)
          /\ LastOf(Binds, Queue, 1 - 1, values, m.with)
      BY <2>2 DEF TextInv
    <3>2. unnamed.n = m.last /\ values = m.with
      BY <3>1 DEF LastOf
    <3> QED
      BY <3>2
  <2>5. m \notin Texts /\ m \notin Binds
    BY <2>2 DEF Texts, Binds
  <2> HIDE DEF m, e
  <2>6. RanLast'
    <3>1. executed \in Seq(Executed)
      BY DEF TypeOK
    <3>2. CASE m.type = "Q"
      BY <2>3, <3>2 DEF TextInv, RanLast
    <3>3. CASE m.type = "E"
      <4>1. /\ Len(executed') = Len(executed) + 1
            /\ \A i \in 1..Len(executed) : executed'[i] = executed[i]
            /\ executed'[Len(executed) + 1] = e
        BY <2>3, <3>1, <3>3
      <4>2. \A i \in 1..Len(executed') : i \in 1..Len(executed) \/ i = Len(executed) + 1
        BY <3>1, <4>1
      <4> QED
        BY <2>4, <3>3, <4>1, <4>2 DEF TextInv, RanLast
    <3> QED
      BY <2>2, <3>2, <3>3
  <2> QED
    BY <1>2, <2>1, <2>5, <2>6 DEF m
<1>10. ASSUME NEW i \in 1..Len(pending), Resume(i) PROVE TextInv'
  <2>1. /\ Queue' = Queue
        /\ UNCHANGED <<secret, password, unnamed, values, group, portal, executed>>
    BY <1>10 DEF Resume, conf, client, Queue
  <2> QED
    BY <1>1, <2>1
<1> QED
  BY <1>3, <1>4, <1>5, <1>6, <1>7, <1>8, <1>9, <1>10 DEF Next, Pump
---------------------------------------------------------------------------
(***************************************************************************)
(* The theorems.                                                           *)
(***************************************************************************)
\* What holds between any two runs of the event loop.
WireInv ==
    /\ TypeOK
    /\ PumpInv
    /\ PasswordInv
    /\ PhaseInv
    /\ StatusInv
    /\ NumberInv
    /\ OwedInv
    /\ TextInv

\* A fresh connection has sent, been owed and been answered nothing.
LEMMA InitInv == Init => WireInv
<1> SUFFICES ASSUME Init PROVE WireInv
  OBVIOUS
<1>1. TypeOK
  <2>1. 0 \in 0..MaxSent /\ \A S : << >> \in Seq(S)
    BY MaxSentNat, EmptySeq
  <2>2. [n |-> 0, stmt |-> "none"] \in Statement
    BY <2>1 DEF Statement, Stmt
  <2>3. [of |-> 0, with |-> 0] \in Execution
    BY <2>1 DEF Execution
  <2> QED
    BY <2>1, <2>2, <2>3 DEF Init, TypeOK
<1>2. Queue = << >> /\ pending = << >> /\ owed = << >> /\ ready = << >> /\ executed = << >>
  BY DEF Init, Queue
<1>3. Len(<< >>) = 0 /\ \A i \in 1..0 : FALSE
  BY EmptySeq
<1>4. PumpInv /\ PasswordInv /\ PhaseInv
  BY <1>2, <1>3 DEF Init, PumpInv, PasswordInv, PhaseInv, Authenticated
<1>5. StatusInv
  BY <1>2, <1>3 DEF Init, StatusInv, StatusHonest
<1>6. NumberInv
  BY <1>2, <1>3 DEF NumberInv
<1>7. OwedInv
  BY <1>2, <1>3 DEF OwedInv, Outstanding, AtWork, Queued
<1>8. TextInv
  BY <1>2, <1>3 DEF Init, TextInv, LastOf, RanLast
<1> QED
  BY <1>1, <1>4, <1>5, <1>6, <1>7, <1>8 DEF WireInv

\* Every step keeps the whole invariant.
LEMMA StepInv == WireInv /\ [Next]_vars => WireInv'
BY TypeStep, PumpStep, PasswordStep, PhaseStep, StatusStep, NumberStep, OwedStep, TextStep
   DEF WireInv

\* The invariant that the theorems follow from holds throughout a session.
THEOREM WireCorrect == Spec => []WireInv
BY InitInv, StepInv, PTL DEF Spec

\* Every variable of the wire side keeps its type, and the stored status is never "E".
THEOREM TypeCorrect == Spec => []TypeOK
<1>1. WireInv => TypeOK
  BY DEF WireInv
<1> QED
  BY <1>1, WireCorrect, PTL

\* However chunks are cut and messages pipelined, the ReadyForQuery messages come one for
\* each Query, Sync and unknown message, in their order, and one statement runs at a time.
THEOREM AnswersInOrder == Spec => []ReadyInOrder
<1>1. WireInv => ReadyInOrder
  BY DEF WireInv, PumpInv, OwedInv, ReadyInOrder
<1> QED
  BY <1>1, WireCorrect, PTL

\* ReadyForQuery says whether the session is in a transaction, unless a BEGIN failed.
THEOREM StatusTrue == Spec => []StatusHonest
<1>1. WireInv => StatusHonest
  BY DEF WireInv, StatusInv
<1> QED
  BY <1>1, WireCorrect, PTL

\* An Execute runs the values of its client's last Bind, and the text that Bind bound
\* unless the client sent another Parse since, whatever it pipelines.
THEOREM ExecutesWhatWasBound == Spec => []ExecutesBound
<1>1. WireInv => ExecutesBound
  BY DEF WireInv, TextInv, RanLast, ExecutesBound
<1> QED
  BY <1>1, WireCorrect, PTL

\* Whatever is pipelined before the password, a statement that is run, and a message that
\* is answered, was sent after the right one.
THEOREM AuthenticatedFirst == Spec => []Authenticated
<1>1. WireInv => Authenticated
  BY DEF WireInv, PhaseInv
<1> QED
  BY <1>1, WireCorrect, PTL
=============================================================================
