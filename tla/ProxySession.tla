--------------------------- MODULE ProxySession ---------------------------
(***************************************************************************)
(* The routing proxy's sessions (src/proxy/session.ts) over the backend    *)
(* pools (src/proxy/backend-pool.ts).  A session is one client socket.     *)
(* Its pump takes one simple Query at a time from the socket's buffer and  *)
(* runs the statements of the message one after the other; every await in  *)
(* that code is a control state of pump[s].pc, and between two awaits the  *)
(* code runs without interruption.  The other actor of a session is        *)
(* cleanup(), called from the socket's 'error' and 'close' events while    *)
(* the pump may be suspended at any await.                                 *)
(*                                                                         *)
(* The Lookup service, node-postgres and Postgres are external: they are   *)
(* modelled by what session.ts relies on.  A pooled client runs its        *)
(* queries in the order they were queued, and Postgres keeps an open       *)
(* transaction per client.                                                 *)
(***************************************************************************)
EXTENDS Naturals, Sequences, FiniteSets

CONSTANTS
    Session,    \* client sockets
    Tid,        \* tenant ids a client may bind
    Shard,      \* hostIndex values
    Client,     \* backend connections of all the pools
    Null,       \* JavaScript's null
    ShardOf,    \* the Lookup service's placement of a tid
    HostOf,     \* the shard a pooled client is connected to
    Batches,    \* the simple Query messages a client may send
    MaxBuffer,  \* bound: messages pipelined in a socket's buffer
    MaxSent,    \* bound: messages each client sends in its life
    Faults      \* what may fail in this instance

Fault == {"lookup", "connect", "sql", "commit", "socket", "backend"}

Op == {"set", "reset", "begin", "commit", "rollback", "data"}

\* A classified statement; a SET with tid Null is SET mtdd.tid = ''.
Statement == [op : Op, tid : Tid \cup {Null}]

ASSUME ConstantsAssumption ==
    /\ ShardOf \in [Tid -> Shard]
    /\ HostOf \in [Client -> Shard]
    /\ Null \notin Session \cup Tid \cup Shard \cup Client
    /\ Batches \subseteq Seq(Statement) \ {<< >>}
    /\ MaxBuffer \in Nat
    /\ MaxSent \in [Session -> Nat]
    /\ Faults \subseteq Fault

VARIABLES
    sess,       \* sess[s]: the fields of the ProxySession object
    pump,       \* pump[s]: where pump() is suspended, and its locals
    buf,        \* buf[s]: messages received and not yet taken
    socket,     \* socket[s]: "open", "errored" or "closed"
    conn,       \* conn[c]: a pooled client and its Postgres backend
    up,         \* the proxy process is running
    hist,       \* hist[s]: the client's own view of its unit of work
    durable,    \* durable[h]: rows committed on shard h
    acked,      \* rows whose statement the client was told succeeded
    ended       \* transactions whose COMMIT the proxy answered

vars == <<sess, pump, buf, socket, conn, up, hist, durable, acked,
          ended>>
ghosts == <<hist, durable, acked, ended>>
outcome == <<hist, ended>>

Row == [s : Session, unit : Nat, tid : Tid, tx : BOOLEAN]

\* What a client is asked to run, and the coroutine that awaits its answer.
Request ==
    [by : {"pump"}, s : Session, op : {"DATA"}, row : Row]
      \cup [by : {"pump", "cleanup"}, s : Session,
            op : {"BEGIN", "COMMIT", "ROLLBACK"}, row : {Null}]

\* The awaits of pump(): "idle" is the wait for the socket's next message,
\* "run" the head of the loop over the statements of a message.
LookupAwait == {"setLookup", "pinLookup", "autoLookup"}
ConnectAwait == {"pinConnect", "autoConnect"}
QueryAwait == {"pinBegin", "txQuery", "endQuery", "autoQuery"}
PumpState == {"idle", "run"} \cup LookupAwait \cup ConnectAwait \cup QueryAwait

SessionState ==
    [pendingTid : Tid \cup {Null}, inTx : BOOLEAN, pinnedIndex : Shard \cup {Null},
     txClient : Client \cup {Null}, backendInTx : BOOLEAN, txStatus : {"I", "T"}]

Pump == [pc : PumpState, stmts : Seq(Statement), tid : Tid \cup {Null}]

Connection ==
    [holder : Session \cup {Null}, queue : Seq(Request),
     tx : {"idle", "open", "failed"}, work : SUBSET Row]

History == [sent : Nat, unit : Nat, open : BOOLEAN, clean : BOOLEAN]

\* Every variable has its type; in particular a statement that is queued on a
\* backend always carries the tid it is routed by.
TypeOK ==
    /\ sess \in [Session -> SessionState]
    /\ pump \in [Session -> Pump]
    /\ buf \in [Session -> Seq(Batches)]
    /\ socket \in [Session -> {"open", "errored", "closed"}]
    /\ conn \in [Client -> Connection]
    /\ up \in BOOLEAN
    /\ hist \in [Session -> History]
    /\ durable \in [Shard -> SUBSET Row]
    /\ acked \in SUBSET Row
    /\ ended \in SUBSET [s : Session, unit : Nat, told : BOOLEAN]

NewSession == [pendingTid |-> Null, inTx |-> FALSE, pinnedIndex |-> Null,
               txClient |-> Null, backendInTx |-> FALSE, txStatus |-> "I"]
IdlePump == [pc |-> "idle", stmts |-> << >>, tid |-> Null]
IdleConn == [holder |-> Null, queue |-> << >>, tx |-> "idle", work |-> {}]

Init ==
    /\ sess = [s \in Session |-> NewSession]
    /\ pump = [s \in Session |-> IdlePump]
    /\ buf = [s \in Session |-> << >>]
    /\ socket = [s \in Session |-> "open"]
    /\ conn = [c \in Client |-> IdleConn]
    /\ up = TRUE
    /\ hist = [s \in Session |->
                 [sent |-> 0, unit |-> 0, open |-> FALSE, clean |-> TRUE]]
    /\ durable = [h \in Shard |-> {}]
    /\ acked = {}
    /\ ended = {}
---------------------------------------------------------------------------
(***************************************************************************)
(* How a statement leaves the pump.  Each of these is the end of a step:   *)
(* ss is the session's object and cn the clients as the step leaves them.  *)
(***************************************************************************)
Stmt(s) == Head(pump[s].stmts)

\* dispatch() returned a chunk: on to the next statement of the message.
Done(s, ss, cn) ==
    /\ sess' = [sess EXCEPT ![s] = ss]
    /\ conn' = cn
    /\ pump' = [pump EXCEPT ![s] = [pc |-> "run", stmts |-> Tail(@.stmts),
                                    tid |-> Null]]

\* handleQuery() has answered: the pump is at the head of its loop again.
Answered(s, ss, cn) ==
    /\ sess' = [sess EXCEPT ![s] = ss]
    /\ conn' = cn
    /\ pump' = [pump EXCEPT ![s] = IdlePump]

Await(s, ss, cn, pc, tid) ==
    /\ sess' = [sess EXCEPT ![s] = ss]
    /\ conn' = cn
    /\ pump' = [pump EXCEPT ![s].pc = pc, ![s].tid = tid]

\* client.query(): the request goes to the end of the client's queue.
Enqueue(cn, c, by, s, op, row) ==
    [cn EXCEPT ![c].queue =
        Append(@, [by |-> by, s |-> s, op |-> op, row |-> row])]

\* client.release(): the pool may hand the client to anyone again.
Release(cn, c) == [cn EXCEPT ![c].holder = Null]

\* Mutant: the transaction's client is never given back.
GiveBack_Forgotten(s, cn) == cn

\* The transaction of s is over, and its client goes back to the pool.
GiveBack(s, cn) == Release(cn, sess[s].txClient)

\* Mutant: backendInTx survives the transaction.
Unpinned_KeepsBackendInTx(ss) ==
    [ss EXCEPT !.inTx = FALSE, !.pinnedIndex = Null, !.pendingTid = Null]

\* The fields that the end of a transaction and cleanup() reset.
Unpinned(ss) == [ss EXCEPT !.inTx = FALSE, !.backendInTx = FALSE,
                           !.pinnedIndex = Null, !.pendingTid = Null]

\* Mutant: the tid is read again after it was consumed.
RowOf_LateTid(s, tid) == [s |-> s, unit |-> hist[s].unit,
                          tid |-> sess[s].pendingTid, tx |-> hist[s].open]

\* The effect of a data statement, sent for the tid it was dispatched with.
RowOf(s, tid) == [s |-> s, unit |-> hist[s].unit, tid |-> tid,
                  tx |-> hist[s].open]
---------------------------------------------------------------------------
(***************************************************************************)
(* The socket, and the start and end of a message.                         *)
(***************************************************************************)
\* A callback of session s can run: the pump is at an await or has no input.
Suspended(s) ==
    /\ up
    /\ pump[s].pc # "run"
    /\ pump[s].pc = "idle" => buf[s] = << >>

\* 'data': the client sends a message, possibly before the last was answered.
Receive(s) ==
    /\ Suspended(s)
    /\ socket[s] = "open"
    /\ hist[s].sent < MaxSent[s]
    /\ Len(buf[s]) < MaxBuffer
    /\ \E b \in Batches : buf' = [buf EXCEPT ![s] = Append(@, b)]
    /\ hist' = [hist EXCEPT ![s].sent = @ + 1]
    /\ UNCHANGED <<sess, pump, socket, conn, up, durable, acked, ended>>

\* pump() takes the next message, whether or not the socket is still there.
TakeMessage(s) ==
    /\ up
    /\ pump[s].pc = "idle"
    /\ buf[s] # << >>
    /\ pump' = [pump EXCEPT ![s] = [pc |-> "run", stmts |-> Head(buf[s]),
                                    tid |-> Null]]
    /\ buf' = [buf EXCEPT ![s] = Tail(@)]
    /\ UNCHANGED <<sess, socket, conn, up, ghosts>>

\* The message's statements are all done: ReadyForQuery(txStatus).
FinishMessage(s) ==
    /\ up
    /\ pump[s].pc = "run"
    /\ pump[s].stmts = << >>
    /\ Answered(s, [sess[s] EXCEPT !.txStatus = IF sess[s].inTx THEN "T" ELSE "I"], conn)
    /\ UNCHANGED <<buf, socket, up, ghosts>>
---------------------------------------------------------------------------
(***************************************************************************)
(* dispatch(): a statement up to its first await, or to its answer.        *)
(***************************************************************************)
\* The statement at the head of the loop is of kind op.
Dispatching(s, op) ==
    /\ up
    /\ pump[s].pc = "run"
    /\ pump[s].stmts # << >>
    /\ Stmt(s).op = op
    /\ UNCHANGED <<buf, socket, up, durable, acked>>

\* Mutant: an error inside a transaction drops the pin.
Throw_Unpins(s, ss, cn) ==
    /\ Answered(s, Unpinned(ss), cn)
    /\ hist' = [hist EXCEPT ![s].clean = FALSE]
    /\ UNCHANGED ended

\* Mutant: an error inside a transaction releases its client as it is.
Throw_ReleasesClient(s, ss, cn) ==
    /\ Answered(s, [Unpinned(ss) EXCEPT !.txClient = Null],
                IF ss.txClient # Null THEN Release(cn, ss.txClient) ELSE cn)
    /\ hist' = [hist EXCEPT ![s].clean = FALSE]
    /\ UNCHANGED ended

\* The statement threw: the client is answered with an error, and the rest of
\* the message is dropped.
Throw(s, ss, cn) ==
    /\ Answered(s, ss, cn)
    /\ hist' = [hist EXCEPT ![s].clean = FALSE]
    /\ UNCHANGED ended

SetTid(s) ==
    /\ Dispatching(s, "set")
    /\ LET tid == Stmt(s).tid IN
         \/ /\ tid = Null
            /\ Throw(s, sess[s], conn)
         \/ /\ tid # Null
            /\ sess[s].inTx /\ sess[s].pinnedIndex # Null
            /\ Await(s, sess[s], conn, "setLookup", tid)
            /\ UNCHANGED outcome
         \/ /\ tid # Null
            /\ ~(sess[s].inTx /\ sess[s].pinnedIndex # Null)
            /\ Done(s, [sess[s] EXCEPT !.pendingTid = tid], conn)
            /\ UNCHANGED outcome

ResetTid(s) ==
    /\ Dispatching(s, "reset")
    /\ \/ /\ sess[s].inTx
          /\ Throw(s, sess[s], conn)
       \/ /\ ~sess[s].inTx
          /\ Done(s, [sess[s] EXCEPT !.pendingTid = Null], conn)
          /\ UNCHANGED outcome

\* The ghost: a BEGIN outside a transaction starts the client's next unit.
Begin(s) ==
    /\ Dispatching(s, "begin")
    /\ LET ss == [sess[s] EXCEPT !.inTx = TRUE] IN
         \/ /\ ss.pendingTid # Null
            /\ Await(s, ss, conn, "pinLookup", ss.pendingTid)
         \/ /\ ss.pendingTid = Null
            /\ Done(s, [ss EXCEPT !.txStatus = "T"], conn)
    /\ hist' = IF hist[s].open THEN hist
               ELSE [hist EXCEPT ![s].unit = @ + 1, ![s].open = TRUE,
                                 ![s].clean = TRUE]
    /\ UNCHANGED ended

\* COMMIT and ROLLBACK answered: the client's unit of work is over.
EndTx(s, cn) ==
    /\ Done(s, [Unpinned(sess[s]) EXCEPT !.txClient = Null, !.txStatus = "I"], cn)
    /\ hist' = [hist EXCEPT ![s].open = FALSE]
    /\ ended' = IF Stmt(s).op = "commit" /\ hist[s].open
                THEN ended \cup {[s |-> s, unit |-> hist[s].unit,
                                  told |-> hist[s].clean /\ socket[s] = "open"]}
                ELSE ended

\* Mutant: the two tags are swapped.
EndTag_Swapped(s) == IF Stmt(s).op = "commit" THEN "ROLLBACK" ELSE "COMMIT"

EndTag(s) == IF Stmt(s).op = "commit" THEN "COMMIT" ELSE "ROLLBACK"

\* COMMIT and ROLLBACK go to the transaction's client, if it has one.
EndStatement(s) ==
    /\ Dispatching(s, "commit") \/ Dispatching(s, "rollback")
    /\ \/ /\ sess[s].txClient # Null
          /\ Await(s, sess[s],
                   Enqueue(conn, sess[s].txClient, "pump", s, EndTag(s), Null),
                   "endQuery", Null)
          /\ UNCHANGED outcome
       \/ /\ sess[s].txClient = Null
          /\ EndTx(s, conn)

\* runData(): without a tid the statement never leaves the proxy.
Data(s) ==
    /\ Dispatching(s, "data")
    /\ LET tid == sess[s].pendingTid IN
         \/ /\ tid = Null
            /\ Throw(s, sess[s], conn)
         \/ /\ tid # Null
            /\ Await(s, sess[s], conn,
                     IF sess[s].inTx THEN "pinLookup" ELSE "autoLookup", tid)
            /\ UNCHANGED outcome
---------------------------------------------------------------------------
(***************************************************************************)
(* The answers of the Lookup service.                                      *)
(***************************************************************************)
\* The await pc of session s is over.
Resuming(s, pc) ==
    /\ up
    /\ pump[s].pc = pc
    /\ UNCHANGED <<buf, socket, up, durable, acked>>

\* The rest of the statement once ensurePinned() has returned: BEGIN is
\* answered, a data statement is queued on the transaction's client.
Pinned(s, ss, cn) ==
    \/ /\ Stmt(s).op = "begin"
       /\ Done(s, [ss EXCEPT !.txStatus = "T"], cn)
       /\ UNCHANGED outcome
    \/ /\ Stmt(s).op = "data"
       /\ ss.txClient # Null
       /\ Await(s, ss, Enqueue(cn, ss.txClient, "pump", s, "DATA",
                               RowOf(s, pump[s].tid)), "txQuery", Null)
       /\ UNCHANGED outcome
    \/ /\ Stmt(s).op = "data"
       /\ ss.txClient = Null
       /\ Throw(s, ss, cn)

\* fetch() rejects, or the answer is no index of a shard: fail closed.
LookupFails(s) ==
    /\ "lookup" \in Faults
    /\ \E pc \in LookupAwait : Resuming(s, pc)
    /\ Throw(s, sess[s], conn)

SetLookupReply(s) ==
    /\ Resuming(s, "setLookup")
    /\ LET tid == pump[s].tid IN
         \/ /\ ShardOf[tid] # sess[s].pinnedIndex
            /\ Throw(s, sess[s], conn)
         \/ /\ ShardOf[tid] = sess[s].pinnedIndex
            /\ Done(s, [sess[s] EXCEPT !.pendingTid = tid], conn)
            /\ UNCHANGED outcome

PinLookupReply(s) ==
    /\ Resuming(s, "pinLookup")
    /\ LET hostIndex == ShardOf[pump[s].tid]
           pinned == sess[s].pinnedIndex
       IN \/ /\ pinned # Null /\ pinned # hostIndex
             /\ Throw(s, sess[s], conn)
          \/ /\ pinned = hostIndex
             /\ Pinned(s, sess[s], conn)
          \/ /\ pinned = Null
             /\ Await(s, [sess[s] EXCEPT !.pinnedIndex = hostIndex], conn,
                      "pinConnect", pump[s].tid)
             /\ UNCHANGED outcome

\* Mutant: an autocommit statement leaves its tid behind.
AutoLookupReply_KeepsTid(s) ==
    /\ Resuming(s, "autoLookup")
    /\ Await(s, sess[s], conn, "autoConnect", pump[s].tid)
    /\ UNCHANGED outcome

\* The autocommit statement's tid is spent once it is placed.
AutoLookupReply(s) ==
    /\ Resuming(s, "autoLookup")
    /\ Await(s, [sess[s] EXCEPT !.pendingTid = Null], conn, "autoConnect",
             pump[s].tid)
    /\ UNCHANGED outcome
---------------------------------------------------------------------------
(***************************************************************************)
(* The pools: a free client of the shard, or a new connection to it.       *)
(***************************************************************************)
ConnectFails(s) ==
    /\ "connect" \in Faults
    /\ \E pc \in ConnectAwait : Resuming(s, pc)
    /\ Throw(s, sess[s], conn)

\* Mutant: the pool of another shard is used.
Free_AnyShard(s, c) == conn[c].holder = Null

\* Mutant: a checked-out client is handed out again.
Free_Shared(s, c) == HostOf[c] = ShardOf[pump[s].tid]

Free(s, c) == conn[c].holder = Null /\ HostOf[c] = ShardOf[pump[s].tid]

\* pools.connect() in ensurePinned(): the transaction's client.
PinConnected(s) ==
    /\ Resuming(s, "pinConnect")
    /\ \E c \in Client :
         /\ Free(s, c)
         /\ LET ss == [sess[s] EXCEPT !.txClient = c]
                cn == [conn EXCEPT ![c].holder = s]
            IN \/ /\ ss.inTx /\ ~ss.backendInTx
                  /\ Await(s, ss, Enqueue(cn, c, "pump", s, "BEGIN", Null),
                           "pinBegin", pump[s].tid)
                  /\ UNCHANGED outcome
               \/ /\ ~(ss.inTx /\ ~ss.backendInTx)
                  /\ Pinned(s, ss, cn)

\* pools.query(): a client for one statement.
AutoConnected(s) ==
    /\ Resuming(s, "autoConnect")
    /\ \E c \in Client :
         /\ Free(s, c)
         /\ Await(s, sess[s],
                  Enqueue([conn EXCEPT ![c].holder = s], c, "pump", s, "DATA",
                          RowOf(s, pump[s].tid)), "autoQuery", Null)
    /\ UNCHANGED outcome
---------------------------------------------------------------------------
(***************************************************************************)
(* Postgres executes the request at the head of a client's queue, and the  *)
(* answer resumes the coroutine that awaits it.                            *)
(***************************************************************************)
\* Whether backend k may answer request r with success (ok) or an error.
MayAnswer(k, r, ok) ==
    LET aborted == k.tx = "failed" /\ r.op \in {"BEGIN", "DATA"}
    IN IF ok THEN ~aborted
       ELSE \/ aborted
            \/ "sql" \in Faults /\ r.op = "DATA"
            \/ "commit" \in Faults /\ r.op = "COMMIT" /\ k.tx = "open"

EndsTx(r) == r.op \in {"COMMIT", "ROLLBACK"}

TxAfter(k, r, ok) ==
    IF EndsTx(r) THEN "idle"
    ELSE IF r.op = "BEGIN" /\ ok THEN "open"
    ELSE IF ok \/ k.tx = "idle" THEN k.tx
    ELSE "failed"

\* The rows of k's open transaction; what an error aborts is lost.
WorkAfter(k, r, ok) ==
    IF ~ok \/ EndsTx(r) THEN {}
    ELSE IF r.op = "DATA" /\ k.tx = "open" THEN k.work \cup {r.row}
    ELSE k.work

RowsCommitted(k, r, ok) ==
    IF ~ok THEN {}
    ELSE IF r.op = "COMMIT" THEN k.work
    ELSE IF r.op = "DATA" /\ k.tx = "idle" THEN {r.row}
    ELSE {}

\* The proxy process ends: its memory, its sockets and its connections are gone,
\* and Postgres rolls back what was open on them.
Crash ==
    /\ up' = FALSE
    /\ sess' = [s \in Session |-> NewSession]
    /\ pump' = [s \in Session |-> IdlePump]
    /\ buf' = [s \in Session |-> << >>]
    /\ socket' = [s \in Session |-> "closed"]
    /\ conn' = [c \in Client |-> IdleConn]

\* The pump resumes after a query, with the clients as in cn.
ResumePump(s, c, r, ok, cn) ==
    /\ UNCHANGED <<buf, socket, up>>
    /\ acked' = IF r.op = "DATA" /\ ok THEN acked \cup {r.row} ELSE acked
    /\ \/ /\ pump[s].pc = "pinBegin" /\ ok
          /\ Pinned(s, [sess[s] EXCEPT !.backendInTx = TRUE], cn)
       \/ /\ pump[s].pc = "txQuery" /\ ok
          /\ Done(s, sess[s], cn)
          /\ UNCHANGED outcome
       \/ /\ pump[s].pc = "autoQuery"
          /\ IF ok THEN Done(s, sess[s], Release(cn, c)) /\ UNCHANGED outcome
                   ELSE Throw(s, sess[s], Release(cn, c))
       \/ /\ pump[s].pc = "endQuery" /\ ok /\ sess[s].txClient # Null
          /\ EndTx(s, GiveBack(s, cn))
       \/ /\ pump[s].pc = "endQuery" /\ ok /\ sess[s].txClient = Null
          /\ Throw(s, sess[s], cn)
       \/ /\ pump[s].pc \in {"pinBegin", "txQuery", "endQuery"} /\ ~ok
          /\ Throw(s, sess[s], cn)

\* cleanup() resumes after its ROLLBACK, whose error it ignores.  Without a
\* txClient, release() is called on null in a promise nobody awaits, and node
\* ends the process.
ResumeCleanup(s, cn) ==
    /\ UNCHANGED <<hist, acked, ended>>
    /\ IF sess[s].txClient = Null
       THEN Crash
       ELSE /\ sess' = [sess EXCEPT ![s] = [Unpinned(@) EXCEPT !.txClient = Null]]
            /\ conn' = GiveBack(s, cn)
            /\ UNCHANGED <<pump, buf, socket, up>>

Serve(c) ==
    /\ up
    /\ conn[c].queue # << >>
    /\ LET r == Head(conn[c].queue)
           k == conn[c]
       IN /\ pump[r.s].pc # "run"
          /\ \E ok \in BOOLEAN :
               /\ MayAnswer(k, r, ok)
               /\ durable' = [durable EXCEPT ![HostOf[c]] =
                                @ \cup RowsCommitted(k, r, ok)]
               /\ LET cn == [conn EXCEPT ![c] =
                               [holder |-> k.holder, queue |-> Tail(k.queue),
                                tx |-> TxAfter(k, r, ok),
                                work |-> WorkAfter(k, r, ok)]]
                  IN \/ r.by = "pump" /\ ResumePump(r.s, c, r, ok, cn)
                     \/ r.by = "cleanup" /\ ResumeCleanup(r.s, cn)
---------------------------------------------------------------------------
(***************************************************************************)
(* Disconnects and lost backends.                                          *)
(***************************************************************************)
\* cleanup(), up to its first await or its end.
Cleanup(s) ==
    /\ IF sess[s].txClient # Null
       THEN /\ conn' = Enqueue(conn, sess[s].txClient, "cleanup", s, "ROLLBACK", Null)
            /\ UNCHANGED sess
       ELSE /\ sess' = [sess EXCEPT ![s] = Unpinned(@)]
            /\ UNCHANGED conn
    /\ UNCHANGED <<pump, buf, up, ghosts>>

SocketError(s) ==
    /\ "socket" \in Faults
    /\ Suspended(s)
    /\ socket[s] = "open"
    /\ socket' = [socket EXCEPT ![s] = "errored"]
    /\ Cleanup(s)

\* 'close' comes once, also after an 'error'.
SocketClose(s) ==
    /\ "socket" \in Faults
    /\ Suspended(s)
    /\ socket[s] # "closed"
    /\ socket' = [socket EXCEPT ![s] = "closed"]
    /\ Cleanup(s)

\* Client c runs one statement of pools.query().
Autocommits(c) ==
    \E r \in {conn[c].queue[i] : i \in 1..Len(conn[c].queue)} :
        r.op = "DATA" /\ pump[r.s].pc = "autoQuery"

\* A backend connection is lost.  pools.query() turns that into an error of
\* its statement, which may have been executed or not; nothing listens for the
\* 'error' event of an idle or a checked-out client, and node ends the process.
BackendLost(c) ==
    /\ "backend" \in Faults
    /\ up
    /\ \/ /\ Autocommits(c)
          /\ Len(conn[c].queue) = 1
          /\ LET r == Head(conn[c].queue) IN
               /\ \E rows \in {{}, {r.row}} :
                    durable' = [durable EXCEPT ![HostOf[c]] = @ \cup rows]
               /\ Throw(r.s, sess[r.s], [conn EXCEPT ![c] = IdleConn])
          /\ UNCHANGED <<up, buf, socket>>
       \/ /\ ~Autocommits(c)
          /\ Crash
          /\ UNCHANGED <<hist, durable, ended>>
    /\ UNCHANGED acked
---------------------------------------------------------------------------
Step(s) ==
    \/ TakeMessage(s) \/ FinishMessage(s)
    \/ SetTid(s) \/ ResetTid(s) \/ Begin(s) \/ EndStatement(s) \/ Data(s)
    \/ LookupFails(s) \/ SetLookupReply(s) \/ PinLookupReply(s)
    \/ AutoLookupReply(s)
    \/ PinConnected(s) \/ AutoConnected(s)

Next ==
    \/ \E s \in Session :
         Receive(s) \/ Step(s) \/ ConnectFails(s) \/ SocketError(s) \/ SocketClose(s)
    \/ \E c \in Client : Serve(c) \/ BackendLost(c)

Spec == Init /\ [][Next]_vars
---------------------------------------------------------------------------
(***************************************************************************)
(* Correctness.                                                            *)
(***************************************************************************)
\* Rows on shard h, committed or in an open transaction.
RowsAt(h) == durable[h] \cup UNION {conn[c].work : c \in {d \in Client : HostOf[d] = h}}

SameTx(r, q) == r.tx /\ q.tx /\ r.s = q.s /\ r.unit = q.unit

\* A row is only ever on the shard its tid is placed on.
RoutedByTid == \A h \in Shard : \A r \in RowsAt(h) : ShardOf[r.tid] = h

\* The rows of one transaction are all on one shard.
TxOnOneShard ==
    \A h, g \in Shard : \A r \in RowsAt(h), q \in RowsAt(g) :
        SameTx(r, q) => h = g

\* A backend's open transaction holds rows of one transaction of the session
\* that has the client checked out.
TxOwnsClient ==
    \A c \in Client : \A r, q \in conn[c].work :
        SameTx(r, q) /\ conn[c].holder = r.s /\ sess[r.s].txClient = c

\* A client that is back in the pool has no transaction and nothing queued.
ReturnedClean ==
    \A c \in Client : conn[c].holder = Null =>
        conn[c].tx = "idle" /\ conn[c].queue = << >>

\* A checked-out client is one its session will still release.
NoOrphanClient ==
    \A c \in Client : \A s \in Session : conn[c].holder = s =>
        \/ sess[s].txClient = c
        \/ pump[s].pc = "autoQuery" /\ conn[c].queue # << >>

\* No row of a transaction is durable before its COMMIT was answered.
CommittedOnly ==
    \A h \in Shard : \A r \in durable[h] : r.tx =>
        \E e \in ended : e.s = r.s /\ e.unit = r.unit

\* A client that was told COMMIT, in a transaction without an error, finds every
\* statement of it that was answered durable.
CommitKeepsAll ==
    \A e \in ended : e.told =>
        \A r \in acked : r.tx /\ r.s = e.s /\ r.unit = e.unit =>
            \E h \in Shard : r \in durable[h]

Connected(s) == socket[s] = "open"

\* Whatever the disconnects of others do to the pools, the rows of a client that is
\* still connected are on the shard of their tid, those of one transaction together,
\* and, unless a COMMIT itself may fail, none is durable before its COMMIT was answered.
\* (An answered autocommit row may be lost: it may run in a transaction left behind.)
ConnectedRowsRight ==
    \A s \in Session : Connected(s) => \A h \in Shard :
        /\ \A r \in RowsAt(h) : r.s = s =>
             /\ ShardOf[r.tid] = h
             /\ \A g \in Shard : \A q \in RowsAt(g) : SameTx(r, q) => g = h
        /\ "commit" \notin Faults =>
             \A r \in durable[h] : r.s = s /\ r.tx =>
                \E e \in ended : e.s = s /\ e.unit = r.unit

\* A tid is worth one autocommit statement that was placed, whatever becomes of it, or
\* one transaction; a statement whose Lookup failed was not placed and leaves its tid to
\* the next one.  (INTEGRATION.md:63 says that the next statement consumes the tid, and
\* sp-first-param-tid/spec.md:54 that all statements of one Query may share it.)
TidSpent ==
    [][\A s \in Session :
         /\ \/ pump[s].pc \in {"autoConnect", "autoQuery"} /\ pump'[s].pc # pump[s].pc
            \/ hist[s].open /\ ~hist'[s].open
            => sess'[s].pendingTid = Null
         /\ up' /\ pump[s].pc = "autoLookup" /\ pump'[s].pc # "autoLookup"
            => sess'[s].pendingTid = IF pump'[s].pc = "autoConnect" THEN Null
                                     ELSE sess[s].pendingTid]_vars

\* A transaction keeps its shard until it has ended, or its client is gone.
PinHolds ==
    [][\A s \in Session :
         Connected(s)' /\ sess[s].pinnedIndex # Null /\ hist[s].open /\ hist'[s].open
         => sess'[s].pinnedIndex = sess[s].pinnedIndex]_vars

\* The promise's view: the rows of a session in any backend's transaction.
OpenRows(s) == UNION {{r \in conn[c].work : r.s = s} : c \in Client}
---------------------------------------------------------------------------
(***************************************************************************)
(* Liveness.  The event loop runs every callback, the Lookup service       *)
(* answers or fails, a backend executes what is queued on it, and          *)
(* node-postgres serves the waiters of a pool first come, first served,    *)
(* which the strong fairness of a connect stands for.  A connect need not  *)
(* fail, however long it waits: the pools have no timeout.  Nothing        *)
(* obliges a client to send a message or to end its transaction.           *)
(***************************************************************************)
Fairness ==
    /\ \A s \in Session :
         /\ WF_vars(Step(s))
         /\ SF_vars(PinConnected(s))
         /\ SF_vars(AutoConnected(s))
    /\ \A c \in Client : WF_vars(Serve(c))

FairSpec == Spec /\ Fairness

Busy(s) == pump[s].pc # "idle" \/ buf[s] # << >>

\* Session s waits for a client that other sessions keep in transactions whose
\* next statement has not come.
WaitsForOthers(s) ==
    /\ pump[s].pc \in ConnectAwait
    /\ \A c \in Client : HostOf[c] = ShardOf[pump[s].tid] =>
         \E q \in Session \ {s} : sess[q].txClient = c /\ ~Busy(q)

\* Every message is answered, unless its statement waits for a pool that other
\* clients' open transactions have exhausted.
MessageAnswered ==
    \A s \in Session : Busy(s) ~> (~Busy(s) \/ WaitsForOthers(s))
===========================================================================
