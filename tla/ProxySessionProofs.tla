------------------------ MODULE ProxySessionProofs ------------------------
(***************************************************************************)
(* Theorems about ProxySession, for every set of sessions, tids, shards    *)
(* and pooled clients, every set of messages and every bound.              *)
(***************************************************************************)
EXTENDS ProxySession, SequenceTheorems, TLAPS

Conns == [Client -> Connection]

\* A suspended statement is still at the head of its message, and the awaits
\* that place a statement know its tid.
PumpInv ==
    \A s \in Session :
        /\ pump[s].pc \notin {"idle", "run"} => pump[s].stmts # << >>
        /\ pump[s].pc \in LookupAwait \cup ConnectAwait \cup {"pinBegin"}
             => pump[s].tid # Null

\* The inductive strengthening of TypeOK.
TypeInv == TypeOK /\ PumpInv

\* What the end of a step establishes: the types of the state that Done,
\* Answered and Await assign.
Core ==
    /\ sess \in [Session -> SessionState]
    /\ pump \in [Session -> Pump]
    /\ conn \in Conns
    /\ PumpInv

---------------------------------------------------------------------------
(***************************************************************************)
(* What the model's operators return.                                      *)
(***************************************************************************)
LEMMA StmtType ==
    ASSUME TypeOK, NEW s \in Session, pump[s].stmts # << >>
    PROVE  /\ Stmt(s) \in Statement
           /\ Tail(pump[s].stmts) \in Seq(Statement)
<1>1. pump[s].stmts \in Seq(Statement)
    BY DEF TypeOK, Pump
<1> QED
    BY <1>1, HeadTailProperties DEF Stmt

LEMMA EnqueueType ==
    ASSUME NEW cn \in Conns, NEW c \in Client, NEW by, NEW s, NEW op, NEW row,
           [by |-> by, s |-> s, op |-> op, row |-> row] \in Request
    PROVE  Enqueue(cn, c, by, s, op, row) \in Conns
<1> DEFINE r == [by |-> by, s |-> s, op |-> op, row |-> row]
<1>1. Append(cn[c].queue, r) \in Seq(Request)
    <2>1. cn[c].queue \in Seq(Request)
        BY DEF Conns, Connection
    <2> QED
        BY <2>1, AppendProperties
<1> QED
    BY <1>1 DEF Enqueue, Conns, Connection

LEMMA ReleaseType ==
    ASSUME NEW cn \in Conns, NEW c \in Client
    PROVE  Release(cn, c) \in Conns
BY DEF Release, Conns, Connection

LEMMA UnpinnedType ==
    ASSUME NEW ss \in SessionState
    PROVE  Unpinned(ss) \in SessionState
BY DEF Unpinned, SessionState

LEMMA NoClientType ==
    ASSUME NEW ss \in SessionState
    PROVE  /\ [ss EXCEPT !.txClient = Null] \in SessionState
           /\ [ss EXCEPT !.txClient = Null, !.txStatus = "I"] \in SessionState
BY DEF SessionState

LEMMA RowOfType ==
    ASSUME TypeOK, NEW s \in Session, NEW tid \in Tid
    PROVE  RowOf(s, tid) \in Row
BY DEF RowOf, TypeOK, Row, History

---------------------------------------------------------------------------
(***************************************************************************)
(* The ends of a step keep the types of what they assign.                  *)
(***************************************************************************)
LEMMA DoneType ==
    ASSUME TypeInv, NEW s \in Session, NEW ss \in SessionState, NEW cn \in Conns,
           pump[s].stmts # << >>, Done(s, ss, cn)
    PROVE  Core'
<1>1. Tail(pump[s].stmts) \in Seq(Statement)
    BY StmtType DEF TypeInv
<1>2. pump' \in [Session -> Pump]
    BY <1>1 DEF TypeInv, TypeOK, Done, Pump, PumpState
<1>3. PumpInv'
    BY DEF TypeInv, TypeOK, PumpInv, Done, Pump, LookupAwait, ConnectAwait
<1> QED
    BY <1>2, <1>3 DEF Done, Core, TypeInv, TypeOK

LEMMA AnsweredType ==
    ASSUME TypeInv, NEW s \in Session, NEW ss \in SessionState, NEW cn \in Conns,
           Answered(s, ss, cn)
    PROVE  Core'
<1>1. IdlePump \in Pump
    BY EmptySeq DEF IdlePump, Pump, PumpState
<1>2. pump' \in [Session -> Pump]
    BY <1>1 DEF TypeInv, TypeOK, Answered
<1>3. PumpInv'
    BY DEF TypeInv, TypeOK, PumpInv, Answered, IdlePump, Pump, LookupAwait,
           ConnectAwait
<1> QED
    BY <1>2, <1>3 DEF Answered, Core, TypeInv, TypeOK

LEMMA AwaitType ==
    ASSUME TypeInv, NEW s \in Session, NEW ss \in SessionState, NEW cn \in Conns,
           NEW pc \in PumpState, NEW tid \in Tid \cup {Null},
           pump[s].stmts # << >>,
           pc \in LookupAwait \cup ConnectAwait \cup {"pinBegin"} => tid # Null,
           Await(s, ss, cn, pc, tid)
    PROVE  Core'
<1>1. pump' \in [Session -> Pump]
    BY DEF TypeInv, TypeOK, Await, Pump
<1>2. PumpInv'
    BY DEF TypeInv, TypeOK, PumpInv, Await, Pump
<1> QED
    BY <1>1, <1>2 DEF Await, Core, TypeInv, TypeOK

---------------------------------------------------------------------------
LEMMA ThrowType ==
    ASSUME TypeInv, NEW s \in Session, NEW ss \in SessionState, NEW cn \in Conns,
           Throw(s, ss, cn)
    PROVE  Core' /\ hist' \in [Session -> History] /\ ended' = ended
<1>1. Core'
    BY AnsweredType DEF Throw
<1>2. hist' \in [Session -> History]
    BY DEF Throw, TypeInv, TypeOK, History
<1> QED
    BY <1>1, <1>2 DEF Throw

LEMMA PinnedType ==
    ASSUME TypeInv, NEW s \in Session, NEW ss \in SessionState, NEW cn \in Conns,
           pump[s].stmts # << >>, pump[s].tid # Null, Pinned(s, ss, cn)
    PROVE  Core' /\ hist' \in [Session -> History] /\ ended' = ended
<1>1. CASE Stmt(s).op = "begin" /\ Done(s, [ss EXCEPT !.txStatus = "T"], cn)
           /\ UNCHANGED outcome
    <2>1. [ss EXCEPT !.txStatus = "T"] \in SessionState
        BY DEF SessionState
    <2> QED
        BY <1>1, <2>1, DoneType DEF outcome, TypeInv, TypeOK
<1>2. CASE /\ ss.txClient # Null
           /\ Await(s, ss, Enqueue(cn, ss.txClient, "pump", s, "DATA",
                                   RowOf(s, pump[s].tid)), "txQuery", Null)
           /\ UNCHANGED outcome
    <2>1. pump[s].tid \in Tid
        BY DEF TypeInv, TypeOK, Pump
    <2>2. RowOf(s, pump[s].tid) \in Row
        BY <2>1, RowOfType DEF TypeInv
    <2>3. ss.txClient \in Client
        BY <1>2 DEF SessionState
    <2>4. Enqueue(cn, ss.txClient, "pump", s, "DATA", RowOf(s, pump[s].tid))
              \in Conns
        BY <2>2, <2>3, EnqueueType DEF Request
    <2>5. Core'
        BY <1>2, <2>4, AwaitType DEF PumpState, QueryAwait, LookupAwait, ConnectAwait
    <2> QED
        BY <1>2, <2>5 DEF outcome, TypeInv, TypeOK
<1>3. CASE Throw(s, ss, cn)
    BY <1>3, ThrowType
<1> QED
    BY <1>1, <1>2, <1>3 DEF Pinned

LEMMA EndTxType ==
    ASSUME TypeInv, NEW s \in Session, NEW cn \in Conns,
           pump[s].stmts # << >>, EndTx(s, cn)
    PROVE  /\ Core'
           /\ hist' \in [Session -> History]
           /\ ended' \in SUBSET [s : Session, unit : Nat, told : BOOLEAN]
<1>1. [Unpinned(sess[s]) EXCEPT !.txClient = Null, !.txStatus = "I"]
          \in SessionState
    <2>1. Unpinned(sess[s]) \in SessionState
        BY UnpinnedType DEF TypeInv, TypeOK
    <2> QED
        BY <2>1, NoClientType
<1>2. Core'
    BY <1>1, DoneType DEF EndTx
<1>3. hist' \in [Session -> History]
    <2>1. hist' = [hist EXCEPT ![s].open = FALSE]
        BY DEF EndTx
    <2> QED
        BY <2>1 DEF TypeInv, TypeOK, History
<1>4. [s |-> s, unit |-> hist[s].unit,
       told |-> hist[s].clean /\ socket[s] = "open"]
          \in [s : Session, unit : Nat, told : BOOLEAN]
    BY DEF TypeInv, TypeOK, History
<1>5. ended' \in SUBSET [s : Session, unit : Nat, told : BOOLEAN]
    BY <1>4 DEF EndTx, TypeInv, TypeOK
<1> QED
    BY <1>2, <1>3, <1>5

\* What a backend does with a request has the types of what Serve assigns.
LEMMA ServedType ==
    ASSUME TypeOK, NEW c \in Client, conn[c].queue # << >>, NEW ok \in BOOLEAN
    PROVE  LET k == conn[c]
               r == Head(k.queue)
           IN /\ r \in Request
              /\ RowsCommitted(k, r, ok) \in SUBSET Row
              /\ [conn EXCEPT ![c] = [holder |-> k.holder, queue |-> Tail(k.queue),
                                      tx |-> TxAfter(k, r, ok),
                                      work |-> WorkAfter(k, r, ok)]] \in Conns
<1> DEFINE k == conn[c]
           r == Head(k.queue)
<1>1. k \in Connection
    BY DEF TypeOK
<1>2. r \in Request /\ Tail(k.queue) \in Seq(Request)
    BY <1>1, HeadTailProperties DEF Connection
<1>3. r.op = "DATA" => r.row \in Row
    BY <1>2 DEF Request
<1>4. TxAfter(k, r, ok) \in {"idle", "open", "failed"}
    BY <1>1 DEF TxAfter, Connection
<1>5. WorkAfter(k, r, ok) \in SUBSET Row
    BY <1>1, <1>3 DEF WorkAfter, Connection
<1>6. RowsCommitted(k, r, ok) \in SUBSET Row
    BY <1>1, <1>3 DEF RowsCommitted, Connection
<1>7. [holder |-> k.holder, queue |-> Tail(k.queue), tx |-> TxAfter(k, r, ok),
       work |-> WorkAfter(k, r, ok)] \in Connection
    BY <1>1, <1>2, <1>4, <1>5 DEF Connection
<1> QED
    BY <1>2, <1>6, <1>7 DEF TypeOK, Conns
---------------------------------------------------------------------------
(***************************************************************************)
(* Every action keeps TypeInv.                                             *)
(***************************************************************************)
\* The state that no step of a statement assigns.
Rest ==
    /\ buf \in [Session -> Seq(Batches)]
    /\ socket \in [Session -> {"open", "errored", "closed"}]
    /\ up \in BOOLEAN
    /\ durable \in [Shard -> SUBSET Row]
    /\ acked \in SUBSET Row

Ended ==
    /\ hist \in [Session -> History]
    /\ ended \in SUBSET [s : Session, unit : Nat, told : BOOLEAN]

LEMMA Parts ==
    ASSUME Core', Rest', Ended'
    PROVE  TypeInv'
BY DEF TypeInv, TypeOK, Core, Rest, Ended, Conns

LEMMA ThrowParts ==
    ASSUME TypeInv, NEW s \in Session, NEW ss \in SessionState, NEW cn \in Conns,
           Throw(s, ss, cn)
    PROVE  Core' /\ Ended'
BY ThrowType DEF Ended, TypeInv, TypeOK

LEMMA PinnedParts ==
    ASSUME TypeInv, NEW s \in Session, NEW ss \in SessionState, NEW cn \in Conns,
           pump[s].stmts # << >>, pump[s].tid # Null, Pinned(s, ss, cn)
    PROVE  Core' /\ Ended'
BY PinnedType DEF Ended, TypeInv, TypeOK

\* The handlers of dispatch() and of the awaits leave these as they are.
LEMMA RestKept ==
    ASSUME TypeInv, UNCHANGED <<buf, socket, up, durable, acked>>
    PROVE  Rest'
BY DEF TypeInv, TypeOK, Rest

LEMMA EndedKept ==
    ASSUME TypeInv, UNCHANGED outcome
    PROVE  Ended'
BY DEF TypeInv, TypeOK, Ended, outcome

LEMMA DispatchType ==
    ASSUME TypeInv, NEW s \in Session, NEW op \in Op, Dispatching(s, op)
    PROVE  /\ Rest'
           /\ sess[s] \in SessionState
           /\ conn \in Conns
           /\ pump[s].stmts # << >>
           /\ Stmt(s) \in Statement
BY RestKept, StmtType DEF TypeInv, TypeOK, Dispatching, Conns

LEMMA ResumeTypes ==
    ASSUME TypeInv, NEW s \in Session, NEW pc \in PumpState \ {"idle", "run"},
           Resuming(s, pc)
    PROVE  /\ Rest'
           /\ sess[s] \in SessionState
           /\ conn \in Conns
           /\ pump[s].stmts # << >>
           /\ pc \in LookupAwait \cup ConnectAwait => pump[s].tid \in Tid
BY RestKept DEF TypeInv, TypeOK, PumpInv, Resuming, Conns, Pump

LEMMA SetTidType ==
    ASSUME TypeInv, NEW s \in Session, SetTid(s)
    PROVE  TypeInv'
<1> DEFINE tid == Stmt(s).tid
<1>1. Dispatching(s, "set")
    BY DEF SetTid
<1>2. /\ Rest' /\ sess[s] \in SessionState /\ conn \in Conns
      /\ pump[s].stmts # << >> /\ tid \in Tid \cup {Null}
    BY <1>1, DispatchType DEF Op, Statement
<1>3. CASE Throw(s, sess[s], conn)
    BY <1>2, <1>3, ThrowParts, Parts
<1>4. CASE tid # Null /\ Await(s, sess[s], conn, "setLookup", tid)
           /\ UNCHANGED outcome
    <2>1. Core'
        BY <1>2, <1>4, AwaitType DEF PumpState, LookupAwait
    <2> QED
        BY <1>2, <1>4, <2>1, EndedKept, Parts
<1>5. CASE Done(s, [sess[s] EXCEPT !.pendingTid = tid], conn) /\ UNCHANGED outcome
    <2>1. [sess[s] EXCEPT !.pendingTid = tid] \in SessionState
        BY <1>2 DEF SessionState
    <2>2. Core'
        BY <1>2, <1>5, <2>1, DoneType
    <2> QED
        BY <1>2, <1>5, <2>2, EndedKept, Parts
<1> QED
    BY <1>3, <1>4, <1>5 DEF SetTid

LEMMA ResetTidType ==
    ASSUME TypeInv, NEW s \in Session, ResetTid(s)
    PROVE  TypeInv'
<1>1. Dispatching(s, "reset")
    BY DEF ResetTid
<1>2. Rest' /\ sess[s] \in SessionState /\ conn \in Conns /\ pump[s].stmts # << >>
    BY <1>1, DispatchType DEF Op
<1>3. CASE Throw(s, sess[s], conn)
    BY <1>2, <1>3, ThrowParts, Parts
<1>4. CASE Done(s, [sess[s] EXCEPT !.pendingTid = Null], conn) /\ UNCHANGED outcome
    <2>1. [sess[s] EXCEPT !.pendingTid = Null] \in SessionState
        BY <1>2 DEF SessionState
    <2>2. Core'
        BY <1>2, <1>4, <2>1, DoneType
    <2> QED
        BY <1>2, <1>4, <2>2, EndedKept, Parts
<1> QED
    BY <1>3, <1>4 DEF ResetTid

LEMMA BeginType ==
    ASSUME TypeInv, NEW s \in Session, Begin(s)
    PROVE  TypeInv'
<1> DEFINE ss == [sess[s] EXCEPT !.inTx = TRUE]
<1>1. Dispatching(s, "begin")
    BY DEF Begin
<1>2. Rest' /\ sess[s] \in SessionState /\ conn \in Conns /\ pump[s].stmts # << >>
    BY <1>1, DispatchType DEF Op
<1>3. ss \in SessionState /\ [ss EXCEPT !.txStatus = "T"] \in SessionState
    BY <1>2 DEF SessionState
<1>4. Ended'
    <2>1. /\ hist \in [Session -> History]
          /\ ended' = ended
          /\ hist' = IF hist[s].open THEN hist
                     ELSE [hist EXCEPT ![s].unit = @ + 1, ![s].open = TRUE,
                                       ![s].clean = TRUE]
        BY DEF Begin, TypeInv, TypeOK
    <2>2. hist' \in [Session -> History]
        BY <2>1 DEF History
    <2> QED
        BY <2>1, <2>2 DEF Ended, TypeInv, TypeOK
<1>5. CASE ss.pendingTid # Null /\ Await(s, ss, conn, "pinLookup", ss.pendingTid)
    <2>1. ss.pendingTid \in Tid \cup {Null}
        BY <1>3 DEF SessionState
    <2>2. Core'
        BY <1>2, <1>3, <1>5, <2>1, AwaitType DEF PumpState, LookupAwait
    <2> QED
        BY <1>2, <1>4, <2>2, Parts
<1>6. CASE Done(s, [ss EXCEPT !.txStatus = "T"], conn)
    <2>1. Core'
        BY <1>2, <1>3, <1>6, DoneType
    <2> QED
        BY <1>2, <1>4, <2>1, Parts
<1> QED
    BY <1>5, <1>6 DEF Begin

LEMMA EndTxParts ==
    ASSUME TypeInv, NEW s \in Session, NEW cn \in Conns,
           pump[s].stmts # << >>, EndTx(s, cn)
    PROVE  Core' /\ Ended'
BY EndTxType DEF Ended

LEMMA EndStatementType ==
    ASSUME TypeInv, NEW s \in Session, EndStatement(s)
    PROVE  TypeInv'
<1>1. Rest' /\ sess[s] \in SessionState /\ conn \in Conns /\ pump[s].stmts # << >>
    BY DispatchType DEF EndStatement, Op
<1>2. CASE /\ sess[s].txClient # Null
           /\ Await(s, sess[s],
                    Enqueue(conn, sess[s].txClient, "pump", s, EndTag(s), Null),
                    "endQuery", Null)
           /\ UNCHANGED outcome
    <2>1. sess[s].txClient \in Client
        BY <1>1, <1>2 DEF SessionState
    <2>2. EndTag(s) \in {"COMMIT", "ROLLBACK"}
        BY DEF EndTag
    <2>3. Enqueue(conn, sess[s].txClient, "pump", s, EndTag(s), Null) \in Conns
        BY <1>1, <2>1, <2>2, EnqueueType DEF Request
    <2>4. Core'
        BY <1>1, <1>2, <2>3, AwaitType DEF PumpState, LookupAwait, ConnectAwait,
                                           QueryAwait
    <2> QED
        BY <1>1, <1>2, <2>4, EndedKept, Parts
<1>3. CASE EndTx(s, conn)
    BY <1>1, <1>3, EndTxParts, Parts
<1> QED
    BY <1>2, <1>3 DEF EndStatement

LEMMA DataType ==
    ASSUME TypeInv, NEW s \in Session, Data(s)
    PROVE  TypeInv'
<1> DEFINE tid == sess[s].pendingTid
           pc == IF sess[s].inTx THEN "pinLookup" ELSE "autoLookup"
<1>1. Dispatching(s, "data")
    BY DEF Data
<1>2. /\ Rest' /\ sess[s] \in SessionState /\ conn \in Conns
      /\ pump[s].stmts # << >> /\ tid \in Tid \cup {Null}
    BY <1>1, DispatchType DEF Op, SessionState
<1>3. CASE Throw(s, sess[s], conn)
    BY <1>2, <1>3, ThrowParts, Parts
<1>4. CASE tid # Null /\ Await(s, sess[s], conn, pc, tid) /\ UNCHANGED outcome
    <2>1. pc \in PumpState
        BY DEF PumpState, LookupAwait
    <2>2. Core'
        BY <1>2, <1>4, <2>1, AwaitType
    <2> QED
        BY <1>2, <1>4, <2>2, EndedKept, Parts
<1> QED
    BY <1>3, <1>4 DEF Data

LEMMA LookupFailsType ==
    ASSUME TypeInv, NEW s \in Session, LookupFails(s)
    PROVE  TypeInv'
<1>1. PICK pc \in LookupAwait : Resuming(s, pc)
    BY DEF LookupFails
<1>2. pc \in PumpState \ {"idle", "run"}
    BY DEF PumpState, LookupAwait
<1>3. Rest' /\ sess[s] \in SessionState /\ conn \in Conns
    BY <1>1, <1>2, ResumeTypes
<1> QED
    BY <1>3, ThrowParts, Parts DEF LookupFails

LEMMA ConnectFailsType ==
    ASSUME TypeInv, NEW s \in Session, ConnectFails(s)
    PROVE  TypeInv'
<1>1. PICK pc \in ConnectAwait : Resuming(s, pc)
    BY DEF ConnectFails
<1>2. pc \in PumpState \ {"idle", "run"}
    BY DEF PumpState, ConnectAwait
<1>3. Rest' /\ sess[s] \in SessionState /\ conn \in Conns
    BY <1>1, <1>2, ResumeTypes
<1> QED
    BY <1>3, ThrowParts, Parts DEF ConnectFails

LEMMA SetLookupReplyType ==
    ASSUME TypeInv, NEW s \in Session, SetLookupReply(s)
    PROVE  TypeInv'
<1> DEFINE tid == pump[s].tid
<1>1. Resuming(s, "setLookup")
    BY DEF SetLookupReply
<1>2. /\ Rest' /\ sess[s] \in SessionState /\ conn \in Conns
      /\ pump[s].stmts # << >> /\ tid \in Tid
    BY <1>1, ResumeTypes DEF PumpState, LookupAwait
<1>3. CASE Throw(s, sess[s], conn)
    BY <1>2, <1>3, ThrowParts, Parts
<1>4. CASE Done(s, [sess[s] EXCEPT !.pendingTid = tid], conn) /\ UNCHANGED outcome
    <2>1. [sess[s] EXCEPT !.pendingTid = tid] \in SessionState
        BY <1>2 DEF SessionState
    <2>2. Core'
        BY <1>2, <1>4, <2>1, DoneType
    <2> QED
        BY <1>2, <1>4, <2>2, EndedKept, Parts
<1> QED
    BY <1>3, <1>4 DEF SetLookupReply

LEMMA PinLookupReplyType ==
    ASSUME TypeInv, NEW s \in Session, PinLookupReply(s)
    PROVE  TypeInv'
<1> DEFINE tid == pump[s].tid
           ss == [sess[s] EXCEPT !.pinnedIndex = ShardOf[tid]]
<1>1. Resuming(s, "pinLookup")
    BY DEF PinLookupReply
<1>2. /\ Rest' /\ sess[s] \in SessionState /\ conn \in Conns
      /\ pump[s].stmts # << >> /\ tid \in Tid
    BY <1>1, ResumeTypes DEF PumpState, LookupAwait
<1>3. tid # Null
    BY <1>2, ConstantsAssumption
<1>4. CASE Throw(s, sess[s], conn)
    BY <1>2, <1>4, ThrowParts, Parts
<1>5. CASE Pinned(s, sess[s], conn)
    BY <1>2, <1>3, <1>5, PinnedParts, Parts
<1>6. CASE Await(s, ss, conn, "pinConnect", tid) /\ UNCHANGED outcome
    <2>1. ss \in SessionState
        BY <1>2, ConstantsAssumption DEF SessionState
    <2>2. Core'
        BY <1>2, <1>3, <1>6, <2>1, AwaitType DEF PumpState, ConnectAwait
    <2> QED
        BY <1>2, <1>6, <2>2, EndedKept, Parts
<1> QED
    BY <1>4, <1>5, <1>6 DEF PinLookupReply

LEMMA AutoLookupReplyType ==
    ASSUME TypeInv, NEW s \in Session, AutoLookupReply(s)
    PROVE  TypeInv'
<1> DEFINE ss == [sess[s] EXCEPT !.pendingTid = Null]
<1>1. Resuming(s, "autoLookup")
    BY DEF AutoLookupReply
<1>2. /\ Rest' /\ sess[s] \in SessionState /\ conn \in Conns
      /\ pump[s].stmts # << >> /\ pump[s].tid \in Tid
    BY <1>1, ResumeTypes DEF PumpState, LookupAwait
<1>3. pump[s].tid # Null /\ ss \in SessionState
    BY <1>2, ConstantsAssumption DEF SessionState
<1>4. Core'
    BY <1>2, <1>3, AwaitType DEF AutoLookupReply, PumpState, ConnectAwait
<1> QED
    BY <1>2, <1>4, EndedKept, Parts DEF AutoLookupReply

LEMMA HoldType ==
    ASSUME NEW cn \in Conns, NEW c \in Client, NEW s \in Session
    PROVE  [cn EXCEPT ![c].holder = s] \in Conns
BY DEF Conns, Connection

LEMMA PinConnectedType ==
    ASSUME TypeInv, NEW s \in Session, PinConnected(s)
    PROVE  TypeInv'
<1>1. Resuming(s, "pinConnect")
    BY DEF PinConnected
<1>2. /\ Rest' /\ sess[s] \in SessionState /\ conn \in Conns
      /\ pump[s].stmts # << >> /\ pump[s].tid \in Tid
    BY <1>1, ResumeTypes DEF PumpState, ConnectAwait
<1>3. pump[s].tid # Null
    BY <1>2, ConstantsAssumption
<1>4. PICK c \in Client :
        LET ss == [sess[s] EXCEPT !.txClient = c]
            cn == [conn EXCEPT ![c].holder = s]
        IN \/ /\ ss.inTx /\ ~ss.backendInTx
              /\ Await(s, ss, Enqueue(cn, c, "pump", s, "BEGIN", Null),
                       "pinBegin", pump[s].tid)
              /\ UNCHANGED outcome
           \/ Pinned(s, ss, cn)
    BY DEF PinConnected
<1> DEFINE ss == [sess[s] EXCEPT !.txClient = c]
           cn == [conn EXCEPT ![c].holder = s]
<1>5. ss \in SessionState /\ cn \in Conns
    BY <1>2, HoldType DEF SessionState
<1>6. CASE Await(s, ss, Enqueue(cn, c, "pump", s, "BEGIN", Null), "pinBegin",
                 pump[s].tid) /\ UNCHANGED outcome
    <2>1. Enqueue(cn, c, "pump", s, "BEGIN", Null) \in Conns
        BY <1>5, EnqueueType DEF Request
    <2>2. Core'
        BY <1>2, <1>3, <1>5, <1>6, <2>1, AwaitType DEF PumpState, QueryAwait
    <2> QED
        BY <1>2, <1>6, <2>2, EndedKept, Parts
<1>7. CASE Pinned(s, ss, cn)
    BY <1>2, <1>3, <1>5, <1>7, PinnedParts, Parts
<1> QED
    BY <1>4, <1>6, <1>7

LEMMA AutoConnectedType ==
    ASSUME TypeInv, NEW s \in Session, AutoConnected(s)
    PROVE  TypeInv'
<1>1. Resuming(s, "autoConnect")
    BY DEF AutoConnected
<1>2. /\ Rest' /\ sess[s] \in SessionState /\ conn \in Conns
      /\ pump[s].stmts # << >> /\ pump[s].tid \in Tid
    BY <1>1, ResumeTypes DEF PumpState, ConnectAwait
<1>3. PICK c \in Client :
        Await(s, sess[s],
              Enqueue([conn EXCEPT ![c].holder = s], c, "pump", s, "DATA",
                      RowOf(s, pump[s].tid)), "autoQuery", Null)
    BY DEF AutoConnected
<1>4. RowOf(s, pump[s].tid) \in Row
    BY <1>2, RowOfType DEF TypeInv
<1>5. Enqueue([conn EXCEPT ![c].holder = s], c, "pump", s, "DATA",
              RowOf(s, pump[s].tid)) \in Conns
    BY <1>2, <1>4, HoldType, EnqueueType DEF Request
<1>6. Core'
    BY <1>2, <1>3, <1>5, AwaitType DEF PumpState, QueryAwait, LookupAwait,
                                       ConnectAwait
<1> QED
    BY <1>2, <1>6, EndedKept, Parts DEF AutoConnected

---------------------------------------------------------------------------
LEMMA FreshTypes ==
    /\ NewSession \in SessionState
    /\ IdlePump \in Pump
    /\ IdleConn \in Connection
BY EmptySeq DEF NewSession, SessionState, IdlePump, Pump, PumpState, IdleConn,
                Connection

\* Init and Crash put every session and client into its first state.
LEMMA CrashType ==
    ASSUME TypeInv, Crash
    PROVE  /\ Core'
           /\ buf' \in [Session -> Seq(Batches)]
           /\ socket' \in [Session -> {"open", "errored", "closed"}]
           /\ up' \in BOOLEAN
<1>1. PumpInv'
    BY DEF Crash, PumpInv, IdlePump, LookupAwait, ConnectAwait
<1>2. Core'
    BY <1>1, FreshTypes DEF Crash, Core, Conns
<1> QED
    BY <1>2, EmptySeq DEF Crash

LEMMA ReceiveType ==
    ASSUME TypeInv, NEW s \in Session, Receive(s)
    PROVE  TypeInv'
<1>1. PICK b \in Batches : buf' = [buf EXCEPT ![s] = Append(@, b)]
    BY DEF Receive
<1>2. buf' \in [Session -> Seq(Batches)]
    <2>1. Append(buf[s], b) \in Seq(Batches)
        BY AppendProperties DEF TypeInv, TypeOK
    <2> QED
        BY <1>1, <2>1 DEF TypeInv, TypeOK
<1>3. hist' \in [Session -> History]
    <2> DEFINE n == hist[s].sent + 1
    <2>1. n \in Nat
        BY DEF TypeInv, TypeOK, History
    <2>2. hist' = [hist EXCEPT ![s].sent = n]
        BY DEF Receive
    <2> HIDE DEF n
    <2> QED
        BY <2>1, <2>2 DEF TypeInv, TypeOK, History
<1> QED
    BY <1>2, <1>3 DEF Receive, TypeInv, TypeOK, PumpInv

LEMMA TakeMessageType ==
    ASSUME TypeInv, NEW s \in Session, TakeMessage(s)
    PROVE  TypeInv'
<1>1. Head(buf[s]) \in Batches /\ Tail(buf[s]) \in Seq(Batches)
    BY HeadTailProperties DEF TypeInv, TypeOK, TakeMessage
<1>2. Head(buf[s]) \in Seq(Statement)
    BY <1>1, ConstantsAssumption
<1>3. buf' \in [Session -> Seq(Batches)]
    BY <1>1 DEF TakeMessage, TypeInv, TypeOK
<1>4. pump' \in [Session -> Pump]
    BY <1>2 DEF TakeMessage, TypeInv, TypeOK, Pump, PumpState
<1>5. PumpInv'
    BY DEF TakeMessage, TypeInv, TypeOK, PumpInv, LookupAwait, ConnectAwait
<1> QED
    BY <1>3, <1>4, <1>5 DEF TakeMessage, ghosts, TypeInv, TypeOK

LEMMA FinishMessageType ==
    ASSUME TypeInv, NEW s \in Session, FinishMessage(s)
    PROVE  TypeInv'
<1> DEFINE ss == [sess[s] EXCEPT !.txStatus = IF sess[s].inTx THEN "T" ELSE "I"]
<1>1. ss \in SessionState /\ conn \in Conns
    BY DEF TypeInv, TypeOK, SessionState, Conns
<1>2. Core'
    BY <1>1, AnsweredType DEF FinishMessage
<1> QED
    BY <1>2, RestKept, EndedKept, Parts DEF FinishMessage, ghosts, outcome

LEMMA CleanupType ==
    ASSUME TypeInv, NEW s \in Session, Cleanup(s),
           socket' \in [Session -> {"open", "errored", "closed"}]
    PROVE  TypeInv'
<1>1. sess[s] \in SessionState /\ conn \in Conns
    BY DEF TypeInv, TypeOK, Conns
<1>2. sess' \in [Session -> SessionState] /\ conn' \in Conns
    <2>1. CASE sess[s].txClient # Null
        <3>1. sess[s].txClient \in Client
            BY <1>1, <2>1 DEF SessionState
        <3>2. Enqueue(conn, sess[s].txClient, "cleanup", s, "ROLLBACK", Null)
                \in Conns
            BY <1>1, <3>1, EnqueueType DEF Request
        <3> QED
            BY <2>1, <3>2 DEF Cleanup, TypeInv, TypeOK
    <2>2. CASE sess[s].txClient = Null
        <3>1. Unpinned(sess[s]) \in SessionState
            BY <1>1, UnpinnedType
        <3> QED
            BY <1>1, <2>2, <3>1 DEF Cleanup, TypeInv, TypeOK
    <2> QED
        BY <2>1, <2>2
<1> QED
    BY <1>2 DEF Cleanup, ghosts, TypeInv, TypeOK, PumpInv, Conns

LEMMA SocketType ==
    ASSUME TypeInv, NEW s \in Session, SocketError(s) \/ SocketClose(s)
    PROVE  TypeInv'
<1>1. Cleanup(s) /\ socket' \in [Session -> {"open", "errored", "closed"}]
    BY DEF SocketError, SocketClose, TypeInv, TypeOK
<1> QED
    BY <1>1, CleanupType

---------------------------------------------------------------------------
LEMMA ResumePumpType ==
    ASSUME TypeInv, NEW s \in Session, NEW c \in Client, NEW r \in Request,
           NEW ok \in BOOLEAN, NEW cn \in Conns, ResumePump(s, c, r, ok, cn),
           durable' \in [Shard -> SUBSET Row]
    PROVE  TypeInv'
<1>1. /\ sess[s] \in SessionState /\ Release(cn, c) \in Conns
      /\ pump[s].pc \notin {"idle", "run"} => pump[s].stmts # << >>
    BY ReleaseType DEF TypeInv, TypeOK, PumpInv
<1>2. Rest'
    <2>1. r.op = "DATA" => r.row \in Row
        BY DEF Request
    <2>2. acked' \in SUBSET Row
        BY <2>1 DEF ResumePump, GiveBack, TypeInv, TypeOK
    <2> QED
        BY <2>2 DEF ResumePump, GiveBack, Rest, TypeInv, TypeOK
<1>3. CASE pump[s].pc = "pinBegin" /\ Pinned(s, [sess[s] EXCEPT !.backendInTx = TRUE], cn)
    <2>1. [sess[s] EXCEPT !.backendInTx = TRUE] \in SessionState
        BY <1>1 DEF SessionState
    <2>2. pump[s].tid # Null
        BY <1>3 DEF TypeInv, PumpInv
    <2> QED
        BY <1>1, <1>2, <1>3, <2>1, <2>2, PinnedParts, Parts
<1>4. CASE pump[s].pc = "txQuery" /\ Done(s, sess[s], cn) /\ UNCHANGED outcome
    <2>1. Core'
        BY <1>1, <1>4, DoneType
    <2> QED
        BY <1>2, <1>4, <2>1, EndedKept, Parts
<1>5. CASE /\ pump[s].pc = "autoQuery"
           /\ Done(s, sess[s], Release(cn, c)) /\ UNCHANGED outcome
    <2>1. Core'
        BY <1>1, <1>5, DoneType
    <2> QED
        BY <1>2, <1>5, <2>1, EndedKept, Parts
<1>6. CASE Throw(s, sess[s], Release(cn, c))
    BY <1>1, <1>2, <1>6, ThrowParts, Parts
<1>7. CASE Throw(s, sess[s], cn)
    BY <1>1, <1>2, <1>7, ThrowParts, Parts
<1>8. CASE /\ pump[s].pc = "endQuery"
           /\ sess[s].txClient # Null /\ EndTx(s, Release(cn, sess[s].txClient))
    <2>1. sess[s].txClient \in Client
        BY <1>1, <1>8 DEF SessionState
    <2>2. Release(cn, sess[s].txClient) \in Conns
        BY <2>1, ReleaseType
    <2> QED
        BY <1>1, <1>2, <1>8, <2>2, EndTxParts, Parts
<1> QED
    BY <1>3, <1>4, <1>5, <1>6, <1>7, <1>8 DEF ResumePump, GiveBack

LEMMA ResumeCleanupType ==
    ASSUME TypeInv, NEW s \in Session, NEW cn \in Conns, ResumeCleanup(s, cn),
           durable' \in [Shard -> SUBSET Row]
    PROVE  TypeInv'
<1>1. Ended' /\ acked' \in SUBSET Row
    BY DEF ResumeCleanup, GiveBack, TypeInv, TypeOK, Ended
<1>2. CASE sess[s].txClient = Null
    <2>1. Crash
        BY <1>2 DEF ResumeCleanup, GiveBack
    <2>2. Rest'
        BY <1>1, <2>1, CrashType DEF Rest
    <2> QED
        BY <1>1, <2>1, <2>2, CrashType, Parts
<1>3. CASE sess[s].txClient # Null
    <2>1. /\ sess' = [sess EXCEPT ![s] = [Unpinned(@) EXCEPT !.txClient = Null]]
          /\ conn' = Release(cn, sess[s].txClient)
          /\ UNCHANGED <<pump, buf, socket, up>>
        BY <1>3 DEF ResumeCleanup, GiveBack
    <2>2. sess[s] \in SessionState /\ sess[s].txClient \in Client
        BY <1>3 DEF TypeInv, TypeOK, SessionState
    <2>3. [Unpinned(sess[s]) EXCEPT !.txClient = Null] \in SessionState
        BY <2>2, UnpinnedType, NoClientType
    <2>4. conn' \in Conns
        BY <2>1, <2>2, ReleaseType
    <2>5. Core'
        BY <2>1, <2>3, <2>4 DEF Core, TypeInv, TypeOK, PumpInv
    <2>6. Rest'
        BY <1>1, <2>1 DEF Rest, TypeInv, TypeOK
    <2> QED
        BY <1>1, <2>5, <2>6, Parts
<1> QED
    BY <1>2, <1>3

LEMMA ServeType ==
    ASSUME TypeInv, NEW c \in Client, Serve(c)
    PROVE  TypeInv'
<1> DEFINE k == conn[c]
           r == Head(k.queue)
           cn(ok) == [conn EXCEPT ![c] = [holder |-> k.holder,
                                          queue |-> Tail(k.queue),
                                          tx |-> TxAfter(k, r, ok),
                                          work |-> WorkAfter(k, r, ok)]]
<1>1. conn[c].queue # << >>
    BY DEF Serve
<1>2. PICK ok \in BOOLEAN :
        /\ durable' = [durable EXCEPT ![HostOf[c]] = @ \cup RowsCommitted(k, r, ok)]
        /\ ResumePump(r.s, c, r, ok, cn(ok)) \/ ResumeCleanup(r.s, cn(ok))
    BY DEF Serve
<1> HIDE DEF r, cn
<1>3. r \in Request /\ RowsCommitted(k, r, ok) \in SUBSET Row /\ cn(ok) \in Conns
    BY <1>1, ServedType DEF TypeInv, r, cn
<1>4. r.s \in Session
    BY <1>3 DEF Request
<1>5. durable' \in [Shard -> SUBSET Row]
    BY <1>2, <1>3, ConstantsAssumption DEF TypeInv, TypeOK
<1>6. CASE ResumePump(r.s, c, r, ok, cn(ok))
    BY <1>3, <1>4, <1>5, <1>6, ResumePumpType
<1>7. CASE ResumeCleanup(r.s, cn(ok))
    BY <1>3, <1>4, <1>5, <1>7, ResumeCleanupType
<1> QED
    BY <1>2, <1>6, <1>7

LEMMA BackendLostType ==
    ASSUME TypeInv, NEW c \in Client, BackendLost(c)
    PROVE  TypeInv'
<1> DEFINE r == Head(conn[c].queue)
<1>1. CASE /\ Autocommits(c) /\ Len(conn[c].queue) = 1
           /\ \E rows \in {{}, {r.row}} :
                durable' = [durable EXCEPT ![HostOf[c]] = @ \cup rows]
           /\ Throw(r.s, sess[r.s], [conn EXCEPT ![c] = IdleConn])
           /\ UNCHANGED <<up, buf, socket>>
    <2>1. conn[c].queue \in Seq(Request)
        BY DEF TypeInv, TypeOK, Connection
    <2>2. r \in Request
        BY <1>1, <2>1, HeadTailProperties, EmptySeq
    <2>3. r.op = "DATA"
        BY <1>1, <2>1 DEF Autocommits
    <2>4. r.s \in Session /\ r.row \in Row
        BY <2>2, <2>3 DEF Request
    <2>5. sess[r.s] \in SessionState /\ [conn EXCEPT ![c] = IdleConn] \in Conns
        BY <2>4, FreshTypes DEF TypeInv, TypeOK, Conns
    <2>6. durable' \in [Shard -> SUBSET Row]
        BY <1>1, <2>4, ConstantsAssumption DEF TypeInv, TypeOK
    <2>7. acked' = acked
        BY DEF BackendLost
    <2>8. Rest'
        BY <1>1, <2>6, <2>7 DEF Rest, TypeInv, TypeOK
    <2>9. Core' /\ Ended'
        <3> HIDE DEF r
        <3> QED
            BY <1>1, <2>4, <2>5, ThrowParts
    <2> QED
        BY <2>8, <2>9, Parts
<1>2. CASE Crash /\ UNCHANGED <<hist, durable, ended, acked>>
    <2>1. Rest' /\ Ended'
        BY <1>2, CrashType DEF Rest, Ended, TypeInv, TypeOK
    <2> QED
        BY <1>2, <2>1, CrashType, Parts
<1> QED
    BY <1>1, <1>2 DEF BackendLost

---------------------------------------------------------------------------
LEMMA TypeInit == Init => TypeInv
<1> SUFFICES ASSUME Init PROVE TypeInv
    OBVIOUS
<1>1. PumpInv
    BY DEF Init, PumpInv, IdlePump, LookupAwait, ConnectAwait
<1>2. hist \in [Session -> History]
    BY DEF Init, History
<1> QED
    BY <1>1, <1>2, FreshTypes, EmptySeq DEF Init, TypeInv, TypeOK

LEMMA TypeStep == TypeInv /\ [Next]_vars => TypeInv'
<1> SUFFICES ASSUME TypeInv, [Next]_vars PROVE TypeInv'
    OBVIOUS
<1>1. ASSUME NEW s \in Session, Receive(s) \/ SocketError(s) \/ SocketClose(s)
      PROVE  TypeInv'
    BY <1>1, ReceiveType, SocketType
<1>2. ASSUME NEW s \in Session, TakeMessage(s) \/ FinishMessage(s)
      PROVE  TypeInv'
    BY <1>2, TakeMessageType, FinishMessageType
<1>3. ASSUME NEW s \in Session,
             SetTid(s) \/ ResetTid(s) \/ Begin(s) \/ EndStatement(s) \/ Data(s)
      PROVE  TypeInv'
    BY <1>3, SetTidType, ResetTidType, BeginType, EndStatementType, DataType
<1>4. ASSUME NEW s \in Session,
             \/ LookupFails(s) \/ SetLookupReply(s) \/ PinLookupReply(s)
             \/ AutoLookupReply(s)
             \/ ConnectFails(s) \/ PinConnected(s) \/ AutoConnected(s)
      PROVE  TypeInv'
    BY <1>4, LookupFailsType, SetLookupReplyType, PinLookupReplyType,
       AutoLookupReplyType, ConnectFailsType, PinConnectedType, AutoConnectedType
<1>5. ASSUME NEW c \in Client, Serve(c) \/ BackendLost(c)
      PROVE  TypeInv'
    BY <1>5, ServeType, BackendLostType
<1>6. CASE UNCHANGED vars
    BY <1>6 DEF vars, TypeInv, TypeOK, PumpInv
<1>7. ASSUME NEW s \in Session, Step(s) PROVE TypeInv'
    BY <1>2, <1>3, <1>4, <1>7 DEF Step
<1>8. ASSUME NEW s \in Session, ConnectFails(s) PROVE TypeInv'
    BY <1>4, <1>8
<1> QED
    BY <1>1, <1>5, <1>6, <1>7, <1>8 DEF Next

LEMMA TypeInvHolds == Spec => []TypeInv
BY TypeInit, TypeStep, PTL DEF Spec

\* Type correctness, of the objects of session.ts and of the clients of
\* backend-pool.ts: whatever fails, no handler leaves a field undefined or
\* dispatches a statement for a tid it does not have.
THEOREM TypeCorrect == Spec => []TypeOK
<1>1. TypeInv => TypeOK
    BY DEF TypeInv
<1> QED
    BY <1>1, TypeInvHolds, PTL

---------------------------------------------------------------------------
(***************************************************************************)
(* Routing.  RoutedByTid says where rows are; that it is kept depends on   *)
(* what is queued, and what is queued depends on where the session's       *)
(* client is, at each await.                                               *)
(***************************************************************************)
\* A session object, at the await pc of a statement dispatched for tid.  While
\* pools.connect() is awaited the session is pinned already and txClient is
\* still the one from before.
PinInv(ss, pc, tid) ==
    /\ pc = "pinConnect" => ss.pinnedIndex \in {Null, ShardOf[tid]}
    /\ pc # "pinConnect" /\ ss.pinnedIndex # Null /\ ss.txClient # Null
         => HostOf[ss.txClient] = ss.pinnedIndex
    /\ pc = "pinBegin" /\ ss.txClient # Null
         => HostOf[ss.txClient] = ShardOf[tid]
    /\ "socket" \notin Faults =>
         /\ ss.pinnedIndex = Null => ss.txClient = Null
         /\ pc = "pinConnect" => ss.txClient = Null /\ ss.pinnedIndex # Null

\* What is queued on a client, or written in its transaction, belongs there;
\* cleanup() queues nothing unless sockets break.
RequestPlaced(r, h) ==
    /\ r.op = "DATA" => ShardOf[r.row.tid] = h
    /\ r.by = "cleanup" => "socket" \in Faults

ClientPlaced(k, h) ==
    /\ \A r \in k.work : ShardOf[r.tid] = h
    /\ \A i \in 1..Len(k.queue) : RequestPlaced(k.queue[i], h)

Placed(cn) == \A c \in Client : ClientPlaced(cn[c], HostOf[c])

Pins == \A s \in Session : PinInv(sess[s], pump[s].pc, pump[s].tid)

DurablePlaced == \A h \in Shard : \A r \in durable[h] : ShardOf[r.tid] = h

RouteInv == Pins /\ Placed(conn) /\ DurablePlaced

LEMMA EnqueuePlaced ==
    ASSUME NEW cn \in Conns, NEW c \in Client, NEW by, NEW s, NEW op, NEW row,
           Placed(cn), op = "DATA" => ShardOf[row.tid] = HostOf[c],
           by = "cleanup" => "socket" \in Faults
    PROVE  Placed(Enqueue(cn, c, by, s, op, row))
<1> DEFINE r == [by |-> by, s |-> s, op |-> op, row |-> row]
           q == cn[c].queue
<1>1. q \in Seq(Request) /\ cn[c] \in Connection
    BY DEF Conns, Connection
<1>2. /\ Len(Append(q, r)) = Len(q) + 1
      /\ \A i \in 1..Len(q) : Append(q, r)[i] = q[i]
      /\ Append(q, r)[Len(q) + 1] = r
    BY <1>1
<1>3. [cn[c] EXCEPT !.queue = Append(q, r)].queue = Append(q, r)
    BY <1>1 DEF Connection
<1>4. [cn[c] EXCEPT !.queue = Append(q, r)].work = cn[c].work
    BY <1>1 DEF Connection
<1>5. ClientPlaced(cn[c], HostOf[c])
    BY DEF Placed
<1>6. ASSUME NEW i \in 1..Len(Append(q, r))
      PROVE  RequestPlaced(Append(q, r)[i], HostOf[c])
    <2>1. i \in 1..Len(q) \/ i = Len(q) + 1
        BY <1>1, <1>2, LenProperties
    <2>2. RequestPlaced(r, HostOf[c])
        BY DEF RequestPlaced
    <2> QED
        BY <1>2, <1>5, <2>1, <2>2 DEF ClientPlaced
<1>7. ClientPlaced([cn[c] EXCEPT !.queue = Append(q, r)], HostOf[c])
    BY <1>3, <1>4, <1>5, <1>6 DEF ClientPlaced
<1>8. Enqueue(cn, c, by, s, op, row) =
        [cn EXCEPT ![c] = [cn[c] EXCEPT !.queue = Append(q, r)]]
    BY DEF Enqueue
<1> QED
    BY <1>7, <1>8 DEF Placed, Conns

LEMMA HolderPlaced ==
    ASSUME NEW cn \in Conns, NEW c \in Client, NEW s, Placed(cn)
    PROVE  Placed([cn EXCEPT ![c].holder = s]) /\ Placed(Release(cn, c))
BY DEF Placed, ClientPlaced, Release, Conns, Connection

\* Serving a request leaves what was queued behind it, and adds at most its row.
LEMMA ServedPlaced ==
    ASSUME TypeOK, Placed(conn), NEW c \in Client, conn[c].queue # << >>,
           NEW ok \in BOOLEAN
    PROVE  LET k == conn[c]
               r == Head(k.queue)
           IN /\ Placed([conn EXCEPT ![c] = [holder |-> k.holder,
                                             queue |-> Tail(k.queue),
                                             tx |-> TxAfter(k, r, ok),
                                             work |-> WorkAfter(k, r, ok)]])
              /\ \A row \in RowsCommitted(k, r, ok) : ShardOf[row.tid] = HostOf[c]
              /\ r.by = "cleanup" => "socket" \in Faults
<1> DEFINE k == conn[c]
           r == Head(k.queue)
<1>1. k \in Connection /\ k.queue \in Seq(Request) /\ Len(k.queue) > 0
    BY DEF TypeOK, Connection
<1>2. /\ r = k.queue[1]
      /\ Len(Tail(k.queue)) = Len(k.queue) - 1
      /\ \A i \in 1..Len(Tail(k.queue)) : Tail(k.queue)[i] = k.queue[i + 1]
    BY <1>1
<1>3. ClientPlaced(k, HostOf[c])
    BY DEF Placed
<1>4. RequestPlaced(r, HostOf[c])
    BY <1>1, <1>2, <1>3 DEF ClientPlaced
<1>5. \A row \in WorkAfter(k, r, ok) \cup RowsCommitted(k, r, ok) :
        ShardOf[row.tid] = HostOf[c]
    BY <1>3, <1>4 DEF WorkAfter, RowsCommitted, ClientPlaced, RequestPlaced
<1>6. ASSUME NEW i \in 1..Len(Tail(k.queue))
      PROVE  RequestPlaced(Tail(k.queue)[i], HostOf[c])
    <2>1. i + 1 \in 1..Len(k.queue)
        BY <1>1, <1>2
    <2> QED
        BY <1>2, <1>3, <2>1 DEF ClientPlaced
<1>7. ClientPlaced([holder |-> k.holder, queue |-> Tail(k.queue),
                    tx |-> TxAfter(k, r, ok), work |-> WorkAfter(k, r, ok)],
                   HostOf[c])
    BY <1>5, <1>6 DEF ClientPlaced
<1> QED
    BY <1>4, <1>5, <1>7 DEF Placed, TypeOK, RequestPlaced

---------------------------------------------------------------------------
LEMMA PinAwait ==
    ASSUME NEW ss, NEW pc, NEW tid, NEW to, NEW tid2, PinInv(ss, pc, tid),
           pc # "pinConnect", to \notin {"pinConnect", "pinBegin"}
    PROVE  PinInv(ss, to, tid2)
BY DEF PinInv

LEMMA PinFields ==
    ASSUME NEW ss, NEW st, NEW pc, NEW tid, PinInv(ss, pc, tid),
           st.pinnedIndex = ss.pinnedIndex, st.txClient = ss.txClient
    PROVE  PinInv(st, pc, tid)
BY DEF PinInv

LEMMA UnpinnedFields ==
    ASSUME NEW ss \in SessionState
    PROVE  /\ Unpinned(ss).pinnedIndex = Null
           /\ Unpinned(ss).txClient = ss.txClient
           /\ [Unpinned(ss) EXCEPT !.txClient = Null].pinnedIndex = Null
           /\ [Unpinned(ss) EXCEPT !.txClient = Null].txClient = Null
           /\ [Unpinned(ss) EXCEPT !.txClient = Null, !.txStatus = "I"].pinnedIndex
                = Null
           /\ [Unpinned(ss) EXCEPT !.txClient = Null, !.txStatus = "I"].txClient
                = Null
BY DEF Unpinned, SessionState

\* An object without a client is in place, except that without disconnects one
\* that awaits a client stays pinned.
LEMMA FreePin ==
    ASSUME NEW ss, NEW pc, NEW tid, ss.pinnedIndex = Null, ss.txClient = Null,
           pc # "pinConnect" \/ "socket" \in Faults
    PROVE  PinInv(ss, pc, tid)
BY DEF PinInv

LEMMA DonePins ==
    ASSUME TypeInv, Pins, NEW s \in Session, NEW ss, NEW cn,
           PinInv(ss, "run", Null), Placed(cn), Done(s, ss, cn)
    PROVE  Pins' /\ Placed(conn')
BY DEF TypeInv, TypeOK, Pins, Done

LEMMA AnsweredPins ==
    ASSUME TypeInv, Pins, NEW s \in Session, NEW ss, NEW cn,
           PinInv(ss, "idle", Null), Placed(cn), Answered(s, ss, cn)
    PROVE  Pins' /\ Placed(conn')
BY DEF TypeInv, TypeOK, Pins, Answered, IdlePump

LEMMA ThrowPins ==
    ASSUME TypeInv, Pins, NEW s \in Session, NEW ss, NEW cn,
           PinInv(ss, "idle", Null), Placed(cn), Throw(s, ss, cn)
    PROVE  Pins' /\ Placed(conn')
BY AnsweredPins DEF Throw

LEMMA AwaitPins ==
    ASSUME TypeInv, Pins, NEW s \in Session, NEW ss, NEW cn, NEW pc, NEW tid,
           PinInv(ss, pc, tid), Placed(cn), Await(s, ss, cn, pc, tid)
    PROVE  Pins' /\ Placed(conn')
BY DEF TypeInv, TypeOK, Pins, Await, Pump

\* After ensurePinned(): the client of the transaction is on the shard of the
\* tid that the statement was dispatched with.
LEMMA PinnedPins ==
    ASSUME TypeInv, Pins, NEW s \in Session, NEW ss \in SessionState,
           NEW cn \in Conns, Placed(cn), PinInv(ss, "run", Null),
           ss.txClient # Null => HostOf[ss.txClient] = ShardOf[pump[s].tid],
           Pinned(s, ss, cn)
    PROVE  Pins' /\ Placed(conn')
<1>1. CASE Done(s, [ss EXCEPT !.txStatus = "T"], cn)
    <2>1. PinInv([ss EXCEPT !.txStatus = "T"], "run", Null)
        BY PinFields DEF SessionState
    <2> QED
        BY <1>1, <2>1, DonePins
<1>2. CASE /\ ss.txClient # Null
           /\ Await(s, ss, Enqueue(cn, ss.txClient, "pump", s, "DATA",
                                   RowOf(s, pump[s].tid)), "txQuery", Null)
    <2>1. ss.txClient \in Client
        BY <1>2 DEF SessionState
    <2>2. RowOf(s, pump[s].tid).tid = pump[s].tid
        BY DEF RowOf
    <2>3. Placed(Enqueue(cn, ss.txClient, "pump", s, "DATA", RowOf(s, pump[s].tid)))
        BY <1>2, <2>1, <2>2, EnqueuePlaced
    <2>4. PinInv(ss, "txQuery", Null)
        BY PinAwait
    <2> QED
        BY <1>2, <2>3, <2>4, AwaitPins
<1>3. CASE Throw(s, ss, cn)
    <2>1. PinInv(ss, "idle", Null)
        BY PinAwait
    <2> QED
        BY <1>3, <2>1, ThrowPins
<1> QED
    BY <1>1, <1>2, <1>3 DEF Pinned

---------------------------------------------------------------------------
(***************************************************************************)
(* Every action keeps RouteInv, unless connects fail under disconnects.    *)
(***************************************************************************)
LEMMA RouteParts ==
    ASSUME RouteInv, Pins', Placed(conn'), UNCHANGED durable
    PROVE  RouteInv'
BY DEF RouteInv, DurablePlaced, Placed

LEMMA RouteTypes ==
    ASSUME TypeInv, RouteInv, NEW s \in Session
    PROVE  /\ sess[s] \in SessionState /\ conn \in Conns
           /\ Pins /\ Placed(conn)
           /\ PinInv(sess[s], pump[s].pc, pump[s].tid)
BY DEF TypeInv, TypeOK, RouteInv, Pins, Conns

LEMMA DispatchRoute ==
    ASSUME TypeInv, RouteInv, NEW s \in Session, NEW op, Dispatching(s, op)
    PROVE  /\ PinInv(sess[s], "run", Null) /\ PinInv(sess[s], "idle", Null)
           /\ UNCHANGED durable
BY RouteTypes, PinAwait DEF Dispatching

LEMMA SetResetRoute ==
    ASSUME TypeInv, RouteInv, NEW s \in Session, SetTid(s) \/ ResetTid(s)
    PROVE  RouteInv'
<1> DEFINE tid == Stmt(s).tid
<1>1. /\ PinInv(sess[s], "run", Null) /\ PinInv(sess[s], "idle", Null)
      /\ UNCHANGED durable
    BY DispatchRoute DEF SetTid, ResetTid
<1>2. CASE Throw(s, sess[s], conn)
    BY <1>1, <1>2, RouteTypes, ThrowPins, RouteParts
<1>3. CASE Await(s, sess[s], conn, "setLookup", tid)
    <2>1. PinInv(sess[s], "setLookup", tid)
        BY <1>1, PinAwait
    <2> QED
        BY <1>1, <1>3, <2>1, RouteTypes, AwaitPins, RouteParts
<1>4. ASSUME NEW t, Done(s, [sess[s] EXCEPT !.pendingTid = t], conn)
      PROVE  RouteInv'
    <2>1. PinInv([sess[s] EXCEPT !.pendingTid = t], "run", Null)
        BY <1>1, RouteTypes, PinFields DEF SessionState
    <2> QED
        BY <1>1, <1>4, <2>1, RouteTypes, DonePins, RouteParts
<1> QED
    BY <1>2, <1>3, <1>4 DEF SetTid, ResetTid

LEMMA BeginRoute ==
    ASSUME TypeInv, RouteInv, NEW s \in Session, Begin(s)
    PROVE  RouteInv'
<1> DEFINE ss == [sess[s] EXCEPT !.inTx = TRUE]
<1>1. PinInv(sess[s], "run", Null) /\ UNCHANGED durable
    BY DispatchRoute DEF Begin
<1>2. ss \in SessionState /\ PinInv(ss, "run", Null)
    <2>1. sess[s] \in SessionState
        BY RouteTypes
    <2>2. /\ ss \in SessionState
          /\ ss.pinnedIndex = sess[s].pinnedIndex /\ ss.txClient = sess[s].txClient
        BY <2>1 DEF SessionState
    <2> HIDE DEF ss
    <2> QED
        BY <1>1, <2>2, PinFields
<1>3. CASE Await(s, ss, conn, "pinLookup", ss.pendingTid)
    <2>1. PinInv(ss, "pinLookup", ss.pendingTid)
        BY <1>2, PinAwait
    <2> QED
        BY <1>1, <1>3, <2>1, RouteTypes, AwaitPins, RouteParts
<1>4. CASE Done(s, [ss EXCEPT !.txStatus = "T"], conn)
    <2>1. PinInv([ss EXCEPT !.txStatus = "T"], "run", Null)
        BY <1>2, PinFields DEF SessionState
    <2> QED
        BY <1>1, <1>4, <2>1, RouteTypes, DonePins, RouteParts
<1> QED
    BY <1>3, <1>4 DEF Begin

LEMMA EndTxPins ==
    ASSUME TypeInv, RouteInv, NEW s \in Session, NEW cn, Placed(cn), EndTx(s, cn)
    PROVE  Pins' /\ Placed(conn')
<1> DEFINE ss == [Unpinned(sess[s]) EXCEPT !.txClient = Null, !.txStatus = "I"]
<1>1. PinInv(ss, "run", Null)
    BY RouteTypes, UnpinnedFields, FreePin
<1> QED
    BY <1>1, RouteTypes, DonePins DEF EndTx

LEMMA EndStatementRoute ==
    ASSUME TypeInv, RouteInv, NEW s \in Session, EndStatement(s)
    PROVE  RouteInv'
<1>1. PinInv(sess[s], "run", Null) /\ UNCHANGED durable
    BY DispatchRoute DEF EndStatement
<1>2. CASE /\ sess[s].txClient # Null
           /\ Await(s, sess[s],
                    Enqueue(conn, sess[s].txClient, "pump", s, EndTag(s), Null),
                    "endQuery", Null)
    <2>1. sess[s].txClient \in Client
        BY <1>2, RouteTypes DEF SessionState
    <2>2. EndTag(s) # "DATA"
        BY DEF EndTag
    <2>3. Placed(Enqueue(conn, sess[s].txClient, "pump", s, EndTag(s), Null))
        BY <2>1, <2>2, RouteTypes, EnqueuePlaced
    <2>4. PinInv(sess[s], "endQuery", Null)
        BY <1>1, PinAwait
    <2> QED
        BY <1>1, <1>2, <2>3, <2>4, RouteTypes, AwaitPins, RouteParts
<1>3. CASE EndTx(s, conn)
    BY <1>1, <1>3, RouteTypes, EndTxPins, RouteParts
<1> QED
    BY <1>2, <1>3 DEF EndStatement

LEMMA DataRoute ==
    ASSUME TypeInv, RouteInv, NEW s \in Session, Data(s)
    PROVE  RouteInv'
<1> DEFINE tid == sess[s].pendingTid
           pc == IF sess[s].inTx THEN "pinLookup" ELSE "autoLookup"
<1>1. /\ PinInv(sess[s], "run", Null) /\ PinInv(sess[s], "idle", Null)
      /\ UNCHANGED durable
    BY DispatchRoute DEF Data
<1>2. CASE Throw(s, sess[s], conn)
    BY <1>1, <1>2, RouteTypes, ThrowPins, RouteParts
<1>3. CASE Await(s, sess[s], conn, pc, tid)
    <2>1. PinInv(sess[s], pc, tid)
        BY <1>1, PinAwait
    <2> QED
        BY <1>1, <1>3, <2>1, RouteTypes, AwaitPins, RouteParts
<1> QED
    BY <1>2, <1>3 DEF Data

LEMMA SetLookupReplyRoute ==
    ASSUME TypeInv, RouteInv, NEW s \in Session, SetLookupReply(s)
    PROVE  RouteInv'
<1> DEFINE tid == pump[s].tid
<1>1. /\ PinInv(sess[s], "run", Null) /\ PinInv(sess[s], "idle", Null)
      /\ UNCHANGED durable
    BY RouteTypes, PinAwait DEF SetLookupReply, Resuming
<1>2. CASE Throw(s, sess[s], conn)
    BY <1>1, <1>2, RouteTypes, ThrowPins, RouteParts
<1>3. CASE Done(s, [sess[s] EXCEPT !.pendingTid = tid], conn)
    <2>1. PinInv([sess[s] EXCEPT !.pendingTid = tid], "run", Null)
        BY <1>1, RouteTypes, PinFields DEF SessionState
    <2> QED
        BY <1>1, <1>3, <2>1, RouteTypes, DonePins, RouteParts
<1> QED
    BY <1>2, <1>3 DEF SetLookupReply

LEMMA LookupFailsRoute ==
    ASSUME TypeInv, RouteInv, NEW s \in Session, LookupFails(s)
    PROVE  RouteInv'
<1>1. PICK pc \in LookupAwait : Resuming(s, pc)
    BY DEF LookupFails
<1>2. PinInv(sess[s], "idle", Null) /\ UNCHANGED durable
    BY <1>1, RouteTypes, PinAwait DEF Resuming, LookupAwait
<1> QED
    BY <1>2, RouteTypes, ThrowPins, RouteParts DEF LookupFails

\* The one step that may break the invariant: a failed connect leaves the pin,
\* and the client of before it, if a disconnect unpinned the session meanwhile.
LEMMA ConnectFailsRoute ==
    ASSUME TypeInv, RouteInv, NEW s \in Session, ConnectFails(s),
           "socket" \notin Faults \/ "connect" \notin Faults
    PROVE  RouteInv'
<1>1. PICK pc \in ConnectAwait : Resuming(s, pc)
    BY DEF ConnectFails
<1>2. PinInv(sess[s], pc, pump[s].tid) /\ UNCHANGED durable
    BY <1>1, RouteTypes DEF Resuming
<1>3. PinInv(sess[s], "idle", Null)
    <2>1. "socket" \notin Faults
        BY DEF ConnectFails
    <2>2. CASE pc = "pinConnect"
        BY <1>2, <2>1, <2>2 DEF PinInv
    <2>3. CASE pc = "autoConnect"
        BY <1>2, <2>3, PinAwait
    <2> QED
        BY <2>2, <2>3 DEF ConnectAwait
<1> QED
    BY <1>2, <1>3, RouteTypes, ThrowPins, RouteParts DEF ConnectFails

LEMMA PinLookupReplyRoute ==
    ASSUME TypeInv, RouteInv, NEW s \in Session, PinLookupReply(s)
    PROVE  RouteInv'
<1> DEFINE tid == pump[s].tid
           ss == [sess[s] EXCEPT !.pinnedIndex = ShardOf[tid]]
<1>1. Resuming(s, "pinLookup") /\ UNCHANGED durable
    BY DEF PinLookupReply, Resuming
<1>2. /\ PinInv(sess[s], "run", Null) /\ PinInv(sess[s], "idle", Null)
      /\ PinInv(sess[s], "pinLookup", tid)
    BY <1>1, RouteTypes, PinAwait DEF Resuming
<1>3. tid \in Tid
    BY <1>1, ResumeTypes DEF PumpState, LookupAwait
<1>4. ShardOf[tid] \in Shard /\ ShardOf[tid] # Null
    BY <1>3, ConstantsAssumption
<1>5. CASE Throw(s, sess[s], conn)
    BY <1>1, <1>2, <1>5, RouteTypes, ThrowPins, RouteParts
<1>6. CASE sess[s].pinnedIndex = ShardOf[tid] /\ Pinned(s, sess[s], conn)
    <2>1. sess[s].txClient # Null => HostOf[sess[s].txClient] = ShardOf[tid]
        BY <1>2, <1>4, <1>6 DEF PinInv
    <2> QED
        BY <1>1, <1>2, <1>6, <2>1, RouteTypes, PinnedPins, RouteParts
<1>7. CASE sess[s].pinnedIndex = Null /\ Await(s, ss, conn, "pinConnect", tid)
    <2>1. ss.pinnedIndex = ShardOf[tid] /\ ss.txClient = sess[s].txClient
        BY RouteTypes DEF SessionState
    <2>2. PinInv(ss, "pinConnect", tid)
        BY <1>2, <1>4, <1>7, <2>1 DEF PinInv
    <2> QED
        BY <1>1, <1>7, <2>2, RouteTypes, AwaitPins, RouteParts
<1> QED
    BY <1>5, <1>6, <1>7 DEF PinLookupReply

LEMMA AutoLookupReplyRoute ==
    ASSUME TypeInv, RouteInv, NEW s \in Session, AutoLookupReply(s)
    PROVE  RouteInv'
<1> DEFINE ss == [sess[s] EXCEPT !.pendingTid = Null]
<1>1. Resuming(s, "autoLookup") /\ UNCHANGED durable
    BY DEF AutoLookupReply, Resuming
<1>2. PinInv(sess[s], "autoConnect", pump[s].tid)
    BY <1>1, RouteTypes, PinAwait DEF Resuming
<1>3. PinInv(ss, "autoConnect", pump[s].tid)
    BY <1>2, RouteTypes, PinFields DEF SessionState
<1> QED
    BY <1>1, <1>3, RouteTypes, AwaitPins, RouteParts DEF AutoLookupReply

LEMMA PinConnectedRoute ==
    ASSUME TypeInv, RouteInv, NEW s \in Session, PinConnected(s)
    PROVE  RouteInv'
<1> DEFINE tid == pump[s].tid
<1>1. Resuming(s, "pinConnect") /\ UNCHANGED durable
    BY DEF PinConnected, Resuming
<1>2. PICK c \in Client :
        /\ Free(s, c)
        /\ LET ss == [sess[s] EXCEPT !.txClient = c]
               cn == [conn EXCEPT ![c].holder = s]
           IN \/ Await(s, ss, Enqueue(cn, c, "pump", s, "BEGIN", Null),
                       "pinBegin", tid)
              \/ Pinned(s, ss, cn)
    BY DEF PinConnected
<1> DEFINE ss == [sess[s] EXCEPT !.txClient = c]
           cn == [conn EXCEPT ![c].holder = s]
<1>3. /\ ss \in SessionState /\ ss.txClient = c
      /\ ss.pinnedIndex = sess[s].pinnedIndex
      /\ cn \in Conns /\ Placed(cn)
    BY RouteTypes, HoldType, HolderPlaced DEF SessionState
<1>4. HostOf[c] = ShardOf[tid]
    BY <1>2 DEF Free
<1>5. PinInv(sess[s], "pinConnect", tid)
    BY <1>1, RouteTypes DEF Resuming
<1>6. PinInv(ss, "run", Null) /\ PinInv(ss, "pinBegin", tid)
    BY <1>3, <1>4, <1>5 DEF PinInv
<1>7. CASE Await(s, ss, Enqueue(cn, c, "pump", s, "BEGIN", Null), "pinBegin", tid)
    <2>1. Placed(Enqueue(cn, c, "pump", s, "BEGIN", Null))
        BY <1>3, EnqueuePlaced
    <2> QED
        BY <1>1, <1>6, <1>7, <2>1, RouteTypes, AwaitPins, RouteParts
<1>8. CASE Pinned(s, ss, cn)
    BY <1>1, <1>3, <1>4, <1>6, <1>8, RouteTypes, PinnedPins, RouteParts
<1> QED
    BY <1>2, <1>7, <1>8

LEMMA AutoConnectedRoute ==
    ASSUME TypeInv, RouteInv, NEW s \in Session, AutoConnected(s)
    PROVE  RouteInv'
<1> DEFINE row == RowOf(s, pump[s].tid)
<1>1. Resuming(s, "autoConnect") /\ UNCHANGED durable
    BY DEF AutoConnected, Resuming
<1>2. PICK c \in Client :
        /\ Free(s, c)
        /\ Await(s, sess[s], Enqueue([conn EXCEPT ![c].holder = s], c, "pump", s,
                                     "DATA", row), "autoQuery", Null)
    BY DEF AutoConnected
<1>3. row.tid = pump[s].tid /\ HostOf[c] = ShardOf[pump[s].tid]
    BY <1>2 DEF Free, RowOf
<1>4. [conn EXCEPT ![c].holder = s] \in Conns /\ Placed([conn EXCEPT ![c].holder = s])
    BY RouteTypes, HoldType, HolderPlaced
<1>5. Placed(Enqueue([conn EXCEPT ![c].holder = s], c, "pump", s, "DATA", row))
    <2> HIDE DEF row
    <2> QED
        BY <1>3, <1>4, EnqueuePlaced
<1>6. PinInv(sess[s], "autoQuery", Null)
    BY <1>1, RouteTypes, PinAwait DEF Resuming
<1> QED
    BY <1>1, <1>2, <1>5, <1>6, RouteTypes, AwaitPins, RouteParts

LEMMA MessageRoute ==
    ASSUME TypeInv, RouteInv, NEW s \in Session,
           Receive(s) \/ TakeMessage(s) \/ FinishMessage(s)
    PROVE  RouteInv'
<1>1. CASE Receive(s)
    BY <1>1 DEF Receive, RouteInv, Pins, Placed, DurablePlaced
<1>2. CASE TakeMessage(s)
    <2>1. PinInv(sess[s], "run", Null)
        BY <1>2, RouteTypes, PinAwait DEF TakeMessage
    <2>2. Pins'
        BY <1>2, <2>1, RouteTypes DEF TakeMessage, Pins, TypeInv, TypeOK
    <2> QED
        BY <1>2, <2>2, RouteTypes, RouteParts DEF TakeMessage, ghosts
<1>3. CASE FinishMessage(s)
    <2> DEFINE ss == [sess[s] EXCEPT !.txStatus = IF sess[s].inTx THEN "T" ELSE "I"]
    <2>1. PinInv(sess[s], "idle", Null)
        BY <1>3, RouteTypes, PinAwait DEF FinishMessage
    <2>2. PinInv(ss, "idle", Null)
        BY <2>1, RouteTypes, PinFields DEF SessionState
    <2> QED
        BY <1>3, <2>2, RouteTypes, AnsweredPins, RouteParts DEF FinishMessage, ghosts
<1> QED
    BY <1>1, <1>2, <1>3

LEMMA CleanupRoute ==
    ASSUME TypeInv, RouteInv, NEW s \in Session, SocketError(s) \/ SocketClose(s)
    PROVE  RouteInv'
<1>1. Cleanup(s) /\ "socket" \in Faults
    BY DEF SocketError, SocketClose
<1>2. CASE sess[s].txClient # Null
    <2>1. sess[s].txClient \in Client
        BY <1>2, RouteTypes DEF SessionState
    <2>2. Placed(Enqueue(conn, sess[s].txClient, "cleanup", s, "ROLLBACK", Null))
        BY <1>1, <2>1, RouteTypes, EnqueuePlaced
    <2> QED
        BY <1>1, <1>2, <2>2, RouteTypes, RouteParts DEF Cleanup, Pins, ghosts
<1>3. CASE sess[s].txClient = Null
    <2>1. PinInv(Unpinned(sess[s]), pump[s].pc, pump[s].tid)
        BY <1>1, <1>3, RouteTypes, UnpinnedFields, FreePin
    <2>2. Pins'
        BY <1>1, <1>3, <2>1 DEF Cleanup, Pins, RouteInv, TypeInv, TypeOK
    <2> QED
        BY <1>1, <1>3, <2>2, RouteTypes, RouteParts DEF Cleanup, ghosts
<1> QED
    BY <1>2, <1>3

LEMMA CrashPins ==
    ASSUME Crash
    PROVE  Pins' /\ Placed(conn')
<1>1. Pins'
    BY FreePin DEF Crash, Pins, NewSession, IdlePump
<1>2. Placed(conn')
    BY EmptySeq DEF Crash, Placed, ClientPlaced, IdleConn
<1> QED
    BY <1>1, <1>2

LEMMA ResumePumpPins ==
    ASSUME TypeInv, RouteInv, NEW s \in Session, NEW c \in Client, NEW r, NEW ok,
           NEW cn \in Conns, Placed(cn), ResumePump(s, c, r, ok, cn)
    PROVE  Pins' /\ Placed(conn')
<1>1. pump[s].pc # "pinConnect" /\ Placed(Release(cn, c))
    BY HolderPlaced DEF ResumePump, GiveBack
<1>2. PinInv(sess[s], "run", Null) /\ PinInv(sess[s], "idle", Null)
    BY <1>1, RouteTypes, PinAwait
<1>3. CASE /\ pump[s].pc = "pinBegin"
           /\ Pinned(s, [sess[s] EXCEPT !.backendInTx = TRUE], cn)
    <2> DEFINE ss == [sess[s] EXCEPT !.backendInTx = TRUE]
    <2>1. /\ ss \in SessionState /\ ss.txClient = sess[s].txClient
          /\ ss.pinnedIndex = sess[s].pinnedIndex
        BY RouteTypes DEF SessionState
    <2>2. PinInv(ss, "run", Null)
        BY <1>2, <2>1, PinFields
    <2>3. ss.txClient # Null => HostOf[ss.txClient] = ShardOf[pump[s].tid]
        BY <1>3, <2>1, RouteTypes DEF PinInv
    <2> QED
        BY <1>3, <2>1, <2>2, <2>3, RouteTypes, PinnedPins
<1>4. CASE Done(s, sess[s], cn) \/ Done(s, sess[s], Release(cn, c))
    BY <1>1, <1>2, <1>4, RouteTypes, DonePins
<1>5. CASE Throw(s, sess[s], cn) \/ Throw(s, sess[s], Release(cn, c))
    BY <1>1, <1>2, <1>5, RouteTypes, ThrowPins
<1>6. CASE sess[s].txClient # Null /\ EndTx(s, Release(cn, sess[s].txClient))
    <2>1. sess[s].txClient \in Client
        BY <1>6, RouteTypes DEF SessionState
    <2> QED
        BY <1>6, <2>1, HolderPlaced, EndTxPins
<1> QED
    BY <1>3, <1>4, <1>5, <1>6 DEF ResumePump, GiveBack

LEMMA ResumeCleanupPins ==
    ASSUME TypeInv, RouteInv, NEW s \in Session, NEW cn \in Conns, Placed(cn),
           "socket" \in Faults, ResumeCleanup(s, cn)
    PROVE  Pins' /\ Placed(conn')
<1>1. CASE sess[s].txClient = Null
    BY <1>1, CrashPins DEF ResumeCleanup, GiveBack
<1>2. CASE sess[s].txClient # Null
    <2> DEFINE ss == [Unpinned(sess[s]) EXCEPT !.txClient = Null]
    <2>1. /\ sess' = [sess EXCEPT ![s] = ss]
          /\ conn' = Release(cn, sess[s].txClient)
          /\ pump' = pump
        BY <1>2 DEF ResumeCleanup, GiveBack
    <2>2. PinInv(ss, pump[s].pc, pump[s].tid)
        BY RouteTypes, UnpinnedFields, FreePin
    <2>3. Pins'
        <3> HIDE DEF ss
        <3> QED
            BY <2>1, <2>2 DEF Pins, RouteInv, TypeInv, TypeOK
    <2>4. sess[s].txClient \in Client
        BY <1>2, RouteTypes DEF SessionState
    <2> QED
        BY <2>1, <2>3, <2>4, HolderPlaced
<1> QED
    BY <1>1, <1>2

LEMMA ServeRoute ==
    ASSUME TypeInv, RouteInv, NEW c \in Client, Serve(c)
    PROVE  RouteInv'
<1> DEFINE k == conn[c]
           r == Head(k.queue)
           cn(ok) == [conn EXCEPT ![c] = [holder |-> k.holder,
                                          queue |-> Tail(k.queue),
                                          tx |-> TxAfter(k, r, ok),
                                          work |-> WorkAfter(k, r, ok)]]
<1>1. conn[c].queue # << >>
    BY DEF Serve
<1>2. PICK ok \in BOOLEAN :
        /\ durable' = [durable EXCEPT ![HostOf[c]] = @ \cup RowsCommitted(k, r, ok)]
        /\ \/ ResumePump(r.s, c, r, ok, cn(ok))
           \/ r.by = "cleanup" /\ ResumeCleanup(r.s, cn(ok))
    BY DEF Serve
<1> HIDE DEF r, cn
<1>3. r \in Request /\ cn(ok) \in Conns
    BY <1>1, ServedType DEF TypeInv, r, cn
<1>4. /\ Placed(cn(ok))
      /\ \A row \in RowsCommitted(k, r, ok) : ShardOf[row.tid] = HostOf[c]
      /\ r.by = "cleanup" => "socket" \in Faults
    BY <1>1, ServedPlaced DEF TypeInv, RouteInv, r, cn
<1>5. r.s \in Session
    BY <1>3 DEF Request
<1>6. Pins' /\ Placed(conn')
    BY <1>2, <1>3, <1>4, <1>5, ResumePumpPins, ResumeCleanupPins
<1>7. DurablePlaced'
    BY <1>2, <1>4 DEF DurablePlaced, RouteInv, TypeInv, TypeOK
<1> QED
    BY <1>6, <1>7 DEF RouteInv, Placed

LEMMA BackendLostRoute ==
    ASSUME TypeInv, RouteInv, NEW c \in Client, BackendLost(c)
    PROVE  RouteInv'
<1> DEFINE r == Head(conn[c].queue)
<1>1. CASE /\ Autocommits(c) /\ Len(conn[c].queue) = 1
           /\ \E rows \in {{}, {r.row}} :
                durable' = [durable EXCEPT ![HostOf[c]] = @ \cup rows]
           /\ Throw(r.s, sess[r.s], [conn EXCEPT ![c] = IdleConn])
    <2>1. conn[c].queue \in Seq(Request)
        BY DEF TypeInv, TypeOK, Connection
    <2>2. r = conn[c].queue[1] /\ r \in Request
        BY <1>1, <2>1, HeadTailProperties, EmptySeq
    <2>3. r.op = "DATA" /\ pump[r.s].pc = "autoQuery"
        BY <1>1, <2>1, <2>2 DEF Autocommits
    <2>4. r.s \in Session
        BY <2>2 DEF Request
    <2>5. ShardOf[r.row.tid] = HostOf[c]
        <3>1. ClientPlaced(conn[c], HostOf[c])
            BY DEF RouteInv, Placed
        <3>2. 1 \in 1..Len(conn[c].queue)
            BY <1>1
        <3>3. RequestPlaced(r, HostOf[c])
            BY <2>2, <3>1, <3>2 DEF ClientPlaced
        <3> QED
            BY <2>3, <3>3 DEF RequestPlaced
    <2>6. DurablePlaced'
        BY <1>1, <2>5 DEF DurablePlaced, RouteInv, TypeInv, TypeOK
    <2> HIDE DEF r
    <2>7. PinInv(sess[r.s], "idle", Null)
        BY <2>3, <2>4, RouteTypes, PinAwait
    <2>8. Placed([conn EXCEPT ![c] = IdleConn])
        BY EmptySeq DEF RouteInv, Placed, ClientPlaced, IdleConn, TypeInv, TypeOK
    <2>9. Pins' /\ Placed(conn')
        BY <1>1, <2>4, <2>7, <2>8, ThrowPins DEF RouteInv
    <2> QED
        BY <2>6, <2>9 DEF RouteInv, Placed
<1>2. CASE Crash /\ UNCHANGED durable
    BY <1>2, CrashPins, RouteParts
<1> QED
    BY <1>1, <1>2 DEF BackendLost

---------------------------------------------------------------------------
LEMMA RouteInit == Init => RouteInv
<1> SUFFICES ASSUME Init PROVE RouteInv
    OBVIOUS
<1>1. Pins
    BY FreePin DEF Init, Pins, NewSession, IdlePump
<1>2. Placed(conn)
    BY EmptySeq DEF Init, Placed, ClientPlaced, IdleConn
<1> QED
    BY <1>1, <1>2 DEF Init, RouteInv, DurablePlaced

LEMMA RouteStep ==
    ASSUME "socket" \notin Faults \/ "connect" \notin Faults
    PROVE  TypeInv /\ RouteInv /\ [Next]_vars => RouteInv'
<1> SUFFICES ASSUME TypeInv, RouteInv, [Next]_vars PROVE RouteInv'
    OBVIOUS
<1>1. ASSUME NEW s \in Session,
             \/ Receive(s) \/ TakeMessage(s) \/ FinishMessage(s)
             \/ SocketError(s) \/ SocketClose(s)
      PROVE  RouteInv'
    BY <1>1, MessageRoute, CleanupRoute
<1>2. ASSUME NEW s \in Session,
             SetTid(s) \/ ResetTid(s) \/ Begin(s) \/ EndStatement(s) \/ Data(s)
      PROVE  RouteInv'
    BY <1>2, SetResetRoute, BeginRoute, EndStatementRoute, DataRoute
<1>3. ASSUME NEW s \in Session,
             \/ LookupFails(s) \/ SetLookupReply(s) \/ PinLookupReply(s)
             \/ AutoLookupReply(s)
             \/ ConnectFails(s) \/ PinConnected(s) \/ AutoConnected(s)
      PROVE  RouteInv'
    BY <1>3, LookupFailsRoute, SetLookupReplyRoute, PinLookupReplyRoute,
       AutoLookupReplyRoute, ConnectFailsRoute, PinConnectedRoute,
       AutoConnectedRoute
<1>4. ASSUME NEW c \in Client, Serve(c) \/ BackendLost(c)
      PROVE  RouteInv'
    BY <1>4, ServeRoute, BackendLostRoute
<1>5. CASE UNCHANGED vars
    BY <1>5 DEF vars, RouteInv, Pins, Placed, DurablePlaced
<1>6. ASSUME NEW s \in Session, Step(s) PROVE RouteInv'
    BY <1>1, <1>2, <1>3, <1>6 DEF Step
<1>7. ASSUME NEW s \in Session, ConnectFails(s) PROVE RouteInv'
    BY <1>3, <1>7
<1>8. ASSUME NEW s \in Session, Receive(s) \/ SocketError(s) \/ SocketClose(s)
      PROVE  RouteInv'
    BY <1>1, <1>8
<1> QED
    BY <1>4, <1>5, <1>6, <1>7, <1>8 DEF Next

LEMMA RouteInvRoutes == RouteInv => RoutedByTid
BY DEF RouteInv, Placed, ClientPlaced, DurablePlaced, RoutedByTid, RowsAt

\* A tenant's statement runs on the shard the Lookup service places its tid on,
\* in and out of transactions, across pipelined messages, SQL errors, lost
\* backends, and disconnects at any await, unless connects fail as well: the
\* run session_misrouted shows what session.ts does when both happen.
THEOREM RoutingCorrect ==
    ASSUME "socket" \notin Faults \/ "connect" \notin Faults
    PROVE  Spec => []RoutedByTid
<1>1. Init => RouteInv
    BY RouteInit
<1>2. TypeInv /\ RouteInv /\ [Next]_vars => RouteInv'
    BY RouteStep
<1>3. RouteInv => RoutedByTid
    BY RouteInvRoutes
<1> QED
    BY <1>1, <1>2, <1>3, TypeInvHolds, PTL DEF Spec
===========================================================================
