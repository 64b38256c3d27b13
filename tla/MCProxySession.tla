-------------------------- MODULE MCProxySession --------------------------
(***************************************************************************)
(* Instances of ProxySession for TLC: two shards with one backend          *)
(* connection each, and three tids, of which tA and tC share a shard.      *)
(***************************************************************************)
EXTENDS ProxySession, TLC

CONSTANTS s1, s2, tA, tB, tC, hA, hB, a1, b1

MCShardOf == (tA :> hA) @@ (tB :> hB) @@ (tC :> hA)
MCHostOf == (a1 :> hA) @@ (b1 :> hB)

Set(tid) == [op |-> "set", tid |-> tid]
Reset == [op |-> "reset", tid |-> Null]
BeginTx == [op |-> "begin", tid |-> Null]
CommitTx == [op |-> "commit", tid |-> Null]
RollbackTx == [op |-> "rollback", tid |-> Null]
Write == [op |-> "data", tid |-> Null]

ThreeAndTwo == (s1 :> 3) @@ (s2 :> 2)
TwoEach == (s1 :> 2) @@ (s2 :> 2)
Alone(n) == s1 :> n
FourAlone == Alone(4)
FiveAlone == Alone(5)

\* Transactions in few messages, so that two sessions can contend: messages
\* that open, continue, move and end a transaction, and autocommit writes.
TxBatches ==
    {<<Set(tA), BeginTx, Write>>, <<Write, CommitTx>>,
     <<BeginTx, Set(tB), Write>>, <<Set(tC), Write, Reset>>,
     <<RollbackTx, Set(Null)>>}

\* One statement per message, as drivers send them.
SingleStatements ==
    {<<Set(tA)>>, <<Set(tB)>>, <<BeginTx>>, <<CommitTx>>, <<Write>>}

\* Messages of clients that disconnect.
DisconnectBatches ==
    {<<Set(tA), BeginTx>>, <<Set(tB), Write>>, <<Write, CommitTx>>}

\* Rows of the instance, for TLC to enumerate: no instance begins more
\* transactions in a session than it sends messages.
MCRow == [s : Session, unit : 0..2, tid : Tid, tx : BOOLEAN]

Promise == INSTANCE RoutedTransactions
               WITH Row <- MCRow, open <- [s \in Session |-> OpenRows(s)]

\* The sessions keep the proxy's promise: every step is a step of
\* RoutedTransactions or leaves its state alone.
KeepsPromise == Promise!Spec
===========================================================================
