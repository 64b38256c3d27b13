------------------------ MODULE RoutedTransactions ------------------------
(***************************************************************************)
(* What the routing proxy promises its clients, without pools, pins or     *)
(* sockets (openspec ha-proxy-sp-tid-no-preload, INTEGRATION.md "Wire      *)
(* contract"): a statement runs on the one shard its tid is placed on; the *)
(* statements of a transaction become durable together, at its COMMIT, on  *)
(* one shard; and outside a transaction a statement is durable at once.    *)
(***************************************************************************)
CONSTANTS Session, Shard, Row, ShardOf

VARIABLES
    durable,    \* durable[h]: committed rows of shard h
    open        \* open[s]: rows of the open transaction of session s

vars == <<durable, open>>

Init ==
    /\ durable = [h \in Shard |-> {}]
    /\ open = [s \in Session |-> {}]

Autocommit(r) ==
    /\ ~r.tx
    /\ durable' = [durable EXCEPT ![ShardOf[r.tid]] = @ \cup {r}]
    /\ UNCHANGED open

\* Every row of a transaction belongs to one unit of work and one shard.
Write(r) ==
    /\ r.tx
    /\ \A q \in open[r.s] : q.unit = r.unit /\ ShardOf[q.tid] = ShardOf[r.tid]
    /\ open' = [open EXCEPT ![r.s] = @ \cup {r}]
    /\ UNCHANGED durable

Commit(s) ==
    /\ open[s] # {}
    /\ durable' = [h \in Shard |->
                     durable[h] \cup {r \in open[s] : ShardOf[r.tid] = h}]
    /\ open' = [open EXCEPT ![s] = {}]

Abort(s) ==
    /\ open' = [open EXCEPT ![s] = {}]
    /\ UNCHANGED durable

\* The proxy's process ends, and every transaction with it.
Crash ==
    /\ open' = [s \in Session |-> {}]
    /\ UNCHANGED durable

Next ==
    \/ \E r \in Row : Autocommit(r) \/ Write(r)
    \/ \E s \in Session : Commit(s) \/ Abort(s)
    \/ Crash

Spec == Init /\ [][Next]_vars
===========================================================================
