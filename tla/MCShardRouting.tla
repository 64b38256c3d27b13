--------------------------- MODULE MCShardRouting ---------------------------
(***************************************************************************)
(* Instances of ShardRouting for TLC.                                      *)
(***************************************************************************)
EXTENDS ShardRouting

CONSTANTS pool1, client1, tid1

Offer(target, kind, tid) == [target |-> target, kind |-> kind, tid |-> tid]

\* Routed, fanned out, broadcast and rejected queries, and a transaction.
SomeOffers ==
    {Offer(pool1, "insert", tid1), Offer(pool1, "select", Undef),
     Offer(client1, "begin", tid1), Offer(client1, "insert", tid1),
     Offer(client1, "call", All)}
=============================================================================
