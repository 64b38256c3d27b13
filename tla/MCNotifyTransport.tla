------------------------- MODULE MCNotifyTransport -------------------------
(***************************************************************************)
(* Instances of NotifyTransport for TLC.                                   *)
(***************************************************************************)
EXTENDS NotifyTransport

CONSTANTS client, orders, jobs, q1, q2, w1, w2, w3
============================================================================
