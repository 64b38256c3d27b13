----------------------- MODULE ProxySessionTxProofs -----------------------
(***************************************************************************)
(* Theorems about ProxySession's transactions, for instances in which      *)
(* sockets do not break.  What cleanup() does beside a suspended pump is   *)
(* shown by the runs session_abandoned and session_misrouted, and what     *)
(* holds all the same is proved in ProxySessionSocketProofs.               *)
(*                                                                         *)
(* The properties say where rows and clients are.  That they hold depends  *)
(* on what each await of a session holds: ClientsInv says it of the pooled *)
(* clients, UnitInv of the session's object, LedgerInv of what the clients *)
(* were told.  The last part is the refinement of RoutedTransactions.      *)
(***************************************************************************)
EXTENDS ProxySessionProofs

\* The awaits of a request that a session has queued on a client.
Waiting == {"pinBegin", "txQuery", "endQuery", "autoQuery"}

\* A row of the transaction that the client of session s is in.
OwnRow(r, s, h) == r.s = s /\ r.unit = h.unit /\ r.tx

\* The request that pump p of session s awaits is the only one on client k.
Only(k, s, op) ==
    /\ k.queue # << >>
    /\ Tail(k.queue) = << >>
    /\ Head(k.queue).by = "pump" /\ Head(k.queue).s = s /\ Head(k.queue).op = op

\* What an ending statement at the head of message p is sent as.
Tag(p) == IF Head(p.stmts).op = "commit" THEN "COMMIT" ELSE "ROLLBACK"

\* Client k, while it is the txClient of session s: its transaction is the client's
\* unit of work, and stays open until the unit has ended or failed.
TxHeld(k, s, p, h) ==
    /\ k.holder = s
    /\ \A r \in k.work : OwnRow(r, s, h)
    /\ k.tx # "open" => k.work = {}
    /\ IF p.pc = "pinBegin" THEN k.tx = "idle" /\ Only(k, s, "BEGIN")
       ELSE /\ k.tx = "open" \/ ~h.clean
            /\ k.tx = "idle" => "commit" \in Faults
    /\ p.pc = "txQuery" => Only(k, s, "DATA") /\ OwnRow(Head(k.queue).row, s, h)
    /\ p.pc = "endQuery" => Only(k, s, Tag(p))
    /\ p.pc \notin Waiting => k.queue = << >>

\* Client k, while it runs one statement of session s outside a transaction.
AutoHeld(k, s, p) ==
    /\ p.pc = "autoQuery"
    /\ k.tx = "idle" /\ k.work = {}
    /\ Only(k, s, "DATA") /\ Head(k.queue).row.s = s /\ ~Head(k.queue).row.tx

\* Client k of the pool.
Pooled(k) == k.tx = "idle" /\ k.queue = << >> /\ k.work = {}

\* What session s with object ss, pump p and history h has to do with client c.
Holding(c, k, s, ss, p, h) ==
    IF ss.txClient = c THEN TxHeld(k, s, p, h)
    ELSE k.holder = s => AutoHeld(k, s, p)

ClientsInv ==
    /\ \A c \in Client, s \in Session :
         Holding(c, conn[c], s, sess[s], pump[s], hist[s])
    /\ \A c \in Client : conn[c].holder = Null => Pooled(conn[c])
    /\ \A c, d \in Client :
         conn[c].holder = conn[d].holder /\ conn[c].holder # Null => c = d

\* The session's object agrees with the client's view and with the await; on says that
\* the process runs.
Unit(ss, p, h, on) ==
    /\ on => (ss.inTx <=> h.open)
    /\ ss.txClient # Null => on /\ ss.inTx
    /\ ss.backendInTx => ss.txClient # Null
    /\ p.pc \in {"pinLookup", "pinConnect", "pinBegin", "txQuery"} => ss.inTx
    /\ p.pc \in {"autoLookup", "autoConnect", "autoQuery"} => ~ss.inTx
    /\ p.pc \in {"pinBegin", "txQuery", "endQuery"} => ss.txClient # Null
    /\ p.pc = "endQuery" => Head(p.stmts).op \in {"commit", "rollback"}

UnitInv == \A s \in Session : Unit(sess[s], pump[s], hist[s], up)

\* Row r is of the transaction that session s is in.
Current(r, s) == up /\ hist[s].open /\ r.unit = hist[s].unit

\* The COMMITs of session s are of units that are over.
EndedPast(s) ==
    \A e \in ended : e.s = s =>
        e.unit <= hist[s].unit /\ (e.unit = hist[s].unit => ~hist[s].open)

\* What was acknowledged in a transaction without an error is in its backend.
AckedHeld(s) ==
    \A r \in acked : r.s = s /\ r.tx =>
        /\ r.unit <= hist[s].unit
        /\ Current(r, s) /\ hist[s].clean =>
             sess[s].txClient # Null /\ r \in conn[sess[s].txClient].work

\* What is durable of an open transaction, after a COMMIT that failed, is where its
\* client is.
DurableHere(s) ==
    \A h \in Shard : \A r \in durable[h] : r.s = s /\ r.tx =>
        /\ r.unit <= hist[s].unit
        /\ Current(r, s) => sess[s].txClient # Null /\ HostOf[sess[s].txClient] = h

DurableTogether(s) ==
    \A h, g \in Shard : \A r \in durable[h], q \in durable[g] :
        r.s = s /\ SameTx(r, q) => h = g

DurableEnded(s) ==
    "commit" \notin Faults =>
        \A h \in Shard : \A r \in durable[h] : r.s = s /\ r.tx =>
            \E e \in ended : e.s = s /\ e.unit = r.unit

CommitKept(s) ==
    \A e \in ended : e.s = s /\ e.told =>
        \A r \in acked : r.tx /\ r.s = s /\ r.unit = e.unit =>
            \E h \in Shard : r \in durable[h]

Ledger(s) ==
    /\ EndedPast(s) /\ AckedHeld(s) /\ DurableHere(s)
    /\ DurableTogether(s) /\ DurableEnded(s) /\ CommitKept(s)

LedgerInv == \A s \in Session : Ledger(s)

TxInv == UnitInv /\ ClientsInv /\ LedgerInv

---------------------------------------------------------------------------
(***************************************************************************)
(* What a step of session s leaves alone.                                  *)
(***************************************************************************)
\* A step that changes at most session s.
OnlySession(s) ==
    \A q \in Session \ {s} :
        sess'[q] = sess[q] /\ pump'[q] = pump[q] /\ hist'[q] = hist[q]

\* A step of session s that changes at most client c, which nobody else holds.
OnlyClient(s, c) ==
    /\ \A d \in Client \ {c} : conn'[d] = conn[d]
    /\ conn[c].holder \in {Null, s}

\* What is new in the ledgers is of session s.
OnlyRows(s) ==
    /\ \A h \in Shard : durable[h] \subseteq durable'[h]
    /\ \A h \in Shard : \A r \in durable'[h] : r.s = s \/ r \in durable[h]
    /\ \A r \in acked' : r.s = s \/ r \in acked
    /\ ended \subseteq ended'
    /\ \A e \in ended' : e.s = s \/ e \in ended

\* A step that leaves the ledgers alone.
SameLedger == durable' = durable /\ acked' = acked /\ ended' = ended

\* The types that the lemmas need.
LEMMA FieldTypes ==
    ASSUME TypeInv, NEW s \in Session
    PROVE  /\ sess[s] \in SessionState /\ pump[s] \in Pump
           /\ hist[s] \in History /\ conn \in Conns
           /\ sess[s].txClient \in Client \cup {Null}
           /\ s # Null
           /\ up \in BOOLEAN
           /\ sess[s].inTx \in BOOLEAN /\ sess[s].backendInTx \in BOOLEAN
           /\ hist[s].open \in BOOLEAN /\ hist[s].clean \in BOOLEAN
           /\ hist[s].unit \in Nat
BY ConstantsAssumption DEF TypeInv, TypeOK, Conns, SessionState, History

\* A pooled client's record.
LEMMA ClientType ==
    ASSUME TypeInv, NEW c \in Client
    PROVE  /\ conn[c] \in Connection
           /\ conn[c].queue \in Seq(Request)
           /\ conn[c].holder \in Session \cup {Null}
           /\ conn[c].work \in SUBSET Row
           /\ c # Null
BY ConstantsAssumption DEF TypeInv, TypeOK, Connection

\* Only session s changes, and its Unit holds.
LEMMA UnitFrame ==
    ASSUME UnitInv, NEW s \in Session, OnlySession(s), up' = up,
           Unit(sess'[s], pump'[s], hist'[s], up)
    PROVE  UnitInv'
BY DEF UnitInv, OnlySession

\* A session that holds no client of the pool has nothing to do with any.
LEMMA NoClientHolding ==
    ASSUME NEW s \in Session, NEW c \in Client, NEW k, NEW ss, NEW p, NEW h,
           ss.txClient # c, k.holder # s
    PROVE  Holding(c, k, s, ss, p, h)
BY DEF Holding

\* Who is the holder of a session's clients.
LEMMA HolderOf ==
    ASSUME TypeInv, ClientsInv, NEW s \in Session
    PROVE  /\ sess[s].txClient # Null =>
                /\ sess[s].txClient \in Client
                /\ conn[sess[s].txClient].holder = s
                /\ TxHeld(conn[sess[s].txClient], s, pump[s], hist[s])
           /\ \A c \in Client : conn[c].holder = s /\ sess[s].txClient # c
                => AutoHeld(conn[c], s, pump[s])
<1>1. sess[s].txClient \in Client \cup {Null}
    BY FieldTypes
<1>2. \A c \in Client : Holding(c, conn[c], s, sess[s], pump[s], hist[s])
    BY DEF ClientsInv
<1>3. \A c \in Client : sess[s].txClient = c => TxHeld(conn[c], s, pump[s], hist[s])
    BY <1>2 DEF Holding
<1>4. \A c \in Client : TxHeld(conn[c], s, pump[s], hist[s]) => conn[c].holder = s
    BY DEF TxHeld
<1>5. \A c \in Client : conn[c].holder = s /\ sess[s].txClient # c
        => AutoHeld(conn[c], s, pump[s])
    BY <1>2 DEF Holding
<1> QED
    BY <1>1, <1>3, <1>4, <1>5

\* A session that awaits no query, or is in no transaction at all, holds no client
\* but its txClient.
LEMMA NothingElse ==
    ASSUME TypeInv, ClientsInv, NEW s \in Session, pump[s].pc # "autoQuery",
           NEW c \in Client, conn[c].holder = s
    PROVE  sess[s].txClient = c
BY HolderOf DEF AutoHeld

\* The step of a session changes one client, which the session holds before or after.
LEMMA ClientFrame ==
    ASSUME TypeInv, ClientsInv, NEW s \in Session, NEW c \in Client,
           OnlySession(s), OnlyClient(s, c),
           conn'[c].holder \in {Null, s},
           conn[c].holder = s \/ \A d \in Client : conn[d].holder # s,
           sess'[s].txClient \in {c, Null},
           Holding(c, conn'[c], s, sess'[s], pump'[s], hist'[s]),
           conn'[c].holder = Null => Pooled(conn'[c])
    PROVE  ClientsInv'
<1>2. s # Null /\ c # Null /\ Null \notin Client
    BY FieldTypes, ClientType, ConstantsAssumption
<1>1. \A d \in Client \ {c} : conn[d].holder # s
    BY <1>2 DEF OnlyClient, ClientsInv
<1>3. ASSUME NEW d \in Client, NEW q \in Session
      PROVE  Holding(d, conn'[d], q, sess'[q], pump'[q], hist'[q])
    <2>1. CASE q = s /\ d = c
        BY <2>1
    <2>2. CASE q = s /\ d # c
        <3>1. conn'[d].holder # s /\ sess'[s].txClient # d
            BY <1>1, <1>2, <2>2 DEF OnlyClient
        <3> QED
            BY <2>2, <3>1, NoClientHolding
    <2>3. CASE q # s /\ d # c
        <3>1. Holding(d, conn[d], q, sess[q], pump[q], hist[q])
            BY DEF ClientsInv
        <3> QED
            BY <2>3, <3>1 DEF OnlySession, OnlyClient
    <2>4. CASE q # s /\ d = c
        <3>1. conn[c].holder # q /\ conn'[c].holder # q
            BY <1>2, <2>4, FieldTypes DEF OnlyClient
        <3>2. sess[q].txClient # c
            BY <1>2, <3>1, HolderOf
        <3> QED
            BY <2>4, <3>1, <3>2, NoClientHolding DEF OnlySession
    <2> QED
        BY <2>1, <2>2, <2>3, <2>4
<1>4. ASSUME NEW d \in Client, conn'[d].holder = Null
      PROVE  Pooled(conn'[d])
    BY <1>4 DEF ClientsInv, OnlyClient
<1>5. ASSUME NEW d \in Client, NEW b \in Client,
             conn'[d].holder = conn'[b].holder, conn'[d].holder # Null
      PROVE  d = b
    <2>1. CASE d # c /\ b # c
        BY <1>5, <2>1 DEF ClientsInv, OnlyClient
    <2>2. CASE d = c /\ b # c
        BY <1>1, <1>5, <2>2 DEF OnlyClient
    <2>3. CASE d # c /\ b = c
        BY <1>1, <1>5, <2>3 DEF OnlyClient
    <2> QED
        BY <2>1, <2>2, <2>3
<1> QED
    BY <1>3, <1>4, <1>5 DEF ClientsInv

\* What a session says about its client depends on little while it queues nothing.
LEMMA CalmHeld ==
    ASSUME NEW k, NEW s, NEW p, NEW h, NEW to, NEW g,
           TxHeld(k, s, p, h), p.pc \notin Waiting, to.pc \notin Waiting,
           g.unit = h.unit, g.clean => h.clean, g.clean \in BOOLEAN, h.clean \in BOOLEAN
    PROVE  TxHeld(k, s, to, g)
BY DEF TxHeld, Waiting, OwnRow

\* The clients stay as they are, and session s goes from one await to another while
\* it has nothing queued.
LEMMA ClientStays ==
    ASSUME TypeInv, TypeInv', ClientsInv, NEW s \in Session, OnlySession(s),
           conn' = conn, pump[s].pc \notin Waiting, pump'[s].pc \notin Waiting,
           sess'[s].txClient = sess[s].txClient,
           sess[s].txClient # Null =>
             hist'[s].unit = hist[s].unit /\ (hist'[s].clean => hist[s].clean)
    PROVE  ClientsInv'
<1>1. ASSUME NEW d \in Client, NEW q \in Session
      PROVE  Holding(d, conn'[d], q, sess'[q], pump'[q], hist'[q])
    <2>1. Holding(d, conn[d], q, sess[q], pump[q], hist[q])
        BY DEF ClientsInv
    <2>2. CASE q # s
        BY <2>1, <2>2 DEF OnlySession
    <2>3. CASE q = s /\ sess[s].txClient = d
        <3>1. d # Null /\ hist[s].clean \in BOOLEAN /\ hist'[s].clean \in BOOLEAN
            BY ClientType, FieldTypes DEF TypeInv, TypeOK, History
        <3>2. TxHeld(conn[d], s, pump[s], hist[s])
            BY <2>1, <2>3 DEF Holding
        <3>3. TxHeld(conn[d], s, pump'[s], hist'[s])
            BY <2>3, <3>1, <3>2, CalmHeld
        <3> QED
            BY <2>3, <3>3 DEF Holding
    <2>4. CASE q = s /\ sess[s].txClient # d
        <3>1. conn[d].holder # s
            BY <2>4, NothingElse DEF Waiting
        <3> QED
            BY <2>4, <3>1, NoClientHolding
    <2> QED
        BY <2>2, <2>3, <2>4
<1> QED
    BY <1>1 DEF ClientsInv

---------------------------------------------------------------------------
(***************************************************************************)
(* The ledgers.                                                            *)
(***************************************************************************)
\* A session's part of the ledgers holds on while nothing is added to it and its
\* client and its unit of work stay, or are over.
LEMMA LedgerStays ==
    ASSUME TypeInv, TypeInv', NEW q \in Session, Ledger(q), up' => up,
           hist'[q].unit = hist[q].unit, hist'[q].open => hist[q].open,
           up' /\ hist'[q].open /\ sess[q].txClient # Null
             => sess'[q].txClient = sess[q].txClient,
           up' /\ hist'[q].open /\ hist'[q].clean
             => /\ hist[q].clean
                /\ sess[q].txClient # Null =>
                     \A r \in acked : OwnRow(r, q, hist[q])
                          /\ r \in conn[sess[q].txClient].work
                        => r \in conn'[sess[q].txClient].work,
           \A h \in Shard : durable[h] \subseteq durable'[h],
           \A h \in Shard : \A r \in durable'[h] : r.s = q /\ r.tx => r \in durable[h],
           \A r \in acked' : r.s = q /\ r.tx => r \in acked,
           ended \subseteq ended',
           \A e \in ended' : e.s = q => e \in ended
    PROVE  Ledger(q)'
<1>1. EndedPast(q)'
    BY FieldTypes DEF Ledger, EndedPast
<1>2. AckedHeld(q)'
    <2> SUFFICES ASSUME NEW r \in acked', r.s = q, r.tx
                 PROVE  /\ r.unit <= hist'[q].unit
                        /\ Current(r, q)' /\ hist'[q].clean =>
                             /\ sess'[q].txClient # Null
                             /\ r \in conn'[sess'[q].txClient].work
        BY DEF AckedHeld
    <2>1. /\ r.unit <= hist[q].unit
          /\ Current(r, q) /\ hist[q].clean =>
               sess[q].txClient # Null /\ r \in conn[sess[q].txClient].work
        BY DEF Ledger, AckedHeld
    <2> QED
        BY <2>1 DEF Current, OwnRow
<1>3. DurableHere(q)'
    <2> SUFFICES ASSUME NEW h \in Shard, NEW r \in durable'[h], r.s = q, r.tx
                 PROVE  /\ r.unit <= hist'[q].unit
                        /\ Current(r, q)' =>
                             /\ sess'[q].txClient # Null
                             /\ HostOf[sess'[q].txClient] = h
        BY DEF DurableHere
    <2>1. /\ r.unit <= hist[q].unit
          /\ Current(r, q) => sess[q].txClient # Null /\ HostOf[sess[q].txClient] = h
        BY DEF Ledger, DurableHere
    <2> QED
        BY <2>1 DEF Current
<1>4. DurableTogether(q)'
    <2> SUFFICES ASSUME NEW h \in Shard, NEW g \in Shard, NEW r \in durable'[h],
                        NEW x \in durable'[g], r.s = q, SameTx(r, x)
                 PROVE  h = g
        BY DEF DurableTogether
    <2>1. r \in durable[h] /\ x \in durable[g]
        BY DEF SameTx
    <2> QED
        BY <2>1 DEF Ledger, DurableTogether
<1>5. DurableEnded(q)'
    BY DEF Ledger, DurableEnded
<1>6. CommitKept(q)'
    <2> SUFFICES ASSUME NEW e \in ended', e.s = q, e.told,
                        NEW r \in acked', r.tx, r.s = q, r.unit = e.unit
                 PROVE  \E h \in Shard : r \in durable'[h]
        BY DEF CommitKept
    <2>1. \E h \in Shard : r \in durable[h]
        BY DEF Ledger, CommitKept
    <2> QED
        BY <2>1
<1> QED
    BY <1>1, <1>2, <1>3, <1>4, <1>5, <1>6 DEF Ledger

\* A step of session s leaves the ledgers of the others: their client is none that s
\* may touch.
LEMMA OtherLedger ==
    ASSUME TypeInv, TypeInv', ClientsInv, LedgerInv, NEW s \in Session,
           NEW q \in Session, q # s, OnlySession(s), OnlyRows(s), up' = up,
           conn' = conn \/ \E c \in Client : OnlyClient(s, c)
    PROVE  Ledger(q)'
<1>1. sess'[q] = sess[q] /\ hist'[q] = hist[q] /\ q # Null
    BY FieldTypes DEF OnlySession
<1>2. sess[q].txClient # Null => conn'[sess[q].txClient] = conn[sess[q].txClient]
    BY <1>1, HolderOf DEF OnlyClient
<1>3. Ledger(q)
    BY DEF LedgerInv
<1>4. /\ \A h \in Shard : durable[h] \subseteq durable'[h]
      /\ \A h \in Shard : \A r \in durable'[h] : r.s = q /\ r.tx => r \in durable[h]
      /\ \A r \in acked' : r.s = q /\ r.tx => r \in acked
      /\ ended \subseteq ended'
      /\ \A e \in ended' : e.s = q => e \in ended
    BY DEF OnlyRows
<1> QED
    BY <1>1, <1>2, <1>3, <1>4, LedgerStays

\* Ledgers that stay as they are.
LEMMA SameRows ==
    ASSUME SameLedger, NEW s \in Session
    PROVE  OnlyRows(s)
BY DEF SameLedger, OnlyRows

\* The client begins a new unit of work: nothing in the ledgers is of it.
LEMMA LedgerBegins ==
    ASSUME TypeInv, TypeInv', NEW s \in Session, Ledger(s), SameLedger,
           hist'[s].unit = hist[s].unit + 1
    PROVE  Ledger(s)'
<1>1. hist[s].unit \in Nat
    BY FieldTypes
<1>2. \A r \in Row : r.unit \in Nat
    BY DEF Row
<1>3. /\ acked \subseteq Row
      /\ \A h \in Shard : durable[h] \subseteq Row
      /\ \A e \in ended : e.unit \in Nat
    BY DEF TypeInv, TypeOK
<1>4. EndedPast(s)'
    BY <1>1, <1>3 DEF Ledger, EndedPast, SameLedger
<1>5. AckedHeld(s)'
    <2>1. \A r \in acked : r.s = s /\ r.tx => r.unit <= hist[s].unit /\ r.unit \in Nat
        BY <1>2, <1>3 DEF Ledger, AckedHeld
    <2>2. \A r \in acked : r.s = s /\ r.tx
            => r.unit <= hist[s].unit + 1 /\ r.unit # hist[s].unit + 1
        BY <1>1, <2>1
    <2> QED
        BY <2>2 DEF AckedHeld, Current, SameLedger
<1>6. DurableHere(s)'
    <2>1. \A h \in Shard : \A r \in durable[h] : r.s = s /\ r.tx
            => r.unit <= hist[s].unit /\ r.unit \in Nat
        BY <1>2, <1>3 DEF Ledger, DurableHere
    <2>2. \A h \in Shard : \A r \in durable[h] : r.s = s /\ r.tx
            => r.unit <= hist[s].unit + 1 /\ r.unit # hist[s].unit + 1
        BY <1>1, <2>1
    <2> QED
        BY <2>2 DEF DurableHere, Current, SameLedger
<1>7. DurableTogether(s)' /\ DurableEnded(s)' /\ CommitKept(s)'
    BY DEF Ledger, DurableTogether, DurableEnded, CommitKept, SameLedger
<1> QED
    BY <1>4, <1>5, <1>6, <1>7 DEF Ledger

\* The unit of session s ends by a COMMIT: the rows W of its client become durable,
\* all that was acknowledged in a transaction without an error among them.
LEMMA LedgerCommits ==
    ASSUME TypeInv, TypeInv', NEW s \in Session, Ledger(s), up, up' = up,
           hist[s].open, hist'[s].unit = hist[s].unit, ~hist'[s].open,
           NEW W, \A r \in W : r.s = s /\ r.tx => r.unit = hist[s].unit,
           NEW told, told => hist[s].clean,
           hist[s].clean => \A r \in acked : r.s = s /\ r.tx /\ r.unit = hist[s].unit
                               => r \in W,
           W # {} => sess[s].txClient \in Client,
           durable' = [h \in Shard |->
                         IF sess[s].txClient # Null /\ h = HostOf[sess[s].txClient]
                         THEN durable[h] \cup W ELSE durable[h]],
           acked' = acked,
           ended' = ended \cup {[s |-> s, unit |-> hist[s].unit, told |-> told]}
    PROVE  Ledger(s)'
<1> DEFINE e == [s |-> s, unit |-> hist[s].unit, told |-> told]
<1>1. hist[s].unit \in Nat /\ ended' = ended \cup {e}
    BY FieldTypes
<1>2. e.s = s /\ e.unit = hist[s].unit /\ e.told = told
    OBVIOUS
<1> HIDE DEF e
<1>3. \A r \in W : r.s = s /\ r.tx => r.unit = hist[s].unit
    OBVIOUS
<1>4. \A h \in Shard : \A r \in durable'[h] :
        r \in durable[h] \/ (r \in W /\ sess[s].txClient \in Client
                               /\ h = HostOf[sess[s].txClient])
    BY FieldTypes
<1>5. EndedPast(s)'
    BY <1>1, <1>2 DEF Ledger, EndedPast
<1>6. AckedHeld(s)'
    BY DEF Ledger, AckedHeld, Current
<1>7. DurableHere(s)'
    BY <1>1, <1>3, <1>4 DEF Ledger, DurableHere, Current
<1>8. DurableTogether(s)'
    <2> SUFFICES ASSUME NEW h \in Shard, NEW g \in Shard, NEW r \in durable'[h],
                        NEW x \in durable'[g], r.s = s, SameTx(r, x)
                 PROVE  h = g
        BY DEF DurableTogether
    <2>1. r.tx /\ x.tx /\ x.s = s /\ x.unit = r.unit
        BY DEF SameTx
    <2>2. ASSUME NEW f \in Shard, NEW y \in durable'[f], y.s = s, y.tx,
                 y.unit = hist[s].unit
          PROVE  f = HostOf[sess[s].txClient]
        <3>1. CASE y \in durable[f]
            BY <2>2, <3>1 DEF Ledger, DurableHere, Current
        <3> QED
            BY <1>4, <3>1
    <2>3. CASE r.unit = hist[s].unit
        BY <2>1, <2>2, <2>3
    <2>4. CASE r.unit # hist[s].unit
        <3>1. r \in durable[h] /\ x \in durable[g]
            BY <1>3, <1>4, <2>1, <2>4
        <3> QED
            BY <3>1 DEF Ledger, DurableTogether
    <2> QED
        BY <2>3, <2>4
<1>9. DurableEnded(s)'
    <2> SUFFICES ASSUME "commit" \notin Faults,
                        NEW h \in Shard, NEW r \in durable'[h], r.s = s, r.tx
                 PROVE  \E d \in ended' : d.s = s /\ d.unit = r.unit
        BY DEF DurableEnded
    <2>1. CASE r \in durable[h]
        BY <2>1 DEF Ledger, DurableEnded
    <2>2. CASE r \in W
        BY <1>1, <1>2, <1>3, <2>2
    <2> QED
        BY <1>4, <2>1, <2>2
<1>10. CommitKept(s)'
    <2> SUFFICES ASSUME NEW d \in ended', d.s = s, d.told,
                        NEW r \in acked', r.tx, r.s = s, r.unit = d.unit
                 PROVE  \E h \in Shard : r \in durable'[h]
        BY DEF CommitKept
    <2>1. \A h \in Shard : durable[h] \subseteq durable'[h]
        OBVIOUS
    <2>2. CASE d \in ended
        BY <2>1, <2>2 DEF Ledger, CommitKept
    <2>3. CASE d = e
        <3>1. r \in W
            BY <1>2, <2>3
        <3>2. sess[s].txClient \in Client /\ HostOf[sess[s].txClient] \in Shard
            BY <3>1, ConstantsAssumption
        <3>3. sess[s].txClient # Null
            BY <3>2, ConstantsAssumption
        <3> QED
            BY <3>1, <3>2, <3>3
    <2> QED
        BY <1>1, <2>2, <2>3
<1> QED
    BY <1>5, <1>6, <1>7, <1>8, <1>9, <1>10 DEF Ledger

\* A statement of the transaction of session s succeeds: its row is in the work of its
\* client, or durable at once if a COMMIT had failed before.
LEMMA LedgerWrites ==
    ASSUME TypeInv, TypeInv', NEW s \in Session, Ledger(s), up, up' = up,
           hist[s].open, hist' = hist,
           sess[s].txClient \in Client, sess'[s].txClient = sess[s].txClient,
           NEW w, OwnRow(w, s, hist[s]), acked' = acked \cup {w}, ended' = ended,
           hist[s].clean =>
             conn'[sess[s].txClient].work = conn[sess[s].txClient].work \cup {w},
           durable' = durable
             \/ /\ "commit" \in Faults
                /\ durable' = [durable EXCEPT ![HostOf[sess[s].txClient]] = @ \cup {w}]
    PROVE  Ledger(s)'
<1>1. hist[s].unit \in Nat /\ sess[s].txClient # Null
    BY FieldTypes, ConstantsAssumption
<1>2. w.s = s /\ w.unit = hist[s].unit /\ w.tx
    BY DEF OwnRow
<1>0. durable \in [Shard -> SUBSET Row]
    BY DEF TypeInv, TypeOK
<1>3. \A h \in Shard : \A r \in durable'[h] :
        r \in durable[h] \/ (r = w /\ h = HostOf[sess[s].txClient])
    BY <1>0
<1>4. \A h \in Shard : durable[h] \subseteq durable'[h]
    BY <1>0
<1>5. EndedPast(s)'
    BY DEF Ledger, EndedPast
<1>6. AckedHeld(s)'
    BY <1>1, <1>2 DEF Ledger, AckedHeld, Current
<1>7. DurableHere(s)'
    BY <1>1, <1>2, <1>3 DEF Ledger, DurableHere, Current
<1>8. DurableTogether(s)'
    <2> SUFFICES ASSUME NEW h \in Shard, NEW g \in Shard, NEW r \in durable'[h],
                        NEW x \in durable'[g], r.s = s, SameTx(r, x)
                 PROVE  h = g
        BY DEF DurableTogether
    <2>1. r.tx /\ x.tx /\ x.s = s /\ x.unit = r.unit
        BY DEF SameTx
    <2>2. ASSUME NEW f \in Shard, NEW y \in durable'[f], y.s = s, y.tx,
                 y.unit = hist[s].unit
          PROVE  f = HostOf[sess[s].txClient]
        <3>1. CASE y \in durable[f]
            BY <2>2, <3>1 DEF Ledger, DurableHere, Current
        <3> QED
            BY <1>3, <3>1
    <2>3. CASE r.unit = hist[s].unit
        BY <2>1, <2>2, <2>3
    <2>4. CASE r.unit # hist[s].unit
        <3>1. r \in durable[h] /\ x \in durable[g]
            BY <1>2, <1>3, <2>1, <2>4
        <3> QED
            BY <3>1 DEF Ledger, DurableTogether
    <2> QED
        BY <2>3, <2>4
<1>9. DurableEnded(s)'
    BY DEF Ledger, DurableEnded
<1>10. CommitKept(s)'
    <2> SUFFICES ASSUME NEW e \in ended, e.s = s, e.told,
                        NEW r \in acked', r.tx, r.s = s, r.unit = e.unit
                 PROVE  \E h \in Shard : r \in durable'[h]
        BY DEF CommitKept
    <2>1. r # w
        BY <1>2 DEF Ledger, EndedPast
    <2> QED
        BY <1>4, <2>1 DEF Ledger, CommitKept
<1> QED
    BY <1>5, <1>6, <1>7, <1>8, <1>9, <1>10 DEF Ledger

---------------------------------------------------------------------------
(***************************************************************************)
(* The ends of a step.                                                     *)
(***************************************************************************)
\* What Done assigns.
LEMMA DoneFields ==
    ASSUME TypeInv, NEW s \in Session, NEW ss, NEW cn, Done(s, ss, cn)
    PROVE  /\ sess'[s] = ss /\ conn' = cn /\ pump'[s].pc = "run"
           /\ \A q \in Session \ {s} : sess'[q] = sess[q] /\ pump'[q] = pump[q]
BY DEF TypeInv, TypeOK, Done

\* What Answered assigns.
LEMMA AnsweredFields ==
    ASSUME TypeInv, NEW s \in Session, NEW ss, NEW cn, Answered(s, ss, cn)
    PROVE  /\ sess'[s] = ss /\ conn' = cn /\ pump'[s].pc = "idle"
           /\ \A q \in Session \ {s} : sess'[q] = sess[q] /\ pump'[q] = pump[q]
BY DEF TypeInv, TypeOK, Answered, IdlePump

\* What Await assigns.
LEMMA AwaitFields ==
    ASSUME TypeInv, NEW s \in Session, NEW ss, NEW cn, NEW pc, NEW tid,
           Await(s, ss, cn, pc, tid)
    PROVE  /\ sess'[s] = ss /\ conn' = cn /\ pump'[s].pc = pc
           /\ pump'[s].stmts = pump[s].stmts
           /\ \A q \in Session \ {s} : sess'[q] = sess[q] /\ pump'[q] = pump[q]
BY DEF TypeInv, TypeOK, Await, Pump

\* What Throw assigns: an error marks the client's unit of work.
LEMMA ThrowFields ==
    ASSUME TypeInv, NEW s \in Session, NEW ss, NEW cn, Throw(s, ss, cn)
    PROVE  /\ sess'[s] = ss /\ conn' = cn /\ pump'[s].pc = "idle"
           /\ OnlySession(s) /\ ended' = ended
           /\ hist'[s].unit = hist[s].unit /\ hist'[s].open = hist[s].open
           /\ ~hist'[s].clean
<1>1. /\ hist'[s].unit = hist[s].unit /\ hist'[s].open = hist[s].open
      /\ ~hist'[s].clean
      /\ \A q \in Session \ {s} : hist'[q] = hist[q]
    BY DEF Throw, TypeInv, TypeOK, History
<1>2. Answered(s, ss, cn) /\ ended' = ended
    BY DEF Throw
<1> QED
    BY <1>1, <1>2, AnsweredFields DEF OnlySession

\* A step that changes no history changes only what Done or Await assign.
LEMMA SessionOnly ==
    ASSUME NEW s \in Session, UNCHANGED outcome,
           \A q \in Session \ {s} : sess'[q] = sess[q] /\ pump'[q] = pump[q]
    PROVE  OnlySession(s) /\ hist' = hist /\ ended' = ended
BY DEF OnlySession, outcome

---------------------------------------------------------------------------
(***************************************************************************)
(* Steps of a session that reach no client.                                *)
(***************************************************************************)
\* Session s has nothing queued before and after, keeps its client, and the client's
\* unit of work goes on.
Calm(s) ==
    /\ OnlySession(s) /\ conn' = conn /\ up' = up /\ SameLedger
    /\ pump[s].pc \notin Waiting /\ pump'[s].pc \notin Waiting
    /\ sess'[s].txClient = sess[s].txClient
    /\ hist'[s].unit = hist[s].unit /\ hist'[s].open = hist[s].open
    /\ hist'[s].clean => hist[s].clean

\* A calm step keeps the invariant if the session's object agrees with its await.
LEMMA CalmStep ==
    ASSUME TypeInv, TypeInv', TxInv, NEW s \in Session, Calm(s),
           Unit(sess'[s], pump'[s], hist'[s], up)
    PROVE  TxInv'
<1>1. UnitInv'
    BY UnitFrame DEF Calm, TxInv
<1>2. ClientsInv'
    BY ClientStays DEF Calm, TxInv
<1>3. ASSUME NEW q \in Session PROVE Ledger(q)'
    <2>1. CASE q = s
        <3>1. Ledger(s)
            BY DEF TxInv, LedgerInv
        <3> QED
            BY <2>1, <3>1, LedgerStays DEF Calm, SameLedger
    <2>2. CASE q # s
        BY <2>2, OtherLedger, SameRows DEF Calm, TxInv
    <2> QED
        BY <2>1, <2>2
<1> QED
    BY <1>1, <1>2, <1>3 DEF TxInv, LedgerInv

\* A session that runs or idles with the fields of the transaction it had before.
LEMMA UnitRests ==
    ASSUME NEW ss, NEW p, NEW h, NEW st, NEW to, NEW g, Unit(ss, p, h, up),
           st.inTx = ss.inTx, st.txClient = ss.txClient,
           st.backendInTx = ss.backendInTx, g.open = h.open,
           to.pc \in {"run", "idle", "setLookup"}
    PROVE  Unit(st, to, g, up)
BY DEF Unit

\* The awaits in which nothing is queued.
LEMMA CalmAwaits ==
    /\ {"idle", "run"} \cap Waiting = {}
    /\ (LookupAwait \cup ConnectAwait) \cap Waiting = {}
BY DEF Waiting, LookupAwait, ConnectAwait

\* The statement threw before it reached a client.
LEMMA ThrowTx ==
    ASSUME TypeInv, TypeInv', TxInv, NEW s \in Session, NEW ss,
           Throw(s, ss, conn), pump[s].pc \notin Waiting,
           UNCHANGED <<up, durable, acked>>,
           ss.inTx = sess[s].inTx, ss.txClient = sess[s].txClient,
           ss.backendInTx = sess[s].backendInTx
    PROVE  TxInv'
<1>1. Calm(s) /\ hist'[s].open = hist[s].open
    BY ThrowFields, CalmAwaits DEF Calm, SameLedger
<1>2. Unit(sess[s], pump[s], hist[s], up)
    BY DEF TxInv, UnitInv
<1>3. sess'[s] = ss /\ pump'[s].pc = "idle"
    BY ThrowFields
<1>4. Unit(sess'[s], pump'[s], hist'[s], up)
    BY <1>1, <1>2, <1>3, UnitRests
<1> QED
    BY <1>1, <1>4, CalmStep

\* The statement was answered by the session itself.
LEMMA DoneTx ==
    ASSUME TypeInv, TypeInv', TxInv, NEW s \in Session, NEW ss,
           Done(s, ss, conn), UNCHANGED outcome, pump[s].pc \notin Waiting,
           UNCHANGED <<up, durable, acked>>,
           ss.inTx = sess[s].inTx, ss.txClient = sess[s].txClient,
           ss.backendInTx = sess[s].backendInTx
    PROVE  TxInv'
<1>1. /\ sess'[s] = ss /\ pump'[s].pc = "run" /\ conn' = conn
      /\ \A q \in Session \ {s} : sess'[q] = sess[q] /\ pump'[q] = pump[q]
    BY DoneFields
<1>2. Calm(s) /\ hist' = hist
    BY <1>1, SessionOnly, CalmAwaits DEF Calm, SameLedger
<1>3. Unit(sess[s], pump[s], hist[s], up)
    BY DEF TxInv, UnitInv
<1>4. Unit(sess'[s], pump'[s], hist'[s], up)
    BY <1>1, <1>2, <1>3, UnitRests
<1> QED
    BY <1>2, <1>4, CalmStep

\* The statement awaits Lookup or a connect.
LEMMA AwaitTx ==
    ASSUME TypeInv, TypeInv', TxInv, NEW s \in Session, NEW ss, NEW pc, NEW tid,
           Await(s, ss, conn, pc, tid), UNCHANGED outcome,
           pump[s].pc \notin Waiting, pc \in LookupAwait \cup ConnectAwait,
           UNCHANGED <<up, durable, acked>>,
           ss.inTx = sess[s].inTx, ss.txClient = sess[s].txClient,
           ss.backendInTx = sess[s].backendInTx,
           pc \in {"pinLookup", "pinConnect"} => ss.inTx,
           pc \in {"autoLookup", "autoConnect"} => ~ss.inTx
    PROVE  TxInv'
<1>1. /\ sess'[s] = ss /\ pump'[s].pc = pc /\ conn' = conn
      /\ \A q \in Session \ {s} : sess'[q] = sess[q] /\ pump'[q] = pump[q]
    BY AwaitFields
<1>2. Calm(s) /\ hist' = hist
    BY <1>1, SessionOnly, CalmAwaits DEF Calm, SameLedger
<1>3. Unit(sess[s], pump[s], hist[s], up)
    BY DEF TxInv, UnitInv
<1>4. Unit(sess'[s], pump'[s], hist'[s], up)
    BY <1>1, <1>2, <1>3 DEF Unit, LookupAwait, ConnectAwait
<1> QED
    BY <1>2, <1>4, CalmStep

\* What dispatch() and the answers of Lookup find.
LEMMA DispatchTx ==
    ASSUME NEW s \in Session, NEW op, Dispatching(s, op)
    PROVE  /\ pump[s].pc \notin Waiting /\ pump[s].pc = "run" /\ up
           /\ UNCHANGED <<up, durable, acked>>
BY DEF Dispatching, Waiting

LEMMA ResumeTx ==
    ASSUME NEW s \in Session, NEW pc \in LookupAwait \cup ConnectAwait, Resuming(s, pc)
    PROVE  /\ pump[s].pc \notin Waiting /\ pump[s].pc = pc /\ up
           /\ UNCHANGED <<up, durable, acked>>
BY CalmAwaits DEF Resuming

\* The fields that the handlers of tids and status assign are none of the transaction.
LEMMA OtherFields ==
    ASSUME NEW ss \in SessionState, NEW v
    PROVE  /\ [ss EXCEPT !.pendingTid = v].inTx = ss.inTx
           /\ [ss EXCEPT !.pendingTid = v].txClient = ss.txClient
           /\ [ss EXCEPT !.pendingTid = v].backendInTx = ss.backendInTx
           /\ [ss EXCEPT !.txStatus = v].inTx = ss.inTx
           /\ [ss EXCEPT !.txStatus = v].txClient = ss.txClient
           /\ [ss EXCEPT !.txStatus = v].backendInTx = ss.backendInTx
           /\ [ss EXCEPT !.pinnedIndex = v].inTx = ss.inTx
           /\ [ss EXCEPT !.pinnedIndex = v].txClient = ss.txClient
           /\ [ss EXCEPT !.pinnedIndex = v].backendInTx = ss.backendInTx
BY DEF SessionState

\* SET and RESET of the tid.
LEMMA TidTx ==
    ASSUME TypeInv, TypeInv', TxInv, NEW s \in Session, SetTid(s) \/ ResetTid(s)
    PROVE  TxInv'
<1>1. /\ pump[s].pc \notin Waiting
      /\ UNCHANGED <<up, durable, acked>>
    BY DispatchTx DEF SetTid, ResetTid
<1>2. sess[s] \in SessionState
    BY FieldTypes
<1>3. CASE Throw(s, sess[s], conn)
    BY <1>1, <1>3, ThrowTx
<1>4. ASSUME NEW tid, Await(s, sess[s], conn, "setLookup", tid), UNCHANGED outcome
      PROVE  TxInv'
    BY <1>1, <1>4, AwaitTx DEF LookupAwait
<1>5. ASSUME NEW tid, Done(s, [sess[s] EXCEPT !.pendingTid = tid], conn),
             UNCHANGED outcome
      PROVE  TxInv'
    BY <1>1, <1>2, <1>5, OtherFields, DoneTx
<1> QED
    BY <1>3, <1>4, <1>5 DEF SetTid, ResetTid

\* A data statement, up to its Lookup.
LEMMA DataTx ==
    ASSUME TypeInv, TypeInv', TxInv, NEW s \in Session, Data(s)
    PROVE  TxInv'
<1> DEFINE pc == IF sess[s].inTx THEN "pinLookup" ELSE "autoLookup"
<1>1. pump[s].pc \notin Waiting /\ UNCHANGED <<up, durable, acked>>
    BY DispatchTx DEF Data
<1>2. CASE Throw(s, sess[s], conn)
    BY <1>1, <1>2, ThrowTx
<1>3. CASE Await(s, sess[s], conn, pc, sess[s].pendingTid) /\ UNCHANGED outcome
    <2>1. /\ pc \in LookupAwait
          /\ pc \in {"pinLookup", "pinConnect"} => sess[s].inTx
          /\ pc \in {"autoLookup", "autoConnect"} => ~sess[s].inTx
        BY DEF LookupAwait
    <2> HIDE DEF pc
    <2> QED
        BY <1>1, <1>3, <2>1, AwaitTx
<1> QED
    BY <1>2, <1>3 DEF Data

\* Lookup failed, or a connect did.
LEMMA FailsTx ==
    ASSUME TypeInv, TypeInv', TxInv, NEW s \in Session,
           LookupFails(s) \/ ConnectFails(s)
    PROVE  TxInv'
<1>1. PICK pc \in LookupAwait \cup ConnectAwait :
        Resuming(s, pc) /\ Throw(s, sess[s], conn)
    BY DEF LookupFails, ConnectFails
<1> QED
    BY <1>1, ResumeTx, ThrowTx

\* Lookup's answer for SET, and for a statement outside a transaction.
LEMMA LookupTx ==
    ASSUME TypeInv, TypeInv', TxInv, NEW s \in Session,
           SetLookupReply(s) \/ AutoLookupReply(s)
    PROVE  TxInv'
<1>1. sess[s] \in SessionState
    BY FieldTypes
<1>2. CASE SetLookupReply(s)
    <2>1. pump[s].pc \notin Waiting /\ UNCHANGED <<up, durable, acked>>
        BY <1>2, ResumeTx DEF SetLookupReply, LookupAwait
    <2>2. CASE Throw(s, sess[s], conn)
        BY <2>1, <2>2, ThrowTx
    <2>3. CASE /\ Done(s, [sess[s] EXCEPT !.pendingTid = pump[s].tid], conn)
               /\ UNCHANGED outcome
        BY <1>1, <2>1, <2>3, OtherFields, DoneTx
    <2> QED
        BY <1>2, <2>2, <2>3 DEF SetLookupReply
<1>3. CASE AutoLookupReply(s)
    <2> DEFINE ss == [sess[s] EXCEPT !.pendingTid = Null]
    <2>1. /\ pump[s].pc \notin Waiting /\ pump[s].pc = "autoLookup"
          /\ UNCHANGED <<up, durable, acked>>
        BY <1>3, ResumeTx DEF AutoLookupReply, LookupAwait
    <2>2. ~sess[s].inTx
        BY <2>1 DEF TxInv, UnitInv, Unit
    <2>3. /\ ss.inTx = sess[s].inTx /\ ss.txClient = sess[s].txClient
          /\ ss.backendInTx = sess[s].backendInTx
        BY <1>1, OtherFields
    <2>4. Await(s, ss, conn, "autoConnect", pump[s].tid) /\ UNCHANGED outcome
        BY <1>3 DEF AutoLookupReply
    <2>5. "autoConnect" \in LookupAwait \cup ConnectAwait
        BY DEF ConnectAwait
    <2> HIDE DEF ss
    <2> QED
        BY <2>1, <2>2, <2>3, <2>4, <2>5, AwaitTx
<1> QED
    BY <1>2, <1>3

\* A message comes in, is taken, or is answered.
LEMMA MessageTx ==
    ASSUME TypeInv, TypeInv', TxInv, NEW s \in Session,
           Receive(s) \/ TakeMessage(s) \/ FinishMessage(s)
    PROVE  TxInv'
<1>1. CASE Receive(s)
    <2>1. \A q \in Session : /\ hist'[q].unit = hist[q].unit
                             /\ hist'[q].open = hist[q].open
                             /\ hist'[q].clean = hist[q].clean
        BY <1>1 DEF Receive, TypeInv, TypeOK, History
    <2>2. UNCHANGED <<sess, pump, conn, up, durable, acked, ended>>
        BY <1>1 DEF Receive
    <2>3. UnitInv'
        BY <2>1, <2>2 DEF TxInv, UnitInv, Unit
    <2>4. ASSUME NEW c \in Client, NEW q \in Session
          PROVE  Holding(c, conn[c], q, sess[q], pump[q], hist'[q])
        <3>1. Holding(c, conn[c], q, sess[q], pump[q], hist[q])
            BY DEF TxInv, ClientsInv
        <3>2. TxHeld(conn[c], q, pump[q], hist[q])
                => TxHeld(conn[c], q, pump[q], hist'[q])
            BY <2>1 DEF TxHeld, OwnRow
        <3> QED
            BY <3>1, <3>2 DEF Holding
    <2>5. ClientsInv'
        BY <2>2, <2>4 DEF TxInv, ClientsInv
    <2>6. ASSUME NEW q \in Session PROVE Ledger(q)'
        <3>1. Ledger(q)
            BY DEF TxInv, LedgerInv
        <3> QED
            BY <2>1, <2>2, <3>1, LedgerStays
    <2> QED
        BY <2>3, <2>5, <2>6 DEF TxInv, LedgerInv
<1>2. CASE TakeMessage(s)
    <2>1. /\ pump[s].pc = "idle" /\ pump'[s].pc = "run"
          /\ UNCHANGED <<sess, conn, up, hist, durable, acked, ended>>
          /\ \A q \in Session \ {s} : pump'[q] = pump[q]
        BY <1>2 DEF TakeMessage, ghosts, TypeInv, TypeOK
    <2>2. Calm(s)
        BY <2>1, CalmAwaits DEF Calm, OnlySession, SameLedger
    <2>3. Unit(sess'[s], pump'[s], hist'[s], up)
        BY <2>1, UnitRests DEF TxInv, UnitInv
    <2> QED
        BY <2>2, <2>3, CalmStep
<1>3. CASE FinishMessage(s)
    <2> DEFINE ss == [sess[s] EXCEPT !.txStatus = IF sess[s].inTx THEN "T" ELSE "I"]
    <2>1. /\ ss.inTx = sess[s].inTx /\ ss.txClient = sess[s].txClient
          /\ ss.backendInTx = sess[s].backendInTx
        BY FieldTypes, OtherFields
    <2>2. /\ Answered(s, ss, conn) /\ pump[s].pc = "run"
          /\ UNCHANGED <<up, hist, durable, acked, ended>>
        BY <1>3 DEF FinishMessage, ghosts
    <2> HIDE DEF ss
    <2>3. /\ sess'[s] = ss /\ conn' = conn /\ pump'[s].pc = "idle"
          /\ \A q \in Session \ {s} : sess'[q] = sess[q] /\ pump'[q] = pump[q]
        BY <2>2, AnsweredFields
    <2>4. Calm(s)
        BY <2>1, <2>2, <2>3, CalmAwaits DEF Calm, OnlySession, SameLedger
    <2>5. Unit(sess'[s], pump'[s], hist'[s], up)
        BY <2>1, <2>2, <2>3, UnitRests DEF TxInv, UnitInv
    <2> QED
        BY <2>4, <2>5, CalmStep
<1> QED
    BY <1>1, <1>2, <1>3

\* BEGIN: outside a transaction the client's next unit of work begins, and the session
\* has no client yet.
LEMMA BeginTx ==
    ASSUME TypeInv, TypeInv', TxInv, NEW s \in Session, Begin(s)
    PROVE  TxInv'
<1> DEFINE ss == [sess[s] EXCEPT !.inTx = TRUE]
<1>1. /\ pump[s].pc \notin Waiting /\ pump[s].pc = "run" /\ up
      /\ UNCHANGED <<up, durable, acked>> /\ ended' = ended
    BY DispatchTx DEF Begin
<1>2. /\ sess'[s].inTx /\ sess'[s].txClient = sess[s].txClient
      /\ sess'[s].backendInTx = sess[s].backendInTx
      /\ conn' = conn /\ pump'[s].pc \in {"run", "pinLookup"}
      /\ \A q \in Session \ {s} : sess'[q] = sess[q] /\ pump'[q] = pump[q]
    <2>1. /\ ss.inTx /\ ss.txClient = sess[s].txClient
          /\ ss.backendInTx = sess[s].backendInTx /\ ss \in SessionState
        <3>1. sess[s] \in SessionState
            BY FieldTypes
        <3>2. ss \in SessionState
            BY <3>1 DEF SessionState
        <3> QED
            BY <3>1, <3>2 DEF SessionState
    <2>2. CASE Await(s, ss, conn, "pinLookup", ss.pendingTid)
        <3> HIDE DEF ss
        <3> QED
            BY <2>1, <2>2, AwaitFields
    <2>3. CASE Done(s, [ss EXCEPT !.txStatus = "T"], conn)
        <3> DEFINE st == [ss EXCEPT !.txStatus = "T"]
        <3>1. /\ st.inTx /\ st.txClient = sess[s].txClient
              /\ st.backendInTx = sess[s].backendInTx
            BY <2>1, OtherFields
        <3> HIDE DEF st
        <3>2. Done(s, st, conn)
            BY <2>3 DEF st
        <3> QED
            BY <3>1, <3>2, DoneFields
    <2> QED
        BY <2>2, <2>3 DEF Begin
<1>3. Unit(sess[s], pump[s], hist[s], up)
    BY DEF TxInv, UnitInv
<1>4. pump'[s].pc \notin Waiting
    BY <1>2 DEF Waiting
<1>5. CASE hist[s].open
    <2>1. hist' = hist
        BY <1>5 DEF Begin
    <2>2. Calm(s)
        BY <1>1, <1>2, <1>4, <2>1 DEF Calm, OnlySession, SameLedger
    <2>3. Unit(sess'[s], pump'[s], hist'[s], up)
        BY <1>1, <1>2, <1>3, <1>5, <2>1 DEF Unit
    <2> QED
        BY <2>2, <2>3, CalmStep
<1>6. CASE ~hist[s].open
    <2>1. /\ hist'[s].unit = hist[s].unit + 1 /\ hist'[s].open
          /\ \A q \in Session \ {s} : hist'[q] = hist[q]
        BY <1>6 DEF Begin, TypeInv, TypeOK, History
    <2>2. OnlySession(s) /\ SameLedger
        BY <1>1, <1>2, <2>1 DEF OnlySession, SameLedger
    <2>3. sess[s].txClient = Null /\ ~sess[s].backendInTx
        BY <1>1, <1>3, <1>6 DEF Unit
    <2>4. Unit(sess'[s], pump'[s], hist'[s], up)
        BY <1>2, <2>1, <2>3 DEF Unit
    <2>5. UnitInv'
        BY <1>1, <2>2, <2>4, UnitFrame DEF TxInv
    <2>6. ClientsInv'
        BY <1>1, <1>2, <1>4, <2>2, <2>3, ClientStays DEF TxInv
    <2>7. ASSUME NEW q \in Session PROVE Ledger(q)'
        <3>1. CASE q = s
            BY <2>1, <2>2, <3>1, LedgerBegins DEF TxInv, LedgerInv
        <3>2. CASE q # s
            BY <1>1, <1>2, <2>2, <3>2, OtherLedger, SameRows DEF TxInv
        <3> QED
            BY <3>1, <3>2
    <2> QED
        BY <2>5, <2>6, <2>7 DEF TxInv, LedgerInv
<1> QED
    BY <1>5, <1>6

---------------------------------------------------------------------------
(***************************************************************************)
(* Steps of a session that reach one client.                               *)
(***************************************************************************)
\* Session s touches only client c, and adds no row of a transaction and no COMMIT.
LEMMA LedgerFrame ==
    ASSUME TypeInv, TypeInv', ClientsInv, LedgerInv, NEW s \in Session, NEW c \in Client,
           OnlySession(s), OnlyClient(s, c), OnlyRows(s), up' = up, ended' = ended,
           hist'[s].unit = hist[s].unit, hist'[s].open => hist[s].open,
           hist'[s].open /\ sess[s].txClient # Null
             => sess'[s].txClient = sess[s].txClient,
           hist'[s].open /\ hist'[s].clean
             => hist[s].clean /\ conn[c].work \subseteq conn'[c].work,
           \A h \in Shard : \A r \in durable'[h] : r.tx => r \in durable[h],
           \A r \in acked' : r.tx => r \in acked
    PROVE  LedgerInv'
<1>1. ASSUME NEW q \in Session PROVE Ledger(q)'
    <2>1. CASE q = s
        <3>1. Ledger(s)
            BY DEF LedgerInv
        <3>2. sess[s].txClient # Null =>
                sess[s].txClient = c \/ conn'[sess[s].txClient] = conn[sess[s].txClient]
            BY FieldTypes DEF OnlyClient
        <3>3. hist'[s].open /\ hist'[s].clean
                => /\ hist[s].clean
                   /\ sess[s].txClient # Null =>
                        conn[sess[s].txClient].work \subseteq conn'[sess[s].txClient].work
            BY <3>2
        <3>4. /\ \A h \in Shard : durable[h] \subseteq durable'[h]
              /\ \A h \in Shard : \A r \in durable'[h] : r.s = s /\ r.tx => r \in durable[h]
              /\ \A r \in acked' : r.s = s /\ r.tx => r \in acked
              /\ ended \subseteq ended'
              /\ \A e \in ended' : e.s = s => e \in ended
            BY DEF OnlyRows
        <3> QED
            BY <2>1, <3>1, <3>3, <3>4, LedgerStays
    <2>2. CASE q # s
        BY <2>2, OtherLedger
    <2> QED
        BY <2>1, <2>2
<1> QED
    BY <1>1 DEF LedgerInv

\* The ledger of session s is kept, and the step touches only client c.
LEMMA LedgerOf ==
    ASSUME TypeInv, TypeInv', ClientsInv, LedgerInv, NEW s \in Session, NEW c \in Client,
           OnlySession(s), OnlyClient(s, c), OnlyRows(s), up' = up, Ledger(s)'
    PROVE  LedgerInv'
<1>1. ASSUME NEW q \in Session PROVE Ledger(q)'
    <2>1. CASE q = s
        BY <2>1
    <2>2. CASE q # s
        BY <2>2, OtherLedger
    <2> QED
        BY <2>1, <2>2
<1> QED
    BY <1>1 DEF LedgerInv

\* A request that is queued on an idle client is the only one.
LEMMA Enqueued ==
    ASSUME NEW cn \in Conns, NEW c \in Client, cn[c].queue = << >>,
           NEW s, NEW op, NEW row,
           NEW q, q = Enqueue(cn, c, "pump", s, op, row)
    PROVE  /\ Only(q[c], s, op) /\ Head(q[c].queue).row = row
           /\ q[c].holder = cn[c].holder /\ q[c].tx = cn[c].tx
           /\ q[c].work = cn[c].work
           /\ \A d \in Client \ {c} : q[d] = cn[d]
<1> DEFINE r == [by |-> "pump", s |-> s, op |-> op, row |-> row]
<1>1. /\ q[c].queue = Append(<< >>, r)
      /\ q[c].holder = cn[c].holder /\ q[c].tx = cn[c].tx /\ q[c].work = cn[c].work
      /\ \A d \in Client \ {c} : q[d] = cn[d]
    BY DEF Enqueue, Conns, Connection
<1>2. r.by = "pump" /\ r.s = s /\ r.op = op /\ r.row = row
    OBVIOUS
<1> HIDE DEF r
<1>3. << >> \in Seq({r})
    BY EmptySeq
<1>4. /\ Append(<< >>, r) # << >> /\ Head(Append(<< >>, r)) = r
      /\ Tail(Append(<< >>, r)) = << >>
    BY <1>3, AppendProperties, HeadTailAppend
<1>5. Only(q[c], s, op) /\ Head(q[c].queue).row = row
    BY <1>1, <1>2, <1>4 DEF Only
<1> QED
    BY <1>1, <1>5

\* The client of a transaction is idle between the statements of its session.
LEMMA TxClientIdle ==
    ASSUME TypeInv, TxInv, NEW s \in Session, sess[s].txClient # Null,
           pump[s].pc \notin Waiting
    PROVE  LET c == sess[s].txClient
           IN /\ c \in Client /\ conn[c].holder = s /\ conn[c].queue = << >>
              /\ TxHeld(conn[c], s, pump[s], hist[s])
BY HolderOf DEF TxInv, TxHeld

\* COMMIT or ROLLBACK without a client: nothing was ever sent.
LEMMA EndsNothing ==
    ASSUME TypeInv, TypeInv', TxInv, NEW s \in Session, EndTx(s, conn),
           pump[s].pc = "run", sess[s].txClient = Null, up,
           UNCHANGED <<up, durable, acked>>
    PROVE  TxInv'
<1> DEFINE ss == [Unpinned(sess[s]) EXCEPT !.txClient = Null, !.txStatus = "I"]
<1>1. ss.txClient = Null /\ ~ss.inTx /\ ~ss.backendInTx
    BY FieldTypes DEF Unpinned, SessionState
<1>2. Done(s, ss, conn)
    BY DEF EndTx
<1> HIDE DEF ss
<1>3. /\ sess'[s] = ss /\ conn' = conn /\ pump'[s].pc = "run"
      /\ \A q \in Session \ {s} : sess'[q] = sess[q] /\ pump'[q] = pump[q]
    BY <1>2, DoneFields
<1>4. /\ hist'[s].unit = hist[s].unit /\ ~hist'[s].open /\ hist'[s].clean = hist[s].clean
      /\ \A q \in Session \ {s} : hist'[q] = hist[q]
    BY DEF EndTx, TypeInv, TypeOK, History
<1>5. OnlySession(s)
    BY <1>3, <1>4 DEF OnlySession
<1>6. UnitInv'
    <2>1. Unit(sess'[s], pump'[s], hist'[s], up)
        BY <1>1, <1>3, <1>4 DEF Unit
    <2> QED
        BY <1>5, <2>1, UnitFrame DEF TxInv
<1>7. ClientsInv'
    BY <1>1, <1>3, <1>5, ClientStays DEF TxInv, Waiting
<1>8. OnlyRows(s)
    BY DEF EndTx, OnlyRows
<1>9. Ledger(s)
    BY DEF TxInv, LedgerInv
<1>10. Ledger(s)'
    <2>1. CASE Stmt(s).op = "commit" /\ hist[s].open
        <3> DEFINE told == hist[s].clean /\ socket[s] = "open"
        <3>1. ended' = ended \cup {[s |-> s, unit |-> hist[s].unit, told |-> told]}
            BY <2>1 DEF EndTx
        <3>2. hist[s].clean => \A r \in acked : r.s = s /\ r.tx /\ r.unit = hist[s].unit
                                  => r \in {}
            BY <1>9, <2>1 DEF Ledger, AckedHeld, Current
        <3>3. durable' = [h \in Shard |->
                            IF sess[s].txClient # Null /\ h = HostOf[sess[s].txClient]
                            THEN durable[h] \cup {} ELSE durable[h]]
            BY DEF TypeInv, TypeOK
        <3>4. told => hist[s].clean
            OBVIOUS
        <3> HIDE DEF told
        <3> QED
            BY <1>4, <1>9, <2>1, <3>1, <3>2, <3>3, <3>4, LedgerCommits
    <2>2. CASE ~(Stmt(s).op = "commit" /\ hist[s].open)
        <3>1. ended' = ended
            BY <2>2 DEF EndTx
        <3> QED
            BY <1>4, <1>9, <3>1, LedgerStays
    <2> QED
        BY <2>1, <2>2
<1>11. ASSUME NEW q \in Session PROVE Ledger(q)'
    BY <1>3, <1>5, <1>8, <1>10, OtherLedger DEF TxInv
<1> QED
    BY <1>6, <1>7, <1>11 DEF TxInv, LedgerInv

\* COMMIT and ROLLBACK: sent to the transaction's client, or answered at once.
LEMMA EndStatementTx ==
    ASSUME TypeInv, TypeInv', TxInv, NEW s \in Session, EndStatement(s)
    PROVE  TxInv'
<1>1. /\ pump[s].pc \notin Waiting /\ pump[s].pc = "run" /\ up
      /\ UNCHANGED <<up, durable, acked>>
      /\ Stmt(s).op \in {"commit", "rollback"}
    BY DispatchTx DEF EndStatement, Dispatching
<1>2. CASE sess[s].txClient = Null
    <2>1. EndTx(s, conn)
        BY <1>2 DEF EndStatement
    <2> QED
        BY <1>1, <1>2, <2>1, EndsNothing
<1>3. CASE sess[s].txClient # Null
    <2> DEFINE c == sess[s].txClient
               cn == Enqueue(conn, c, "pump", s, EndTag(s), Null)
    <2>1. /\ c \in Client /\ conn[c].holder = s /\ conn[c].queue = << >>
          /\ TxHeld(conn[c], s, pump[s], hist[s])
        BY <1>1, <1>3, TxClientIdle
    <2>2. Await(s, sess[s], cn, "endQuery", Null) /\ UNCHANGED outcome
        BY <1>3 DEF EndStatement
    <2>0. cn = Enqueue(conn, c, "pump", s, EndTag(s), Null) /\ conn \in Conns
        BY FieldTypes
    <2> HIDE DEF c, cn
    <2>3. /\ Only(cn[c], s, EndTag(s)) /\ cn[c].holder = conn[c].holder
          /\ cn[c].tx = conn[c].tx /\ cn[c].work = conn[c].work
          /\ \A d \in Client \ {c} : cn[d] = conn[d]
        BY <2>0, <2>1, Enqueued
    <2>4. /\ sess'[s] = sess[s] /\ conn' = cn /\ pump'[s].pc = "endQuery"
          /\ pump'[s].stmts = pump[s].stmts
          /\ \A q \in Session \ {s} : sess'[q] = sess[q] /\ pump'[q] = pump[q]
        BY <2>2, AwaitFields
    <2>5. OnlySession(s) /\ hist' = hist /\ SameLedger
        BY <1>1, <2>2, <2>4, SessionOnly DEF SameLedger
    <2>6. OnlyClient(s, c) /\ OnlyRows(s)
        BY <2>1, <2>3, <2>4, <2>5, SameRows DEF OnlyClient
    <2>7. Tag(pump'[s]) = EndTag(s) /\ Head(pump'[s].stmts) = Stmt(s)
        BY <2>4 DEF Tag, EndTag, Stmt
    <2>8. TxHeld(conn'[c], s, pump'[s], hist'[s])
        BY <1>1, <2>1, <2>3, <2>4, <2>5, <2>7 DEF TxHeld, Waiting
    <2>9. Unit(sess'[s], pump'[s], hist'[s], up)
        <3>1. Unit(sess[s], pump[s], hist[s], up)
            BY DEF TxInv, UnitInv
        <3> QED
            BY <1>1, <1>3, <2>4, <2>5, <2>7, <3>1 DEF Unit
    <2>10. UnitInv'
        BY <1>1, <2>5, <2>9, UnitFrame DEF TxInv
    <2>11. ClientsInv'
        <3>1. sess'[s].txClient = c /\ Holding(c, conn'[c], s, sess'[s], pump'[s], hist'[s])
            BY <2>4, <2>8 DEF c, Holding
        <3>2. conn'[c].holder = s /\ s # Null
            BY <2>1, <2>3, <2>4, FieldTypes
        <3> QED
            BY <2>1, <2>5, <2>6, <3>1, <3>2, ClientFrame DEF TxInv
    <2>12. LedgerInv'
        BY <1>1, <2>1, <2>3, <2>4, <2>5, <2>6, LedgerFrame DEF TxInv, SameLedger
    <2> QED
        BY <2>10, <2>11, <2>12 DEF TxInv
<1> QED
    BY <1>2, <1>3

\* ensurePinned() has returned with client c, whose transaction is open: cn is how it
\* left the clients.
LEMMA PinnedTx ==
    ASSUME TypeInv, TypeInv', TxInv, NEW s \in Session, NEW c \in Client,
           NEW ss \in SessionState, NEW cn \in Conns, NEW p,
           Pinned(s, ss, cn), up, UNCHANGED <<up, durable, acked>>,
           ss.txClient = c, ss.inTx, hist[s].open, sess[s].txClient = c,
           conn[c].holder = s, \A d \in Client \ {c} : cn[d] = conn[d],
           p.pc = "run", TxHeld(cn[c], s, p, hist[s]),
           conn[c].work \subseteq cn[c].work
    PROVE  TxInv'
<1>1. c # Null /\ s # Null /\ cn[c].queue = << >> /\ cn[c].holder = s
    BY ClientType, FieldTypes DEF TxHeld, Waiting
<1> DEFINE row == RowOf(s, pump[s].tid)
           en == Enqueue(cn, c, "pump", s, "DATA", row)
<1>2. OwnRow(row, s, hist[s])
    BY DEF RowOf, OwnRow
<1>4. \/ Done(s, [ss EXCEPT !.txStatus = "T"], cn) /\ UNCHANGED outcome
      \/ Await(s, ss, en, "txQuery", Null) /\ UNCHANGED outcome
    BY <1>1 DEF Pinned
<1>0. en = Enqueue(cn, c, "pump", s, "DATA", row)
    OBVIOUS
<1> HIDE DEF en, row
<1>3. /\ Only(en[c], s, "DATA") /\ Head(en[c].queue).row = row
      /\ en[c].holder = s /\ en[c].tx = cn[c].tx /\ en[c].work = cn[c].work
      /\ \A d \in Client \ {c} : en[d] = cn[d]
    BY <1>0, <1>1, Enqueued
<1>5. /\ sess'[s].txClient = c /\ sess'[s].inTx
      /\ OnlySession(s) /\ hist' = hist /\ SameLedger
      /\ \/ pump'[s].pc = "run" /\ conn' = cn
         \/ pump'[s].pc = "txQuery" /\ conn' = en
    <2>1. CASE Done(s, [ss EXCEPT !.txStatus = "T"], cn) /\ UNCHANGED outcome
        <3> DEFINE st == [ss EXCEPT !.txStatus = "T"]
        <3>1. st.txClient = c /\ st.inTx
            BY OtherFields
        <3>2. Done(s, st, cn)
            BY <2>1
        <3> HIDE DEF st
        <3> QED
            BY <2>1, <3>1, <3>2, DoneFields, SessionOnly DEF SameLedger
    <2>2. CASE Await(s, ss, en, "txQuery", Null) /\ UNCHANGED outcome
        BY <2>2, AwaitFields, SessionOnly DEF SameLedger
    <2> QED
        BY <1>4, <2>1, <2>2
<1>6. TxHeld(conn'[c], s, pump'[s], hist'[s])
    <2>1. CASE pump'[s].pc = "run" /\ conn' = cn
        BY <1>5, <2>1 DEF TxHeld, Waiting
    <2>2. CASE pump'[s].pc = "txQuery" /\ conn' = en
        BY <1>2, <1>3, <1>5, <2>2 DEF TxHeld, Waiting
    <2> QED
        BY <1>5, <2>1, <2>2
<1>7. /\ OnlyClient(s, c) /\ OnlyRows(s) /\ conn'[c].holder = s
      /\ conn[c].work \subseteq conn'[c].work
    BY <1>1, <1>3, <1>5, SameRows DEF OnlyClient
<1>8. UnitInv'
    <2>1. Unit(sess'[s], pump'[s], hist'[s], up)
        BY <1>1, <1>5 DEF Unit
    <2> QED
        BY <1>5, <2>1, UnitFrame DEF TxInv
<1>9. ClientsInv'
    <2>1. Holding(c, conn'[c], s, sess'[s], pump'[s], hist'[s])
        BY <1>5, <1>6 DEF Holding
    <2> QED
        BY <1>1, <1>5, <1>7, <2>1, ClientFrame DEF TxInv
<1>10. LedgerInv'
    BY <1>5, <1>7, LedgerFrame DEF TxInv, SameLedger
<1> QED
    BY <1>8, <1>9, <1>10 DEF TxInv

\* Lookup's answer for a statement of a transaction.
LEMMA PinLookupTx ==
    ASSUME TypeInv, TypeInv', TxInv, NEW s \in Session, PinLookupReply(s)
    PROVE  TxInv'
<1> DEFINE ss == [sess[s] EXCEPT !.pinnedIndex = ShardOf[pump[s].tid]]
<1>1. /\ pump[s].pc \notin Waiting /\ pump[s].pc = "pinLookup" /\ up
      /\ UNCHANGED <<up, durable, acked>>
    BY ResumeTx DEF PinLookupReply, LookupAwait
<1>2. sess[s].inTx /\ hist[s].open /\ sess[s] \in SessionState
    BY <1>1, FieldTypes DEF TxInv, UnitInv, Unit
<1>3. CASE Throw(s, sess[s], conn)
    BY <1>1, <1>3, ThrowTx
<1>4. CASE Await(s, ss, conn, "pinConnect", pump[s].tid) /\ UNCHANGED outcome
    <2>1. /\ ss.inTx = sess[s].inTx /\ ss.txClient = sess[s].txClient
          /\ ss.backendInTx = sess[s].backendInTx
        BY <1>2, OtherFields
    <2> HIDE DEF ss
    <2> QED
        BY <1>1, <1>2, <1>4, <2>1, AwaitTx DEF ConnectAwait
<1>5. CASE Pinned(s, sess[s], conn)
    <2>1. CASE sess[s].txClient = Null
        <3>1. CASE Throw(s, sess[s], conn)
            BY <1>1, <3>1, ThrowTx
        <3>2. CASE Done(s, [sess[s] EXCEPT !.txStatus = "T"], conn) /\ UNCHANGED outcome
            BY <1>1, <1>2, <3>2, OtherFields, DoneTx
        <3> QED
            BY <1>5, <2>1, <3>1, <3>2 DEF Pinned
    <2>2. CASE sess[s].txClient # Null
        <3> DEFINE c == sess[s].txClient
                   p == [pump[s] EXCEPT !.pc = "run"]
        <3>1. /\ c \in Client /\ conn[c].holder = s
              /\ TxHeld(conn[c], s, pump[s], hist[s])
            BY <1>1, <2>2, TxClientIdle
        <3>2. p.pc = "run"
            BY FieldTypes DEF Pump
        <3>3. TxHeld(conn[c], s, p, hist[s])
            BY <1>1, <3>1, <3>2 DEF TxHeld, Waiting
        <3> HIDE DEF p
        <3> QED
            BY <1>1, <1>2, <1>5, <3>1, <3>2, <3>3, PinnedTx, FieldTypes
    <2> QED
        BY <2>1, <2>2
<1> QED
    BY <1>3, <1>4, <1>5 DEF PinLookupReply

\* Client c comes from the pool to session s, which holds no other, with one request.
Taken(q, c, s, op, row) ==
    /\ Only(q[c], s, op) /\ Head(q[c].queue).row = row
    /\ q[c].holder = s /\ q[c].tx = "idle" /\ q[c].work = {}
    /\ conn[c].work = {} /\ conn[c].holder = Null
    /\ \A d \in Client \ {c} : q[d] = conn[d]
    /\ \A d \in Client : conn[d].holder # s

\* A pooled client is given to session s, which holds no other, and gets its request.
LEMMA TakesClient ==
    ASSUME TypeInv, TxInv, NEW s \in Session, NEW c \in Client, Free(s, c),
           pump[s].pc # "autoQuery", sess[s].txClient = Null, NEW op, NEW row,
           NEW q, q = Enqueue([conn EXCEPT ![c].holder = s], c, "pump", s, op, row)
    PROVE  Taken(q, c, s, op, row)
<1> DEFINE cn == [conn EXCEPT ![c].holder = s]
<1>1. conn[c].holder = Null
    BY DEF Free
<1>2. conn[c].tx = "idle" /\ conn[c].queue = << >> /\ conn[c].work = {}
    BY <1>1 DEF TxInv, ClientsInv, Pooled
<1>3. /\ cn \in Conns /\ cn[c].holder = s /\ cn[c].tx = "idle"
      /\ cn[c].queue = << >> /\ cn[c].work = {}
      /\ \A d \in Client \ {c} : cn[d] = conn[d]
    <2>1. conn \in Conns /\ conn[c] \in Connection
        BY FieldTypes, ClientType
    <2>2. cn \in Conns
        BY <2>1, HoldType
    <2>3. cn[c] = [conn[c] EXCEPT !.holder = s] /\ \A d \in Client \ {c} : cn[d] = conn[d]
        BY <2>1 DEF Conns
    <2> HIDE DEF cn
    <2>4. /\ cn[c].holder = s /\ cn[c].tx = conn[c].tx
          /\ cn[c].queue = conn[c].queue /\ cn[c].work = conn[c].work
        BY <2>1, <2>3 DEF Connection
    <2> QED
        BY <1>2, <2>2, <2>3, <2>4
<1>4. \A d \in Client : conn[d].holder # s
    BY ClientType, NothingElse DEF TxInv
<1> HIDE DEF cn
<1>5. q = Enqueue(cn, c, "pump", s, op, row)
    BY DEF cn
<1>6. Only(q[c], s, op)
    BY <1>3, <1>5, Enqueued
<1>7. Head(q[c].queue).row = row
    BY <1>3, <1>5, Enqueued
<1>8. q[c].holder = cn[c].holder
    BY <1>3, <1>5, Enqueued
<1>9. q[c].tx = cn[c].tx
    BY <1>3, <1>5, Enqueued
<1>10. q[c].work = cn[c].work
    BY <1>3, <1>5, Enqueued
<1>11. \A d \in Client \ {c} : q[d] = cn[d]
    BY <1>3, <1>5, Enqueued
<1> QED
    BY <1>1, <1>2, <1>3, <1>4, <1>6, <1>7, <1>8, <1>9, <1>10, <1>11 DEF Taken

\* The transaction's client has come, and is sent BEGIN: no other branch is left.
LEMMA PinConnectedTx ==
    ASSUME TypeInv, TypeInv', TxInv, RouteInv, "socket" \notin Faults,
           NEW s \in Session, PinConnected(s)
    PROVE  TxInv'
<1>1. /\ pump[s].pc = "pinConnect" /\ up
      /\ UNCHANGED <<up, durable, acked>>
    BY ResumeTx DEF PinConnected, ConnectAwait
<1>2. /\ sess[s].inTx /\ hist[s].open /\ sess[s].txClient = Null
      /\ ~sess[s].backendInTx /\ s # Null
    <2>1. sess[s].txClient = Null
        BY <1>1 DEF RouteInv, Pins, PinInv
    <2> QED
        BY <1>1, <2>1, FieldTypes DEF TxInv, UnitInv, Unit
<1>3. PICK c \in Client :
        /\ Free(s, c)
        /\ LET ss == [sess[s] EXCEPT !.txClient = c]
               cn == [conn EXCEPT ![c].holder = s]
           IN \/ /\ Await(s, ss, Enqueue(cn, c, "pump", s, "BEGIN", Null),
                          "pinBegin", pump[s].tid)
                 /\ UNCHANGED outcome
              \/ ~(ss.inTx /\ ~ss.backendInTx)
    BY DEF PinConnected
<1> DEFINE ss == [sess[s] EXCEPT !.txClient = c]
           en == Enqueue([conn EXCEPT ![c].holder = s], c, "pump", s, "BEGIN", Null)
<1>4. ss.txClient = c /\ ss.inTx /\ ~ss.backendInTx /\ c # Null
    BY <1>2, FieldTypes, ClientType DEF SessionState
<1>5. Await(s, ss, en, "pinBegin", pump[s].tid) /\ UNCHANGED outcome
    BY <1>3, <1>4
<1>0. en = Enqueue([conn EXCEPT ![c].holder = s], c, "pump", s, "BEGIN", Null)
    OBVIOUS
<1> HIDE DEF ss, en
<1>6. /\ Only(en[c], s, "BEGIN") /\ en[c].holder = s /\ en[c].tx = "idle"
      /\ en[c].work = {} /\ conn[c].work = {} /\ conn[c].holder = Null
      /\ \A d \in Client \ {c} : en[d] = conn[d]
      /\ \A d \in Client : conn[d].holder # s
    <2>1. Taken(en, c, s, "BEGIN", Null)
        BY <1>0, <1>1, <1>2, <1>3, TakesClient
    <2> QED
        BY <2>1 DEF Taken
<1>7. /\ sess'[s] = ss /\ conn' = en /\ pump'[s].pc = "pinBegin"
      /\ OnlySession(s) /\ hist' = hist /\ SameLedger
    BY <1>1, <1>5, AwaitFields, SessionOnly DEF SameLedger
<1>8. OnlyClient(s, c) /\ OnlyRows(s)
    BY <1>6, <1>7, SameRows DEF OnlyClient
<1>9. UnitInv'
    <2>1. Unit(sess'[s], pump'[s], hist'[s], up)
        BY <1>1, <1>2, <1>4, <1>7 DEF Unit
    <2> QED
        BY <1>1, <1>7, <2>1, UnitFrame DEF TxInv
<1>10. ClientsInv'
    <2>1. TxHeld(conn'[c], s, pump'[s], hist'[s])
        BY <1>6, <1>7 DEF TxHeld, Waiting
    <2>2. Holding(c, conn'[c], s, sess'[s], pump'[s], hist'[s])
        BY <1>4, <1>7, <2>1 DEF Holding
    <2> QED
        BY <1>2, <1>4, <1>6, <1>7, <1>8, <2>2, ClientFrame DEF TxInv
<1>11. LedgerInv'
    BY <1>1, <1>2, <1>6, <1>7, <1>8, LedgerFrame DEF TxInv, SameLedger
<1> QED
    BY <1>9, <1>10, <1>11 DEF TxInv

\* A client has come for one statement outside a transaction.
LEMMA AutoConnectedTx ==
    ASSUME TypeInv, TypeInv', TxInv, NEW s \in Session, AutoConnected(s)
    PROVE  TxInv'
<1>1. /\ pump[s].pc = "autoConnect" /\ up
      /\ UNCHANGED <<up, durable, acked>>
    BY ResumeTx DEF AutoConnected, ConnectAwait
<1>2. ~sess[s].inTx /\ ~hist[s].open /\ sess[s].txClient = Null /\ s # Null
    BY <1>1, FieldTypes DEF TxInv, UnitInv, Unit
<1> DEFINE row == RowOf(s, pump[s].tid)
<1>3. row.s = s /\ ~row.tx
    BY <1>2 DEF RowOf
<1>4. PICK c \in Client :
        /\ Free(s, c)
        /\ Await(s, sess[s], Enqueue([conn EXCEPT ![c].holder = s], c, "pump", s,
                                     "DATA", row), "autoQuery", Null)
    BY DEF AutoConnected
<1> DEFINE en == Enqueue([conn EXCEPT ![c].holder = s], c, "pump", s, "DATA", row)
<1>5. UNCHANGED outcome /\ Await(s, sess[s], en, "autoQuery", Null)
    BY <1>4 DEF AutoConnected
<1> HIDE DEF row
<1>0. en = Enqueue([conn EXCEPT ![c].holder = s], c, "pump", s, "DATA", row)
    OBVIOUS
<1> HIDE DEF en
<1>6. /\ Only(en[c], s, "DATA") /\ Head(en[c].queue).row = row
      /\ en[c].holder = s /\ en[c].tx = "idle"
      /\ en[c].work = {} /\ conn[c].work = {} /\ conn[c].holder = Null
      /\ \A d \in Client \ {c} : en[d] = conn[d]
      /\ \A d \in Client : conn[d].holder # s
    <2>1. Taken(en, c, s, "DATA", row)
        BY <1>0, <1>1, <1>2, <1>4, TakesClient
    <2> QED
        BY <2>1 DEF Taken
<1>7. /\ sess'[s] = sess[s] /\ conn' = en /\ pump'[s].pc = "autoQuery"
      /\ OnlySession(s) /\ hist' = hist /\ SameLedger
    BY <1>1, <1>5, AwaitFields, SessionOnly DEF SameLedger
<1>8. OnlyClient(s, c) /\ OnlyRows(s)
    BY <1>6, <1>7, SameRows DEF OnlyClient
<1>9. UnitInv'
    <2>1. Unit(sess[s], pump[s], hist[s], up)
        BY DEF TxInv, UnitInv
    <2>2. Unit(sess'[s], pump'[s], hist'[s], up)
        BY <1>1, <1>2, <1>7, <2>1 DEF Unit
    <2> QED
        BY <1>1, <1>7, <2>2, UnitFrame DEF TxInv
<1>10. ClientsInv'
    <2>1. AutoHeld(conn'[c], s, pump'[s])
        BY <1>3, <1>6, <1>7 DEF AutoHeld
    <2>2. c # Null
        BY ClientType
    <2>3. Holding(c, conn'[c], s, sess'[s], pump'[s], hist'[s])
        BY <1>2, <1>7, <2>1, <2>2 DEF Holding
    <2> QED
        BY <1>2, <1>6, <1>7, <1>8, <2>3, ClientFrame DEF TxInv
<1>11. LedgerInv'
    BY <1>1, <1>2, <1>6, <1>7, <1>8, LedgerFrame DEF TxInv, SameLedger
<1> QED
    BY <1>9, <1>10, <1>11 DEF TxInv

---------------------------------------------------------------------------
(***************************************************************************)
(* The backends.                                                           *)
(***************************************************************************)
\* The clients after c has executed the request at the head of its queue.
ServedConn(c, ok) ==
    LET k == conn[c]
        r == Head(k.queue)
    IN [conn EXCEPT ![c] = [holder |-> k.holder, queue |-> Tail(k.queue),
                            tx |-> TxAfter(k, r, ok), work |-> WorkAfter(k, r, ok)]]

\* The fields of a client that was served.
LEMMA ServedFields ==
    ASSUME TypeInv, NEW c \in Client, conn[c].queue # << >>, NEW ok \in BOOLEAN,
           NEW cn, cn = ServedConn(c, ok), NEW r, r = Head(conn[c].queue)
    PROVE  /\ cn \in Conns
           /\ cn[c].holder = conn[c].holder /\ cn[c].queue = Tail(conn[c].queue)
           /\ cn[c].tx = TxAfter(conn[c], r, ok)
           /\ cn[c].work = WorkAfter(conn[c], r, ok)
           /\ \A d \in Client \ {c} : cn[d] = conn[d]
           /\ r \in Request /\ RowsCommitted(conn[c], r, ok) \in SUBSET Row
<1>1. /\ cn \in Conns /\ r \in Request
      /\ RowsCommitted(conn[c], r, ok) \in SUBSET Row
    BY ServedType DEF ServedConn, TypeInv
<1>2. /\ cn[c].holder = conn[c].holder /\ cn[c].queue = Tail(conn[c].queue)
      /\ cn[c].tx = TxAfter(conn[c], r, ok)
      /\ cn[c].work = WorkAfter(conn[c], r, ok)
      /\ \A d \in Client \ {c} : cn[d] = conn[d]
    BY DEF ServedConn, TypeInv, TypeOK
<1> QED
    BY <1>1, <1>2

\* Client c serves session s, which awaits the answer, by cn.
Serves(s, c, r, ok, cn) ==
    /\ conn[c].queue # << >> /\ r = Head(conn[c].queue) /\ cn = ServedConn(c, ok)
    /\ up /\ conn[c].holder = s /\ r.s = s /\ r.by = "pump"
    /\ Tail(conn[c].queue) = << >>
    /\ MayAnswer(conn[c], r, ok)
    /\ durable' = [durable EXCEPT ![HostOf[c]] = @ \cup RowsCommitted(conn[c], r, ok)]
    /\ ResumePump(s, c, r, ok, cn)

\* A session with a request on its client awaits one of these.
OwnClient(s, c, r) ==
    /\ sess[s].txClient = c
    /\ TxHeld(conn[c], s, pump[s], hist[s])
    /\ \/ pump[s].pc = "pinBegin" /\ r.op = "BEGIN"
       \/ pump[s].pc = "txQuery" /\ r.op = "DATA" /\ OwnRow(r.row, s, hist[s])
       \/ pump[s].pc = "endQuery" /\ r.op = Tag(pump[s])

\* A session with an autocommit statement on client c.
BorrowedClient(s, c, r) ==
    /\ sess[s].txClient = Null
    /\ AutoHeld(conn[c], s, pump[s])
    /\ pump[s].pc = "autoQuery" /\ r.op = "DATA" /\ r.row.s = s /\ ~r.row.tx

\* What is queued on a client is the one request that its holder awaits.
LEMMA QueuedBy ==
    ASSUME TypeInv, TxInv, NEW c \in Client, conn[c].queue # << >>,
           NEW r, r = Head(conn[c].queue)
    PROVE  \E s \in Session :
             /\ conn[c].holder = s /\ r.s = s /\ r.by = "pump"
             /\ Tail(conn[c].queue) = << >>
             /\ OwnClient(s, c, r) \/ BorrowedClient(s, c, r)
<1>1. conn[c].holder # Null
    BY DEF TxInv, ClientsInv, Pooled
<1>2. PICK s \in Session : conn[c].holder = s
    BY <1>1, ClientType
<1>3. Unit(sess[s], pump[s], hist[s], up)
    BY DEF TxInv, UnitInv
<1>4. CASE sess[s].txClient = c
    <2>1. TxHeld(conn[c], s, pump[s], hist[s]) /\ c # Null
        BY <1>4, HolderOf, ClientType DEF TxInv
    <2>2. pump[s].pc \in Waiting /\ pump[s].pc # "autoQuery"
        BY <1>3, <1>4, <2>1 DEF TxHeld, Unit
    <2>3. CASE pump[s].pc = "pinBegin"
        BY <1>2, <1>4, <2>1, <2>3 DEF TxHeld, Only, OwnClient
    <2>4. CASE pump[s].pc = "txQuery"
        BY <1>2, <1>4, <2>1, <2>4 DEF TxHeld, Only, OwnClient
    <2>5. CASE pump[s].pc = "endQuery"
        BY <1>2, <1>4, <2>1, <2>5 DEF TxHeld, Only, OwnClient
    <2> QED
        BY <2>2, <2>3, <2>4, <2>5 DEF Waiting
<1>5. CASE sess[s].txClient # c
    <2>1. AutoHeld(conn[c], s, pump[s])
        BY <1>2, <1>5, HolderOf DEF TxInv
    <2>2. sess[s].txClient = Null
        BY <1>3, <2>1 DEF AutoHeld, Unit
    <2> QED
        BY <1>2, <2>1, <2>2 DEF AutoHeld, Only, BorrowedClient
<1> QED
    BY <1>4, <1>5

\* cleanup() never resumes: nothing it queued is on a client.
LEMMA ServeCases ==
    ASSUME TypeInv, TxInv, NEW c \in Client, Serve(c)
    PROVE  \E s \in Session, ok \in BOOLEAN : \E r, cn :
             /\ Serves(s, c, r, ok, cn)
             /\ OwnClient(s, c, r) \/ BorrowedClient(s, c, r)
<1> DEFINE r == Head(conn[c].queue)
<1>1. conn[c].queue # << >> /\ up
    BY DEF Serve
<1>2. PICK s \in Session :
        /\ conn[c].holder = s /\ r.s = s /\ r.by = "pump"
        /\ Tail(conn[c].queue) = << >>
        /\ OwnClient(s, c, r) \/ BorrowedClient(s, c, r)
    BY <1>1, QueuedBy
<1>3. PICK ok \in BOOLEAN :
        /\ MayAnswer(conn[c], r, ok)
        /\ durable' = [durable EXCEPT ![HostOf[c]] =
                         @ \cup RowsCommitted(conn[c], r, ok)]
        /\ ResumePump(s, c, r, ok, ServedConn(c, ok))
    BY <1>2 DEF Serve, ServedConn
<1>4. Serves(s, c, r, ok, ServedConn(c, ok))
    BY <1>1, <1>2, <1>3 DEF Serves
<1> QED
    BY <1>2, <1>4

\* The state after every answer.
ServedState(s, c, r, ok, cn) ==
    /\ cn \in Conns /\ cn[c].holder = s /\ cn[c].queue = << >>
    /\ cn[c].tx = TxAfter(conn[c], r, ok)
    /\ cn[c].work = WorkAfter(conn[c], r, ok)
    /\ \A d \in Client \ {c} : cn[d] = conn[d]
    /\ r \in Request /\ up /\ up' = up /\ s # Null /\ c # Null
    /\ conn[c].holder = s
    /\ HostOf[c] \in Shard
    /\ RowsCommitted(conn[c], r, ok) = {} => durable' = durable

\* Facts of every answer.
LEMMA ServesFacts ==
    ASSUME TypeInv, TxInv, NEW s \in Session, NEW c \in Client, NEW ok \in BOOLEAN,
           NEW r, NEW cn, Serves(s, c, r, ok, cn)
    PROVE  ServedState(s, c, r, ok, cn)
<1>1. /\ conn[c].queue # << >> /\ r = Head(conn[c].queue) /\ cn = ServedConn(c, ok)
      /\ up /\ conn[c].holder = s /\ Tail(conn[c].queue) = << >>
      /\ durable' = [durable EXCEPT ![HostOf[c]] = @ \cup RowsCommitted(conn[c], r, ok)]
      /\ ResumePump(s, c, r, ok, cn)
    BY DEF Serves
<1>2. up' = up
    BY <1>1 DEF ResumePump
<1>3. HostOf[c] \in Shard
    BY ConstantsAssumption
<1>4. RowsCommitted(conn[c], r, ok) = {} => durable' = durable
    BY <1>1, <1>3 DEF TypeInv, TypeOK
<1>5. s # Null /\ c # Null
    BY FieldTypes, ClientType
<1>6. /\ cn \in Conns /\ cn[c].holder = conn[c].holder
      /\ cn[c].queue = Tail(conn[c].queue)
      /\ cn[c].tx = TxAfter(conn[c], r, ok)
      /\ cn[c].work = WorkAfter(conn[c], r, ok)
      /\ \A d \in Client \ {c} : cn[d] = conn[d]
      /\ r \in Request
    BY <1>1, ServedFields
<1> QED
    BY <1>1, <1>2, <1>3, <1>4, <1>5, <1>6 DEF ServedState

\* The session keeps its client after an answer, and nothing of it is durable or over.
LEMMA KeepsClient ==
    ASSUME TypeInv, TypeInv', TxInv, NEW s \in Session, NEW c \in Client, NEW cn,
           conn' = cn, \A d \in Client \ {c} : cn[d] = conn[d],
           conn[c].holder = s, up' = up, OnlySession(s),
           sess[s].txClient = c, sess'[s].txClient = c,
           sess'[s].inTx = sess[s].inTx, pump'[s].pc \in {"run", "idle"},
           hist'[s].open = hist[s].open,
           TxHeld(conn'[c], s, pump'[s], hist'[s])
    PROVE  UnitInv' /\ ClientsInv' /\ OnlyClient(s, c)
<1>1. OnlyClient(s, c) /\ s # Null /\ conn'[c].holder = s
    BY FieldTypes DEF OnlyClient, TxHeld
<1>2. Unit(sess[s], pump[s], hist[s], up)
    BY DEF TxInv, UnitInv
<1>3. c # Null
    BY ClientType
<1>4. Unit(sess'[s], pump'[s], hist'[s], up)
    BY <1>2, <1>3 DEF Unit
<1>5. UnitInv'
    BY <1>4, UnitFrame DEF TxInv
<1>6. Holding(c, conn'[c], s, sess'[s], pump'[s], hist'[s])
    BY DEF Holding
<1>7. ClientsInv'
    BY <1>1, <1>6, ClientFrame DEF TxInv
<1> QED
    BY <1>1, <1>5, <1>7

\* The session gives its client back after an answer.
LEMMA ReturnsClient ==
    ASSUME TypeInv, TypeInv', TxInv, NEW s \in Session, NEW c \in Client,
           \A d \in Client \ {c} : conn'[d] = conn[d],
           conn[c].holder = s, up' = up, OnlySession(s),
           sess'[s].txClient = Null, ~sess'[s].inTx, ~sess'[s].backendInTx,
           pump'[s].pc \in {"run", "idle"}, ~hist'[s].open,
           conn'[c].holder = Null, Pooled(conn'[c])
    PROVE  UnitInv' /\ ClientsInv' /\ OnlyClient(s, c)
<1>1. OnlyClient(s, c) /\ s # Null /\ c # Null
    BY FieldTypes, ClientType DEF OnlyClient
<1>2. Unit(sess'[s], pump'[s], hist'[s], up)
    BY DEF Unit
<1>3. UnitInv'
    BY <1>2, UnitFrame DEF TxInv
<1>4. Holding(c, conn'[c], s, sess'[s], pump'[s], hist'[s])
    BY <1>1, NoClientHolding
<1>5. ClientsInv'
    BY <1>1, <1>4, ClientFrame DEF TxInv
<1> QED
    BY <1>1, <1>3, <1>5

\* BEGIN was executed: an idle client does not refuse it.
LEMMA BegunTx ==
    ASSUME TypeInv, TypeInv', TxInv, NEW s \in Session, NEW c \in Client,
           NEW ok \in BOOLEAN, NEW r, NEW cn, Serves(s, c, r, ok, cn),
           OwnClient(s, c, r), pump[s].pc = "pinBegin"
    PROVE  TxInv'
<1>1. /\ cn \in Conns /\ cn[c].holder = s /\ cn[c].queue = << >>
      /\ cn[c].tx = TxAfter(conn[c], r, ok)
      /\ cn[c].work = WorkAfter(conn[c], r, ok)
      /\ \A d \in Client \ {c} : cn[d] = conn[d]
      /\ up /\ up' = up /\ s # Null /\ c # Null /\ conn[c].holder = s
      /\ RowsCommitted(conn[c], r, ok) = {} => durable' = durable
    <2>1. ServedState(s, c, r, ok, cn)
        BY ServesFacts
    <2> QED
        BY <2>1 DEF ServedState
<1>2. /\ r.op = "BEGIN" /\ conn[c].tx = "idle" /\ conn[c].work = {}
      /\ sess[s].txClient = c
    BY DEF OwnClient, TxHeld
<1>3. ok
    BY <1>2 DEF Serves, MayAnswer
<1>4. cn[c].tx = "open" /\ cn[c].work = {} /\ durable' = durable
    BY <1>1, <1>2, <1>3 DEF TxAfter, WorkAfter, RowsCommitted, EndsTx
<1> DEFINE ss == [sess[s] EXCEPT !.backendInTx = TRUE]
           p == [pump[s] EXCEPT !.pc = "run"]
<1>5. Pinned(s, ss, cn) /\ acked' = acked
    BY <1>2, <1>3 DEF Serves, ResumePump
<1>6. /\ sess[s].inTx /\ hist[s].open
    BY <1>1, <1>2 DEF TxInv, UnitInv, Unit
<1>7. ss \in SessionState /\ ss.txClient = c /\ ss.inTx /\ p.pc = "run"
    BY <1>2, <1>6, FieldTypes DEF SessionState, Pump
<1> HIDE DEF ss, p
<1>8. TxHeld(cn[c], s, p, hist[s])
    BY <1>1, <1>4, <1>7 DEF TxHeld
<1> QED
    BY <1>1, <1>2, <1>4, <1>5, <1>6, <1>7, <1>8, PinnedTx

\* The request of a transaction failed: the client's unit of work is marked.
LEMMA FailedTx ==
    ASSUME TypeInv, TypeInv', TxInv, NEW s \in Session, NEW c \in Client,
           NEW ok \in BOOLEAN, NEW r, NEW cn, Serves(s, c, r, ok, cn),
           OwnClient(s, c, r), pump[s].pc \in {"txQuery", "endQuery"}, ~ok
    PROVE  TxInv'
<1>1. /\ cn \in Conns /\ cn[c].holder = s /\ cn[c].queue = << >>
      /\ cn[c].tx = TxAfter(conn[c], r, ok)
      /\ cn[c].work = WorkAfter(conn[c], r, ok)
      /\ \A d \in Client \ {c} : cn[d] = conn[d]
      /\ up /\ up' = up /\ s # Null /\ c # Null /\ conn[c].holder = s
      /\ RowsCommitted(conn[c], r, ok) = {} => durable' = durable
    <2>1. ServedState(s, c, r, ok, cn)
        BY ServesFacts
    <2> QED
        BY <2>1 DEF ServedState
<1>2. cn[c].work = {} /\ durable' = durable
    BY <1>1 DEF WorkAfter, RowsCommitted
<1>3. Throw(s, sess[s], cn) /\ acked' = acked
    BY DEF Serves, ResumePump
<1>4. /\ sess'[s] = sess[s] /\ conn' = cn /\ pump'[s].pc = "idle"
      /\ OnlySession(s) /\ ended' = ended
      /\ hist'[s].unit = hist[s].unit /\ hist'[s].open = hist[s].open
      /\ ~hist'[s].clean
    BY <1>3, ThrowFields
<1>5. sess[s].txClient = c /\ (conn[c].tx = "idle" => "commit" \in Faults)
    BY DEF OwnClient, TxHeld
<1>6. cn[c].tx = "idle" => "commit" \in Faults
    <2>1. MayAnswer(conn[c], r, ok)
        BY DEF Serves
    <2>2. r.op = "COMMIT" => "commit" \in Faults
        BY <2>1 DEF MayAnswer
    <2>3. r.op # "ROLLBACK"
        BY <2>1 DEF MayAnswer
    <2> QED
        BY <1>1, <1>5, <2>2, <2>3 DEF TxAfter, EndsTx
<1>7. TxHeld(conn'[c], s, pump'[s], hist'[s])
    BY <1>1, <1>2, <1>4, <1>6 DEF TxHeld
<1>8. UnitInv' /\ ClientsInv' /\ OnlyClient(s, c)
    BY <1>1, <1>4, <1>5, <1>7, KeepsClient
<1>9. SameLedger
    BY <1>2, <1>3, <1>4 DEF SameLedger
<1>10. LedgerInv'
    BY <1>1, <1>4, <1>8, <1>9, SameRows, LedgerFrame DEF TxInv, SameLedger
<1> QED
    BY <1>8, <1>10 DEF TxInv

\* A data statement of a transaction was executed.
LEMMA WrittenTx ==
    ASSUME TypeInv, TypeInv', TxInv, NEW s \in Session, NEW c \in Client,
           NEW ok \in BOOLEAN, NEW r, NEW cn, Serves(s, c, r, ok, cn),
           OwnClient(s, c, r), pump[s].pc = "txQuery", ok
    PROVE  TxInv'
<1>1. /\ cn \in Conns /\ cn[c].holder = s /\ cn[c].queue = << >>
      /\ cn[c].tx = TxAfter(conn[c], r, ok)
      /\ cn[c].work = WorkAfter(conn[c], r, ok)
      /\ \A d \in Client \ {c} : cn[d] = conn[d]
      /\ up /\ up' = up /\ s # Null /\ c # Null /\ conn[c].holder = s
      /\ HostOf[c] \in Shard
      /\ RowsCommitted(conn[c], r, ok) = {} => durable' = durable
    <2>1. ServedState(s, c, r, ok, cn)
        BY ServesFacts
    <2> QED
        BY <2>1 DEF ServedState
<1>2. /\ r.op = "DATA" /\ OwnRow(r.row, s, hist[s]) /\ sess[s].txClient = c
      /\ TxHeld(conn[c], s, pump[s], hist[s])
    BY DEF OwnClient
<1>3. Done(s, sess[s], cn) /\ UNCHANGED outcome /\ acked' = acked \cup {r.row}
    BY <1>2 DEF Serves, ResumePump
<1>4. /\ sess'[s] = sess[s] /\ conn' = cn /\ pump'[s].pc = "run"
      /\ OnlySession(s) /\ hist' = hist /\ ended' = ended
    BY <1>3, DoneFields, SessionOnly
<1>5. conn[c].tx \in {"idle", "open"} /\ cn[c].tx = conn[c].tx
    <2>1. conn[c].tx # "failed"
        BY <1>2 DEF Serves, MayAnswer
    <2>2. conn[c].tx \in {"idle", "open", "failed"}
        BY ClientType DEF Connection
    <2> QED
        BY <1>1, <1>2, <2>1, <2>2 DEF TxAfter, EndsTx
<1>6. cn[c].work = IF conn[c].tx = "open" THEN conn[c].work \cup {r.row} ELSE conn[c].work
    BY <1>1, <1>2 DEF WorkAfter, EndsTx
<1>7. TxHeld(conn'[c], s, pump'[s], hist'[s])
    BY <1>1, <1>2, <1>4, <1>5, <1>6 DEF TxHeld
<1>8. UnitInv' /\ ClientsInv' /\ OnlyClient(s, c)
    BY <1>1, <1>2, <1>4, <1>7, KeepsClient
<1>9. \/ durable' = durable
      \/ /\ "commit" \in Faults
         /\ durable' = [durable EXCEPT ![HostOf[c]] = @ \cup {r.row}]
    <2>1. conn[c].tx = "idle" => "commit" \in Faults
        BY <1>2 DEF TxHeld
    <2>2. conn[c].tx = "open" => RowsCommitted(conn[c], r, ok) = {}
        BY <1>2 DEF RowsCommitted
    <2>3. conn[c].tx = "idle" => RowsCommitted(conn[c], r, ok) = {r.row}
        BY <1>2 DEF RowsCommitted
    <2> QED
        BY <1>1, <1>5, <2>1, <2>2, <2>3 DEF Serves
<1>10. hist[s].clean => conn'[c].work = conn[c].work \cup {r.row}
    BY <1>2, <1>4, <1>6 DEF TxHeld
<1>11. hist[s].open
    BY <1>1, <1>2 DEF TxInv, UnitInv, Unit
<1>12. Ledger(s)'
    <2>1. Ledger(s)
        BY DEF TxInv, LedgerInv
    <2> DEFINE w == r.row
    <2>2. /\ OwnRow(w, s, hist[s]) /\ acked' = acked \cup {w}
          /\ hist[s].clean => conn'[c].work = conn[c].work \cup {w}
          /\ \/ durable' = durable
             \/ /\ "commit" \in Faults
                /\ durable' = [durable EXCEPT ![HostOf[c]] = @ \cup {w}]
        BY <1>2, <1>3, <1>9, <1>10
    <2> HIDE DEF w
    <2> QED
        BY <1>1, <1>2, <1>4, <1>11, <2>1, <2>2, LedgerWrites
<1>13. OnlyRows(s)
    <2>1. r.row.s = s /\ durable \in [Shard -> SUBSET Row]
        BY <1>2 DEF OwnRow, TypeInv, TypeOK
    <2> DEFINE w == r.row
               g == HostOf[c]
    <2>2. durable' = durable \/ durable' = [durable EXCEPT ![g] = @ \cup {w}]
        BY <1>9
    <2>3. w.s = s
        BY <2>1
    <2> HIDE DEF w, g
    <2>4. \A h \in Shard : /\ durable[h] \subseteq durable'[h]
                          /\ \A x \in durable'[h] : x \in durable[h] \/ x = w
        BY <2>1, <2>2
    <2>5. \A x \in acked' : x = w \/ x \in acked
        BY <1>3 DEF w
    <2>6. ended' = ended
        BY <1>4
    <2> QED
        BY <2>3, <2>4, <2>5, <2>6 DEF OnlyRows
<1>14. LedgerInv'
    BY <1>1, <1>4, <1>8, <1>12, <1>13, LedgerOf DEF TxInv
<1> QED
    BY <1>8, <1>14 DEF TxInv

\* COMMIT or ROLLBACK was executed, and the client goes back to the pool.
LEMMA EndedTx ==
    ASSUME TypeInv, TypeInv', TxInv, NEW s \in Session, NEW c \in Client,
           NEW ok \in BOOLEAN, NEW r, NEW cn, Serves(s, c, r, ok, cn),
           OwnClient(s, c, r), pump[s].pc = "endQuery", ok
    PROVE  TxInv'
<1>1. /\ cn \in Conns /\ cn[c].holder = s /\ cn[c].queue = << >>
      /\ cn[c].tx = TxAfter(conn[c], r, ok)
      /\ cn[c].work = WorkAfter(conn[c], r, ok)
      /\ \A d \in Client \ {c} : cn[d] = conn[d]
      /\ up /\ up' = up /\ s # Null /\ c # Null /\ conn[c].holder = s
      /\ HostOf[c] \in Shard
      /\ RowsCommitted(conn[c], r, ok) = {} => durable' = durable
    <2>1. ServedState(s, c, r, ok, cn)
        BY ServesFacts
    <2> QED
        BY <2>1 DEF ServedState
<1>2. /\ r.op = Tag(pump[s]) /\ sess[s].txClient = c
      /\ TxHeld(conn[c], s, pump[s], hist[s])
    BY DEF OwnClient
<1>3. /\ r.op \in {"COMMIT", "ROLLBACK"}
      /\ r.op = "COMMIT" <=> Stmt(s).op = "commit"
    BY <1>2 DEF Tag, Stmt
<1>4. EndTx(s, Release(cn, c)) /\ acked' = acked
    BY <1>1, <1>2, <1>3 DEF Serves, ResumePump, GiveBack
<1> DEFINE ss == [Unpinned(sess[s]) EXCEPT !.txClient = Null, !.txStatus = "I"]
<1>5. ss.txClient = Null /\ ~ss.inTx /\ ~ss.backendInTx
    BY FieldTypes DEF Unpinned, SessionState
<1>6. Done(s, ss, Release(cn, c))
    BY <1>4 DEF EndTx
<1> HIDE DEF ss
<1>7. /\ sess'[s] = ss /\ conn' = Release(cn, c) /\ pump'[s].pc = "run"
      /\ \A q \in Session \ {s} : sess'[q] = sess[q] /\ pump'[q] = pump[q]
    BY <1>6, DoneFields
<1>8. /\ hist'[s].unit = hist[s].unit /\ ~hist'[s].open
      /\ \A q \in Session \ {s} : hist'[q] = hist[q]
    BY <1>4 DEF EndTx, TypeInv, TypeOK, History
<1>9. OnlySession(s)
    BY <1>7, <1>8 DEF OnlySession
<1>10. /\ conn'[c].holder = Null /\ Pooled(conn'[c])
       /\ \A d \in Client \ {c} : conn'[d] = conn[d]
    <2>1. cn[c].tx = "idle" /\ cn[c].work = {}
        BY <1>1, <1>3 DEF TxAfter, WorkAfter, EndsTx
    <2> QED
        BY <1>1, <1>7, <2>1 DEF Release, Conns, Connection, Pooled
<1>11. UnitInv' /\ ClientsInv' /\ OnlyClient(s, c)
    BY <1>1, <1>5, <1>7, <1>8, <1>9, <1>10, ReturnsClient
<1>12. hist[s].open
    BY <1>1, <1>2 DEF TxInv, UnitInv, Unit
<1>13. Ledger(s)
    BY DEF TxInv, LedgerInv
<1>14. CASE r.op = "COMMIT"
    <2> DEFINE W == conn[c].work
               told == hist[s].clean /\ socket[s] = "open"
    <2>1. RowsCommitted(conn[c], r, ok) = W
        BY <1>14 DEF RowsCommitted
    <2>2. durable' = [durable EXCEPT ![HostOf[c]] = @ \cup W]
        BY <2>1 DEF Serves
    <2>3. durable' = [h \in Shard |->
                        IF sess[s].txClient # Null /\ h = HostOf[sess[s].txClient]
                        THEN durable[h] \cup W ELSE durable[h]]
        BY <1>1, <1>2, <2>2 DEF TypeInv, TypeOK
    <2>4. \A x \in W : OwnRow(x, s, hist[s])
        BY <1>2 DEF TxHeld
    <2>5. hist[s].clean => \A x \in acked : x.s = s /\ x.tx /\ x.unit = hist[s].unit
                              => x \in W
        BY <1>1, <1>2, <1>12, <1>13 DEF Ledger, AckedHeld, Current
    <2>6. /\ ended' = ended \cup {[s |-> s, unit |-> hist[s].unit, told |-> told]}
          /\ told => hist[s].clean
        BY <1>3, <1>4, <1>12, <1>14 DEF EndTx
    <2>10. \A x \in W : x.s = s /\ x.tx => x.unit = hist[s].unit
        BY <2>4 DEF OwnRow
    <2> HIDE DEF W, told
    <2>7. Ledger(s)'
        BY <1>1, <1>2, <1>4, <1>8, <1>12, <1>13, <2>3, <2>5, <2>6, <2>10, LedgerCommits
    <2>8. OnlyRows(s)
        <3>1. \A x \in W : x.s = s
            BY <2>4 DEF OwnRow
        <3> QED
            BY <1>4, <2>2, <2>6, <3>1 DEF OnlyRows, TypeInv, TypeOK
    <2>9. LedgerInv'
        BY <1>1, <1>9, <1>11, <2>7, <2>8, LedgerOf DEF TxInv
    <2> QED
        BY <1>11, <2>9 DEF TxInv
<1>15. CASE r.op = "ROLLBACK"
    <2>1. durable' = durable /\ ended' = ended
        BY <1>1, <1>3, <1>4, <1>15 DEF RowsCommitted, EndTx
    <2>2. SameLedger
        BY <1>4, <2>1 DEF SameLedger
    <2>3. LedgerInv'
        BY <1>1, <1>8, <1>9, <1>11, <2>2, SameRows, LedgerFrame DEF TxInv, SameLedger
    <2> QED
        BY <1>11, <2>3 DEF TxInv
<1> QED
    BY <1>3, <1>14, <1>15

\* A statement outside a transaction was answered.
LEMMA AutoServedTx ==
    ASSUME TypeInv, TypeInv', TxInv, NEW s \in Session, NEW c \in Client,
           NEW ok \in BOOLEAN, NEW r, NEW cn, Serves(s, c, r, ok, cn),
           BorrowedClient(s, c, r)
    PROVE  TxInv'
<1>1. /\ cn \in Conns /\ cn[c].holder = s /\ cn[c].queue = << >>
      /\ cn[c].tx = TxAfter(conn[c], r, ok)
      /\ cn[c].work = WorkAfter(conn[c], r, ok)
      /\ \A d \in Client \ {c} : cn[d] = conn[d]
      /\ up /\ up' = up /\ s # Null /\ c # Null /\ conn[c].holder = s
    <2>1. ServedState(s, c, r, ok, cn)
        BY ServesFacts
    <2> QED
        BY <2>1 DEF ServedState
<1>2. /\ sess[s].txClient = Null /\ pump[s].pc = "autoQuery" /\ r.op = "DATA"
      /\ r.row.s = s /\ ~r.row.tx /\ conn[c].tx = "idle" /\ conn[c].work = {}
    BY DEF BorrowedClient, AutoHeld
<1>3. ~sess[s].inTx /\ ~sess[s].backendInTx /\ ~hist[s].open
    BY <1>1, <1>2 DEF TxInv, UnitInv, Unit
<1>4. \/ Done(s, sess[s], Release(cn, c)) /\ UNCHANGED outcome
      \/ Throw(s, sess[s], Release(cn, c))
    BY <1>2 DEF Serves, ResumePump
<1>5. /\ sess'[s] = sess[s] /\ conn' = Release(cn, c) /\ pump'[s].pc \in {"run", "idle"}
      /\ OnlySession(s) /\ ended' = ended
      /\ hist'[s].unit = hist[s].unit /\ hist'[s].open = hist[s].open
    BY <1>4, DoneFields, ThrowFields, SessionOnly
<1>6. /\ conn'[c].holder = Null /\ Pooled(conn'[c])
      /\ \A d \in Client \ {c} : conn'[d] = conn[d]
    <2>1. cn[c].tx = "idle" /\ cn[c].work = {}
        BY <1>1, <1>2 DEF TxAfter, WorkAfter, EndsTx
    <2> QED
        BY <1>1, <1>5, <2>1 DEF Release, Conns, Connection, Pooled
<1>7. UnitInv' /\ ClientsInv' /\ OnlyClient(s, c)
    BY <1>1, <1>2, <1>3, <1>5, <1>6, ReturnsClient
<1>8. /\ RowsCommitted(conn[c], r, ok) \subseteq {r.row}
      /\ acked' = acked \/ acked' = acked \cup {r.row}
      /\ durable' = [durable EXCEPT ![HostOf[c]] = @ \cup RowsCommitted(conn[c], r, ok)]
    BY <1>2 DEF Serves, ResumePump, RowsCommitted
<1>9. /\ \A h \in Shard : durable[h] \subseteq durable'[h]
      /\ \A h \in Shard : \A x \in durable'[h] : x \in durable[h] \/ x = r.row
      /\ \A x \in acked' : x \in acked \/ x = r.row
    BY <1>8 DEF TypeInv, TypeOK
<1>10. OnlyRows(s)
    BY <1>2, <1>5, <1>9 DEF OnlyRows
<1>11. /\ \A h \in Shard : \A x \in durable'[h] : x.tx => x \in durable[h]
       /\ \A x \in acked' : x.tx => x \in acked
    BY <1>2, <1>9
<1>12. LedgerInv'
    BY <1>1, <1>3, <1>5, <1>7, <1>10, <1>11, LedgerFrame DEF TxInv
<1> QED
    BY <1>7, <1>12 DEF TxInv

\* A backend answers the request that its client's holder awaits.
LEMMA ServeTx ==
    ASSUME TypeInv, TypeInv', TxInv, NEW c \in Client, Serve(c)
    PROVE  TxInv'
<1>1. PICK s \in Session, ok \in BOOLEAN : \E r, cn :
        /\ Serves(s, c, r, ok, cn)
        /\ OwnClient(s, c, r) \/ BorrowedClient(s, c, r)
    BY ServeCases
<1>2. PICK r, cn : /\ Serves(s, c, r, ok, cn)
                   /\ OwnClient(s, c, r) \/ BorrowedClient(s, c, r)
    BY <1>1
<1>3. CASE BorrowedClient(s, c, r)
    BY <1>2, <1>3, AutoServedTx
<1>4. CASE OwnClient(s, c, r)
    <2>1. pump[s].pc \in {"pinBegin", "txQuery", "endQuery"}
        BY <1>4 DEF OwnClient
    <2>2. CASE pump[s].pc = "pinBegin"
        BY <1>2, <1>4, <2>2, BegunTx
    <2>3. CASE pump[s].pc # "pinBegin" /\ ~ok
        BY <1>2, <1>4, <2>1, <2>3, FailedTx
    <2>4. CASE pump[s].pc = "txQuery" /\ ok
        BY <1>2, <1>4, <2>4, WrittenTx
    <2>5. CASE pump[s].pc = "endQuery" /\ ok
        BY <1>2, <1>4, <2>5, EndedTx
    <2> QED
        BY <2>1, <2>2, <2>3, <2>4, <2>5
<1> QED
    BY <1>2, <1>3, <1>4

\* The process ends: the ledgers stay as they are, and no client is held.
LEMMA CrashTx ==
    ASSUME TypeInv, TypeInv', TxInv, Crash, UNCHANGED hist, SameLedger
    PROVE  TxInv'
<1>1. UnitInv'
    BY DEF Crash, UnitInv, Unit, NewSession, IdlePump
<1>2. ClientsInv'
    <2>1. \A s \in Session : s # Null
        BY FieldTypes
    <2>2. \A c \in Client : c # Null
        BY ClientType
    <2> QED
        BY <2>1, <2>2, NoClientHolding
        DEF Crash, ClientsInv, NewSession, IdleConn, Pooled
<1>3. ASSUME NEW q \in Session PROVE Ledger(q)'
    <2>1. Ledger(q) /\ ~up'
        BY DEF TxInv, LedgerInv, Crash
    <2> QED
        BY <2>1, LedgerStays DEF SameLedger
<1> QED
    BY <1>1, <1>2, <1>3 DEF TxInv, LedgerInv

\* A backend is lost during an autocommit statement, or the process with it.
LEMMA BackendLostTx ==
    ASSUME TypeInv, TypeInv', TxInv, NEW c \in Client, BackendLost(c)
    PROVE  TxInv'
<1> DEFINE r == Head(conn[c].queue)
<1>1. CASE /\ Autocommits(c) /\ Len(conn[c].queue) = 1 /\ up
           /\ \E rows \in {{}, {r.row}} :
                durable' = [durable EXCEPT ![HostOf[c]] = @ \cup rows]
           /\ Throw(r.s, sess[r.s], [conn EXCEPT ![c] = IdleConn])
           /\ UNCHANGED <<up, buf, socket>> /\ acked' = acked
    <2>1. conn[c].queue \in Seq(Request) /\ conn[c].queue # << >>
        BY <1>1, ClientType, EmptySeq
    <2>2. r = conn[c].queue[1]
        BY <2>1, HeadTailProperties
    <2>3. r.op = "DATA" /\ pump[r.s].pc = "autoQuery"
        BY <1>1, <2>1, <2>2 DEF Autocommits
    <2> HIDE DEF r
    <2>4. r = Head(conn[c].queue)
        BY DEF r
    <2>5. PICK s \in Session :
            /\ conn[c].holder = s /\ r.s = s
            /\ OwnClient(s, c, r) \/ BorrowedClient(s, c, r)
        BY <2>1, <2>4, QueuedBy
    <2>6. BorrowedClient(s, c, r)
        BY <2>3, <2>5 DEF OwnClient
    <2>7. /\ sess[s].txClient = Null /\ pump[s].pc = "autoQuery"
          /\ r.row.s = s /\ ~r.row.tx /\ conn[c].work = {}
        BY <2>6 DEF BorrowedClient, AutoHeld
    <2>8. ~sess[s].inTx /\ ~sess[s].backendInTx /\ ~hist[s].open
        BY <1>1, <2>7 DEF TxInv, UnitInv, Unit
    <2>9. Throw(s, sess[s], [conn EXCEPT ![c] = IdleConn])
        BY <1>1, <2>5
    <2>10. /\ sess'[s] = sess[s] /\ conn' = [conn EXCEPT ![c] = IdleConn]
           /\ pump'[s].pc = "idle" /\ OnlySession(s) /\ ended' = ended
           /\ hist'[s].unit = hist[s].unit /\ hist'[s].open = hist[s].open
        BY <2>9, ThrowFields
    <2>11. /\ conn'[c].holder = Null /\ Pooled(conn'[c])
           /\ \A d \in Client \ {c} : conn'[d] = conn[d]
        BY <2>10 DEF TypeInv, TypeOK, IdleConn, Pooled
    <2>12. UnitInv' /\ ClientsInv' /\ OnlyClient(s, c)
        BY <1>1, <2>5, <2>7, <2>8, <2>10, <2>11, ReturnsClient
    <2>13. /\ \A h \in Shard : durable[h] \subseteq durable'[h]
           /\ \A h \in Shard : \A x \in durable'[h] : x \in durable[h] \/ x = r.row
        BY <1>1 DEF TypeInv, TypeOK
    <2>14. OnlyRows(s)
        BY <1>1, <2>7, <2>10, <2>13 DEF OnlyRows
    <2>15. \A h \in Shard : \A x \in durable'[h] : x.tx => x \in durable[h]
        BY <2>7, <2>13
    <2>16. LedgerInv'
        BY <1>1, <2>8, <2>10, <2>12, <2>14, <2>15, LedgerFrame DEF TxInv
    <2> QED
        BY <2>12, <2>16 DEF TxInv
<1>2. CASE Crash /\ UNCHANGED <<hist, durable, ended, acked>>
    BY <1>2, CrashTx DEF SameLedger
<1> QED
    BY <1>1, <1>2 DEF BackendLost

---------------------------------------------------------------------------
(***************************************************************************)
(* The invariant, and what follows from it.                                *)
(***************************************************************************)
\* At first every client is in its pool, and nothing has been said to anybody.
LEMMA TxInit == TypeInv /\ Init => TxInv
<1> SUFFICES ASSUME TypeInv, Init PROVE TxInv
    OBVIOUS
<1>1. UnitInv
    BY DEF Init, UnitInv, Unit, NewSession, IdlePump
<1>2. ClientsInv
    <2>1. \A s \in Session : s # Null
        BY FieldTypes
    <2>2. \A c \in Client : c # Null
        BY ClientType
    <2> QED
        BY <2>1, <2>2, NoClientHolding
        DEF Init, ClientsInv, NewSession, IdleConn, Pooled
<1>3. ASSUME NEW q \in Session PROVE Ledger(q)
    BY DEF Init, Ledger, EndedPast, AckedHeld, DurableHere, DurableTogether,
           DurableEnded, CommitKept
<1> QED
    BY <1>1, <1>2, <1>3 DEF TxInv, LedgerInv

\* A step that changes nothing.
LEMMA StutterTx ==
    ASSUME TxInv, UNCHANGED vars
    PROVE  TxInv'
<1>1. UnitInv'
    BY DEF TxInv, UnitInv, vars
<1>2. ClientsInv'
    BY DEF TxInv, ClientsInv, vars
<1>3. LedgerInv'
    BY DEF TxInv, LedgerInv, Ledger, EndedPast, AckedHeld, DurableHere,
           DurableTogether, DurableEnded, CommitKept, Current, vars
<1> QED
    BY <1>1, <1>2, <1>3 DEF TxInv

\* Every step keeps the invariant while no socket breaks.
LEMMA TxStep ==
    ASSUME "socket" \notin Faults
    PROVE  TypeInv /\ TypeInv' /\ RouteInv /\ TxInv /\ [Next]_vars => TxInv'
<1> SUFFICES ASSUME TypeInv, TypeInv', RouteInv, TxInv, [Next]_vars PROVE TxInv'
    OBVIOUS
<1>1. ASSUME NEW s \in Session, Receive(s) \/ TakeMessage(s) \/ FinishMessage(s)
      PROVE  TxInv'
    BY <1>1, MessageTx
<1>2. ASSUME NEW s \in Session, SetTid(s) \/ ResetTid(s) PROVE TxInv'
    BY <1>2, TidTx
<1>3. ASSUME NEW s \in Session, Begin(s) PROVE TxInv'
    BY <1>3, BeginTx
<1>4. ASSUME NEW s \in Session, EndStatement(s) PROVE TxInv'
    BY <1>4, EndStatementTx
<1>5. ASSUME NEW s \in Session, Data(s) PROVE TxInv'
    BY <1>5, DataTx
<1>6. ASSUME NEW s \in Session, LookupFails(s) \/ ConnectFails(s) PROVE TxInv'
    BY <1>6, FailsTx
<1>7. ASSUME NEW s \in Session, SetLookupReply(s) \/ AutoLookupReply(s) PROVE TxInv'
    BY <1>7, LookupTx
<1>8. ASSUME NEW s \in Session, PinLookupReply(s) PROVE TxInv'
    BY <1>8, PinLookupTx
<1>9. ASSUME NEW s \in Session, PinConnected(s) PROVE TxInv'
    BY <1>9, PinConnectedTx
<1>10. ASSUME NEW s \in Session, AutoConnected(s) PROVE TxInv'
    BY <1>10, AutoConnectedTx
<1>11. ASSUME NEW c \in Client, Serve(c) \/ BackendLost(c) PROVE TxInv'
    BY <1>11, ServeTx, BackendLostTx
<1>12. ASSUME NEW s \in Session PROVE ~SocketError(s) /\ ~SocketClose(s)
    BY DEF SocketError, SocketClose
<1>13. ASSUME UNCHANGED vars PROVE TxInv'
    BY <1>13, StutterTx
<1> QED
    BY <1>1, <1>2, <1>3, <1>4, <1>5, <1>6, <1>7, <1>8, <1>9, <1>10, <1>11, <1>12,
       <1>13 DEF Next, Step

\* The invariant holds while no socket breaks.
LEMMA TxInvHolds ==
    ASSUME "socket" \notin Faults
    PROVE  Spec => []TxInv
<1>1. Init => TypeInv
    BY TypeInit
<1>2. TypeInv /\ Init => TxInv
    BY TxInit
<1>3. Init => RouteInv
    BY RouteInit
<1>4. TypeInv /\ RouteInv /\ [Next]_vars => RouteInv'
    BY RouteStep
<1>5. TypeInv /\ TypeInv' /\ RouteInv /\ TxInv /\ [Next]_vars => TxInv'
    BY TxStep
<1> QED
    BY <1>1, <1>2, <1>3, <1>4, <1>5, TypeInvHolds, PTL DEF Spec

\* Rows of a client's open transaction are of the session that holds it.
LEMMA WorkOf ==
    ASSUME TypeInv, TxInv, NEW c \in Client, NEW r \in conn[c].work
    PROVE  /\ r.s \in Session /\ conn[c].holder = r.s /\ sess[r.s].txClient = c
           /\ OwnRow(r, r.s, hist[r.s]) /\ Current(r, r.s)
<1>1. conn[c].holder # Null
    BY DEF TxInv, ClientsInv, Pooled
<1>2. PICK s \in Session : conn[c].holder = s
    BY <1>1, ClientType
<1>3. sess[s].txClient = c
    BY <1>2, HolderOf DEF TxInv, AutoHeld
<1>4. TxHeld(conn[c], s, pump[s], hist[s]) /\ c # Null
    BY <1>3, HolderOf, ClientType DEF TxInv
<1>5. OwnRow(r, s, hist[s])
    BY <1>4 DEF TxHeld
<1>6. up /\ hist[s].open
    BY <1>3, <1>4, FieldTypes DEF TxInv, UnitInv, Unit
<1> QED
    BY <1>2, <1>3, <1>5, <1>6 DEF OwnRow, Current

\* Rows of one transaction are on one shard, in each of the places where they can be.
LEMMA OneShard == TypeInv /\ TxInv => TxOnOneShard
<1> SUFFICES ASSUME TypeInv, TxInv, NEW h \in Shard, NEW g \in Shard,
                    NEW r \in RowsAt(h), NEW q \in RowsAt(g), SameTx(r, q)
             PROVE  h = g
    BY DEF TxOnOneShard
<1>1. ASSUME NEW i \in Shard, NEW x \in RowsAt(i)
      PROVE  x \in durable[i] \/ \E c \in Client : HostOf[c] = i /\ x \in conn[c].work
    BY <1>1 DEF RowsAt
<1>2. ASSUME NEW i \in Shard, NEW x \in durable[i] PROVE x.s \in Session
    BY <1>2 DEF TypeInv, TypeOK, Row
<1>3. ASSUME NEW i \in Shard, NEW x \in durable[i], NEW y, NEW c \in Client,
             y \in conn[c].work, SameTx(x, y)
      PROVE  HostOf[c] = i
    <2>1. /\ y.s \in Session /\ sess[y.s].txClient = c
          /\ OwnRow(y, y.s, hist[y.s]) /\ Current(y, y.s)
        BY <1>3, WorkOf
    <2>2. x.s = y.s /\ x.tx /\ x.unit = y.unit
        BY <1>3 DEF SameTx
    <2>3. DurableHere(y.s) /\ Current(x, y.s)
        BY <2>1, <2>2 DEF TxInv, LedgerInv, Ledger, Current
    <2> QED
        BY <1>3, <2>1, <2>2, <2>3 DEF DurableHere
<1>4. CASE r \in durable[h] /\ q \in durable[g]
    <2>1. DurableTogether(r.s)
        BY <1>2, <1>4 DEF TxInv, LedgerInv, Ledger
    <2> QED
        BY <1>4, <2>1 DEF DurableTogether
<1>5. CASE r \in durable[h] /\ \E c \in Client : HostOf[c] = g /\ q \in conn[c].work
    BY <1>3, <1>5
<1>6. CASE q \in durable[g] /\ \E c \in Client : HostOf[c] = h /\ r \in conn[c].work
    <2>1. SameTx(q, r)
        BY DEF SameTx
    <2> QED
        BY <1>3, <1>6, <2>1
<1>7. CASE /\ \E c \in Client : HostOf[c] = h /\ r \in conn[c].work
           /\ \E c \in Client : HostOf[c] = g /\ q \in conn[c].work
    <2>1. PICK c \in Client : HostOf[c] = h /\ r \in conn[c].work
        BY <1>7
    <2>2. PICK d \in Client : HostOf[d] = g /\ q \in conn[d].work
        BY <1>7
    <2>3. sess[r.s].txClient = c /\ sess[q.s].txClient = d
        BY <2>1, <2>2, WorkOf
    <2> QED
        BY <2>1, <2>2, <2>3 DEF SameTx
<1> QED
    BY <1>1, <1>4, <1>5, <1>6, <1>7

\* The rows of one transaction are all on one shard (ensurePinned of session.ts).
THEOREM OneShardPerTransaction ==
    ASSUME "socket" \notin Faults
    PROVE  Spec => []TxOnOneShard
<1>1. TypeInv /\ TxInv => TxOnOneShard
    BY OneShard
<1> QED
    BY <1>1, TypeInvHolds, TxInvHolds, PTL

\* A client's open transaction is of the session that has it as its txClient.
THEOREM OwnTransactions ==
    ASSUME "socket" \notin Faults
    PROVE  Spec => []TxOwnsClient
<1>1. TypeInv /\ TxInv => TxOwnsClient
    <2> SUFFICES ASSUME TypeInv, TxInv, NEW c \in Client,
                        NEW r \in conn[c].work, NEW q \in conn[c].work
                 PROVE  SameTx(r, q) /\ conn[c].holder = r.s /\ sess[r.s].txClient = c
        BY DEF TxOwnsClient
    <2>1. /\ conn[c].holder = r.s /\ sess[r.s].txClient = c /\ OwnRow(r, r.s, hist[r.s])
        BY WorkOf
    <2>2. /\ conn[c].holder = q.s /\ OwnRow(q, q.s, hist[q.s])
        BY WorkOf
    <2> QED
        BY <2>1, <2>2 DEF OwnRow, SameTx
<1> QED
    BY <1>1, TypeInvHolds, TxInvHolds, PTL

\* A client in its pool has no transaction and nothing queued (handleEnd, pools.query).
THEOREM PoolsAreClean ==
    ASSUME "socket" \notin Faults
    PROVE  Spec => []ReturnedClean
<1>1. TxInv => ReturnedClean
    BY DEF TxInv, ClientsInv, Pooled, ReturnedClean
<1> QED
    BY <1>1, TxInvHolds, PTL

\* A checked-out client is the txClient of its session, or runs a statement for it.
THEOREM NoClientIsLost ==
    ASSUME "socket" \notin Faults
    PROVE  Spec => []NoOrphanClient
<1>1. TypeInv /\ TxInv => NoOrphanClient
    <2> SUFFICES ASSUME TypeInv, TxInv, NEW c \in Client, NEW s \in Session,
                        conn[c].holder = s, sess[s].txClient # c
                 PROVE  pump[s].pc = "autoQuery" /\ conn[c].queue # << >>
        BY DEF NoOrphanClient
    <2>1. AutoHeld(conn[c], s, pump[s])
        BY HolderOf DEF TxInv
    <2> QED
        BY <2>1 DEF AutoHeld, Only
<1> QED
    BY <1>1, TypeInvHolds, TxInvHolds, PTL

\* No row of a transaction is durable before the COMMIT of its unit was answered.  A
\* COMMIT that fails leaves the proxy's transaction open on an idle backend, which
\* then commits each statement by itself.
THEOREM NothingCommittedEarly ==
    ASSUME "socket" \notin Faults, "commit" \notin Faults
    PROVE  Spec => []CommittedOnly
<1>1. TypeInv /\ TxInv => CommittedOnly
    <2> SUFFICES ASSUME TypeInv, TxInv, NEW h \in Shard, NEW r \in durable[h], r.tx
                 PROVE  \E e \in ended : e.s = r.s /\ e.unit = r.unit
        BY DEF CommittedOnly
    <2>1. r.s \in Session
        BY DEF TypeInv, TypeOK, Row
    <2>2. DurableEnded(r.s)
        BY <2>1 DEF TxInv, LedgerInv, Ledger
    <2> QED
        BY <2>2 DEF DurableEnded
<1> QED
    BY <1>1, TypeInvHolds, TxInvHolds, PTL

---------------------------------------------------------------------------
(***************************************************************************)
(* What a step may never do with a tid and with a pin.                     *)
(***************************************************************************)
AutoClient == {"autoConnect", "autoQuery"}

\* While an autocommit statement waits for its client, no tid is pending.
Spent(ss, p) == p.pc \in AutoClient => ss.pendingTid = Null

TidInv == \A s \in Session : Spent(sess[s], pump[s])

\* A step of session s spends the tid of what it has placed or ended, and keeps the
\* tid of what was not placed.
Spends(s) ==
    /\ OnlySession(s)
    /\ pump'[s].pc \in AutoClient \/ pump[s].pc \in AutoClient
         => sess'[s].pendingTid = Null
    /\ pump[s].pc = "autoLookup" /\ pump'[s].pc \notin {"autoLookup", "autoConnect"}
         => sess'[s].pendingTid = sess[s].pendingTid
    /\ hist[s].open /\ ~hist'[s].open => sess'[s].pendingTid = Null

\* A step of session s that leaves its transaction open keeps its pin.
KeepsPin(s) ==
    sess[s].pinnedIndex # Null /\ hist[s].open /\ hist'[s].open
      => sess'[s].pinnedIndex = sess[s].pinnedIndex

Moves(s) == Spends(s) /\ KeepsPin(s)

\* The session's object ss, after a statement that does not end its transaction.
Stays(s, ss) ==
    /\ sess[s].pinnedIndex # Null => ss.pinnedIndex = sess[s].pinnedIndex
    /\ pump[s].pc \in AutoClient => ss.pendingTid = Null
    /\ pump[s].pc = "autoLookup" => ss.pendingTid = sess[s].pendingTid

\* A statement was answered.
LEMMA DoneMoves ==
    ASSUME TypeInv, NEW s \in Session, NEW ss, NEW cn, Done(s, ss, cn),
           UNCHANGED outcome, Stays(s, ss)
    PROVE  Moves(s)
BY DoneFields, SessionOnly DEF Moves, Spends, KeepsPin, Stays, AutoClient

\* A statement threw.
LEMMA ThrowMoves ==
    ASSUME TypeInv, NEW s \in Session, NEW ss, NEW cn, Throw(s, ss, cn), Stays(s, ss)
    PROVE  Moves(s)
BY ThrowFields DEF Moves, Spends, KeepsPin, Stays, AutoClient

\* A statement awaits something.
LEMMA AwaitMoves ==
    ASSUME TypeInv, NEW s \in Session, NEW ss, NEW cn, NEW pc, NEW tid,
           Await(s, ss, cn, pc, tid), UNCHANGED outcome, Stays(s, ss),
           pc \in AutoClient => ss.pendingTid = Null
    PROVE  Moves(s)
BY AwaitFields, SessionOnly DEF Moves, Spends, KeepsPin, Stays

\* ensurePinned() has returned.
LEMMA PinnedMoves ==
    ASSUME TypeInv, NEW s \in Session, NEW ss \in SessionState, NEW cn,
           Pinned(s, ss, cn), Stays(s, ss)
    PROVE  Moves(s)
<1> DEFINE st == [ss EXCEPT !.txStatus = "T"]
<1>1. st.pinnedIndex = ss.pinnedIndex /\ st.pendingTid = ss.pendingTid
    BY DEF SessionState
<1> HIDE DEF st
<1>2. CASE Done(s, st, cn) /\ UNCHANGED outcome
    BY <1>1, <1>2, DoneMoves DEF Stays
<1>3. ASSUME NEW c2, Await(s, ss, c2, "txQuery", Null), UNCHANGED outcome
      PROVE  Moves(s)
    BY <1>3, AwaitMoves DEF AutoClient
<1>4. CASE Throw(s, ss, cn)
    BY <1>4, ThrowMoves
<1> QED
    BY <1>2, <1>3, <1>4 DEF Pinned, st

\* The transaction is over.
LEMMA EndTxMoves ==
    ASSUME TypeInv, NEW s \in Session, NEW cn, EndTx(s, cn),
           pump[s].pc \in {"run", "endQuery"}
    PROVE  Moves(s)
<1> DEFINE ss == [Unpinned(sess[s]) EXCEPT !.txClient = Null, !.txStatus = "I"]
<1>1. ss.pendingTid = Null
    BY FieldTypes DEF Unpinned, SessionState
<1>2. Done(s, ss, cn)
    BY DEF EndTx
<1> HIDE DEF ss
<1>3. /\ sess'[s] = ss
      /\ \A q \in Session \ {s} : sess'[q] = sess[q] /\ pump'[q] = pump[q]
    BY <1>2, DoneFields
<1>4. ~hist'[s].open /\ \A q \in Session \ {s} : hist'[q] = hist[q]
    BY DEF EndTx, TypeInv, TypeOK, History
<1> QED
    BY <1>1, <1>3, <1>4 DEF Moves, Spends, KeepsPin, OnlySession, AutoClient

\* BEGIN, in or out of a transaction.
LEMMA BeginMoves ==
    ASSUME TypeInv, NEW s \in Session, Begin(s)
    PROVE  Moves(s)
<1> DEFINE ss == [sess[s] EXCEPT !.inTx = TRUE]
           st == [ss EXCEPT !.txStatus = "T"]
<1>1. ss.pinnedIndex = sess[s].pinnedIndex /\ st.pinnedIndex = sess[s].pinnedIndex
    BY FieldTypes DEF SessionState
<1>2. \/ Await(s, ss, conn, "pinLookup", ss.pendingTid)
      \/ Done(s, st, conn)
    BY DEF Begin
<1>3. pump[s].pc = "run"
    BY DEF Begin, Dispatching
<1>4. hist'[s].open /\ \A q \in Session \ {s} : hist'[q] = hist[q]
    BY DEF Begin, TypeInv, TypeOK, History
<1> HIDE DEF ss, st
<1>5. /\ sess'[s].pinnedIndex = sess[s].pinnedIndex
      /\ pump'[s].pc \in {"pinLookup", "run"}
      /\ \A q \in Session \ {s} : sess'[q] = sess[q] /\ pump'[q] = pump[q]
    BY <1>1, <1>2, AwaitFields, DoneFields
<1> QED
    BY <1>3, <1>4, <1>5 DEF Moves, Spends, KeepsPin, OnlySession, AutoClient

\* The start and end of a message.
LEMMA MessageMoves ==
    ASSUME TypeInv, NEW s \in Session, TidInv,
           Receive(s) \/ TakeMessage(s) \/ FinishMessage(s)
    PROVE  Moves(s)
<1>1. Spent(sess[s], pump[s])
    BY DEF TidInv
<1>2. CASE Receive(s)
    <2>1. hist'[s].open = hist[s].open /\ \A q \in Session \ {s} : hist'[q] = hist[q]
        BY <1>2 DEF Receive, TypeInv, TypeOK, History
    <2>2. sess' = sess /\ pump' = pump
        BY <1>2 DEF Receive
    <2> QED
        BY <1>1, <2>1, <2>2 DEF Moves, Spends, KeepsPin, OnlySession, Spent, AutoClient
<1>3. CASE TakeMessage(s)
    <2>1. sess' = sess /\ hist' = hist /\ pump[s].pc = "idle" /\ pump'[s].pc = "run"
        BY <1>3 DEF TakeMessage, ghosts, TypeInv, TypeOK
    <2>2. \A q \in Session \ {s} : pump'[q] = pump[q]
        BY <1>3 DEF TakeMessage, TypeInv, TypeOK
    <2> QED
        BY <2>1, <2>2 DEF Moves, Spends, KeepsPin, OnlySession, AutoClient
<1>4. CASE FinishMessage(s)
    <2> DEFINE ss == [sess[s] EXCEPT !.txStatus = IF sess[s].inTx THEN "T" ELSE "I"]
    <2>1. ss.pinnedIndex = sess[s].pinnedIndex
        BY FieldTypes DEF SessionState
    <2>2. Answered(s, ss, conn) /\ hist' = hist /\ pump[s].pc = "run"
        BY <1>4 DEF FinishMessage, ghosts
    <2> HIDE DEF ss
    <2>3. /\ sess'[s] = ss /\ pump'[s].pc = "idle"
          /\ \A q \in Session \ {s} : sess'[q] = sess[q] /\ pump'[q] = pump[q]
        BY <2>2, AnsweredFields
    <2> QED
        BY <2>1, <2>2, <2>3 DEF Moves, Spends, KeepsPin, OnlySession, AutoClient
<1> QED
    BY <1>2, <1>3, <1>4

\* The handlers up to a statement's first await.
LEMMA DispatchMoves ==
    ASSUME TypeInv, NEW s \in Session,
           SetTid(s) \/ ResetTid(s) \/ EndStatement(s) \/ Data(s)
    PROVE  Moves(s)
<1>1. pump[s].pc = "run" /\ sess[s] \in SessionState
    BY FieldTypes DEF SetTid, ResetTid, EndStatement, Data, Dispatching
<1>2. Stays(s, sess[s])
    BY <1>1 DEF Stays, AutoClient
<1>3. ASSUME NEW tid PROVE Stays(s, [sess[s] EXCEPT !.pendingTid = tid])
    BY <1>1 DEF Stays, SessionState, AutoClient
<1>4. CASE SetTid(s) \/ ResetTid(s)
    <2>1. CASE Throw(s, sess[s], conn)
        BY <1>2, <2>1, ThrowMoves
    <2>2. ASSUME NEW tid, Await(s, sess[s], conn, "setLookup", tid), UNCHANGED outcome
          PROVE  Moves(s)
        BY <1>2, <2>2, AwaitMoves DEF AutoClient
    <2>3. ASSUME NEW tid, Done(s, [sess[s] EXCEPT !.pendingTid = tid], conn),
                 UNCHANGED outcome
          PROVE  Moves(s)
        BY <1>3, <2>3, DoneMoves
    <2> QED
        BY <1>4, <2>1, <2>2, <2>3 DEF SetTid, ResetTid
<1>5. CASE EndStatement(s)
    <2>1. ASSUME NEW cn, Await(s, sess[s], cn, "endQuery", Null), UNCHANGED outcome
          PROVE  Moves(s)
        BY <1>2, <2>1, AwaitMoves DEF AutoClient
    <2>2. CASE EndTx(s, conn)
        BY <1>1, <2>2, EndTxMoves
    <2> QED
        BY <1>5, <2>1, <2>2 DEF EndStatement
<1>6. CASE Data(s)
    <2> DEFINE pc == IF sess[s].inTx THEN "pinLookup" ELSE "autoLookup"
    <2>1. pc \notin AutoClient
        BY DEF AutoClient
    <2>2. \/ Throw(s, sess[s], conn)
          \/ Await(s, sess[s], conn, pc, sess[s].pendingTid) /\ UNCHANGED outcome
        BY <1>6 DEF Data
    <2> HIDE DEF pc
    <2> QED
        BY <1>2, <2>1, <2>2, ThrowMoves, AwaitMoves
<1> QED
    BY <1>4, <1>5, <1>6

\* The answers of the Lookup service.
LEMMA LookupMoves ==
    ASSUME TypeInv, TidInv, NEW s \in Session,
           \/ LookupFails(s) \/ ConnectFails(s)
           \/ SetLookupReply(s) \/ PinLookupReply(s) \/ AutoLookupReply(s)
    PROVE  Moves(s)
<1>1. pump[s].pc # "autoQuery" /\ sess[s] \in SessionState
    BY FieldTypes DEF LookupFails, ConnectFails, SetLookupReply, PinLookupReply,
       AutoLookupReply, Resuming, LookupAwait, ConnectAwait
<1>2. Stays(s, sess[s])
    BY DEF Stays, TidInv, Spent
<1>4. CASE LookupFails(s) \/ ConnectFails(s)
    BY <1>2, <1>4, ThrowMoves DEF LookupFails, ConnectFails
<1>5. CASE SetLookupReply(s)
    <2>1. \/ Throw(s, sess[s], conn)
          \/ /\ Done(s, [sess[s] EXCEPT !.pendingTid = pump[s].tid], conn)
             /\ UNCHANGED outcome
        BY <1>5 DEF SetLookupReply
    <2>2. pump[s].pc = "setLookup"
        BY <1>5 DEF SetLookupReply, Resuming
    <2>3. Stays(s, [sess[s] EXCEPT !.pendingTid = pump[s].tid])
        BY <1>1, <2>2 DEF Stays, SessionState, AutoClient
    <2> QED
        BY <1>2, <2>1, <2>3, ThrowMoves, DoneMoves
<1>6. CASE PinLookupReply(s)
    <2> DEFINE ss == [sess[s] EXCEPT !.pinnedIndex = ShardOf[pump[s].tid]]
    <2>1. \/ Throw(s, sess[s], conn)
          \/ Pinned(s, sess[s], conn)
          \/ /\ sess[s].pinnedIndex = Null
             /\ Await(s, ss, conn, "pinConnect", pump[s].tid) /\ UNCHANGED outcome
        BY <1>6 DEF PinLookupReply
    <2>2. sess[s].pinnedIndex = Null => Stays(s, ss)
        BY <1>1, <1>6 DEF Stays, SessionState, AutoClient, PinLookupReply, Resuming
    <2> HIDE DEF ss
    <2> QED
        BY <1>1, <1>2, <2>1, <2>2, ThrowMoves, PinnedMoves, AwaitMoves DEF AutoClient
<1>7. CASE AutoLookupReply(s)
    <2> DEFINE ss == [sess[s] EXCEPT !.pendingTid = Null]
    <2>1. ss.pendingTid = Null /\ ss.pinnedIndex = sess[s].pinnedIndex
        BY <1>1 DEF SessionState
    <2>2. Await(s, ss, conn, "autoConnect", pump[s].tid) /\ UNCHANGED outcome
        BY <1>7 DEF AutoLookupReply
    <2> HIDE DEF ss
    <2> QED
        BY <2>1, <2>2, AwaitFields, SessionOnly DEF Moves, Spends, KeepsPin
<1> QED
    BY <1>4, <1>5, <1>6, <1>7

\* The pools.
LEMMA ConnectMoves ==
    ASSUME TypeInv, TidInv, NEW s \in Session, PinConnected(s) \/ AutoConnected(s)
    PROVE  Moves(s)
<1>1. CASE PinConnected(s)
    <2>1. pump[s].pc = "pinConnect" /\ sess[s] \in SessionState
        BY <1>1, FieldTypes DEF PinConnected, Resuming
    <2>2. PICK c \in Client : \E cn :
            LET ss == [sess[s] EXCEPT !.txClient = c]
            IN \/ /\ Await(s, ss, Enqueue(cn, c, "pump", s, "BEGIN", Null), "pinBegin",
                           pump[s].tid)
                  /\ UNCHANGED outcome
               \/ Pinned(s, ss, cn)
        BY <1>1 DEF PinConnected
    <2>3. PICK cn :
            LET ss == [sess[s] EXCEPT !.txClient = c]
            IN \/ /\ Await(s, ss, Enqueue(cn, c, "pump", s, "BEGIN", Null), "pinBegin",
                           pump[s].tid)
                  /\ UNCHANGED outcome
               \/ Pinned(s, ss, cn)
        BY <2>2
    <2> DEFINE ss == [sess[s] EXCEPT !.txClient = c]
               bn == Enqueue(cn, c, "pump", s, "BEGIN", Null)
    <2>4. ss \in SessionState /\ Stays(s, ss)
        BY <2>1 DEF Stays, SessionState, AutoClient
    <2>5. \/ Await(s, ss, bn, "pinBegin", pump[s].tid) /\ UNCHANGED outcome
          \/ Pinned(s, ss, cn)
        BY <2>3
    <2> HIDE DEF ss, bn
    <2> QED
        BY <2>4, <2>5, AwaitMoves, PinnedMoves DEF AutoClient
<1>2. CASE AutoConnected(s)
    <2>1. pump[s].pc = "autoConnect"
        BY <1>2 DEF AutoConnected, Resuming
    <2>2. sess[s].pendingTid = Null
        BY <2>1 DEF TidInv, Spent, AutoClient
    <2>3. \E cn : Await(s, sess[s], cn, "autoQuery", Null) /\ UNCHANGED outcome
        BY <1>2 DEF AutoConnected
    <2> QED
        BY <2>2, <2>3, AwaitMoves DEF Stays
<1> QED
    BY <1>1, <1>2

\* An answer resumes the pump.
LEMMA ResumePumpMoves ==
    ASSUME TypeInv, TidInv, NEW s \in Session, NEW c, NEW r, NEW ok, NEW cn,
           ResumePump(s, c, r, ok, cn)
    PROVE  Moves(s)
<1> DEFINE ss == [sess[s] EXCEPT !.backendInTx = TRUE]
           free == Release(cn, c)
           given == GiveBack(s, cn)
<1>1. sess[s] \in SessionState
    BY FieldTypes
<1>2. Stays(s, sess[s])
    BY DEF Stays, TidInv, Spent, AutoClient
<1>3. ss \in SessionState /\ Stays(s, ss)
    BY <1>1, <1>2 DEF Stays, SessionState
<1>4. \/ Pinned(s, ss, cn)
      \/ Done(s, sess[s], cn) /\ UNCHANGED outcome
      \/ Done(s, sess[s], free) /\ UNCHANGED outcome
      \/ Throw(s, sess[s], free)
      \/ EndTx(s, given) /\ pump[s].pc = "endQuery"
      \/ Throw(s, sess[s], cn)
    BY DEF ResumePump
<1> HIDE DEF ss, free, given
<1> QED
    BY <1>2, <1>3, <1>4, PinnedMoves, DoneMoves, ThrowMoves, EndTxMoves

\* A session object that cleanup(), or the end of the process, leaves behind.
LEMMA FreshSpends ==
    ASSUME NEW ss \in SessionState
    PROVE  /\ Unpinned(ss).pendingTid = Null
           /\ [Unpinned(ss) EXCEPT !.txClient = Null].pendingTid = Null
           /\ NewSession.pendingTid = Null
BY DEF Unpinned, SessionState, NewSession

\* cleanup() of session s runs, or resumes.
CleanupActs(s) ==
    \/ ~Connected(s)'
    \/ /\ socket' = socket
       /\ \E c \in Client : /\ conn[c].queue # << >>
                            /\ Head(conn[c].queue).by = "cleanup"
                            /\ Head(conn[c].queue).s = s

\* cleanup() of session s takes the tid with the pin.
LEMMA CleanupSpends ==
    ASSUME TypeInv, TidInv, NEW s \in Session,
           hist' = hist, pump' = pump,
           \/ sess' = sess
           \/ sess' = [sess EXCEPT ![s] = Unpinned(@)]
           \/ sess' = [sess EXCEPT ![s] = [Unpinned(@) EXCEPT !.txClient = Null]]
    PROVE  Spends(s)
<1>1. sess[s] \in SessionState /\ Spent(sess[s], pump[s])
    BY FieldTypes DEF TidInv
<1>2. sess'[s] = sess[s] \/ sess'[s].pendingTid = Null
    BY <1>1, FreshSpends DEF TypeInv, TypeOK
<1>3. \A q \in Session \ {s} : sess'[q] = sess[q]
    BY DEF TypeInv, TypeOK
<1> QED
    BY <1>1, <1>2, <1>3 DEF Spends, OnlySession, Spent, AutoClient

\* A backend's answer moves the session that awaits it.
LEMMA ServeMoves ==
    ASSUME TypeInv, TidInv, NEW c \in Client, Serve(c)
    PROVE  \/ \E s \in Session : Moves(s) \/ (Spends(s) /\ CleanupActs(s))
           \/ Crash /\ UNCHANGED hist
<1> DEFINE k == conn[c]
           r == Head(k.queue)
           cn(ok) == [conn EXCEPT ![c] = [holder |-> k.holder,
                                          queue |-> Tail(k.queue),
                                          tx |-> TxAfter(k, r, ok),
                                          work |-> WorkAfter(k, r, ok)]]
<1>1. conn[c].queue # << >>
    BY DEF Serve
<1>2. PICK ok \in BOOLEAN :
        \/ ResumePump(r.s, c, r, ok, cn(ok))
        \/ r.by = "cleanup" /\ ResumeCleanup(r.s, cn(ok))
    BY DEF Serve
<1>3. r \in Request
    BY <1>1, ServedType DEF TypeInv
<1>4. r.by = "cleanup" /\ socket' = socket => CleanupActs(r.s)
    BY <1>1 DEF CleanupActs
<1> HIDE DEF r, cn
<1>5. r.s \in Session
    BY <1>3 DEF Request
<1>6. CASE ResumePump(r.s, c, r, ok, cn(ok))
    <2> DEFINE s == r.s
               x == cn(ok)
    <2>1. s \in Session /\ ResumePump(s, c, r, ok, x)
        BY <1>5, <1>6
    <2> HIDE DEF s, x
    <2>2. Moves(s)
        BY <2>1, ResumePumpMoves
    <2> QED
        BY <2>1, <2>2
<1>7. CASE r.by = "cleanup" /\ ResumeCleanup(r.s, cn(ok))
    <2>1. CASE Crash
        BY <1>7, <2>1 DEF ResumeCleanup
    <2>2. CASE ~Crash
        <3>1. /\ sess' = [sess EXCEPT ![r.s] = [Unpinned(@) EXCEPT !.txClient = Null]]
              /\ hist' = hist /\ pump' = pump /\ socket' = socket
            BY <1>7, <2>2 DEF ResumeCleanup
        <3>2. Spends(r.s)
            BY <1>5, <3>1, CleanupSpends
        <3> QED
            BY <1>4, <1>5, <1>7, <3>1, <3>2
    <2> QED
        BY <2>1, <2>2
<1> QED
    BY <1>2, <1>6, <1>7

\* A lost backend is an error of one session's statement, or the end of the process.
LEMMA BackendLostMoves ==
    ASSUME TypeInv, TidInv, NEW c \in Client, BackendLost(c)
    PROVE  (\E s \in Session : Moves(s)) \/ (Crash /\ UNCHANGED hist)
<1> DEFINE r == Head(conn[c].queue)
<1>1. CASE /\ Autocommits(c) /\ Len(conn[c].queue) = 1
           /\ Throw(r.s, sess[r.s], [conn EXCEPT ![c] = IdleConn])
    <2>1. conn[c].queue \in Seq(Request) /\ conn[c].queue # << >>
        BY <1>1, ClientType, EmptySeq
    <2>2. r \in Request /\ r = conn[c].queue[1]
        BY <2>1, HeadTailProperties
    <2>3. pump[r.s].pc = "autoQuery" /\ r.s \in Session
        BY <1>1, <2>1, <2>2 DEF Autocommits, Request
    <2> HIDE DEF r
    <2>4. Stays(r.s, sess[r.s])
        BY <2>3 DEF Stays, TidInv, Spent, AutoClient
    <2> DEFINE s == r.s
               ss == sess[s]
               cn == [conn EXCEPT ![c] = IdleConn]
    <2>5. s \in Session /\ Stays(s, ss) /\ Throw(s, ss, cn)
        BY <1>1, <2>3, <2>4
    <2> HIDE DEF s, ss, cn
    <2>6. Moves(s)
        BY <2>5, ThrowMoves
    <2> QED
        BY <2>5, <2>6
<1>2. CASE Crash /\ UNCHANGED hist
    BY <1>2
<1> QED
    BY <1>1, <1>2 DEF BackendLost

\* Every step moves one session, or is one of cleanup(), or is the end of the process.
LEMMA StepMoves ==
    ASSUME TypeInv, TidInv, Next
    PROVE  \/ \E s \in Session : Moves(s) \/ (Spends(s) /\ CleanupActs(s))
           \/ Crash /\ UNCHANGED hist
<1>1. ASSUME NEW s \in Session,
             Receive(s) \/ Step(s) \/ ConnectFails(s)
      PROVE  Moves(s)
    BY <1>1, MessageMoves, DispatchMoves, BeginMoves, LookupMoves, ConnectMoves
       DEF Step
<1>2. ASSUME NEW s \in Session, SocketError(s) \/ SocketClose(s)
      PROVE  Spends(s) /\ CleanupActs(s)
    <2>1. Cleanup(s) /\ CleanupActs(s)
        BY <1>2 DEF SocketError, SocketClose, CleanupActs, Connected, TypeInv, TypeOK
    <2>2. /\ hist' = hist /\ pump' = pump
          /\ sess' = sess \/ sess' = [sess EXCEPT ![s] = Unpinned(@)]
        BY <2>1 DEF Cleanup, ghosts
    <2> QED
        BY <2>1, <2>2, CleanupSpends
<1>3. ASSUME NEW c \in Client, Serve(c) \/ BackendLost(c)
      PROVE  \/ \E s \in Session : Moves(s) \/ (Spends(s) /\ CleanupActs(s))
             \/ Crash /\ UNCHANGED hist
    <2>1. CASE Serve(c)
        BY <2>1, ServeMoves
    <2>2. CASE BackendLost(c)
        BY <2>2, BackendLostMoves
    <2> QED
        BY <1>3, <2>1, <2>2
<1> QED
    BY <1>1, <1>2, <1>3 DEF Next

\* What the invariant about the tids needs of a step.
LEMMA TidStep == TypeInv /\ TidInv /\ [Next]_vars => TidInv'
<1> SUFFICES ASSUME TypeInv, TidInv, [Next]_vars PROVE TidInv'
    OBVIOUS
<1>1. ASSUME NEW s \in Session, Spends(s) PROVE TidInv'
    BY <1>1 DEF Spends, OnlySession, TidInv, Spent
<1>2. CASE Crash
    BY <1>2 DEF Crash, TidInv, Spent, NewSession
<1>3. CASE UNCHANGED vars
    BY <1>3 DEF TidInv, vars
<1> QED
    BY <1>1, <1>2, <1>3, StepMoves DEF Moves

\* While an autocommit statement waits for its client, its tid is spent.
LEMMA TidInvHolds == Spec => []TidInv
<1>1. Init => TidInv
    BY DEF Init, TidInv, Spent, NewSession, IdlePump, AutoClient
<1> QED
    BY <1>1, TidStep, TypeInvHolds, PTL DEF Spec

\* What TidSpent says of a step.
SpendsAll ==
    \A s \in Session :
         /\ \/ pump[s].pc \in {"autoConnect", "autoQuery"} /\ pump'[s].pc # pump[s].pc
            \/ hist[s].open /\ ~hist'[s].open
            => sess'[s].pendingTid = Null
         /\ up' /\ pump[s].pc = "autoLookup" /\ pump'[s].pc # "autoLookup"
            => sess'[s].pendingTid = IF pump'[s].pc = "autoConnect" THEN Null
                                     ELSE sess[s].pendingTid

\* A statement that was placed, and the end of a transaction, leave no tid behind for a
\* later statement, also when the pool, the backend or the connection fails; a statement
\* whose Lookup failed leaves exactly the tid it had, and nothing else ever does.
THEOREM TidsAreSpent == Spec => TidSpent
<1>1. TypeInv /\ TidInv /\ Next => SpendsAll
    <2> SUFFICES ASSUME TypeInv, TidInv, Next PROVE SpendsAll
        OBVIOUS
    <2>1. ASSUME NEW s \in Session, Spends(s) PROVE SpendsAll
        BY <2>1 DEF Spends, OnlySession, SpendsAll, AutoClient
    <2>2. CASE Crash
        BY <2>2 DEF Crash, SpendsAll, NewSession
    <2> QED
        BY <2>1, <2>2, StepMoves DEF Moves
<1>2. TypeInv /\ TidInv /\ [Next]_vars => [SpendsAll]_vars
    BY <1>1
<1>3. [][SpendsAll]_vars => TidSpent
    BY PTL DEF TidSpent, SpendsAll
<1> QED
    BY <1>2, <1>3, TypeInvHolds, TidInvHolds, PTL DEF Spec

---------------------------------------------------------------------------
(***************************************************************************)
(* ProxySession implements RoutedTransactions, in every instance in which  *)
(* sockets do not break and no COMMIT fails: the sessions, pools and       *)
(* clients of the proxy are worth one set of open rows per session.        *)
(* Backends may be lost, and the process with them.                        *)
(***************************************************************************)
Promise == INSTANCE RoutedTransactions WITH open <- [s \in Session |-> OpenRows(s)]

\* The clients dn are in the transactions that the clients cn are in.
KeepsWork(cn, dn) == \A d \in Client : dn[d].work = cn[d].work

\* The rows of session q in the transactions of clients cn.
RowsOf(cn, q) == UNION {{r \in cn[c].work : r.s = q} : c \in Client}

\* The promise's state is a function of the transactions of the clients.
LEMMA OpenIs ==
    /\ \A q \in Session : OpenRows(q) = RowsOf(conn, q)
    /\ \A q \in Session : OpenRows(q)' = RowsOf(conn', q)
BY DEF OpenRows, RowsOf

\* What RowsOf consists of.
LEMMA RowsIn ==
    ASSUME NEW cn, NEW q, NEW x
    PROVE  x \in RowsOf(cn, q) <=> \E c \in Client : x \in cn[c].work /\ x.s = q
BY DEF RowsOf

\* The clients' transactions and the shards stay: the promise stutters.
LEMMA Stutters ==
    ASSUME KeepsWork(conn, conn'), durable' = durable
    PROVE  UNCHANGED Promise!vars
<1>1. ASSUME NEW q \in Session PROVE OpenRows(q)' = OpenRows(q)
    <2>1. \A x : x \in RowsOf(conn', q) <=> x \in RowsOf(conn, q)
        BY RowsIn DEF KeepsWork
    <2>2. RowsOf(conn', q) = RowsOf(conn, q)
        BY <2>1
    <2> QED
        BY <2>2, OpenIs
<1> QED
    BY <1>1 DEF Promise!vars

\* The transactions stay, and one shard has one more row.
LEMMA OneMoreRow ==
    ASSUME KeepsWork(conn, conn'), NEW r \in Row, ~r.tx,
           durable' = [durable EXCEPT ![ShardOf[r.tid]] = @ \cup {r}]
    PROVE  Promise!Next
<1>1. ASSUME NEW q \in Session PROVE OpenRows(q)' = OpenRows(q)
    <2>1. \A x : x \in RowsOf(conn', q) <=> x \in RowsOf(conn, q)
        BY RowsIn DEF KeepsWork
    <2>2. RowsOf(conn', q) = RowsOf(conn, q)
        BY <2>1
    <2> QED
        BY <2>2, OpenIs
<1>2. Promise!Autocommit(r)
    BY <1>1 DEF Promise!Autocommit
<1> QED
    BY <1>2 DEF Promise!Next

\* What the promise sees of a step of session s on its txClient c.
LEMMA OpenFrame ==
    ASSUME TypeInv, TxInv, NEW s \in Session, NEW c \in Client,
           sess[s].txClient = c,
           \A d \in Client \ {c} : conn'[d].work = conn[d].work,
           \A r \in conn'[c].work : r.s = s
    PROVE  /\ OpenRows(s) = conn[c].work
           /\ [q \in Session |-> OpenRows(q)']
                = [[q \in Session |-> OpenRows(q)] EXCEPT ![s] = conn'[c].work]
<1>1. c # Null /\ conn[c].holder = s
    BY ClientType, HolderOf DEF TxInv
<1>2. ASSUME NEW d \in Client, NEW x \in conn[d].work PROVE x.s = s <=> d = c
    BY <1>1, WorkOf
<1>3. OpenRows(s) = conn[c].work
    <2>1. \A x : x \in RowsOf(conn, s) <=> x \in conn[c].work
        BY <1>2, RowsIn
    <2> QED
        BY <2>1, OpenIs
<1>4. OpenRows(s)' = conn'[c].work
    <2>1. \A x : x \in RowsOf(conn', s) <=> x \in conn'[c].work
        BY <1>2, RowsIn
    <2> QED
        BY <2>1, OpenIs
<1>5. ASSUME NEW q \in Session \ {s} PROVE OpenRows(q)' = OpenRows(q)
    <2>1. \A x : x \in RowsOf(conn', q) <=> x \in RowsOf(conn, q)
        BY <1>2, RowsIn
    <2>2. RowsOf(conn', q) = RowsOf(conn, q)
        BY <2>1
    <2> QED
        BY <2>2, OpenIs
<1> QED
    BY <1>3, <1>4, <1>5

---------------------------------------------------------------------------
(***************************************************************************)
(* The steps that no backend executes.                                     *)
(***************************************************************************)
\* Queueing, checking out and giving back touch no transaction.
LEMMA ClientWork ==
    ASSUME NEW cn \in Conns, NEW c \in Client, NEW by, NEW s, NEW op, NEW row
    PROVE  /\ KeepsWork(cn, Enqueue(cn, c, by, s, op, row))
           /\ KeepsWork(cn, Release(cn, c))
           /\ KeepsWork(cn, [cn EXCEPT ![c].holder = s])
           /\ KeepsWork(cn, cn)
BY DEF KeepsWork, Enqueue, Release, Conns, Connection

\* What follows ensurePinned() queues a statement at most.
LEMMA PinnedWork ==
    ASSUME NEW s \in Session, NEW ss \in SessionState, NEW cn \in Conns,
           Pinned(s, ss, cn)
    PROVE  KeepsWork(cn, conn')
<1>1. KeepsWork(cn, cn)
    BY DEF KeepsWork
<1>2. CASE conn' = cn
    BY <1>1, <1>2
<1>3. CASE /\ ss.txClient # Null
           /\ conn' = Enqueue(cn, ss.txClient, "pump", s, "DATA", RowOf(s, pump[s].tid))
    <2> DEFINE c == ss.txClient
               row == RowOf(s, pump[s].tid)
    <2>1. c \in Client
        BY <1>3 DEF SessionState
    <2>2. conn' = Enqueue(cn, c, "pump", s, "DATA", row)
        BY <1>3
    <2> HIDE DEF c, row
    <2>3. KeepsWork(cn, Enqueue(cn, c, "pump", s, "DATA", row))
        BY <2>1, ClientWork
    <2> QED
        BY <2>2, <2>3
<1> QED
    BY <1>2, <1>3 DEF Pinned, Done, Await, Throw, Answered

\* The handlers of a session, up to the requests they queue.
LEMMA SessionWork ==
    ASSUME TypeInv, NEW s \in Session,
           Receive(s) \/ Step(s) \/ ConnectFails(s)
    PROVE  KeepsWork(conn, conn') /\ durable' = durable
<1>1. conn \in Conns /\ sess[s] \in SessionState /\ KeepsWork(conn, conn)
    BY FieldTypes DEF KeepsWork
<1>2. durable' = durable
    BY DEF Receive, Step, ConnectFails, TakeMessage, FinishMessage, SetTid, ResetTid,
       Begin, EndStatement, Data, LookupFails, SetLookupReply, PinLookupReply,
       AutoLookupReply, PinConnected, AutoConnected, Dispatching, Resuming, ghosts
<1>3. CASE \/ Receive(s) \/ TakeMessage(s) \/ FinishMessage(s)
           \/ SetTid(s) \/ ResetTid(s) \/ Begin(s) \/ Data(s)
           \/ LookupFails(s) \/ ConnectFails(s) \/ SetLookupReply(s)
           \/ AutoLookupReply(s)
    <2>1. conn' = conn
        BY <1>3 DEF Receive, TakeMessage, FinishMessage, SetTid, ResetTid, Begin, Data,
           LookupFails, ConnectFails, SetLookupReply, AutoLookupReply, Done, Await,
           Throw, Answered
    <2> QED
        BY <1>1, <1>2, <2>1
<1>4. CASE EndStatement(s)
    <2>1. CASE conn' = conn
        BY <1>1, <1>2, <2>1
    <2>2. CASE /\ sess[s].txClient # Null
               /\ conn' = Enqueue(conn, sess[s].txClient, "pump", s, EndTag(s), Null)
        <3> DEFINE c == sess[s].txClient
                   op == EndTag(s)
        <3>1. c \in Client
            BY <1>1, <2>2 DEF SessionState
        <3>2. conn' = Enqueue(conn, c, "pump", s, op, Null)
            BY <2>2
        <3> HIDE DEF c, op
        <3>3. KeepsWork(conn, Enqueue(conn, c, "pump", s, op, Null))
            BY <1>1, <3>1, ClientWork
        <3> QED
            BY <1>2, <3>2, <3>3
    <2> QED
        BY <1>4, <2>1, <2>2 DEF EndStatement, EndTx, Done, Await
<1>5. CASE PinLookupReply(s)
    <2>1. \/ conn' = conn
          \/ Pinned(s, sess[s], conn)
        BY <1>5 DEF PinLookupReply, Throw, Answered, Await
    <2> QED
        BY <1>1, <1>2, <2>1, PinnedWork
<1>6. CASE PinConnected(s)
    <2>1. PICK c \in Client :
            LET ss == [sess[s] EXCEPT !.txClient = c]
                cn == [conn EXCEPT ![c].holder = s]
            IN \/ conn' = Enqueue(cn, c, "pump", s, "BEGIN", Null)
               \/ Pinned(s, ss, cn)
        BY <1>6 DEF PinConnected, Await
    <2> DEFINE ss == [sess[s] EXCEPT !.txClient = c]
               cn == [conn EXCEPT ![c].holder = s]
    <2>2. cn \in Conns /\ ss \in SessionState
        <3>1. ss \in SessionState
            BY <1>1 DEF SessionState
        <3>2. conn[c] \in Connection
            BY <1>1 DEF Conns
        <3>3. [conn[c] EXCEPT !.holder = s] \in Connection
            BY <3>2 DEF Connection
        <3>4. cn \in Conns
            BY <1>1, <3>3 DEF Conns
        <3> QED
            BY <3>1, <3>4
    <2>3. KeepsWork(conn, cn)
        BY <1>1, ClientWork
    <2>4. \/ conn' = Enqueue(cn, c, "pump", s, "BEGIN", Null)
          \/ Pinned(s, ss, cn)
        BY <2>1
    <2> HIDE DEF ss, cn
    <2>5. KeepsWork(cn, Enqueue(cn, c, "pump", s, "BEGIN", Null))
        BY <2>2, ClientWork
    <2>6. Pinned(s, ss, cn) => KeepsWork(cn, conn')
        BY <2>2, PinnedWork
    <2>7. KeepsWork(cn, conn')
        BY <2>4, <2>5, <2>6
    <2> QED
        BY <1>2, <2>3, <2>7 DEF KeepsWork
<1>7. CASE AutoConnected(s)
    <2> DEFINE row == RowOf(s, pump[s].tid)
    <2>1. PICK c \in Client :
            conn' = Enqueue([conn EXCEPT ![c].holder = s], c, "pump", s, "DATA", row)
        BY <1>7 DEF AutoConnected, Await
    <2> DEFINE cn == [conn EXCEPT ![c].holder = s]
    <2>2. cn \in Conns
        BY <1>1 DEF Conns, Connection
    <2>3. KeepsWork(conn, cn)
        BY <1>1, ClientWork
    <2>4. conn' = Enqueue(cn, c, "pump", s, "DATA", row)
        BY <2>1
    <2> HIDE DEF cn, row
    <2>5. KeepsWork(cn, conn')
        BY <2>2, <2>4, ClientWork
    <2> QED
        BY <1>2, <2>3, <2>5 DEF KeepsWork
<1> QED
    BY <1>3, <1>4, <1>5, <1>6, <1>7 DEF Step

---------------------------------------------------------------------------
(***************************************************************************)
(* What a backend executes.                                                *)
(***************************************************************************)
\* What the pump does after an answer touches no transaction.
LEMMA ServedWork ==
    ASSUME TypeInv, TxInv, NEW s \in Session, NEW c \in Client, NEW ok \in BOOLEAN,
           NEW r, NEW cn, Serves(s, c, r, ok, cn)
    PROVE  KeepsWork(cn, conn')
<1>1. cn \in Conns
    BY ServesFacts DEF ServedState
<1>2. sess[s] \in SessionState
    BY FieldTypes
<1> DEFINE ss == [sess[s] EXCEPT !.backendInTx = TRUE]
           b == sess[s].txClient
<1>3. \/ Pinned(s, ss, cn)
      \/ conn' = cn
      \/ conn' = Release(cn, c)
      \/ b # Null /\ conn' = Release(cn, b)
    BY DEF Serves, ResumePump, Done, Throw, Answered, EndTx, GiveBack
<1>4. ss \in SessionState /\ (b # Null => b \in Client)
    BY <1>2 DEF SessionState
<1> HIDE DEF ss, b
<1>5. KeepsWork(cn, cn) /\ KeepsWork(cn, Release(cn, c))
    BY <1>1, ClientWork
<1>6. b # Null => KeepsWork(cn, Release(cn, b))
    BY <1>1, <1>4, ClientWork
<1>7. Pinned(s, ss, cn) => KeepsWork(cn, conn')
    BY <1>1, <1>4, PinnedWork
<1> QED
    BY <1>3, <1>5, <1>6, <1>7

\* The rows of a client and the row that is queued on it are placed on its shard.
LEMMA PlacedRows ==
    ASSUME TypeInv, RouteInv, NEW c \in Client
    PROVE  /\ \A x \in conn[c].work : ShardOf[x.tid] = HostOf[c]
           /\ conn[c].queue # << >> /\ Head(conn[c].queue).op = "DATA" =>
                /\ Head(conn[c].queue).row \in Row
                /\ ShardOf[Head(conn[c].queue).row.tid] = HostOf[c]
<1>1. ClientPlaced(conn[c], HostOf[c]) /\ conn[c].queue \in Seq(Request)
    BY ClientType DEF RouteInv, Placed
<1>2. ASSUME conn[c].queue # << >>
      PROVE  /\ Head(conn[c].queue) = conn[c].queue[1] /\ 1 \in 1..Len(conn[c].queue)
             /\ Head(conn[c].queue) \in Request
    BY <1>1, <1>2, HeadTailProperties, EmptySeq, LenProperties
<1>3. ASSUME conn[c].queue # << >>, Head(conn[c].queue).op = "DATA"
      PROVE  /\ Head(conn[c].queue).row \in Row
             /\ ShardOf[Head(conn[c].queue).row.tid] = HostOf[c]
    <2>1. RequestPlaced(Head(conn[c].queue), HostOf[c])
        BY <1>1, <1>2, <1>3 DEF ClientPlaced
    <2> QED
        BY <1>2, <1>3, <2>1 DEF RequestPlaced, Request
<1> QED
    BY <1>1, <1>3 DEF ClientPlaced

\* A statement outside a transaction is an Autocommit, or failed.
LEMMA AutoPromise ==
    ASSUME TypeInv, RouteInv, TxInv, NEW s \in Session, NEW c \in Client,
           NEW ok \in BOOLEAN, NEW r, NEW cn, Serves(s, c, r, ok, cn),
           BorrowedClient(s, c, r)
    PROVE  Promise!Next \/ UNCHANGED Promise!vars
<1>1. ServedState(s, c, r, ok, cn)
    BY ServesFacts
<1>2. r.op = "DATA" /\ ~r.row.tx /\ conn[c].tx = "idle" /\ conn[c].work = {}
    BY DEF BorrowedClient, AutoHeld
<1>3. cn[c].work = conn[c].work
    BY <1>1, <1>2 DEF ServedState, WorkAfter, EndsTx
<1>4. KeepsWork(conn, conn')
    BY <1>1, <1>3, ServedWork DEF KeepsWork, ServedState
<1>5. CASE ~ok
    <2>1. durable' = durable
        BY <1>1, <1>5 DEF ServedState, RowsCommitted
    <2> QED
        BY <1>4, <2>1, Stutters
<1>6. CASE ok
    <2>1. RowsCommitted(conn[c], r, ok) = {r.row}
        BY <1>2, <1>6 DEF RowsCommitted
    <2>2. r.row \in Row /\ ShardOf[r.row.tid] = HostOf[c]
        BY <1>2, PlacedRows DEF Serves
    <2>3. durable' = [durable EXCEPT ![HostOf[c]] = @ \cup {r.row}]
        BY <2>1 DEF Serves
    <2> DEFINE row == r.row
    <2>4. row \in Row /\ ~row.tx
          /\ durable' = [durable EXCEPT ![ShardOf[row.tid]] = @ \cup {row}]
        BY <1>2, <2>2, <2>3
    <2> HIDE DEF row
    <2> QED
        BY <1>4, <2>4, OneMoreRow
<1> QED
    BY <1>5, <1>6

\* A request of a transaction writes, commits, or loses its rows.
LEMMA TxPromise ==
    ASSUME TypeInv, RouteInv, TxInv, "commit" \notin Faults,
           NEW s \in Session, NEW c \in Client,
           NEW ok \in BOOLEAN, NEW r, NEW cn, Serves(s, c, r, ok, cn),
           OwnClient(s, c, r)
    PROVE  Promise!Next \/ UNCHANGED Promise!vars
<1>1. ServedState(s, c, r, ok, cn)
    BY ServesFacts
<1>2. /\ sess[s].txClient = c /\ TxHeld(conn[c], s, pump[s], hist[s])
      /\ r.op \in {"BEGIN", "DATA", "COMMIT", "ROLLBACK"}
      /\ r.op = "DATA" => OwnRow(r.row, s, hist[s]) /\ pump[s].pc = "txQuery"
    BY DEF OwnClient, Tag
<1>3. \A x \in conn[c].work : OwnRow(x, s, hist[s])
    BY <1>2 DEF TxHeld
<1>4. /\ conn'[c].work = WorkAfter(conn[c], r, ok)
      /\ \A d \in Client \ {c} : conn'[d].work = conn[d].work
    BY <1>1, ServedWork DEF KeepsWork, ServedState
<1>5. \A x \in conn'[c].work : x.s = s
    BY <1>2, <1>3, <1>4 DEF WorkAfter, OwnRow
<1> DEFINE after == [q \in Session |-> OpenRows(q)']
           open == [q \in Session |-> OpenRows(q)]
<1>6. /\ OpenRows(s) = conn[c].work
      /\ after = [open EXCEPT ![s] = conn'[c].work]
    BY <1>2, <1>4, <1>5, OpenFrame
<1>7. open[s] = conn[c].work
    BY <1>6
<1>8. CASE conn'[c].work = {} /\ durable' = durable
    <2>1. Promise!Abort(s)
        BY <1>6, <1>8 DEF Promise!Abort
    <2> QED
        BY <2>1 DEF Promise!Next
<1>9. CASE ~ok \/ r.op = "ROLLBACK"
    <2>1. conn'[c].work = {} /\ RowsCommitted(conn[c], r, ok) = {}
        BY <1>4, <1>9 DEF WorkAfter, RowsCommitted, EndsTx
    <2> QED
        BY <1>1, <1>8, <2>1 DEF ServedState
<1>10. CASE ok /\ r.op = "BEGIN"
    <2>1. /\ conn'[c].work = conn[c].work /\ RowsCommitted(conn[c], r, ok) = {}
        BY <1>4, <1>10 DEF WorkAfter, RowsCommitted, EndsTx
    <2>2. KeepsWork(conn, conn') /\ durable' = durable
        BY <1>1, <1>4, <2>1 DEF KeepsWork, ServedState
    <2> QED
        BY <2>2, Stutters
<1>11. CASE ok /\ r.op = "DATA"
    <2>1. conn[c].tx = "open"
        <3>1. conn[c].tx # "failed"
            BY <1>11 DEF Serves, MayAnswer
        <3>2. conn[c].tx # "idle"
            BY <1>2, <1>11 DEF TxHeld
        <3>3. conn[c].tx \in {"idle", "open", "failed"}
            BY ClientType DEF Connection
        <3> QED
            BY <3>1, <3>2, <3>3
    <2>2. RowsCommitted(conn[c], r, ok) = {}
        BY <1>11, <2>1 DEF RowsCommitted
    <2>3. durable' = durable
        BY <1>1, <2>2 DEF ServedState
    <2> DEFINE row == r.row
    <2>4. conn'[c].work = conn[c].work \cup {row}
        BY <1>4, <1>11, <2>1 DEF WorkAfter, EndsTx
    <2>5. row \in Row /\ ShardOf[row.tid] = HostOf[c] /\ OwnRow(row, s, hist[s])
        BY <1>2, <1>11, PlacedRows DEF Serves
    <2>6. \A q \in conn[c].work : q.unit = row.unit /\ ShardOf[q.tid] = ShardOf[row.tid]
        BY <1>3, <2>5, PlacedRows DEF OwnRow
    <2> HIDE DEF row
    <2>7. Promise!Write(row)
        <3>1. row.tx /\ row.s = s
            BY <2>5 DEF OwnRow
        <3>2. after = [open EXCEPT ![row.s] = @ \cup {row}]
            BY <1>6, <1>7, <2>4, <3>1
        <3>3. \A q \in open[row.s] : q.unit = row.unit /\ ShardOf[q.tid] = ShardOf[row.tid]
            BY <1>7, <2>6, <3>1
        <3> QED
            BY <2>3, <3>1, <3>2, <3>3 DEF Promise!Write
    <2> QED
        BY <2>5, <2>7 DEF Promise!Next
<1>12. CASE ok /\ r.op = "COMMIT"
    <2>1. conn'[c].work = {} /\ RowsCommitted(conn[c], r, ok) = conn[c].work
        BY <1>4, <1>12 DEF WorkAfter, RowsCommitted, EndsTx
    <2>2. durable' = [durable EXCEPT ![HostOf[c]] = @ \cup conn[c].work]
        BY <2>1 DEF Serves
    <2>3. CASE conn[c].work = {}
        <3>1. durable' = durable
            BY <1>1, <2>1, <2>3 DEF ServedState
        <3> QED
            BY <1>8, <2>1, <3>1
    <2>4. CASE conn[c].work # {}
        <3>1. durable' = [h \in Shard |->
                            durable[h] \cup {x \in open[s] : ShardOf[x.tid] = h}]
            <4>1. \A x \in conn[c].work : ShardOf[x.tid] = HostOf[c]
                BY PlacedRows
            <4>2. ASSUME NEW h \in Shard
                  PROVE  {x \in open[s] : ShardOf[x.tid] = h}
                           = IF h = HostOf[c] THEN conn[c].work ELSE {}
                BY <1>7, <4>1
            <4>3. durable \in [Shard -> SUBSET Row] /\ HostOf[c] \in Shard
                BY ConstantsAssumption DEF TypeInv, TypeOK
            <4>4. durable' = [h \in Shard |->
                     durable[h] \cup (IF h = HostOf[c] THEN conn[c].work ELSE {})]
                BY <2>2, <4>3
            <4> HIDE DEF open
            <4> QED
                BY <4>2, <4>4
        <3>2. Promise!Commit(s)
            BY <1>6, <1>7, <2>1, <2>4, <3>1 DEF Promise!Commit
        <3> QED
            BY <3>2 DEF Promise!Next
    <2> QED
        BY <2>3, <2>4
<1> QED
    BY <1>2, <1>9, <1>10, <1>11, <1>12

\* The process ends, and every transaction with it.
LEMMA CrashPromise ==
    ASSUME Crash, durable' = durable
    PROVE  Promise!Next
<1>1. ASSUME NEW q \in Session PROVE OpenRows(q)' = {}
    <2>1. \A x : x \notin RowsOf(conn', q)
        BY RowsIn DEF Crash, IdleConn
    <2>2. RowsOf(conn', q) = {}
        BY <2>1
    <2> QED
        BY <2>2, OpenIs
<1>2. Promise!Crash
    BY <1>1 DEF Promise!Crash
<1> QED
    BY <1>2 DEF Promise!Next

\* A backend is lost: its statement was executed or not, or the process ends.
LEMMA BackendLostPromise ==
    ASSUME TypeInv, RouteInv, TxInv, NEW c \in Client, BackendLost(c)
    PROVE  Promise!Next \/ UNCHANGED Promise!vars
<1> DEFINE r == Head(conn[c].queue)
<1>1. CASE /\ Autocommits(c) /\ Len(conn[c].queue) = 1
           /\ \E rows \in {{}, {r.row}} :
                durable' = [durable EXCEPT ![HostOf[c]] = @ \cup rows]
           /\ Throw(r.s, sess[r.s], [conn EXCEPT ![c] = IdleConn])
    <2>1. conn[c].queue \in Seq(Request) /\ conn[c].queue # << >>
        BY <1>1, ClientType, EmptySeq
    <2>2. r = conn[c].queue[1]
        BY <2>1, HeadTailProperties
    <2>3. r.op = "DATA" /\ pump[r.s].pc = "autoQuery"
        BY <1>1, <2>1, <2>2 DEF Autocommits
    <2>4. r.row \in Row /\ ShardOf[r.row.tid] = HostOf[c]
        BY <2>1, <2>3, PlacedRows
    <2>5. conn' = [conn EXCEPT ![c] = IdleConn]
        BY <1>1 DEF Throw, Answered
    <2> DEFINE row == r.row
    <2>6. \/ durable' = [durable EXCEPT ![HostOf[c]] = @ \cup {}]
          \/ durable' = [durable EXCEPT ![HostOf[c]] = @ \cup {row}]
        BY <1>1
    <2> HIDE DEF r
    <2>7. r = Head(conn[c].queue)
        BY DEF r
    <2>8. PICK s \in Session : /\ r.s = s
                               /\ OwnClient(s, c, r) \/ BorrowedClient(s, c, r)
        BY <2>1, <2>7, QueuedBy
    <2>9. ~row.tx /\ conn[c].work = {}
        BY <2>3, <2>8 DEF OwnClient, BorrowedClient, AutoHeld
    <2>10. row \in Row /\ ShardOf[row.tid] = HostOf[c]
        BY <2>4
    <2>11. KeepsWork(conn, conn')
        BY <2>5, <2>9 DEF KeepsWork, IdleConn, TypeInv, TypeOK
    <2> HIDE DEF row
    <2>12. CASE durable' = [durable EXCEPT ![HostOf[c]] = @ \cup {}]
        <3>1. durable' = durable
            BY <2>12 DEF TypeInv, TypeOK
        <3> QED
            BY <2>11, <3>1, Stutters
    <2>13. CASE durable' = [durable EXCEPT ![HostOf[c]] = @ \cup {row}]
        <3>1. durable' = [durable EXCEPT ![ShardOf[row.tid]] = @ \cup {row}]
            BY <2>10, <2>13
        <3> QED
            BY <2>9, <2>10, <2>11, <3>1, OneMoreRow
    <2> QED
        BY <2>6, <2>12, <2>13
<1>2. CASE Crash /\ durable' = durable
    BY <1>2, CrashPromise
<1> QED
    BY <1>1, <1>2 DEF BackendLost

---------------------------------------------------------------------------
\* A step of the sessions, pools and backends is a step of the promise, or none.
LEMMA PromiseStep ==
    ASSUME "socket" \notin Faults, "commit" \notin Faults
    PROVE  TypeInv /\ RouteInv /\ TxInv /\ [Next]_vars => [Promise!Next]_Promise!vars
<1> SUFFICES ASSUME TypeInv, RouteInv, TxInv, [Next]_vars
             PROVE  Promise!Next \/ UNCHANGED Promise!vars
    OBVIOUS
<1>1. ASSUME NEW s \in Session, Receive(s) \/ Step(s) \/ ConnectFails(s)
      PROVE  UNCHANGED Promise!vars
    BY <1>1, SessionWork, Stutters
<1>2. ASSUME NEW s \in Session PROVE ~SocketError(s) /\ ~SocketClose(s)
    BY DEF SocketError, SocketClose
<1>3. ASSUME NEW c \in Client, Serve(c)
      PROVE  Promise!Next \/ UNCHANGED Promise!vars
    <2>1. PICK s \in Session, ok \in BOOLEAN : \E r, cn :
            /\ Serves(s, c, r, ok, cn)
            /\ OwnClient(s, c, r) \/ BorrowedClient(s, c, r)
        BY <1>3, ServeCases
    <2>2. PICK r, cn : /\ Serves(s, c, r, ok, cn)
                       /\ OwnClient(s, c, r) \/ BorrowedClient(s, c, r)
        BY <2>1
    <2>3. CASE OwnClient(s, c, r)
        BY <2>2, <2>3, TxPromise
    <2>4. CASE BorrowedClient(s, c, r)
        BY <2>2, <2>4, AutoPromise
    <2> QED
        BY <2>2, <2>3, <2>4
<1>4. ASSUME NEW c \in Client, BackendLost(c)
      PROVE  Promise!Next \/ UNCHANGED Promise!vars
    BY <1>4, BackendLostPromise
<1>5. CASE UNCHANGED vars
    <2>1. KeepsWork(conn, conn') /\ durable' = durable
        BY <1>5 DEF vars, KeepsWork
    <2> QED
        BY <2>1, Stutters
<1> QED
    BY <1>1, <1>2, <1>3, <1>4, <1>5 DEF Next

\* The proxy keeps its promise: what clients can see of ProxySession is a behaviour of
\* RoutedTransactions, for any sessions, tids, shards, pools and messages.
THEOREM PromiseKept ==
    ASSUME "socket" \notin Faults, "commit" \notin Faults
    PROVE  Spec => Promise!Spec
<1>1. Init => Promise!Init
    <2> SUFFICES ASSUME Init PROVE Promise!Init
        OBVIOUS
    <2>1. ASSUME NEW q \in Session PROVE OpenRows(q) = {}
        <3>1. \A x : x \notin RowsOf(conn, q)
            BY RowsIn DEF Init, IdleConn
        <3>2. RowsOf(conn, q) = {}
            BY <3>1
        <3> QED
            BY <3>2, OpenIs
    <2> QED
        BY <2>1 DEF Init, Promise!Init
<1>2. TypeInv /\ RouteInv /\ TxInv /\ [Next]_vars => [Promise!Next]_Promise!vars
    BY PromiseStep
<1>3. Init => RouteInv
    BY RouteInit
<1>4. TypeInv /\ RouteInv /\ [Next]_vars => RouteInv'
    BY RouteStep
<1> QED
    BY <1>1, <1>2, <1>3, <1>4, TypeInvHolds, TxInvHolds, PTL DEF Spec, Promise!Spec
===========================================================================
